# TP KISS: verification

TLA+ models of the four processes of this repository (kernel, CPU, memory server,
consoles), the TLC configurations that check them on small instances, and proofs
checked by TLAPS. Everything is translated from the C sources; source references
below are relative to `src/`, and `PROJECT.json` ("map") has the exact lines of every
definition.

Commands, from this directory: `tlc -config X.cfg M` for a run of the table in
section 4, `tlapm M.tla` for a module of proofs.

## 1. The system

A console sends a program to the kernel and waits for the answer. The kernel keeps
one `t_pcb` per program and moves it through the queues of three planners. It sends a
pcb to the CPU process over the *dispatch* connection, may interrupt it over the
*interrupt* connection, and gets the pcb back with a condition that says why it left.
The CPU translates addresses with an MMU and a TLB and asks the memory server for
tables, frames and data. The kernel asks the memory server to create, swap out and
free processes.

| component | state | operations | talks to | what makes it correct |
|---|---|---|---|---|
| long-term planner `kernel/src/planner.c` | queues new, suspended_ready, exit; `ltp_sem_plan`, `ltp_sem_exit`, `ltp_sem_multiprogramming_level` | `ltp_new_process`, `ltp_new_controller`, `ltp_exit_controller`, moves to NEW and EXIT | consoles, memory | the degree is never exceeded nor lost; every process ends and its console hears what happened |
| medium-term planner and timers `kernel/src/planner.c`, `shared/src/timer.c` | queue blocked; `mtp_sem_planner`, `mtp_sem_io`, `mtp_mutex_blocking_process`; one I/O timer and one suspension timer per blocked process | `mtp_blocked_controller`, `mtp_block_pcb`, `mtp_unblock_pcb`, `mtp_suspend_pcb`, moves to BLOCKED, SUSPENDED_* | memory (swap) | one process uses the device at a time; the two timers of a process may end in any order |
| short-term planner `kernel/src/planner.c` | queue ready, `planner->exec`; `stp_sem_plan`, `stp_sem_dispatch`, `stp_sem_interrupt` | both `move_pcb_to_ready`, the two controllers (one loop), the two `incomming_dispatch` | CPU | one process on the CPU; READY sorted under SRT; one interrupt in flight |
| kernel's CPU connection `kernel/src/icpu.c` | `cpu->busy`, `cpu->interrupted` | `cpu_dispatch_pcb`, `cpu_interrupt`, the listener thread | CPU | flags agree with what the CPU does |
| CPU `cpu/src/cpu.c`, `cicloInstruccion.c` | the pcb, `hay_interrupcion`, `enviar_pcb_o_exit` | `handle_dispatch`, `handle_interrupt`, the instruction cycle | kernel, memory | a system call is never lost, an interrupt acts soon |
| MMU and TLB `cpu/src/mmu.c`, `tlb.c` | list of TLB entries | `direccionFisica`, `buscar_marco`, `reemplazar_entrada`, `limpiar_tlb` | memory | an entry names the frame that holds the page |
| memory server `memoriaswap/src/tablas.c`, `memoriaswap.c` | page tables, register of frames, memory, one swap file per process | create, suspend, free; find a frame, read, write; CLOCK and CLOCK-M | kernel, CPU | frames are not shared nor leaked; a page keeps its contents in memory and in swap |
| thread monitor `shared/src/thread_monitor.c` | count and list of threads, `terminated`, a semaphore | new, subscribe, unsubscribe, `terminate_and_wait`, destroy | socket handler | the wait ends, and not before the threads |
| socket handler `shared/src/socket_handler.c`, `conexiones.c` | a handler per connection (`connected`, `disconnecting`, `error`), its threads | connect, listen, accept, send, receive, disconnect, destroy | everybody | a message arrives whole and as sent or as an error; both ends agree on a handshake; a handler is destroyed once |
| console server `kernel/src/iconsole.c` | a handler per console, handed from thread to thread | handshake, receive a program, `console_terminate` | consoles, long-term planner | each accepted console is answered and closed by the last thread that owns it |
| console `consola/src/console.c`, `parser.c` | its connection; the program it read | parse, connect, handshake, submit, wait, end | kernel | it always ends; an accepted source file means what it says |
| start and stop `kernel/src/kernel.c`, `imemory.c`, `icpu.c` | `halt`, the modules | `kernel_execute`, `kernel_terminate`, `planner_stop`, the module stops | everybody | the start ends in any order of the processes; the stop wakes every controller |
| serialization `shared/src/kiss.serialization.c`, `serialization.c`, `kiss.structs.c` | none | one pair of functions per kind of message | everybody | what is read back is what was put in |
| linked list `shared/src/list.c` | first, last, size, the links | push, pop, insert, remove, iterate, find | memory server | it is a sequence, read from either end |
| utilities, configuration, logs, mocks, test programs | | | | not modelled (section 6) |

**What is hard.** Five kinds of kernel threads (console threads, two long-term
controllers, the blocked controller, the ready controller, timer threads, the
listener) share the pcbs without locking them: only the queues are locked, and a
status is read in one thread and written in another. Semaphores count things that
other threads take. Two timers of one process race each other and the cancellation
(`timer_cancel` only sets a flag). The interrupt travels on its own connection and can
reach the CPU before the pcb, during the burst or after its end. The memory server
replaces pages while the CPU holds translations. `timer_start` and the requests to the
memory server may fail half way. The CPU or a console may die with messages on the way:
the first send after that succeeds, the next one may end the sender with SIGPIPE, which
no process handles. The kernel may be stopped wherever its threads are. The processes
start in any order, and a server accepts before its process is ready. "hazards" in
`PROJECT.json` lists each at its line.

## 2. Modules

| module | models | reading guide |
|---|---|---|
| `PlannerState` | `t_planner`, `t_pcb` and the moves between queues | the shared VARIABLES; a semaphore is a counter, a queue a sequence, a thread its program counter and the pcb in its hand |
| `ReadyQueue` | `compare_ready_pcb__str`, `squeue_insert_in_order` | pure operators |
| `LongTermPlanner`, `MediumTermPlanner`, `ShortTermPlanner` | the threads of each planner | one action between two points where another thread can come in; each `sem_wait` is an action of its own |
| `Planner` | the three together | `Init`, `Next`, fairness, all the planner's properties |
| `ProcessLifeCycle` | abstract: the seven-state life cycle with a degree and one CPU | implemented by `Planner` (`LifeCycleSpec`) |
| `Clock` | which page CLOCK and CLOCK-M choose | pure operators |
| `PlannerStop` | `Planner` with a CPU that dies and a kernel that is stopped | `GoOn` is a step of `Planner`; the rest is `stp_dispatch_error`, `kernel_terminate`, `planner_stop`, `cpu_module_stop` |
| `ClockLoop` | the loops of `tablas.c` turn by turn | recursive; compared with `Clock` for every state of the bits |
| `Tablas`, `Tlb` | `tablas.c`; `tlb.c` | each function is an operator from state to state |
| `Memoria` | the memory server between kernel and CPU | a request is one step (`sem_request`); an access of the CPU is two |
| `EspacioLogico` | abstract: each process has its own pages that hold what was last written | implemented by `Memoria` (`LogicoSpec`) |
| `CicloInstruccion` | `handle_dispatch`, `ejecutar_pcb`, `handle_interrupt` | every read and write of the shared flag is a step |
| `ThreadMonitor` | `thread_monitor.c` and the threads of the socket handler that use it | |
| `Red` | `socket_handler.c` over `conexiones.c`: connections, servers, sends and receives of whole messages, the end of a process | two sides per connection, named by its client; `hilo` says where the thread that has a side is |
| `Sistema` | start, handshakes and ends of memory server, CPU, kernel and consoles | EXTENDS `Red`; one operator per function of the C code, which names the stage it goes to |
| `Serializacion` | the bytes of every message and what is read back | pure operators, integers as bytes of `Base` values |
| `Parser` | `consola/src/parser.c` | pure operators: from lines to a program |
| `Conexion` | `send_message` and `recieve_message` over one direction of a connection cut at any byte | each `recv` is a step |
| `Secuencia` | abstract: what a list promises | implemented by `Lista` (`EsUnaSecuencia`) |
| `Lista` | `list.c` node by node over a heap | each call is a step, with `malloc` that may fail, positions past the end and iterators that may be old or null; the programs themselves call `pushbacklist`, `popfrontlist`, `atlist` and `sizelist` |
| `MCPlanner`, `MCPlannerStop`, `MCMemoria`, `MCSistema` | | symmetry sets, the programs and the ports of the consoles |
| `MCBiblioteca` | | `ThreadMonitor`, `Lista`, `CicloInstruccion`, `Conexion`, `Parser` and `ClockLoop` side by side: a behaviour is of one of them, so that their state spaces add up |
| `PlannerProofs`, `PlannerOwnerProofs`, `PlannerLifeCycleProofs` | | proofs, section 5, of `ReadyQueue`, `Planner` and `PlannerStop`; each EXTENDS the one before, and the first EXTENDS `PlannerStop` |
| `SistemaProofs`, `MemoriaProofs`, `CicloInstruccionProofs`, `ThreadMonitorProofs`, `ListaProofs` | | proofs, section 5; each EXTENDS the module it is about |

Composition: `Planner` EXTENDS the three planners over `PlannerState`, and `PlannerStop`
EXTENDS `Planner`. `Sistema` composes the four kinds of process over the connections of
`Red`; in it the planner is what a console can see of it (a pcb that makes the CPU fall, or ends, with success
only on a CPU that is alive, followed by `console_terminate` in the exit controller's
thread), and what is said after the handshakes is left to `Memoria`, `CicloInstruccion`
and `ShortTermPlanner`. `Red` takes messages whole, which is what `Conexion` shows of
them byte by byte. The CPU process also appears twice with its work: inside `ShortTermPlanner` as what the kernel can observe of it
(`CpuReceive`, `CpuInterrupt`, `CpuReturn`), and opened up in `CicloInstruccion`, whose
property `RespuestaDelPlanner` states the answers `CpuReturn` allows. In the same way
the memory server appears in the planner as the outcome of a request and in `Memoria`
in full; `Memoria` has the kernel as the order of requests the planner can make (a
level of the degree is taken before a process enters, and given back before its memory
is freed).

Definitions whose comment starts with *Slip* are not part of any specification: they
are the mistakes the properties are tried against ("mutants" in `PROJECT.json`), each
of which makes its property fail.

## 3. Abstractions

- **Time.** No duration is modelled. A sleeping timer may end at any moment, so every
  order of an I/O and a suspension is a behaviour. A burst takes any value of `Bursts`.
- **Programs.** For the planner a program is what the CPU can return: up to `MaxIO`
  I/O system calls and then EXIT, or an error, with an interrupt wherever one is
  pending. `CicloInstruccion` has programs of real instruction codes, and nobody promises
  that one has EXIT: the parser does not ask for it, and a program without it makes the CPU
  fall. For the planner that is a CPU that dies (`PlannerStop`). In `Sistema` a program is
  one with instructions or one without (`ProgramasDe`), and either kind of fall of the CPU
  is a step of `ejecutar_pcb`.
- **Atomicity.** An action ends where another thread can observe or disturb: at each
  semaphore, mutex and shared flag. Writes to a pcb that nobody else can see at that
  point go with the step they belong to. Where the order matters, as in
  `move_pcb_to_ready__srt` (insert, write status, look at `busy`, wait, send, set
  flag), each is a step. The C code accesses `status`, `busy` and `hay_interrupcion`
  without a lock; each access is taken to be indivisible.
- **Freed memory.** A pcb that was destroyed keeps its contents for a late reader, and
  a late write to it is lost (`Alive`).
- **The end of a peer.** What the operating system does is a choice over what it can do.
  A process that ends with all it got read looks like an end of stream (`"fin"`); one
  that ends with data unread, or gets data after its end, resets the connection
  (`"reset"`: reported once, then `"rota"`). A send to a closed peer succeeds once, and
  after the reset was reported it ends the sender with SIGPIPE.
- **Messages.** In `Red` a message is whole and its content one word. In `Conexion` and
  `Serializacion` it is its bytes, each of `Base` values instead of 256, so that the
  width of an integer, its sign and a size whose first bytes are zero are there, and a
  byte that nobody wrote is `Basura`.
- **Unreachable branches kept.** The branches where a console server is told it talks to
  a kernel or CPU (`"rechaza_codigo"`) and where the memory server gets an error that is
  not the end (`"error"`) are in the model as in the code, and never taken: no process
  of the system sends that.
- **Data.** A page holds one datum; offsets inside a page and logs
  are left out. `PosicionesSwap` is the range of positions the code can compute,
  including those past the file's end.
- **External code.** pthreads, semaphores and the commons library are modelled by the
  way the code uses them.

## 4. Runs

Constants not in the table are in the .cfg. All runs are exhaustive. They say
CHECK_DEADLOCK FALSE, because the system stops by itself: all processes answered, all
programs ended, the monitor destroyed, the kernel stopped. That nothing stops *too early*
is a property instead (`NobodyStranded`, `EveryProcessAnswered`, `StrandedOnlyByLostLink`,
`StopEndsControllers`, `TerminateReturns`, `ArranqueTermina`, `ConsolaTermina`).

| run | instance | checks | shows |
|---|---|---|---|
| `planner_fifo` | 3 processes, degree 2, one I/O each, FIFO | TypeOK, SemaphoresCountQueues, CpuExclusive, AnswerIsTrue, LifeCycleSpec | the planners implement the life cycle; semaphores are exact; consoles are told the truth |
| `planner_reblock` | 2 processes, two I/Os each, fairness | DegreeConservation, OneOwner, EveryProcessAnswered | a suspension timer of an earlier blocked period harms neither the degree nor ownership, and everyone is answered |
| `planner_srt` | 2 processes, SRT, bursts of 4, timers and swaps may fail | InterruptToken, ReadySorted, IoDeviceExclusive, NobodyStranded | preemption neither loses nor doubles the token, READY stays sorted, the failure paths release the device once and leave nobody inside |
| `planner_srt_degree` | 2 processes, SRT, bursts 1 and 3 | DegreeBound (violated) | first divergence of section 7 |
| `planner_stop` | 2 processes, SRT; the CPU dies or the kernel is stopped | NeverPopsEmpty, StrandedOnlyByLostLink, StopEndsControllers | a lost CPU ends its process and no other, the stop ends every controller, but for the cases the properties name |
| `memoria_clock_m` | 1 process, 3 pages, 2 frames, CLOCK-M, one-entry TLB | TypeOK, PaginaLimpiaEstaEnSwap, LogicoSpec | replacement and suspension lose no write |
| `memoria_procesos` | 2 processes, 2 pages, 1 frame each, CLOCK | MarcosConsistentes, SoloOcupanLosPresentes, MarcosSuficientes, TlbCoherente | processes keep apart through start, suspension, resumption and end |
| `memoria_stale_tlb` | 1 process, 3 pages, 2 frames, 2 TLB entries | TlbCoherente (violated) | second divergence |
| `memoria_swap_slot` | 3 pages in tables of 2 entries | EscribeEnSuPosicion (violated) | third divergence |
| `biblioteca` | six parts one by one (below) | WaitsForCounted, TerminateReturns; RecibeLoEnviado; MismaAlReves, EsUnaSecuencia; NadaTrasExit, LlamadaLlegaAlKernel, InterrumpeEnSeguida, RespuestaDelPlanner; VictimasDelBucle; ExitAlFinal | the monitor waits long enough and not forever; messages; the list; interrupts at any point of a burst do not hide a system call; the victim loops; the parser |
| `biblioteca_pcb` | the same, one message | PcbLlegaEntero (violated) | fourth divergence |
| `kernel` | memory server, CPU, kernel and 2 consoles | TypeOK, SaludoCoincide, ManejadorDestruidoAlFinal, SigpipeSoloPorMatada, DispatchServerNoEsNulo, ArranqueTermina, ConsolaTermina | start in any order, with any of them failing, and a console killed, on the wrong port or with an empty program |

**Why the bounds are enough to be interesting.** Three processes with degree 2 have
one on the CPU, one in I/O and one that waits for a level; two processes with two I/Os
each let a timer of the first blocked period meet the second one and another process
hold the device. Bursts of
4 from an estimate of 1 make the estimates of a process 1, 2 and then 3, so that a pcb is
inserted before a longer one, after a shorter one and among equals. Three pages in two frames always leave one in swap, so every access
may replace a page and CLOCK-M meets all four classes of pages. Two processes with one
frame each make every frame contended. The symmetry of the
processes (`Permutations`) is used only in runs without liveness properties; no
definition names a process.

In `planner_stop` two processes are enough for one on the CPU and one that preempts it or
waits. The kernel is stopped before the first I/O or with one process alone, and not
after the CPU died: the bound of `StopBound`; with one process it can be at any of its
waits, with two at each point where they meet before I/O. The CPU dies at any moment before
both processes had their I/O: after that only their last bursts are left.

In `biblioteca` the CPU has a program with every kind of instruction, some followed by
one that does not end the burst, and one without EXIT that ends after an I/O and a NO_OP,
so that the CPU falls in a burst after its I/O; 4 interrupts
(`MaxInterrupciones`) are more than one per look at the flag. The monitor has 2 threads counted when created and 2 that subscribe
themselves; the list 4 nodes and 2 data, so that there is a middle of more than one node, and
position 0 to one more than the first past its end;
the connection 2 messages (`MaxEnvios`), so that one can be confused with the next, out
of one of each kind, with instructions without and with parameters (in `biblioteca_pcb` one message is
enough); the victim loops 3
frames, all bits and all positions of the hand, so that it wraps; the parser every file
of up to 3 lines with every kind of word and one that is unknown. Bytes have 4 values
(`Base`): sizes then need more than one byte, as they do in the program from 256 on.

In `kernel` one console is well configured and submits a program with instructions; the
other has the port of any of the four servers, and a program with instructions or without
(`MCProgramas`); it is alone when it has another port. Consoles start when the kernel has reached its console server
or has ended; one that starts before finds the port closed, which it also does when the
kernel could not open it. The second console (`Matables`) may be killed, at any moment; when both
use the console port either could be, as nothing tells them apart. Memory server, CPU and
kernel start at any moment or never.

**What a passing memory run assumes.** The pages of a process fit in one second-level
table and the TLB has one entry: with more tables, or more entries and more pages than
frames, the contents are wrong, as section 7 says. The passing runs show that nothing
else is.

**Fairness.** `EveryProcessAnswered` assumes WF of the kernel's threads and the CPU
together: the executions of the model are finite (programs have at most `MaxIO` I/Os
and the kernel sends an interrupt only for a move), so this says no more than that the
system does not stop while one of its threads can move, which the operating system's
scheduler gives. Consoles need not submit. `TerminateReturns` assumes that each thread
that exists goes on and that its routine ends, and that the main thread goes on; nobody
has to create a thread or to terminate the monitor. `ArranqueTermina` and
`ConsolaTermina` assume WF of `Pasos`, the threads of all processes together: a thread
that can go on is not stopped for ever. Nobody has to start a process or to kill one, a
thread that waits for a message waits as long as none comes, and every behaviour of
`Sistema` is finite, so that this is the scheduler's promise and no more.

## 5. Proofs

TLAPS checks these for every value of the constants, from the named assumptions of the
modules (`PlannerAssumption`, `MonitorAssumption`, `ProgramaAssumption`,
`ConsolasAssumption`, `ProgramasAssumption`, `NodosAssumption`, and `TablasAssumption`, `MarcosAssumption`,
`TlbAssumption`, `MemoriaAssumption`) and the hypotheses of the third column, which are
part of the theorem. `ProgramaAssumption` says of a program only that it has an instruction,
which `console_handler` looks at before it gives it to the planner.

| theorem | states | hypotheses | argument |
|---|---|---|---|
| `InsertInOrder` (PlannerProofs) | `squeue_insert_in_order` keeps every pcb and keeps READY sorted | | the position found is the first longer pcb; all before it are not longer |
| `TypeCorrect` (PlannerProofs) | TypeOK | | `CpuInv` |
| `OneProcessOnCpu` (PlannerProofs) | CpuExclusive | | `CpuInv` |
| `OneInterruptAtATime` (PlannerProofs) | InterruptToken | | the set `Interrupting` gains or loses one mover as the semaphore loses or gains one |
| `SemaphoresCount` (PlannerProofs) | SemaphoresCountQueues | | one count per semaphore, and who may post it |
| `OneProcessOnDevice` (PlannerProofs) | IoDeviceExclusive | | the device is free, reserved or used, and the three add up to one |
| `PopsFindAProcess` (PlannerProofs) | NeverPopsEmpty, with a CPU that dies and a kernel that is stopped | | `RunningInv` |
| `CountedUntilStop` (PlannerProofs) | SemaphoresCountQueues and IoDeviceExclusive while `~halt`, with a CPU that dies | | `RunningInv` |
| `EveryProcessOneOwner` (PlannerOwnerProofs) | OneOwner | `~SwapMayFail` | `WorkingInv`, `OwnersExact` |
| `ReadyIsSorted` (PlannerOwnerProofs) | ReadySorted | | `InsertInOrder`, `WorkingInv` |
| `NoLevelIsLost` (PlannerLifeCycleProofs) | DegreeConservation | `Faultless` | `LifeInv`, `LifeStep` |
| `PlannerIsALifeCycle` (PlannerLifeCycleProofs) | LifeCycleSpec: `Planner` implements `ProcessLifeCycle` | `Faultless` | `LifeInv`, `LifeStep` |
| `ConsolesHearTheTruth` (PlannerLifeCycleProofs) | AnswerIsTrue | `~SwapMayFail`, `~TimerMayFail` | `HonestInv` |
| `CallReachesKernel` (CicloInstruccionProofs) | LlamadaLlegaAlKernel | | `BurstInv` |
| `NothingAfterExit` (CicloInstruccionProofs) | NadaTrasExit, with or without an EXIT in the program | | `SinExitAtras` |
| `CounterPastTheEnd` (CicloInstruccionProofs) | TypeOKCiclo: the counter is past the last instruction exactly in a CPU that fell | | `DentroDelPrograma` |
| `InterruptTakesEffect` (CicloInstruccionProofs) | InterrumpeEnSeguida | | `Latencia` |
| `AnswersOfTheCpu` (CicloInstruccionProofs) | RespuestaDelPlanner | | `Motivo` |
| `TiposDeMemoria` (MemoriaProofs) | TypeOK | `[]Holgura` | `MemoriaInv` |
| `MarcosEnOrden` (MemoriaProofs) | MarcosConsistentes | `[]Holgura` | `MemoriaInv` and a bijection |
| `MarcosDeLosPresentes` (MemoriaProofs) | SoloOcupanLosPresentes | `[]Holgura` | `MemoriaInv` |
| `SiempreHayMarco` (MemoriaProofs) | MarcosSuficientes | `[]Holgura` | `MemoriaInv` and the pigeonhole principle |
| `TlbAlDia` (MemoriaProofs) | TlbCoherente | `[]Holgura`, `TlbSegura` | what a miss replaces |
| `PaginaLimpiaConservada` (MemoriaProofs) | PaginaLimpiaEstaEnSwap | `[]Holgura`, `UnaTabla` | `ContenidoInv` |
| `MemoriaEsLogica` (MemoriaProofs) | LogicoSpec: `Memoria` implements `EspacioLogico` | `[]Holgura`, `TlbSegura`, `UnaTabla` | `Traduccion` and the contents |
| `MonitorTypes` (ThreadMonitorProofs) | TypeOK | | part of `WaitInv` |
| `CountedAreWaitedFor` (ThreadMonitorProofs) | WaitsForCounted | | `WaitInv` |
| `SistemaTypeCorrect` (SistemaProofs) | TypeOK: at most two messages on their way | | `SistemaInv` |
| `SaludoCoincideSiempre` (SistemaProofs) | SaludoCoincide | | `SistemaInv`: `Aceptada`, `Rechazada` |
| `ManejadorDestruidoSiempre` (SistemaProofs) | ManejadorDestruidoAlFinal, for programs with instructions and without | | `SistemaInv`: `Manejador` |
| `SigpipeSoloPorMatadaSiempre` (SistemaProofs) | SigpipeSoloPorMatada | | `SistemaInv`: no other thread meets `"rota"` |
| `DispatchServerSiempre` (SistemaProofs) | DispatchServerNoEsNulo | | `SistemaInv`: `EtapaInv` |
| `ListaIgualAlReves` (ListaProofs) | MismaAlReves | | `ListaInv` |
| `ListaEsUnaSecuencia` (ListaProofs) | EsUnaSecuencia: `Lista` implements `Secuencia` | | `ListaInv`, one lemma per call |

**What the hypotheses say.** Each leaves out a fault of the code that section 7 lists, and
without it the property can fail, as TLC shows on the model.

- `~SwapMayFail`: a swap that is refused leaves its process in two places and may queue it
  to EXIT twice. `~TimerMayFail`: a refused timer ends its process without the error flag,
  and its console hears SUCCESS.
- `Faultless`: neither of them, and FIFO. Under SRT the status READY is written after the
  insertion and may overwrite a later one, and the degree is no longer conserved
  (`planner_srt_degree`). Ownership, the order of READY, the device, the semaphores, the
  CPU and the answers are proved under SRT too.
- `Holgura`: the processes in memory, those whose memory is still to be freed included, do
  not outnumber the degree. A level is posted before the frames are given back
  (`planner.c:390`, `:532`), so that a new process can start while another still has its
  frames. The lemma `PocosProcesos` proves `Spec => []Holgura` when the processes are not
  more than the degree.
- `TlbSegura`: the TLB has one entry, or a process has no more pages than frames. Nothing
  else keeps an old entry out of it (`memoria_stale_tlb`). It covers a TLB of any size when
  no page is ever replaced, which no run does.
- `UnaTabla`: the pages fit in one second-level table; with more, a page is written to one
  position of the swap file and read from another (`memoria_swap_slot`).

**The planner.**

- `CpuInv == TypeOK /\ CpuExclusive /\ CoreWorksForExec`. Types alone are not
  inductive: `cpu_recieve_pcb_async` uses `planner->exec` without looking whether it is
  null, and it is a pcb only because of `CpuExclusive`; that needs in turn that the CPU
  works only while `planner->exec` names a pcb (`CoreWorksForExec`). The proof has one
  lemma per thread for the types and one for the exclusion, so that the moves of a pcb
  between queues are dealt with once.
- The semaphores: a thread that pushes posts before it lets go, and only the controller of
  a queue takes; each conjunct is a sum that every step leaves alone or changes on both
  sides. For READY the movers that inserted and have not posted yet (`Announcing`) count.
- Ownership: the places that can have a process are counted in two groups, those where it
  lives (`Working`) and those where it ends (`Exiting`). Every step has one of five effects
  on the two counts of a process (`Effect`: it stays, enters, leaves, ends, or a failed swap
  loses it), and `StepEffect` says so for each action. `WorkInv` and `Submitted`
  hold with every fault; that the counts are exact (`OwnersExact`) needs that no swap
  fails. With it a process in hand, in a queue, on the CPU or in I/O is nowhere else.
- READY stays sorted although estimates change: only the thread that owns a pcb writes its
  estimate, and the owner of a pcb in READY is the queue (`ReadyOffCpu`, `OnlyTheirs`).
  Under FIFO, where nothing is inserted in order, all estimates stay equal (`SameBursts`).
- The life cycle: a process is in one place (`OnePlace`), its status is one of those of that
  place (`PlacesSay`, with `SwapSays` for the timer that waits for its swap and `FifoPcs`
  for the threads that under FIFO never get to the interrupt). So a step that moves a pcb
  changes one status, and it changes `Levels`, the semaphore and the level a thread holds
  in its hand, by what the transition asks (`LifeStep`). Both the conservation of the degree
  and the refinement follow from that lemma.
- The answers: `Honest(p)` says that the error flag of a process in EXIT (`Finished`) tells
  whether its program executed EXIT, and that before that only a process whose answer the
  kernel has not looked at yet has executed it (`Retired`); `SendsToIdle` says that a pcb is dispatched to a CPU that has none.

- A CPU that dies and a kernel that is stopped: `RunningInv` says that up to
  `kernel_terminate`, while `~halt`, all of the above about types, the CPU, the semaphores and
  the device (`Running`) still holds, whatever happens to the connections. It is inductive
  only with what is left of a CPU that died: it works on nothing, and at most a pcb it
  returned is still on its way, so that `stp_dispatch_error`, which empties `planner->exec`,
  takes it from nobody. Most steps are steps of `Planner`, and keep `Running` by the lemmas above. After the
  stop it is false, as it should be: `planner_stop` posts semaphores with no process behind
  them, to make the controllers look at `kernel->halt` instead of popping.

**The CPU.** `BurstInv` follows one burst: nothing is decided before `execute`
(`SinDecidir`); after it the condition says which system call it was, and only an interrupt
that found it clear may have written over it (`Decidido`). `CicloInv` adds that the counter has passed
the last instruction only in a CPU that fell (`DentroDelPrograma`), that no EXIT is behind the
instruction that comes next, or behind the one that is still to be told (`SinExitAtras`, for
programs with EXIT or without), that the interrupts seen are not more than those sent
(`SenalesEnviadas`), how many instructions may start once the flag is set (`Latencia`), and
the reason for each condition (`Motivo`).

**The memory.** `MemoriaInv == TablasInv /\ CpuInv`. In `TablasInv` each process with tables
is in order (`Ordenada`: what `MarcosConsistentes` says of it) and each frame that is taken
is registered to a page that is in it, of a process in memory (`RegistroFiel`); `CpuInv`
says that the frames the CPU knows of, in the TLB or for an access, are frames of its
process (`Suyo`). That is why an access never touches another process, with any TLB. The
functions of `tablas.c` have one lemma each, from the record before to the record after
(`Asigna`, `Reemplaza`, `Suelta`, `Toca`), and the actions are proved from those. The frames
that are taken map one to one into `Ocupan \X 1 .. Marcos` (`Suficientes`), so that one is
free while a process has fewer than its share. For the contents, `Mismos(m, n, p)` says that
p finds in n every datum it had in m and that its clean pages stayed clean; every action
conserves all processes but the one it starts, ends or writes to, and an access reaches the
page that was asked for (`Traduccion`, `PaginaPedida`).

**The monitor.** `WaitInv`: while no refused thread counted itself out, the count is the
number of counted threads in their routine (`CountIsRunning`); the semaphore is posted, and
the main thread goes on, only when there are none and none can come.

**The start and the connections.** `SistemaInv` says of each connection by itself, and not of
the consoles together, what its two sockets, the threads of the server and the one of the
client agree on: that is what makes the proof hold for any number of consoles. `SocketsInv`
has the sockets: one side sees the end of the other, and only then (`Extremos`). `ServidorInv`
says where the threads of the server can be with a socket in each state (`LadoServidor`,
`Quien`), and who has the handler of a console (`Pcb`, `Manejador`): the
planner when its program had instructions, else the server's thread. `ClienteInv` goes through the stages
of the client: what may be on its way to each side, and that a client that waits and was not
answered has a server that still will answer, or finds its connection ended (`Saluda`,
`Espera`, `Perdida`). `SaludoCoincide` alone is not inductive: whether a client may read
ACCEPTED depends on what its server's thread sent, and that on what it read. That nobody but
the kernel gets a SIGPIPE needs the same: a second send after a reset would be that of a
thread whose client had not left by itself, and `Matada` says that such a client is a console
that was killed. `EtapaInv` ties the connections and the servers to the stages of the main threads
of kernel and CPU; with it a dispatch server that is disconnected has a kernel that was
accepted on the interrupt port, which the CPU opens later. The calls of
`socket_handler.c` have one lemma each, in equations over the two sides (`EnvioServidor`,
`RecepcionCliente`, ...); a step of one connection is then proved on that connection alone
(`Junta`), and the end of a process on each connection it has (`MuereCliente`,
`MuereServidor`).

**The list.** `ListaInv`: there is a *cadena*, the nodes of the list in their order, all
different, each linked to its neighbours (`EsCadena`). Every push puts one node in it
(`Agregado`) and every pop takes one out (`Sacado`), whichever branch of `list.c` did it, and
`Secuencia` sees the data of its nodes (`ElementosPuestos`, `ElementosSacados`). That going
through the list meets the cadena is an induction over `Recorrido`; as the induction
theorems of the library cannot be used, it is the argument of the least counterexample
(`Menor`, from the well-founded order of the intervals `1..n`).

**Only model-checked.** Liveness under fairness (`EveryProcessAnswered`,
`TerminateReturns`, `ArranqueTermina`, `ConsolaTermina`) and the properties that say ENABLED
(`NobodyStranded`, `StrandedOnlyByLostLink`, `StopEndsControllers`) are out of the prover's
reach, as is what a recursive operator computes for every input: `VictimasDelBucle`
(`ClockLoop`), `ExitAlFinal` (`Parser`) and `RecibeLoEnviado` (the bytes of `Serializacion`
and `Conexion`) are checked on the instances of section 4. Every other property of a
passing run is the property of a theorem above, under its hypotheses.

## 6. Not modelled, and why

- What nobody calls: `kernel_destroy`, `planner_destroy`, `cpu_detener`,
  `send_message_async`.
- Resources the operating system refuses: a failing `pthread_create`, `accept` or
  `malloc` (but for `list.c`, which looks at it).
- `planner_stop` unlocks `mtp_mutex_blocking_process`, which a timer callback may hold: the
  callbacks still take turns in `PlannerStop`, and no property there is about them after
  the stop. In `Sistema` the kernel is not stopped.
- Packages left in `handler->data` (`icpu.c:152`), replies with an unexpected header and
  unknown request codes: no program of the system sends them.
- The memory server dying under the planner: only a swap that is refused is there.
- Failing requests of the CPU to the memory server, except the operand of a COPY.
- Offsets inside a page; durations and their overflow (`timer.c:65`); a process of size 0
  (`tablas.c:85`), which `consola/main.c` does not let through; the request that
  `handle_kernel` reads for its log after it destroyed it (`memoriaswap.c:370`).
- A missing key of a configuration file, which is logged and read all the same; the
  helpers of `data.c`, log and error texts, clock readings: no state that outlives a call.
- Mocks and test programs: read as statements of what the code should do. `kiss.test`
  starts the modules in one process by hand.

## 7. Observed divergences

Kept as runs that end in a violation:

- **READY written late** (`planner_srt_degree`). `planner.c:341` inserts the pcb and
  `planner.c:344-345` writes its status after that: it may have been dispatched and have
  returned by then, and READY overwrites BLOCKED or EXIT. A level of the degree is then
  given back twice, although `kernel_global.h:110` says the semaphore counts EXEC + READY
  + BLOCKED.
- **Stale translation** (`memoria_stale_tlb`). No message tells the CPU that a page was
  replaced; the TLB keeps giving its old frame (`mmu.c:69`).
- **Swap position** (`memoria_swap_slot`). Pages of a second table are written at one
  position of the swap file (`tablas.c:376`, `:532`) and read at another (`:383`, `:431`).
- **The size of a pcb's process does not travel** (`biblioteca_pcb`). The layout over
  `serializar_pcb` has `process_size` (`kiss.serialization.c:198`), and
  `test_serializar_pcb`, the one test that `shared.test/src/main.c:42` enables, compares it
  before and after (`shared.test.c:191`, `kiss.structs.c:216-220`); the field is commented
  out of both functions (`kiss.serialization.c:221-225`, `:292-296`), so that it arrives
  as 0. `RecibeLoEnviado` says that everything else arrives (`Esperado`). No code of the
  four programs depends on it: the CPU does not read it, and the kernel keeps its own pcb.

Seen while modelling and not kept as runs:

- *Late free.* `move_pcb_to_exit` posts the level (`planner.c:390`) before
  `free_allocated_memory` (`:532`), so with one process more than the degree the next one
  may ask for frames that are not free yet; `buscar_marco_libre` then answers -1 and
  `tablas.c:407-426` uses it as an index. In `Memoria` with three processes, degree 2 and
  two frames `MarcosSuficientes` fails; with two processes it holds.
- *Silent failure.* When `timer_start` fails, `planner.c:620` sends the process to EXIT
  without its error flag and the console hears SUCCESS. `AnswerIsTrue` fails in `Planner`
  when `TimerMayFail`.
- *Stale suspension timer.* `planner.c:712-713`: a timer that was cancelled too late acts
  on the process's next blocked period, suspending it early and clearing that period's
  pointer. Degree, ownership and answers survive it (`planner_reblock`).
- *Failed swap.* `planner.c:716-723` sends a process whose swap failed to EXIT while it is
  in the blocked queue or in its I/O; it can be queued to EXIT twice. `OneOwner` fails in
  `Planner` when `SwapMayFail`.
- *Interrupt between two looks.* If `hay_interrupcion` is set after `execute` looked
  (`cicloInstruccion.c:163`) and before `checkInterrupt` (`:172`), the pcb returns with
  NULL_CONDITION and the kernel ends it as an error (`planner.c:834`).
- *Refused thread.* A thread that `subscribe` refused decrements the count when it leaves
  (`thread_monitor.c:104`), so `terminate_and_wait` may return while a counted thread
  runs: hence `CountIsRight` in `WaitsForCounted`.
- *Monitor destroyed early.* `terminate_and_wait` may return while the last thread is
  still inside the monitor, which its owner then destroys (`thread_monitor.c:208`, `:127`).

- *Token of a lost CPU.* A thread that waits in `move_pcb_to_ready__srt` for the interrupt
  token (`planner.c:351`) waits for ever when the CPU dies: `stp_dispatch_error` does not
  give it back, nor does `planner_stop` post that semaphore. Hence `WaitsForNobody`.
- *Lost connection not told.* `send` to a closed peer answers an error of `errno`, never
  `SKT_CONNECTION_LOST`, which only `recieve_message` sets: `kernel->error` is not reached
  from `icpu.c:106` and `:126` (the first of which looks at the other connection).
- *SIGPIPE.* A console killed before it reads ACCEPTED resets its connection, and the
  kernel answers that error with a send that ends it (`iconsole.c:200`);
  `SigpipeSoloPorMatada` says that this is the only way.
- *Stop.* `kernel_terminate` destroys the logger (`kernel.c:62`) that other threads may
  still use.
- *Failed start ignored.* `kernel/main.c:25` does not look at what `kernel_execute`
  returned: with the port of the consoles in use the kernel runs without console server.
- *Null pointers of the CPU.* Its main thread looks at `interrupt_server->error`
  (`cpu.c:146`), and the listener of one server at `dispatch_server->socket`
  (`cpu.c:431`), after another thread may have set them to NULL; the order in which the
  kernel connects saves `dispatch_server` at `:105` (`DispatchServerNoEsNulo`). The MMU is
  created after the servers accept (`cpu.c:169`): a pcb may arrive before it.
- *Forgotten client.* A client accepted while the server is being disconnected
  (`socket_handler.c:454`) is left with its socket open; it waits for ever.
- *Handlers of the memory server.* The one of the kernel is disconnected and not destroyed
  (`memoriaswap.c:411`), the one of the CPU destroyed without being disconnected, which
  fails (`:337`).
- *Rejected twice.* A process that is not a console is sent REJECTED twice
  (`iconsole.c:174`, `:184`).
- *Cut size.* A connection that ends inside a size whose bytes so far are zero yields an
  empty message without an error (`socket_handler.c:190-203`): `VaciadoPorElCorte`.
- *Program without EXIT.* The parser takes it. After its last instruction, or when it comes
  back from an I/O that was the last one, `fetch` gets NULL from `list_get`
  (`cicloInstruccion.c:85`) and `decode` follows it (`:93`): the CPU falls, for all
  processes. `NadaTrasExit` says that only such a program gets there; the kernel meets it
  as a CPU that dies (`PlannerStop`).
- *EXIT with a line feed* is an unknown instruction (`parser.c:84`): only the last line of
  a file, without a final line feed, can be EXIT.

## 8. Plan

Done, in this order: planner core, CPU process, memory and TLB, thread monitor, first
proofs; then lost CPU and stop, processes and connections, messages, list, parser; then
the proofs of the planner, of the CPU's cycle and of the memory, and those of the stop, of
the start and the connections, and of the list. Next:

1. Several second-level tables with all pages in memory, as a passing instance of
   `Memoria`.
2. The memory server dying under a running planner.
3. The answer to a console through planner, CPU and connections at once: `Sistema` has the
   planner as a console sees it.

New questions replace or join runs of section 4 rather than repeat them.
