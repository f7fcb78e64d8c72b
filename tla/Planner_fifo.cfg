SPECIFICATION Spec
CONSTANTS
    Pcbs = {p1, p2, p3}
    NULL = NULL
    Algoritmo = "FIFO"
    GradoMultiprogramacion = 2
    EstimacionInicial = 1
    AlfaNum = 1
    AlfaDen = 2
    Bursts = {1}
    MaxIO = 1
    SwapMayFail = FALSE
    TimerMayFail = FALSE
SYMMETRY Symmetry
INVARIANTS
    TypeOK
    SemaphoresCountQueues
    CpuExclusive
    AnswerIsTrue
PROPERTIES
    LifeCycleSpec
CHECK_DEADLOCK FALSE
