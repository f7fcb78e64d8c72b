SPECIFICATION Spec
CONSTANTS
    Pcbs = {p1, p2}
    NULL = NULL
    Algoritmo = "SRT"
    GradoMultiprogramacion = 2
    EstimacionInicial = 1
    AlfaNum = 1
    AlfaDen = 2
    Bursts = {4}
    MaxIO = 1
    SwapMayFail = TRUE
    TimerMayFail = TRUE
SYMMETRY Symmetry
INVARIANTS
    InterruptToken
    ReadySorted
    IoDeviceExclusive
    NobodyStranded
CHECK_DEADLOCK FALSE
