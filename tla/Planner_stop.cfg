SPECIFICATION SpecStop
CONSTANTS
    Pcbs = {p1, p2}
    NULL = NULL
    Algoritmo = "SRT"
    GradoMultiprogramacion = 2
    EstimacionInicial = 1
    AlfaNum = 1
    AlfaDen = 2
    Bursts = {1}
    MaxIO = 1
    SwapMayFail = FALSE
    TimerMayFail = FALSE
SYMMETRY Symmetry
INVARIANTS
    NeverPopsEmpty
    StrandedOnlyByLostLink
    StopEndsControllers
CHECK_DEADLOCK FALSE
