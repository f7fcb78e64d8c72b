SPECIFICATION FairSpec
CONSTANTS
    Pcbs = {p1, p2}
    NULL = NULL
    Algoritmo = "FIFO"
    GradoMultiprogramacion = 2
    EstimacionInicial = 1
    AlfaNum = 1
    AlfaDen = 2
    Bursts = {1}
    MaxIO = 2
    SwapMayFail = FALSE
    TimerMayFail = FALSE
INVARIANTS
    DegreeConservation
    OneOwner
PROPERTIES EveryProcessAnswered
CHECK_DEADLOCK FALSE
