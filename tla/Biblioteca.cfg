SPECIFICATION SpecPartes
CONSTANTS
    Owned = {o1, o2}
    Subscribers = {s1, s2}
    NoThread = NoThread
    Nodos = {n1, n2, n3, n4}
    Datos = {a, b}
    NULL = NULL
    Programas <- ProgramasDelCiclo
    MaxInterrupciones = 4
    Base = 4
    MaxEnvios = 2
    Marcos = 3
CHECK_DEADLOCK FALSE
INVARIANTS
    WaitsForCounted
    RecibeLoEnviado
    MismaAlReves
    NadaTrasExit
    LlamadaLlegaAlKernel
    InterrumpeEnSeguida
    VictimasDelBucle
    ExitAlFinal
PROPERTIES
    TerminateReturns
    
    RespuestaDelPlanner
