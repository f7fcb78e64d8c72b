SPECIFICATION SpecPartes
CONSTANTS
    Owned = {o1, o2}
    Subscribers = {s1, s2}
    NoThread = NoThread
    Nodos = {n1, n2, n3, n4}
    Datos = {a, b}
    NULL = NULL
    Programas <- ProgramasDelCiclo
    MaxInterrupciones = 4
    Base = 4
    MaxEnvios = 1
    Marcos = 3
CHECK_DEADLOCK FALSE
INVARIANT
    PcbLlegaEntero
