SPECIFICATION Spec
CONSTANTS
    Procesos = {p1}
    NADIE = NADIE
    Datos = {0, 1}
    Cero = 0
    NumPaginas = 3
    EntradasPorTabla = 3
    Marcos = 2
    NumMarcos = 2
    Grado = 1
    AlgoritmoReemplazo = "CLOCK"
    EntradasTlb = 2
    ReemplazoTlb = "LRU"
CHECK_DEADLOCK FALSE
INVARIANT
    TlbCoherente
