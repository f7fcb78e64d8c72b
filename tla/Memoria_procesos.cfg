SPECIFICATION Spec
CONSTANTS
    Procesos = {p1, p2}
    NADIE = NADIE
    Datos = {0, 1}
    Cero = 0
    NumPaginas = 2
    EntradasPorTabla = 2
    Marcos = 1
    NumMarcos = 2
    Grado = 2
    AlgoritmoReemplazo = "CLOCK"
    EntradasTlb = 1
    ReemplazoTlb = "FIFO"
SYMMETRY Simetria
CHECK_DEADLOCK FALSE
INVARIANTS
    MarcosConsistentes
    SoloOcupanLosPresentes
    MarcosSuficientes
    TlbCoherente
