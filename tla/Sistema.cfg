SPECIFICATION Spec
CONSTANTS
    c1 = c1
    c2 = c2
    Consolas = {c1, c2}
    PuertosDe <- MCPuertos
    ProgramasDe <- MCProgramas
    Matables = {c2}
CHECK_DEADLOCK FALSE
INVARIANTS
    TypeOK
    SaludoCoincide
    ManejadorDestruidoAlFinal
    SigpipeSoloPorMatada
    DispatchServerNoEsNulo
PROPERTIES
    ArranqueTermina
    ConsolaTermina
