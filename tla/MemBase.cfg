SPECIFICATION Spec
CONSTANTS
    TamMemoria = 5
    TamSegmento0 = 1
    Algoritmos = {"FIRST", "BEST", "WORST"}
    MaxProcesos = 2
    Ids = {1, 2}
    Tamanios = {1, 2}
    Nada = Nada
INVARIANTS
    TipoOK
    Particion
PROPERTIES
    CompactarNoPisa
    ImplementaAsignador
CHECK_DEADLOCK FALSE
