SPECIFICATION Spec
CONSTANTS
    TamMemoria = 10
    TamSegmento0 = 1
    Algoritmos = {"BEST"}
    MaxProcesos = 1
    Ids = {1, 2, 3, 4}
    Tamanios = {1, 2, 3}
    Nada = Nada
INVARIANT
    BestElige
CHECK_DEADLOCK FALSE
