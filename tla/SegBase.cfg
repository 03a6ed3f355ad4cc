SPECIFICATION Spec
CONSTANTS
    TamMemoria = 4
    TamSegmento0 = 1
    MaxProcesos = 2
    Ids = {1, 2, 3, 4}
    Tamanios = {1, 2}
    TamMaxSegmento = 2
    Direcciones = {4, 5, 6}
    TamRegistros = {1, 2}
    Valores = {1}
    Nada = Nada
    Nadie = Nadie
INVARIANTS
    TipoOK
    TraduccionCorrecta
    DireccionPendiente
    SoloFaltanPosteriores
PROPERTIES
    ImplementaSegmentos
    RespuestaLlega
CHECK_DEADLOCK FALSE
