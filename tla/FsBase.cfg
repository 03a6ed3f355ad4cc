SPECIFICATION Spec
CONSTANTS
    NBloques = 8
    TamBloque = 2
    TamPuntero = 1
    Nombres = {Consoles, Videogames}
    Consoles = Consoles
    Videogames = Videogames
    Tamanios = {0, 2, 3, 4, 6}
    Accesos <- AccesosBase
    Valores = {10}
    MaxFcbs = 2
    MaxCambios = 6
    Cuidadosos = TRUE
    Nada = Nada
SYMMETRY Simetria
INVARIANTS
    TipoOK
    FcbVigente
    BloquesPropios
    TramosExactos
PROPERTY
    ImplementaDisco
CHECK_DEADLOCK FALSE
