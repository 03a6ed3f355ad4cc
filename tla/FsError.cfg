SPECIFICATION Spec
CONSTANTS
    NBloques = 8
    TamBloque = 2
    TamPuntero = 1
    Nombres = {Consoles, Videogames}
    Consoles = Consoles
    Videogames = Videogames
    Tamanios = {0, 2, 3, 4, 6}
    Accesos <- AccesosBase
    Valores = {10}
    MaxFcbs = 2
    MaxCambios = 6
    Cuidadosos = FALSE
    Nada = Nada
SYMMETRY Simetria
INVARIANT
    BloquesPropios
CHECK_DEADLOCK FALSE
