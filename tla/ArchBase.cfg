SPECIFICATION SpecJusta
CONSTANTS
    Procesos = {p1, p2, p3}
    p1 = p1
    p2 = p2
    p3 = p3
    Nadie = Nadie
    Nombres = {"Consoles", "Videogames"}
    Largo <- LargoNombres
    Posiciones = {0, 1}
    Programas <- ProgramasFs
INVARIANTS
    TipoOK
    ExclusionArchivo
    ListaCorrecta
    PosicionVigente
    BufferAlcanza
PROPERTY
    TodoAbreAlFinal
CHECK_DEADLOCK FALSE
