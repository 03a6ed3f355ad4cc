SPECIFICATION Spec
CONSTANTS
    Procesos = {p1, p2, p3}
    p1 = p1
    p2 = p2
    p3 = p3
    Nadie = Nadie
    Recursos = {"DISCO"}
    InstanciasIniciales <- UnaInstancia
    GradoMultiprogramacion = 3
    Algoritmo = "HRRN"
    Programas <- ProgramasRecursos
SYMMETRY Simetria
INVARIANTS
    TipoOK
    ContabilidadRecursos
    SinDespertarPerdido
CHECK_DEADLOCK FALSE
