SPECIFICATION Spec
CONSTANTS
    Procesos = {p1, p2}
    p1 = p1
    p2 = p2
    Nadie = Nadie
    Recursos = {"DISCO"}
    InstanciasIniciales <- UnaInstancia
    GradoMultiprogramacion = 2
    Algoritmo = "FIFO"
    Programas <- ProgramasError1
PROPERTY
    FinalizadoNoEjecuta
CHECK_DEADLOCK FALSE
