SPECIFICATION SpecJusta
CONSTANTS
    Procesos = {p1, p2}
    p1 = p1
    p2 = p2
    Nadie = Nadie
    Recursos = {"DISCO"}
    InstanciasIniciales <- UnaInstancia
    GradoMultiprogramacion = 2
    Algoritmo = "FIFO"
    Programas <- ProgramasVida
PROPERTY
    TodoProcesoTermina
CHECK_DEADLOCK FALSE
