SPECIFICATION SpecJusta
CONSTANTS
    Procesos = {p1, p2}
    p1 = p1
    p2 = p2
    Nadie = Nadie
    Recursos = {"DISCO"}
    InstanciasIniciales <- UnaInstancia
    GradoMultiprogramacion = 1
    Algoritmo = "FIFO"
    Programas <- ProgramasError2
PROPERTY
    FinalizadoSaleDeMemoria
CHECK_DEADLOCK FALSE
