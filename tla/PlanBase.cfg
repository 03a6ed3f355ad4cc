SPECIFICATION Spec
CONSTANTS
    Procesos = {p1, p2, p3}
    p1 = p1
    p2 = p2
    p3 = p3
    Nadie = Nadie
    Recursos = {"DISCO"}
    InstanciasIniciales <- UnaInstancia
    GradoMultiprogramacion = 2
    Algoritmo = "FIFO"
    Programas <- ProgramasBase
SYMMETRY Simetria
INVARIANTS
    UnSoloEnEjecucion
    PcbUnico
    SlotsConservados
    ProtocoloCpu
    ExclusionCompactacion
PROPERTY
    ImplementaCiclo
CHECK_DEADLOCK FALSE
