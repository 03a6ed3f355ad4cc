--------------------------- MODULE MCPlanificador ---------------------------
(***************************************************************************)
(* Values of Planificador's constants for TLC. The programs are short      *)
(* versions of the scripts under consola/: BASE, FS, MEMORIA, DEADLOCK and *)
(* ERROR.                                                                  *)
(***************************************************************************)
EXTENDS Planificador, TLC

I(o) == [op |-> o, rec |-> ""]
Wait(r) == [op |-> "WAIT", rec |-> r]
Signal(r) == [op |-> "SIGNAL", rec |-> r]

Simetria == Permutations(Procesos)

UnaInstancia == [r \in Recursos |-> 1]

\* FS_1 and MEMORIA_1: the two calls whose handlers wait for another module.
ProgramasBase ==
    {<<I("F_READ"), I("EXIT")>>,
     <<I("CREATE_SEGMENT"), I("EXIT")>>}

\* Every call, for two processes; nothing that may end a process abnormally
\* stands between a WAIT and its SIGNAL.
ProgramasVida ==
    {<<Wait("DISCO"), I("F_READ"), Signal("DISCO"), I("EXIT")>>,
     <<I("CREATE_SEGMENT"), Wait("DISCO"), Signal("DISCO"), I("EXIT")>>,
     <<I("IO"), I("MOV_IN"), I("DELETE_SEGMENT"), I("EXIT")>>}

\* The DEADLOCK scripts take DISCO and give it back; ERROR_1 and ERROR_2 name a
\* resource that is not configured.
ProgramasRecursos ==
    {<<Wait("INEXISTENTE"), I("IO"), Signal("INEXISTENTE"), I("EXIT")>>,
     <<Wait("DISCO"), I("YIELD"), Signal("DISCO"), I("EXIT")>>}

ProgramasError1 == {<<Wait("INEXISTENTE"), I("SET"), I("EXIT")>>, <<I("YIELD"), I("EXIT")>>}
ProgramasError2 == {<<Signal("INEXISTENTE"), I("EXIT")>>, <<I("YIELD"), I("EXIT")>>}
=============================================================================
