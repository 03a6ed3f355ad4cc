---------------------------- MODULE CicloDeVida ----------------------------
(***************************************************************************)
(* What the kernel promises about its processes: the five-state diagram    *)
(* that its log lines "Estado Anterior: <X> - Estado Actual: <Y>" announce *)
(* (kernel.c), with one CPU and a bounded multiprogramming degree.         *)
(***************************************************************************)
EXTENDS Naturals, FiniteSets

CONSTANTS
    Procesos,               \* the processes the consoles may submit
    GradoMultiprogramacion  \* GRADO_MAX_MULTIPROGRAMACION of kernel.config

VARIABLE estado

Estados == {"NONE", "NEW", "READY", "EXEC", "BLOCK", "EXIT"}

Init == estado = [p \in Procesos |-> "NONE"]

\* Process p goes from state `antes` to state `ahora`.
Cambia(p, antes, ahora) ==
    /\ estado[p] = antes
    /\ estado' = [estado EXCEPT ![p] = ahora]

En(S) == {p \in Procesos : estado[p] \in S}

Crear(p) == Cambia(p, "NONE", "NEW")

Admitir(p) ==
    /\ Cardinality(En({"READY", "EXEC", "BLOCK"})) < GradoMultiprogramacion
    /\ Cambia(p, "NEW", "READY")

Despachar(p) ==
    /\ En({"EXEC"}) = {}
    /\ Cambia(p, "READY", "EXEC")

Desalojar(p)   == Cambia(p, "EXEC", "READY")
Bloquear(p)    == Cambia(p, "EXEC", "BLOCK")
Desbloquear(p) == Cambia(p, "BLOCK", "READY")
Terminar(p)    == Cambia(p, "EXEC", "EXIT")

Next ==
    \E p \in Procesos :
        \/ Crear(p) \/ Admitir(p) \/ Despachar(p)
        \/ Desalojar(p) \/ Bloquear(p) \/ Desbloquear(p) \/ Terminar(p)

Spec == Init /\ [][Next]_estado
=============================================================================
