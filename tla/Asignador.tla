----------------------------- MODULE Asignador -----------------------------
(***************************************************************************)
(* What the memory promises to the kernel, with no addresses: a creation   *)
(* is refused only when the free bytes do not suffice, whatever the        *)
(* fragmentation, and a segment is released exactly once. Compactions are  *)
(* invisible at this level.                                                *)
(***************************************************************************)
EXTENDS Integers, Functions

CONSTANTS
    Capacidad,              \* bytes for segments other than segment 0
    MaxProcesos,
    Ids,                    \* ids of the segments a program names
    Tamanios,               \* sizes a program asks for
    Nada                    \* no request outstanding

VARIABLES
    vivos,                  \* processes the kernel has opened and not ended
    asignado,               \* set of [pid, id, tamanio] of segments in memory
    pedido                  \* the kernel's request not yet answered, or Nada

vars == <<vivos, asignado, pedido>>

Libre == Capacidad - SumFunction([s \in asignado |-> s.tamanio])

Init ==
    /\ vivos = {}
    /\ asignado = {}
    /\ pedido = Nada

Abrir(p) ==
    /\ vivos' = vivos \cup {p}
    /\ UNCHANGED <<asignado, pedido>>

\* One request at a time: only the kernel's atender_cpu sends them.
Pedir(m) ==
    /\ pedido = Nada
    /\ m.pid \in vivos
    /\ pedido' = m
    /\ vivos' = IF m.op = "FINALIZAR" THEN vivos \ {m.pid} ELSE vivos
    /\ UNCHANGED asignado

Conceder ==
    /\ pedido # Nada /\ pedido.op = "CREAR_SEGMENTO"
    /\ pedido.tamanio <= Libre
    /\ asignado' = asignado \cup
            {[pid |-> pedido.pid, id |-> pedido.id, tamanio |-> pedido.tamanio]}
    /\ pedido' = Nada
    /\ UNCHANGED vivos

\* The kernel ends a process whose creation is refused (OUT_OF_MEMORY).
Negar ==
    /\ pedido # Nada /\ pedido.op = "CREAR_SEGMENTO"
    /\ pedido.tamanio > Libre
    /\ pedido' = [op |-> "FINALIZAR", pid |-> pedido.pid]
    /\ vivos' = vivos \ {pedido.pid}
    /\ UNCHANGED asignado

Liberar ==
    /\ pedido # Nada /\ pedido.op = "ELIMINAR_SEGMENTO"
    /\ asignado' = {s \in asignado : <<s.pid, s.id>> # <<pedido.pid, pedido.id>>}
    /\ pedido' = Nada
    /\ UNCHANGED vivos

LiberarTodo ==
    /\ pedido # Nada /\ pedido.op = "FINALIZAR"
    /\ asignado' = {s \in asignado : s.pid # pedido.pid}
    /\ pedido' = Nada
    /\ UNCHANGED vivos

Mensaje ==
    [op : {"CREAR_SEGMENTO"}, pid : 1..MaxProcesos, id : Ids, tamanio : Tamanios]
    \cup [op : {"ELIMINAR_SEGMENTO"}, pid : 1..MaxProcesos, id : Ids]
    \cup [op : {"FINALIZAR"}, pid : 1..MaxProcesos]

Next ==
    \/ \E p \in 1..MaxProcesos : Abrir(p)
    \/ \E m \in Mensaje : Pedir(m)
    \/ Conceder \/ Negar \/ Liberar \/ LiberarTodo

Spec == Init /\ [][Next]_vars
=============================================================================
