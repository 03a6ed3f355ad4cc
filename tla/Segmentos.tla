----------------------------- MODULE Segmentos -----------------------------
(***************************************************************************)
(* What kernel, cpu and memory promise together to the programs: a segment *)
(* is a row of bytes with no address, that only accesses to it change.     *)
(* Compactions, tables and their copies are invisible at this level.       *)
(***************************************************************************)
EXTENDS Integers

CONSTANTS
    MaxProcesos,
    TamSegmento0,           \* bytes of segment 0
    Ids,                    \* ids of the segments a program names
    Tamanios,               \* sizes a program asks for
    TamRegistros,           \* bytes of an access
    Valores                 \* what a byte may be written with

VARIABLE
    contenido               \* [<<pid, id>> of each segment -> [0..n-1 -> byte]]

Compartido == <<0, 0>>      \* segment 0, of all processes

Existentes == DOMAIN contenido

\* What the memory holds before anybody writes is not said.
Init ==
    /\ Existentes = {Compartido}
    /\ DOMAIN contenido[Compartido] = 0..TamSegmento0 - 1

Intactos(S) == \A k \in S : contenido'[k] = contenido[k]

Crear(p, id, n) ==
    /\ <<p, id>> \notin Existentes
    /\ DOMAIN contenido' = Existentes \cup {<<p, id>>}
    /\ DOMAIN contenido'[<<p, id>>] = 0..n - 1
    /\ Intactos(Existentes)

\* One segment is deleted, or all those of a process that ended.
Quitar(S) ==
    /\ S \subseteq Existentes \ {Compartido}
    /\ DOMAIN contenido' = Existentes \ S
    /\ Intactos(Existentes \ S)

Escribir(k, desde, n, v) ==
    /\ k \in Existentes
    /\ desde..desde + n - 1 \subseteq DOMAIN contenido[k]
    /\ contenido' = [contenido EXCEPT ![k] = [i \in DOMAIN @ |->
                        IF i \in desde..desde + n - 1 THEN v ELSE @[i]]]

Next ==
    \/ \E p \in 1..MaxProcesos, id \in Ids, n \in Tamanios : Crear(p, id, n)
    \/ \E p \in 1..MaxProcesos, id \in Ids : Quitar({<<p, id>>})
    \/ \E p \in 1..MaxProcesos : Quitar({k \in Existentes : k[1] = p})
    \/ \E k \in Existentes, n \in TamRegistros, v \in Valores :
        \E desde \in DOMAIN contenido[k] : Escribir(k, desde, n, v)

Spec == Init /\ [][Next]_contenido
=============================================================================
