------------------------------- MODULE Disco -------------------------------
(***************************************************************************)
(* What the file system promises to the programs: a file is a row of bytes *)
(* that belong to it alone. There are no blocks, pointers or bitmap here.  *)
(* Of a file that already had bytes when the file system was last started  *)
(* (`viejos`) nothing is promised, for its blocks are free for others.     *)
(***************************************************************************)
EXTENDS Integers

CONSTANTS
    Nombres,                \* file names
    Tamanios,               \* sizes a program truncates to
    Accesos,                \* <<position, bytes>> a program reads or writes
    Valores,                \* what a program writes: byte i of a file is v + i
    Nada                    \* no bytes delivered since the last change

VARIABLES
    contenido,              \* [files that exist -> [0..size-1 -> byte]]
    leido,                  \* the bytes the last read delivered, or Nada
    viejos                  \* files with bytes from before the last start

vars == <<contenido, leido, viejos>>

Archivos == DOMAIN contenido

Init ==
    /\ contenido = [a \in {} |-> {}]
    /\ leido = Nada
    /\ viejos = {}

\* Nobody else's bytes change.
Intactos(a) == \A b \in Archivos \ (viejos \cup {a}) : contenido'[b] = contenido[b]

Crear(a) ==
    /\ a \notin Archivos
    /\ DOMAIN contenido' = Archivos \cup {a}
    /\ DOMAIN contenido'[a] = {}
    /\ Intactos(a)
    /\ leido' = Nada
    /\ UNCHANGED viejos

\* The bytes within both sizes stay; what the new ones hold is not said.
Truncar(a, n) ==
    /\ a \in Archivos \ viejos
    /\ DOMAIN contenido' = Archivos
    /\ DOMAIN contenido'[a] = 0..n - 1
    /\ \A i \in DOMAIN contenido[a] \cap DOMAIN contenido'[a] : contenido'[a][i] = contenido[a][i]
    /\ Intactos(a)
    /\ leido' = Nada
    /\ UNCHANGED viejos

\* The bytes asked for change, and no others.
Escribir(a, s, n, v) ==
    /\ a \in Archivos \ viejos
    /\ DOMAIN contenido' = Archivos
    /\ 0..s + n - 1 \subseteq DOMAIN contenido[a]
    /\ contenido'[a] = [i \in DOMAIN contenido[a] |->
                            IF i \in s..s + n - 1 THEN v + i ELSE contenido[a][i]]
    /\ Intactos(a)
    /\ leido' = Nada
    /\ UNCHANGED viejos

\* What is delivered is what the file holds.
Leer(a, s, n) ==
    /\ a \in Archivos
    /\ 0..s + n - 1 \subseteq DOMAIN contenido[a]
    /\ leido' = [i \in s..s + n - 1 |-> contenido[a][i]] \/ (a \in viejos /\ leido' # Nada)
    /\ UNCHANGED <<contenido, viejos>>

Reiniciar ==
    /\ viejos' = {a \in Archivos : DOMAIN contenido[a] # {}}
    /\ leido' = Nada
    /\ UNCHANGED contenido

Next ==
    \/ Reiniciar
    \/ \E a \in Nombres :
        \/ Crear(a)
        \/ \E n \in Tamanios : Truncar(a, n)
        \/ \E acceso \in Accesos :
            \/ Leer(a, acceso[1], acceso[2])
            \/ \E v \in Valores : Escribir(a, acceso[1], acceso[2], v)

Spec == Init /\ [][Next]_vars
=============================================================================
