-------------------------- MODULE TablasSegmentos --------------------------
(***************************************************************************)
(* The copies of the segment tables and the bytes behind them: the memory  *)
(* (module Memoria, algorithm FIRST), the kernel that carries a copy of    *)
(* each process's table in its PCB, the cpu that translates addresses with *)
(* it, and the file system that reads and writes the memory at addresses   *)
(* the cpu translated before the process was blocked.                      *)
(*                                                                         *)
(* One process is in EXEC at a time (UnSoloEnEjecucion of Planificador).   *)
(* Programs name a fresh id in CREATE_SEGMENT (here in the order of the    *)
(* requests) and do not use a segment they deleted, as the scripts under   *)
(* consola/; the code checks neither.                                      *)
(***************************************************************************)
EXTENDS Integers, Sequences, FiniteSets, FiniteSetsExt, SequencesExt

CONSTANTS
    TamMemoria, TamSegmento0, MaxProcesos, Ids, Tamanios, Nada, \* of Memoria
    TamMaxSegmento,         \* TAM_MAX_SEGMENTO of cpu.config
    TamRegistros,           \* sizes of the registers, and of F_READ, F_WRITE
    Valores,                \* what a byte may be written with
    Direcciones,            \* logical addresses a program uses
    Nadie                   \* no process in EXEC

ASSUME SupuestosTablas ==
    /\ TamMemoria \in Nat /\ TamSegmento0 \in Nat /\ TamSegmento0 < TamMemoria
    /\ MaxProcesos \in Nat
    /\ Ids \subseteq Nat \ {0} /\ Tamanios \subseteq Nat \ {0}
    /\ TamMaxSegmento \in Nat \ {0}
    /\ TamRegistros \subseteq Nat \ {0}
    /\ Direcciones \subseteq Nat

VARIABLES
    algoritmo, huecos, tabla, pedido, vivos, corrupta,          \* of Memoria
    copia,                  \* copia[pid]: tabla_segmentos of the PCB
    cpu,                    \* the process in EXEC, or Nadie
    tabla_general,          \* the kernel's: last table of each pid a compaction sent
    memoria_usuario,        \* the bytes
    operacion,              \* file operation that holds mutex_compresion, or Nada
    creados                 \* bound: creations asked for so far, each a fresh id

M == INSTANCE Memoria WITH Algoritmos <- {"FIRST"}

varsMemoria == <<algoritmo, huecos, tabla, pedido, vivos, corrupta>>
vars == <<varsMemoria, copia, cpu, tabla_general, memoria_usuario, operacion, creados>>

\* What is in the memory at first does not matter: a byte not written is -1.
Init ==
    /\ M!Init
    /\ copia = <<>>
    /\ cpu = Nadie
    /\ tabla_general = <<>>
    /\ memoria_usuario = [d \in 0..TamMemoria - 1 |-> -1]
    /\ operacion = Nada
    /\ creados = 0

\* crear_pcb
Abrir ==
    /\ M!InicializarEstructura
    /\ copia' = Append(copia, <<M!Segmento0>>)
    /\ UNCHANGED <<cpu, tabla_general, memoria_usuario, operacion, creados>>

-----------------------------------------------------------------------------
(* Dispatch and preemption *)

\* Mutant: the table of the PCB is not brought up to date.
SinActualizar(p) == copia[p]

\* actualizar_de_la_tabla_general: after the first compaction, always.
ActualizarDeLaTablaGeneral(p) ==
    IF p \in DOMAIN tabla_general THEN tabla_general[p] ELSE copia[p]

\* Mutant: a process is ready while the file system works for it.
SinBloqueados == {}

Bloqueados == IF operacion = Nada THEN {} ELSE {operacion.pid}

Despachar ==
    /\ cpu = Nadie
    /\ \E p \in vivos \ Bloqueados :
        /\ cpu' = p
        /\ copia' = [copia EXCEPT ![p] = ActualizarDeLaTablaGeneral(p)]
    /\ UNCHANGED <<varsMemoria, tabla_general, memoria_usuario, operacion, creados>>

\* The cpu waits for the answer to CREATE_SEGMENT or DELETE_SEGMENT.
EsperaRespuesta == pedido # Nada /\ pedido.pid = cpu

Ejecuta == cpu # Nadie /\ ~EsperaRespuesta

\* YIELD, IO, or a WAIT or F_OPEN that blocks.
Desalojar ==
    /\ Ejecuta
    /\ cpu' = Nadie
    /\ UNCHANGED <<varsMemoria, copia, tabla_general, memoria_usuario, operacion, creados>>

-----------------------------------------------------------------------------
(* Segments *)

IdsDe(segmentos) == {segmentos[i].id : i \in DOMAIN segmentos}

Pedir ==
    /\ Ejecuta /\ pedido = Nada
    /\ \/ /\ creados + 1 \in Ids /\ creados' = creados + 1
          /\ \E t \in Tamanios : M!PideCrear(cpu, creados + 1, t)
       \/ \E id \in M!Ocupados(cpu) \cap Ids : M!PideEliminar(cpu, id) /\ UNCHANGED creados
    /\ UNCHANGED <<algoritmo, huecos, tabla, corrupta>>
    /\ UNCHANGED <<copia, cpu, tabla_general, memoria_usuario, operacion>>

\* EXIT, or a segmentation fault. Nobody uses the PCB again.
Terminar ==
    /\ pedido = Nada
    /\ M!PideFinalizar(cpu)
    /\ cpu' = Nadie
    /\ copia' = [copia EXCEPT ![cpu] = <<>>]
    /\ UNCHANGED <<algoritmo, huecos, tabla, corrupta>>
    /\ UNCHANGED <<tabla_general, memoria_usuario, operacion, creados>>

\* Mutant: the table that comes with the answer is not taken.
CopiaVieja(p) == copia[p]

\* CREACION_EXITOSA brings the table of the memory to the kernel and the cpu.
CopiaNueva(p) == tabla'[p]

\* The answers to CREAR_SEGMENTO; with SIN_MEMORIA the process ends.
ResponderCrear ==
    /\ M!CrearSegmento
    /\ copia' = [copia EXCEPT ![cpu] =
                    IF pedido' = Nada THEN CopiaNueva(cpu)
                    ELSE IF cpu \in vivos' THEN @ ELSE <<>>]
    /\ cpu' = IF cpu \in vivos' THEN cpu ELSE Nadie
    /\ UNCHANGED <<tabla_general, memoria_usuario, operacion, creados>>

\* The answer to DELETE_SEGMENT replaces `pcb`, a local of execute: the PCB
\* that ejecutar_pcb goes on with, and later sends back, keeps its table.
ResponderEliminar ==
    /\ M!EliminarSegmento
    /\ UNCHANGED <<copia, cpu, tabla_general, memoria_usuario, operacion, creados>>

ResponderFinalizar ==
    /\ M!EliminarProceso
    /\ UNCHANGED <<copia, cpu, tabla_general, memoria_usuario, operacion, creados>>

\* tabla_aux of compactar_tabla_general: the segments by base, from 0.
Orden(i) == CHOOSE l \in M!Lugares : Cardinality(M!Antes(l)) = i

Copiar(m, l) ==
    LET b == M!BaseCompacta(l)
    IN  [d \in DOMAIN m |-> IF d \in b..b + M!Tamanio(l) - 1 THEN m[M!Base(l) + d - b] ELSE m[d]]

\* Mutant: only the tables are compacted.
SinCopiar == memoria_usuario

\* One memcpy after the other (of memcpy it is assumed that it copies rightly
\* to a lower address that overlaps).
CopiarSegmentos ==
    LET n == Cardinality(M!Lugares) - Len(tabla)
        tras[i \in 0..n] == IF i = 0 THEN memoria_usuario
                            ELSE Copiar(tras[i - 1], Orden(Len(tabla) + i - 1))
    IN  tras[n]

\* Mutant: the compaction does not wait for the file system.
SinEsperar == TRUE

\* mutex_compresion is free.
MutexCompresion == operacion = Nada

\* deserializar_tabla_general_actualizada adds the tables of all processes to
\* the kernel's list, in which the last of a pid is the one that counts.
Compactar ==
    /\ MutexCompresion
    /\ M!Compactar
    /\ memoria_usuario' = CopiarSegmentos
    /\ tabla_general' = tabla'
    /\ UNCHANGED <<copia, cpu, operacion, creados>>

-----------------------------------------------------------------------------
(* Accesses *)

NumSegmento(dl) == dl \div TamMaxSegmento
Desplazamiento(dl) == dl % TamMaxSegmento

CabeEn(s, dl, n) == Desplazamiento(dl) + n <= s.tamanio

\* obtener_direccion_fisica: -1 if no entry has the number and room.
DireccionFisica(p, dl, n) ==
    LET hallados == {i \in DOMAIN copia[p] :
            copia[p][i].id = NumSegmento(dl) /\ CabeEn(copia[p][i], dl, n)}
    IN  IF hallados = {} THEN -1
        ELSE Desplazamiento(dl) + copia[p][Max(hallados)].base

\* The program's: it does not use a segment it deleted.
NoEliminado(p, dl) ==
    NumSegmento(dl) \in IdsDe(copia[p]) => NumSegmento(dl) \in M!Ocupados(p)

EscribirValor(df, n, v) ==
    memoria_usuario' = [d \in DOMAIN memoria_usuario |->
                            IF d \in df..df + n - 1 THEN v ELSE memoria_usuario[d]]

\* Reading, MOV_IN and F_WRITE, changes no state that is modelled.
MovOut(dl, n) ==
    /\ DireccionFisica(cpu, dl, n) >= 0
    /\ \E v \in Valores : EscribirValor(DireccionFisica(cpu, dl, n), n, v)
    /\ UNCHANGED <<varsMemoria, copia, cpu, tabla_general, operacion, creados>>

SegFault(dl, n) == DireccionFisica(cpu, dl, n) < 0 /\ Terminar

\* F_READ and F_WRITE: the address goes in the PCB to the file system and the
\* process is blocked. The code does not look at a -1: programs do not err.
FOperacion(dl, n) ==
    /\ MutexCompresion
    /\ DireccionFisica(cpu, dl, n) >= 0
    /\ operacion' = [pid |-> cpu, dl |-> dl, df_fs |-> DireccionFisica(cpu, dl, n), cant_bytes |-> n]
    /\ cpu' = Nadie
    /\ UNCHANGED <<varsMemoria, copia, tabla_general, memoria_usuario, creados>>

Acceder ==
    /\ Ejecuta
    /\ \E dl \in Direcciones, n \in TamRegistros :
        /\ NoEliminado(cpu, dl)
        /\ MovOut(dl, n) \/ SegFault(dl, n) \/ FOperacion(dl, n)

\* The file system reads the file into the memory, or the memory into the
\* file, and answers DESBLOQUEADO.
FsTermina ==
    /\ operacion # Nada
    /\ \/ \E v \in Valores : EscribirValor(operacion.df_fs, operacion.cant_bytes, v)
       \/ UNCHANGED memoria_usuario
    /\ operacion' = Nada
    /\ UNCHANGED <<varsMemoria, copia, cpu, tabla_general, creados>>

-----------------------------------------------------------------------------
Salir == Ejecuta /\ Terminar

Kernel == Abrir \/ Despachar \/ Desalojar \/ Pedir \/ Salir
AtenderModulos == ResponderCrear \/ ResponderEliminar \/ ResponderFinalizar \/ Compactar

Next == Kernel \/ Acceder \/ FsTermina \/ AtenderModulos

\* Memory and file system answer what reaches their sockets.
Spec == Init /\ [][Next]_vars /\ WF_vars(AtenderModulos) /\ WF_vars(FsTermina)

-----------------------------------------------------------------------------
(* Properties *)

Tablas == Seq([id : Ids \cup {0}, base : M!Rango, tamanio : Tamanios \cup {TamSegmento0}])

TipoOK ==
    /\ M!TipoOK
    /\ copia \in Seq(Tablas) /\ Len(copia) = Len(tabla)
    /\ tabla_general \in Seq(Tablas) /\ Len(tabla_general) <= Len(tabla)
    /\ cpu \in vivos \cup {Nadie}
    /\ DOMAIN memoria_usuario = 0..TamMemoria - 1
    /\ operacion # Nada => operacion.pid \in vivos \ {cpu}

\* The byte of a logical address, by the memory's own tables.
Verdadera(p, dl, n) ==
    LET hallados == {i \in DOMAIN tabla[p] :
            tabla[p][i].id = NumSegmento(dl) /\ Desplazamiento(dl) + n <= tabla[p][i].tamanio}
    IN  {Desplazamiento(dl) + tabla[p][i].base : i \in hallados}

\* An address the cpu obtains is that of the byte the program means, although
\* the tables it looks in are copies made before compactions, creations and
\* deletions of any process (cpu.c:699-728, kernel.c:1216-1226).
TraduccionCorrecta ==
    Ejecuta => \A dl \in Direcciones, n \in TamRegistros :
        NoEliminado(cpu, dl) /\ DireccionFisica(cpu, dl, n) >= 0 =>
            DireccionFisica(cpu, dl, n) \in Verdadera(cpu, dl, n)

\* The address in a blocked process's PCB is still that of its byte when the
\* file system uses it, whatever others asked of the memory meanwhile
\* (kernel.c:313-316, 1104).
DireccionPendiente ==
    operacion # Nada =>
        operacion.df_fs \in Verdadera(operacion.pid, operacion.dl, operacion.cant_bytes)

\* A segment of the process in EXEC is missing from the table of the cpu only
\* if it was created after the last compaction (kernel.c:1113, 1217).
SoloFaltanPosteriores ==
    Ejecuta => \A id \in M!Ocupados(cpu) :
        id \in IdsDe(copia[cpu]) \/
            (cpu \in DOMAIN tabla_general /\ id \notin IdsDe(tabla_general[cpu]))

\* The table sent with a creation is there to update the context of execution
\* (memoria.c:404-405): the process in EXEC finds each segment it has.
ContextoActualizado == Ejecuta => M!Ocupados(cpu) \subseteq IdsDe(copia[cpu])

\* CREATE_SEGMENT and DELETE_SEGMENT are answered, compactions that wait for a
\* file operation included: one compaction suffices (kernel.c:1086-1139).
RespuestaLlega == EsperaRespuesta ~> ~EsperaRespuesta

\* The bytes of Segmentos are those found through the memory's tables.
Fila(s) == [i \in 0..s.tamanio - 1 |-> memoria_usuario[s.base + i]]

Claves == {<<0, 0>>} \cup {<<l[1], tabla[l[1]][l[2]].id>> : l \in M!Propios}

SegmentoDe(k) ==
    IF k = <<0, 0>> THEN M!Segmento0
    ELSE tabla[k[1]][SelectInSeq(tabla[k[1]], LAMBDA s : s.id = k[2])]

Promesa == INSTANCE Segmentos WITH contenido <- [k \in Claves |-> Fila(SegmentoDe(k))]

\* A segment keeps its bytes through compactions and whatever other processes
\* create, delete and write (memoria.c:696-705, 589-606).
ImplementaSegmentos == Promesa!Spec
=============================================================================
