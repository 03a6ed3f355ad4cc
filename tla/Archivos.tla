------------------------------ MODULE Archivos ------------------------------
(***************************************************************************)
(* Open files: the kernel's lista_archivos_abiertos, which makes a file    *)
(* opened by one process a lock for the others, the F_ instructions of the *)
(* CPU that use it, and the catalogue of the file system.                  *)
(*                                                                         *)
(* The scheduler is the one of Planificador reduced to what matters here:  *)
(* a set of ready processes and one that runs. An instruction, its kernel  *)
(* handler and the reply are one step unless the file system takes part,   *)
(* for only the process that runs may issue one; a thread of               *)
(* iniciar_archivo wakes and queues a process in one step, which           *)
(* Planificador splits. cerrar_archivo uses memory it has freed (the       *)
(* name, the entry whose semaphore its thread still waits on); the model   *)
(* takes the freed memory to keep its contents and that thread to sleep on.*)
(***************************************************************************)
EXTENDS Integers, Sequences, SequencesExt, FiniteSets, FiniteSetsExt

CONSTANTS
    Procesos,               \* one per console
    Nadie,                  \* no process
    Nombres,                \* file names
    Largo,                  \* [Nombres -> strlen of the name]
    Posiciones,             \* arguments of F_SEEK; 0 is the start of the file
    Programas               \* the programs a console may send

Instruccion ==
    [op : {"F_OPEN", "F_SEEK", "F_READ", "F_WRITE", "F_TRUNCATE", "F_CLOSE", "YIELD", "EXIT"},
     arch : Nombres, pos : Posiciones]

ASSUME SupuestosArchivos ==
    /\ Nadie \notin Procesos
    /\ Largo \in [Nombres -> Nat]
    /\ 0 \in Posiciones
    /\ Programas \subseteq Seq(Instruccion)

VARIABLES
    programa,               \* [Procesos -> pcb->lista_instrucciones], never changes
    pc,                     \* [Procesos -> pcb->program_counter]
    abiertos,               \* [Procesos -> pcb->archivos_abiertos], [dir, punt]s
    listos,                 \* processes in READY
    cpu,                    \* [estado, pcb]: runs, or waits for the file system
    lista,                  \* lista_archivos_abiertos: [dir, cola, sem]s
    fcbs,                   \* names the file system has a FCB file for
    a_fs, de_fs,            \* kernel -> file system and back
    mutex_compresion,       \* semaphore held while a file operation is on its way
    caido                   \* iniciar_archivo popped an empty queue

vars == <<programa, pc, abiertos, listos, cpu, lista, fcbs, a_fs, de_fs, mutex_compresion,
          caido>>

Cpu(etapa, p) == [estado |-> etapa, pcb |-> p]
Libre == Cpu("ociosa", Nadie)

Init ==
    /\ programa \in [Procesos -> Programas]
    /\ pc = [p \in Procesos |-> 0]
    /\ abiertos = [p \in Procesos |-> <<>>]
    /\ listos = Procesos
    /\ cpu = Libre
    /\ lista = <<>>
    /\ fcbs \in SUBSET Nombres
    /\ a_fs = <<>> /\ de_fs = <<>>
    /\ mutex_compresion = 1
    /\ caido = FALSE

-----------------------------------------------------------------------------
(* Lookups *)

\* The entry of lista_archivos_abiertos for a file, 0 if it is not there.
Entrada(a) == SelectInSeq(lista, LAMBDA e : e.dir = a)

\* The first entry of the process's own list, as actualizar_puntero and
\* buscar_puntero find it: F_CLOSE removes none.
Propia(p, a) == SelectInSeq(abiertos[p], LAMBDA e : e.dir = a)

\* buscar_puntero; `puntero` is uninitialised when the file is not there.
BuscarPuntero(p, a) ==
    IF Propia(p, a) = 0 THEN Posiciones ELSE {abiertos[p][Propia(p, a)].punt}

Anotar(p, a) ==
    abiertos' = [abiertos EXCEPT ![p] = Append(@, [dir |-> a, punt |-> 0])]

-----------------------------------------------------------------------------
(* serializar_pcb: bytes of the open files in the buffer that carries a PCB. *)
(* What the rest of the PCB takes, both counts have alike.                   *)

TamInt == 4                 \* sizeof(int), of float and of uint32_t too

\* Mutant: room for exactly the fields, as if the loop added the files up.
ReservadoSinSobra(p) ==
    IF abiertos[p] = <<>> THEN 0 ELSE Largo[Last(abiertos[p]).dir] + 1 + 2 * TamInt

\* tamanioTotal is assigned in the loop over the files, not added to, so it
\* ends up as what the last one needs. The formula has 20 integers and 136
\* bytes where 14 integers and the 124 bytes of the registers are written.
Reservado(p) ==
    6 * TamInt + 136 - 124
        + (IF abiertos[p] = <<>> THEN 0 ELSE Largo[Last(abiertos[p]).dir] + 1 + 2 * TamInt)

\* Of every file its size, its name with the final zero and its pointer.
Escrito(p) == FoldLeft(LAMBDA n, e : n + TamInt + Largo[e.dir] + 1 + TamInt, 0, abiertos[p])

-----------------------------------------------------------------------------
(* The CPU and atender_cpu *)

Despachar(p) ==
    /\ cpu = Libre
    /\ p \in listos
    /\ listos' = listos \ {p}
    /\ cpu' = Cpu("ejecuta", p)
    /\ UNCHANGED <<programa, pc, abiertos, lista, fcbs, a_fs, de_fs, mutex_compresion, caido>>

Actual == programa[cpu.pcb][pc[cpu.pcb] + 1]

Ejecuta(op) ==
    /\ cpu.estado = "ejecuta"
    /\ pc[cpu.pcb] < Len(programa[cpu.pcb])
    /\ Actual.op = op
    /\ pc' = [pc EXCEPT ![cpu.pcb] = @ + 1]
    /\ UNCHANGED <<programa, fcbs, de_fs, caido>>

\* ABRIR_ARCHIVO, the file is in the list: the process queues for it and
\* leaves the CPU (contiene_archivo, DETENER). cola_archivo has no mutex; the
\* push and the pop of Despertar are taken to be atomic.
AbrirOcupado ==
    /\ Ejecuta("F_OPEN")
    /\ Entrada(Actual.arch) # 0
    /\ Anotar(cpu.pcb, Actual.arch)
    /\ lista' = [lista EXCEPT ![Entrada(Actual.arch)].cola = Append(@, cpu.pcb)]
    /\ cpu' = Libre
    /\ UNCHANGED <<listos, a_fs, mutex_compresion>>

\* ABRIR_ARCHIVO, the file is not in the list: the file system is asked and
\* the CPU waits.
AbrirLibre ==
    /\ Ejecuta("F_OPEN")
    /\ Entrada(Actual.arch) = 0
    /\ a_fs' = Append(a_fs, [op |-> "ABRIR_ARCHIVO", pid |-> cpu.pcb, arch |-> Actual.arch])
    /\ cpu' = Cpu("espera", cpu.pcb)
    /\ UNCHANGED <<abiertos, listos, lista, mutex_compresion>>

\* Mutant: the new position goes to the newest entry of the file.
MoverUltima ==
    /\ Ejecuta("F_SEEK")
    /\ LET p == cpu.pcb
           i == SelectLastInSeq(abiertos[p], LAMBDA e : e.dir = Actual.arch)
       IN  abiertos' = IF i = 0 THEN abiertos
                       ELSE [abiertos EXCEPT ![p][i].punt = Actual.pos]
    /\ UNCHANGED <<listos, cpu, lista, a_fs, mutex_compresion>>

\* ACTUALIZAR_PUNTERO.
Mover ==
    /\ Ejecuta("F_SEEK")
    /\ LET p == cpu.pcb
           i == Propia(p, Actual.arch)
       IN  abiertos' = IF i = 0 THEN abiertos
                       ELSE [abiertos EXCEPT ![p][i].punt = Actual.pos]
    /\ UNCHANGED <<listos, cpu, lista, a_fs, mutex_compresion>>

\* The process blocks until the file system answers, one process at a time.
Bloquear(op, n) ==
    /\ mutex_compresion > 0
    /\ mutex_compresion' = mutex_compresion - 1
    /\ a_fs' = Append(a_fs, [op |-> op, pid |-> cpu.pcb, arch |-> Actual.arch, pos |-> n])
    /\ cpu' = Libre
    /\ UNCHANGED <<abiertos, listos, lista>>

\* LEER_ARCHIVO and ESCRIBIR_ARCHIVO carry the pointer.
Operar ==
    /\ \/ Ejecuta("F_READ")
       \/ Ejecuta("F_WRITE")
    /\ \E n \in BuscarPuntero(cpu.pcb, Actual.arch) :
        Bloquear(IF Actual.op = "F_READ" THEN "LEER_ARCHIVO" ELSE "ESCRIBIR_ARCHIVO", n)

\* Mutant: MODIFICAR_TAMANIO without sem_wait(&mutex_compresion).
TruncarSinMutex ==
    /\ Ejecuta("F_TRUNCATE")
    /\ a_fs' = Append(a_fs, [op |-> "MODIFICAR_TAMANIO", pid |-> cpu.pcb,
                             arch |-> Actual.arch, pos |-> 0])
    /\ cpu' = Libre
    /\ UNCHANGED <<abiertos, listos, lista, mutex_compresion>>

\* MODIFICAR_TAMANIO does not look at the pointer.
Truncar == Ejecuta("F_TRUNCATE") /\ Bloquear("MODIFICAR_TAMANIO", 0)

\* Mutant: the entry stays in lista_archivos_abiertos.
CerrarSinQuitar ==
    /\ Ejecuta("F_CLOSE")
    /\ LET i == Entrada(Actual.arch)
       IN  lista' = IF i = 0 \/ lista[i].cola = <<>> THEN lista
                    ELSE [lista EXCEPT ![i].sem = @ + 1]
    /\ UNCHANGED <<abiertos, listos, cpu, a_fs, mutex_compresion>>

\* CERRAR_ARCHIVO: with nobody queued the entry is freed, else its thread is
\* woken. Whether the process has the file open is not looked at.
Cerrar ==
    /\ Ejecuta("F_CLOSE")
    /\ LET i == Entrada(Actual.arch)
       IN  lista' = IF i = 0 THEN lista
                    ELSE IF lista[i].cola = <<>> THEN RemoveAt(lista, i)
                    ELSE [lista EXCEPT ![i].sem = @ + 1]
    /\ UNCHANGED <<abiertos, listos, cpu, a_fs, mutex_compresion>>

Desalojar ==
    /\ Ejecuta("YIELD")
    /\ listos' = listos \cup {cpu.pcb}
    /\ cpu' = Libre
    /\ UNCHANGED <<abiertos, lista, a_fs, mutex_compresion>>

\* FINALIZAR: nothing the process has open is closed.
Terminar ==
    /\ Ejecuta("EXIT")
    /\ cpu' = Libre
    /\ UNCHANGED <<abiertos, listos, lista, a_fs, mutex_compresion>>

-----------------------------------------------------------------------------
(* iniciar_archivo, one thread per entry, and atender_fileSystem *)

\* sem_wait(sem_archivo), queue_pop and agregar_a_cola_ready.
Despertar(i) ==
    /\ i \in DOMAIN lista
    /\ lista[i].sem > 0
    /\ IF lista[i].cola = <<>>
       THEN /\ caido' = TRUE
            /\ UNCHANGED <<lista, listos>>
       ELSE /\ listos' = listos \cup {Head(lista[i].cola)}
            /\ lista' = [lista EXCEPT ![i].cola = Tail(@), ![i].sem = @ - 1]
            /\ UNCHANGED caido
    /\ UNCHANGED <<programa, pc, abiertos, cpu, fcbs, a_fs, de_fs, mutex_compresion>>

Llega(ops) ==
    /\ de_fs # <<>>
    /\ Head(de_fs).op \in ops
    /\ de_fs' = Tail(de_fs)
    /\ UNCHANGED <<programa, pc, fcbs, caido>>

\* Mutant: crear_archivo without list_add.
ArchivoListoSinLista ==
    /\ Llega({"EXISTE_ARCHIVO", "ARCHIVO_CREADO"})
    /\ UNCHANGED lista
    /\ Anotar(Head(de_fs).pid, Head(de_fs).arch)
    /\ cpu' = Cpu("ejecuta", Head(de_fs).pid)
    /\ UNCHANGED <<listos, a_fs, mutex_compresion>>

\* EXISTE_ARCHIVO and ARCHIVO_CREADO: the file enters the list, the process
\* goes on.
ArchivoListo ==
    /\ Llega({"EXISTE_ARCHIVO", "ARCHIVO_CREADO"})
    /\ lista' = Append(lista, [dir |-> Head(de_fs).arch, cola |-> <<>>, sem |-> 0])
    /\ Anotar(Head(de_fs).pid, Head(de_fs).arch)
    /\ cpu' = Cpu("ejecuta", Head(de_fs).pid)
    /\ UNCHANGED <<listos, a_fs, mutex_compresion>>

\* CREAR_ARCHIVO: it does not exist, the kernel asks for it.
PedirCreacion ==
    /\ Llega({"CREAR_ARCHIVO"})
    /\ a_fs' = Append(a_fs, Head(de_fs))
    /\ UNCHANGED <<abiertos, listos, cpu, lista, mutex_compresion>>

\* Mutant: DESBLOQUEADO without sem_post(&mutex_compresion).
DesbloqueadoSinPost ==
    /\ Llega({"DESBLOQUEADO"})
    /\ listos' = listos \cup {Head(de_fs).pid}
    /\ UNCHANGED <<abiertos, cpu, lista, a_fs, mutex_compresion>>

Desbloqueado ==
    /\ Llega({"DESBLOQUEADO"})
    /\ mutex_compresion' = mutex_compresion + 1
    /\ listos' = listos \cup {Head(de_fs).pid}
    /\ UNCHANGED <<abiertos, cpu, lista, a_fs>>

-----------------------------------------------------------------------------
(* atender_kernel of the file system *)

Atiende(ops, respuesta) ==
    /\ a_fs # <<>>
    /\ Head(a_fs).op \in ops
    /\ a_fs' = Tail(a_fs)
    /\ de_fs' = Append(de_fs, [op |-> respuesta, pid |-> Head(a_fs).pid,
                               arch |-> Head(a_fs).arch])
    /\ UNCHANGED <<programa, pc, abiertos, listos, cpu, lista, mutex_compresion, caido>>

\* A FCB file that exists is opened, and entered in lista_fcb; its fields are
\* left out.
BuscarArchivoFcb(a) == a \in fcbs
CrearArchivoFcb(a) == fcbs' = fcbs \cup {a}

FsAbrir ==
    /\ Atiende({"ABRIR_ARCHIVO"},
               IF BuscarArchivoFcb(Head(a_fs).arch) THEN "EXISTE_ARCHIVO" ELSE "CREAR_ARCHIVO")
    /\ UNCHANGED fcbs

FsCrear ==
    /\ Atiende({"CREAR_ARCHIVO"}, "ARCHIVO_CREADO")
    /\ CrearArchivoFcb(Head(a_fs).arch)

\* The blocks and the bytes are left out.
Operaciones == {"LEER_ARCHIVO", "ESCRIBIR_ARCHIVO", "MODIFICAR_TAMANIO"}

FsOpera == Atiende(Operaciones, "DESBLOQUEADO") /\ UNCHANGED fcbs

-----------------------------------------------------------------------------
HiloCpu ==
    \/ AbrirOcupado \/ AbrirLibre \/ Cerrar
    \/ Mover \/ Operar \/ Truncar
    \/ Desalojar \/ Terminar
HiloFs == ArchivoListo \/ PedirCreacion \/ Desbloqueado
FileSystem == FsAbrir \/ FsCrear \/ FsOpera
HiloArchivo(a) == Entrada(a) # 0 /\ Despertar(Entrada(a))

Next ==
    /\ ~caido
    /\ \/ \E p \in Procesos : Despachar(p)
       \/ HiloCpu \/ HiloFs \/ FileSystem
       \/ \E a \in Nombres : HiloArchivo(a)

Spec == Init /\ [][Next]_vars

\* The ready queue is first in first out, so a ready process is dispatched
\* whenever the CPU is free often enough; every thread keeps running.
Justicia ==
    /\ \A p \in Procesos : SF_vars(~caido /\ Despachar(p))
    /\ WF_vars(~caido /\ HiloCpu)
    /\ WF_vars(~caido /\ HiloFs)
    /\ WF_vars(~caido /\ FileSystem)
    /\ \A a \in Nombres : WF_vars(~caido /\ HiloArchivo(a))

SpecJusta == Spec /\ Justicia

-----------------------------------------------------------------------------
(* Properties *)

\* The last F_OPEN or F_CLOSE of the file that p has executed, 0 if none.
UltimaApertura(p, a) ==
    SelectLastInSubSeq(programa[p], 1, pc[p],
        LAMBDA i : i.arch = a /\ i.op \in {"F_OPEN", "F_CLOSE"})

EnCola(p, a) == Entrada(a) # 0 /\ Contains(lista[Entrada(a)].cola, p)

\* p has executed F_OPEN of the file, been let on, and not closed it yet.
Tiene(p, a) ==
    /\ UltimaApertura(p, a) # 0
    /\ programa[p][UltimaApertura(p, a)].op = "F_OPEN"
    /\ ~EnCola(p, a)
    /\ cpu # Cpu("espera", p)

Duenios(a) == {p \in Procesos : Tiene(p, a)}

TipoOK ==
    /\ pc \in [Procesos -> Nat]
    /\ abiertos \in [Procesos -> Seq([dir : Nombres, punt : Posiciones])]
    /\ listos \subseteq Procesos
    /\ cpu \in [estado : {"ociosa"}, pcb : {Nadie}]
               \cup [estado : {"ejecuta", "espera"}, pcb : Procesos]
    /\ lista \in Seq([dir : Nombres, cola : Seq(Procesos), sem : Nat])
    /\ fcbs \subseteq Nombres
    /\ mutex_compresion \in 0..1

\* F_OPEN locks: two processes never have the same file open, whatever the
\* order of openings, creations, closings and wake-ups.
ExclusionArchivo == \A a \in Nombres : Cardinality(Duenios(a)) <= 1

\* A file is in the list, and then once, while somebody has it open or is
\* being woken to have it; nobody queues for a file that no one will release.
ListaCorrecta ==
    /\ \A i, j \in DOMAIN lista : lista[i].dir = lista[j].dir => i = j
    /\ \A a \in Nombres :
        LET entrada == lista[Entrada(a)]
        IN  IF Entrada(a) = 0 THEN Duenios(a) = {}
            ELSE /\ Cardinality(Duenios(a)) + entrada.sem = 1
                 /\ entrada.sem <= Len(entrada.cola)

\* The position p's program asks for: that of its last F_SEEK since F_OPEN.
PosicionPedida(p, a) ==
    LET i == SelectLastInSubSeq(programa[p], 1, pc[p],
                LAMBDA x : x.arch = a /\ x.op \in {"F_OPEN", "F_SEEK"})
    IN  IF programa[p][i].op = "F_SEEK" THEN programa[p][i].pos ELSE 0

\* An operation reaches the file system with the position its process last
\* asked for, although the PCB with the pointer goes through the CPU, the
\* kernel and the queues by value.
PosicionVigente ==
    \A i \in DOMAIN a_fs : a_fs[i].op \in {"LEER_ARCHIVO", "ESCRIBIR_ARCHIVO"} =>
        a_fs[i].pos = PosicionPedida(a_fs[i].pid, a_fs[i].arch)

\* The buffer of a PCB holds its open files, of which F_CLOSE removes none,
\* for as many openings as the programs have (serializacion.c:69-77, 144-158).
BufferAlcanza == \A p \in Procesos : Escrito(p) <= Reservado(p)

\* A process that asks for a file gets it, when every program closes what it
\* opens and opens one file at a time.
TodoAbreAlFinal ==
    \A p \in Procesos, a \in Nombres : EnCola(p, a) ~> Tiene(p, a)
=============================================================================
