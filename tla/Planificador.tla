---------------------------- MODULE Planificador ----------------------------
(***************************************************************************)
(* The process scheduler of kernel/src/kernel.c at the granularity of its  *)
(* semaphores: one console thread per process, de_new_a_ready,             *)
(* de_ready_a_ejecutar, atender_cpu, atender_fileSystem, one waker thread  *)
(* per resource (iniciar_recurso) and one thread per I/O (ejecutar_IO),    *)
(* together with the CPU's instruction loop (cpu/src/cpu.c), which talks   *)
(* to the kernel over one FIFO socket in each direction.                   *)
(*                                                                         *)
(* The memory module and the file system appear as the answers they give;  *)
(* a queue operation under its mutex is one step, and the sem_post that    *)
(* follows it is another.                                                  *)
(***************************************************************************)
EXTENDS Integers, Sequences, SequencesExt, FiniteSets

CONSTANTS
    Procesos,               \* one per console; p is the pid
    Nadie,                  \* no process
    Recursos,               \* RECURSOS of kernel.config
    InstanciasIniciales,    \* INSTANCIAS_RECURSOS of kernel.config
    GradoMultiprogramacion, \* GRADO_MAX_MULTIPROGRAMACION of kernel.config
    Algoritmo,              \* ALGORITMO_PLANIFICACION: "FIFO" or "HRRN"
    Programas               \* the programs a console may send

Instruccion ==
    [op  : {"SET", "MOV_IN", "IO", "WAIT", "SIGNAL", "F_READ", "CREATE_SEGMENT",
            "DELETE_SEGMENT", "YIELD", "EXIT"},
     rec : STRING]          \* the resource a WAIT or SIGNAL names

ASSUME SupuestosPlanificador ==
    /\ Nadie \notin Procesos
    /\ Recursos \subseteq STRING
    /\ InstanciasIniciales \in [Recursos -> Nat]
    /\ GradoMultiprogramacion \in Nat \ {0}
    /\ Algoritmo \in {"FIFO", "HRRN"}
    /\ Programas \subseteq Seq(Instruccion)

VARIABLES
    consola,                \* [Procesos -> pc of atender_consolas]
    programa,               \* [Procesos -> pcb->lista_instrucciones], never changes
    pc,                     \* [Procesos -> pcb->program_counter]
    motivo,                 \* [Procesos -> why the kernel ended it, "ninguno" before]
    en_memoria,             \* processes whose segment table the memory holds
    cola_new, sem_nuevo,
    cola_ready, sem_ready,  \* cola_ready_fifo, whatever the algorithm
    sem_multiprogramacion, sem_habilitar_exec, mutex_compresion,
    instancias, cola_recurso, sem_recurso,  \* t_recurso, per resource
    hilo_new,               \* de_new_a_ready:      [pc, pcb]
    hilo_ready,             \* de_ready_a_ejecutar: [pc, pcb]
    hilo_cpu,               \* atender_cpu:         [pc, pcb]
    hilo_fs,                \* atender_fileSystem:  [pc, pcb]
    hilo_recurso,           \* iniciar_recurso, per resource: [pc, pcb]
    hilo_io,                \* ejecutar_IO threads: asleep, and about to post
    cpu,                    \* the CPU: [estado, pcb]
    a_cpu, de_cpu,          \* kernel -> CPU and CPU -> kernel sockets
    a_fs, de_fs,            \* kernel -> file system and back
    caido                   \* the kernel dereferenced a null PCB

procesos == <<consola, programa, pc, motivo, en_memoria>>
new      == <<cola_new, sem_nuevo>>
ready    == <<cola_ready, sem_ready>>
semaforos == <<sem_multiprogramacion, sem_habilitar_exec, mutex_compresion>>
recursos == <<instancias, cola_recurso, sem_recurso>>
hilos    == <<hilo_new, hilo_ready, hilo_cpu, hilo_fs, hilo_recurso, hilo_io>>
canales  == <<a_cpu, de_cpu, a_fs, de_fs>>

vars == <<consola, programa, pc, motivo, en_memoria, cola_new, sem_nuevo,
          cola_ready, sem_ready, sem_multiprogramacion, sem_habilitar_exec,
          mutex_compresion, instancias, cola_recurso, sem_recurso, hilo_new,
          hilo_ready, hilo_cpu, hilo_fs, hilo_recurso, hilo_io, cpu,
          a_cpu, de_cpu, a_fs, de_fs, caido>>

-----------------------------------------------------------------------------
(* Initial state: kernel.c main, before any console connects. *)

Hilo(etapa, p) == [pc |-> etapa, pcb |-> p]
EnEspera == Hilo("espera", Nadie)
CpuLibre == [estado |-> "ociosa", pcb |-> Nadie]

Init ==
    /\ consola = [p \in Procesos |-> "inicio"]
    /\ programa \in [Procesos -> Programas]
    /\ pc = [p \in Procesos |-> 0]
    /\ motivo = [p \in Procesos |-> "ninguno"]
    /\ en_memoria = {}
    /\ cola_new = <<>> /\ sem_nuevo = 0
    /\ cola_ready = <<>> /\ sem_ready = 0
    /\ sem_multiprogramacion = GradoMultiprogramacion
    /\ sem_habilitar_exec = 1
    /\ mutex_compresion = 1
    /\ instancias = InstanciasIniciales
    /\ cola_recurso = [r \in Recursos |-> <<>>]
    /\ sem_recurso = [r \in Recursos |-> 0]
    /\ hilo_new = EnEspera /\ hilo_ready = EnEspera
    /\ hilo_cpu = EnEspera /\ hilo_fs = EnEspera
    /\ hilo_recurso = [r \in Recursos |-> EnEspera]
    /\ hilo_io = [duermen |-> {}, avisan |-> 0]
    /\ cpu = CpuLibre
    /\ a_cpu = <<>> /\ de_cpu = <<>> /\ a_fs = <<>> /\ de_fs = <<>>
    /\ caido = FALSE

-----------------------------------------------------------------------------
(* Consoles: atender_consolas, crear_pcb and agregar_a_cola_new. *)

\* INSTRUCCIONES arrives: the PCB is built, memory starts its segment table
\* and the process enters NEW.
ConsolaEncola(p) ==
    /\ consola[p] = "inicio"
    /\ en_memoria' = en_memoria \cup {p}
    /\ cola_new' = Append(cola_new, p)
    /\ consola' = [consola EXCEPT ![p] = "avisa"]
    /\ UNCHANGED <<programa, pc, motivo, sem_nuevo, ready, semaforos, recursos, hilos, cpu,
                   canales, caido>>

ConsolaAvisa(p) ==
    /\ consola[p] = "avisa"
    /\ consola' = [consola EXCEPT ![p] = "conectada"]
    /\ sem_nuevo' = sem_nuevo + 1
    /\ UNCHANGED <<programa, pc, motivo, en_memoria, cola_new, ready, semaforos,
                   recursos, hilos, cpu, canales, caido>>

-----------------------------------------------------------------------------
(* The ready queue. *)

\* agregar_a_cola_ready, the section under mutex_cola_ready.
EncolarReady(p) ==
    /\ cola_ready' = Append(cola_ready, p)
    /\ UNCHANGED sem_ready

\* agregar_a_cola_ready, the sem_post after the mutex is released.
PublicarReady ==
    /\ sem_ready' = sem_ready + 1
    /\ UNCHANGED cola_ready

\* list_sort under HRRN may leave any process in front (the ratios are wall
\* clock times); FIFO takes the head.
Elegible(i) == i \in DOMAIN cola_ready /\ (Algoritmo = "FIFO" => i = 1)

-----------------------------------------------------------------------------
(* Long-term scheduler: de_new_a_ready. *)

\* sem_wait(sem_nuevo).
NewDespierta ==
    /\ hilo_new.pc = "espera"
    /\ sem_nuevo > 0
    /\ sem_nuevo' = sem_nuevo - 1
    /\ hilo_new' = Hilo("revisa", Nadie)
    /\ UNCHANGED <<procesos, cola_new, ready, semaforos, recursos, hilo_ready,
                   hilo_cpu, hilo_fs, hilo_recurso, hilo_io, cpu, canales, caido>>

\* while(!queue_is_empty(cola_new)) leaves the loop.
NewVacia ==
    /\ hilo_new.pc = "revisa"
    /\ cola_new = <<>>
    /\ hilo_new' = EnEspera
    /\ UNCHANGED <<procesos, new, ready, semaforos, recursos, hilo_ready,
                   hilo_cpu, hilo_fs, hilo_recurso, hilo_io, cpu, canales, caido>>

\* Mutant: an admission that does not wait for a slot.
NewQuitaSinGrado ==
    /\ hilo_new.pc = "revisa"
    /\ cola_new # <<>>
    /\ sem_multiprogramacion' = sem_multiprogramacion
    /\ cola_new' = Tail(cola_new)
    /\ hilo_new' = Hilo("encola", Head(cola_new))
    /\ UNCHANGED <<procesos, sem_nuevo, ready, sem_habilitar_exec,
                   mutex_compresion, recursos, hilo_ready, hilo_cpu, hilo_fs,
                   hilo_recurso, hilo_io, cpu, canales, caido>>

\* sem_wait(sem_multiprogramacion), then quitar_de_cola_new. Nobody else pops
\* this queue, so it is still non-empty when the semaphore is granted.
NewQuita ==
    /\ hilo_new.pc = "revisa"
    /\ cola_new # <<>>
    /\ sem_multiprogramacion > 0
    /\ sem_multiprogramacion' = sem_multiprogramacion - 1
    /\ cola_new' = Tail(cola_new)
    /\ hilo_new' = Hilo("encola", Head(cola_new))
    /\ UNCHANGED <<procesos, sem_nuevo, ready, sem_habilitar_exec,
                   mutex_compresion, recursos, hilo_ready, hilo_cpu, hilo_fs,
                   hilo_recurso, hilo_io, cpu, canales, caido>>

NewEncola ==
    /\ hilo_new.pc = "encola"
    /\ EncolarReady(hilo_new.pcb)
    /\ hilo_new' = Hilo("avisa", Nadie)
    /\ UNCHANGED <<procesos, new, semaforos, recursos, hilo_ready, hilo_cpu, hilo_fs,
                   hilo_recurso, hilo_io, cpu, canales, caido>>

NewAvisa ==
    /\ hilo_new.pc = "avisa"
    /\ PublicarReady
    /\ hilo_new' = Hilo("revisa", Nadie)
    /\ UNCHANGED <<procesos, new, semaforos, recursos, hilo_ready, hilo_cpu, hilo_fs,
                   hilo_recurso, hilo_io, cpu, canales, caido>>

-----------------------------------------------------------------------------
(* Short-term scheduler: de_ready_a_ejecutar_fifo and _hrrn. *)

ReadyDespierta ==
    /\ hilo_ready.pc = "espera"
    /\ sem_ready > 0
    /\ sem_ready' = sem_ready - 1
    /\ hilo_ready' = Hilo("revisa", Nadie)
    /\ UNCHANGED <<procesos, new, cola_ready, semaforos, recursos, hilo_new,
                   hilo_cpu, hilo_fs, hilo_recurso, hilo_io, cpu, canales, caido>>

ReadyVacia ==
    /\ hilo_ready.pc = "revisa"
    /\ cola_ready = <<>>
    /\ hilo_ready' = EnEspera
    /\ UNCHANGED <<procesos, new, ready, semaforos, recursos, hilo_new,
                   hilo_cpu, hilo_fs, hilo_recurso, hilo_io, cpu, canales, caido>>

\* Mutant: a dispatch that does not wait for sem_habilitar_exec.
ReadyQuitaSinPermiso ==
    /\ hilo_ready.pc = "revisa"
    /\ sem_habilitar_exec' = sem_habilitar_exec - 1
    /\ \E i \in DOMAIN cola_ready :
          /\ Elegible(i)
          /\ cola_ready' = RemoveAt(cola_ready, i)
          /\ hilo_ready' = Hilo("envia", cola_ready[i])
    /\ UNCHANGED <<procesos, new, sem_ready, sem_multiprogramacion,
                   mutex_compresion, recursos, hilo_new, hilo_cpu, hilo_fs,
                   hilo_recurso, hilo_io, cpu, canales, caido>>

\* Mutant: queue_peek in place of queue_pop.
ReadyMiraSinQuitar ==
    /\ hilo_ready.pc = "revisa"
    /\ sem_habilitar_exec > 0
    /\ sem_habilitar_exec' = sem_habilitar_exec - 1
    /\ \E i \in DOMAIN cola_ready :
          /\ Elegible(i)
          /\ cola_ready' = cola_ready
          /\ hilo_ready' = Hilo("envia", cola_ready[i])
    /\ UNCHANGED <<procesos, new, sem_ready, sem_multiprogramacion,
                   mutex_compresion, recursos, hilo_new, hilo_cpu, hilo_fs,
                   hilo_recurso, hilo_io, cpu, canales, caido>>

\* sem_wait(sem_habilitar_exec), then quitar_de_cola_ready.
ReadyQuita ==
    /\ hilo_ready.pc = "revisa"
    /\ sem_habilitar_exec > 0
    /\ sem_habilitar_exec' = sem_habilitar_exec - 1
    /\ \E i \in DOMAIN cola_ready :
          /\ Elegible(i)
          /\ cola_ready' = RemoveAt(cola_ready, i)
          /\ hilo_ready' = Hilo("envia", cola_ready[i])
    /\ UNCHANGED <<procesos, new, sem_ready, sem_multiprogramacion,
                   mutex_compresion, recursos, hilo_new, hilo_cpu, hilo_fs,
                   hilo_recurso, hilo_io, cpu, canales, caido>>

ReadyEnvia ==
    /\ hilo_ready.pc = "envia"
    /\ a_cpu' = Append(a_cpu, [op |-> "EJECUTAR", pid |-> hilo_ready.pcb])
    /\ hilo_ready' = Hilo("revisa", Nadie)
    /\ UNCHANGED <<procesos, new, ready, semaforos, recursos, hilo_new,
                   hilo_cpu, hilo_fs, hilo_recurso, hilo_io, cpu, de_cpu, a_fs,
                   de_fs, caido>>

-----------------------------------------------------------------------------
(* The CPU: atender_kernel, ejecutar_pcb, fetch and execute of cpu.c.       *)
(* `op` is the op_code on the wire and `pid` the process it is about; a     *)
(* reply without a payload (WAIT, SIGNAL) carries it only in the model.     *)

Mensaje(op, p) == [op |-> op, pid |-> p]

CodigoOp ==
    [YIELD |-> "DESALOJADO", IO |-> "EJECUTAR_IO", EXIT |-> "FINALIZAR",
     WAIT |-> "EJECUTAR_WAIT", SIGNAL |-> "EJECUTAR_SIGNAL",
     F_READ |-> "LEER_ARCHIVO", CREATE_SEGMENT |-> "CREAR_SEGMENTO",
     DELETE_SEGMENT |-> "ELIMINAR_SEGMENTO"]

\* The reply that lets the process go on, and the one that takes it off the CPU.
RespuestaSigue ==
    [WAIT |-> "CONTINUAR", SIGNAL |-> "SENAL_1", F_READ |-> "CONTINUAR",
     CREATE_SEGMENT |-> "EJECUTAR", DELETE_SEGMENT |-> "EJECUTAR"]

RespuestaDetiene ==
    [WAIT |-> "DETENER", SIGNAL |-> "SENAL_0", F_READ |-> "DETENER",
     CREATE_SEGMENT |-> "FINALIZAR", DELETE_SEGMENT |-> "ninguna"]

UltimaInstruccion(p) == programa[p][pc[p]]
Siguiente(p) == programa[p][pc[p] + 1]

CpuPasa(etapa) == [cpu EXCEPT !.estado = etapa]

\* What the CPU's current recv is prepared to read.
Espera(m) ==
    \/ cpu.estado = "ociosa" /\ m.op = "EJECUTAR"
    \/ /\ cpu.estado = "espera"
       /\ m.pid = cpu.pcb
       /\ LET op == UltimaInstruccion(cpu.pcb).op
          IN  m.op \in {RespuestaSigue[op], RespuestaDetiene[op]}

kernel == <<new, ready, semaforos, recursos, hilos>>

CpuRecibe ==
    /\ cpu.estado = "ociosa"
    /\ a_cpu # <<>>
    /\ Head(a_cpu).op = "EJECUTAR"
    /\ cpu' = [estado |-> "ejecuta", pcb |-> Head(a_cpu).pid]
    /\ a_cpu' = Tail(a_cpu)
    /\ UNCHANGED <<procesos, kernel, de_cpu, a_fs, de_fs, caido>>

\* fetch: the next instruction is one of `ops` and the counter moves past it.
Ejecuta(ops) ==
    /\ cpu.estado = "ejecuta"
    /\ pc[cpu.pcb] < Len(programa[cpu.pcb])
    /\ Siguiente(cpu.pcb).op \in ops
    /\ pc' = [pc EXCEPT ![cpu.pcb] = @ + 1]
    /\ UNCHANGED <<consola, programa, motivo, en_memoria, kernel, a_cpu, a_fs,
                   de_fs, caido>>

CpuLocal ==
    /\ Ejecuta({"SET", "MOV_IN"})
    /\ UNCHANGED <<cpu, de_cpu>>

\* obtener_direccion_fisica found no segment for the address.
CpuSegFault ==
    /\ Ejecuta({"MOV_IN"})
    /\ de_cpu' = Append(de_cpu, Mensaje("SEG_FAULT", cpu.pcb))
    /\ cpu' = CpuLibre

\* band_ejecutar = 1 without waiting for the kernel.
CpuDevuelve ==
    /\ Ejecuta({"YIELD", "IO", "EXIT"})
    /\ de_cpu' = Append(de_cpu, Mensaje(CodigoOp[Siguiente(cpu.pcb).op], cpu.pcb))
    /\ cpu' = CpuLibre

\* The PCB goes to the kernel and the CPU blocks on the reply.
CpuLlama ==
    /\ Ejecuta({"WAIT", "SIGNAL", "F_READ", "CREATE_SEGMENT", "DELETE_SEGMENT"})
    /\ de_cpu' = Append(de_cpu, Mensaje(CodigoOp[Siguiente(cpu.pcb).op], cpu.pcb))
    /\ cpu' = CpuPasa("espera")

CpuRespuesta ==
    /\ cpu.estado = "espera"
    /\ a_cpu # <<>>
    /\ Espera(Head(a_cpu))
    /\ a_cpu' = Tail(a_cpu)
    /\ cpu' = IF Head(a_cpu).op = RespuestaSigue[UltimaInstruccion(cpu.pcb).op]
              THEN CpuPasa("ejecuta")
              ELSE CpuLibre
    /\ UNCHANGED <<procesos, kernel, de_cpu, a_fs, de_fs, caido>>

\* Any other message falls in a `default` that leaves its payload unread: what
\* the CPU reads from then on is not modelled.
CpuInesperado ==
    /\ cpu.estado \in {"ociosa", "espera"}
    /\ a_cpu # <<>>
    /\ ~Espera(Head(a_cpu))
    /\ cpu' = CpuPasa("desincronizada")
    /\ UNCHANGED <<procesos, kernel, canales, caido>>

-----------------------------------------------------------------------------
(* atender_cpu: one handler per op_code the CPU sends. *)

\* recibir_operacion and desempaquetar on conexion_cpu.
Recibe(op, p) ==
    /\ hilo_cpu.pc = "espera"
    /\ de_cpu # <<>>
    /\ Head(de_cpu) = Mensaje(op, p)
    /\ de_cpu' = Tail(de_cpu)

Responde(op, p) == a_cpu' = Append(a_cpu, Mensaje(op, p))

CpuSigueEn(etapa, p) == hilo_cpu' = Hilo(etapa, p)

otrosHilos == <<hilo_new, hilo_ready, hilo_fs, hilo_recurso>>

\* DESALOJADO (YIELD): back to READY, then the CPU is released.
AtenderDesalojado(p) ==
    /\ Recibe("DESALOJADO", p)
    /\ EncolarReady(p)
    /\ CpuSigueEn("avisa", Nadie)
    /\ UNCHANGED <<procesos, new, semaforos, recursos, otrosHilos, hilo_io, cpu,
                   a_cpu, a_fs, de_fs, caido>>

CpuAvisaReady ==
    /\ hilo_cpu.pc = "avisa"
    /\ PublicarReady
    /\ CpuSigueEn("habilita", Nadie)
    /\ UNCHANGED <<procesos, new, semaforos, recursos, otrosHilos, hilo_io, cpu,
                   canales, caido>>

\* sem_post(sem_habilitar_exec), the last step of several handlers.
Habilitar ==
    /\ hilo_cpu.pc = "habilita"
    /\ sem_habilitar_exec' = sem_habilitar_exec + 1
    /\ hilo_cpu' = EnEspera
    /\ UNCHANGED <<procesos, new, ready, sem_multiprogramacion, mutex_compresion,
                   recursos, otrosHilos, hilo_io, cpu, canales, caido>>

\* Mutant: blocking when the last instance is granted.
AtenderWaitDeMas(p, r) ==
    /\ Recibe("EJECUTAR_WAIT", p)
    /\ UltimaInstruccion(p).rec = r
    /\ instancias' = [instancias EXCEPT ![r] = @ - 1]
    /\ IF instancias[r] - 1 <= 0
       THEN /\ cola_recurso' = [cola_recurso EXCEPT ![r] = Append(@, p)]
            /\ Responde("DETENER", p)
            /\ CpuSigueEn("habilita", Nadie)
       ELSE /\ Responde("CONTINUAR", p)
            /\ UNCHANGED <<cola_recurso, hilo_cpu>>
    /\ UNCHANGED <<procesos, new, ready, semaforos, sem_recurso, otrosHilos,
                   hilo_io, cpu, a_fs, de_fs, caido>>

\* ejecutar_wait of a configured resource. The push takes no mutex, nor does the
\* pop of RecursoDespierta; each is taken to be atomic.
AtenderWait(p, r) ==
    /\ Recibe("EJECUTAR_WAIT", p)
    /\ UltimaInstruccion(p).rec = r
    /\ instancias' = [instancias EXCEPT ![r] = @ - 1]
    /\ IF instancias[r] - 1 < 0
       THEN /\ cola_recurso' = [cola_recurso EXCEPT ![r] = Append(@, p)]
            /\ Responde("DETENER", p)
            /\ CpuSigueEn("habilita", Nadie)
       ELSE /\ Responde("CONTINUAR", p)
            /\ UNCHANGED <<cola_recurso, hilo_cpu>>
    /\ UNCHANGED <<procesos, new, ready, semaforos, sem_recurso, otrosHilos,
                   hilo_io, cpu, a_fs, de_fs, caido>>

\* ejecutar_wait when no configured resource has that name: the process is
\* logged as finished, the CPU is told CONTINUAR and the token is released.
AtenderWaitInexistente(p) ==
    /\ Recibe("EJECUTAR_WAIT", p)
    /\ UltimaInstruccion(p).rec \notin Recursos
    /\ Responde("CONTINUAR", p)
    /\ motivo' = [motivo EXCEPT ![p] = "SIN_RECURSOS"]
    /\ CpuSigueEn("habilita", Nadie)
    /\ UNCHANGED <<consola, programa, pc, en_memoria, new, ready, semaforos,
                   recursos, otrosHilos, hilo_io, cpu, a_fs, de_fs, caido>>

\* ejecutar_signal: wakes the resource's thread if somebody is queued.
AtenderSignal(p, r) ==
    /\ Recibe("EJECUTAR_SIGNAL", p)
    /\ UltimaInstruccion(p).rec = r
    /\ instancias' = [instancias EXCEPT ![r] = @ + 1]
    /\ sem_recurso' = IF cola_recurso[r] # <<>>
                      THEN [sem_recurso EXCEPT ![r] = @ + 1]
                      ELSE sem_recurso
    /\ Responde("SENAL_1", p)
    /\ UNCHANGED <<procesos, new, ready, semaforos, cola_recurso, hilos, cpu,
                   a_fs, de_fs, caido>>

\* ejecutar_signal of an unknown name: the process stops and is logged as
\* finished; neither its memory nor its multiprogramming slot is given back.
AtenderSignalInexistente(p) ==
    /\ Recibe("EJECUTAR_SIGNAL", p)
    /\ UltimaInstruccion(p).rec \notin Recursos
    /\ Responde("SENAL_0", p)
    /\ motivo' = [motivo EXCEPT ![p] = "SIN_RECURSOS"]
    /\ CpuSigueEn("habilita", Nadie)
    /\ UNCHANGED <<consola, programa, pc, en_memoria, new, ready, semaforos,
                   recursos, otrosHilos, hilo_io, cpu, a_fs, de_fs, caido>>

\* EJECUTAR_IO: the token is released and a thread sleeps for the process.
AtenderIO(p) ==
    /\ Recibe("EJECUTAR_IO", p)
    /\ sem_habilitar_exec' = sem_habilitar_exec + 1
    /\ hilo_io' = [hilo_io EXCEPT !.duermen = @ \cup {p}]
    /\ UNCHANGED <<procesos, new, ready, sem_multiprogramacion, mutex_compresion,
                   recursos, otrosHilos, hilo_cpu, cpu, a_cpu, a_fs, de_fs, caido>>

\* Mutant: the token released before the CPU is told to stop.
AtenderArchivoTemprano(p) ==
    /\ Recibe("LEER_ARCHIVO", p)
    /\ sem_habilitar_exec' = sem_habilitar_exec + 1
    /\ CpuSigueEn("espera_fs", p)
    /\ UNCHANGED <<procesos, new, ready, sem_multiprogramacion, mutex_compresion,
                   recursos, otrosHilos, hilo_io, cpu, a_cpu, a_fs, de_fs, caido>>

\* LEER_ARCHIVO, ESCRIBIR_ARCHIVO and MODIFICAR_TAMANIO up to the sem_wait.
AtenderArchivo(p) ==
    /\ Recibe("LEER_ARCHIVO", p)
    /\ CpuSigueEn("espera_fs", p)
    /\ UNCHANGED <<procesos, new, ready, semaforos, recursos, otrosHilos, hilo_io,
                   cpu, a_cpu, a_fs, de_fs, caido>>

\* sem_wait(mutex_compresion); the request goes to the file system and the
\* process leaves the CPU.
EnviarArchivo ==
    /\ hilo_cpu.pc = "espera_fs"
    /\ mutex_compresion > 0
    /\ mutex_compresion' = mutex_compresion - 1
    /\ a_fs' = Append(a_fs, hilo_cpu.pcb)
    /\ Responde("DETENER", hilo_cpu.pcb)
    /\ CpuSigueEn("habilita", Nadie)
    /\ UNCHANGED <<procesos, new, ready, sem_multiprogramacion,
                   sem_habilitar_exec, recursos, otrosHilos, hilo_io, cpu, de_cpu,
                   de_fs, caido>>

\* FINALIZAR and SEG_FAULT: the CPU token goes first, then the slot, and only
\* then are memory and the console told.
AtenderFinalizar(op, p) ==
    /\ Recibe(op, p)
    /\ sem_habilitar_exec' = sem_habilitar_exec + 1
    /\ motivo' = [motivo EXCEPT ![p] = IF op = "FINALIZAR" THEN "SUCCESS" ELSE op]
    /\ CpuSigueEn("libera", p)
    /\ UNCHANGED <<consola, programa, pc, en_memoria, new, ready,
                   sem_multiprogramacion, mutex_compresion, recursos, otrosHilos,
                   hilo_io, cpu, a_cpu, a_fs, de_fs, caido>>

\* sem_post(sem_multiprogramacion).
LiberarGrado ==
    /\ hilo_cpu.pc = "libera"
    /\ sem_multiprogramacion' = sem_multiprogramacion + 1
    /\ CpuSigueEn("elimina", hilo_cpu.pcb)
    /\ UNCHANGED <<procesos, new, ready, sem_habilitar_exec, mutex_compresion,
                   recursos, otrosHilos, hilo_io, cpu, canales, caido>>

\* enviar_eliminar_proceso to memory and FINALIZAR to the console.
EliminarProceso ==
    /\ hilo_cpu.pc = "elimina"
    /\ en_memoria' = en_memoria \ {hilo_cpu.pcb}
    /\ hilo_cpu' = EnEspera
    /\ UNCHANGED <<consola, programa, pc, motivo, new, ready, semaforos, recursos,
                   otrosHilos, hilo_io, cpu, canales, caido>>

-----------------------------------------------------------------------------
(* atender_cpu: CREAR_SEGMENTO, ELIMINAR_SEGMENTO and analizar_resultado.   *)
(* The memory module answers with any of its replies.                       *)

AtenderCrearSegmento(p) ==
    /\ Recibe("CREAR_SEGMENTO", p)
    /\ CpuSigueEn("espera_memoria", p)
    /\ UNCHANGED <<procesos, new, ready, semaforos, recursos, otrosHilos, hilo_io,
                   cpu, a_cpu, a_fs, de_fs, caido>>

\* A deletion is always answered with the table.
AtenderEliminarSegmento(p) ==
    /\ Recibe("ELIMINAR_SEGMENTO", p)
    /\ CpuSigueEn("espera_tabla", p)
    /\ UNCHANGED <<procesos, new, ready, semaforos, recursos, otrosHilos, hilo_io,
                   cpu, a_cpu, a_fs, de_fs, caido>>

\* Mutant: a reply that also releases the CPU token.
CreacionHabilita ==
    /\ hilo_cpu.pc \in {"espera_memoria", "espera_tabla"}
    /\ Responde("EJECUTAR", hilo_cpu.pcb)
    /\ CpuSigueEn("habilita", Nadie)
    /\ UNCHANGED <<procesos, new, ready, semaforos, recursos, otrosHilos, hilo_io,
                   cpu, de_cpu, a_fs, de_fs, caido>>

\* CREACION_EXITOSA: the PCB with its new table returns to the CPU.
CreacionExitosa ==
    /\ hilo_cpu.pc \in {"espera_memoria", "espera_tabla"}
    /\ Responde("EJECUTAR", hilo_cpu.pcb)
    /\ hilo_cpu' = EnEspera
    /\ UNCHANGED <<procesos, new, ready, semaforos, recursos, otrosHilos, hilo_io,
                   cpu, de_cpu, a_fs, de_fs, caido>>

\* SIN_MEMORIA: memory, CPU and console are told, then both semaphores.
SinMemoria ==
    /\ hilo_cpu.pc = "espera_memoria"
    /\ Responde("FINALIZAR", hilo_cpu.pcb)
    /\ motivo' = [motivo EXCEPT ![hilo_cpu.pcb] = "OUT_OF_MEMORY"]
    /\ en_memoria' = en_memoria \ {hilo_cpu.pcb}
    /\ CpuSigueEn("habilita_sin_memoria", Nadie)
    /\ UNCHANGED <<consola, programa, pc, new, ready, semaforos, recursos,
                   otrosHilos, hilo_io, cpu, de_cpu, a_fs, de_fs, caido>>

\* Mutant: SIN_MEMORIA without sem_post(sem_multiprogramacion).
HabilitarSinLiberar ==
    /\ hilo_cpu.pc = "habilita_sin_memoria"
    /\ sem_habilitar_exec' = sem_habilitar_exec + 1
    /\ hilo_cpu' = EnEspera
    /\ UNCHANGED <<procesos, new, ready, sem_multiprogramacion, mutex_compresion,
                   recursos, otrosHilos, hilo_io, cpu, canales, caido>>

HabilitarSinMemoria ==
    /\ hilo_cpu.pc = "habilita_sin_memoria"
    /\ sem_habilitar_exec' = sem_habilitar_exec + 1
    /\ CpuSigueEn("libera_sin_memoria", Nadie)
    /\ UNCHANGED <<procesos, new, ready, sem_multiprogramacion, mutex_compresion,
                   recursos, otrosHilos, hilo_io, cpu, canales, caido>>

LiberarSinMemoria ==
    /\ hilo_cpu.pc = "libera_sin_memoria"
    /\ sem_multiprogramacion' = sem_multiprogramacion + 1
    /\ hilo_cpu' = EnEspera
    /\ UNCHANGED <<procesos, new, ready, sem_habilitar_exec, mutex_compresion,
                   recursos, otrosHilos, hilo_io, cpu, canales, caido>>

\* REALIZAR_COMPACTACION arrives; the handler now blocks on mutex_compresion.
RealizarCompactacion ==
    /\ hilo_cpu.pc = "espera_memoria"
    /\ CpuSigueEn("espera_compactar", hilo_cpu.pcb)
    /\ UNCHANGED <<procesos, new, ready, semaforos, recursos, otrosHilos, hilo_io,
                   cpu, canales, caido>>

\* Mutant: compaction without sem_wait(mutex_compresion).
CompactarSinEsperar ==
    /\ hilo_cpu.pc = "espera_compactar"
    /\ UNCHANGED mutex_compresion
    /\ CpuSigueEn("compacta", hilo_cpu.pcb)
    /\ UNCHANGED <<procesos, new, ready, sem_multiprogramacion,
                   sem_habilitar_exec, recursos, otrosHilos, hilo_io, cpu, canales,
                   caido>>

\* sem_wait(mutex_compresion) returns: no file operation runs, memory may compact.
PedirCompactacion ==
    /\ hilo_cpu.pc = "espera_compactar"
    /\ mutex_compresion > 0
    /\ mutex_compresion' = mutex_compresion - 1
    /\ CpuSigueEn("compacta", hilo_cpu.pcb)
    /\ UNCHANGED <<procesos, new, ready, sem_multiprogramacion,
                   sem_habilitar_exec, recursos, otrosHilos, hilo_io, cpu, canales,
                   caido>>

\* COMPACTAR: the creation is asked for again, and now fits in the one hole.
FinCompactacion ==
    /\ hilo_cpu.pc = "compacta"
    /\ mutex_compresion' = mutex_compresion + 1
    /\ CpuSigueEn("espera_tabla", hilo_cpu.pcb)
    /\ UNCHANGED <<procesos, new, ready, sem_multiprogramacion,
                   sem_habilitar_exec, recursos, otrosHilos, hilo_io, cpu, canales,
                   caido>>

-----------------------------------------------------------------------------
(* The file system and atender_fileSystem. *)

\* The file system ends the oldest request, with the memory accesses it needs,
\* and answers DESBLOQUEADO.
FileSystemTermina ==
    /\ a_fs # <<>>
    /\ a_fs' = Tail(a_fs)
    /\ de_fs' = Append(de_fs, Head(a_fs))
    /\ UNCHANGED <<procesos, kernel, cpu, a_cpu, de_cpu, caido>>

\* Mutant: DESBLOQUEADO without sem_post(mutex_compresion).
FsDesbloqueadoSinPost ==
    /\ hilo_fs.pc = "espera"
    /\ de_fs # <<>>
    /\ de_fs' = Tail(de_fs)
    /\ UNCHANGED mutex_compresion
    /\ hilo_fs' = Hilo("encola", Head(de_fs))
    /\ UNCHANGED <<procesos, new, ready, sem_multiprogramacion,
                   sem_habilitar_exec, recursos, hilo_new, hilo_ready, hilo_cpu,
                   hilo_recurso, hilo_io, cpu, a_cpu, de_cpu, a_fs, caido>>

FsDesbloqueado ==
    /\ hilo_fs.pc = "espera"
    /\ de_fs # <<>>
    /\ de_fs' = Tail(de_fs)
    /\ mutex_compresion' = mutex_compresion + 1
    /\ hilo_fs' = Hilo("encola", Head(de_fs))
    /\ UNCHANGED <<procesos, new, ready, sem_multiprogramacion,
                   sem_habilitar_exec, recursos, hilo_new, hilo_ready, hilo_cpu,
                   hilo_recurso, hilo_io, cpu, a_cpu, de_cpu, a_fs, caido>>

FsEncola ==
    /\ hilo_fs.pc = "encola"
    /\ EncolarReady(hilo_fs.pcb)
    /\ hilo_fs' = Hilo("avisa", Nadie)
    /\ UNCHANGED <<procesos, new, semaforos, recursos, hilo_new, hilo_ready,
                   hilo_cpu, hilo_recurso, hilo_io, cpu, canales, caido>>

FsAvisa ==
    /\ hilo_fs.pc = "avisa"
    /\ PublicarReady
    /\ hilo_fs' = EnEspera
    /\ UNCHANGED <<procesos, new, semaforos, recursos, hilo_new, hilo_ready,
                   hilo_cpu, hilo_recurso, hilo_io, cpu, canales, caido>>

-----------------------------------------------------------------------------
(* iniciar_recurso, one thread per resource, and ejecutar_IO. *)

RecursoPasa(r, hilo) == hilo_recurso' = [hilo_recurso EXCEPT ![r] = hilo]

\* sem_wait(sem_recurso), then queue_pop, which answers NULL on an empty queue.
RecursoDespierta(r) ==
    /\ hilo_recurso[r].pc = "espera"
    /\ sem_recurso[r] > 0
    /\ sem_recurso' = [sem_recurso EXCEPT ![r] = @ - 1]
    /\ IF cola_recurso[r] # <<>>
       THEN /\ RecursoPasa(r, Hilo("encola", Head(cola_recurso[r])))
            /\ cola_recurso' = [cola_recurso EXCEPT ![r] = Tail(@)]
            /\ UNCHANGED caido
       ELSE /\ caido' = TRUE
            /\ UNCHANGED <<hilo_recurso, cola_recurso>>
    /\ UNCHANGED <<procesos, new, ready, semaforos, instancias, hilo_new,
                   hilo_ready, hilo_cpu, hilo_fs, hilo_io, cpu, canales>>

\* Mutant: a waker that queues its process without sem_post(sem_ready).
RecursoEncolaSinPost(r) ==
    /\ hilo_recurso[r].pc = "encola"
    /\ EncolarReady(hilo_recurso[r].pcb)
    /\ RecursoPasa(r, EnEspera)
    /\ UNCHANGED <<procesos, new, semaforos, recursos, hilo_new, hilo_ready,
                   hilo_cpu, hilo_fs, hilo_io, cpu, canales, caido>>

RecursoEncola(r) ==
    /\ hilo_recurso[r].pc = "encola"
    /\ EncolarReady(hilo_recurso[r].pcb)
    /\ RecursoPasa(r, Hilo("avisa", Nadie))
    /\ UNCHANGED <<procesos, new, semaforos, recursos, hilo_new, hilo_ready,
                   hilo_cpu, hilo_fs, hilo_io, cpu, canales, caido>>

RecursoAvisa(r) ==
    /\ hilo_recurso[r].pc = "avisa"
    /\ PublicarReady
    /\ RecursoPasa(r, EnEspera)
    /\ UNCHANGED <<procesos, new, semaforos, recursos, hilo_new, hilo_ready,
                   hilo_cpu, hilo_fs, hilo_io, cpu, canales, caido>>

\* Mutant: the IO thread queues its process without sem_post(sem_ready).
IOEncolaSinPost(p) ==
    /\ p \in hilo_io.duermen
    /\ EncolarReady(p)
    /\ hilo_io' = [hilo_io EXCEPT !.duermen = @ \ {p}]
    /\ UNCHANGED <<procesos, new, semaforos, recursos, otrosHilos, hilo_cpu, cpu,
                   canales, caido>>

\* The sleep ends. A thread that has queued its process posts on its own.
IOEncola(p) ==
    /\ p \in hilo_io.duermen
    /\ EncolarReady(p)
    /\ hilo_io' = [duermen |-> hilo_io.duermen \ {p}, avisan |-> hilo_io.avisan + 1]
    /\ UNCHANGED <<procesos, new, semaforos, recursos, otrosHilos, hilo_cpu, cpu,
                   canales, caido>>

IOAvisa ==
    /\ hilo_io.avisan > 0
    /\ PublicarReady
    /\ hilo_io' = [hilo_io EXCEPT !.avisan = @ - 1]
    /\ UNCHANGED <<procesos, new, semaforos, recursos, otrosHilos, hilo_cpu, cpu,
                   canales, caido>>

-----------------------------------------------------------------------------
(* The system: every thread, and the two processes it talks to. *)

HiloNew   == NewDespierta \/ NewVacia \/ NewQuita \/ NewEncola \/ NewAvisa
HiloReady == ReadyDespierta \/ ReadyVacia \/ ReadyQuita \/ ReadyEnvia
HiloFs    == FsDesbloqueado \/ FsEncola \/ FsAvisa
Consola(p) == ConsolaEncola(p) \/ ConsolaAvisa(p)
HiloRecurso(r) == RecursoDespierta(r) \/ RecursoEncola(r) \/ RecursoAvisa(r)
HiloIO == IOAvisa \/ \E p \in Procesos : IOEncola(p)

AtenderSyscall(p) ==
    \/ AtenderDesalojado(p) \/ AtenderIO(p) \/ AtenderArchivo(p)
    \/ \E r \in Recursos : AtenderWait(p, r) \/ AtenderSignal(p, r)
    \/ AtenderWaitInexistente(p) \/ AtenderSignalInexistente(p)
    \/ AtenderCrearSegmento(p) \/ AtenderEliminarSegmento(p)
    \/ AtenderFinalizar("FINALIZAR", p) \/ AtenderFinalizar("SEG_FAULT", p)

ContinuarHandler ==
    \/ CpuAvisaReady \/ Habilitar \/ EnviarArchivo \/ LiberarGrado \/ EliminarProceso
    \/ CreacionExitosa \/ SinMemoria \/ HabilitarSinMemoria \/ LiberarSinMemoria
    \/ RealizarCompactacion \/ PedirCompactacion \/ FinCompactacion

HiloCpu == (\E p \in Procesos : AtenderSyscall(p)) \/ ContinuarHandler

Cpu == CpuRecibe \/ CpuLocal \/ CpuSegFault \/ CpuDevuelve \/ CpuLlama
       \/ CpuRespuesta \/ CpuInesperado

Next ==
    /\ ~caido
    /\ \/ HiloNew \/ HiloReady \/ HiloCpu \/ HiloFs \/ HiloIO
       \/ FileSystemTermina \/ Cpu
       \/ \E p \in Procesos : Consola(p)
       \/ \E r \in Recursos : HiloRecurso(r)

Spec == Init /\ [][Next]_vars

\* Every thread keeps running while the kernel is up, and consoles do send
\* their program.
Justicia ==
    /\ WF_vars(~caido /\ HiloNew)
    /\ WF_vars(~caido /\ HiloReady)
    /\ WF_vars(~caido /\ HiloCpu)
    /\ WF_vars(~caido /\ HiloFs)
    /\ WF_vars(~caido /\ FileSystemTermina)
    /\ WF_vars(~caido /\ Cpu)
    /\ WF_vars(~caido /\ IOAvisa)
    /\ \A p \in Procesos : /\ WF_vars(~caido /\ Consola(p))
                           /\ WF_vars(~caido /\ IOEncola(p))
    /\ \A r \in Recursos : WF_vars(~caido /\ HiloRecurso(r))

SpecJusta == Spec /\ Justicia

-----------------------------------------------------------------------------
(* Where a process is. *)

Esta(p, cola) == \E i \in DOMAIN cola : cola[i] = p

\* Process p runs, or is on its way to running again without being dispatched.
Ejecutando(p) ==
    \/ hilo_ready = Hilo("envia", p)
    \/ \E i \in DOMAIN a_cpu : /\ a_cpu[i].pid = p
                               /\ a_cpu[i].op \in {"EJECUTAR", "CONTINUAR", "SENAL_1"}
    \/ cpu = [estado |-> "ejecuta", pcb |-> p]
    \/ \E i \in DOMAIN de_cpu : de_cpu[i].pid = p
    \/ /\ hilo_cpu.pcb = p
       /\ hilo_cpu.pc \in {"espera_fs", "espera_memoria", "espera_tabla",
                          "espera_compactar", "compacta"}

Nuevo(p) == Esta(p, cola_new) \/ hilo_new = Hilo("encola", p)

Bloqueado(p) ==
    \/ \E r \in Recursos : Esta(p, cola_recurso[r]) \/ hilo_recurso[r] = Hilo("encola", p)
    \/ p \in hilo_io.duermen
    \/ Esta(p, a_fs) \/ Esta(p, de_fs) \/ hilo_fs = Hilo("encola", p)

EstadoDe(p) ==
    IF motivo[p] # "ninguno" THEN "EXIT"
    ELSE IF consola[p] = "inicio" THEN "NONE"
    ELSE IF Nuevo(p) THEN "NEW"
    ELSE IF Esta(p, cola_ready) THEN "READY"
    ELSE IF Bloqueado(p) THEN "BLOCK"
    ELSE "EXEC"

\* Every copy of p's PCB the kernel could still schedule.
Lugares(p) ==
    {<<"new", i>> : i \in {j \in DOMAIN cola_new : cola_new[j] = p}}
    \cup {<<"ready", i>> : i \in {j \in DOMAIN cola_ready : cola_ready[j] = p}}
    \cup (UNION {{<<r, i>> : i \in {j \in DOMAIN cola_recurso[r] : cola_recurso[r][j] = p}} :
                 r \in Recursos})
    \cup {<<"fs", i>> : i \in {j \in DOMAIN a_fs : a_fs[j] = p}}
    \cup {<<"de_fs", i>> : i \in {j \in DOMAIN de_fs : de_fs[j] = p}}
    \cup {<<"hilo", h>> : h \in {k \in {hilo_new, hilo_fs} : k = Hilo("encola", p)}}
    \cup {<<"hilo_recurso", r>> : r \in {k \in Recursos : hilo_recurso[k] = Hilo("encola", p)}}
    \cup {<<"io", q>> : q \in hilo_io.duermen \cap {p}}
    \cup {<<"exec", q>> : q \in {k \in {p} : Ejecutando(k)}}

-----------------------------------------------------------------------------
(* Properties. *)

Uno(b) == IF b THEN 1 ELSE 0

\* A thread that holds no PCB at the steps `libres` and one at the steps `ocupados`.
UnHilo(libres, ocupados) ==
    [pc : libres, pcb : {Nadie}] \cup [pc : ocupados, pcb : Procesos]
UnaCpu == [estado : {"ociosa", "desincronizada"}, pcb : Procesos \cup {Nadie}]
          \cup [estado : {"ejecuta", "espera"}, pcb : Procesos]
CpuLibres == {"espera", "avisa", "habilita", "habilita_sin_memoria", "libera_sin_memoria"}
CpuOcupados == {"espera_fs", "espera_memoria", "espera_tabla", "espera_compactar",
                "compacta", "libera", "elimina"}
AlCpu == [op  : {"EJECUTAR", "CONTINUAR", "DETENER", "FINALIZAR", "SENAL_0", "SENAL_1"},
          pid : Procesos]
DelCpu == [op  : {"DESALOJADO", "EJECUTAR_IO", "FINALIZAR", "EJECUTAR_WAIT",
                  "EJECUTAR_SIGNAL", "LEER_ARCHIVO", "CREAR_SEGMENTO",
                  "ELIMINAR_SEGMENTO", "SEG_FAULT"},
           pid : Procesos]

TipoProcesos ==
    /\ consola \in [Procesos -> {"inicio", "avisa", "conectada"}]
    /\ programa \in [Procesos -> Programas]
    /\ pc \in [Procesos -> Nat]
    /\ motivo \in [Procesos -> {"ninguno", "SUCCESS", "SEG_FAULT", "OUT_OF_MEMORY",
                               "SIN_RECURSOS"}]
    /\ en_memoria \subseteq Procesos

TipoColas ==
    /\ cola_new \in Seq(Procesos) /\ sem_nuevo \in Nat
    /\ cola_ready \in Seq(Procesos) /\ sem_ready \in Nat

TipoSemaforos ==
    /\ sem_multiprogramacion \in Nat
    /\ sem_habilitar_exec \in Nat
    /\ mutex_compresion \in Nat

TipoRecursos ==
    /\ instancias \in [Recursos -> Int]
    /\ cola_recurso \in [Recursos -> Seq(Procesos)]
    /\ sem_recurso \in [Recursos -> Nat]

TipoHilos ==
    /\ hilo_new \in UnHilo({"espera", "revisa", "avisa"}, {"encola"})
    /\ hilo_ready \in UnHilo({"espera", "revisa"}, {"envia"})
    /\ hilo_cpu \in UnHilo(CpuLibres, CpuOcupados)
    /\ hilo_fs \in UnHilo({"espera", "avisa"}, {"encola"})
    /\ hilo_recurso \in [Recursos -> UnHilo({"espera", "avisa"}, {"encola"})]
    /\ hilo_io \in [duermen : SUBSET Procesos, avisan : Nat]

TipoSockets ==
    /\ cpu \in UnaCpu
    /\ a_cpu \in Seq(AlCpu) /\ de_cpu \in Seq(DelCpu)
    /\ a_fs \in Seq(Procesos) /\ de_fs \in Seq(Procesos)

\* Types; in particular no semaphore goes below zero (kernel.c:152-170).
TipoOK ==
    /\ TipoProcesos /\ TipoColas /\ TipoSemaforos /\ TipoRecursos
    /\ TipoHilos /\ TipoSockets
    /\ caido \in BOOLEAN

\* sem_habilitar_exec is a single token: at most one process runs or is about
\* to, and none while the token is free (kernel.c:745, 762 and every post).
UnSoloEnEjecucion ==
    /\ sem_habilitar_exec \in {0, 1}
    /\ \A p, q \in Procesos : Ejecutando(p) /\ Ejecutando(q) => p = q
    /\ \A p \in Procesos : Ejecutando(p) => sem_habilitar_exec = 0

\* No PCB is lost or handled twice: a submitted process that has not finished
\* is in exactly one queue, thread or message of the system.
PcbUnico ==
    \A p \in Procesos :
        Cardinality(Lugares(p)) =
            Uno(consola[p] # "inicio" /\ motivo[p] = "ninguno")

ReadyAvisada ==
    cola_ready # <<>> /\ hilo_ready.pc = "espera" =>
        \/ sem_ready > 0
        \/ "avisa" \in {hilo_new.pc, hilo_cpu.pc, hilo_fs.pc}
        \/ \E r \in Recursos : hilo_recurso[r].pc = "avisa"
        \/ hilo_io.avisan > 0

NewAvisada ==
    cola_new # <<>> /\ hilo_new.pc = "espera" =>
        sem_nuevo > 0 \/ \E p \in Procesos : consola[p] = "avisa"

\* The schedulers test their queue outside the loop's semaphore
\* (kernel.c:704, 742) and leave posts behind, but never sleep on a queue with
\* a process in it unless the post that wakes them is still to come.
SinDespertarPerdido == ReadyAvisada /\ NewAvisada

\* Multiprogramming slots are neither lost nor invented: each is free, taken
\* by an admitted process, or on its way between the two.
SlotsConservados ==
    sem_multiprogramacion
      + Cardinality({p \in Procesos : EstadoDe(p) \in {"READY", "EXEC", "BLOCK"}})
      + Uno(hilo_new.pc = "encola")
      + Uno(hilo_cpu.pc \in {"libera", "habilita_sin_memoria", "libera_sin_memoria"})
      = GradoMultiprogramacion

\* Three kernel threads write to the CPU's socket without a lock, yet each
\* message the CPU reads is the one its current recv is for.
ProtocoloCpu ==
    a_cpu # <<>> => cpu.estado # "ejecuta" /\ Espera(Head(a_cpu))

\* ejecutar_signal tests the queue and the resource's thread pops it later
\* (kernel.c:950, 865): as many processes wait unsignalled as the count owes.
ContabilidadRecursos ==
    \A r \in Recursos :
        Len(cola_recurso[r]) - sem_recurso[r] =
            IF instancias[r] < 0 THEN - instancias[r] ELSE 0

\* Memory is compacted only while no file operation is using a physical
\* address, neither in the file system nor on its way there from the CPU.
ExclusionCompactacion ==
    hilo_cpu.pc = "compacta" =>
        /\ a_fs = <<>>
        /\ \A i \in DOMAIN de_cpu : de_cpu[i].op # "LEER_ARCHIVO"

Ciclo == INSTANCE CicloDeVida WITH estado <- [p \in Procesos |-> EstadoDe(p)]

\* The scheduler implements the five-state diagram its log lines announce.
ImplementaCiclo == Ciclo!Spec

\* Every submitted process is eventually finished and removed from memory.
TodoProcesoTermina ==
    \A p \in Procesos :
        consola[p] = "avisa" ~> motivo[p] # "ninguno" /\ p \notin en_memoria

\* "El recurso no existe, el proceso finaliza" (kernel.c:920): a process logged
\* as finished executes no further instruction.
FinalizadoNoEjecuta ==
    [][\A p \in Procesos : motivo[p] # "ninguno" => pc'[p] = pc[p]]_vars

\* "Liberar datso en memoria" (kernel.c:964): a process logged as finished
\* leaves the memory module.
FinalizadoSaleDeMemoria ==
    \A p \in Procesos : motivo[p] # "ninguno" ~> p \notin en_memoria
=============================================================================
