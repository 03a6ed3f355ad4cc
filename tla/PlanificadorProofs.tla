------------------------- MODULE PlanificadorProofs -------------------------
(***************************************************************************)
(* Proofs about Planificador, for every value of its constants: its types, *)
(* what a resource's counter says of its queue, and the token.             *)
(*                                                                         *)
(* The token is the unit of sem_habilitar_exec, which admits one process   *)
(* at a time to the CPU. A step that takes it hands it to a thread, a      *)
(* message or the CPU, and it travels until some handler posts the         *)
(* semaphore again: it is always in exactly one place.                     *)
(*                                                                         *)
(* A WAIT for a resource that is not configured breaks this: the CPU is    *)
(* told CONTINUAR and the semaphore is posted as well (kernel.c:919-927).  *)
(* What needs the token therefore assumes that programs name configured    *)
(* resources (RecursosConfigurados).                                       *)
(*                                                                         *)
(* Last is what the kernel and the CPU say to each other, and what a       *)
(* compaction excludes. Three kernel threads write to the CPU's socket     *)
(* without a lock. The CPU never reads a message it is not prepared for,   *)
(* because whoever may write holds the token, and because a process that   *)
(* waits for an answer has its call in the socket or in a handler until    *)
(* the answer is sent (Protocolo).                                         *)
(***************************************************************************)
EXTENDS Planificador, ColasProofs, SequenceTheorems, TLAPS

-----------------------------------------------------------------------------
(* Facts about the operators of the model. *)

\* A thread's record has the type of its step: with no PCB or with one.
LEMMA HiloTipo ==
    ASSUME NEW L, NEW O, NEW e, NEW p
    PROVE  Hilo(e, p) \in UnHilo(L, O) <=> (e \in L /\ p = Nadie) \/ (e \in O /\ p \in Procesos)
  BY DEF Hilo, UnHilo

LEMMA HiloPcb ==
    ASSUME NEW L, NEW O, NEW h \in UnHilo(L, O), h.pc \notin L
    PROVE  h.pc \in O /\ h.pcb \in Procesos
  BY DEF UnHilo

\* A CPU that runs or waits has a process, and keeps it while it does.
LEMMA CpuProceso ==
    ASSUME NEW c \in UnaCpu, c.estado \in {"ejecuta", "espera"}
    PROVE  c.pcb \in Procesos
  BY DEF UnaCpu

LEMMA CpuCambia ==
    ASSUME NEW c \in UnaCpu, NEW e \in {"ejecuta", "espera"},
           c.estado \in {"ejecuta", "espera"}
    PROVE  [c EXCEPT !.estado = e] \in UnaCpu
  BY DEF UnaCpu

LEMMA CpuDesincronizada ==
    ASSUME NEW c \in UnaCpu
    PROVE  [c EXCEPT !.estado = "desincronizada"] \in UnaCpu
  BY DEF UnaCpu

LEMMA CpuLibreTipo == CpuLibre \in UnaCpu
  BY DEF UnaCpu, CpuLibre

\* Every instruction that leaves the CPU has a message of its own.
LEMMA CodigoTipo ==
    ASSUME NEW q \in Procesos, NEW o \in DOMAIN CodigoOp
    PROVE  Mensaje(CodigoOp[o], q) \in DelCpu
<1>1. CodigoOp[o] \in {"DESALOJADO", "EJECUTAR_IO", "FINALIZAR", "EJECUTAR_WAIT",
                       "EJECUTAR_SIGNAL", "LEER_ARCHIVO", "CREAR_SEGMENTO",
                       "ELIMINAR_SEGMENTO"}
  BY DEF CodigoOp
<1> QED
  BY <1>1 DEF Mensaje, DelCpu

\* fetch moves one counter, of the process the CPU holds.
LEMMA EjecutaTipo ==
    ASSUME TipoOK, NEW ops, Ejecuta(ops)
    PROVE  cpu.pcb \in Procesos /\ TipoProcesos'
<1>1. cpu.pcb \in Procesos
  BY CpuProceso DEF Ejecuta, TipoOK, TipoSockets
<1>2. pc' \in [Procesos -> Nat]
  BY <1>1 DEF Ejecuta, TipoOK, TipoProcesos
<1> QED
  BY <1>1, <1>2 DEF Ejecuta, TipoOK, TipoProcesos

\* A thread at a step that needs a PCB has one, and so has a busy CPU.
LEMMA PcbDeHilo ==
    ASSUME TipoHilos
    PROVE  /\ hilo_new.pc = "encola" => hilo_new.pcb \in Procesos
           /\ hilo_ready.pc = "envia" => hilo_ready.pcb \in Procesos
           /\ hilo_cpu.pc \in CpuOcupados => hilo_cpu.pcb \in Procesos
           /\ hilo_fs.pc = "encola" => hilo_fs.pcb \in Procesos
           /\ \A r \in Recursos :
                 hilo_recurso[r].pc = "encola" => hilo_recurso[r].pcb \in Procesos
<1>1. hilo_new.pc = "encola" => hilo_new.pcb \in Procesos
  BY HiloPcb DEF TipoHilos
<1>2. hilo_ready.pc = "envia" => hilo_ready.pcb \in Procesos
  BY HiloPcb DEF TipoHilos
<1>3. hilo_cpu.pc \in CpuOcupados => hilo_cpu.pcb \in Procesos
  BY HiloPcb DEF TipoHilos, CpuLibres, CpuOcupados
<1>4. hilo_fs.pc = "encola" => hilo_fs.pcb \in Procesos
  BY HiloPcb DEF TipoHilos
<1>5. ASSUME NEW r \in Recursos, hilo_recurso[r].pc = "encola"
      PROVE  hilo_recurso[r].pcb \in Procesos
  BY <1>5, HiloPcb DEF TipoHilos
<1> QED
  BY <1>1, <1>2, <1>3, <1>4, <1>5

\* A part of the type invariant holds on while its variables do not change.
LEMMA Estable ==
    ASSUME TipoOK
    PROVE  /\ UNCHANGED procesos => TipoProcesos'
           /\ UNCHANGED <<new, ready>> => TipoColas'
           /\ UNCHANGED semaforos => TipoSemaforos'
           /\ UNCHANGED recursos => TipoRecursos'
           /\ UNCHANGED hilos => TipoHilos'
           /\ UNCHANGED <<cpu, canales>> => TipoSockets'
<1>1. UNCHANGED procesos => TipoProcesos'
  BY DEF TipoOK, TipoProcesos, procesos
<1>2. UNCHANGED <<new, ready>> => TipoColas'
  BY DEF TipoOK, TipoColas, new, ready
<1>3. UNCHANGED semaforos => TipoSemaforos'
  BY DEF TipoOK, TipoSemaforos, semaforos
<1>4. UNCHANGED recursos => TipoRecursos'
  BY DEF TipoOK, TipoRecursos, recursos
<1>5. UNCHANGED hilos => TipoHilos'
  BY DEF TipoOK, TipoHilos, hilos
<1>6. UNCHANGED <<cpu, canales>> => TipoSockets'
  BY DEF TipoOK, TipoSockets, canales
<1> QED
  BY <1>1, <1>2, <1>3, <1>4, <1>5, <1>6

LEMMA TipoInicial == ASSUME Init PROVE TipoOK
<1> USE SupuestosPlanificador DEF Init
<1>1. TipoProcesos
  BY DEF TipoProcesos
<1>2. TipoColas /\ TipoSemaforos
  BY DEF TipoColas, TipoSemaforos
<1>3. TipoRecursos
  BY DEF TipoRecursos
<1>4. TipoHilos
  BY HiloTipo DEF TipoHilos, EnEspera, CpuLibres
<1>5. TipoSockets
  BY DEF TipoSockets, UnaCpu, CpuLibre
<1> QED
  BY <1>1, <1>2, <1>3, <1>4, <1>5 DEF TipoOK

\* Every step keeps every part of the type invariant that it touches.
LEMMA TipoPaso == ASSUME TipoOK, [Next]_vars PROVE TipoOK'
<1> USE DEF TipoOK, procesos, new, ready, semaforos, recursos, hilos, canales, kernel, otrosHilos
<1>1. CASE NewDespierta
  <2>1. TipoColas'
    BY <1>1 DEF NewDespierta, TipoColas
  <2>2. TipoHilos'
    BY <1>1, HiloTipo DEF NewDespierta, TipoHilos, EnEspera
  <2> QED
    BY <1>1, <2>1, <2>2, Estable DEF NewDespierta
<1>2. CASE NewVacia
  <2>1. TipoHilos'
    BY <1>2, HiloTipo DEF NewVacia, TipoHilos, EnEspera
  <2> QED
    BY <1>2, <2>1, Estable DEF NewVacia
<1>3. CASE NewQuita
  <2>1. TipoColas'
    BY <1>3 DEF NewQuita, TipoColas
  <2>2. TipoSemaforos'
    BY <1>3 DEF NewQuita, TipoSemaforos
  <2>3. TipoHilos'
    BY <1>3, HiloTipo DEF NewQuita, TipoHilos, TipoColas, EnEspera
  <2> QED
    BY <1>3, <2>1, <2>2, <2>3, Estable DEF NewQuita
<1>4. CASE NewEncola
  <2>1. TipoColas'
    BY <1>4, PcbDeHilo DEF NewEncola, EncolarReady, TipoColas
  <2>2. TipoHilos'
    BY <1>4, HiloTipo DEF NewEncola, EncolarReady, TipoHilos, EnEspera
  <2> QED
    BY <1>4, <2>1, <2>2, Estable DEF NewEncola
<1>5. CASE NewAvisa
  <2>1. TipoColas'
    BY <1>5 DEF NewAvisa, PublicarReady, TipoColas
  <2>2. TipoHilos'
    BY <1>5, HiloTipo DEF NewAvisa, PublicarReady, TipoHilos, EnEspera
  <2> QED
    BY <1>5, <2>1, <2>2, Estable DEF NewAvisa
<1>6. CASE ReadyDespierta
  <2>1. TipoColas'
    BY <1>6 DEF ReadyDespierta, TipoColas
  <2>2. TipoHilos'
    BY <1>6, HiloTipo DEF ReadyDespierta, TipoHilos, EnEspera
  <2> QED
    BY <1>6, <2>1, <2>2, Estable DEF ReadyDespierta
<1>7. CASE ReadyVacia
  <2>1. TipoHilos'
    BY <1>7, HiloTipo DEF ReadyVacia, TipoHilos, EnEspera
  <2> QED
    BY <1>7, <2>1, Estable DEF ReadyVacia
<1>8. CASE ReadyQuita
  <2>1. TipoColas'
    BY <1>8, SinUno DEF ReadyQuita, TipoColas
  <2>2. TipoSemaforos'
    BY <1>8 DEF ReadyQuita, TipoSemaforos
  <2>3. TipoHilos'
    BY <1>8, HiloTipo DEF ReadyQuita, TipoHilos, TipoColas, EnEspera
  <2> QED
    BY <1>8, <2>1, <2>2, <2>3, Estable DEF ReadyQuita
<1>9. CASE ReadyEnvia
  <2>1. TipoHilos'
    BY <1>9, HiloTipo DEF ReadyEnvia, TipoHilos, EnEspera
  <2>2. TipoSockets'
    BY <1>9, PcbDeHilo DEF ReadyEnvia, TipoSockets, AlCpu, Mensaje
  <2> QED
    BY <1>9, <2>1, <2>2, Estable DEF ReadyEnvia
<1>10. ASSUME NEW p \in Procesos, ConsolaEncola(p) PROVE TipoOK'
  <2>1. TipoProcesos'
    BY <1>10 DEF ConsolaEncola, TipoProcesos
  <2>2. TipoColas'
    BY <1>10 DEF ConsolaEncola, TipoColas
  <2> QED
    BY <1>10, <2>1, <2>2, Estable DEF ConsolaEncola
<1>11. ASSUME NEW p \in Procesos, ConsolaAvisa(p) PROVE TipoOK'
  <2>1. TipoProcesos'
    BY <1>11 DEF ConsolaAvisa, TipoProcesos
  <2>2. TipoColas'
    BY <1>11 DEF ConsolaAvisa, TipoColas
  <2> QED
    BY <1>11, <2>1, <2>2, Estable DEF ConsolaAvisa
<1>12. ASSUME NEW p \in Procesos, AtenderDesalojado(p) PROVE TipoOK'
  <2>1. TipoColas'
    BY <1>12 DEF AtenderDesalojado, Recibe, CpuSigueEn, EncolarReady, TipoColas
  <2>2. TipoHilos'
    BY <1>12, HiloTipo DEF AtenderDesalojado, Recibe, CpuSigueEn, EncolarReady, TipoHilos, EnEspera, CpuLibres, CpuOcupados
  <2>3. TipoSockets'
    BY <1>12 DEF AtenderDesalojado, Recibe, CpuSigueEn, EncolarReady, TipoSockets, Mensaje
  <2> QED
    BY <1>12, <2>1, <2>2, <2>3, Estable DEF AtenderDesalojado, Recibe
<1>13. ASSUME NEW p \in Procesos, AtenderIO(p) PROVE TipoOK'
  <2>1. TipoSemaforos'
    BY <1>13 DEF AtenderIO, Recibe, TipoSemaforos
  <2>2. TipoHilos'
    BY <1>13, HiloTipo DEF AtenderIO, Recibe, TipoHilos, EnEspera, CpuLibres, CpuOcupados
  <2>3. TipoSockets'
    BY <1>13 DEF AtenderIO, Recibe, TipoSockets, Mensaje
  <2> QED
    BY <1>13, <2>1, <2>2, <2>3, Estable DEF AtenderIO, Recibe
<1>14. ASSUME NEW p \in Procesos, AtenderArchivo(p) PROVE TipoOK'
  <2>1. TipoHilos'
    BY <1>14, HiloTipo DEF AtenderArchivo, Recibe, CpuSigueEn, TipoHilos, EnEspera, CpuLibres, CpuOcupados
  <2>2. TipoSockets'
    BY <1>14 DEF AtenderArchivo, Recibe, CpuSigueEn, TipoSockets, Mensaje
  <2> QED
    BY <1>14, <2>1, <2>2, Estable DEF AtenderArchivo, Recibe
<1>15. ASSUME NEW p \in Procesos, NEW r \in Recursos, AtenderWait(p, r)
     PROVE  TipoOK'
  <2>1. instancias' \in [Recursos -> Int] /\ sem_recurso' \in [Recursos -> Nat]
    BY <1>15 DEF AtenderWait, TipoRecursos
  <2>2. de_cpu' \in Seq(DelCpu)
    BY <1>15 DEF AtenderWait, Recibe, TipoSockets
  <2>3. Mensaje("DETENER", p) \in AlCpu /\ Mensaje("CONTINUAR", p) \in AlCpu
    BY DEF Mensaje, AlCpu
  <2>4. CASE instancias[r] - 1 < 0
    <3>a. Append(cola_recurso[r], p) \in Seq(Procesos)
      BY DEF TipoRecursos
    <3>b. cola_recurso' = [cola_recurso EXCEPT ![r] = Append(cola_recurso[r], p)]
      BY <1>15, <2>4 DEF AtenderWait
    <3>1. cola_recurso' \in [Recursos -> Seq(Procesos)]
      BY <3>a, <3>b DEF TipoRecursos
    <3>c. a_cpu' = Append(a_cpu, Mensaje("DETENER", p))
      BY <1>15, <2>4 DEF AtenderWait, Responde
    <3>2. a_cpu' \in Seq(AlCpu)
      BY <2>3, <3>c DEF TipoSockets
    <3>3. TipoHilos'
      BY <1>15, <2>4, HiloTipo DEF AtenderWait, CpuSigueEn, TipoHilos, CpuLibres
    <3>4. TipoRecursos' /\ TipoSockets'
      BY <1>15, <2>1, <2>2, <3>1, <3>2 DEF AtenderWait, TipoRecursos, TipoSockets
    <3> QED
      BY <1>15, <3>3, <3>4, Estable DEF AtenderWait
  <2>5. CASE ~(instancias[r] - 1 < 0)
    <3>1. cola_recurso' = cola_recurso /\ hilo_cpu' = hilo_cpu
      BY <1>15, <2>5 DEF AtenderWait
    <3>a. a_cpu' = Append(a_cpu, Mensaje("CONTINUAR", p))
      BY <1>15, <2>5 DEF AtenderWait, Responde
    <3>2. a_cpu' \in Seq(AlCpu)
      BY <2>3, <3>a DEF TipoSockets
    <3>3. TipoRecursos' /\ TipoSockets'
      BY <1>15, <2>1, <2>2, <3>1, <3>2 DEF AtenderWait, TipoRecursos, TipoSockets
    <3> QED
      BY <1>15, <3>1, <3>3, Estable DEF AtenderWait
  <2> QED
    BY <2>4, <2>5
<1>16. ASSUME NEW p \in Procesos, NEW r \in Recursos, AtenderSignal(p, r)
     PROVE  TipoOK'
  <2>1. TipoRecursos'
    BY <1>16 DEF AtenderSignal, Recibe, Responde, TipoRecursos
  <2>2. TipoSockets'
    BY <1>16 DEF AtenderSignal, Recibe, Responde, TipoSockets, AlCpu, Mensaje
  <2> QED
    BY <1>16, <2>1, <2>2, Estable DEF AtenderSignal, Recibe
<1>17. ASSUME NEW p \in Procesos, AtenderWaitInexistente(p) PROVE TipoOK'
  <2>1. TipoProcesos'
    BY <1>17 DEF AtenderWaitInexistente, Recibe, CpuSigueEn, Responde, TipoProcesos
  <2>2. TipoHilos'
    BY <1>17, HiloTipo DEF AtenderWaitInexistente, Recibe, CpuSigueEn, Responde, TipoHilos, EnEspera, CpuLibres, CpuOcupados
  <2>3. TipoSockets'
    BY <1>17 DEF AtenderWaitInexistente, Recibe, CpuSigueEn, Responde, TipoSockets, AlCpu, Mensaje
  <2> QED
    BY <1>17, <2>1, <2>2, <2>3, Estable DEF AtenderWaitInexistente, Recibe
<1>18. ASSUME NEW p \in Procesos, AtenderSignalInexistente(p) PROVE TipoOK'
  <2>1. TipoProcesos'
    BY <1>18 DEF AtenderSignalInexistente, Recibe, CpuSigueEn, Responde, TipoProcesos
  <2>2. TipoHilos'
    BY <1>18, HiloTipo DEF AtenderSignalInexistente, Recibe, CpuSigueEn, Responde, TipoHilos, EnEspera, CpuLibres, CpuOcupados
  <2>3. TipoSockets'
    BY <1>18 DEF AtenderSignalInexistente, Recibe, CpuSigueEn, Responde, TipoSockets, AlCpu, Mensaje
  <2> QED
    BY <1>18, <2>1, <2>2, <2>3, Estable DEF AtenderSignalInexistente, Recibe
<1>19. ASSUME NEW p \in Procesos, AtenderCrearSegmento(p) PROVE TipoOK'
  <2>1. TipoHilos'
    BY <1>19, HiloTipo DEF AtenderCrearSegmento, Recibe, CpuSigueEn, TipoHilos, EnEspera, CpuLibres, CpuOcupados
  <2>2. TipoSockets'
    BY <1>19 DEF AtenderCrearSegmento, Recibe, CpuSigueEn, TipoSockets, Mensaje
  <2> QED
    BY <1>19, <2>1, <2>2, Estable DEF AtenderCrearSegmento, Recibe
<1>20. ASSUME NEW p \in Procesos, AtenderEliminarSegmento(p) PROVE TipoOK'
  <2>1. TipoHilos'
    BY <1>20, HiloTipo DEF AtenderEliminarSegmento, Recibe, CpuSigueEn, TipoHilos, EnEspera, CpuLibres, CpuOcupados
  <2>2. TipoSockets'
    BY <1>20 DEF AtenderEliminarSegmento, Recibe, CpuSigueEn, TipoSockets, Mensaje
  <2> QED
    BY <1>20, <2>1, <2>2, Estable DEF AtenderEliminarSegmento, Recibe
<1>21. ASSUME NEW p \in Procesos, NEW op \in {"FINALIZAR", "SEG_FAULT"},
            AtenderFinalizar(op, p)
     PROVE  TipoOK'
  <2>1. TipoProcesos'
    BY <1>21 DEF AtenderFinalizar, Recibe, CpuSigueEn, TipoProcesos
  <2>2. TipoSemaforos'
    BY <1>21 DEF AtenderFinalizar, Recibe, CpuSigueEn, TipoSemaforos
  <2>3. TipoHilos'
    BY <1>21, HiloTipo DEF AtenderFinalizar, Recibe, CpuSigueEn, TipoHilos, EnEspera, CpuLibres, CpuOcupados
  <2>4. TipoSockets'
    BY <1>21 DEF AtenderFinalizar, Recibe, CpuSigueEn, TipoSockets, Mensaje
  <2> QED
    BY <1>21, <2>1, <2>2, <2>3, <2>4, Estable DEF AtenderFinalizar, Recibe
<1>22. CASE CpuAvisaReady
  <2>1. TipoColas'
    BY <1>22 DEF CpuAvisaReady, PublicarReady, CpuSigueEn, TipoColas
  <2>2. TipoHilos'
    BY <1>22, HiloTipo DEF CpuAvisaReady, PublicarReady, CpuSigueEn, TipoHilos, EnEspera, CpuLibres, CpuOcupados
  <2> QED
    BY <1>22, <2>1, <2>2, Estable DEF CpuAvisaReady
<1>23. CASE Habilitar
  <2>1. TipoSemaforos'
    BY <1>23 DEF Habilitar, TipoSemaforos
  <2>2. TipoHilos'
    BY <1>23, HiloTipo DEF Habilitar, TipoHilos, EnEspera, CpuLibres, CpuOcupados
  <2> QED
    BY <1>23, <2>1, <2>2, Estable DEF Habilitar
<1>24. CASE EnviarArchivo
  <2>1. TipoSemaforos'
    BY <1>24 DEF EnviarArchivo, Responde, CpuSigueEn, TipoSemaforos
  <2>2. TipoHilos'
    BY <1>24, HiloTipo DEF EnviarArchivo, Responde, CpuSigueEn, TipoHilos, EnEspera, CpuLibres, CpuOcupados
  <2>3. TipoSockets'
    BY <1>24, PcbDeHilo DEF EnviarArchivo, Responde, CpuSigueEn, TipoSockets, CpuOcupados, AlCpu, Mensaje
  <2> QED
    BY <1>24, <2>1, <2>2, <2>3, Estable DEF EnviarArchivo
<1>25. CASE LiberarGrado
  <2>1. TipoSemaforos'
    BY <1>25 DEF LiberarGrado, CpuSigueEn, TipoSemaforos
  <2>2. TipoHilos'
    BY <1>25, HiloTipo, PcbDeHilo DEF LiberarGrado, CpuSigueEn, TipoHilos, EnEspera, CpuLibres, CpuOcupados
  <2> QED
    BY <1>25, <2>1, <2>2, Estable DEF LiberarGrado
<1>26. CASE EliminarProceso
  <2>1. TipoProcesos'
    BY <1>26 DEF EliminarProceso, TipoProcesos
  <2>2. TipoHilos'
    BY <1>26, HiloTipo DEF EliminarProceso, TipoHilos, EnEspera, CpuLibres, CpuOcupados
  <2> QED
    BY <1>26, <2>1, <2>2, Estable DEF EliminarProceso
<1>27. CASE CreacionExitosa
  <2>1. TipoHilos'
    BY <1>27, HiloTipo DEF CreacionExitosa, Responde, TipoHilos, EnEspera, CpuLibres, CpuOcupados
  <2>2. TipoSockets'
    BY <1>27, PcbDeHilo DEF CreacionExitosa, Responde, TipoSockets, CpuOcupados, AlCpu, Mensaje
  <2> QED
    BY <1>27, <2>1, <2>2, Estable DEF CreacionExitosa
<1>28. CASE SinMemoria
  <2>1. TipoProcesos'
    BY <1>28 DEF SinMemoria, Responde, CpuSigueEn, TipoProcesos
  <2>2. TipoHilos'
    BY <1>28, HiloTipo DEF SinMemoria, Responde, CpuSigueEn, TipoHilos, EnEspera, CpuLibres, CpuOcupados
  <2>3. TipoSockets'
    BY <1>28, PcbDeHilo DEF SinMemoria, Responde, CpuSigueEn, TipoSockets, CpuOcupados, AlCpu, Mensaje
  <2> QED
    BY <1>28, <2>1, <2>2, <2>3, Estable DEF SinMemoria
<1>29. CASE HabilitarSinMemoria
  <2>1. TipoSemaforos'
    BY <1>29 DEF HabilitarSinMemoria, CpuSigueEn, TipoSemaforos
  <2>2. TipoHilos'
    BY <1>29, HiloTipo DEF HabilitarSinMemoria, CpuSigueEn, TipoHilos, EnEspera, CpuLibres, CpuOcupados
  <2> QED
    BY <1>29, <2>1, <2>2, Estable DEF HabilitarSinMemoria
<1>30. CASE LiberarSinMemoria
  <2>1. TipoSemaforos'
    BY <1>30 DEF LiberarSinMemoria, TipoSemaforos
  <2>2. TipoHilos'
    BY <1>30, HiloTipo DEF LiberarSinMemoria, TipoHilos, EnEspera, CpuLibres, CpuOcupados
  <2> QED
    BY <1>30, <2>1, <2>2, Estable DEF LiberarSinMemoria
<1>30a. CASE RealizarCompactacion
  <2>1. TipoHilos'
    BY <1>30a, HiloTipo, PcbDeHilo DEF RealizarCompactacion, CpuSigueEn, TipoHilos, EnEspera, CpuLibres, CpuOcupados
  <2> QED
    BY <1>30a, <2>1, Estable DEF RealizarCompactacion
<1>31. CASE PedirCompactacion
  <2>1. TipoSemaforos'
    BY <1>31 DEF PedirCompactacion, CpuSigueEn, TipoSemaforos
  <2>2. TipoHilos'
    BY <1>31, HiloTipo, PcbDeHilo DEF PedirCompactacion, CpuSigueEn, TipoHilos, EnEspera, CpuLibres, CpuOcupados
  <2> QED
    BY <1>31, <2>1, <2>2, Estable DEF PedirCompactacion
<1>32. CASE FinCompactacion
  <2>1. TipoSemaforos'
    BY <1>32 DEF FinCompactacion, CpuSigueEn, TipoSemaforos
  <2>2. TipoHilos'
    BY <1>32, HiloTipo, PcbDeHilo DEF FinCompactacion, CpuSigueEn, TipoHilos, EnEspera, CpuLibres, CpuOcupados
  <2> QED
    BY <1>32, <2>1, <2>2, Estable DEF FinCompactacion
<1>33. CASE FsDesbloqueado
  <2>1. TipoSemaforos'
    BY <1>33 DEF FsDesbloqueado, TipoSemaforos
  <2>2. TipoHilos'
    BY <1>33, HiloTipo DEF FsDesbloqueado, TipoHilos, TipoSockets, EnEspera
  <2>3. TipoSockets'
    BY <1>33 DEF FsDesbloqueado, TipoSockets, Mensaje
  <2> QED
    BY <1>33, <2>1, <2>2, <2>3, Estable DEF FsDesbloqueado
<1>34. CASE FsEncola
  <2>1. TipoColas'
    BY <1>34, PcbDeHilo DEF FsEncola, EncolarReady, TipoColas
  <2>2. TipoHilos'
    BY <1>34, HiloTipo DEF FsEncola, EncolarReady, TipoHilos, EnEspera
  <2> QED
    BY <1>34, <2>1, <2>2, Estable DEF FsEncola
<1>35. CASE FsAvisa
  <2>1. TipoColas'
    BY <1>35 DEF FsAvisa, PublicarReady, TipoColas
  <2>2. TipoHilos'
    BY <1>35, HiloTipo DEF FsAvisa, PublicarReady, TipoHilos, EnEspera
  <2> QED
    BY <1>35, <2>1, <2>2, Estable DEF FsAvisa
<1>36. CASE FileSystemTermina
  <2>1. TipoSockets'
    BY <1>36 DEF FileSystemTermina, TipoSockets, Mensaje
  <2> QED
    BY <1>36, <2>1, Estable DEF FileSystemTermina
<1>37. ASSUME NEW p \in Procesos, IOEncola(p) PROVE TipoOK'
  <2>1. TipoColas'
    BY <1>37 DEF IOEncola, EncolarReady, TipoColas
  <2>2. TipoHilos'
    BY <1>37, HiloTipo DEF IOEncola, EncolarReady, TipoHilos, EnEspera
  <2> QED
    BY <1>37, <2>1, <2>2, Estable DEF IOEncola
<1>38. CASE IOAvisa
  <2>1. TipoColas'
    BY <1>38 DEF IOAvisa, PublicarReady, TipoColas
  <2>2. TipoHilos'
    BY <1>38, HiloTipo DEF IOAvisa, PublicarReady, TipoHilos, EnEspera
  <2> QED
    BY <1>38, <2>1, <2>2, Estable DEF IOAvisa
<1>39. ASSUME NEW r \in Recursos, RecursoDespierta(r) PROVE TipoOK'
  <2>1. sem_recurso' \in [Recursos -> Nat] /\ instancias' \in [Recursos -> Int]
    BY <1>39 DEF RecursoDespierta, TipoRecursos
  <2>2. CASE cola_recurso[r] # <<>>
    <3>1. Head(cola_recurso[r]) \in Procesos /\ Tail(cola_recurso[r]) \in Seq(Procesos)
      BY <2>2 DEF TipoRecursos
    <3>2. cola_recurso' \in [Recursos -> Seq(Procesos)]
      BY <1>39, <2>2, <3>1 DEF RecursoDespierta, TipoRecursos
    <3>3. Hilo("encola", Head(cola_recurso[r])) \in UnHilo({"espera", "avisa"}, {"encola"})
      BY <3>1, HiloTipo
    <3>4. hilo_recurso' \in [Recursos -> UnHilo({"espera", "avisa"}, {"encola"})]
      BY <1>39, <2>2, <3>3 DEF RecursoDespierta, RecursoPasa, TipoHilos
    <3>5. TipoRecursos' /\ TipoHilos'
      BY <1>39, <2>1, <3>2, <3>4 DEF RecursoDespierta, TipoRecursos, TipoHilos
    <3> QED
      BY <1>39, <2>2, <3>5, Estable DEF RecursoDespierta
  <2>3. CASE cola_recurso[r] = <<>>
    <3>1. caido' = TRUE /\ hilo_recurso' = hilo_recurso /\ cola_recurso' = cola_recurso
      BY <1>39, <2>3 DEF RecursoDespierta
    <3>2. TipoRecursos'
      BY <2>1, <3>1 DEF TipoRecursos
    <3> QED
      BY <1>39, <3>1, <3>2, Estable DEF RecursoDespierta
  <2> QED
    BY <2>2, <2>3
<1>40. ASSUME NEW r \in Recursos, RecursoEncola(r) PROVE TipoOK'
  <2>1. TipoColas'
    BY <1>40, PcbDeHilo DEF RecursoEncola, EncolarReady, RecursoPasa, TipoColas
  <2>2. TipoHilos'
    BY <1>40, HiloTipo DEF RecursoEncola, EncolarReady, RecursoPasa, TipoHilos, EnEspera
  <2> QED
    BY <1>40, <2>1, <2>2, Estable DEF RecursoEncola
<1>41. ASSUME NEW r \in Recursos, RecursoAvisa(r) PROVE TipoOK'
  <2>1. TipoColas'
    BY <1>41 DEF RecursoAvisa, PublicarReady, RecursoPasa, TipoColas
  <2>2. TipoHilos'
    BY <1>41, HiloTipo DEF RecursoAvisa, PublicarReady, RecursoPasa, TipoHilos, EnEspera
  <2> QED
    BY <1>41, <2>1, <2>2, Estable DEF RecursoAvisa
<1>42. CASE CpuRecibe
  <2>a. Head(a_cpu) \in AlCpu /\ Tail(a_cpu) \in Seq(AlCpu)
    BY <1>42 DEF CpuRecibe, TipoSockets
  <2>1. Head(a_cpu).pid \in Procesos /\ a_cpu' \in Seq(AlCpu)
    BY <1>42, <2>a DEF CpuRecibe, AlCpu
  <2>2. cpu' \in UnaCpu
    BY <1>42, <2>1 DEF CpuRecibe, UnaCpu
  <2>3. TipoSockets'
    BY <1>42, <2>1, <2>2 DEF CpuRecibe, TipoSockets
  <2> QED
    BY <1>42, <2>3, Estable DEF CpuRecibe
<1>43. CASE CpuLocal
  <2>1. TipoProcesos'
    BY <1>43, EjecutaTipo DEF CpuLocal
  <2> QED
    BY <1>43, <2>1, Estable DEF CpuLocal, Ejecuta
<1>44. CASE CpuSegFault
  <2>1. cpu.pcb \in Procesos /\ TipoProcesos'
    BY <1>44, EjecutaTipo DEF CpuSegFault
  <2>2. Mensaje("SEG_FAULT", cpu.pcb) \in DelCpu
    BY <2>1 DEF Mensaje, DelCpu
  <2>3. TipoSockets'
    BY <1>44, <2>2, CpuLibreTipo DEF CpuSegFault, Ejecuta, TipoSockets
  <2> QED
    BY <1>44, <2>1, <2>3, Estable DEF CpuSegFault, Ejecuta
<1>45. CASE CpuDevuelve
  <2>1. cpu.pcb \in Procesos /\ TipoProcesos'
    BY <1>45, EjecutaTipo DEF CpuDevuelve
  <2>2. Siguiente(cpu.pcb).op \in DOMAIN CodigoOp
    BY <1>45 DEF CpuDevuelve, Ejecuta, CodigoOp
  <2>3. Mensaje(CodigoOp[Siguiente(cpu.pcb).op], cpu.pcb) \in DelCpu
    BY <2>1, <2>2, CodigoTipo
  <2>4. TipoSockets'
    BY <1>45, <2>3, CpuLibreTipo DEF CpuDevuelve, Ejecuta, TipoSockets
  <2> QED
    BY <1>45, <2>1, <2>4, Estable DEF CpuDevuelve, Ejecuta
<1>46. CASE CpuLlama
  <2>1. cpu.pcb \in Procesos /\ TipoProcesos'
    BY <1>46, EjecutaTipo DEF CpuLlama
  <2>2. Siguiente(cpu.pcb).op \in DOMAIN CodigoOp
    BY <1>46 DEF CpuLlama, Ejecuta, CodigoOp
  <2>3. Mensaje(CodigoOp[Siguiente(cpu.pcb).op], cpu.pcb) \in DelCpu
    BY <2>1, <2>2, CodigoTipo
  <2>4. cpu' \in UnaCpu
    BY <1>46, CpuCambia DEF CpuLlama, Ejecuta, CpuPasa, TipoSockets
  <2>5. TipoSockets'
    BY <1>46, <2>3, <2>4 DEF CpuLlama, Ejecuta, TipoSockets
  <2> QED
    BY <1>46, <2>1, <2>5, Estable DEF CpuLlama, Ejecuta
<1>47. CASE CpuRespuesta
  <2>1. CpuPasa("ejecuta") \in UnaCpu
    BY <1>47, CpuCambia DEF CpuRespuesta, CpuPasa, TipoSockets
  <2>2. cpu' \in UnaCpu
    BY <1>47, <2>1, CpuLibreTipo DEF CpuRespuesta
  <2>3. TipoSockets'
    BY <1>47, <2>2 DEF CpuRespuesta, TipoSockets
  <2> QED
    BY <1>47, <2>3, Estable DEF CpuRespuesta
<1>48. CASE CpuInesperado
  <2>1. TipoSockets'
    BY <1>48, CpuDesincronizada DEF CpuInesperado, TipoSockets, CpuPasa
  <2> QED
    BY <1>48, <2>1, Estable DEF CpuInesperado
<1>49. CASE UNCHANGED vars
  BY <1>49, Estable DEF vars
<1> QED
  BY <1>1, <1>2, <1>3, <1>4, <1>5, <1>6, <1>7, <1>8, <1>9, <1>10, <1>11,
     <1>12, <1>13, <1>14, <1>15, <1>16, <1>17, <1>18, <1>19, <1>20, <1>21,
     <1>22, <1>23, <1>24, <1>25, <1>26, <1>27, <1>28, <1>29, <1>30, <1>31,
     <1>32, <1>33, <1>34, <1>35, <1>36, <1>37, <1>38, <1>39, <1>40, <1>41,
     <1>42, <1>43, <1>44, <1>45, <1>46, <1>47, <1>48, <1>49, <1>30a
  DEF Next, HiloNew, HiloReady, HiloFs, HiloCpu, HiloIO, HiloRecurso, Consola, Cpu,
      AtenderSyscall, ContinuarHandler

\* Types are preserved: in particular, no semaphore ever goes below zero.
THEOREM TipoCorrecto == Spec => []TipoOK
<1>1. Init => TipoOK
  BY TipoInicial
<1>2. TipoOK /\ [Next]_vars => TipoOK'
  BY TipoPaso
<1> QED
  BY <1>1, <1>2, PTL DEF Spec

-----------------------------------------------------------------------------
(* No lost wake-up. The property is inductive on its own: a step that queues *)
(* a process leaves its thread at the sem_post, and only that thread's post  *)
(* moves it away from there.                                                 *)

\* Nothing that keeps de_ready_a_ejecutar from sleeping on a full queue is lost.
LEMMA ReadyEstable ==
    ASSUME ReadyAvisada,
           UNCHANGED <<ready, hilo_ready>>,
           hilo_new.pc = "avisa" => hilo_new'.pc = "avisa",
           hilo_cpu.pc = "avisa" => hilo_cpu'.pc = "avisa",
           hilo_fs.pc = "avisa" => hilo_fs'.pc = "avisa",
           \A r \in Recursos : hilo_recurso[r].pc = "avisa" => hilo_recurso'[r].pc = "avisa",
           hilo_io'.avisan = hilo_io.avisan
    PROVE  ReadyAvisada'
  BY DEF ReadyAvisada, ready

\* The same for de_new_a_ready.
LEMMA NewEstable ==
    ASSUME NewAvisada, UNCHANGED <<new, hilo_new, consola>>
    PROVE  NewAvisada'
  BY DEF NewAvisada, new

LEMMA AvisoInicial == ASSUME Init PROVE SinDespertarPerdido
  BY DEF Init, SinDespertarPerdido, ReadyAvisada, NewAvisada

\* One step per action that touches the ready queue or its threads.
LEMMA ReadyPaso == ASSUME TipoOK, ReadyAvisada, [Next]_vars PROVE ReadyAvisada'
<1> USE DEF new, ready, hilos, otrosHilos
<1>1. ASSUME NewDespierta \/ NewVacia \/ NewQuita PROVE ReadyAvisada'
  BY <1>1, ReadyEstable DEF NewDespierta, NewVacia, NewQuita, Hilo, EnEspera
<1>2. ASSUME NewEncola \/ FsEncola \/ \E p \in Procesos : AtenderDesalojado(p)
      PROVE  ReadyAvisada'
  BY <1>2 DEF NewEncola, FsEncola, AtenderDesalojado, CpuSigueEn, Hilo, ReadyAvisada
<1>3. ASSUME NewAvisa \/ FsAvisa \/ CpuAvisaReady \/ IOAvisa PROVE ReadyAvisada'
  <2>1. sem_ready' > 0
    BY <1>3 DEF NewAvisa, FsAvisa, CpuAvisaReady, IOAvisa, PublicarReady, TipoOK, TipoColas
  <2> QED
    BY <2>1 DEF ReadyAvisada
<1>4. ASSUME NEW r \in Recursos, RecursoDespierta(r) PROVE ReadyAvisada'
  <2>1. ASSUME NEW s \in Recursos, hilo_recurso[s].pc = "avisa"
        PROVE  hilo_recurso'[s].pc = "avisa"
    <3>1. s # r
      BY <1>4, <2>1 DEF RecursoDespierta
    <3>2. hilo_recurso'[s] = hilo_recurso[s]
      BY <1>4, <3>1 DEF RecursoDespierta, RecursoPasa, TipoOK, TipoHilos
    <3> QED
      BY <2>1, <3>2
  <2> QED
    BY <1>4, <2>1, ReadyEstable DEF RecursoDespierta
<1>5. ASSUME NEW r \in Recursos, RecursoEncola(r) PROVE ReadyAvisada'
  <2>1. hilo_recurso'[r].pc = "avisa"
    BY <1>5 DEF RecursoEncola, RecursoPasa, Hilo, TipoOK, TipoHilos
  <2> QED
    BY <2>1 DEF ReadyAvisada
<1>6. ASSUME NEW r \in Recursos, RecursoAvisa(r) PROVE ReadyAvisada'
  <2>1. sem_ready' > 0
    BY <1>6 DEF RecursoAvisa, PublicarReady, TipoOK, TipoColas
  <2> QED
    BY <2>1 DEF ReadyAvisada
<1>7. ASSUME NEW p \in Procesos, IOEncola(p) PROVE ReadyAvisada'
  <2>1. hilo_io'.avisan > 0
    BY <1>7 DEF IOEncola, TipoOK, TipoHilos
  <2> QED
    BY <2>1 DEF ReadyAvisada
<1>8. ASSUME ReadyDespierta \/ ReadyQuita \/ ReadyEnvia PROVE ReadyAvisada'
  <2>1. hilo_ready'.pc # "espera"
    BY <1>8 DEF ReadyDespierta, ReadyQuita, ReadyEnvia, Hilo
  <2> QED
    BY <2>1 DEF ReadyAvisada
<1>9. CASE ReadyVacia
  BY <1>9 DEF ReadyVacia, ReadyAvisada
<1>10. CASE FsDesbloqueado
  BY <1>10, ReadyEstable DEF FsDesbloqueado
<1>11. ASSUME NEW p \in Procesos, AtenderIO(p) PROVE ReadyAvisada'
  <2>1. hilo_io'.avisan = hilo_io.avisan
    BY <1>11 DEF AtenderIO, TipoOK, TipoHilos
  <2> QED
    BY <1>11, <2>1, ReadyEstable DEF AtenderIO
\* The other handlers of atender_cpu start from a step that is not "avisa".
<1>12. ASSUME UNCHANGED <<ready, hilo_new, hilo_ready, hilo_fs, hilo_recurso, hilo_io>>,
              hilo_cpu.pc # "avisa" \/ UNCHANGED hilo_cpu
       PROVE  ReadyAvisada'
  BY <1>12, ReadyEstable
<1>13. ASSUME NEW p \in Procesos, AtenderSyscall(p) PROVE ReadyAvisada'
  <2>1. ASSUME NEW op, AtenderFinalizar(op, p) PROVE ReadyAvisada'
    BY <2>1, <1>12 DEF AtenderFinalizar, Recibe
  <2>2. ASSUME NEW r \in Recursos, AtenderWait(p, r) \/ AtenderSignal(p, r)
        PROVE  ReadyAvisada'
    BY <2>2, <1>12 DEF AtenderWait, AtenderSignal, Recibe
  <2>3. ASSUME AtenderWaitInexistente(p) \/ AtenderSignalInexistente(p) \/ AtenderArchivo(p)
        PROVE  ReadyAvisada'
    BY <2>3, <1>12 DEF AtenderWaitInexistente, AtenderSignalInexistente, AtenderArchivo, Recibe
  <2>4. ASSUME AtenderCrearSegmento(p) \/ AtenderEliminarSegmento(p) PROVE ReadyAvisada'
    BY <2>4, <1>12 DEF AtenderCrearSegmento, AtenderEliminarSegmento, Recibe
  <2> QED
    BY <1>2, <1>11, <1>13, <2>1, <2>2, <2>3, <2>4 DEF AtenderSyscall
<1>14. ASSUME ContinuarHandler PROVE ReadyAvisada'
  <2>1. ASSUME Habilitar \/ EnviarArchivo \/ LiberarGrado \/ EliminarProceso
        PROVE  ReadyAvisada'
    BY <2>1, <1>12 DEF Habilitar, EnviarArchivo, LiberarGrado, EliminarProceso
  <2>2. ASSUME CreacionExitosa \/ SinMemoria \/ HabilitarSinMemoria \/ LiberarSinMemoria
        PROVE  ReadyAvisada'
    BY <2>2, <1>12 DEF CreacionExitosa, SinMemoria, HabilitarSinMemoria, LiberarSinMemoria
  <2>3. ASSUME RealizarCompactacion \/ PedirCompactacion \/ FinCompactacion
        PROVE  ReadyAvisada'
    BY <2>3, <1>12 DEF RealizarCompactacion, PedirCompactacion, FinCompactacion
  <2> QED
    BY <1>3, <1>14, <2>1, <2>2, <2>3 DEF ContinuarHandler
<1>15. ASSUME Cpu \/ FileSystemTermina PROVE ReadyAvisada'
  <2>1. UNCHANGED kernel
    BY <1>15 DEF Cpu, CpuRecibe, CpuLocal, CpuSegFault, CpuDevuelve, CpuLlama, CpuRespuesta,
                 CpuInesperado, Ejecuta, FileSystemTermina
  <2> QED
    BY <2>1, <1>12 DEF kernel
<1>16. ASSUME NEW p \in Procesos, Consola(p) PROVE ReadyAvisada'
  BY <1>16, <1>12 DEF Consola, ConsolaEncola, ConsolaAvisa
<1>17. CASE UNCHANGED vars
  BY <1>17, <1>12 DEF vars
<1> QED
  BY <1>1, <1>2, <1>3, <1>4, <1>5, <1>6, <1>7, <1>8, <1>9, <1>10, <1>13, <1>14, <1>15,
     <1>16, <1>17
  DEF Next, HiloNew, HiloReady, HiloFs, HiloCpu, HiloIO, HiloRecurso

LEMMA NewPaso == ASSUME TipoOK, NewAvisada, [Next]_vars PROVE NewAvisada'
<1> USE DEF procesos, new, hilos, otrosHilos
<1>1. ASSUME NEW p \in Procesos, ConsolaEncola(p) PROVE NewAvisada'
  <2>1. consola'[p] = "avisa"
    BY <1>1 DEF ConsolaEncola, TipoOK, TipoProcesos
  <2> QED
    BY <2>1 DEF NewAvisada
<1>2. ASSUME NEW p \in Procesos, ConsolaAvisa(p) PROVE NewAvisada'
  <2>1. sem_nuevo' > 0
    BY <1>2 DEF ConsolaAvisa, TipoOK, TipoColas
  <2> QED
    BY <2>1 DEF NewAvisada
<1>3. ASSUME NewDespierta \/ NewQuita \/ NewEncola \/ NewAvisa PROVE NewAvisada'
  <2>1. hilo_new'.pc # "espera"
    BY <1>3 DEF NewDespierta, NewQuita, NewEncola, NewAvisa, Hilo
  <2> QED
    BY <2>1 DEF NewAvisada
<1>4. CASE NewVacia
  BY <1>4 DEF NewVacia, NewAvisada
<1>5. ASSUME HiloReady \/ HiloFs \/ HiloIO \/ FileSystemTermina PROVE NewAvisada'
  <2>1. UNCHANGED <<new, hilo_new, consola>>
    BY <1>5 DEF HiloReady, ReadyDespierta, ReadyVacia, ReadyQuita, ReadyEnvia, HiloFs,
                FsDesbloqueado, FsEncola, FsAvisa, HiloIO, IOAvisa, IOEncola,
                FileSystemTermina, kernel
  <2> QED
    BY <2>1, NewEstable
<1>6. ASSUME NEW r \in Recursos, HiloRecurso(r) PROVE NewAvisada'
  BY <1>6, NewEstable DEF HiloRecurso, RecursoDespierta, RecursoEncola, RecursoAvisa
<1>7. ASSUME NEW p \in Procesos, AtenderSyscall(p) PROVE NewAvisada'
  <2>1. UNCHANGED <<new, hilo_new, consola>>
    BY <1>7 DEF AtenderSyscall, AtenderDesalojado, AtenderIO, AtenderArchivo, AtenderWait,
                AtenderSignal, AtenderWaitInexistente, AtenderSignalInexistente,
                AtenderCrearSegmento, AtenderEliminarSegmento, AtenderFinalizar
  <2> QED
    BY <2>1, NewEstable
<1>8. ASSUME ContinuarHandler PROVE NewAvisada'
  <2>1. UNCHANGED <<new, hilo_new, consola>>
    BY <1>8 DEF ContinuarHandler, CpuAvisaReady, Habilitar, EnviarArchivo, LiberarGrado,
                EliminarProceso, CreacionExitosa, SinMemoria, HabilitarSinMemoria,
                LiberarSinMemoria, RealizarCompactacion, PedirCompactacion, FinCompactacion
  <2> QED
    BY <2>1, NewEstable
<1>9. ASSUME Cpu PROVE NewAvisada'
  <2>1. UNCHANGED <<new, hilo_new, consola>>
    BY <1>9 DEF Cpu, CpuRecibe, CpuLocal, CpuSegFault, CpuDevuelve, CpuLlama, CpuRespuesta,
                CpuInesperado, Ejecuta, kernel
  <2> QED
    BY <2>1, NewEstable
<1>10. CASE UNCHANGED vars
  BY <1>10, NewEstable DEF vars
<1> QED
  BY <1>1, <1>2, <1>3, <1>4, <1>5, <1>6, <1>7, <1>8, <1>9, <1>10
  DEF Next, HiloNew, HiloCpu, Consola

\* Neither scheduler ever sleeps on a non-empty queue without a post to come.
THEOREM SinDespertarPerdidoCorrecto == Spec => []SinDespertarPerdido
<1>1. Init => SinDespertarPerdido
  BY AvisoInicial
<1>2. TipoOK /\ SinDespertarPerdido /\ [Next]_vars => SinDespertarPerdido'
  BY ReadyPaso, NewPaso DEF SinDespertarPerdido
<1> QED
  BY <1>1, <1>2, TipoCorrecto, PTL DEF Spec

-----------------------------------------------------------------------------
(* Resources: what iniciar_recurso is owed. *)

\* The processes queued for a resource beyond the posts that will wake them are
\* no more than those the count owes; when it owes none, all will be woken.
Deuda(r) == IF instancias[r] < 0 THEN - instancias[r] ELSE 0
ColaAvisada == \A r \in Recursos : Len(cola_recurso[r]) - sem_recurso[r] <= Deuda(r)

LEMMA DeudaInicial == ASSUME Init PROVE ColaAvisada
  BY SupuestosPlanificador DEF Init, ColaAvisada, Deuda

LEMMA DeudaQuieta == ASSUME ColaAvisada, UNCHANGED recursos PROVE ColaAvisada'
  BY DEF ColaAvisada, Deuda, recursos

\* A step that changes one resource.
LEMMA DeudaDe ==
    ASSUME ColaAvisada, NEW r \in Recursos,
           Len(cola_recurso'[r]) - sem_recurso'[r] <= Deuda(r)',
           \A s \in Recursos \ {r} : /\ cola_recurso'[s] = cola_recurso[s]
                                     /\ sem_recurso'[s] = sem_recurso[s]
                                     /\ instancias'[s] = instancias[s]
    PROVE  ColaAvisada'
<1>1. ASSUME NEW s \in Recursos \ {r}
      PROVE  Len(cola_recurso'[s]) - sem_recurso'[s] <= Deuda(s)'
  <2>1. Deuda(s)' = Deuda(s)
    BY DEF Deuda
  <2> QED
    BY <2>1 DEF ColaAvisada
<1> QED
  BY <1>1 DEF ColaAvisada

LEMMA DeudaPaso == ASSUME TipoOK, ColaAvisada, [Next]_vars PROVE ColaAvisada'
<1> USE DEF procesos, hilos, otrosHilos, kernel
<1>a. ASSUME NEW r \in Recursos
      PROVE  /\ cola_recurso[r] \in Seq(Procesos) /\ Len(cola_recurso[r]) \in Nat
             /\ sem_recurso[r] \in Nat /\ instancias[r] \in Int
             /\ Len(cola_recurso[r]) - sem_recurso[r] <= Deuda(r)
  BY DEF TipoOK, TipoRecursos, ColaAvisada
<1>1. ASSUME NEW r \in Recursos, NEW p \in Procesos, AtenderWait(p, r) PROVE ColaAvisada'
  <2>1. /\ instancias'[r] = instancias[r] - 1 /\ sem_recurso' = sem_recurso
        /\ \A s \in Recursos \ {r} : instancias'[s] = instancias[s]
    BY <1>1 DEF AtenderWait, TipoOK, TipoRecursos
  <2>2. CASE instancias[r] - 1 < 0
    <3>1. cola_recurso' = [cola_recurso EXCEPT ![r] = Append(cola_recurso[r], p)]
      BY <1>1, <2>2 DEF AtenderWait
    <3>2. /\ cola_recurso'[r] = Append(cola_recurso[r], p)
          /\ \A s \in Recursos \ {r} : cola_recurso'[s] = cola_recurso[s]
      BY <3>1 DEF TipoOK, TipoRecursos
    <3>3. Len(cola_recurso'[r]) = Len(cola_recurso[r]) + 1
      BY <1>a, <3>2
    <3>4. Len(cola_recurso'[r]) - sem_recurso'[r] <= Deuda(r)'
      BY <1>a, <2>1, <2>2, <3>3 DEF Deuda
    <3> QED
      BY <2>1, <3>2, <3>4, DeudaDe
  <2>3. CASE ~(instancias[r] - 1 < 0)
    <3>1. cola_recurso' = cola_recurso
      BY <1>1, <2>3 DEF AtenderWait
    <3>2. Len(cola_recurso'[r]) - sem_recurso'[r] <= Deuda(r)'
      BY <1>a, <2>1, <2>3, <3>1 DEF Deuda
    <3> QED
      BY <2>1, <3>1, <3>2, DeudaDe
  <2> QED
    BY <2>2, <2>3
<1>2. ASSUME NEW r \in Recursos, NEW p \in Procesos, AtenderSignal(p, r) PROVE ColaAvisada'
  <2>1. /\ instancias'[r] = instancias[r] + 1 /\ cola_recurso' = cola_recurso
        /\ \A s \in Recursos \ {r} : instancias'[s] = instancias[s]
    BY <1>2 DEF AtenderSignal, TipoOK, TipoRecursos
  <2>2. /\ sem_recurso'[r] = IF cola_recurso[r] # <<>> THEN sem_recurso[r] + 1 ELSE sem_recurso[r]
        /\ \A s \in Recursos \ {r} : sem_recurso'[s] = sem_recurso[s]
    BY <1>2 DEF AtenderSignal, TipoOK, TipoRecursos
  <2>3. cola_recurso[r] = <<>> => Len(cola_recurso[r]) = 0
    OBVIOUS
  <2>4. Len(cola_recurso'[r]) - sem_recurso'[r] <= Deuda(r)'
    BY <1>a, <2>1, <2>2, <2>3 DEF Deuda
  <2> QED
    BY <2>1, <2>2, <2>4, DeudaDe
<1>3. ASSUME NEW r \in Recursos, RecursoDespierta(r) PROVE ColaAvisada'
  <2>1. /\ sem_recurso'[r] = sem_recurso[r] - 1 /\ instancias' = instancias
        /\ \A s \in Recursos \ {r} : sem_recurso'[s] = sem_recurso[s]
        /\ sem_recurso[r] > 0
    BY <1>3 DEF RecursoDespierta, TipoOK, TipoRecursos
  <2>2. CASE cola_recurso[r] # <<>>
    <3>1. cola_recurso' = [cola_recurso EXCEPT ![r] = Tail(cola_recurso[r])]
      BY <1>3, <2>2 DEF RecursoDespierta
    <3>2. /\ cola_recurso'[r] = Tail(cola_recurso[r])
          /\ \A s \in Recursos \ {r} : cola_recurso'[s] = cola_recurso[s]
      BY <3>1 DEF TipoOK, TipoRecursos
    <3>3. Len(cola_recurso'[r]) = Len(cola_recurso[r]) - 1
      BY <1>a, <2>2, <3>2
    <3>4. Len(cola_recurso'[r]) - sem_recurso'[r] <= Deuda(r)'
      BY <1>a, <2>1, <3>3 DEF Deuda
    <3> QED
      BY <2>1, <3>2, <3>4, DeudaDe
  <2>3. CASE cola_recurso[r] = <<>>
    <3>1. cola_recurso' = cola_recurso /\ Len(cola_recurso[r]) = 0
      BY <1>3, <2>3 DEF RecursoDespierta
    <3>2. Len(cola_recurso'[r]) - sem_recurso'[r] <= Deuda(r)'
      BY <1>a, <2>1, <3>1 DEF Deuda
    <3> QED
      BY <2>1, <3>1, <3>2, DeudaDe
  <2> QED
    BY <2>2, <2>3
\* Every other step leaves the resources alone.
<1>4. ASSUME \/ HiloNew \/ HiloReady \/ HiloFs \/ HiloIO \/ FileSystemTermina \/ Cpu
             \/ \E p \in Procesos : Consola(p)
             \/ \E r \in Recursos : RecursoEncola(r) \/ RecursoAvisa(r)
             \/ ContinuarHandler \/ UNCHANGED vars
      PROVE  UNCHANGED recursos
  <2>1. ASSUME \/ HiloNew \/ HiloReady \/ HiloFs \/ HiloIO \/ FileSystemTermina \/ Cpu
               \/ \E p \in Procesos : Consola(p)
               \/ \E r \in Recursos : RecursoEncola(r) \/ RecursoAvisa(r)
        PROVE  UNCHANGED recursos
    BY <2>1 DEF HiloNew, NewDespierta, NewVacia, NewQuita, NewEncola, NewAvisa, HiloReady,
         ReadyDespierta, ReadyVacia, ReadyQuita, ReadyEnvia, HiloFs, FsDesbloqueado, FsEncola,
         FsAvisa, HiloIO, IOAvisa, IOEncola, FileSystemTermina, Consola, ConsolaEncola,
         ConsolaAvisa, RecursoEncola, RecursoAvisa, Cpu, CpuRecibe, CpuLocal, CpuSegFault,
         CpuDevuelve, CpuLlama, CpuRespuesta, CpuInesperado, Ejecuta
  <2>2. ASSUME ContinuarHandler PROVE UNCHANGED recursos
    BY <2>2 DEF ContinuarHandler, CpuAvisaReady, Habilitar, EnviarArchivo, LiberarGrado,
         EliminarProceso, CreacionExitosa, SinMemoria, HabilitarSinMemoria, LiberarSinMemoria,
         RealizarCompactacion, PedirCompactacion, FinCompactacion
  <2>3. ASSUME UNCHANGED vars PROVE UNCHANGED recursos
    BY <2>3 DEF vars, recursos
  <2> QED
    BY <1>4, <2>1, <2>2, <2>3
<1>5. ASSUME NEW p \in Procesos, AtenderSyscall(p) PROVE ColaAvisada'
  <2>1. ASSUME \/ AtenderDesalojado(p) \/ AtenderIO(p) \/ AtenderArchivo(p)
               \/ AtenderWaitInexistente(p) \/ AtenderSignalInexistente(p)
               \/ AtenderCrearSegmento(p) \/ AtenderEliminarSegmento(p)
               \/ AtenderFinalizar("FINALIZAR", p) \/ AtenderFinalizar("SEG_FAULT", p)
        PROVE  UNCHANGED recursos
    BY <2>1 DEF AtenderDesalojado, AtenderIO, AtenderArchivo, AtenderWaitInexistente,
         AtenderSignalInexistente, AtenderCrearSegmento, AtenderEliminarSegmento, AtenderFinalizar
  <2> QED
    BY <1>1, <1>2, <1>5, <2>1, DeudaQuieta DEF AtenderSyscall
<1> QED
  BY <1>3, <1>4, <1>5, DeudaQuieta DEF Next, HiloCpu, HiloRecurso

\* A resource that owes no instance has a post on its way for every process in
\* its queue, and one that owes some leaves at most that many unsignalled,
\* however ejecutar_wait, ejecutar_signal and iniciar_recurso interleave.
THEOREM ColaAvisadaCorrecta == Spec => []ColaAvisada
<1>1. Init => ColaAvisada
  BY DeudaInicial
<1>2. TipoOK /\ ColaAvisada /\ [Next]_vars => ColaAvisada'
  BY DeudaPaso
<1> QED
  BY <1>1, <1>2, TipoCorrecto, PTL DEF Spec

-----------------------------------------------------------------------------
(* The token. *)

RecursosConfigurados ==
    \A prog \in Programas : \A i \in DOMAIN prog :
        prog[i].op = "WAIT" => prog[i].rec \in Recursos

\* The replies after which the CPU executes, and the steps at which atender_cpu
\* holds the token.
Sigue == {"EJECUTAR", "CONTINUAR", "SENAL_1"}
ConFicha == {"avisa", "habilita", "espera_fs", "espera_memoria", "espera_tabla",
             "espera_compactar", "compacta", "habilita_sin_memoria"}

EnDespacho == hilo_ready.pc = "envia"
HaciaCpu   == \E i \in DOMAIN a_cpu : a_cpu[i].op \in Sigue
EnCpu      == cpu.estado = "ejecuta"
DesdeCpu   == de_cpu # <<>>
EnManejo   == hilo_cpu.pc \in ConFicha

FichaUnica ==
    sem_habilitar_exec + Uno(EnDespacho) + Uno(HaciaCpu) + Uno(EnCpu) + Uno(DesdeCpu)
        + Uno(EnManejo) = 1

\* Of the places with room for several processes, only one is used.
MensajeUnico ==
    \A i, j \in DOMAIN a_cpu : a_cpu[i].op \in Sigue /\ a_cpu[j].op \in Sigue => i = j
RespuestaUnica == Len(de_cpu) <= 1

\* A CPU that waits has executed a call that has a reply.
EsperaRespuesta ==
    cpu.estado = "espera" => UltimaInstruccion(cpu.pcb).op \in DOMAIN RespuestaSigue

\* A WAIT on its way to the kernel names a configured resource.
WaitConfigurado ==
    \A i \in DOMAIN de_cpu :
        de_cpu[i].op = "EJECUTAR_WAIT" => UltimaInstruccion(de_cpu[i].pid).rec \in Recursos

Ficha == FichaUnica /\ MensajeUnico /\ RespuestaUnica /\ EsperaRespuesta /\ WaitConfigurado

-----------------------------------------------------------------------------
(* Facts about the places of the token. *)

\* Whoever holds the token, nobody else does.
LEMMA FichaExclusiva ==
    ASSUME TipoOK, FichaUnica
    PROVE  /\ sem_habilitar_exec \in {0, 1}
           /\ sem_habilitar_exec = 1 => ~EnDespacho /\ ~HaciaCpu /\ ~EnCpu /\ ~DesdeCpu /\ ~EnManejo
           /\ EnDespacho => sem_habilitar_exec = 0 /\ ~HaciaCpu /\ ~EnCpu /\ ~DesdeCpu /\ ~EnManejo
           /\ HaciaCpu => sem_habilitar_exec = 0 /\ ~EnDespacho /\ ~EnCpu /\ ~DesdeCpu /\ ~EnManejo
           /\ EnCpu => sem_habilitar_exec = 0 /\ ~EnDespacho /\ ~HaciaCpu /\ ~DesdeCpu /\ ~EnManejo
           /\ DesdeCpu => sem_habilitar_exec = 0 /\ ~EnDespacho /\ ~HaciaCpu /\ ~EnCpu /\ ~EnManejo
           /\ EnManejo => sem_habilitar_exec = 0 /\ ~EnDespacho /\ ~HaciaCpu /\ ~EnCpu /\ ~DesdeCpu
<1>1. sem_habilitar_exec \in Nat
  BY DEF TipoOK, TipoSemaforos
<1> QED
  BY <1>1 DEF FichaUnica, Uno

\* A message that carries the token, and one that does not, are sent.
LEMMA EnviarConFicha ==
    ASSUME TipoOK, NEW m \in AlCpu, m.op \in Sigue, ~HaciaCpu, a_cpu' = Append(a_cpu, m)
    PROVE  HaciaCpu' /\ MensajeUnico'
<1>1. a_cpu \in Seq(AlCpu)
  BY DEF TipoOK, TipoSockets
<1>2. Len(a_cpu') = Len(a_cpu) + 1 /\ a_cpu'[Len(a_cpu) + 1] = m
  BY <1>1
<1>3. \A i \in DOMAIN a_cpu : a_cpu'[i] = a_cpu[i] /\ a_cpu[i].op \notin Sigue
  BY <1>1 DEF HaciaCpu
<1>4. DOMAIN a_cpu' = DOMAIN a_cpu \cup {Len(a_cpu) + 1}
  BY <1>1, <1>2
<1>5. HaciaCpu'
  BY <1>2, <1>4 DEF HaciaCpu
<1>6. MensajeUnico'
  BY <1>2, <1>3, <1>4 DEF MensajeUnico
<1> QED
  BY <1>5, <1>6

LEMMA EnviarSinFicha ==
    ASSUME TipoOK, NEW m \in AlCpu, m.op \notin Sigue, a_cpu' = Append(a_cpu, m)
    PROVE  /\ HaciaCpu' <=> HaciaCpu
           /\ MensajeUnico => MensajeUnico'
<1>1. a_cpu \in Seq(AlCpu)
  BY DEF TipoOK, TipoSockets
<1>2. a_cpu'[Len(a_cpu) + 1] = m
  BY <1>1
<1>3. \A i \in DOMAIN a_cpu : a_cpu'[i] = a_cpu[i]
  BY <1>1
<1>4. DOMAIN a_cpu' = DOMAIN a_cpu \cup {Len(a_cpu) + 1}
  BY <1>1
<1>5. HaciaCpu' <=> HaciaCpu
  BY <1>2, <1>3, <1>4 DEF HaciaCpu
<1>6. MensajeUnico => MensajeUnico'
  BY <1>2, <1>3, <1>4 DEF MensajeUnico
<1> QED
  BY <1>5, <1>6

\* The CPU reads the first message.
LEMMA LeerMensaje ==
    ASSUME TipoOK, MensajeUnico, a_cpu # <<>>, a_cpu' = Tail(a_cpu)
    PROVE  /\ MensajeUnico'
           /\ Head(a_cpu).op \in Sigue => HaciaCpu /\ ~HaciaCpu'
           /\ Head(a_cpu).op \notin Sigue => (HaciaCpu' <=> HaciaCpu)
<1>1. a_cpu \in Seq(AlCpu)
  BY DEF TipoOK, TipoSockets
<1>2. 1 \in DOMAIN a_cpu /\ Head(a_cpu) = a_cpu[1]
  BY <1>1
<1>3. \A i \in DOMAIN a_cpu' : i + 1 \in DOMAIN a_cpu /\ i + 1 # 1 /\ a_cpu'[i] = a_cpu[i + 1]
  BY <1>1
<1>4. \A i \in DOMAIN a_cpu : i # 1 => i - 1 \in DOMAIN a_cpu' /\ a_cpu'[i - 1] = a_cpu[i]
  BY <1>1
<1>5. MensajeUnico'
  <2> SUFFICES ASSUME NEW i \in DOMAIN a_cpu', NEW j \in DOMAIN a_cpu',
                      a_cpu'[i].op \in Sigue, a_cpu'[j].op \in Sigue
               PROVE  i = j
    BY DEF MensajeUnico
  <2>1. i \in Int /\ j \in Int
    BY <1>1
  <2>2. i + 1 = j + 1
    BY <1>3 DEF MensajeUnico
  <2> QED
    BY <2>1, <2>2
<1>6. Head(a_cpu).op \in Sigue => HaciaCpu /\ ~HaciaCpu'
  BY <1>2, <1>3 DEF HaciaCpu, MensajeUnico
<1>7. Head(a_cpu).op \notin Sigue => (HaciaCpu' <=> HaciaCpu)
  <2>1. HaciaCpu' => HaciaCpu
    BY <1>3 DEF HaciaCpu
  <2>2. Head(a_cpu).op \notin Sigue /\ HaciaCpu => HaciaCpu'
    BY <1>2, <1>4 DEF HaciaCpu
  <2> QED
    BY <2>1, <2>2
<1> QED
  BY <1>5, <1>6, <1>7

\* A handler starts: the token arrived with the only message of the CPU.
LEMMA RecibirFicha ==
    ASSUME TipoOK, Ficha, NEW op, NEW p \in Procesos, Recibe(op, p), UNCHANGED <<programa, pc, cpu>>
    PROVE  /\ sem_habilitar_exec = 0 /\ ~EnDespacho /\ ~HaciaCpu /\ ~EnCpu /\ ~EnManejo
           /\ ~DesdeCpu' /\ RespuestaUnica' /\ EsperaRespuesta' /\ WaitConfigurado' /\ ~EnCpu'
           /\ op = "EJECUTAR_WAIT" => UltimaInstruccion(p).rec \in Recursos
<1>1. de_cpu \in Seq(DelCpu) /\ de_cpu # <<>> /\ de_cpu' = Tail(de_cpu) /\ Head(de_cpu) = Mensaje(op, p)
  BY DEF TipoOK, TipoSockets, Recibe
<1>2. Len(de_cpu) = 1 /\ de_cpu[1] = Mensaje(op, p)
  <2>a. Len(de_cpu) \in Nat /\ Len(de_cpu) # 0
    BY <1>1
  <2>1. Head(de_cpu) = de_cpu[1]
    BY <1>1
  <2>2. Len(de_cpu) <= 1
    BY DEF Ficha, RespuestaUnica
  <2>3. \A n \in Nat : n # 0 /\ n <= 1 => n = 1
    OBVIOUS
  <2>4. de_cpu[1] = Mensaje(op, p)
    BY <1>1, <2>1, Zenon
  <2> QED
    BY <2>a, <2>2, <2>3, <2>4, Zenon
<1>3. de_cpu' = <<>>
  BY <1>1, <1>2
<1>4. sem_habilitar_exec = 0 /\ ~EnDespacho /\ ~HaciaCpu /\ ~EnCpu /\ ~EnManejo
  BY <1>1, FichaExclusiva DEF Ficha, DesdeCpu
<1>5. ~DesdeCpu' /\ RespuestaUnica' /\ WaitConfigurado'
  BY <1>3 DEF DesdeCpu, RespuestaUnica, WaitConfigurado
<1>6. EsperaRespuesta'
  BY DEF Ficha, EsperaRespuesta, UltimaInstruccion
<1>7. ~EnCpu'
  BY <1>4 DEF EnCpu
<1>8. op = "EJECUTAR_WAIT" => UltimaInstruccion(p).rec \in Recursos
  BY <1>2 DEF Ficha, WaitConfigurado, Mensaje
<1> QED
  BY <1>4, <1>5, <1>6, <1>7, <1>8

\* A step that leaves the CPU and its process alone keeps what is known of them.
LEMMA CpuQuieta ==
    ASSUME Ficha, UNCHANGED <<programa, pc, cpu, de_cpu>>
    PROVE  /\ RespuestaUnica' /\ EsperaRespuesta' /\ WaitConfigurado'
           /\ EnCpu' <=> EnCpu
           /\ DesdeCpu' <=> DesdeCpu
<1>1. RespuestaUnica' /\ WaitConfigurado'
  BY DEF Ficha, RespuestaUnica, WaitConfigurado, UltimaInstruccion
<1>2. EsperaRespuesta'
  BY DEF Ficha, EsperaRespuesta, UltimaInstruccion
<1> QED
  BY <1>1, <1>2 DEF EnCpu, DesdeCpu

LEMMA SocketQuieto ==
    ASSUME Ficha, UNCHANGED a_cpu
    PROVE  MensajeUnico' /\ (HaciaCpu' <=> HaciaCpu)
  BY DEF Ficha, MensajeUnico, HaciaCpu

LEMMA FichaQuieta ==
    ASSUME Ficha,
           UNCHANGED <<programa, pc, cpu, de_cpu, a_cpu, sem_habilitar_exec, hilo_ready, hilo_cpu>>
    PROVE  Ficha'
<1>1. (EnDespacho' <=> EnDespacho) /\ (EnManejo' <=> EnManejo)
  BY DEF EnDespacho, EnManejo
<1>2. FichaUnica'
  BY <1>1, CpuQuieta, SocketQuieto DEF Ficha, FichaUnica, Uno
<1> QED
  BY <1>2, CpuQuieta, SocketQuieto DEF Ficha

LEMMA FichaInicial == ASSUME Init PROVE Ficha
<1>1. FichaUnica
  BY DEF Init, FichaUnica, Uno, EnDespacho, HaciaCpu, EnCpu, DesdeCpu, EnManejo, ConFicha,
         EnEspera, Hilo, CpuLibre
<1>2. MensajeUnico /\ RespuestaUnica /\ WaitConfigurado
  BY DEF Init, MensajeUnico, RespuestaUnica, WaitConfigurado
<1>3. EsperaRespuesta
  BY DEF Init, EsperaRespuesta, CpuLibre
<1> QED
  BY <1>1, <1>2, <1>3 DEF Ficha

-----------------------------------------------------------------------------
(* The token, step by step. *)

\* The schedulers take the token and send it.
LEMMA FichaDespacho ==
    ASSUME TipoOK, Ficha, HiloReady
    PROVE  Ficha'
<1> USE DEF otrosHilos, hilos, EnDespacho
<1>1. CASE ReadyDespierta \/ ReadyVacia
  <2>1. UNCHANGED <<programa, pc, cpu, de_cpu, a_cpu, sem_habilitar_exec, hilo_cpu>>
    BY <1>1 DEF ReadyDespierta, ReadyVacia, procesos, canales, semaforos
  <2>2. ~EnDespacho /\ ~EnDespacho'
    BY <1>1 DEF ReadyDespierta, ReadyVacia, Hilo, EnEspera
  <2>3. EnManejo' <=> EnManejo
    BY <2>1 DEF EnManejo
  <2>4. FichaUnica'
    BY <2>1, <2>2, <2>3, CpuQuieta, SocketQuieto DEF Ficha, FichaUnica, Uno
  <2> QED
    BY <2>1, <2>4, CpuQuieta, SocketQuieto DEF Ficha
<1>2. CASE ReadyQuita
  <2>1. UNCHANGED <<programa, pc, cpu, de_cpu, a_cpu, hilo_cpu>>
    BY <1>2 DEF ReadyQuita, procesos, canales
  <2>2. sem_habilitar_exec > 0 /\ sem_habilitar_exec' = sem_habilitar_exec - 1 /\ EnDespacho'
    BY <1>2 DEF ReadyQuita, Hilo
  <2>3. sem_habilitar_exec = 1
    BY <2>2, FichaExclusiva DEF Ficha
  <2>4. EnManejo' <=> EnManejo
    BY <2>1 DEF EnManejo
  <2>5. FichaUnica'
    BY <2>1, <2>2, <2>3, <2>4, CpuQuieta, SocketQuieto, FichaExclusiva DEF Ficha, FichaUnica, Uno
  <2> QED
    BY <2>1, <2>5, CpuQuieta, SocketQuieto DEF Ficha
<1>3. CASE ReadyEnvia
  <2>1. UNCHANGED <<programa, pc, cpu, de_cpu, sem_habilitar_exec, hilo_cpu>>
    BY <1>3 DEF ReadyEnvia, procesos, semaforos
  <2>2. EnDespacho /\ ~EnDespacho'
    BY <1>3 DEF ReadyEnvia, Hilo
  <2>3. ~HaciaCpu
    BY <2>2, FichaExclusiva DEF Ficha
  <2>4. [op |-> "EJECUTAR", pid |-> hilo_ready.pcb] \in AlCpu
    BY <2>2, PcbDeHilo DEF AlCpu, TipoOK
  <2>5. HaciaCpu' /\ MensajeUnico'
    BY <1>3, <2>3, <2>4, EnviarConFicha DEF ReadyEnvia, Sigue
  <2>6. EnManejo' <=> EnManejo
    BY <2>1 DEF EnManejo
  <2>7. FichaUnica'
    BY <2>1, <2>2, <2>5, <2>6, CpuQuieta, FichaExclusiva DEF Ficha, FichaUnica, Uno
  <2> QED
    BY <2>1, <2>5, <2>7, CpuQuieta DEF Ficha
<1> QED
  BY <1>1, <1>2, <1>3 DEF HiloReady

\* The CPU takes the token from the socket and gives it back with its reply.
LEMMA FichaCpu ==
    ASSUME TipoOK, Ficha, Cpu, RecursosConfigurados
    PROVE  Ficha'
<1> USE DEF kernel, hilos, semaforos
<1>1. UNCHANGED <<programa, sem_habilitar_exec, hilo_ready, hilo_cpu>>
  BY DEF Cpu, CpuRecibe, CpuLocal, CpuSegFault, CpuDevuelve, CpuLlama, CpuRespuesta,
         CpuInesperado, Ejecuta, procesos
<1>2. (EnDespacho' <=> EnDespacho) /\ (EnManejo' <=> EnManejo)
  BY <1>1 DEF EnDespacho, EnManejo
<1>3. CASE CpuRecibe
  <2>1. UNCHANGED <<pc, de_cpu>> /\ ~EnCpu /\ EnCpu' /\ cpu'.estado = "ejecuta"
    BY <1>3 DEF CpuRecibe, procesos, EnCpu
  <2>a. DesdeCpu' <=> DesdeCpu
    BY <2>1 DEF DesdeCpu
  <2>2. HaciaCpu /\ ~HaciaCpu' /\ MensajeUnico'
    BY <1>3, LeerMensaje DEF CpuRecibe, Sigue, Ficha
  <2>3. FichaUnica'
    BY <1>1, <1>2, <2>1, <2>a, <2>2, FichaExclusiva DEF Ficha, FichaUnica, Uno
  <2>4. RespuestaUnica' /\ EsperaRespuesta' /\ WaitConfigurado'
    BY <1>1, <2>1 DEF Ficha, RespuestaUnica, EsperaRespuesta, WaitConfigurado, UltimaInstruccion
  <2> QED
    BY <2>2, <2>3, <2>4 DEF Ficha
<1>4. CASE CpuLocal
  <2>1. UNCHANGED <<cpu, de_cpu, a_cpu>> /\ cpu.estado = "ejecuta"
    BY <1>4 DEF CpuLocal, Ejecuta
  <2>2. EnCpu /\ EnCpu' /\ ~DesdeCpu
    BY <2>1, FichaExclusiva DEF Ficha, EnCpu
  <2>3. de_cpu = <<>>
    BY <2>2 DEF DesdeCpu
  <2>a. DesdeCpu' <=> DesdeCpu
    BY <2>1 DEF DesdeCpu
  <2>4. FichaUnica'
    BY <1>1, <1>2, <2>1, <2>2, <2>a, SocketQuieto DEF Ficha, FichaUnica, Uno
  <2>5. RespuestaUnica' /\ EsperaRespuesta' /\ WaitConfigurado'
    BY <2>1, <2>3 DEF Ficha, RespuestaUnica, EsperaRespuesta, WaitConfigurado
  <2> QED
    BY <2>1, <2>4, <2>5, SocketQuieto DEF Ficha
\* The CPU hands the process over with message m.
<1>5. ASSUME NEW m \in DelCpu, cpu.estado = "ejecuta", de_cpu' = Append(de_cpu, m),
             UNCHANGED a_cpu, cpu'.estado \in {"ociosa", "espera"}
      PROVE  FichaUnica' /\ MensajeUnico' /\ RespuestaUnica' /\ de_cpu' = <<m>>
  <2>1. de_cpu = <<>>
    BY <1>5, FichaExclusiva DEF Ficha, EnCpu, DesdeCpu
  <2>2. de_cpu' = <<m>> /\ DesdeCpu'
    BY <1>5, <2>1 DEF DesdeCpu
  <2>3. EnCpu /\ ~EnCpu' /\ ~DesdeCpu
    BY <1>5, <2>1 DEF EnCpu, DesdeCpu
  <2>4. FichaUnica'
    BY <1>1, <1>2, <1>5, <2>2, <2>3, SocketQuieto, FichaExclusiva DEF Ficha, FichaUnica, Uno
  <2> QED
    BY <1>5, <2>2, <2>4, SocketQuieto DEF RespuestaUnica
<1>6. CASE CpuSegFault
  <2>1. cpu.pcb \in Procesos
    BY <1>6, EjecutaTipo DEF CpuSegFault
  <2>2. Mensaje("SEG_FAULT", cpu.pcb) \in DelCpu
    BY <2>1 DEF Mensaje, DelCpu
  <2> DEFINE m == Mensaje("SEG_FAULT", cpu.pcb)
  <2>3. FichaUnica' /\ MensajeUnico' /\ RespuestaUnica' /\ de_cpu' = <<m>>
    BY <1>5, <1>6, <2>2 DEF CpuSegFault, Ejecuta, CpuLibre
  <2>a. m.op # "EJECUTAR_WAIT"
    BY DEF Mensaje
  <2>4. EsperaRespuesta' /\ WaitConfigurado'
    <3>1. EsperaRespuesta'
      BY <1>6 DEF CpuSegFault, CpuLibre, EsperaRespuesta
    <3>2. WaitConfigurado'
      <4> HIDE DEF m
      <4> QED
        BY <2>3, <2>a DEF WaitConfigurado
    <3> QED
      BY <3>1, <3>2
  <2> QED
    BY <2>3, <2>4, Zenon DEF Ficha
<1>7. CASE CpuDevuelve
  <2>1. Siguiente(cpu.pcb).op \in {"YIELD", "IO", "EXIT"} /\ cpu.pcb \in Procesos
    BY <1>7, EjecutaTipo DEF CpuDevuelve, Ejecuta
  <2> DEFINE m == Mensaje(CodigoOp[Siguiente(cpu.pcb).op], cpu.pcb)
  <2>2. m \in DelCpu /\ m.op # "EJECUTAR_WAIT"
    BY <2>1, CodigoTipo DEF CodigoOp, Mensaje
  <2>3. FichaUnica' /\ MensajeUnico' /\ RespuestaUnica' /\ de_cpu' = <<m>>
    BY <1>5, <1>7, <2>2 DEF CpuDevuelve, Ejecuta, CpuLibre
  <2>4. EsperaRespuesta' /\ WaitConfigurado'
    BY <1>7, <2>2, <2>3 DEF CpuDevuelve, CpuLibre, EsperaRespuesta, WaitConfigurado
  <2> QED
    BY <2>3, <2>4, Zenon DEF Ficha
<1>8. CASE CpuLlama
  <2> DEFINE q == cpu.pcb
             o == Siguiente(q).op
             m == Mensaje(CodigoOp[o], q)
  <2>1. q \in Procesos /\ o \in {"WAIT", "SIGNAL", "F_READ", "CREATE_SEGMENT", "DELETE_SEGMENT"}
    BY <1>8, EjecutaTipo DEF CpuLlama, Ejecuta
  <2>2. m \in DelCpu /\ m.pid = q /\ (m.op = "EJECUTAR_WAIT" => o = "WAIT")
    BY <2>1, CodigoTipo DEF CodigoOp, Mensaje
  <2>3. cpu.estado = "ejecuta" /\ cpu'.estado = "espera" /\ cpu'.pcb = q
    BY <1>8 DEF CpuLlama, Ejecuta, CpuPasa, TipoOK, TipoSockets, UnaCpu
  <2>4. FichaUnica' /\ MensajeUnico' /\ RespuestaUnica' /\ de_cpu' = <<m>>
    BY <1>5, <1>8, <2>2, <2>3 DEF CpuLlama, Ejecuta
  <2>5. pc'[q] = pc[q] + 1
    BY <1>8, <2>1 DEF CpuLlama, Ejecuta, TipoOK, TipoProcesos
  <2>6. UltimaInstruccion(q)' = Siguiente(q)
    BY <1>1, <2>3, <2>5 DEF UltimaInstruccion, Siguiente
  <2>7. EsperaRespuesta'
    BY <2>1, <2>3, <2>6 DEF EsperaRespuesta, RespuestaSigue, UltimaInstruccion
  <2>8. o = "WAIT" => Siguiente(q).rec \in Recursos
    <3>1. programa[q] \in Programas /\ pc[q] \in Nat /\ pc[q] < Len(programa[q])
      BY <1>8, <2>1 DEF CpuLlama, Ejecuta, TipoOK, TipoProcesos
    <3>2. programa[q] \in Seq(Instruccion)
      BY <3>1, SupuestosPlanificador
    <3>3. pc[q] + 1 \in DOMAIN programa[q]
      BY <3>1, <3>2
    <3> QED
      BY <3>1, <3>3 DEF RecursosConfigurados, Siguiente
  <2>a. m.op = "EJECUTAR_WAIT" => UltimaInstruccion(q)'.rec \in Recursos
    BY <2>2, <2>6, <2>8
  <2>b. m.op = "EJECUTAR_WAIT" => programa'[m.pid][pc'[m.pid]].rec \in Recursos
    BY <2>2, <2>3, <2>a DEF UltimaInstruccion
  <2>9. WaitConfigurado'
    <3> HIDE DEF m
    <3> QED
      BY <2>4, <2>b DEF WaitConfigurado, UltimaInstruccion
  <2> QED
    BY <2>4, <2>7, <2>9, Zenon DEF Ficha
<1>9. CASE CpuRespuesta
  <2> DEFINE o == UltimaInstruccion(cpu.pcb).op
  <2>1. cpu.estado = "espera" /\ UNCHANGED <<pc, de_cpu>> /\ ~EnCpu
    BY <1>9 DEF CpuRespuesta, procesos, EnCpu
  <2>2. o \in DOMAIN RespuestaSigue
    BY <2>1 DEF Ficha, EsperaRespuesta
  <2>3. RespuestaSigue[o] \in Sigue /\ RespuestaDetiene[o] \notin Sigue
    BY <2>2 DEF RespuestaSigue, RespuestaDetiene, Sigue
  <2>4. Head(a_cpu).op \in {RespuestaSigue[o], RespuestaDetiene[o]}
    BY <1>9, <2>1 DEF CpuRespuesta, Espera
  <2>5. RespuestaUnica' /\ EsperaRespuesta' /\ WaitConfigurado' /\ (DesdeCpu' <=> DesdeCpu)
    <3>1. cpu'.estado # "espera"
      BY <1>9 DEF CpuRespuesta, CpuPasa, CpuLibre, TipoOK, TipoSockets, UnaCpu
    <3> QED
      BY <1>1, <2>1, <3>1 DEF Ficha, RespuestaUnica, EsperaRespuesta, WaitConfigurado,
                              UltimaInstruccion, DesdeCpu
  <2>6. CASE Head(a_cpu).op = RespuestaSigue[o]
    <3>1. HaciaCpu /\ ~HaciaCpu' /\ MensajeUnico'
      BY <1>9, <2>3, <2>6, LeerMensaje DEF CpuRespuesta, Ficha
    <3>2. EnCpu'
      BY <1>9, <2>6 DEF CpuRespuesta, CpuPasa, EnCpu, TipoOK, TipoSockets, UnaCpu
    <3>3. FichaUnica'
      BY <1>1, <1>2, <2>1, <2>5, <3>1, <3>2, FichaExclusiva DEF Ficha, FichaUnica, Uno
    <3> QED
      BY <2>5, <3>1, <3>3 DEF Ficha
  <2>7. CASE Head(a_cpu).op # RespuestaSigue[o]
    <3>1. (HaciaCpu' <=> HaciaCpu) /\ MensajeUnico'
      BY <1>9, <2>3, <2>4, <2>7, LeerMensaje DEF CpuRespuesta, Ficha
    <3>2. ~EnCpu'
      BY <1>9, <2>7 DEF CpuRespuesta, CpuLibre, EnCpu
    <3>3. FichaUnica'
      BY <1>1, <1>2, <2>1, <2>5, <3>1, <3>2, FichaExclusiva DEF Ficha, FichaUnica, Uno
    <3> QED
      BY <2>5, <3>1, <3>3 DEF Ficha
  <2> QED
    BY <2>6, <2>7
<1>10. CASE CpuInesperado
  <2>1. UNCHANGED <<pc, de_cpu, a_cpu>> /\ ~EnCpu
    BY <1>10 DEF CpuInesperado, procesos, canales, EnCpu
  <2>2. cpu'.estado = "desincronizada"
    BY <1>10 DEF CpuInesperado, CpuPasa, TipoOK, TipoSockets, UnaCpu
  <2>3. RespuestaUnica' /\ EsperaRespuesta' /\ WaitConfigurado' /\ (DesdeCpu' <=> DesdeCpu)
    BY <1>1, <2>1, <2>2 DEF Ficha, RespuestaUnica, EsperaRespuesta, WaitConfigurado,
                            UltimaInstruccion, DesdeCpu
  <2>4. ~EnCpu'
    BY <2>2 DEF EnCpu
  <2>5. FichaUnica'
    BY <1>1, <1>2, <2>1, <2>3, <2>4, SocketQuieto, FichaExclusiva DEF Ficha, FichaUnica, Uno
  <2> QED
    BY <2>1, <2>3, <2>5, SocketQuieto DEF Ficha
<1> QED
  BY <1>3, <1>4, <1>6, <1>7, <1>8, <1>9, <1>10 DEF Cpu

-----------------------------------------------------------------------------
(* atender_cpu. Each handler receives the token with the message and passes  *)
(* it on: to the semaphore, to its next step or to the CPU.                  *)

LEMMA MensajeAlCpu ==
    ASSUME NEW p \in Procesos,
           NEW op \in {"EJECUTAR", "CONTINUAR", "DETENER", "FINALIZAR", "SENAL_0", "SENAL_1"}
    PROVE  Mensaje(op, p) \in AlCpu /\ Mensaje(op, p).op = op
  BY DEF Mensaje, AlCpu

LEMMA FichaSyscall ==
    ASSUME TipoOK, Ficha, NEW p \in Procesos, AtenderSyscall(p), RecursosConfigurados
    PROVE  Ficha'
<1> USE DEF otrosHilos, hilos
<1>1. UNCHANGED <<programa, pc, cpu, hilo_ready>>
  BY DEF AtenderSyscall, AtenderDesalojado, AtenderIO, AtenderArchivo, AtenderWait, AtenderSignal,
         AtenderWaitInexistente, AtenderSignalInexistente, AtenderCrearSegmento,
         AtenderEliminarSegmento, AtenderFinalizar, procesos
<1>2. EnDespacho' <=> EnDespacho
  BY <1>1 DEF EnDespacho
\* The three ways a handler may pass the token on.
<1>3. ASSUME NEW op, Recibe(op, p), sem_habilitar_exec' = sem_habilitar_exec + 1, UNCHANGED a_cpu,
             hilo_cpu'.pc \notin ConFicha
      PROVE  Ficha'
  <2>1. ~EnManejo'
    BY <1>3 DEF EnManejo
  <2>2. FichaUnica'
    BY <1>1, <1>2, <1>3, <2>1, RecibirFicha, SocketQuieto DEF FichaUnica, Uno
  <2> QED
    BY <1>1, <1>3, <2>2, RecibirFicha, SocketQuieto DEF Ficha
<1>4. ASSUME NEW op, Recibe(op, p), UNCHANGED sem_habilitar_exec, hilo_cpu'.pc \in ConFicha,
             HaciaCpu' <=> HaciaCpu, MensajeUnico'
      PROVE  Ficha'
  <2>1. EnManejo'
    BY <1>4 DEF EnManejo
  <2>2. FichaUnica'
    BY <1>1, <1>2, <1>4, <2>1, RecibirFicha DEF FichaUnica, Uno
  <2> QED
    BY <1>1, <1>4, <2>2, RecibirFicha DEF Ficha
<1>5. ASSUME NEW op, Recibe(op, p), UNCHANGED <<sem_habilitar_exec, hilo_cpu>>,
             NEW r \in {"CONTINUAR", "SENAL_1"}, Responde(r, p)
      PROVE  Ficha'
  <2>1. ~HaciaCpu
    BY <1>1, <1>5, RecibirFicha
  <2>2. HaciaCpu' /\ MensajeUnico'
    BY <1>5, <2>1, MensajeAlCpu, EnviarConFicha DEF Responde, Sigue
  <2>3. ~EnManejo'
    BY <1>1, <1>5, RecibirFicha DEF EnManejo
  <2>4. FichaUnica'
    BY <1>1, <1>2, <1>5, <2>2, <2>3, RecibirFicha DEF FichaUnica, Uno
  <2> QED
    BY <1>1, <1>5, <2>2, <2>4, RecibirFicha DEF Ficha
<1>6. ASSUME NEW r \in {"DETENER", "SENAL_0"}, Responde(r, p)
      PROVE  (HaciaCpu' <=> HaciaCpu) /\ MensajeUnico'
  BY <1>6, MensajeAlCpu, EnviarSinFicha DEF Responde, Sigue, Ficha
<1>7. CASE AtenderDesalojado(p)
  BY <1>4, <1>7, SocketQuieto DEF AtenderDesalojado, CpuSigueEn, Hilo, ConFicha, semaforos
<1>8. CASE AtenderIO(p)
  <2>1. hilo_cpu'.pc = "espera"
    BY <1>8 DEF AtenderIO, Recibe
  <2> QED
    BY <1>3, <1>8, <2>1 DEF AtenderIO, ConFicha
<1>9. CASE AtenderArchivo(p) \/ AtenderCrearSegmento(p) \/ AtenderEliminarSegmento(p)
  BY <1>4, <1>9, SocketQuieto
     DEF AtenderArchivo, AtenderCrearSegmento, AtenderEliminarSegmento, CpuSigueEn, Hilo, ConFicha,
         semaforos
<1>10. ASSUME NEW r \in Recursos, AtenderWait(p, r) PROVE Ficha'
  <2>1. CASE instancias[r] - 1 < 0
    <3>1. Recibe("EJECUTAR_WAIT", p) /\ Responde("DETENER", p) /\ hilo_cpu'.pc = "habilita"
      BY <1>10, <2>1 DEF AtenderWait, CpuSigueEn, Hilo
    <3>2. UNCHANGED sem_habilitar_exec
      BY <1>10 DEF AtenderWait, semaforos
    <3> QED
      BY <1>4, <1>6, <3>1, <3>2 DEF ConFicha
  <2>2. CASE ~(instancias[r] - 1 < 0)
    <3>1. Recibe("EJECUTAR_WAIT", p) /\ Responde("CONTINUAR", p) /\ UNCHANGED hilo_cpu
      BY <1>10, <2>2 DEF AtenderWait
    <3>2. UNCHANGED sem_habilitar_exec
      BY <1>10 DEF AtenderWait, semaforos
    <3> QED
      BY <1>5, <3>1, <3>2
  <2> QED
    BY <2>1, <2>2
<1>11. ASSUME NEW r \in Recursos, AtenderSignal(p, r) PROVE Ficha'
  BY <1>5, <1>11 DEF AtenderSignal, semaforos
\* The handler that breaks the token cannot run: every WAIT is configured.
<1>12. ~AtenderWaitInexistente(p)
  BY <1>1, RecibirFicha DEF AtenderWaitInexistente
<1>13. CASE AtenderSignalInexistente(p)
  BY <1>4, <1>6, <1>13 DEF AtenderSignalInexistente, CpuSigueEn, Hilo, ConFicha, semaforos
<1>14. ASSUME NEW op, AtenderFinalizar(op, p) PROVE Ficha'
  BY <1>3, <1>14 DEF AtenderFinalizar, CpuSigueEn, Hilo, ConFicha
<1> QED
  BY <1>7, <1>8, <1>9, <1>10, <1>11, <1>12, <1>13, <1>14 DEF AtenderSyscall

\* The later steps of a handler: they keep the token, post it or send it.
LEMMA FichaHandler ==
    ASSUME TipoOK, Ficha, ContinuarHandler
    PROVE  Ficha'
<1> USE DEF otrosHilos, hilos
<1>1. UNCHANGED <<programa, pc, cpu, de_cpu, hilo_ready>>
  BY DEF ContinuarHandler, CpuAvisaReady, Habilitar, EnviarArchivo, LiberarGrado,
         EliminarProceso, CreacionExitosa, SinMemoria, HabilitarSinMemoria, LiberarSinMemoria,
         RealizarCompactacion, PedirCompactacion, FinCompactacion, procesos, canales
<1>2. EnDespacho' <=> EnDespacho
  BY <1>1 DEF EnDespacho
<1>3. ASSUME UNCHANGED sem_habilitar_exec, HaciaCpu' <=> HaciaCpu, MensajeUnico',
             hilo_cpu'.pc \in ConFicha <=> hilo_cpu.pc \in ConFicha
      PROVE  Ficha'
  <2>1. FichaUnica'
    BY <1>1, <1>2, <1>3, CpuQuieta DEF Ficha, FichaUnica, EnManejo, Uno
  <2> QED
    BY <1>1, <1>3, <2>1, CpuQuieta DEF Ficha
<1>4. ASSUME sem_habilitar_exec' = sem_habilitar_exec + 1, UNCHANGED a_cpu,
             hilo_cpu.pc \in ConFicha, hilo_cpu'.pc \notin ConFicha
      PROVE  Ficha'
  <2>1. FichaUnica'
    BY <1>1, <1>2, <1>4, CpuQuieta, SocketQuieto, FichaExclusiva DEF Ficha, FichaUnica, EnManejo, Uno
  <2> QED
    BY <1>1, <1>4, <2>1, CpuQuieta, SocketQuieto DEF Ficha
<1>5. ASSUME NEW r \in {"DETENER", "FINALIZAR"}, hilo_cpu.pc \in CpuOcupados,
             Responde(r, hilo_cpu.pcb)
      PROVE  (HaciaCpu' <=> HaciaCpu) /\ MensajeUnico'
  BY <1>5, MensajeAlCpu, EnviarSinFicha, PcbDeHilo DEF Responde, Sigue, Ficha, TipoOK
<1>6. CASE CpuAvisaReady
  BY <1>3, <1>6, SocketQuieto DEF CpuAvisaReady, CpuSigueEn, Hilo, ConFicha, semaforos, canales
<1>7. CASE Habilitar
  BY <1>4, <1>7 DEF Habilitar, EnEspera, Hilo, ConFicha, canales
<1>8. CASE EnviarArchivo
  <2>1. hilo_cpu.pc = "espera_fs" /\ hilo_cpu'.pc = "habilita"
    BY <1>8 DEF EnviarArchivo, CpuSigueEn, Hilo
  <2>2. (HaciaCpu' <=> HaciaCpu) /\ MensajeUnico'
    BY <1>5, <1>8, <2>1 DEF EnviarArchivo, CpuOcupados
  <2> QED
    BY <1>3, <1>8, <2>1, <2>2 DEF EnviarArchivo, ConFicha
<1>9. CASE LiberarGrado
  BY <1>3, <1>9, SocketQuieto DEF LiberarGrado, CpuSigueEn, Hilo, ConFicha, canales
<1>10. CASE EliminarProceso
  BY <1>3, <1>10, SocketQuieto DEF EliminarProceso, EnEspera, Hilo, ConFicha, semaforos, canales
<1>11. CASE CreacionExitosa
  <2>1. hilo_cpu.pc \in ConFicha /\ hilo_cpu.pc \in CpuOcupados /\ hilo_cpu'.pc \notin ConFicha
    BY <1>11 DEF CreacionExitosa, EnEspera, Hilo, ConFicha, CpuOcupados
  <2>2. ~HaciaCpu /\ EnManejo /\ ~EnManejo'
    BY <2>1, FichaExclusiva DEF Ficha, EnManejo
  <2>3. Responde("EJECUTAR", hilo_cpu.pcb) /\ hilo_cpu.pcb \in Procesos
    BY <1>11, <2>1, PcbDeHilo DEF CreacionExitosa, TipoOK
  <2>4. HaciaCpu' /\ MensajeUnico'
    BY <2>2, <2>3, MensajeAlCpu, EnviarConFicha DEF Responde, Sigue
  <2>5. UNCHANGED sem_habilitar_exec
    BY <1>11 DEF CreacionExitosa, semaforos
  <2>6. FichaUnica'
    BY <1>1, <1>2, <2>2, <2>4, <2>5, CpuQuieta, FichaExclusiva DEF Ficha, FichaUnica, Uno
  <2> QED
    BY <1>1, <2>4, <2>6, CpuQuieta DEF Ficha
<1>12. CASE SinMemoria
  <2>1. hilo_cpu.pc = "espera_memoria" /\ hilo_cpu'.pc = "habilita_sin_memoria"
    BY <1>12 DEF SinMemoria, CpuSigueEn, Hilo
  <2>2. (HaciaCpu' <=> HaciaCpu) /\ MensajeUnico'
    BY <1>5, <1>12, <2>1 DEF SinMemoria, CpuOcupados
  <2> QED
    BY <1>3, <1>12, <2>1, <2>2 DEF SinMemoria, ConFicha, semaforos
<1>13. CASE HabilitarSinMemoria
  BY <1>4, <1>13 DEF HabilitarSinMemoria, CpuSigueEn, Hilo, ConFicha, canales
<1>14. CASE LiberarSinMemoria
  BY <1>3, <1>14, SocketQuieto DEF LiberarSinMemoria, EnEspera, Hilo, ConFicha, canales
<1>15. CASE RealizarCompactacion
  BY <1>3, <1>15, SocketQuieto
     DEF RealizarCompactacion, CpuSigueEn, Hilo, ConFicha, semaforos, canales
<1>16. CASE PedirCompactacion
  BY <1>3, <1>16, SocketQuieto DEF PedirCompactacion, CpuSigueEn, Hilo, ConFicha, canales
<1>17. CASE FinCompactacion
  BY <1>3, <1>17, SocketQuieto DEF FinCompactacion, CpuSigueEn, Hilo, ConFicha, canales
<1> QED
  BY <1>6, <1>7, <1>8, <1>9, <1>10, <1>11, <1>12, <1>13, <1>14, <1>15, <1>16, <1>17
  DEF ContinuarHandler

LEMMA FichaPaso ==
    ASSUME TipoOK, Ficha, [Next]_vars, RecursosConfigurados
    PROVE  Ficha'
<1> USE DEF procesos, semaforos, hilos, otrosHilos, canales
\* The threads that never touch the token or the CPU.
<1>1. ASSUME HiloNew \/ HiloFs \/ HiloIO PROVE Ficha'
  BY <1>1, FichaQuieta
     DEF HiloNew, NewDespierta, NewVacia, NewQuita, NewEncola, NewAvisa, HiloFs, FsDesbloqueado,
         FsEncola, FsAvisa, HiloIO, IOAvisa, IOEncola
<1>2. CASE FileSystemTermina
  BY <1>2, FichaQuieta DEF FileSystemTermina, kernel
<1>3. ASSUME NEW p \in Procesos, Consola(p) PROVE Ficha'
  BY <1>3, FichaQuieta DEF Consola, ConsolaEncola, ConsolaAvisa
<1>4. ASSUME NEW r \in Recursos, HiloRecurso(r) PROVE Ficha'
  BY <1>4, FichaQuieta DEF HiloRecurso, RecursoDespierta, RecursoEncola, RecursoAvisa
<1>5. CASE UNCHANGED vars
  BY <1>5, FichaQuieta DEF vars
<1> QED
  BY <1>1, <1>2, <1>3, <1>4, <1>5, FichaDespacho, FichaCpu, FichaSyscall, FichaHandler
  DEF Next, HiloCpu

\* The token's place names at most one process.
LEMMA FichaImplica == ASSUME TipoOK, Ficha PROVE UnSoloEnEjecucion
<1>1. ASSUME NEW p \in Procesos, Ejecutando(p)
      PROVE  \/ EnDespacho /\ hilo_ready.pcb = p
             \/ HaciaCpu /\ \E i \in DOMAIN a_cpu : a_cpu[i].op \in Sigue /\ a_cpu[i].pid = p
             \/ EnCpu /\ cpu.pcb = p
             \/ DesdeCpu /\ de_cpu[1].pid = p
             \/ EnManejo /\ hilo_cpu.pcb = p
  <2>1. CASE hilo_ready = Hilo("envia", p)
    BY <2>1 DEF EnDespacho, Hilo
  <2>2. CASE \E i \in DOMAIN a_cpu : /\ a_cpu[i].pid = p
                                     /\ a_cpu[i].op \in {"EJECUTAR", "CONTINUAR", "SENAL_1"}
    BY <2>2 DEF HaciaCpu, Sigue
  <2>3. CASE cpu = [estado |-> "ejecuta", pcb |-> p]
    BY <2>3 DEF EnCpu
  <2>4. CASE \E i \in DOMAIN de_cpu : de_cpu[i].pid = p
    <3>1. de_cpu \in Seq(DelCpu) /\ Len(de_cpu) <= 1
      BY DEF TipoOK, TipoSockets, Ficha, RespuestaUnica
    <3>2. PICK i \in DOMAIN de_cpu : de_cpu[i].pid = p
      BY <2>4
    <3>3. i = 1 /\ de_cpu # <<>>
      BY <3>1, <3>2
    <3> QED
      BY <3>2, <3>3 DEF DesdeCpu
  <2>5. CASE /\ hilo_cpu.pcb = p
             /\ hilo_cpu.pc \in {"espera_fs", "espera_memoria", "espera_tabla",
                                 "espera_compactar", "compacta"}
    BY <2>5 DEF EnManejo, ConFicha
  <2> QED
    BY <1>1, <2>1, <2>2, <2>3, <2>4, <2>5 DEF Ejecutando
<1>2. ASSUME NEW p \in Procesos, NEW q \in Procesos, Ejecutando(p), Ejecutando(q) PROVE p = q
  BY <1>1, <1>2, FichaExclusiva DEF Ficha, MensajeUnico
<1>3. ASSUME NEW p \in Procesos, Ejecutando(p) PROVE sem_habilitar_exec = 0
  BY <1>1, <1>3, FichaExclusiva DEF Ficha
<1> QED
  BY <1>2, <1>3, FichaExclusiva DEF Ficha, UnSoloEnEjecucion

\* At most one process runs or is on its way to running, and none while
\* sem_habilitar_exec is free, if every WAIT names a configured resource.
THEOREM UnSoloCorrecto ==
    ASSUME RecursosConfigurados
    PROVE  Spec => []UnSoloEnEjecucion
<1>1. Init => Ficha
  BY FichaInicial
<1>2. TipoOK /\ Ficha /\ [Next]_vars => Ficha'
  BY FichaPaso
<1>3. TipoOK /\ Ficha => UnSoloEnEjecucion
  BY FichaImplica
<1> QED
  BY <1>1, <1>2, <1>3, TipoCorrecto, PTL DEF Spec

-----------------------------------------------------------------------------
(* The socket to the CPU. *)

\* The steps of atender_cpu at which the CPU waits for its handler, with the
\* instructions each may be serving.
Sirve ==
    [espera_fs        |-> {"F_READ"},
     espera_memoria   |-> {"CREATE_SEGMENT"},
     espera_compactar |-> {"CREATE_SEGMENT"},
     compacta         |-> {"CREATE_SEGMENT"},
     espera_tabla     |-> {"CREATE_SEGMENT", "DELETE_SEGMENT"}]
EnLlamada == hilo_cpu.pc \in DOMAIN Sirve

\* The op_codes of a process that leaves the CPU without waiting.
SinRespuesta == {"DESALOJADO", "EJECUTAR_IO", "FINALIZAR", "SEG_FAULT"}

\* The call that the waiting CPU has made.
LlamadaCpu == Mensaje(CodigoOp[UltimaInstruccion(cpu.pcb).op], cpu.pcb)

\* The socket to the CPU holds what the CPU's recv is for: first the answer, if
\* it waits for one, and then at most a dispatch.
SocketLegible ==
    /\ cpu.estado # "desincronizada"
    /\ cpu.estado = "ociosa" => \A i \in DOMAIN a_cpu : a_cpu[i].op = "EJECUTAR"
    /\ cpu.estado = "ejecuta" => a_cpu = <<>>
    /\ cpu.estado = "espera" =>
          /\ a_cpu # <<>> => Espera(Head(a_cpu))
          /\ \A i \in DOMAIN a_cpu : i # 1 => a_cpu[i].op = "EJECUTAR"

\* A call that is on its way has not been answered, and the CPU waits for it.
LlamadaPendiente ==
    /\ DesdeCpu =>
          /\ a_cpu = <<>>
          /\ \/ cpu.estado = "espera" /\ Head(de_cpu) = LlamadaCpu
             \/ cpu.estado = "ociosa" /\ Head(de_cpu).op \in SinRespuesta
    /\ EnLlamada =>
          /\ a_cpu = <<>> /\ cpu.estado = "espera" /\ cpu.pcb = hilo_cpu.pcb
          /\ UltimaInstruccion(cpu.pcb).op \in Sirve[hilo_cpu.pc]

\* A CPU that waits has its call somewhere, or an answer to read.
EsperaAlgo == cpu.estado = "espera" => a_cpu # <<>> \/ DesdeCpu \/ EnLlamada

Protocolo == SocketLegible /\ LlamadaPendiente /\ EsperaAlgo

\* mutex_compresion is held for each file operation under way and for a
\* compaction, and by nobody else.
MutexCompactacion ==
    mutex_compresion + Len(a_fs) + Len(de_fs) + Uno(hilo_cpu.pc = "compacta") = 1

-----------------------------------------------------------------------------
(* mutex_compresion. *)

\* The unit of the mutex does not move while its places stay as they are.
LEMMA MutexQuieto ==
    ASSUME MutexCompactacion, UNCHANGED <<mutex_compresion, a_fs, de_fs>>,
           hilo_cpu'.pc = "compacta" <=> hilo_cpu.pc = "compacta"
    PROVE  MutexCompactacion'
  BY DEF MutexCompactacion, Uno

LEMMA MutexInicial == ASSUME Init PROVE MutexCompactacion
  BY DEF Init, MutexCompactacion, Uno, EnEspera, Hilo

LEMMA MutexPaso ==
    ASSUME TipoOK, MutexCompactacion, [Next]_vars
    PROVE  MutexCompactacion'
<1> USE DEF procesos, semaforos, hilos, otrosHilos, canales
<1>a. /\ mutex_compresion \in Nat
      /\ a_fs \in Seq(Procesos) /\ de_fs \in Seq(Procesos)
  BY DEF TipoOK, TipoSemaforos, TipoSockets
\* The threads other than atender_cpu, atender_fileSystem and the file system.
<1>1. ASSUME HiloNew \/ HiloReady \/ HiloIO PROVE MutexCompactacion'
  BY <1>1, MutexQuieto
     DEF HiloNew, NewDespierta, NewVacia, NewQuita, NewEncola, NewAvisa, HiloReady,
         ReadyDespierta, ReadyVacia, ReadyQuita, ReadyEnvia, HiloIO, IOAvisa, IOEncola
<1>2. ASSUME NEW p \in Procesos, Consola(p) PROVE MutexCompactacion'
  BY <1>2, MutexQuieto DEF Consola, ConsolaEncola, ConsolaAvisa
<1>3. ASSUME NEW r \in Recursos, HiloRecurso(r) PROVE MutexCompactacion'
  BY <1>3, MutexQuieto DEF HiloRecurso, RecursoDespierta, RecursoEncola, RecursoAvisa
<1>4. ASSUME Cpu PROVE MutexCompactacion'
  BY <1>4, MutexQuieto
     DEF Cpu, CpuRecibe, CpuLocal, CpuSegFault, CpuDevuelve, CpuLlama, CpuRespuesta,
         CpuInesperado, Ejecuta, kernel
<1>5. CASE FileSystemTermina
  <2>1. a_fs # <<>> /\ a_fs' = Tail(a_fs) /\ de_fs' = Append(de_fs, Head(a_fs))
    BY <1>5 DEF FileSystemTermina
  <2>2. Len(a_fs') + Len(de_fs') = Len(a_fs) + Len(de_fs)
    BY <1>a, <2>1
  <2>3. UNCHANGED <<mutex_compresion, hilo_cpu>>
    BY <1>5 DEF FileSystemTermina, kernel
  <2> QED
    BY <1>a, <2>1, <2>2, <2>3 DEF MutexCompactacion, Uno
<1>6. CASE FsDesbloqueado
  <2>1. /\ de_fs # <<>> /\ de_fs' = Tail(de_fs)
        /\ mutex_compresion' = mutex_compresion + 1
        /\ UNCHANGED <<a_fs, hilo_cpu>>
    BY <1>6 DEF FsDesbloqueado
  <2>2. Len(de_fs') = Len(de_fs) - 1
    BY <1>a, <2>1
  <2> QED
    BY <1>a, <2>1, <2>2 DEF MutexCompactacion, Uno
<1>7. ASSUME FsEncola \/ FsAvisa PROVE MutexCompactacion'
  BY <1>7, MutexQuieto DEF FsEncola, FsAvisa
<1>8. ASSUME NEW p \in Procesos, AtenderSyscall(p) PROVE MutexCompactacion'
  <2>1. UNCHANGED <<mutex_compresion, a_fs, de_fs>>
    BY <1>8 DEF AtenderSyscall, AtenderDesalojado, AtenderIO, AtenderArchivo, AtenderWait,
                AtenderSignal, AtenderWaitInexistente, AtenderSignalInexistente,
                AtenderCrearSegmento, AtenderEliminarSegmento, AtenderFinalizar
  <2>2. hilo_cpu.pc # "compacta" /\ hilo_cpu'.pc # "compacta"
    BY <1>8 DEF AtenderSyscall, AtenderDesalojado, AtenderIO, AtenderArchivo, AtenderWait,
                AtenderSignal, AtenderWaitInexistente, AtenderSignalInexistente,
                AtenderCrearSegmento, AtenderEliminarSegmento, AtenderFinalizar, Recibe,
                CpuSigueEn, Hilo
  <2> QED
    BY <2>1, <2>2, MutexQuieto
<1>9. CASE EnviarArchivo
  <2>1. /\ mutex_compresion' = mutex_compresion - 1
        /\ a_fs' = Append(a_fs, hilo_cpu.pcb) /\ UNCHANGED de_fs
        /\ hilo_cpu.pc # "compacta" /\ hilo_cpu'.pc # "compacta"
    BY <1>9 DEF EnviarArchivo, CpuSigueEn, Hilo
  <2>2. Len(a_fs') = Len(a_fs) + 1
    BY <1>a, <2>1
  <2> QED
    BY <1>a, <2>1, <2>2 DEF MutexCompactacion, Uno
<1>10. CASE PedirCompactacion
  BY <1>a, <1>10 DEF PedirCompactacion, CpuSigueEn, Hilo, MutexCompactacion, Uno
<1>11. CASE FinCompactacion
  BY <1>a, <1>11 DEF FinCompactacion, CpuSigueEn, Hilo, MutexCompactacion, Uno
<1>12. ASSUME CpuAvisaReady \/ Habilitar \/ LiberarGrado \/ EliminarProceso
       PROVE  MutexCompactacion'
  BY <1>12, MutexQuieto
     DEF CpuAvisaReady, Habilitar, LiberarGrado, EliminarProceso, CpuSigueEn, EnEspera, Hilo
<1>13. ASSUME \/ CreacionExitosa \/ SinMemoria \/ HabilitarSinMemoria \/ LiberarSinMemoria
              \/ RealizarCompactacion
       PROVE  MutexCompactacion'
  BY <1>13, MutexQuieto
     DEF CreacionExitosa, SinMemoria, HabilitarSinMemoria, LiberarSinMemoria,
         RealizarCompactacion, CpuSigueEn, EnEspera, Hilo
<1>14. CASE UNCHANGED vars
  BY <1>14, MutexQuieto DEF vars
<1> QED
  BY <1>1, <1>2, <1>3, <1>4, <1>5, <1>6, <1>7, <1>8, <1>9, <1>10, <1>11, <1>12, <1>13, <1>14
  DEF Next, HiloCpu, HiloFs, ContinuarHandler

\* mutex_compresion is worth one unit: free, or with the file operation whose
\* answer posts it (kernel.c, DESBLOQUEADO), or with the compaction.
THEOREM MutexCompactacionCorrecto == Spec => []MutexCompactacion
<1>1. Init => MutexCompactacion
  BY MutexInicial
<1>2. TipoOK /\ MutexCompactacion /\ [Next]_vars => MutexCompactacion'
  BY MutexPaso
<1> QED
  BY <1>1, <1>2, TipoCorrecto, PTL DEF Spec

\* Memory compacts with no file operation in the file system, and with none on
\* its way there: the handler that compacts holds the CPU's token.
LEMMA MutexImplica ==
    ASSUME TipoOK, Ficha, MutexCompactacion
    PROVE  ExclusionCompactacion
<1> SUFFICES ASSUME hilo_cpu.pc = "compacta"
             PROVE  a_fs = <<>> /\ de_cpu = <<>>
  BY DEF ExclusionCompactacion
<1>1. a_fs = <<>>
  <2>1. mutex_compresion \in Nat /\ a_fs \in Seq(Procesos) /\ de_fs \in Seq(Procesos)
    BY DEF TipoOK, TipoSemaforos, TipoSockets
  <2>2. Len(a_fs) = 0
    BY <2>1 DEF MutexCompactacion, Uno
  <2> QED
    BY <2>1, <2>2
<1>2. de_cpu = <<>>
  BY FichaExclusiva DEF Ficha, EnManejo, ConFicha, DesdeCpu
<1> QED
  BY <1>1, <1>2

\* ExclusionCompactacion, if every WAIT names a configured resource.
THEOREM ExclusionCorrecta ==
    ASSUME RecursosConfigurados
    PROVE  Spec => []ExclusionCompactacion
<1>1. Init => Ficha
  BY FichaInicial
<1>2. TipoOK /\ Ficha /\ [Next]_vars => Ficha'
  BY FichaPaso
<1>3. TipoOK /\ Ficha /\ MutexCompactacion => ExclusionCompactacion
  BY MutexImplica
<1> QED
  BY <1>1, <1>2, <1>3, TipoCorrecto, MutexCompactacionCorrecto, PTL DEF Spec

-----------------------------------------------------------------------------
(* The conversation, by what a step does to it. *)

\* A step that leaves the CPU, both sockets and the handler's stage alone.
LEMMA ProtocoloQuieto ==
    ASSUME Protocolo, UNCHANGED <<programa, pc, cpu, de_cpu, a_cpu>>,
           UNCHANGED hilo_cpu \/ (~EnLlamada /\ ~EnLlamada')
    PROVE  Protocolo'
<1>1. SocketLegible'
  BY DEF Protocolo, SocketLegible, Espera, UltimaInstruccion
<1>2. DesdeCpu' <=> DesdeCpu
  BY DEF DesdeCpu
<1>3. EnLlamada' => EnLlamada /\ UNCHANGED hilo_cpu
  BY DEF EnLlamada
<1>4. LlamadaPendiente'
  BY <1>2, <1>3 DEF Protocolo, LlamadaPendiente, LlamadaCpu, UltimaInstruccion
<1>5. EnLlamada => EnLlamada'
  BY DEF EnLlamada
<1>6. EsperaAlgo'
  BY <1>2, <1>5 DEF Protocolo, EsperaAlgo
<1> QED
  BY <1>1, <1>4, <1>6 DEF Protocolo

\* The answer to the waiting CPU is sent.
LEMMA ProtocoloResponde ==
    ASSUME a_cpu = <<>>, cpu.estado = "espera", UNCHANGED <<programa, pc, cpu>>,
           NEW op \in {RespuestaSigue[UltimaInstruccion(cpu.pcb).op],
                       RespuestaDetiene[UltimaInstruccion(cpu.pcb).op]},
           Responde(op, cpu.pcb), ~DesdeCpu', ~EnLlamada'
    PROVE  Protocolo'
<1> DEFINE m == Mensaje(op, cpu.pcb)
<1>1. m.pid = cpu.pcb /\ m.op = op
  BY DEF Mensaje
<1>2. a_cpu' = <<m>>
  BY DEF Responde
<1> HIDE DEF m
<1>3. a_cpu' # <<>> /\ Head(a_cpu') = m /\ \A i \in DOMAIN a_cpu' : i = 1
  BY <1>2
<1>4. SocketLegible'
  BY <1>1, <1>3 DEF SocketLegible, Espera, UltimaInstruccion
<1>5. LlamadaPendiente'
  BY DEF LlamadaPendiente
<1>6. EsperaAlgo'
  BY <1>3 DEF EsperaAlgo
<1> QED
  BY <1>4, <1>5, <1>6 DEF Protocolo

\* The call of the waiting CPU goes to, or on to, a stage of its handler.
LEMMA ProtocoloAtiende ==
    ASSUME a_cpu = <<>>, cpu.estado = "espera", UNCHANGED <<programa, pc, cpu, a_cpu>>,
           NEW e \in DOMAIN Sirve, UltimaInstruccion(cpu.pcb).op \in Sirve[e],
           CpuSigueEn(e, cpu.pcb), ~DesdeCpu'
    PROVE  Protocolo'
<1>1. hilo_cpu'.pc = e /\ hilo_cpu'.pcb = cpu.pcb
  BY DEF CpuSigueEn, Hilo
<1>2. SocketLegible'
  BY DEF SocketLegible
<1>3. LlamadaPendiente'
  BY <1>1 DEF LlamadaPendiente, UltimaInstruccion
<1>4. EsperaAlgo'
  BY <1>1 DEF EsperaAlgo, EnLlamada
<1> QED
  BY <1>2, <1>3, <1>4 DEF Protocolo

LEMMA ProtocoloInicial == ASSUME Init PROVE Protocolo
  BY DEF Init, Protocolo, SocketLegible, LlamadaPendiente, EsperaAlgo, DesdeCpu, EnLlamada,
         Sirve, CpuLibre, EnEspera, Hilo

\* The dispatcher sends a process: nobody else holds the token, so a CPU that
\* waits has its answer in front of it.
LEMMA ProtocoloDespacho ==
    ASSUME TipoOK, Ficha, Protocolo, ReadyEnvia
    PROVE  Protocolo'
<1>1. UNCHANGED <<programa, pc, cpu, de_cpu, hilo_cpu>>
  BY DEF ReadyEnvia, procesos
<1>2. ~EnCpu /\ ~DesdeCpu /\ ~EnManejo
  BY FichaExclusiva DEF Ficha, EnDespacho, ReadyEnvia
<1>3. ~EnLlamada /\ ~EnLlamada' /\ ~DesdeCpu'
  BY <1>1, <1>2 DEF EnLlamada, EnManejo, ConFicha, Sirve, DesdeCpu
<1> DEFINE m == [op |-> "EJECUTAR", pid |-> hilo_ready.pcb]
<1>4. a_cpu' = Append(a_cpu, m) /\ m.op = "EJECUTAR" /\ a_cpu \in Seq(AlCpu)
  BY DEF ReadyEnvia, TipoOK, TipoSockets
<1> HIDE DEF m
<1>5. /\ a_cpu' # <<>> /\ DOMAIN a_cpu' = DOMAIN a_cpu \cup {Len(a_cpu) + 1}
      /\ a_cpu'[Len(a_cpu) + 1] = m /\ \A i \in DOMAIN a_cpu : a_cpu'[i] = a_cpu[i]
      /\ a_cpu # <<>> => Head(a_cpu') = Head(a_cpu)
  BY <1>4
<1>6. \A i \in DOMAIN a_cpu' : a_cpu'[i].op = "EJECUTAR" \/ (i \in DOMAIN a_cpu /\ a_cpu'[i] = a_cpu[i])
  BY <1>4, <1>5
<1>7. cpu.estado = "espera" => a_cpu # <<>>
  BY <1>2, <1>3 DEF Protocolo, EsperaAlgo
<1>8. cpu.estado = "espera" => (Espera(Head(a_cpu)))'
  BY <1>1, <1>5, <1>7 DEF Protocolo, SocketLegible, Espera, UltimaInstruccion
<1>9. SocketLegible'
  BY <1>1, <1>2, <1>6, <1>8 DEF Protocolo, SocketLegible, EnCpu
<1>10. LlamadaPendiente' /\ EsperaAlgo'
  BY <1>3, <1>5 DEF LlamadaPendiente, EsperaAlgo
<1> QED
  BY <1>9, <1>10 DEF Protocolo

\* The CPU reads what it is prepared for and hands its process over.
LEMMA ProtocoloCpuPaso ==
    ASSUME TipoOK, Ficha, Protocolo, Cpu
    PROVE  Protocolo'
<1>1. UNCHANGED <<programa, hilo_cpu>>
  BY DEF Cpu, CpuRecibe, CpuLocal, CpuSegFault, CpuDevuelve, CpuLlama, CpuRespuesta,
         CpuInesperado, Ejecuta, procesos, kernel, hilos
<1>2. EnLlamada' <=> EnLlamada
  BY <1>1 DEF EnLlamada
<1>3. a_cpu \in Seq(AlCpu) /\ cpu \in UnaCpu /\ de_cpu \in Seq(DelCpu)
  BY DEF TipoOK, TipoSockets
<1>4. ASSUME a_cpu # <<>>, a_cpu' = Tail(a_cpu)
      PROVE  \A i \in DOMAIN a_cpu' : i + 1 \in DOMAIN a_cpu /\ i + 1 # 1 /\ a_cpu'[i] = a_cpu[i + 1]
  BY <1>3, <1>4
<1>5. CASE CpuRecibe
  <2>1. /\ cpu.estado = "ociosa" /\ a_cpu # <<>> /\ a_cpu' = Tail(a_cpu)
        /\ Head(a_cpu).op = "EJECUTAR" /\ cpu'.estado = "ejecuta" /\ UNCHANGED <<pc, de_cpu>>
    BY <1>5 DEF CpuRecibe, procesos
  <2>2. HaciaCpu /\ ~HaciaCpu'
    BY <2>1, LeerMensaje DEF Ficha, Sigue
  <2>3. a_cpu' = <<>>
    <3>1. \A i \in DOMAIN a_cpu' : a_cpu'[i].op = "EJECUTAR"
      BY <1>4, <2>1 DEF Protocolo, SocketLegible
    <3>2. a_cpu' \in Seq(AlCpu) /\ (a_cpu' # <<>> => 1 \in DOMAIN a_cpu')
      BY <1>3, <2>1
    <3> QED
      BY <2>2, <3>1, <3>2 DEF HaciaCpu, Sigue
  <2>4. ~DesdeCpu' /\ ~EnLlamada'
    BY <1>2, <2>1, <2>2, FichaExclusiva DEF Ficha, DesdeCpu, EnLlamada, Sirve, EnManejo, ConFicha
  <2> QED
    BY <2>1, <2>3, <2>4 DEF Protocolo, SocketLegible, LlamadaPendiente, EsperaAlgo
<1>6. ASSUME Ejecuta({"SET", "MOV_IN", "IO", "WAIT", "SIGNAL", "F_READ", "CREATE_SEGMENT",
                      "DELETE_SEGMENT", "YIELD", "EXIT"})
      PROVE  a_cpu = <<>> /\ UNCHANGED a_cpu /\ de_cpu = <<>> /\ ~EnLlamada' /\ cpu.pcb \in Procesos
  <2>1. cpu.estado = "ejecuta" /\ UNCHANGED a_cpu
    BY <1>6 DEF Ejecuta
  <2>2. a_cpu = <<>>
    BY <2>1 DEF Protocolo, SocketLegible
  <2>3. ~DesdeCpu /\ ~EnManejo
    BY <2>1, FichaExclusiva DEF Ficha, EnCpu
  <2> QED
    BY <1>2, <1>3, <2>1, <2>2, <2>3, CpuProceso DEF DesdeCpu, EnLlamada, Sirve, EnManejo, ConFicha
<1>7. CASE CpuLocal
  <2>1. Ejecuta({"SET", "MOV_IN", "IO", "WAIT", "SIGNAL", "F_READ", "CREATE_SEGMENT",
                 "DELETE_SEGMENT", "YIELD", "EXIT"})
    BY <1>7 DEF CpuLocal, Ejecuta
  <2>2. UNCHANGED <<cpu, de_cpu>> /\ cpu.estado = "ejecuta"
    BY <1>7 DEF CpuLocal, Ejecuta
  <2> QED
    BY <1>6, <2>1, <2>2 DEF Protocolo, SocketLegible, LlamadaPendiente, EsperaAlgo, DesdeCpu
<1>8. ASSUME NEW m, m.op \in SinRespuesta, de_cpu' = Append(de_cpu, m), cpu' = CpuLibre,
             a_cpu = <<>>, UNCHANGED a_cpu, de_cpu = <<>>, ~EnLlamada'
      PROVE  Protocolo'
  <2>1. Head(de_cpu') = m
    BY <1>8
  <2>2. cpu'.estado = "ociosa"
    BY <1>8 DEF CpuLibre
  <2> QED
    BY <1>8, <2>1, <2>2 DEF Protocolo, SocketLegible, LlamadaPendiente, EsperaAlgo
<1>9. CASE CpuSegFault
  <2>1. Ejecuta({"SET", "MOV_IN", "IO", "WAIT", "SIGNAL", "F_READ", "CREATE_SEGMENT",
                 "DELETE_SEGMENT", "YIELD", "EXIT"})
    BY <1>9 DEF CpuSegFault, Ejecuta
  <2> DEFINE m == Mensaje("SEG_FAULT", cpu.pcb)
  <2>2. de_cpu' = Append(de_cpu, m) /\ cpu' = CpuLibre /\ m.op \in SinRespuesta
    BY <1>9 DEF CpuSegFault, Mensaje, SinRespuesta
  <2> HIDE DEF m
  <2> QED
    BY <1>6, <1>8, <2>1, <2>2
<1>10. CASE CpuDevuelve
  <2>1. Ejecuta({"SET", "MOV_IN", "IO", "WAIT", "SIGNAL", "F_READ", "CREATE_SEGMENT",
                 "DELETE_SEGMENT", "YIELD", "EXIT"})
    BY <1>10 DEF CpuDevuelve, Ejecuta
  <2> DEFINE m == Mensaje(CodigoOp[Siguiente(cpu.pcb).op], cpu.pcb)
  <2>2. de_cpu' = Append(de_cpu, m) /\ cpu' = CpuLibre
    BY <1>10 DEF CpuDevuelve
  <2>3. Siguiente(cpu.pcb).op \in {"YIELD", "IO", "EXIT"}
    BY <1>10 DEF CpuDevuelve, Ejecuta
  <2>4. m.op \in SinRespuesta
    BY <2>3 DEF Mensaje, SinRespuesta, CodigoOp
  <2> HIDE DEF m
  <2> QED
    BY <1>6, <1>8, <2>1, <2>2, <2>4
<1>11. CASE CpuLlama
  <2>1. Ejecuta({"SET", "MOV_IN", "IO", "WAIT", "SIGNAL", "F_READ", "CREATE_SEGMENT",
                 "DELETE_SEGMENT", "YIELD", "EXIT"})
    BY <1>11 DEF CpuLlama, Ejecuta
  <2> DEFINE m == Mensaje(CodigoOp[Siguiente(cpu.pcb).op], cpu.pcb)
  <2>2. de_cpu' = Append(de_cpu, m) /\ cpu' = CpuPasa("espera") /\ pc' = [pc EXCEPT ![cpu.pcb] = @ + 1]
    BY <1>11 DEF CpuLlama, Ejecuta
  <2>3. cpu'.estado = "espera" /\ cpu'.pcb = cpu.pcb
    BY <1>3, <2>2 DEF CpuPasa, UnaCpu
  <2>4. pc'[cpu.pcb] = pc[cpu.pcb] + 1
    BY <1>6, <2>1, <2>2 DEF TipoOK, TipoProcesos
  <2>5. LlamadaCpu' = m
    BY <1>1, <2>3, <2>4 DEF LlamadaCpu, UltimaInstruccion, Siguiente
  <2> HIDE DEF m
  <2>6. de_cpu' # <<>> /\ Head(de_cpu') = m
    BY <1>6, <2>1, <2>2
  <2> QED
    BY <1>6, <2>1, <2>3, <2>5, <2>6
       DEF Protocolo, SocketLegible, LlamadaPendiente, EsperaAlgo, DesdeCpu
<1>12. CASE CpuRespuesta
  <2>1. /\ cpu.estado = "espera" /\ a_cpu # <<>> /\ a_cpu' = Tail(a_cpu) /\ UNCHANGED <<pc, de_cpu>>
        /\ Espera(Head(a_cpu))
    BY <1>12 DEF CpuRespuesta, procesos
  <2>2. ~DesdeCpu /\ ~EnLlamada
    BY <2>1 DEF Protocolo, LlamadaPendiente
  <2>3. ~DesdeCpu' /\ ~EnLlamada'
    BY <1>2, <2>1, <2>2 DEF DesdeCpu
  <2>4. \A i \in DOMAIN a_cpu' : a_cpu'[i].op = "EJECUTAR"
    BY <1>4, <2>1 DEF Protocolo, SocketLegible
  <2> DEFINE o == UltimaInstruccion(cpu.pcb).op
  <2>5. CASE Head(a_cpu).op = RespuestaSigue[o]
    <3>1. cpu'.estado = "ejecuta"
      BY <1>3, <1>12, <2>5 DEF CpuRespuesta, CpuPasa, UnaCpu
    <3>2. o \in DOMAIN RespuestaSigue
      BY <2>1 DEF Ficha, EsperaRespuesta
    <3>3. Head(a_cpu).op \in Sigue
      BY <2>5, <3>2 DEF RespuestaSigue, Sigue
    <3>4. ~HaciaCpu'
      BY <2>1, <3>3, LeerMensaje DEF Ficha
    <3>5. a_cpu' \in Seq(AlCpu) /\ (a_cpu' # <<>> => 1 \in DOMAIN a_cpu')
      BY <1>3, <2>1
    <3>6. a_cpu' = <<>>
      BY <2>4, <3>4, <3>5 DEF HaciaCpu, Sigue
    <3> QED
      BY <2>3, <3>1, <3>6 DEF Protocolo, SocketLegible, LlamadaPendiente, EsperaAlgo
  <2>6. CASE Head(a_cpu).op # RespuestaSigue[o]
    <3>1. cpu'.estado = "ociosa"
      BY <1>12, <2>6 DEF CpuRespuesta, CpuLibre
    <3> QED
      BY <2>3, <2>4, <3>1 DEF Protocolo, SocketLegible, LlamadaPendiente, EsperaAlgo
  <2> QED
    BY <2>5, <2>6
\* The CPU is never surprised.
<1>13. ~CpuInesperado
  <2> SUFFICES ASSUME CpuInesperado PROVE FALSE
    OBVIOUS
  <2>1. a_cpu # <<>> /\ 1 \in DOMAIN a_cpu /\ Head(a_cpu) = a_cpu[1]
    BY <1>3 DEF CpuInesperado
  <2>2. cpu.estado = "ociosa" => Head(a_cpu).op = "EJECUTAR"
    BY <2>1 DEF Protocolo, SocketLegible
  <2> QED
    BY <2>1, <2>2 DEF CpuInesperado, Protocolo, SocketLegible, Espera
<1> QED
  BY <1>5, <1>7, <1>9, <1>10, <1>11, <1>12, <1>13 DEF Cpu

\* A handler receives what the CPU has just executed.
LEMMA RecibirLlamada ==
    ASSUME TipoOK, Ficha, Protocolo, NEW op, NEW p \in Procesos, Recibe(op, p),
           UNCHANGED <<programa, pc, cpu>>
    PROVE  /\ a_cpu = <<>> /\ ~DesdeCpu'
           /\ op \in SinRespuesta => cpu.estado # "espera"
           /\ op \notin SinRespuesta =>
                 /\ cpu.estado = "espera" /\ cpu.pcb = p
                 /\ UltimaInstruccion(p).op \in DOMAIN RespuestaSigue
                 /\ op = CodigoOp[UltimaInstruccion(p).op]
<1>1. DesdeCpu /\ Head(de_cpu) = Mensaje(op, p)
  BY DEF Recibe, DesdeCpu
<1>2. a_cpu = <<>> /\ ~DesdeCpu'
  BY <1>1, RecibirFicha DEF Protocolo, LlamadaPendiente
<1>3. ASSUME op \notin SinRespuesta
      PROVE  /\ cpu.estado = "espera" /\ cpu.pcb = p
             /\ UltimaInstruccion(p).op \in DOMAIN RespuestaSigue
             /\ op = CodigoOp[UltimaInstruccion(p).op]
  <2>a. Head(de_cpu).op = op
    BY <1>1 DEF Mensaje
  <2>1. cpu.estado = "espera" /\ Mensaje(op, p) = LlamadaCpu
    BY <1>1, <1>3, <2>a DEF Protocolo, LlamadaPendiente
  <2>2. cpu.pcb = p /\ op = CodigoOp[UltimaInstruccion(cpu.pcb).op]
    BY <2>1 DEF LlamadaCpu, Mensaje
  <2> QED
    BY <2>1, <2>2 DEF Ficha, EsperaRespuesta
<1>4. ASSUME op \in SinRespuesta PROVE cpu.estado # "espera"
  <2> SUFFICES ASSUME cpu.estado = "espera" PROVE FALSE
    OBVIOUS
  <2>1. Mensaje(op, p) = LlamadaCpu
    BY <1>1 DEF Protocolo, LlamadaPendiente
  <2>2. op = CodigoOp[UltimaInstruccion(cpu.pcb).op]
    BY <2>1 DEF LlamadaCpu, Mensaje
  <2>3. UltimaInstruccion(cpu.pcb).op \in DOMAIN RespuestaSigue
    BY DEF Ficha, EsperaRespuesta
  <2> QED
    BY <1>4, <2>2, <2>3 DEF CodigoOp, RespuestaSigue, SinRespuesta
<1> QED
  BY <1>2, <1>3, <1>4

LEMMA ProtocoloSyscall ==
    ASSUME TipoOK, Ficha, Protocolo, NEW p \in Procesos, AtenderSyscall(p), RecursosConfigurados
    PROVE  Protocolo'
<1> USE DEF otrosHilos, hilos
<1>1. UNCHANGED <<programa, pc, cpu>>
  BY DEF AtenderSyscall, AtenderDesalojado, AtenderIO, AtenderArchivo, AtenderWait, AtenderSignal,
         AtenderWaitInexistente, AtenderSignalInexistente, AtenderCrearSegmento,
         AtenderEliminarSegmento, AtenderFinalizar, procesos
\* The three things a handler may do first: nothing that the CPU sees, go on to
\* a stage at which the CPU waits, or answer.
<1>2. ASSUME NEW op \in SinRespuesta, Recibe(op, p), UNCHANGED a_cpu, ~EnLlamada'
      PROVE  Protocolo'
  BY <1>1, <1>2, RecibirLlamada DEF Protocolo, SocketLegible, LlamadaPendiente, EsperaAlgo
<1>3. ASSUME NEW op, Recibe(op, p), op \notin SinRespuesta, UNCHANGED a_cpu, NEW e \in DOMAIN Sirve,
             UltimaInstruccion(p).op \in Sirve[e], CpuSigueEn(e, p)
      PROVE  Protocolo'
  BY <1>1, <1>3, RecibirLlamada, ProtocoloAtiende
<1>4. ASSUME NEW op, Recibe(op, p), op \notin SinRespuesta, ~EnLlamada',
             NEW r \in {RespuestaSigue[UltimaInstruccion(p).op],
                        RespuestaDetiene[UltimaInstruccion(p).op]},
             Responde(r, p)
      PROVE  Protocolo'
  BY <1>1, <1>4, RecibirLlamada, ProtocoloResponde
\* Which instruction a call is.
<1>5. ASSUME NEW op, Recibe(op, p), op \notin SinRespuesta
      PROVE  LET o == UltimaInstruccion(p).op
             IN  /\ op = "EJECUTAR_WAIT" => o = "WAIT"
                 /\ op = "EJECUTAR_SIGNAL" => o = "SIGNAL"
                 /\ op = "LEER_ARCHIVO" => o = "F_READ"
                 /\ op = "CREAR_SEGMENTO" => o = "CREATE_SEGMENT"
                 /\ op = "ELIMINAR_SEGMENTO" => o = "DELETE_SEGMENT"
  BY <1>1, <1>5, RecibirLlamada DEF CodigoOp, RespuestaSigue
<1>6. hilo_cpu.pc = "espera"
  BY DEF AtenderSyscall, AtenderDesalojado, AtenderIO, AtenderArchivo, AtenderWait, AtenderSignal,
         AtenderWaitInexistente, AtenderSignalInexistente, AtenderCrearSegmento,
         AtenderEliminarSegmento, AtenderFinalizar, Recibe
<1>7. CASE AtenderDesalojado(p)
  <2>1. ~EnLlamada'
    BY <1>7 DEF AtenderDesalojado, CpuSigueEn, Hilo, EnLlamada, Sirve
  <2> QED
    BY <1>2, <1>7, <2>1 DEF AtenderDesalojado, SinRespuesta
<1>8. CASE AtenderIO(p)
  <2>1. ~EnLlamada'
    BY <1>6, <1>8 DEF AtenderIO, EnLlamada, Sirve
  <2> QED
    BY <1>2, <1>8, <2>1 DEF AtenderIO, SinRespuesta
<1>9. ASSUME NEW op, op \in {"FINALIZAR", "SEG_FAULT"}, AtenderFinalizar(op, p) PROVE Protocolo'
  <2>1. ~EnLlamada'
    BY <1>9 DEF AtenderFinalizar, CpuSigueEn, Hilo, EnLlamada, Sirve
  <2> QED
    BY <1>2, <1>9, <2>1 DEF AtenderFinalizar, SinRespuesta
<1>10. CASE AtenderArchivo(p)
  <2>1. UltimaInstruccion(p).op = "F_READ"
    BY <1>5, <1>10 DEF AtenderArchivo, SinRespuesta
  <2> QED
    BY <1>3, <1>10, <2>1 DEF AtenderArchivo, SinRespuesta, Sirve
<1>11. CASE AtenderCrearSegmento(p)
  <2>1. UltimaInstruccion(p).op = "CREATE_SEGMENT"
    BY <1>5, <1>11 DEF AtenderCrearSegmento, SinRespuesta
  <2> QED
    BY <1>3, <1>11, <2>1 DEF AtenderCrearSegmento, SinRespuesta, Sirve
<1>12. CASE AtenderEliminarSegmento(p)
  <2>1. UltimaInstruccion(p).op = "DELETE_SEGMENT"
    BY <1>5, <1>12 DEF AtenderEliminarSegmento, SinRespuesta
  <2> QED
    BY <1>3, <1>12, <2>1 DEF AtenderEliminarSegmento, SinRespuesta, Sirve
<1>13. ASSUME NEW r \in Recursos, AtenderWait(p, r) PROVE Protocolo'
  <2>1. Recibe("EJECUTAR_WAIT", p) /\ "EJECUTAR_WAIT" \notin SinRespuesta
    BY <1>13 DEF AtenderWait, SinRespuesta
  <2>2. UltimaInstruccion(p).op = "WAIT"
    BY <1>5, <2>1
  <2>3. Responde("DETENER", p) \/ Responde("CONTINUAR", p)
    BY <1>13 DEF AtenderWait
  <2>4. ~EnLlamada'
    BY <1>6, <1>13 DEF AtenderWait, CpuSigueEn, Hilo, EnLlamada, Sirve
  <2> QED
    BY <1>4, <2>1, <2>2, <2>3, <2>4 DEF RespuestaSigue, RespuestaDetiene
<1>14. ASSUME NEW r \in Recursos, AtenderSignal(p, r) PROVE Protocolo'
  <2>1. Recibe("EJECUTAR_SIGNAL", p) /\ "EJECUTAR_SIGNAL" \notin SinRespuesta
    BY <1>14 DEF AtenderSignal, SinRespuesta
  <2>2. UltimaInstruccion(p).op = "SIGNAL"
    BY <1>5, <2>1
  <2>3. Responde("SENAL_1", p) /\ ~EnLlamada'
    BY <1>6, <1>14 DEF AtenderSignal, EnLlamada, Sirve
  <2> QED
    BY <1>4, <2>1, <2>2, <2>3 DEF RespuestaSigue
<1>15. ~AtenderWaitInexistente(p)
  BY <1>1, RecibirFicha DEF AtenderWaitInexistente
<1>16. CASE AtenderSignalInexistente(p)
  <2>1. Recibe("EJECUTAR_SIGNAL", p) /\ "EJECUTAR_SIGNAL" \notin SinRespuesta
    BY <1>16 DEF AtenderSignalInexistente, SinRespuesta
  <2>2. UltimaInstruccion(p).op = "SIGNAL"
    BY <1>5, <2>1
  <2>3. Responde("SENAL_0", p) /\ ~EnLlamada'
    BY <1>16 DEF AtenderSignalInexistente, CpuSigueEn, Hilo, EnLlamada, Sirve
  <2> QED
    BY <1>4, <2>1, <2>2, <2>3 DEF RespuestaDetiene
<1> QED
  BY <1>7, <1>8, <1>9, <1>10, <1>11, <1>12, <1>13, <1>14, <1>15, <1>16 DEF AtenderSyscall

\* What is known at a stage that the CPU waits for.
LEMMA EnLlamadaImplica ==
    ASSUME TipoOK, Ficha, Protocolo, EnLlamada
    PROVE  /\ a_cpu = <<>> /\ cpu.estado = "espera" /\ cpu.pcb = hilo_cpu.pcb /\ ~DesdeCpu
           /\ UltimaInstruccion(cpu.pcb).op \in Sirve[hilo_cpu.pc]
<1>1. EnManejo
  BY DEF EnLlamada, EnManejo, Sirve, ConFicha
<1> QED
  BY <1>1, FichaExclusiva DEF Ficha, Protocolo, LlamadaPendiente

LEMMA ProtocoloHandler ==
    ASSUME TipoOK, Ficha, Protocolo, ContinuarHandler
    PROVE  Protocolo'
<1> USE DEF otrosHilos, hilos, canales
<1>1. UNCHANGED <<programa, pc, cpu, de_cpu>>
  BY DEF ContinuarHandler, CpuAvisaReady, Habilitar, EnviarArchivo, LiberarGrado,
         EliminarProceso, CreacionExitosa, SinMemoria, HabilitarSinMemoria, LiberarSinMemoria,
         RealizarCompactacion, PedirCompactacion, FinCompactacion, procesos
<1>2. DesdeCpu' <=> DesdeCpu
  BY <1>1 DEF DesdeCpu
<1>3. ASSUME CpuAvisaReady \/ Habilitar \/ LiberarGrado \/ EliminarProceso \/ HabilitarSinMemoria
             \/ LiberarSinMemoria
      PROVE  Protocolo'
  <2>1. UNCHANGED a_cpu
    BY <1>3 DEF CpuAvisaReady, Habilitar, LiberarGrado, EliminarProceso, HabilitarSinMemoria,
                LiberarSinMemoria
  <2>2. ~EnLlamada /\ ~EnLlamada'
    BY <1>3 DEF CpuAvisaReady, Habilitar, LiberarGrado, EliminarProceso, HabilitarSinMemoria,
                LiberarSinMemoria, CpuSigueEn, EnEspera, Hilo, EnLlamada, Sirve
  <2> QED
    BY <1>1, <2>1, <2>2, ProtocoloQuieto
\* The handler answers, and goes on to a stage that the CPU does not wait for.
<1>4. ASSUME EnLlamada, ~EnLlamada', Responde("DETENER", hilo_cpu.pcb), hilo_cpu.pc = "espera_fs"
      PROVE  Protocolo'
  <2>1. "DETENER" = RespuestaDetiene[UltimaInstruccion(cpu.pcb).op]
    BY <1>4, EnLlamadaImplica DEF Sirve, RespuestaDetiene
  <2> QED
    BY <1>1, <1>2, <1>4, <2>1, EnLlamadaImplica, ProtocoloResponde
<1>5. CASE EnviarArchivo
  <2>1. EnLlamada /\ ~EnLlamada'
    BY <1>5 DEF EnviarArchivo, CpuSigueEn, Hilo, EnLlamada, Sirve
  <2> QED
    BY <1>4, <1>5, <2>1 DEF EnviarArchivo
<1>6. CASE CreacionExitosa
  <2>1. EnLlamada /\ ~EnLlamada'
    BY <1>6 DEF CreacionExitosa, EnEspera, Hilo, EnLlamada, Sirve
  <2>2. UltimaInstruccion(cpu.pcb).op \in {"CREATE_SEGMENT", "DELETE_SEGMENT"}
    BY <1>6, <2>1, EnLlamadaImplica DEF CreacionExitosa, Sirve
  <2>3. "EJECUTAR" = RespuestaSigue[UltimaInstruccion(cpu.pcb).op]
    BY <2>2 DEF RespuestaSigue
  <2>4. Responde("EJECUTAR", cpu.pcb)
    BY <1>6, <2>1, EnLlamadaImplica DEF CreacionExitosa
  <2> QED
    BY <1>1, <1>2, <2>1, <2>3, <2>4, EnLlamadaImplica, ProtocoloResponde
<1>7. CASE SinMemoria
  <2>1. EnLlamada /\ ~EnLlamada'
    BY <1>7 DEF SinMemoria, CpuSigueEn, Hilo, EnLlamada, Sirve
  <2>2. UltimaInstruccion(cpu.pcb).op = "CREATE_SEGMENT"
    BY <1>7, <2>1, EnLlamadaImplica DEF SinMemoria, Sirve
  <2>3. "FINALIZAR" = RespuestaDetiene[UltimaInstruccion(cpu.pcb).op]
    BY <2>2 DEF RespuestaDetiene
  <2>4. Responde("FINALIZAR", cpu.pcb)
    BY <1>7, <2>1, EnLlamadaImplica DEF SinMemoria
  <2> QED
    BY <1>1, <1>2, <2>1, <2>3, <2>4, EnLlamadaImplica, ProtocoloResponde
\* A creation goes from stage to stage.
<1>8. ASSUME RealizarCompactacion \/ PedirCompactacion \/ FinCompactacion
      PROVE  Protocolo'
  <2>1. EnLlamada /\ UNCHANGED a_cpu
    BY <1>8 DEF RealizarCompactacion, PedirCompactacion, FinCompactacion, EnLlamada, Sirve
  <2>2. hilo_cpu.pc \in {"espera_memoria", "espera_compactar", "compacta"}
    BY <1>8 DEF RealizarCompactacion, PedirCompactacion, FinCompactacion
  <2>3. UltimaInstruccion(cpu.pcb).op = "CREATE_SEGMENT"
    BY <2>1, <2>2, EnLlamadaImplica DEF Sirve
  <2>4. PICK e \in {"espera_compactar", "compacta", "espera_tabla"} : CpuSigueEn(e, cpu.pcb)
    BY <1>8, <2>1, EnLlamadaImplica DEF RealizarCompactacion, PedirCompactacion, FinCompactacion
  <2>5. e \in DOMAIN Sirve /\ UltimaInstruccion(cpu.pcb).op \in Sirve[e]
    BY <2>3 DEF Sirve
  <2> QED
    BY <1>1, <1>2, <2>1, <2>4, <2>5, EnLlamadaImplica, ProtocoloAtiende
<1> QED
  BY <1>3, <1>5, <1>6, <1>7, <1>8 DEF ContinuarHandler

LEMMA ProtocoloPaso ==
    ASSUME TipoOK, Ficha, Protocolo, [Next]_vars, RecursosConfigurados
    PROVE  Protocolo'
<1> USE DEF procesos, semaforos, hilos, otrosHilos, canales
<1>1. ASSUME HiloNew \/ HiloFs \/ HiloIO PROVE Protocolo'
  BY <1>1, ProtocoloQuieto
     DEF HiloNew, NewDespierta, NewVacia, NewQuita, NewEncola, NewAvisa, HiloFs, FsDesbloqueado,
         FsEncola, FsAvisa, HiloIO, IOAvisa, IOEncola
<1>2. CASE FileSystemTermina
  BY <1>2, ProtocoloQuieto DEF FileSystemTermina, kernel
<1>3. ASSUME NEW p \in Procesos, Consola(p) PROVE Protocolo'
  BY <1>3, ProtocoloQuieto DEF Consola, ConsolaEncola, ConsolaAvisa
<1>4. ASSUME NEW r \in Recursos, HiloRecurso(r) PROVE Protocolo'
  BY <1>4, ProtocoloQuieto DEF HiloRecurso, RecursoDespierta, RecursoEncola, RecursoAvisa
<1>5. ASSUME ReadyDespierta \/ ReadyVacia \/ ReadyQuita PROVE Protocolo'
  BY <1>5, ProtocoloQuieto DEF ReadyDespierta, ReadyVacia, ReadyQuita
<1>6. CASE UNCHANGED vars
  BY <1>6, ProtocoloQuieto DEF vars
<1> QED
  BY <1>1, <1>2, <1>3, <1>4, <1>5, <1>6, ProtocoloDespacho, ProtocoloCpuPaso, ProtocoloSyscall,
     ProtocoloHandler
  DEF Next, HiloCpu, HiloReady

LEMMA ProtocoloImplica == ASSUME TipoOK, Protocolo PROVE ProtocoloCpu
<1> SUFFICES ASSUME a_cpu # <<>>
             PROVE  cpu.estado # "ejecuta" /\ Espera(Head(a_cpu))
  BY DEF ProtocoloCpu
<1>1. cpu.estado \in {"ociosa", "ejecuta", "espera", "desincronizada"}
  BY DEF TipoOK, TipoSockets, UnaCpu
<1>2. 1 \in DOMAIN a_cpu /\ Head(a_cpu) = a_cpu[1]
  BY DEF TipoOK, TipoSockets
<1> QED
  BY <1>1, <1>2 DEF Protocolo, SocketLegible, Espera

\* Each message that the CPU reads is one that its recv is for, though three
\* threads write to it, if every WAIT names a configured resource.
THEOREM ProtocoloCpuCorrecto ==
    ASSUME RecursosConfigurados
    PROVE  Spec => []ProtocoloCpu
<1>1. Init => Ficha /\ Protocolo
  BY FichaInicial, ProtocoloInicial
<1>2. TipoOK /\ Ficha /\ Protocolo /\ [Next]_vars => (Ficha /\ Protocolo)'
  BY FichaPaso, ProtocoloPaso
<1>3. TipoOK /\ Ficha /\ Protocolo => ProtocoloCpu
  BY ProtocoloImplica
<1> QED
  BY <1>1, <1>2, <1>3, TipoCorrecto, PTL DEF Spec
=============================================================================
