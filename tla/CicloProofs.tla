----------------------------- MODULE CicloProofs -----------------------------
(***************************************************************************)
(* No PCB is lost and none is in two places, the scheduler implements the  *)
(* five-state diagram (CicloDeVida), and its multiprogramming slots and    *)
(* the instances of its resources are conserved.                           *)
(*                                                                         *)
(* Every queue, message and thread that may hold a PCB is a set of         *)
(* processes; a step takes a process out of one set and puts it in         *)
(* another. The sets of the processes that execute follow the token of     *)
(* PlanificadorProofs, so these theorems assume RecursosConfigurados too.  *)
(*                                                                         *)
(* So a process is in one place at most, and its state is the kind of      *)
(* place it is in: each step moves at most one process from a kind of      *)
(* place to another, and the diagram has an arrow for it. The bound on     *)
(* admissions is the account of the slots. The last section counts who has *)
(* taken each resource, from the instructions that the kernel has served.  *)
(***************************************************************************)
EXTENDS PlanificadorProofs, FiniteSetTheorems

-----------------------------------------------------------------------------
(* The places. *)

EnNew      == ToSet(cola_new)
Admitido   == {p \in Procesos : hilo_new = Hilo("encola", p)}
EnReady    == ToSet(cola_ready)
EnRecurso  == UNION {ToSet(cola_recurso[r]) : r \in Recursos}
Despertado == {p \in Procesos : \E r \in Recursos : hilo_recurso[r] = Hilo("encola", p)}
Dormido    == hilo_io.duermen
EnFs       == ToSet(a_fs)
DeFs       == ToSet(de_fs)
Desbloqueado == {p \in Procesos : hilo_fs = Hilo("encola", p)}

\* The five places of a process that executes, in the order of the token.
Despachado == {p \in Procesos : hilo_ready = Hilo("envia", p)}
HaciaLaCpu == {a_cpu[i].pid : i \in {k \in DOMAIN a_cpu : a_cpu[k].op \in Sigue}}
EnLaCpu    == {p \in Procesos : cpu = [estado |-> "ejecuta", pcb |-> p]}
DeLaCpu    == {de_cpu[i].pid : i \in DOMAIN de_cpu}
Atendido   == {p \in Procesos : EnLlamada /\ hilo_cpu.pcb = p}
EnEjecucion == Despachado \cup HaciaLaCpu \cup EnLaCpu \cup DeLaCpu \cup Atendido

\* The processes that have been submitted and have not finished.
Vivos == {p \in Procesos : consola[p] # "inicio" /\ motivo[p] = "ninguno"}

PlazaUnica ==
    \A p \in Procesos :
        Uno(p \in EnNew) + Uno(p \in Admitido) + Uno(p \in EnReady) + Uno(p \in EnRecurso)
          + Uno(p \in Despertado) + Uno(p \in Dormido) + Uno(p \in EnFs) + Uno(p \in DeFs)
          + Uno(p \in Desbloqueado) + Uno(p \in EnEjecucion)
          = Uno(p \in Vivos)

\* No queue holds a process twice, and no two resources the same one.
ColasSinRepetir ==
    /\ IsInjective(cola_new) /\ IsInjective(cola_ready)
    /\ IsInjective(a_fs) /\ IsInjective(de_fs)
RecursosSinRepetir ==
    /\ \A r \in Recursos : IsInjective(cola_recurso[r])
    /\ \A r, s \in Recursos :
          ToSet(cola_recurso[r]) \cap ToSet(cola_recurso[s]) # {} => r = s
    /\ \A p \in Procesos : \A r, s \in Recursos :
          hilo_recurso[r] = Hilo("encola", p) /\ hilo_recurso[s] = Hilo("encola", p) => r = s

\* Nothing ends before it is submitted.
SinEmpezar == \A p \in Procesos : consola[p] = "inicio" => motivo[p] = "ninguno"

Unicidad == PlazaUnica /\ ColasSinRepetir /\ RecursosSinRepetir /\ SinEmpezar

-----------------------------------------------------------------------------
(* Queues as sets. *)

LEMMA EnCola == ASSUME NEW s, NEW p PROVE Esta(p, s) <=> p \in ToSet(s)
  BY DEF Esta, ToSet

-----------------------------------------------------------------------------
(* The places of a process that executes. *)

LEMMA EjecutandoEs ==
    ASSUME NEW p \in Procesos
    PROVE  Ejecutando(p) <=> p \in EnEjecucion
<1>1. Atendido = {q \in Procesos : hilo_cpu.pcb = q /\ hilo_cpu.pc \in
                    {"espera_fs", "espera_memoria", "espera_tabla", "espera_compactar", "compacta"}}
  BY DEF Atendido, EnLlamada, Sirve
<1>2. p \in HaciaLaCpu <=> \E i \in DOMAIN a_cpu : a_cpu[i].pid = p /\ a_cpu[i].op \in Sigue
  BY DEF HaciaLaCpu
<1>3. p \in DeLaCpu <=> \E i \in DOMAIN de_cpu : de_cpu[i].pid = p
  BY DEF DeLaCpu
<1> QED
  BY <1>1, <1>2, <1>3 DEF Ejecutando, EnEjecucion, Despachado, EnLaCpu, Sigue

\* A place without the token holds nobody.
LEMMA SinFicha ==
    /\ ~EnDespacho => Despachado = {}
    /\ ~HaciaCpu => HaciaLaCpu = {}
    /\ ~EnCpu => EnLaCpu = {}
    /\ ~DesdeCpu => DeLaCpu = {}
    /\ ~EnManejo => Atendido = {}
<1>1. ~EnDespacho => Despachado = {}
  BY DEF EnDespacho, Despachado, Hilo
<1>2. ~HaciaCpu => HaciaLaCpu = {}
  BY DEF HaciaCpu, HaciaLaCpu
<1>3. ~EnCpu => EnLaCpu = {}
  BY DEF EnCpu, EnLaCpu
<1>4. ~DesdeCpu => DeLaCpu = {}
  BY DEF DesdeCpu, DeLaCpu
<1>5. ~EnManejo => Atendido = {}
  BY DEF EnManejo, Atendido, EnLlamada, Sirve, ConFicha
<1> QED
  BY <1>1, <1>2, <1>3, <1>4, <1>5

LEMMA EjecucionQuieta ==
    ASSUME UNCHANGED <<hilo_ready, a_cpu, cpu, de_cpu, hilo_cpu>>
    PROVE  EnEjecucion' = EnEjecucion
  BY DEF EnEjecucion, Despachado, HaciaLaCpu, EnLaCpu, DeLaCpu, Atendido, EnLlamada

LEMMA EjecucionSinManejo ==
    ASSUME UNCHANGED <<hilo_ready, a_cpu, cpu, de_cpu>>, ~EnLlamada, ~EnLlamada'
    PROVE  EnEjecucion' = EnEjecucion
<1>1. Atendido = {} /\ Atendido' = {}
  BY DEF Atendido
<1>2. /\ Despachado' = Despachado /\ HaciaLaCpu' = HaciaLaCpu
      /\ EnLaCpu' = EnLaCpu /\ DeLaCpu' = DeLaCpu
  BY DEF Despachado, HaciaLaCpu, EnLaCpu, DeLaCpu
<1> QED
  BY <1>1, <1>2 DEF EnEjecucion

\* Who executes, by where the token is.
Situada ==
    /\ EnDespacho => EnEjecucion = {hilo_ready.pcb}
    /\ \A i \in DOMAIN a_cpu : a_cpu[i].op \in Sigue => EnEjecucion = {a_cpu[i].pid}
    /\ EnCpu => EnEjecucion = {cpu.pcb}
    /\ DesdeCpu => EnEjecucion = {Head(de_cpu).pid}
    /\ EnManejo => EnEjecucion = IF EnLlamada THEN {hilo_cpu.pcb} ELSE {}
    /\ sem_habilitar_exec = 1 => EnEjecucion = {}

LEMMA EjecucionDe == TipoOK /\ Ficha => Situada
<1> SUFFICES ASSUME TipoOK, Ficha PROVE Situada
  OBVIOUS
<1> USE SinFicha, FichaExclusiva DEF Ficha
<1>1. ASSUME EnDespacho PROVE EnEjecucion = {hilo_ready.pcb}
  <2>1. hilo_ready = Hilo("envia", hilo_ready.pcb) /\ hilo_ready.pcb \in Procesos
    BY <1>1 DEF TipoOK, TipoHilos, UnHilo, EnDespacho, Hilo
  <2>2. Despachado = {hilo_ready.pcb}
    BY <2>1 DEF Despachado, Hilo
  <2> QED
    BY <1>1, <2>2 DEF EnEjecucion
<1>2. ASSUME NEW i \in DOMAIN a_cpu, a_cpu[i].op \in Sigue
      PROVE  EnEjecucion = {a_cpu[i].pid}
  <2>1. HaciaCpu
    BY <1>2 DEF HaciaCpu
  <2>2. {k \in DOMAIN a_cpu : a_cpu[k].op \in Sigue} = {i}
    BY <1>2 DEF MensajeUnico
  <2>3. HaciaLaCpu = {a_cpu[i].pid}
    BY <2>2 DEF HaciaLaCpu
  <2> QED
    BY <2>1, <2>3 DEF EnEjecucion
<1>3. ASSUME EnCpu PROVE EnEjecucion = {cpu.pcb}
  <2>1. cpu = [estado |-> "ejecuta", pcb |-> cpu.pcb] /\ cpu.pcb \in Procesos
    BY <1>3 DEF TipoOK, TipoSockets, UnaCpu, EnCpu
  <2>2. EnLaCpu = {cpu.pcb}
    BY <2>1 DEF EnLaCpu
  <2> QED
    BY <1>3, <2>2 DEF EnEjecucion
<1>4. ASSUME DesdeCpu PROVE EnEjecucion = {Head(de_cpu).pid}
  <2>1. de_cpu \in Seq(DelCpu) /\ de_cpu # <<>> /\ Len(de_cpu) <= 1
    BY <1>4 DEF TipoOK, TipoSockets, DesdeCpu, RespuestaUnica
  <2>a. Len(de_cpu) \in Nat /\ Len(de_cpu) # 0 /\ DOMAIN de_cpu = 1..Len(de_cpu)
        /\ Head(de_cpu) = de_cpu[1]
    BY <2>1
  <2>b. Len(de_cpu) = 1
    BY <2>1, <2>a
  <2>2. DOMAIN de_cpu = {1} /\ Head(de_cpu) = de_cpu[1]
    BY <2>a, <2>b
  <2>3. DeLaCpu = {Head(de_cpu).pid}
    BY <2>2 DEF DeLaCpu
  <2> QED
    BY <1>4, <2>3 DEF EnEjecucion
<1>5. ASSUME EnManejo PROVE EnEjecucion = IF EnLlamada THEN {hilo_cpu.pcb} ELSE {}
  <2>1. EnLlamada => hilo_cpu.pcb \in Procesos
    BY PcbDeHilo DEF EnLlamada, Sirve, CpuOcupados, TipoOK
  <2>2. Atendido = IF EnLlamada THEN {hilo_cpu.pcb} ELSE {}
    BY <2>1 DEF Atendido
  <2> QED
    BY <1>5, <2>2 DEF EnEjecucion
<1>6. ASSUME sem_habilitar_exec = 1 PROVE EnEjecucion = {}
  BY <1>6 DEF EnEjecucion
<1> QED
  BY <1>1, <1>2, <1>3, <1>4, <1>5, <1>6 DEF Situada

LEMMA EjecucionDePrima == TipoOK' /\ Ficha' => Situada'
  BY EjecucionDe, PTL

-----------------------------------------------------------------------------
(* The other places. *)

\* A place does not move while the variables that name it do not.
LEMMA Quietos ==
    /\ UNCHANGED cola_new => EnNew' = EnNew
    /\ UNCHANGED hilo_new => Admitido' = Admitido
    /\ UNCHANGED cola_ready => EnReady' = EnReady
    /\ UNCHANGED cola_recurso => EnRecurso' = EnRecurso
    /\ UNCHANGED hilo_recurso => Despertado' = Despertado
    /\ UNCHANGED hilo_io => Dormido' = Dormido
    /\ UNCHANGED a_fs => EnFs' = EnFs
    /\ UNCHANGED de_fs => DeFs' = DeFs
    /\ UNCHANGED hilo_fs => Desbloqueado' = Desbloqueado
    /\ UNCHANGED <<consola, motivo>> => Vivos' = Vivos
    /\ UNCHANGED <<consola, motivo>> /\ SinEmpezar => SinEmpezar'
    /\ UNCHANGED <<cola_recurso, hilo_recurso>> /\ RecursosSinRepetir => RecursosSinRepetir'
<1>1. UNCHANGED cola_new => EnNew' = EnNew
  BY DEF EnNew
<1>2. UNCHANGED hilo_new => Admitido' = Admitido
  BY DEF Admitido
<1>3. UNCHANGED cola_ready => EnReady' = EnReady
  BY DEF EnReady
<1>4. UNCHANGED cola_recurso => EnRecurso' = EnRecurso
  BY DEF EnRecurso
<1>5. UNCHANGED hilo_recurso => Despertado' = Despertado
  BY DEF Despertado
<1>6. UNCHANGED hilo_io => Dormido' = Dormido
  BY DEF Dormido
<1>7. /\ UNCHANGED a_fs => EnFs' = EnFs
      /\ UNCHANGED de_fs => DeFs' = DeFs
  BY DEF EnFs, DeFs
<1>8. UNCHANGED hilo_fs => Desbloqueado' = Desbloqueado
  BY DEF Desbloqueado
<1>9. UNCHANGED <<consola, motivo>> => Vivos' = Vivos
  BY DEF Vivos
<1>10. UNCHANGED <<consola, motivo>> /\ SinEmpezar => SinEmpezar'
  BY DEF SinEmpezar
<1>11. UNCHANGED <<cola_recurso, hilo_recurso>> /\ RecursosSinRepetir => RecursosSinRepetir'
  BY DEF RecursosSinRepetir
<1> QED
  BY <1>1, <1>2, <1>3, <1>4, <1>5, <1>6, <1>7, <1>8, <1>9, <1>10, <1>11

\* The threads that carry one PCB, and the places of the ready queue and the I/O.
Portadores ==
    /\ Admitido = IF hilo_new.pc = "encola" THEN {hilo_new.pcb} ELSE {}
    /\ Desbloqueado = IF hilo_fs.pc = "encola" THEN {hilo_fs.pcb} ELSE {}
    /\ \A r \in Recursos : \A p \in Procesos :
          hilo_recurso[r] = Hilo("encola", p)
            <=> hilo_recurso[r].pc = "encola" /\ hilo_recurso[r].pcb = p

LEMMA PortadoresDe == TipoHilos => Portadores
<1> SUFFICES ASSUME TipoHilos PROVE Portadores
  OBVIOUS
<1>1. ASSUME NEW h \in UnHilo({"espera", "revisa", "avisa"}, {"encola"})
      PROVE  /\ {p \in Procesos : h = Hilo("encola", p)} = IF h.pc = "encola" THEN {h.pcb} ELSE {}
             /\ \A p \in Procesos : h = Hilo("encola", p) <=> h.pc = "encola" /\ h.pcb = p
  <2>1. CASE h.pc = "encola"
    <3>1. h = Hilo("encola", h.pcb) /\ h.pcb \in Procesos
      BY <2>1 DEF UnHilo, Hilo
    <3>2. \A p \in Procesos : h = Hilo("encola", p) <=> h.pcb = p
      BY <3>1 DEF Hilo
    <3> QED
      BY <2>1, <3>1, <3>2
  <2>2. CASE h.pc # "encola"
    <3>1. \A p \in Procesos : h # Hilo("encola", p)
      BY <2>2 DEF Hilo
    <3> QED
      BY <2>2, <3>1
  <2> QED
    BY <2>1, <2>2
<1>2. /\ hilo_new \in UnHilo({"espera", "revisa", "avisa"}, {"encola"})
      /\ hilo_fs \in UnHilo({"espera", "revisa", "avisa"}, {"encola"})
      /\ \A r \in Recursos : hilo_recurso[r] \in UnHilo({"espera", "revisa", "avisa"}, {"encola"})
  BY DEF TipoHilos, UnHilo
<1>3. Admitido = IF hilo_new.pc = "encola" THEN {hilo_new.pcb} ELSE {}
  BY <1>1, <1>2 DEF Admitido
<1>4. Desbloqueado = IF hilo_fs.pc = "encola" THEN {hilo_fs.pcb} ELSE {}
  BY <1>1, <1>2 DEF Desbloqueado
<1> QED
  BY <1>1, <1>2, <1>3, <1>4 DEF Portadores

LEMMA PortadoresPrima == TipoHilos' => Portadores'
  BY PortadoresDe, PTL

\* A process enters the ready queue.
LEMMA EntrarReady ==
    ASSUME TipoOK, ColasSinRepetir, NEW q \in Procesos, q \notin EnReady, EncolarReady(q)
    PROVE  EnReady' = EnReady \cup {q} /\ IsInjective(cola_ready')
<1>1. cola_ready \in Seq(Procesos) /\ cola_ready' = Append(cola_ready, q)
  BY DEF TipoOK, TipoColas, EncolarReady
<1> QED
  BY <1>1, Anexar DEF EnReady, ColasSinRepetir

-----------------------------------------------------------------------------
(* The steps, thread by thread. *)

\* A step that moves no PCB.
LEMMA UnicidadQuieta ==
    ASSUME Unicidad, EnEjecucion' = EnEjecucion, UNCHANGED <<consola, motivo>>,
           UNCHANGED <<cola_new, cola_ready, cola_recurso, hilo_recurso, a_fs, de_fs>>,
           Admitido' = Admitido, Desbloqueado' = Desbloqueado, Dormido' = Dormido
    PROVE  Unicidad'
<1>1. /\ EnNew' = EnNew /\ EnReady' = EnReady /\ EnRecurso' = EnRecurso
      /\ Despertado' = Despertado /\ EnFs' = EnFs /\ DeFs' = DeFs /\ Vivos' = Vivos
  BY Quietos
<1>2. PlazaUnica'
  BY <1>1 DEF Unicidad, PlazaUnica
<1> QED
  BY <1>2, Quietos DEF Unicidad, ColasSinRepetir

\* Consoles: the process enters NEW and the count of the living at once.
LEMMA UnicidadConsola ==
    ASSUME TipoOK, Unicidad, NEW q \in Procesos, Consola(q)
    PROVE  Unicidad'
<1> USE DEF Unicidad, hilos, recursos, canales, ready, procesos
<1>1. CASE ConsolaEncola(q)
  <2>1. /\ consola[q] = "inicio" /\ motivo[q] = "ninguno" /\ UNCHANGED motivo
        /\ consola'[q] = "avisa" /\ \A p \in Procesos \ {q} : consola'[p] = consola[p]
    BY <1>1 DEF ConsolaEncola, SinEmpezar, TipoOK, TipoProcesos
  <2>2. q \notin Vivos /\ Vivos' = Vivos \cup {q} /\ SinEmpezar'
    BY <2>1 DEF Vivos, SinEmpezar
  <2>3. q \notin EnNew
    BY <2>2 DEF PlazaUnica, Uno
  <2>4. EnNew' = EnNew \cup {q} /\ IsInjective(cola_new')
    <3>1. cola_new \in Seq(Procesos) /\ cola_new' = Append(cola_new, q)
      BY <1>1 DEF ConsolaEncola, TipoOK, TipoColas
    <3> QED
      BY <2>3, <3>1, Anexar DEF EnNew, ColasSinRepetir
  <2>5. /\ Admitido' = Admitido /\ EnReady' = EnReady /\ EnRecurso' = EnRecurso
        /\ Despertado' = Despertado /\ Dormido' = Dormido /\ EnFs' = EnFs /\ DeFs' = DeFs
        /\ Desbloqueado' = Desbloqueado /\ EnEjecucion' = EnEjecucion /\ RecursosSinRepetir'
    BY <1>1, Quietos, EjecucionQuieta DEF ConsolaEncola
  <2>6. PlazaUnica'
    BY <2>2, <2>3, <2>4, <2>5 DEF PlazaUnica, Uno
  <2>7. ColasSinRepetir'
    BY <1>1, <2>4 DEF ConsolaEncola, ColasSinRepetir
  <2> QED
    BY <2>2, <2>5, <2>6, <2>7
<1>2. CASE ConsolaAvisa(q)
  <2>1. /\ Vivos' = Vivos /\ SinEmpezar'
    BY <1>2 DEF ConsolaAvisa, Vivos, SinEmpezar, TipoOK, TipoProcesos
  <2>2. /\ EnNew' = EnNew /\ Admitido' = Admitido /\ EnReady' = EnReady /\ EnRecurso' = EnRecurso
        /\ Despertado' = Despertado /\ Dormido' = Dormido /\ EnFs' = EnFs /\ DeFs' = DeFs
        /\ Desbloqueado' = Desbloqueado /\ EnEjecucion' = EnEjecucion /\ RecursosSinRepetir'
    BY <1>2, Quietos, EjecucionQuieta DEF ConsolaAvisa
  <2>3. PlazaUnica'
    BY <2>1, <2>2 DEF PlazaUnica, Uno
  <2>4. ColasSinRepetir'
    BY <1>2 DEF ConsolaAvisa, ColasSinRepetir
  <2> QED
    BY <2>1, <2>2, <2>3, <2>4
<1> QED
  BY <1>1, <1>2 DEF Consola

\* de_new_a_ready: from NEW to the thread, from the thread to READY.
LEMMA UnicidadNew ==
    ASSUME TipoOK, TipoOK', Unicidad, HiloNew
    PROVE  Unicidad'
<1> USE DEF hilos, recursos, canales, ready, procesos
<1>a. Portadores /\ Portadores'
  BY PortadoresDe, PortadoresPrima DEF TipoOK
<1>b. /\ EnRecurso' = EnRecurso /\ Despertado' = Despertado /\ Dormido' = Dormido
      /\ EnFs' = EnFs /\ DeFs' = DeFs /\ Desbloqueado' = Desbloqueado /\ Vivos' = Vivos
      /\ EnEjecucion' = EnEjecucion /\ (Unicidad => RecursosSinRepetir' /\ SinEmpezar')
  BY Quietos, EjecucionQuieta
     DEF Unicidad, HiloNew, NewDespierta, NewVacia, NewQuita, NewEncola, NewAvisa
<1>1. ASSUME NewDespierta \/ NewVacia \/ NewAvisa PROVE Unicidad'
  <2>1. /\ UNCHANGED <<consola, motivo, cola_new, cola_ready, cola_recurso, hilo_recurso, a_fs, de_fs>>
        /\ hilo_new.pc # "encola" /\ hilo_new'.pc # "encola"
    BY <1>1 DEF NewDespierta, NewVacia, NewAvisa, PublicarReady, Hilo, EnEspera, new
  <2>2. Admitido' = Admitido
    BY <1>a, <2>1 DEF Portadores
  <2> QED
    BY <1>b, <2>1, <2>2, UnicidadQuieta
<1>2. CASE NewQuita
  <2> DEFINE q == Head(cola_new)
  <2>1. cola_new \in Seq(Procesos) /\ cola_new # <<>> /\ cola_new' = Tail(cola_new)
    BY <1>2 DEF NewQuita, TipoOK, TipoColas
  <2>2. /\ q \in EnNew /\ q \in Procesos /\ EnNew' = EnNew \ {q}
        /\ IsInjective(cola_new')
    BY <2>1, SacarPrimero DEF EnNew, Unicidad, ColasSinRepetir
  <2>3. hilo_new.pc = "revisa" /\ hilo_new'.pc = "encola" /\ hilo_new'.pcb = q
    BY <1>2 DEF NewQuita, Hilo
  <2>4. Admitido = {} /\ Admitido' = {q} /\ EnReady' = EnReady
    BY <1>2, <1>a, <2>3, Quietos DEF Portadores, NewQuita
  <2> HIDE DEF q
  <2>5. PlazaUnica'
    BY <1>b, <2>2, <2>4 DEF Unicidad, PlazaUnica, Uno
  <2>6. ColasSinRepetir'
    BY <1>2, <2>2 DEF NewQuita, Unicidad, ColasSinRepetir
  <2> QED
    BY <1>b, <2>5, <2>6 DEF Unicidad
<1>3. CASE NewEncola
  <2> DEFINE q == hilo_new.pcb
  <2>1. hilo_new.pc = "encola" /\ hilo_new'.pc # "encola" /\ q \in Procesos /\ EncolarReady(q)
    BY <1>3, PcbDeHilo DEF NewEncola, Hilo, TipoOK
  <2>2. Admitido = {q} /\ Admitido' = {} /\ EnNew' = EnNew
    BY <1>3, <1>a, <2>1, Quietos DEF Portadores, NewEncola, new
  <2> HIDE DEF q
  <2>3. q \notin EnReady
    BY <2>1, <2>2 DEF Unicidad, PlazaUnica, Uno
  <2>4. EnReady' = EnReady \cup {q} /\ IsInjective(cola_ready')
    BY <2>1, <2>3, EntrarReady DEF Unicidad
  <2>5. PlazaUnica'
    BY <1>b, <2>1, <2>2, <2>4 DEF Unicidad, PlazaUnica, Uno
  <2>6. ColasSinRepetir'
    BY <1>3, <2>4 DEF NewEncola, new, Unicidad, ColasSinRepetir
  <2> QED
    BY <1>b, <2>5, <2>6 DEF Unicidad
<1> QED
  BY <1>1, <1>2, <1>3 DEF HiloNew

\* de_ready_a_ejecutar: from READY, whichever position, to the thread, and from
\* the thread to the CPU's socket.
LEMMA UnicidadReady ==
    ASSUME TipoOK, TipoOK', Ficha, Ficha', Unicidad, HiloReady
    PROVE  Unicidad'
<1> USE DEF hilos, recursos, canales, ready, procesos, new
<1>a. Situada /\ Situada'
  BY EjecucionDe, EjecucionDePrima
<1>b. /\ EnRecurso' = EnRecurso /\ Despertado' = Despertado /\ Dormido' = Dormido
      /\ EnFs' = EnFs /\ DeFs' = DeFs /\ Desbloqueado' = Desbloqueado /\ Vivos' = Vivos
      /\ EnNew' = EnNew /\ Admitido' = Admitido /\ (Unicidad => RecursosSinRepetir' /\ SinEmpezar')
  BY Quietos DEF Unicidad, HiloReady, ReadyDespierta, ReadyVacia, ReadyQuita, ReadyEnvia
<1>1. ASSUME ReadyDespierta \/ ReadyVacia PROVE Unicidad'
  <2>1. /\ UNCHANGED <<consola, motivo, cola_new, cola_ready, cola_recurso, hilo_recurso, a_fs, de_fs>>
        /\ UNCHANGED <<a_cpu, cpu, de_cpu, hilo_cpu>>
        /\ hilo_ready.pc # "envia" /\ hilo_ready'.pc # "envia"
    BY <1>1 DEF ReadyDespierta, ReadyVacia, Hilo, EnEspera
  <2>2. Despachado = {} /\ Despachado' = {}
    BY <2>1 DEF Despachado, Hilo
  <2>3. EnEjecucion' = EnEjecucion
    BY <2>1, <2>2 DEF EnEjecucion, HaciaLaCpu, EnLaCpu, DeLaCpu, Atendido, EnLlamada
  <2> QED
    BY <1>b, <2>1, <2>3, UnicidadQuieta
<1>2. CASE ReadyQuita
  <2>1. PICK i \in DOMAIN cola_ready :
           cola_ready' = RemoveAt(cola_ready, i) /\ hilo_ready' = Hilo("envia", cola_ready[i])
    BY <1>2 DEF ReadyQuita
  <2> DEFINE q == cola_ready[i]
  <2>2. q \in EnReady /\ q \in Procesos /\ EnReady' = EnReady \ {q} /\ IsInjective(cola_ready')
    BY <2>1, SacarUno DEF EnReady, TipoOK, TipoColas, Unicidad, ColasSinRepetir
  <2>3. sem_habilitar_exec = 1
    BY <1>2, FichaExclusiva DEF ReadyQuita, Ficha
  <2>4. EnEjecucion = {} /\ EnEjecucion' = {q}
    BY <1>a, <2>1, <2>3 DEF Situada, EnDespacho, Hilo
  <2> HIDE DEF q
  <2>5. PlazaUnica'
    BY <1>b, <2>2, <2>4 DEF Unicidad, PlazaUnica, Uno
  <2>6. ColasSinRepetir'
    BY <1>2, <2>2 DEF ReadyQuita, Unicidad, ColasSinRepetir
  <2> QED
    BY <1>b, <2>5, <2>6 DEF Unicidad
<1>3. CASE ReadyEnvia
  <2> DEFINE m == [op |-> "EJECUTAR", pid |-> hilo_ready.pcb]
  <2>1. a_cpu \in Seq(AlCpu) /\ a_cpu' = Append(a_cpu, m) /\ m.op \in Sigue /\ m.pid = hilo_ready.pcb
    BY <1>3 DEF ReadyEnvia, Sigue, TipoOK, TipoSockets
  <2>2. Len(a_cpu) + 1 \in DOMAIN a_cpu' /\ a_cpu'[Len(a_cpu) + 1] = m
    BY <2>1
  <2>3. EnEjecucion' = EnEjecucion
    BY <1>3, <1>a, <2>1, <2>2 DEF Situada, EnDespacho, ReadyEnvia
  <2> QED
    BY <1>3, <1>b, <2>3, UnicidadQuieta DEF ReadyEnvia
<1> QED
  BY <1>1, <1>2, <1>3 DEF HiloReady

\* The file system and its thread: request, answer, thread, READY.
LEMMA UnicidadFs ==
    ASSUME TipoOK, TipoOK', Unicidad, HiloFs \/ FileSystemTermina
    PROVE  Unicidad'
<1> USE DEF hilos, recursos, canales, ready, procesos, new, kernel
<1>a. Portadores /\ Portadores'
  BY PortadoresDe, PortadoresPrima DEF TipoOK
<1>b. /\ EnRecurso' = EnRecurso /\ Despertado' = Despertado /\ Dormido' = Dormido
      /\ EnNew' = EnNew /\ Admitido' = Admitido /\ Vivos' = Vivos /\ EnEjecucion' = EnEjecucion
      /\ (Unicidad => RecursosSinRepetir' /\ SinEmpezar')
  BY Quietos, EjecucionQuieta DEF Unicidad, HiloFs, FsDesbloqueado, FsEncola, FsAvisa, FileSystemTermina
<1>c. a_fs \in Seq(Procesos) /\ de_fs \in Seq(Procesos)
  BY DEF TipoOK, TipoSockets
<1>1. CASE FileSystemTermina
  <2> DEFINE q == Head(a_fs)
  <2>1. a_fs # <<>> /\ a_fs' = Tail(a_fs) /\ de_fs' = Append(de_fs, q)
        /\ UNCHANGED <<cola_new, cola_ready, hilo_fs>>
    BY <1>1 DEF FileSystemTermina
  <2>2. q \in EnFs /\ q \in Procesos /\ EnFs' = EnFs \ {q} /\ IsInjective(a_fs')
    BY <1>c, <2>1, SacarPrimero DEF EnFs, Unicidad, ColasSinRepetir
  <2>3. q \notin DeFs
    BY <2>2 DEF Unicidad, PlazaUnica, Uno
  <2>4. DeFs' = DeFs \cup {q} /\ IsInjective(de_fs')
    BY <1>c, <2>1, <2>2, <2>3, Anexar DEF DeFs, Unicidad, ColasSinRepetir
  <2>5. EnReady' = EnReady /\ Desbloqueado' = Desbloqueado
    BY <2>1, Quietos
  <2>6. ColasSinRepetir'
    BY <2>1, <2>2, <2>4 DEF Unicidad, ColasSinRepetir
  <2> HIDE DEF q
  <2>7. PlazaUnica'
    BY <1>b, <2>2, <2>3, <2>4, <2>5 DEF Unicidad, PlazaUnica, Uno
  <2> QED
    BY <1>b, <2>6, <2>7 DEF Unicidad
<1>2. CASE FsDesbloqueado
  <2> DEFINE q == Head(de_fs)
  <2>1. /\ de_fs # <<>> /\ de_fs' = Tail(de_fs) /\ hilo_fs.pc # "encola"
        /\ hilo_fs'.pc = "encola" /\ hilo_fs'.pcb = q /\ UNCHANGED <<cola_new, cola_ready, a_fs>>
    BY <1>2 DEF FsDesbloqueado, Hilo
  <2>2. q \in DeFs /\ q \in Procesos /\ DeFs' = DeFs \ {q} /\ IsInjective(de_fs')
    BY <1>c, <2>1, SacarPrimero DEF DeFs, Unicidad, ColasSinRepetir
  <2>3. Desbloqueado = {} /\ Desbloqueado' = {q}
    BY <1>a, <2>1 DEF Portadores
  <2>4. EnReady' = EnReady /\ EnFs' = EnFs
    BY <2>1, Quietos
  <2>5. ColasSinRepetir'
    BY <2>1, <2>2 DEF Unicidad, ColasSinRepetir
  <2> HIDE DEF q
  <2>6. PlazaUnica'
    BY <1>b, <2>2, <2>3, <2>4 DEF Unicidad, PlazaUnica, Uno
  <2> QED
    BY <1>b, <2>5, <2>6 DEF Unicidad
<1>3. CASE FsEncola
  <2> DEFINE q == hilo_fs.pcb
  <2>1. /\ hilo_fs.pc = "encola" /\ hilo_fs'.pc # "encola" /\ q \in Procesos /\ EncolarReady(q)
        /\ UNCHANGED <<cola_new, a_fs, de_fs>>
    BY <1>3, PcbDeHilo DEF FsEncola, Hilo, TipoOK
  <2>2. Desbloqueado = {q} /\ Desbloqueado' = {} /\ EnFs' = EnFs /\ DeFs' = DeFs
    BY <1>a, <2>1, Quietos DEF Portadores
  <2> HIDE DEF q
  <2>3. q \notin EnReady
    BY <2>1, <2>2 DEF Unicidad, PlazaUnica, Uno
  <2>4. EnReady' = EnReady \cup {q} /\ IsInjective(cola_ready')
    BY <2>1, <2>3, EntrarReady DEF Unicidad
  <2>5. PlazaUnica'
    BY <1>b, <2>1, <2>2, <2>4 DEF Unicidad, PlazaUnica, Uno
  <2>6. ColasSinRepetir'
    BY <2>1, <2>4 DEF Unicidad, ColasSinRepetir
  <2> QED
    BY <1>b, <2>5, <2>6 DEF Unicidad
<1>4. CASE FsAvisa
  <2>1. /\ hilo_fs.pc # "encola" /\ hilo_fs'.pc # "encola"
        /\ UNCHANGED <<consola, motivo, cola_new, cola_ready, cola_recurso, hilo_recurso, a_fs, de_fs>>
    BY <1>4 DEF FsAvisa, PublicarReady, Hilo, EnEspera
  <2>2. Desbloqueado' = Desbloqueado
    BY <1>a, <2>1 DEF Portadores
  <2> QED
    BY <1>b, <2>1, <2>2, UnicidadQuieta
<1> QED
  BY <1>1, <1>2, <1>3, <1>4 DEF HiloFs

\* The I/O threads: from asleep to READY.
LEMMA UnicidadIO ==
    ASSUME TipoOK, Unicidad, HiloIO
    PROVE  Unicidad'
<1> USE DEF hilos, otrosHilos, recursos, canales, ready, procesos, new
<1>b. /\ EnRecurso' = EnRecurso /\ Despertado' = Despertado /\ EnFs' = EnFs /\ DeFs' = DeFs
      /\ Desbloqueado' = Desbloqueado /\ EnNew' = EnNew /\ Admitido' = Admitido /\ Vivos' = Vivos
      /\ EnEjecucion' = EnEjecucion /\ (Unicidad => RecursosSinRepetir' /\ SinEmpezar')
  BY Quietos, EjecucionQuieta DEF Unicidad, HiloIO, IOEncola, IOAvisa
<1>1. CASE IOAvisa
  <2>1. Dormido' = Dormido
    BY <1>1 DEF IOAvisa, Dormido, TipoOK, TipoHilos
  <2> QED
    BY <1>1, <1>b, <2>1, UnicidadQuieta DEF IOAvisa, PublicarReady
<1>2. ASSUME NEW q \in Procesos, IOEncola(q) PROVE Unicidad'
  <2>1. /\ q \in Dormido /\ Dormido' = Dormido \ {q} /\ EncolarReady(q)
        /\ UNCHANGED <<cola_new, a_fs, de_fs>>
    BY <1>2 DEF IOEncola, Dormido
  <2>2. q \notin EnReady
    BY <2>1 DEF Unicidad, PlazaUnica, Uno
  <2>3. EnReady' = EnReady \cup {q} /\ IsInjective(cola_ready')
    BY <2>1, <2>2, EntrarReady DEF Unicidad
  <2>4. PlazaUnica'
    BY <1>b, <2>1, <2>2, <2>3 DEF Unicidad, PlazaUnica, Uno
  <2>5. ColasSinRepetir'
    BY <2>1, <2>3 DEF Unicidad, ColasSinRepetir
  <2> QED
    BY <1>b, <2>4, <2>5 DEF Unicidad
<1> QED
  BY <1>1, <1>2 DEF HiloIO

\* The threads of the resources: from the queue to the thread, from the thread
\* to READY. A waker that finds its queue empty moves nobody.
LEMMA UnicidadRecurso ==
    ASSUME TipoOK, TipoOK', Unicidad, NEW r \in Recursos, HiloRecurso(r)
    PROVE  Unicidad'
<1> USE DEF hilos, canales, ready, procesos, new
<1>a. Portadores /\ Portadores'
  BY PortadoresDe, PortadoresPrima DEF TipoOK
<1>b. /\ Dormido' = Dormido /\ EnFs' = EnFs /\ DeFs' = DeFs
      /\ Desbloqueado' = Desbloqueado /\ EnNew' = EnNew /\ Admitido' = Admitido /\ Vivos' = Vivos
      /\ EnEjecucion' = EnEjecucion /\ (Unicidad => SinEmpezar')
  BY Quietos, EjecucionQuieta DEF Unicidad, HiloRecurso, RecursoDespierta, RecursoEncola, RecursoAvisa
<1>c. /\ hilo_recurso \in [Recursos -> UnHilo({"espera", "avisa"}, {"encola"})]
      /\ cola_recurso \in [Recursos -> Seq(Procesos)]
  BY DEF TipoOK, TipoHilos, TipoRecursos
<1>1. CASE RecursoDespierta(r) /\ cola_recurso[r] # <<>>
  <2> DEFINE q == Head(cola_recurso[r])
  <2>1. /\ hilo_recurso[r].pc # "encola" /\ hilo_recurso' = [hilo_recurso EXCEPT ![r] = Hilo("encola", q)]
        /\ cola_recurso' = [cola_recurso EXCEPT ![r] = Tail(cola_recurso[r])]
        /\ UNCHANGED <<cola_new, cola_ready, a_fs, de_fs>>
    BY <1>1 DEF RecursoDespierta, RecursoPasa
  <2>2. /\ q \in ToSet(cola_recurso[r]) /\ q \in Procesos
        /\ ToSet(Tail(cola_recurso[r])) = ToSet(cola_recurso[r]) \ {q}
        /\ IsInjective(Tail(cola_recurso[r]))
    BY <1>1, <1>c, SacarPrimero DEF Unicidad, RecursosSinRepetir
  <2>3. /\ cola_recurso'[r] = Tail(cola_recurso[r])
        /\ \A s \in Recursos : s # r => cola_recurso'[s] = cola_recurso[s]
    BY <1>c, <2>1
  <2>4. /\ hilo_recurso'[r] = Hilo("encola", q)
        /\ \A s \in Recursos : s # r => hilo_recurso'[s] = hilo_recurso[s]
    BY <1>c, <2>1
  <2>h. \A p \in Procesos : (Hilo("encola", q) = Hilo("encola", p) <=> p = q) /\ hilo_recurso[r] # Hilo("encola", p)
    BY <2>1 DEF Hilo
  <2> HIDE DEF q
  <2>5. \A s \in Recursos : s # r => q \notin ToSet(cola_recurso[s])
    BY <2>2 DEF Unicidad, RecursosSinRepetir
  <2>6. q \in EnRecurso /\ EnRecurso' = EnRecurso \ {q}
    BY <2>2, <2>3, <2>5 DEF EnRecurso
  <2>7. q \notin Despertado
    BY <2>2, <2>6 DEF Unicidad, PlazaUnica, Uno
  <2>8. Despertado' = Despertado \cup {q}
    BY <2>2, <2>4, <2>h DEF Despertado
  <2>9. EnReady' = EnReady
    BY <2>1, Quietos
  <2>10. PlazaUnica'
    BY <1>b, <2>2, <2>6, <2>7, <2>8, <2>9 DEF Unicidad, PlazaUnica, Uno
  <2>11. ColasSinRepetir'
    BY <2>1 DEF Unicidad, ColasSinRepetir
  <2>12. RecursosSinRepetir'
    <3>1. \A s \in Recursos : IsInjective(cola_recurso'[s])
      BY <2>2, <2>3 DEF Unicidad, RecursosSinRepetir
    <3>2. \A s \in Recursos : ToSet(cola_recurso'[s]) \subseteq ToSet(cola_recurso[s])
      BY <2>2, <2>3
    <3>3. \A s, t \in Recursos : ToSet(cola_recurso'[s]) \cap ToSet(cola_recurso'[t]) # {} => s = t
      BY <3>2 DEF Unicidad, RecursosSinRepetir
    <3>4. ASSUME NEW p \in Procesos, NEW s \in Recursos, NEW t \in Recursos,
                 hilo_recurso'[s] = Hilo("encola", p), hilo_recurso'[t] = Hilo("encola", p)
          PROVE  s = t
      <4>1. CASE p = q
        BY <2>4, <2>7, <3>4, <4>1 DEF Despertado
      <4>2. CASE p # q
        BY <2>4, <2>h, <3>4, <4>2 DEF Unicidad, RecursosSinRepetir
      <4> QED
        BY <4>1, <4>2
    <3> QED
      BY <3>1, <3>3, <3>4 DEF RecursosSinRepetir
  <2> QED
    BY <1>b, <2>10, <2>11, <2>12 DEF Unicidad
<1>2. CASE RecursoDespierta(r) /\ cola_recurso[r] = <<>>
  BY <1>2, <1>b, UnicidadQuieta DEF RecursoDespierta
<1>3. CASE RecursoEncola(r)
  <2> DEFINE q == hilo_recurso[r].pcb
  <2>1. /\ hilo_recurso[r].pc = "encola" /\ q \in Procesos /\ EncolarReady(q)
        /\ hilo_recurso' = [hilo_recurso EXCEPT ![r] = Hilo("avisa", Nadie)]
        /\ UNCHANGED <<cola_new, a_fs, de_fs, cola_recurso>>
    BY <1>3, PcbDeHilo DEF RecursoEncola, RecursoPasa, TipoOK, recursos
  <2>2. /\ hilo_recurso'[r] = Hilo("avisa", Nadie)
        /\ \A s \in Recursos : s # r => hilo_recurso'[s] = hilo_recurso[s]
    BY <1>c, <2>1
  <2>3. \A p \in Procesos : (hilo_recurso[r] = Hilo("encola", p) <=> p = q) /\ Hilo("avisa", Nadie) # Hilo("encola", p)
    BY <1>a, <2>1 DEF Portadores, Hilo
  <2> HIDE DEF q
  <2>4. q \in Despertado
    BY <2>1, <2>3 DEF Despertado
  <2>5. Despertado' = Despertado \ {q}
    <3>1. ASSUME NEW p \in Procesos PROVE p \in Despertado' <=> p \in Despertado /\ p # q
      <4>1. p \in Despertado' => p \in Despertado /\ p # q
        BY <2>1, <2>2, <2>3 DEF Despertado, Unicidad, RecursosSinRepetir
      <4>2. p \in Despertado /\ p # q => p \in Despertado'
        BY <2>2, <2>3 DEF Despertado
      <4> QED
        BY <4>1, <4>2
    <3> QED
      BY <3>1 DEF Despertado
  <2>6. q \notin EnReady
    BY <2>1, <2>4 DEF Unicidad, PlazaUnica, Uno
  <2>7. EnReady' = EnReady \cup {q} /\ IsInjective(cola_ready')
    BY <2>1, <2>6, EntrarReady DEF Unicidad
  <2>8. EnRecurso' = EnRecurso
    BY <2>1, Quietos
  <2>9. PlazaUnica'
    BY <1>b, <2>1, <2>4, <2>5, <2>6, <2>7, <2>8 DEF Unicidad, PlazaUnica, Uno
  <2>10. ColasSinRepetir'
    BY <2>1, <2>7 DEF Unicidad, ColasSinRepetir
  <2>11. RecursosSinRepetir'
    BY <2>1, <2>2, <2>3 DEF Unicidad, RecursosSinRepetir
  <2> QED
    BY <1>b, <2>9, <2>10, <2>11 DEF Unicidad
<1>4. CASE RecursoAvisa(r)
  <2>1. /\ hilo_recurso[r].pc # "encola" /\ hilo_recurso' = [hilo_recurso EXCEPT ![r] = EnEspera]
        /\ UNCHANGED <<cola_new, cola_ready, a_fs, de_fs, cola_recurso>>
    BY <1>4 DEF RecursoAvisa, RecursoPasa, PublicarReady, recursos
  <2>2. \A s \in Recursos : \A p \in Procesos :
           hilo_recurso'[s] = Hilo("encola", p) <=> hilo_recurso[s] = Hilo("encola", p)
    BY <1>c, <2>1 DEF EnEspera, Hilo
  <2>3. Despertado' = Despertado /\ EnReady' = EnReady /\ EnRecurso' = EnRecurso
    BY <2>1, <2>2, Quietos DEF Despertado
  <2>4. RecursosSinRepetir'
    BY <2>1, <2>2 DEF Unicidad, RecursosSinRepetir
  <2>5. PlazaUnica' /\ ColasSinRepetir'
    BY <1>b, <2>1, <2>3 DEF Unicidad, PlazaUnica, ColasSinRepetir
  <2> QED
    BY <1>b, <2>4, <2>5 DEF Unicidad
<1> QED
  BY <1>1, <1>2, <1>3, <1>4 DEF HiloRecurso

\* Within the CPU and its two sockets a process stays one that executes.
LEMMA UnicidadCpu ==
    ASSUME TipoOK, TipoOK', Ficha, Ficha', Unicidad, Cpu
    PROVE  Unicidad'
<1> USE DEF hilos, recursos, ready, procesos, new, kernel
<1>a. Situada /\ Situada'
  BY EjecucionDe, EjecucionDePrima
<1>b. /\ UNCHANGED <<consola, motivo, cola_new, cola_ready, cola_recurso, hilo_recurso, a_fs, de_fs>>
      /\ UNCHANGED <<hilo_new, hilo_fs, hilo_io, hilo_ready, hilo_cpu>>
  BY DEF Cpu, CpuRecibe, CpuLocal, CpuSegFault, CpuDevuelve, CpuLlama, CpuRespuesta,
         CpuInesperado, Ejecuta, canales
<1>c. /\ a_cpu \in Seq(AlCpu) /\ de_cpu \in Seq(DelCpu) /\ cpu \in UnaCpu
  BY DEF TipoOK, TipoSockets
<1>d. a_cpu # <<>> => 1 \in DOMAIN a_cpu /\ Head(a_cpu) = a_cpu[1]
  BY <1>c
<1> SUFFICES EnEjecucion' = EnEjecucion
  BY <1>b, Quietos, UnicidadQuieta
<1>1. CASE CpuRecibe
  <2>1. /\ Head(a_cpu).op \in Sigue /\ a_cpu # <<>>
        /\ cpu'.estado = "ejecuta" /\ cpu'.pcb = Head(a_cpu).pid
    BY <1>1 DEF CpuRecibe, Sigue
  <2> QED
    BY <1>a, <1>d, <2>1 DEF Situada, EnCpu
<1>3. CASE CpuLocal
  <2>1. cpu.estado = "ejecuta" /\ cpu' = cpu
    BY <1>3 DEF CpuLocal, Ejecuta
  <2> QED
    BY <1>a, <2>1 DEF Situada, EnCpu
\* The process leaves with a message.
<1>4. ASSUME cpu.estado = "ejecuta", NEW op, de_cpu' = Append(de_cpu, Mensaje(op, cpu.pcb))
      PROVE  EnEjecucion' = EnEjecucion
  <2>1. EnCpu /\ de_cpu = <<>>
    BY <1>4, FichaExclusiva DEF Ficha, EnCpu, DesdeCpu
  <2>2. de_cpu' = <<Mensaje(op, cpu.pcb)>>
    BY <1>4, <2>1
  <2>3. DesdeCpu' /\ Head(de_cpu') = Mensaje(op, cpu.pcb)
    BY <2>2 DEF DesdeCpu
  <2>4. Head(de_cpu').pid = cpu.pcb
    BY <2>3 DEF Mensaje
  <2> QED
    BY <1>a, <2>1, <2>3, <2>4 DEF Situada
<1>5. CASE CpuSegFault
  BY <1>4, <1>5 DEF CpuSegFault, Ejecuta
<1>6. CASE CpuDevuelve
  BY <1>4, <1>6 DEF CpuDevuelve, Ejecuta
<1>7. CASE CpuLlama
  BY <1>4, <1>7 DEF CpuLlama, Ejecuta
<1>8. CASE CpuRespuesta
  <2> DEFINE o == UltimaInstruccion(cpu.pcb).op
  <2>1. /\ cpu.estado = "espera" /\ a_cpu # <<>> /\ a_cpu' = Tail(a_cpu) /\ UNCHANGED de_cpu
        /\ Head(a_cpu).pid = cpu.pcb
        /\ Head(a_cpu).op \in {RespuestaSigue[o], RespuestaDetiene[o]}
    BY <1>8 DEF CpuRespuesta, Espera
  <2>2. o \in DOMAIN RespuestaSigue
    BY <2>1 DEF Ficha, EsperaRespuesta
  <2>3. RespuestaSigue[o] \in Sigue /\ RespuestaDetiene[o] \notin Sigue
    BY <2>2 DEF RespuestaSigue, RespuestaDetiene, Sigue
  <2>4. CASE Head(a_cpu).op = RespuestaSigue[o]
    <3>1. cpu'.estado = "ejecuta" /\ cpu'.pcb = cpu.pcb
      BY <1>8, <1>c, <2>4 DEF CpuRespuesta, CpuPasa, UnaCpu
    <3>2. Head(a_cpu).op \in Sigue
      BY <2>3, <2>4
    <3> QED
      BY <1>a, <1>d, <2>1, <3>1, <3>2 DEF Situada, EnCpu
  <2>5. CASE Head(a_cpu).op # RespuestaSigue[o]
    <3>1. Head(a_cpu).op \notin Sigue
      BY <2>1, <2>3, <2>5
    <3>2. \A i \in DOMAIN a_cpu' : i + 1 \in DOMAIN a_cpu /\ a_cpu'[i] = a_cpu[i + 1]
      BY <1>c, <2>1
    <3>3. \A i \in DOMAIN a_cpu : i # 1 => i - 1 \in DOMAIN a_cpu' /\ a_cpu'[i - 1] = a_cpu[i]
      BY <1>c, <2>1
    <3>4. HaciaLaCpu' = HaciaLaCpu
      <4>1. HaciaLaCpu' \subseteq HaciaLaCpu
        BY <3>2 DEF HaciaLaCpu
      <4>2. HaciaLaCpu \subseteq HaciaLaCpu'
        BY <1>d, <2>1, <3>1, <3>3 DEF HaciaLaCpu
      <4> QED
        BY <4>1, <4>2
    <3>5. EnLaCpu = {} /\ EnLaCpu' = {}
      BY <1>8, <2>1, <2>5 DEF CpuRespuesta, CpuLibre, EnLaCpu
    <3> QED
      BY <1>b, <2>1, <3>4, <3>5 DEF EnEjecucion, Despachado, DeLaCpu, Atendido, EnLlamada
  <2> QED
    BY <2>4, <2>5
<1>9. CASE CpuInesperado
  <2>1. cpu.estado # "ejecuta" /\ cpu'.estado = "desincronizada" /\ UNCHANGED <<a_cpu, de_cpu>>
    BY <1>9, <1>c DEF CpuInesperado, CpuPasa, UnaCpu, canales
  <2>2. EnLaCpu = {} /\ EnLaCpu' = {}
    BY <2>1 DEF EnLaCpu
  <2> QED
    BY <1>b, <2>1, <2>2 DEF EnEjecucion, Despachado, HaciaLaCpu, DeLaCpu, Atendido, EnLlamada
<1> QED
  BY <1>1, <1>3, <1>5, <1>6, <1>7, <1>8, <1>9 DEF Cpu

-----------------------------------------------------------------------------
(* atender_cpu: out of execution, and into the place the handler chooses. *)

\* A reply that lets its process go on puts it on its way to the CPU.
LEMMA EjecucionResponde ==
    ASSUME TipoOK, Situada', NEW op \in Sigue, NEW q \in Procesos, Responde(op, q)
    PROVE  EnEjecucion' = {q}
<1>1. a_cpu \in Seq(AlCpu) /\ a_cpu' = Append(a_cpu, Mensaje(op, q))
  BY DEF TipoOK, TipoSockets, Responde
<1>2. Len(a_cpu) + 1 \in DOMAIN a_cpu' /\ a_cpu'[Len(a_cpu) + 1] = Mensaje(op, q)
  BY <1>1
<1>3. a_cpu'[Len(a_cpu) + 1].op = op /\ a_cpu'[Len(a_cpu) + 1].pid = q
  BY <1>2 DEF Mensaje
<1> QED
  BY <1>2, <1>3 DEF Situada

LEMMA UnicidadSyscall ==
    ASSUME TipoOK, TipoOK', Ficha, Ficha', Unicidad, RecursosConfigurados,
           NEW q \in Procesos, AtenderSyscall(q)
    PROVE  Unicidad'
<1> USE DEF hilos, otrosHilos, recursos, ready, procesos, new
<1>a. Situada /\ Situada'
  BY EjecucionDe, EjecucionDePrima
<1>b. /\ UNCHANGED <<consola, cola_new, hilo_recurso, a_fs, de_fs, hilo_new, hilo_fs, programa, pc, cpu>>
      /\ EnNew' = EnNew /\ Admitido' = Admitido /\ Despertado' = Despertado
      /\ EnFs' = EnFs /\ DeFs' = DeFs /\ Desbloqueado' = Desbloqueado
  BY Quietos
     DEF AtenderSyscall, AtenderDesalojado, AtenderIO, AtenderArchivo, AtenderWait, AtenderSignal,
         AtenderWaitInexistente, AtenderSignalInexistente, AtenderCrearSegmento,
         AtenderEliminarSegmento, AtenderFinalizar
<1>c. ASSUME NEW op, Recibe(op, q)
      PROVE  EnEjecucion = {q} /\ q \in Vivos /\ sem_habilitar_exec = 0 /\ hilo_cpu.pc = "espera"
  <2>1. DesdeCpu /\ Head(de_cpu).pid = q
    BY <1>c DEF Recibe, DesdeCpu, Mensaje
  <2>2. EnEjecucion = {q}
    BY <1>a, <2>1 DEF Situada
  <2>3. q \in Vivos
    BY <2>2 DEF Unicidad, PlazaUnica, Uno
  <2> QED
    BY <1>b, <1>c, <2>2, <2>3, RecibirFicha DEF Recibe
\* A handler that moves nobody: the process goes on, or its handler does.
<1>d. ASSUME EnEjecucion' = EnEjecucion, UNCHANGED <<motivo, cola_ready, cola_recurso, hilo_io>>
      PROVE  Unicidad'
  BY <1>b, <1>d, Quietos, UnicidadQuieta
<1>e. ASSUME NEW e \in DOMAIN Sirve, CpuSigueEn(e, q) PROVE EnEjecucion' = {q}
  <2>1. hilo_cpu'.pc = e /\ hilo_cpu'.pcb = q
    BY <1>e DEF CpuSigueEn, Hilo
  <2>2. EnManejo' /\ EnLlamada'
    BY <2>1 DEF EnManejo, EnLlamada, Sirve, ConFicha
  <2> QED
    BY <1>a, <2>1, <2>2 DEF Situada
<1>1. ASSUME AtenderArchivo(q) \/ AtenderCrearSegmento(q) \/ AtenderEliminarSegmento(q)
      PROVE  Unicidad'
  <2>1. PICK e \in DOMAIN Sirve : CpuSigueEn(e, q)
    BY <1>1 DEF AtenderArchivo, AtenderCrearSegmento, AtenderEliminarSegmento, Sirve
  <2>2. PICK op : Recibe(op, q)
    BY <1>1 DEF AtenderArchivo, AtenderCrearSegmento, AtenderEliminarSegmento
  <2>3. UNCHANGED <<motivo, cola_ready, cola_recurso, hilo_io>>
    BY <1>1 DEF AtenderArchivo, AtenderCrearSegmento, AtenderEliminarSegmento
  <2> QED
    BY <1>c, <1>d, <1>e, <2>1, <2>2, <2>3
<1>2. ASSUME NEW r \in Recursos, AtenderSignal(q, r) PROVE Unicidad'
  <2>1. EnEjecucion' = {q}
    BY <1>2, <1>a, EjecucionResponde DEF AtenderSignal, Sigue
  <2> QED
    BY <1>2, <1>c, <1>d, <2>1 DEF AtenderSignal
<1>3. CASE AtenderDesalojado(q)
  <2>1. Recibe("DESALOJADO", q) /\ EncolarReady(q) /\ hilo_cpu'.pc = "avisa"
        /\ UNCHANGED <<motivo, cola_recurso, hilo_io>>
    BY <1>3 DEF AtenderDesalojado, CpuSigueEn, Hilo
  <2>2. EnEjecucion' = {}
    BY <1>a, <2>1 DEF Situada, EnManejo, EnLlamada, Sirve, ConFicha
  <2>3. q \notin EnReady
    BY <1>c, <2>1 DEF Unicidad, PlazaUnica, Uno
  <2>4. EnReady' = EnReady \cup {q} /\ IsInjective(cola_ready')
    BY <2>1, <2>3, EntrarReady DEF Unicidad
  <2>5. EnRecurso' = EnRecurso /\ Dormido' = Dormido /\ Vivos' = Vivos
    BY <1>b, <2>1, Quietos
  <2>6. PlazaUnica'
    BY <1>b, <1>c, <2>1, <2>2, <2>3, <2>4, <2>5 DEF Unicidad, PlazaUnica, Uno
  <2> QED
    BY <1>b, <2>1, <2>4, <2>6, Quietos DEF Unicidad, ColasSinRepetir
<1>4. CASE AtenderIO(q)
  <2>1. Recibe("EJECUTAR_IO", q) /\ sem_habilitar_exec' = sem_habilitar_exec + 1
        /\ UNCHANGED <<motivo, cola_ready, cola_recurso>>
    BY <1>4 DEF AtenderIO
  <2>2. EnEjecucion' = {}
    BY <1>a, <1>c, <2>1 DEF Situada
  <2>3. Dormido' = Dormido \cup {q}
    BY <1>4 DEF AtenderIO, Dormido, TipoOK, TipoHilos
  <2>4. q \notin Dormido
    BY <1>c, <2>1 DEF Unicidad, PlazaUnica, Uno
  <2>5. EnReady' = EnReady /\ EnRecurso' = EnRecurso /\ Vivos' = Vivos
    BY <1>b, <2>1, Quietos
  <2>6. PlazaUnica'
    BY <1>b, <1>c, <2>1, <2>2, <2>3, <2>4, <2>5 DEF Unicidad, PlazaUnica, Uno
  <2> QED
    BY <1>b, <2>1, <2>6, Quietos DEF Unicidad, ColasSinRepetir
<1>5. ASSUME NEW r \in Recursos, AtenderWait(q, r) PROVE Unicidad'
  <2>1. Recibe("EJECUTAR_WAIT", q) /\ UNCHANGED <<motivo, cola_ready, hilo_io>>
    BY <1>5 DEF AtenderWait
  <2>2. CASE instancias[r] - 1 < 0
    <3>1. /\ cola_recurso' = [cola_recurso EXCEPT ![r] = Append(cola_recurso[r], q)]
          /\ hilo_cpu'.pc = "habilita"
      BY <1>5, <2>2 DEF AtenderWait, CpuSigueEn, Hilo
    <3>2. EnEjecucion' = {}
      BY <1>a, <3>1 DEF Situada, EnManejo, EnLlamada, Sirve, ConFicha
    <3>3. q \notin EnRecurso
      BY <1>c, <2>1 DEF Unicidad, PlazaUnica, Uno
    <3>4. \A s \in Recursos : q \notin ToSet(cola_recurso[s])
      BY <3>3 DEF EnRecurso
    <3>5. /\ ToSet(Append(cola_recurso[r], q)) = ToSet(cola_recurso[r]) \cup {q}
          /\ IsInjective(Append(cola_recurso[r], q))
      BY <3>4, Anexar DEF TipoOK, TipoRecursos, Unicidad, RecursosSinRepetir
    <3>6. /\ cola_recurso'[r] = Append(cola_recurso[r], q)
          /\ \A s \in Recursos : s # r => cola_recurso'[s] = cola_recurso[s]
      BY <3>1 DEF TipoOK, TipoRecursos
    <3>7. EnRecurso' = EnRecurso \cup {q}
      BY <3>5, <3>6 DEF EnRecurso
    <3>8. RecursosSinRepetir'
      <4>1. \A s \in Recursos : IsInjective(cola_recurso'[s])
        BY <3>5, <3>6 DEF Unicidad, RecursosSinRepetir
      <4>2. \A s, t \in Recursos : ToSet(cola_recurso'[s]) \cap ToSet(cola_recurso'[t]) # {} => s = t
        <5> SUFFICES ASSUME NEW s \in Recursos, NEW t \in Recursos, s # t
                     PROVE  ToSet(cola_recurso'[s]) \cap ToSet(cola_recurso'[t]) = {}
          OBVIOUS
        <5>1. ToSet(cola_recurso[s]) \cap ToSet(cola_recurso[t]) = {}
          BY DEF Unicidad, RecursosSinRepetir
        <5>2. \A u \in Recursos : ToSet(cola_recurso'[u]) =
                 IF u = r THEN ToSet(cola_recurso[u]) \cup {q} ELSE ToSet(cola_recurso[u])
          BY <3>5, <3>6
        <5> QED
          BY <3>4, <5>1, <5>2
      <4> QED
        BY <1>b, <4>1, <4>2 DEF Unicidad, RecursosSinRepetir
    <3>9. EnReady' = EnReady /\ Dormido' = Dormido /\ Vivos' = Vivos
      BY <1>b, <2>1, Quietos
    <3>10. PlazaUnica'
      BY <1>b, <1>c, <2>1, <3>2, <3>3, <3>7, <3>9 DEF Unicidad, PlazaUnica, Uno
    <3> QED
      BY <1>b, <2>1, <3>8, <3>10, Quietos DEF Unicidad, ColasSinRepetir
  <2>3. CASE ~(instancias[r] - 1 < 0)
    <3>1. Responde("CONTINUAR", q) /\ UNCHANGED cola_recurso
      BY <1>5, <2>3 DEF AtenderWait
    <3>2. EnEjecucion' = {q}
      BY <1>a, <3>1, EjecucionResponde DEF Sigue
    <3> QED
      BY <1>c, <1>d, <2>1, <3>1, <3>2
  <2> QED
    BY <2>2, <2>3
\* The handlers that end the process.
<1>6. ASSUME NEW op, Recibe(op, q), EnEjecucion' = {}, NEW x, x # "ninguno",
             motivo' = [motivo EXCEPT ![q] = x], UNCHANGED <<cola_ready, cola_recurso, hilo_io>>
      PROVE  Unicidad'
  <2>1. motivo'[q] # "ninguno" /\ \A p \in Procesos \ {q} : motivo'[p] = motivo[p]
    BY <1>6 DEF TipoOK, TipoProcesos
  <2>2. Vivos' = Vivos \ {q}
    BY <1>b, <2>1 DEF Vivos
  <2>3. SinEmpezar'
    BY <1>b, <1>c, <1>6, <2>1 DEF Vivos, Unicidad, SinEmpezar
  <2>4. EnReady' = EnReady /\ EnRecurso' = EnRecurso /\ Dormido' = Dormido /\ RecursosSinRepetir'
    BY <1>b, <1>6, Quietos DEF Unicidad
  <2>5. PlazaUnica'
    BY <1>b, <1>c, <1>6, <2>2, <2>4 DEF Unicidad, PlazaUnica, Uno
  <2> QED
    BY <1>b, <1>6, <2>3, <2>4, <2>5 DEF Unicidad, ColasSinRepetir
<1>7. ASSUME NEW op, op \in {"FINALIZAR", "SEG_FAULT"}, AtenderFinalizar(op, q) PROVE Unicidad'
  <2>1. /\ Recibe(op, q) /\ sem_habilitar_exec' = sem_habilitar_exec + 1
        /\ UNCHANGED <<cola_ready, cola_recurso, hilo_io>>
    BY <1>7 DEF AtenderFinalizar
  <2>2. EnEjecucion' = {}
    BY <1>a, <1>c, <2>1 DEF Situada
  <2>3. motivo' = [motivo EXCEPT ![q] = IF op = "FINALIZAR" THEN "SUCCESS" ELSE op]
    BY <1>7 DEF AtenderFinalizar
  <2>4. (IF op = "FINALIZAR" THEN "SUCCESS" ELSE op) # "ninguno"
    BY <1>7
  <2> QED
    BY <1>6, <2>1, <2>2, <2>3, <2>4
<1>8. CASE AtenderSignalInexistente(q)
  <2>1. /\ Recibe("EJECUTAR_SIGNAL", q) /\ hilo_cpu'.pc = "habilita"
        /\ UNCHANGED <<cola_ready, cola_recurso, hilo_io>>
        /\ motivo' = [motivo EXCEPT ![q] = "SIN_RECURSOS"]
    BY <1>8 DEF AtenderSignalInexistente, CpuSigueEn, Hilo
  <2>2. EnEjecucion' = {}
    BY <1>a, <2>1 DEF Situada, EnManejo, EnLlamada, Sirve, ConFicha
  <2> QED
    BY <1>6, <2>1, <2>2
<1>9. ~AtenderWaitInexistente(q)
  BY <1>b, RecibirFicha DEF AtenderWaitInexistente
<1> QED
  BY <1>1, <1>2, <1>3, <1>4, <1>5, <1>7, <1>8, <1>9 DEF AtenderSyscall

\* The later steps of a handler.
LEMMA UnicidadHandler ==
    ASSUME TipoOK, TipoOK', Ficha, Ficha', Unicidad, ContinuarHandler
    PROVE  Unicidad'
<1> USE DEF hilos, otrosHilos, recursos, canales, ready, procesos, new
<1>a. Situada /\ Situada'
  BY EjecucionDe, EjecucionDePrima
<1>b. /\ UNCHANGED <<consola, cola_new, cola_ready, cola_recurso, hilo_recurso, hilo_io, de_fs>>
      /\ UNCHANGED <<hilo_new, hilo_fs, hilo_ready, cpu, de_cpu>>
  BY DEF ContinuarHandler, CpuAvisaReady, Habilitar, EnviarArchivo, LiberarGrado,
         EliminarProceso, CreacionExitosa, SinMemoria, HabilitarSinMemoria, LiberarSinMemoria,
         RealizarCompactacion, PedirCompactacion, FinCompactacion, PublicarReady
<1>c. /\ EnNew' = EnNew /\ Admitido' = Admitido /\ Despertado' = Despertado /\ DeFs' = DeFs
      /\ EnReady' = EnReady /\ EnRecurso' = EnRecurso /\ Dormido' = Dormido
      /\ Desbloqueado' = Desbloqueado
  BY <1>b, Quietos
<1>d. ASSUME EnEjecucion' = EnEjecucion, UNCHANGED <<motivo, a_fs>>
      PROVE  Unicidad'
  BY <1>b, <1>c, <1>d, UnicidadQuieta
\* A stage that serves a call holds the process that made it.
<1>e. ASSUME EnLlamada
      PROVE  /\ EnEjecucion = {hilo_cpu.pcb} /\ hilo_cpu.pcb \in Procesos
             /\ hilo_cpu.pcb \in Vivos /\ EnManejo
  <2>1. hilo_cpu.pcb \in Procesos
    BY <1>e, PcbDeHilo DEF EnLlamada, Sirve, CpuOcupados, TipoOK
  <2>2. EnManejo
    BY <1>e DEF EnLlamada, Sirve, EnManejo, ConFicha
  <2>3. EnEjecucion = {hilo_cpu.pcb}
    BY <1>a, <1>e, <2>2 DEF Situada
  <2> QED
    BY <2>1, <2>2, <2>3 DEF Unicidad, PlazaUnica, Uno
<1>1. ASSUME CpuAvisaReady \/ Habilitar \/ LiberarGrado \/ EliminarProceso \/ HabilitarSinMemoria
             \/ LiberarSinMemoria
      PROVE  Unicidad'
  <2>1. UNCHANGED <<motivo, a_cpu, a_fs>>
    BY <1>1 DEF CpuAvisaReady, Habilitar, LiberarGrado, EliminarProceso, HabilitarSinMemoria,
                LiberarSinMemoria
  <2>2. ~EnLlamada /\ ~EnLlamada'
    BY <1>1 DEF CpuAvisaReady, Habilitar, LiberarGrado, EliminarProceso, HabilitarSinMemoria,
                LiberarSinMemoria, CpuSigueEn, EnEspera, Hilo, EnLlamada, Sirve
  <2> QED
    BY <1>b, <1>d, <2>1, <2>2, EjecucionSinManejo
<1>2. ASSUME RealizarCompactacion \/ PedirCompactacion \/ FinCompactacion
      PROVE  Unicidad'
  <2>1. /\ EnLlamada /\ UNCHANGED <<motivo, a_fs>>
        /\ hilo_cpu'.pc \in {"espera_compactar", "compacta", "espera_tabla"}
        /\ hilo_cpu'.pcb = hilo_cpu.pcb
    BY <1>2 DEF RealizarCompactacion, PedirCompactacion, FinCompactacion, CpuSigueEn, Hilo,
                EnLlamada, Sirve
  <2>2. EnManejo' /\ EnLlamada'
    BY <2>1 DEF EnManejo, EnLlamada, Sirve, ConFicha
  <2> QED
    BY <1>a, <1>d, <1>e, <2>1, <2>2 DEF Situada
<1>3. CASE CreacionExitosa
  <2>1. EnLlamada /\ Responde("EJECUTAR", hilo_cpu.pcb) /\ UNCHANGED <<motivo, a_fs>>
    BY <1>3 DEF CreacionExitosa, EnLlamada, Sirve
  <2> QED
    BY <1>a, <1>d, <1>e, <2>1, EjecucionResponde DEF Sigue
<1>4. CASE EnviarArchivo
  <2> DEFINE q == hilo_cpu.pcb
  <2>1. EnLlamada /\ hilo_cpu'.pc = "habilita" /\ UNCHANGED motivo /\ a_fs' = Append(a_fs, q)
    BY <1>4 DEF EnviarArchivo, EnLlamada, Sirve, CpuSigueEn, Hilo
  <2>2. EnEjecucion' = {}
    BY <1>a, <2>1 DEF Situada, EnManejo, EnLlamada, Sirve, ConFicha
  <2>3. EnEjecucion = {q} /\ q \in Procesos
    BY <1>e, <2>1
  <2> HIDE DEF q
  <2>4. q \notin EnFs
    BY <2>3 DEF Unicidad, PlazaUnica, Uno
  <2>5. EnFs' = EnFs \cup {q} /\ IsInjective(a_fs')
    BY <2>1, <2>3, <2>4, Anexar DEF EnFs, TipoOK, TipoSockets, Unicidad, ColasSinRepetir
  <2>6. Vivos' = Vivos
    BY <1>b, <2>1, Quietos
  <2>7. PlazaUnica'
    BY <1>c, <2>2, <2>3, <2>4, <2>5, <2>6 DEF Unicidad, PlazaUnica, Uno
  <2> QED
    BY <1>b, <2>1, <2>5, <2>7, Quietos DEF Unicidad, ColasSinRepetir
<1>5. CASE SinMemoria
  <2> DEFINE q == hilo_cpu.pcb
  <2>1. /\ EnLlamada /\ hilo_cpu'.pc = "habilita_sin_memoria" /\ UNCHANGED a_fs
        /\ motivo' = [motivo EXCEPT ![q] = "OUT_OF_MEMORY"]
    BY <1>5 DEF SinMemoria, EnLlamada, Sirve, CpuSigueEn, Hilo
  <2>2. EnEjecucion' = {}
    BY <1>a, <2>1 DEF Situada, EnManejo, EnLlamada, Sirve, ConFicha
  <2>3. EnEjecucion = {q} /\ q \in Procesos /\ q \in Vivos
    BY <1>e, <2>1
  <2>4. motivo'[q] # "ninguno" /\ \A p \in Procesos \ {q} : motivo'[p] = motivo[p]
    BY <2>1, <2>3 DEF TipoOK, TipoProcesos
  <2> HIDE DEF q
  <2>5. Vivos' = Vivos \ {q} /\ SinEmpezar'
    BY <1>b, <2>3, <2>4 DEF Vivos, Unicidad, SinEmpezar
  <2>6. EnFs' = EnFs
    BY <2>1, Quietos
  <2>7. PlazaUnica'
    BY <1>c, <2>2, <2>3, <2>5, <2>6 DEF Unicidad, PlazaUnica, Uno
  <2> QED
    BY <1>b, <2>1, <2>5, <2>7, Quietos DEF Unicidad, ColasSinRepetir
<1> QED
  BY <1>1, <1>2, <1>3, <1>4, <1>5 DEF ContinuarHandler

LEMMA UnicidadInicial == ASSUME Init PROVE Unicidad
<1> USE DEF Init
<1>1. /\ EnNew = {} /\ EnReady = {} /\ EnFs = {} /\ DeFs = {} /\ EnRecurso = {}
  BY DEF EnNew, EnReady, EnFs, DeFs, EnRecurso, ToSet
<1>2. /\ Admitido = {} /\ Despertado = {} /\ Dormido = {} /\ Desbloqueado = {}
  BY DEF Admitido, Despertado, Dormido, Desbloqueado, EnEspera, Hilo
<1>3. EnEjecucion = {}
  BY DEF EnEjecucion, Despachado, HaciaLaCpu, EnLaCpu, DeLaCpu, Atendido, EnLlamada, Sirve,
         EnEspera, Hilo, CpuLibre
<1>4. Vivos = {} /\ SinEmpezar
  BY DEF Vivos, SinEmpezar
<1>5. PlazaUnica
  BY <1>1, <1>2, <1>3, <1>4 DEF PlazaUnica, Uno
<1>6. ColasSinRepetir /\ RecursosSinRepetir
  BY DEF ColasSinRepetir, RecursosSinRepetir, IsInjective, ToSet, EnEspera, Hilo
<1> QED
  BY <1>4, <1>5, <1>6 DEF Unicidad

LEMMA UnicidadPaso ==
    ASSUME TipoOK, TipoOK', Ficha, Ficha', Unicidad, [Next]_vars, RecursosConfigurados
    PROVE  Unicidad'
<1>1. CASE UNCHANGED vars
  <2>1. EnEjecucion' = EnEjecucion /\ Admitido' = Admitido /\ Desbloqueado' = Desbloqueado
        /\ Dormido' = Dormido
    BY <1>1, EjecucionQuieta, Quietos DEF vars
  <2> QED
    BY <1>1, <2>1, UnicidadQuieta DEF vars
<1> QED
  BY <1>1, UnicidadConsola, UnicidadNew, UnicidadReady, UnicidadFs, UnicidadIO, UnicidadRecurso,
     UnicidadCpu, UnicidadSyscall, UnicidadHandler
  DEF Next, HiloCpu

-----------------------------------------------------------------------------
(* From the places to the copies of a PCB. *)

\* The copies of p's PCB in queue s, and that set `copias` holds one copy if p is
\* in the place `lugar` and none if it is not.
Copias(t, s, p) == {<<t, i>> : i \in {j \in DOMAIN s : s[j] = p}}
UnaCopia(copias, p, lugar) == IF p \in lugar THEN \E e : copias = {e} ELSE copias = {}

LEMMA CopiasDeCola ==
    ASSUME NEW s, IsInjective(s), NEW p, NEW t
    PROVE  UnaCopia(Copias(t, s, p), p, ToSet(s))
<1>1. p \notin ToSet(s) => Copias(t, s, p) = {}
  BY DEF ToSet, Copias
<1>2. ASSUME p \in ToSet(s) PROVE \E e : Copias(t, s, p) = {e}
  <2>1. PICK k \in DOMAIN s : s[k] = p
    BY <1>2 DEF ToSet
  <2>2. {j \in DOMAIN s : s[j] = p} = {k}
    BY <2>1 DEF IsInjective
  <2>3. Copias(t, s, p) = {<<t, k>>}
    BY <2>2 DEF Copias
  <2> QED
    BY <2>3
<1> QED
  BY <1>1, <1>2 DEF UnaCopia

\* Two places that do not share p.
LEMMA Unir ==
    ASSUME NEW p, NEW x, NEW P, UnaCopia(x, p, P), NEW y, NEW Q, UnaCopia(y, p, Q),
           ~(p \in P /\ p \in Q)
    PROVE  UnaCopia(x \cup y, p, P \cup Q)
  BY DEF UnaCopia

LEMMA UnicidadImplica == ASSUME TipoOK, Unicidad PROVE PcbUnico
<1> SUFFICES ASSUME NEW p \in Procesos
             PROVE  Cardinality(Lugares(p)) = Uno(p \in Vivos)
  BY DEF PcbUnico, Vivos
<1> DEFINE nuevos == Copias("new", cola_new, p)
           listos == Copias("ready", cola_ready, p)
           de(r) == Copias(r, cola_recurso[r], p)
           recurso == UNION {de(r) : r \in Recursos}
           pedidos == Copias("fs", a_fs, p)
           respuestas == Copias("de_fs", de_fs, p)
           hilo == {<<"hilo", h>> : h \in {k \in {hilo_new, hilo_fs} : k = Hilo("encola", p)}}
           despierto == {<<"hilo_recurso", r>> : r \in {k \in Recursos : hilo_recurso[k] = Hilo("encola", p)}}
           io == {<<"io", q>> : q \in hilo_io.duermen \cap {p}}
           exec == {<<"exec", q>> : q \in {k \in {p} : Ejecutando(k)}}
<1>0. Lugares(p) = nuevos \cup listos \cup recurso \cup pedidos \cup respuestas \cup hilo
                   \cup despierto \cup io \cup exec
  BY DEF Lugares, Copias
<1>1. UnaCopia(nuevos, p, EnNew) /\ UnaCopia(listos, p, EnReady)
  BY CopiasDeCola DEF EnNew, EnReady, Unicidad, ColasSinRepetir
<1>2. UnaCopia(pedidos, p, EnFs) /\ UnaCopia(respuestas, p, DeFs)
  BY CopiasDeCola DEF EnFs, DeFs, Unicidad, ColasSinRepetir
<1>3. UnaCopia(recurso, p, EnRecurso)
  <2>1. \A r \in Recursos : UnaCopia(de(r), p, ToSet(cola_recurso[r]))
    BY CopiasDeCola DEF Unicidad, RecursosSinRepetir
  <2> HIDE DEF de
  <2>2. CASE p \in EnRecurso
    <3>1. PICK r \in Recursos : p \in ToSet(cola_recurso[r])
      BY <2>2 DEF EnRecurso
    <3>2. \A s \in Recursos : s # r => de(s) = {}
      BY <2>1, <3>1 DEF UnaCopia, Unicidad, RecursosSinRepetir
    <3>3. PICK e : de(r) = {e}
      BY <2>1, <3>1 DEF UnaCopia
    <3>4. recurso = {e}
      BY <3>2, <3>3
    <3> QED
      BY <2>2, <3>4 DEF UnaCopia
  <2>3. CASE p \notin EnRecurso
    <3>1. \A r \in Recursos : de(r) = {}
      BY <2>1, <2>3 DEF UnaCopia, EnRecurso
    <3>2. recurso = {}
      BY <3>1
    <3> QED
      BY <2>3, <3>2 DEF UnaCopia
  <2> QED
    BY <2>2, <2>3
<1>4. UnaCopia(hilo, p, Admitido \cup Desbloqueado)
  <2>1. {k \in {hilo_new, hilo_fs} : k = Hilo("encola", p)} =
           IF p \in Admitido \cup Desbloqueado THEN {Hilo("encola", p)} ELSE {}
    BY DEF Admitido, Desbloqueado
  <2>2. hilo = IF p \in Admitido \cup Desbloqueado THEN {<<"hilo", Hilo("encola", p)>>} ELSE {}
    BY <2>1
  <2> QED
    BY <2>2 DEF UnaCopia
<1>5. UnaCopia(despierto, p, Despertado)
  <2>1. CASE p \in Despertado
    <3>1. PICK r \in Recursos : hilo_recurso[r] = Hilo("encola", p)
      BY <2>1 DEF Despertado
    <3>2. {k \in Recursos : hilo_recurso[k] = Hilo("encola", p)} = {r}
      BY <3>1 DEF Unicidad, RecursosSinRepetir
    <3>3. despierto = {<<"hilo_recurso", r>>}
      BY <3>2
    <3> QED
      BY <2>1, <3>3 DEF UnaCopia
  <2>2. CASE p \notin Despertado
    <3>1. {k \in Recursos : hilo_recurso[k] = Hilo("encola", p)} = {}
      BY <2>2 DEF Despertado
    <3> QED
      BY <2>2, <3>1 DEF UnaCopia
  <2> QED
    BY <2>1, <2>2
<1>6. UnaCopia(io, p, Dormido)
  <2>1. hilo_io.duermen \cap {p} = IF p \in Dormido THEN {p} ELSE {}
    BY DEF Dormido
  <2>2. io = IF p \in Dormido THEN {<<"io", p>>} ELSE {}
    BY <2>1
  <2> QED
    BY <2>2 DEF UnaCopia
<1>7. UnaCopia(exec, p, EnEjecucion)
  <2>1. {k \in {p} : Ejecutando(k)} = IF p \in EnEjecucion THEN {p} ELSE {}
    BY EjecutandoEs
  <2>2. exec = IF p \in EnEjecucion THEN {<<"exec", p>>} ELSE {}
    BY <2>1
  <2> QED
    BY <2>2 DEF UnaCopia
<1> HIDE DEF nuevos, listos, recurso, pedidos, respuestas, hilo, despierto, io, exec
\* The nine sets of copies, joined one at a time.
<1> DEFINE P2 == EnNew \cup EnReady
           P3 == P2 \cup EnRecurso
           P4 == P3 \cup EnFs
           P5 == P4 \cup DeFs
           P6 == P5 \cup (Admitido \cup Desbloqueado)
           P7 == P6 \cup Despertado
           P8 == P7 \cup Dormido
           P9 == P8 \cup EnEjecucion
           x2 == nuevos \cup listos
           x3 == x2 \cup recurso
           x4 == x3 \cup pedidos
           x5 == x4 \cup respuestas
           x6 == x5 \cup hilo
           x7 == x6 \cup despierto
           x8 == x7 \cup io
<1>8. /\ ~(p \in EnNew /\ p \in EnReady) /\ ~(p \in P2 /\ p \in EnRecurso)
      /\ ~(p \in P3 /\ p \in EnFs) /\ ~(p \in P4 /\ p \in DeFs)
      /\ ~(p \in P5 /\ p \in Admitido \cup Desbloqueado) /\ ~(p \in P6 /\ p \in Despertado)
      /\ ~(p \in P7 /\ p \in Dormido) /\ ~(p \in P8 /\ p \in EnEjecucion)
      /\ p \in P9 <=> p \in Vivos
  <2>1. ~(p \in EnNew /\ p \in EnReady) /\ ~(p \in P2 /\ p \in EnRecurso)
    BY DEF Unicidad, PlazaUnica, Uno
  <2>2. ~(p \in P3 /\ p \in EnFs) /\ ~(p \in P4 /\ p \in DeFs)
    BY DEF Unicidad, PlazaUnica, Uno
  <2>3. ~(p \in P5 /\ p \in Admitido \cup Desbloqueado)
    BY DEF Unicidad, PlazaUnica, Uno
  <2>4. ~(p \in P6 /\ p \in Despertado)
    BY DEF Unicidad, PlazaUnica, Uno
  <2>5. ~(p \in P7 /\ p \in Dormido)
    BY DEF Unicidad, PlazaUnica, Uno
  <2>6. ~(p \in P8 /\ p \in EnEjecucion)
    BY DEF Unicidad, PlazaUnica, Uno
  <2>7. p \in P9 <=> p \in Vivos
    BY DEF Unicidad, PlazaUnica, Uno
  <2> QED
    BY <2>1, <2>2, <2>3, <2>4, <2>5, <2>6, <2>7
<1>9. Lugares(p) = x8 \cup exec
  BY <1>0
<1> HIDE DEF P2, P3, P4, P5, P6, P7, P8, P9, x2, x3, x4, x5, x6, x7, x8
<1>10. UnaCopia(x2, p, P2)
  BY <1>1, <1>8, Unir DEF x2, P2
<1>11. UnaCopia(x3, p, P3)
  BY <1>3, <1>8, <1>10, Unir DEF x3, P3
<1>12. UnaCopia(x4, p, P4)
  BY <1>2, <1>8, <1>11, Unir DEF x4, P4
<1>13. UnaCopia(x5, p, P5)
  BY <1>2, <1>8, <1>12, Unir DEF x5, P5
<1>14. UnaCopia(x6, p, P6)
  BY <1>4, <1>8, <1>13, Unir DEF x6, P6
<1>15. UnaCopia(x7, p, P7)
  BY <1>5, <1>8, <1>14, Unir DEF x7, P7
<1>16. UnaCopia(x8, p, P8)
  BY <1>6, <1>8, <1>15, Unir DEF x8, P8
<1>17. UnaCopia(Lugares(p), p, P9)
  BY <1>7, <1>8, <1>9, <1>16, Unir DEF P9
<1>18. IF p \in Vivos THEN \E e : Lugares(p) = {e} ELSE Lugares(p) = {}
  BY <1>8, <1>17 DEF UnaCopia
<1> QED
  BY <1>18, FS_EmptySet, FS_Singleton DEF Uno

\* No PCB is lost and none is handled twice, through the interleavings of every
\* thread that queues one, if every WAIT names a configured resource.
THEOREM PcbUnicoCorrecto ==
    ASSUME RecursosConfigurados
    PROVE  Spec => []PcbUnico
<1>1. Init => Ficha /\ Unicidad
  BY FichaInicial, UnicidadInicial
<1>2. TipoOK /\ TipoOK' /\ Ficha /\ [Next]_vars => Ficha'
  BY FichaPaso
<1>3. TipoOK /\ TipoOK' /\ Ficha /\ Ficha' /\ Unicidad /\ [Next]_vars => Unicidad'
  BY UnicidadPaso
<1>4. TipoOK /\ Unicidad => PcbUnico
  BY UnicidadImplica
<1> QED
  BY <1>1, <1>2, <1>3, <1>4, TipoCorrecto, PTL DEF Spec

-----------------------------------------------------------------------------
(* The kinds of places. *)

Nuevos     == EnNew \cup Admitido
Bloqueados == EnRecurso \cup Despertado \cup Dormido \cup EnFs \cup DeFs \cup Desbloqueado

\* The state of a process is the kind of place it is in.
Clasificados ==
    \A p \in Procesos :
        /\ EstadoDe(p) \in {"NONE", "NEW", "READY", "EXEC", "BLOCK", "EXIT"}
        /\ EstadoDe(p) = "NONE"  <=> consola[p] = "inicio"
        /\ EstadoDe(p) = "NEW"   <=> p \in Nuevos
        /\ EstadoDe(p) = "READY" <=> p \in EnReady
        /\ EstadoDe(p) = "EXEC"  <=> p \in EnEjecucion
        /\ EstadoDe(p) = "BLOCK" <=> p \in Bloqueados
        /\ EstadoDe(p) = "EXIT"  <=> motivo[p] # "ninguno"

\* Processes that were ended by a SIGNAL of an unknown resource: their slot is
\* not given back (kernel.c ejecutar_signal).
Fugados == {p \in Procesos : motivo[p] = "SIN_RECURSOS"}

Activos   == {p \in Procesos : EstadoDe(p) \in {"READY", "EXEC", "BLOCK"}}
Ocupantes == Activos \cup Fugados

\* The slots that no process holds: free, or changing hands.
Cupos ==
    sem_multiprogramacion + Uno(hilo_new.pc = "encola")
      + Uno(hilo_cpu.pc \in {"libera", "habilita_sin_memoria", "libera_sin_memoria"})

\* Every slot is held by a process that was admitted, or nobody holds it.
Slots ==
    /\ IsFiniteSet(Ocupantes)
    /\ Cardinality(Ocupantes) + Cupos = GradoMultiprogramacion

-----------------------------------------------------------------------------
(* From places to states. *)

LEMMA ClasificadosDe == Unicidad => Clasificados
<1> SUFFICES ASSUME Unicidad, NEW p \in Procesos
             PROVE  /\ EstadoDe(p) \in {"NONE", "NEW", "READY", "EXEC", "BLOCK", "EXIT"}
                    /\ EstadoDe(p) = "NONE"  <=> consola[p] = "inicio"
                    /\ EstadoDe(p) = "NEW"   <=> p \in Nuevos
                    /\ EstadoDe(p) = "READY" <=> p \in EnReady
                    /\ EstadoDe(p) = "EXEC"  <=> p \in EnEjecucion
                    /\ EstadoDe(p) = "BLOCK" <=> p \in Bloqueados
                    /\ EstadoDe(p) = "EXIT"  <=> motivo[p] # "ninguno"
  BY DEF Clasificados
<1>1. Nuevo(p) <=> p \in Nuevos
  BY EnCola DEF Nuevo, Nuevos, EnNew, Admitido
<1>2. Bloqueado(p) <=> p \in Bloqueados
  <2>1. (\E r \in Recursos : Esta(p, cola_recurso[r])) <=> p \in EnRecurso
    BY EnCola DEF EnRecurso
  <2>2. (\E r \in Recursos : hilo_recurso[r] = Hilo("encola", p)) <=> p \in Despertado
    BY DEF Despertado
  <2>3. /\ p \in hilo_io.duermen <=> p \in Dormido
        /\ hilo_fs = Hilo("encola", p) <=> p \in Desbloqueado
    BY DEF Dormido, Desbloqueado
  <2>4. (Esta(p, a_fs) <=> p \in EnFs) /\ (Esta(p, de_fs) <=> p \in DeFs)
    BY EnCola DEF EnFs, DeFs
  <2> QED
    BY <2>1, <2>2, <2>3, <2>4 DEF Bloqueado, Bloqueados
<1>3. Esta(p, cola_ready) <=> p \in EnReady
  BY EnCola DEF EnReady
<1>4. /\ Uno(p \in Nuevos) + Uno(p \in EnReady) + Uno(p \in Bloqueados) + Uno(p \in EnEjecucion)
           = Uno(p \in Vivos)
  <2>1. /\ Uno(p \in Nuevos) = Uno(p \in EnNew) + Uno(p \in Admitido)
        /\ Uno(p \in Bloqueados) = Uno(p \in EnRecurso) + Uno(p \in Despertado)
              + Uno(p \in Dormido) + Uno(p \in EnFs) + Uno(p \in DeFs) + Uno(p \in Desbloqueado)
    BY DEF Unicidad, PlazaUnica, Nuevos, Bloqueados, Uno
  <2> QED
    BY <2>1 DEF Unicidad, PlazaUnica, Uno
<1>5. p \in Vivos <=> consola[p] # "inicio" /\ motivo[p] = "ninguno"
  BY DEF Vivos
<1>6. consola[p] = "inicio" => motivo[p] = "ninguno"
  BY DEF Unicidad, SinEmpezar
<1> HIDE DEF Nuevos, Bloqueados
<1> QED
  BY <1>1, <1>2, <1>3, <1>4, <1>5, <1>6 DEF EstadoDe, Uno

LEMMA ClasificadosPrima == Unicidad' => Clasificados'
  BY ClasificadosDe, PTL

\* A process of which nothing is known to change but one of its memberships
\* keeps its state.
LEMMA EstadoIgual ==
    ASSUME Clasificados, Clasificados', NEW p \in Procesos,
           motivo'[p] = motivo[p], consola'[p] = "inicio" <=> consola[p] = "inicio",
           \/ /\ p \in EnReady' <=> p \in EnReady
              /\ p \in EnEjecucion' <=> p \in EnEjecucion
              /\ \/ p \in Nuevos' <=> p \in Nuevos
                 \/ p \in Bloqueados' <=> p \in Bloqueados
           \/ /\ p \in Nuevos' <=> p \in Nuevos
              /\ p \in EnReady' <=> p \in EnReady
              /\ p \in Bloqueados' <=> p \in Bloqueados
    PROVE  EstadoDe(p)' = EstadoDe(p)
<1> HIDE DEF EstadoDe, Nuevos, Bloqueados
<1> QED
  BY DEF Clasificados

\* Only q changes, from the state a to the state b: a step of the diagram.
Pasa(q, a, b) ==
    /\ EstadoDe(q) = a /\ EstadoDe(q)' = b
    /\ \A p \in Procesos \ {q} : EstadoDe(p)' = EstadoDe(p)
Quieto == \A p \in Procesos : EstadoDe(p)' = EstadoDe(p)

LEMMA PasaCambia ==
    ASSUME NEW q \in Procesos, NEW a, NEW b, Pasa(q, a, b)
    PROVE  Ciclo!Cambia(q, a, b)
  BY DEF Pasa, Ciclo!Cambia

LEMMA QuietoCambia ==
    ASSUME Quieto
    PROVE  UNCHANGED [p \in Procesos |-> EstadoDe(p)]
  BY DEF Quieto

-----------------------------------------------------------------------------
(* What each step does to the states. *)

LEMMA SinMover ==
    ASSUME Clasificados, Clasificados', UNCHANGED <<consola, motivo>>, EnReady' = EnReady,
           \/ EnEjecucion' = EnEjecucion /\ Nuevos' = Nuevos
           \/ EnEjecucion' = EnEjecucion /\ Bloqueados' = Bloqueados
           \/ Nuevos' = Nuevos /\ Bloqueados' = Bloqueados
    PROVE  Quieto
  BY EstadoIgual DEF Quieto

\* The steps that only post, or move a PCB within one kind of place.
LEMMA EfectoQuieto ==
    ASSUME Unicidad, Clasificados, Clasificados',
           \/ NewDespierta \/ NewVacia \/ NewQuita \/ NewAvisa
           \/ ReadyDespierta \/ ReadyVacia \/ ReadyEnvia
           \/ FileSystemTermina \/ FsDesbloqueado \/ FsAvisa \/ IOAvisa
           \/ \E r \in Recursos : RecursoDespierta(r) \/ RecursoAvisa(r)
           \/ Cpu
           \/ \E p \in Procesos : \/ AtenderArchivo(p) \/ AtenderCrearSegmento(p)
                                  \/ AtenderEliminarSegmento(p)
                                  \/ \E r \in Recursos : AtenderSignal(p, r)
           \/ CpuAvisaReady \/ Habilitar \/ LiberarGrado \/ EliminarProceso \/ CreacionExitosa
           \/ HabilitarSinMemoria \/ LiberarSinMemoria
           \/ RealizarCompactacion \/ PedirCompactacion \/ FinCompactacion
    PROVE  Quieto
<1> USE DEF procesos, new, ready, semaforos, recursos, hilos, otrosHilos, canales, kernel,
            PublicarReady
<1>1. ASSUME NewDespierta \/ NewVacia \/ NewQuita \/ NewAvisa PROVE Quieto
  <2>1. /\ UNCHANGED <<consola, motivo, cola_ready, cola_recurso, hilo_recurso, hilo_io, a_fs, de_fs, hilo_fs>>
        /\ UNCHANGED <<hilo_ready, a_cpu, cpu, de_cpu, hilo_cpu>>
    BY <1>1 DEF NewDespierta, NewVacia, NewQuita, NewAvisa
  <2>2. EnReady' = EnReady /\ EnEjecucion' = EnEjecucion /\ Bloqueados' = Bloqueados
    BY <2>1, Quietos, EjecucionQuieta DEF Bloqueados
  <2> QED
    BY <2>1, <2>2, SinMover
<1>2. ASSUME \/ FileSystemTermina \/ FsDesbloqueado \/ FsAvisa \/ IOAvisa
             \/ \E r \in Recursos : RecursoDespierta(r) \/ RecursoAvisa(r)
      PROVE  Quieto
  <2>1. /\ UNCHANGED <<consola, motivo, cola_new, hilo_new, cola_ready>>
        /\ UNCHANGED <<hilo_ready, a_cpu, cpu, de_cpu, hilo_cpu>>
    BY <1>2 DEF FileSystemTermina, FsDesbloqueado, FsAvisa, IOAvisa, RecursoDespierta,
                RecursoAvisa
  <2>2. EnReady' = EnReady /\ EnEjecucion' = EnEjecucion /\ Nuevos' = Nuevos
    BY <2>1, Quietos, EjecucionQuieta DEF Nuevos
  <2> QED
    BY <2>1, <2>2, SinMover
<1>a. ASSUME UNCHANGED <<consola, motivo, cola_new, hilo_new, cola_ready>>,
             UNCHANGED <<cola_recurso, hilo_recurso, hilo_io, a_fs, de_fs, hilo_fs>>
      PROVE  Quieto
  <2>1. EnReady' = EnReady /\ Nuevos' = Nuevos /\ Bloqueados' = Bloqueados
    BY <1>a, Quietos DEF Nuevos, Bloqueados
  <2> QED
    BY <1>a, <2>1, SinMover
<1>3. ASSUME ReadyDespierta \/ ReadyVacia \/ ReadyEnvia PROVE Quieto
  BY <1>3, <1>a DEF ReadyDespierta, ReadyVacia, ReadyEnvia
<1>4. ASSUME Cpu PROVE Quieto
  BY <1>4, <1>a DEF Cpu, CpuRecibe, CpuLocal, CpuSegFault, CpuDevuelve, CpuLlama, CpuRespuesta,
                    CpuInesperado, Ejecuta
<1>5. ASSUME \E p \in Procesos : \/ AtenderArchivo(p) \/ AtenderCrearSegmento(p)
                                 \/ AtenderEliminarSegmento(p)
                                 \/ \E r \in Recursos : AtenderSignal(p, r)
      PROVE  Quieto
  BY <1>5, <1>a DEF AtenderArchivo, AtenderCrearSegmento, AtenderEliminarSegmento, AtenderSignal
<1>6. ASSUME \/ CpuAvisaReady \/ Habilitar \/ LiberarGrado \/ EliminarProceso \/ CreacionExitosa
             \/ HabilitarSinMemoria \/ LiberarSinMemoria
             \/ RealizarCompactacion \/ PedirCompactacion \/ FinCompactacion
      PROVE  Quieto
  BY <1>6, <1>a DEF CpuAvisaReady, Habilitar, LiberarGrado, EliminarProceso, CreacionExitosa,
         HabilitarSinMemoria, LiberarSinMemoria, RealizarCompactacion, PedirCompactacion,
         FinCompactacion
<1> QED
  BY <1>1, <1>2, <1>3, <1>4, <1>5, <1>6

\* Consoles: a process is created, or its creation is announced.
LEMMA EfectoConsola ==
    ASSUME TipoOK, Unicidad, Clasificados, Clasificados', NEW q \in Procesos
    PROVE  /\ ConsolaEncola(q) => Pasa(q, "NONE", "NEW")
           /\ ConsolaAvisa(q) => Quieto
<1> USE DEF procesos, new, ready, semaforos, recursos, hilos, canales
<1>a. ASSUME Consola(q)
      PROVE  EnReady' = EnReady /\ EnEjecucion' = EnEjecucion /\ Bloqueados' = Bloqueados
             /\ UNCHANGED motivo /\ \A p \in Procesos \ {q} : consola'[p] = consola[p]
  BY <1>a, Quietos, EjecucionQuieta
     DEF Consola, ConsolaEncola, ConsolaAvisa, Bloqueados, TipoOK, TipoProcesos
<1>1. ASSUME ConsolaEncola(q) PROVE Pasa(q, "NONE", "NEW")
  <2>1. consola[q] = "inicio" /\ consola'[q] = "avisa"
    BY <1>1 DEF ConsolaEncola, TipoOK, TipoProcesos
  <2>2. \A p \in Procesos \ {q} : EstadoDe(p)' = EstadoDe(p)
    BY <1>1, <1>a, EstadoIgual DEF Consola
  <2>3. EstadoDe(q) = "NONE"
    BY <2>1 DEF Clasificados
  <2>4. q \in Nuevos'
    <3>1. cola_new' = Append(cola_new, q) /\ cola_new \in Seq(Procesos)
      BY <1>1 DEF ConsolaEncola, TipoOK, TipoColas
    <3>2. q \in EnNew'
      BY <3>1, Anexar DEF EnNew
    <3> QED
      BY <3>2 DEF Nuevos
  <2>5. EstadoDe(q)' = "NEW"
    BY <2>4 DEF Clasificados
  <2> QED
    BY <2>2, <2>3, <2>5 DEF Pasa
<1>2. ASSUME ConsolaAvisa(q) PROVE Quieto
  <2>1. consola[q] # "inicio" /\ consola'[q] # "inicio"
    BY <1>2 DEF ConsolaAvisa, TipoOK, TipoProcesos
  <2> QED
    BY <1>2, <1>a, <2>1, EstadoIgual DEF Quieto, Consola
<1> QED
  BY <1>1, <1>2

\* The threads that put a process in READY, from NEW or from BLOCK.
LEMMA EfectoEncolar ==
    ASSUME TipoOK, TipoOK', Unicidad, Clasificados, Clasificados'
    PROVE  /\ NewEncola => \E q \in Procesos : Pasa(q, "NEW", "READY")
           /\ FsEncola => \E q \in Procesos : Pasa(q, "BLOCK", "READY")
           /\ \A r \in Recursos : RecursoEncola(r) => \E q \in Procesos : Pasa(q, "BLOCK", "READY")
           /\ \A q \in Procesos : IOEncola(q) => Pasa(q, "BLOCK", "READY")
<1> USE DEF procesos, new, ready, semaforos, recursos, hilos, otrosHilos, canales
<1>a. ASSUME NEW q \in Procesos, EncolarReady(q)
      PROVE  EnReady' = EnReady \cup {q} /\ EstadoDe(q)' = "READY"
  <2>1. EnReady' = EnReady \cup {q}
    BY <1>a, Anexar DEF EncolarReady, EnReady, TipoOK, TipoColas
  <2> QED
    BY <2>1 DEF Clasificados
<1>b. Portadores
  BY PortadoresDe DEF TipoOK
<1>1. ASSUME NewEncola PROVE \E q \in Procesos : Pasa(q, "NEW", "READY")
  <2>1. PICK q \in Procesos : q = hilo_new.pcb /\ hilo_new.pc = "encola" /\ EncolarReady(q)
    BY <1>1, PcbDeHilo DEF NewEncola, TipoOK
  <2>2. EstadoDe(q) = "NEW"
    BY <1>b, <2>1 DEF Portadores, Clasificados, Nuevos
  <2>3. EnEjecucion' = EnEjecucion /\ Bloqueados' = Bloqueados /\ UNCHANGED <<consola, motivo>>
    BY <1>1, Quietos, EjecucionQuieta DEF NewEncola, Bloqueados
  <2>4. \A p \in Procesos \ {q} : EstadoDe(p)' = EstadoDe(p)
    BY <1>a, <2>1, <2>3, EstadoIgual
  <2> QED
    BY <1>a, <2>1, <2>2, <2>4 DEF Pasa
<1>c. ASSUME NEW q \in Procesos, q \in Bloqueados, EncolarReady(q), Nuevos' = Nuevos,
             EnEjecucion' = EnEjecucion, UNCHANGED <<consola, motivo>>
      PROVE  Pasa(q, "BLOCK", "READY")
  <2>1. EstadoDe(q) = "BLOCK"
    BY <1>c DEF Clasificados
  <2>2. \A p \in Procesos \ {q} : EstadoDe(p)' = EstadoDe(p)
    BY <1>a, <1>c, EstadoIgual
  <2> QED
    BY <1>a, <1>c, <2>1, <2>2 DEF Pasa
<1>2. ASSUME FsEncola PROVE \E q \in Procesos : Pasa(q, "BLOCK", "READY")
  <2>1. PICK q \in Procesos : q = hilo_fs.pcb /\ hilo_fs.pc = "encola" /\ EncolarReady(q)
    BY <1>2, PcbDeHilo DEF FsEncola, TipoOK
  <2>2. q \in Bloqueados
    BY <1>b, <2>1 DEF Portadores, Bloqueados
  <2>3. EnEjecucion' = EnEjecucion /\ Nuevos' = Nuevos /\ UNCHANGED <<consola, motivo>>
    BY <1>2, Quietos, EjecucionQuieta DEF FsEncola, Nuevos
  <2> QED
    BY <1>c, <2>1, <2>2, <2>3
<1>3. ASSUME NEW r \in Recursos, RecursoEncola(r)
      PROVE  \E q \in Procesos : Pasa(q, "BLOCK", "READY")
  <2>1. PICK q \in Procesos :
           q = hilo_recurso[r].pcb /\ hilo_recurso[r].pc = "encola" /\ EncolarReady(q)
    BY <1>3, PcbDeHilo DEF RecursoEncola, TipoOK
  <2>2. q \in Despertado
    BY <1>b, <2>1 DEF Portadores, Despertado
  <2>3. EnEjecucion' = EnEjecucion /\ Nuevos' = Nuevos /\ UNCHANGED <<consola, motivo>>
    BY <1>3, Quietos, EjecucionQuieta DEF RecursoEncola, Nuevos
  <2> QED
    BY <1>c, <2>1, <2>2, <2>3 DEF Bloqueados
<1>4. ASSUME NEW q \in Procesos, IOEncola(q) PROVE Pasa(q, "BLOCK", "READY")
  <2>1. EnEjecucion' = EnEjecucion /\ Nuevos' = Nuevos /\ UNCHANGED <<consola, motivo>>
    BY <1>4, Quietos, EjecucionQuieta DEF IOEncola, Nuevos
  <2> QED
    BY <1>4, <1>c, <2>1 DEF IOEncola, Bloqueados, Dormido
<1> QED
  BY <1>1, <1>2, <1>3, <1>4

\* The dispatch: the CPU is free, and the process it is given to was READY.
LEMMA EfectoReady ==
    ASSUME TipoOK, Ficha, Ficha', Unicidad, Clasificados, Clasificados', ReadyQuita
    PROVE  EnEjecucion = {} /\ \E q \in Procesos : Pasa(q, "READY", "EXEC")
<1> USE DEF procesos, new, ready, semaforos, recursos, hilos, canales
<1>1. PICK i \in DOMAIN cola_ready :
           cola_ready' = RemoveAt(cola_ready, i) /\ hilo_ready' = Hilo("envia", cola_ready[i])
  BY DEF ReadyQuita
<1>2. PICK q \in Procesos : q = cola_ready[i] /\ q \in EnReady /\ EnReady' = EnReady \ {q}
  BY <1>1, SacarUno DEF EnReady, TipoOK, TipoColas, Unicidad, ColasSinRepetir
<1>3. EnEjecucion = {}
  BY EjecucionDe, FichaExclusiva DEF ReadyQuita, Ficha, Situada
<1>4. Nuevos' = Nuevos /\ Bloqueados' = Bloqueados /\ UNCHANGED <<consola, motivo>>
  BY Quietos DEF ReadyQuita, Nuevos, Bloqueados
<1>5. \A p \in Procesos \ {q} : EstadoDe(p)' = EstadoDe(p)
  BY <1>2, <1>4, EstadoIgual
<1>6. EstadoDe(q) = "READY"
  BY <1>2 DEF Clasificados
<1>7. EstadoDe(q)' = "EXEC"
  BY <1>2, <1>4, <1>6 DEF Clasificados
<1> QED
  BY <1>3, <1>5, <1>6, <1>7 DEF Pasa

\* atender_cpu, when a message arrives.
LEMMA EfectoSyscall ==
    ASSUME TipoOK, Ficha, Ficha', Unicidad, Clasificados, Clasificados', NEW q \in Procesos,
           AtenderSyscall(q)
    PROVE  /\ AtenderDesalojado(q) => Pasa(q, "EXEC", "READY")
           /\ AtenderIO(q) => Pasa(q, "EXEC", "BLOCK")
           /\ \A r \in Recursos : AtenderWait(q, r) => Quieto \/ Pasa(q, "EXEC", "BLOCK")
           /\ \A op \in {"FINALIZAR", "SEG_FAULT"} : AtenderFinalizar(op, q) => Pasa(q, "EXEC", "EXIT")
           /\ AtenderSignalInexistente(q) => Pasa(q, "EXEC", "EXIT")
<1> USE DEF procesos, new, ready, recursos, hilos, otrosHilos
<1>b. /\ UNCHANGED <<consola, cola_new, hilo_recurso, a_fs, de_fs, hilo_new, hilo_fs>>
      /\ Nuevos' = Nuevos
  BY Quietos
     DEF AtenderSyscall, AtenderDesalojado, AtenderIO, AtenderArchivo, AtenderWait, AtenderSignal,
         AtenderWaitInexistente, AtenderSignalInexistente, AtenderCrearSegmento,
         AtenderEliminarSegmento, AtenderFinalizar, Nuevos
<1>c. ASSUME NEW op, Recibe(op, q)
      PROVE  EstadoDe(q) = "EXEC" /\ q \in Vivos
  <2>1. DesdeCpu /\ Head(de_cpu).pid = q
    BY <1>c DEF Recibe, DesdeCpu, Mensaje
  <2>2. q \in EnEjecucion
    BY <2>1, EjecucionDe DEF Situada
  <2> QED
    BY <2>2 DEF Clasificados, Unicidad, PlazaUnica, Uno
<1>1. ASSUME AtenderDesalojado(q) PROVE Pasa(q, "EXEC", "READY")
  <2>1. Recibe("DESALOJADO", q) /\ EncolarReady(q) /\ UNCHANGED <<motivo, cola_recurso, hilo_io>>
    BY <1>1 DEF AtenderDesalojado
  <2>2. EnReady' = EnReady \cup {q}
    BY <2>1, Anexar DEF EncolarReady, EnReady, TipoOK, TipoColas
  <2>3. Bloqueados' = Bloqueados
    BY <1>b, <2>1, Quietos DEF Bloqueados
  <2>4. \A p \in Procesos \ {q} : EstadoDe(p)' = EstadoDe(p)
    BY <1>b, <2>1, <2>2, <2>3, EstadoIgual
  <2>5. EstadoDe(q)' = "READY"
    BY <2>2 DEF Clasificados
  <2> QED
    BY <1>c, <2>1, <2>4, <2>5 DEF Pasa
\* A handler that blocks q.
<1>d. ASSUME NEW op, Recibe(op, q), UNCHANGED <<motivo, cola_ready>>,
             q \in Bloqueados', \A p \in Procesos \ {q} : p \in Bloqueados' <=> p \in Bloqueados
      PROVE  Pasa(q, "EXEC", "BLOCK")
  <2>1. EnReady' = EnReady
    BY <1>d, Quietos
  <2>2. \A p \in Procesos \ {q} : EstadoDe(p)' = EstadoDe(p)
    BY <1>b, <1>d, <2>1, EstadoIgual
  <2>3. EstadoDe(q)' = "BLOCK"
    BY <1>d DEF Clasificados
  <2> QED
    BY <1>c, <1>d, <2>2, <2>3 DEF Pasa
<1>2. ASSUME AtenderIO(q) PROVE Pasa(q, "EXEC", "BLOCK")
  <2>1. Recibe("EJECUTAR_IO", q) /\ UNCHANGED <<motivo, cola_ready, cola_recurso>>
    BY <1>2 DEF AtenderIO
  <2>2. Dormido' = Dormido \cup {q}
    BY <1>2 DEF AtenderIO, Dormido, TipoOK, TipoHilos
  <2>3. Bloqueados' = Bloqueados \cup {q}
    BY <1>b, <2>1, <2>2, Quietos DEF Bloqueados
  <2> QED
    BY <1>d, <2>1, <2>3
<1>3. ASSUME NEW r \in Recursos, AtenderWait(q, r) PROVE Quieto \/ Pasa(q, "EXEC", "BLOCK")
  <2>1. Recibe("EJECUTAR_WAIT", q) /\ UNCHANGED <<motivo, cola_ready, hilo_io>>
    BY <1>3 DEF AtenderWait
  <2>2. CASE instancias[r] - 1 < 0
    <3>1. cola_recurso' = [cola_recurso EXCEPT ![r] = Append(cola_recurso[r], q)]
      BY <1>3, <2>2 DEF AtenderWait
    <3>2. /\ cola_recurso'[r] = Append(cola_recurso[r], q)
          /\ \A s \in Recursos : s # r => cola_recurso'[s] = cola_recurso[s]
      BY <3>1 DEF TipoOK, TipoRecursos
    <3>3. ToSet(cola_recurso'[r]) = ToSet(cola_recurso[r]) \cup {q}
      BY <3>2, Anexar DEF TipoOK, TipoRecursos
    <3>4. EnRecurso' = EnRecurso \cup {q}
      BY <3>2, <3>3 DEF EnRecurso
    <3>5. Bloqueados' = Bloqueados \cup {q}
      BY <1>b, <2>1, <3>4, Quietos DEF Bloqueados
    <3> QED
      BY <1>d, <2>1, <3>5
  <2>3. CASE ~(instancias[r] - 1 < 0)
    <3>1. UNCHANGED cola_recurso
      BY <1>3, <2>3 DEF AtenderWait
    <3>2. EnReady' = EnReady /\ Bloqueados' = Bloqueados
      BY <1>b, <2>1, <3>1, Quietos DEF Bloqueados
    <3> QED
      BY <1>b, <2>1, <3>2, SinMover
  <2> QED
    BY <2>2, <2>3
\* A handler that ends q.
<1>e. ASSUME NEW op, Recibe(op, q), NEW x, x # "ninguno",
             motivo' = [motivo EXCEPT ![q] = x], UNCHANGED <<cola_ready, cola_recurso, hilo_io>>
      PROVE  Pasa(q, "EXEC", "EXIT")
  <2>1. motivo'[q] # "ninguno" /\ \A p \in Procesos \ {q} : motivo'[p] = motivo[p]
    BY <1>e DEF TipoOK, TipoProcesos
  <2>2. EnReady' = EnReady /\ Bloqueados' = Bloqueados
    BY <1>b, <1>e, Quietos DEF Bloqueados
  <2>3. \A p \in Procesos \ {q} : EstadoDe(p)' = EstadoDe(p)
    BY <1>b, <2>1, <2>2, EstadoIgual
  <2>4. EstadoDe(q)' = "EXIT"
    BY <2>1 DEF Clasificados
  <2> QED
    BY <1>c, <1>e, <2>3, <2>4 DEF Pasa
<1>4. ASSUME NEW op \in {"FINALIZAR", "SEG_FAULT"}, AtenderFinalizar(op, q)
      PROVE  Pasa(q, "EXEC", "EXIT")
  <2>1. /\ Recibe(op, q) /\ UNCHANGED <<cola_ready, cola_recurso, hilo_io>>
        /\ motivo' = [motivo EXCEPT ![q] = IF op = "FINALIZAR" THEN "SUCCESS" ELSE op]
    BY <1>4 DEF AtenderFinalizar
  <2>2. (IF op = "FINALIZAR" THEN "SUCCESS" ELSE op) # "ninguno"
    BY <1>4
  <2> QED
    BY <1>e, <2>1, <2>2
<1>5. ASSUME AtenderSignalInexistente(q) PROVE Pasa(q, "EXEC", "EXIT")
  <2>1. /\ Recibe("EJECUTAR_SIGNAL", q) /\ UNCHANGED <<cola_ready, cola_recurso, hilo_io>>
        /\ motivo' = [motivo EXCEPT ![q] = "SIN_RECURSOS"]
    BY <1>5 DEF AtenderSignalInexistente
  <2> QED
    BY <1>e, <2>1
<1> QED
  BY <1>1, <1>2, <1>3, <1>4, <1>5

\* atender_cpu, later in a handler: the two steps that take a process off the CPU.
LEMMA EfectoHandler ==
    ASSUME TipoOK, Ficha, Ficha', Unicidad, Clasificados, Clasificados'
    PROVE  /\ EnviarArchivo => \E q \in Procesos : Pasa(q, "EXEC", "BLOCK")
           /\ SinMemoria => \E q \in Procesos :
                 /\ Pasa(q, "EXEC", "EXIT") /\ motivo'[q] = "OUT_OF_MEMORY"
                 /\ \A p \in Procesos \ {q} : motivo'[p] = motivo[p]
<1> USE DEF procesos, new, ready, recursos, hilos, otrosHilos
<1>a. ASSUME EnLlamada
      PROVE  hilo_cpu.pcb \in Procesos /\ EstadoDe(hilo_cpu.pcb) = "EXEC"
  <2>1. hilo_cpu.pcb \in Procesos
    BY <1>a, PcbDeHilo DEF EnLlamada, Sirve, CpuOcupados, TipoOK
  <2>2. EnManejo
    BY <1>a DEF EnLlamada, Sirve, EnManejo, ConFicha
  <2>3. hilo_cpu.pcb \in EnEjecucion
    BY <1>a, <2>2, EjecucionDe DEF Situada
  <2> QED
    BY <2>1, <2>3 DEF Clasificados
<1>1. ASSUME EnviarArchivo PROVE \E q \in Procesos : Pasa(q, "EXEC", "BLOCK")
  <2>1. EnLlamada /\ a_fs' = Append(a_fs, hilo_cpu.pcb)
    BY <1>1 DEF EnviarArchivo, EnLlamada, Sirve
  <2>2. PICK q \in Procesos : q = hilo_cpu.pcb /\ EstadoDe(q) = "EXEC" /\ a_fs' = Append(a_fs, q)
    BY <1>a, <2>1
  <2>3. EnFs' = EnFs \cup {q}
    BY <2>2, Anexar DEF EnFs, TipoOK, TipoSockets
  <2>4. /\ UNCHANGED <<consola, motivo>> /\ EnReady' = EnReady /\ Nuevos' = Nuevos
        /\ Bloqueados' = Bloqueados \cup {q}
    BY <1>1, <2>3, Quietos DEF EnviarArchivo, Nuevos, Bloqueados
  <2>5. \A p \in Procesos \ {q} : EstadoDe(p)' = EstadoDe(p)
    BY <2>4, EstadoIgual
  <2>6. EstadoDe(q)' = "BLOCK"
    BY <2>4 DEF Clasificados
  <2> QED
    BY <2>2, <2>5, <2>6 DEF Pasa
<1>2. ASSUME SinMemoria
      PROVE  \E q \in Procesos : /\ Pasa(q, "EXEC", "EXIT") /\ motivo'[q] = "OUT_OF_MEMORY"
                                  /\ \A p \in Procesos \ {q} : motivo'[p] = motivo[p]
  <2>1. EnLlamada /\ motivo' = [motivo EXCEPT ![hilo_cpu.pcb] = "OUT_OF_MEMORY"]
    BY <1>2 DEF SinMemoria, EnLlamada, Sirve
  <2>2. PICK q \in Procesos : /\ q = hilo_cpu.pcb /\ EstadoDe(q) = "EXEC"
                              /\ motivo' = [motivo EXCEPT ![q] = "OUT_OF_MEMORY"]
    BY <1>a, <2>1
  <2>3. motivo'[q] = "OUT_OF_MEMORY" /\ \A p \in Procesos \ {q} : motivo'[p] = motivo[p]
    BY <2>2 DEF TipoOK, TipoProcesos
  <2>4. /\ UNCHANGED consola /\ EnReady' = EnReady /\ Nuevos' = Nuevos
        /\ Bloqueados' = Bloqueados
    BY <1>2, Quietos DEF SinMemoria, Nuevos, Bloqueados
  <2>5. \A p \in Procesos \ {q} : EstadoDe(p)' = EstadoDe(p)
    BY <2>3, <2>4, EstadoIgual
  <2>6. EstadoDe(q)' = "EXIT"
    BY <2>3 DEF Clasificados
  <2> QED
    BY <2>2, <2>3, <2>5, <2>6 DEF Pasa
<1> QED
  BY <1>1, <1>2

-----------------------------------------------------------------------------
(* The slots. *)

LEMMA OcupantesQuietos ==
    ASSUME Quieto, UNCHANGED motivo
    PROVE  Ocupantes' = Ocupantes
  BY DEF Quieto, Ocupantes, Activos, Fugados

\* Running, blocking and being woken are all within the slot of the process.
LEMMA OcupantesEnSuCupo ==
    ASSUME NEW q \in Procesos, NEW a, NEW b, Pasa(q, a, b), UNCHANGED motivo,
           a \in {"READY", "EXEC", "BLOCK"} <=> b \in {"READY", "EXEC", "BLOCK"}
    PROVE  Ocupantes' = Ocupantes
  BY DEF Pasa, Ocupantes, Activos, Fugados

LEMMA OcupantesEntra ==
    ASSUME Clasificados, NEW q \in Procesos, Pasa(q, "NEW", "READY"), UNCHANGED motivo
    PROVE  q \notin Ocupantes /\ Ocupantes' = Ocupantes \cup {q}
<1>1. motivo[q] = "ninguno"
  BY DEF Pasa, Clasificados
<1> QED
  BY <1>1 DEF Pasa, Ocupantes, Activos, Fugados

LEMMA OcupantesSale ==
    ASSUME NEW q \in Procesos, Pasa(q, "EXEC", "EXIT"),
           \A p \in Procesos \ {q} : motivo'[p] = motivo[p]
    PROVE  /\ q \in Ocupantes
           /\ Ocupantes' = IF motivo'[q] = "SIN_RECURSOS" THEN Ocupantes ELSE Ocupantes \ {q}
  BY DEF Pasa, Ocupantes, Activos, Fugados

LEMMA SlotsQuieto ==
    ASSUME Slots, Ocupantes' = Ocupantes, Cupos' = Cupos
    PROVE  Slots'
  BY DEF Slots

LEMMA SlotsInicial == ASSUME Init PROVE Slots
<1>1. Ocupantes = {}
  BY DEF Init, Ocupantes, Activos, Fugados, EstadoDe
<1>2. Cupos = GradoMultiprogramacion
  BY SupuestosPlanificador DEF Init, Cupos, EnEspera, Hilo, Uno
<1> QED
  BY <1>1, <1>2, FS_EmptySet, SupuestosPlanificador DEF Slots

LEMMA SlotsSyscall ==
    ASSUME TipoOK, TipoOK', Ficha, Ficha', Unicidad, Clasificados, Clasificados', Slots,
           NEW q \in Procesos, AtenderSyscall(q)
    PROVE  Slots'
<1> USE DEF procesos, new, ready, recursos, hilos, otrosHilos, semaforos
<1>a. UNCHANGED <<hilo_new, sem_multiprogramacion>> /\ hilo_cpu.pc = "espera"
  BY DEF AtenderSyscall, AtenderDesalojado, AtenderIO, AtenderArchivo, AtenderWait, AtenderSignal,
         AtenderWaitInexistente, AtenderSignalInexistente, AtenderCrearSegmento,
         AtenderEliminarSegmento, AtenderFinalizar, Recibe
<1>b. sem_multiprogramacion \in Nat
  BY DEF TipoOK, TipoSemaforos
<1>1. ASSUME NEW op \in {"FINALIZAR", "SEG_FAULT"}, AtenderFinalizar(op, q) PROVE Slots'
  <2>1. /\ motivo'[q] # "SIN_RECURSOS" /\ \A p \in Procesos \ {q} : motivo'[p] = motivo[p]
        /\ hilo_cpu'.pc = "libera"
    BY <1>1 DEF AtenderFinalizar, CpuSigueEn, Hilo, TipoOK, TipoProcesos
  <2>2. q \in Ocupantes /\ Ocupantes' = Ocupantes \ {q}
    BY <1>1, <2>1, EfectoSyscall, OcupantesSale
  <2>3. Cupos' = Cupos + 1
    BY <1>a, <1>b, <2>1 DEF Cupos, Uno
  <2>4. IsFiniteSet(Ocupantes') /\ Cardinality(Ocupantes') = Cardinality(Ocupantes) - 1
    BY <2>2, FS_RemoveElement DEF Slots
  <2>5. Cardinality(Ocupantes) \in Nat /\ Cupos \in Nat
    BY <1>b, FS_CardinalityType DEF Slots, Cupos, Uno
  <2> QED
    BY <2>3, <2>4, <2>5 DEF Slots
<1>c. ASSUME ~\E op \in {"FINALIZAR", "SEG_FAULT"} : AtenderFinalizar(op, q)
      PROVE  Cupos' = Cupos
  <2>1. hilo_cpu'.pc \notin {"libera", "habilita_sin_memoria", "libera_sin_memoria"}
    BY <1>a, <1>c DEF AtenderSyscall, AtenderDesalojado, AtenderIO, AtenderArchivo, AtenderWait, AtenderSignal,
         AtenderWaitInexistente, AtenderSignalInexistente, AtenderCrearSegmento,
         AtenderEliminarSegmento, CpuSigueEn, Hilo
  <2> QED
    BY <1>a, <2>1 DEF Cupos, Uno
<1>2. ASSUME AtenderSignalInexistente(q) PROVE Ocupantes' = Ocupantes
  <2>1. motivo'[q] = "SIN_RECURSOS" /\ \A p \in Procesos \ {q} : motivo'[p] = motivo[p]
    BY <1>2 DEF AtenderSignalInexistente, TipoOK, TipoProcesos
  <2> QED
    BY <1>2, <2>1, EfectoSyscall, OcupantesSale
<1>3. ASSUME AtenderDesalojado(q) PROVE Ocupantes' = Ocupantes
  BY <1>3, EfectoSyscall, OcupantesEnSuCupo DEF AtenderDesalojado
<1>4. ASSUME AtenderIO(q) PROVE Ocupantes' = Ocupantes
  BY <1>4, EfectoSyscall, OcupantesEnSuCupo DEF AtenderIO
<1>5. ASSUME NEW r \in Recursos, AtenderWait(q, r) PROVE Ocupantes' = Ocupantes
  BY <1>5, EfectoSyscall, OcupantesQuietos, OcupantesEnSuCupo DEF AtenderWait
<1>6. ASSUME \/ AtenderArchivo(q) \/ AtenderCrearSegmento(q) \/ AtenderEliminarSegmento(q)
             \/ \E r \in Recursos : AtenderSignal(q, r)
      PROVE  Ocupantes' = Ocupantes
  BY <1>6, EfectoQuieto, OcupantesQuietos
     DEF AtenderArchivo, AtenderCrearSegmento, AtenderEliminarSegmento, AtenderSignal
<1>7. ~AtenderWaitInexistente(q)
  BY RecibirFicha DEF AtenderWaitInexistente
<1>8. \/ \E op \in {"FINALIZAR", "SEG_FAULT"} : AtenderFinalizar(op, q)
      \/ Ocupantes' = Ocupantes
  BY <1>2, <1>3, <1>4, <1>5, <1>6, <1>7 DEF AtenderSyscall
<1> QED
  BY <1>1, <1>8, <1>c, SlotsQuieto

LEMMA SlotsHandler ==
    ASSUME TipoOK, TipoOK', Ficha, Ficha', Unicidad, Clasificados, Clasificados', Slots,
           ContinuarHandler
    PROVE  Slots'
<1> USE DEF procesos, new, ready, recursos, hilos, otrosHilos, semaforos, CpuSigueEn, Hilo, EnEspera
<1>a. sem_multiprogramacion \in Nat /\ UNCHANGED hilo_new
  BY DEF TipoOK, TipoSemaforos, ContinuarHandler, CpuAvisaReady, Habilitar, EnviarArchivo,
         LiberarGrado, EliminarProceso, CreacionExitosa, SinMemoria, HabilitarSinMemoria,
         LiberarSinMemoria, RealizarCompactacion, PedirCompactacion, FinCompactacion
<1>1. CASE SinMemoria
  <2>1. PICK q \in Procesos : /\ Pasa(q, "EXEC", "EXIT") /\ motivo'[q] = "OUT_OF_MEMORY"
                             /\ \A p \in Procesos \ {q} : motivo'[p] = motivo[p]
    BY <1>1, EfectoHandler
  <2>3. q \in Ocupantes /\ Ocupantes' = Ocupantes \ {q}
    BY <2>1, OcupantesSale
  <2>4. hilo_cpu.pc = "espera_memoria" /\ hilo_cpu'.pc = "habilita_sin_memoria"
        /\ UNCHANGED sem_multiprogramacion
    BY <1>1 DEF SinMemoria
  <2>5. Cupos' = Cupos + 1
    BY <1>a, <2>4 DEF Cupos, Uno
  <2>6. IsFiniteSet(Ocupantes') /\ Cardinality(Ocupantes') = Cardinality(Ocupantes) - 1
    BY <2>3, FS_RemoveElement DEF Slots
  <2>7. Cardinality(Ocupantes) \in Nat /\ Cupos \in Nat
    BY <1>a, FS_CardinalityType DEF Slots, Cupos, Uno
  <2> QED
    BY <2>5, <2>6, <2>7 DEF Slots
<1>2. CASE EnviarArchivo
  <2>1. Ocupantes' = Ocupantes
    BY <1>2, EfectoHandler, OcupantesEnSuCupo DEF EnviarArchivo
  <2>2. Cupos' = Cupos
    BY <1>2, <1>a DEF EnviarArchivo, Cupos, Uno
  <2> QED
    BY <2>1, <2>2, SlotsQuieto
<1>3. ASSUME \/ CpuAvisaReady \/ Habilitar \/ LiberarGrado \/ EliminarProceso \/ CreacionExitosa
             \/ HabilitarSinMemoria \/ LiberarSinMemoria
             \/ RealizarCompactacion \/ PedirCompactacion \/ FinCompactacion
      PROVE  Slots'
  <2>1. UNCHANGED motivo
    BY <1>3 DEF CpuAvisaReady, Habilitar, LiberarGrado, EliminarProceso, CreacionExitosa,
         HabilitarSinMemoria, LiberarSinMemoria, RealizarCompactacion, PedirCompactacion,
         FinCompactacion
  <2>2. Ocupantes' = Ocupantes
    BY <1>3, <2>1, EfectoQuieto, OcupantesQuietos
  <2>3. ASSUME LiberarGrado \/ LiberarSinMemoria PROVE Cupos' = Cupos
    BY <1>a, <2>3 DEF LiberarGrado, LiberarSinMemoria, Cupos, Uno
  <2>4. ASSUME \/ CpuAvisaReady \/ Habilitar \/ EliminarProceso \/ CreacionExitosa
               \/ HabilitarSinMemoria
               \/ RealizarCompactacion \/ PedirCompactacion \/ FinCompactacion
        PROVE  Cupos' = Cupos
    BY <1>a, <2>4 DEF CpuAvisaReady, Habilitar, EliminarProceso, CreacionExitosa,
         HabilitarSinMemoria, RealizarCompactacion, PedirCompactacion, FinCompactacion, Cupos, Uno
  <2> QED
    BY <1>3, <2>2, <2>3, <2>4, SlotsQuieto
<1> QED
  BY <1>1, <1>2, <1>3 DEF ContinuarHandler

LEMMA SlotsPaso ==
    ASSUME TipoOK, TipoOK', Ficha, Ficha', Unicidad, Unicidad', Slots, [Next]_vars
    PROVE  Slots'
<1> USE DEF procesos, new, ready, recursos, hilos, otrosHilos, semaforos, kernel, canales
<1>a. Clasificados /\ Clasificados'
  BY ClasificadosDe, ClasificadosPrima
<1>b. sem_multiprogramacion \in Nat
  BY DEF TipoOK, TipoSemaforos
\* The threads that touch neither the semaphore nor the stages that hold a slot.
<1>c. ASSUME UNCHANGED <<hilo_new, hilo_cpu, sem_multiprogramacion, motivo>>,
             \/ Quieto
             \/ \E q \in Procesos : \/ Pasa(q, "NONE", "NEW") \/ Pasa(q, "READY", "EXEC")
                                    \/ Pasa(q, "BLOCK", "READY")
      PROVE  Slots'
  <2>1. Ocupantes' = Ocupantes
    BY <1>c, OcupantesQuietos, OcupantesEnSuCupo
  <2>2. Cupos' = Cupos
    BY <1>c DEF Cupos
  <2> QED
    BY <2>1, <2>2, SlotsQuieto
<1>1. CASE UNCHANGED vars
  <2>1. Quieto
    BY <1>1, <1>a, SinMover, Quietos, EjecucionQuieta DEF vars, Nuevos
  <2> QED
    BY <1>1, <1>c, <2>1 DEF vars
<1>2. ASSUME NEW q \in Procesos, Consola(q) PROVE Slots'
  BY <1>2, <1>a, <1>c, EfectoConsola DEF Consola, ConsolaEncola, ConsolaAvisa
<1>3. CASE NewEncola
  <2>1. PICK q \in Procesos : Pasa(q, "NEW", "READY")
    BY <1>3, <1>a, EfectoEncolar
  <2>2. q \notin Ocupantes /\ Ocupantes' = Ocupantes \cup {q}
    BY <1>3, <1>a, <2>1, OcupantesEntra DEF NewEncola
  <2>3. Cupos = Cupos' + 1 /\ Cupos' \in Nat
    BY <1>3, <1>b DEF NewEncola, Cupos, Uno, Hilo
  <2>4. IsFiniteSet(Ocupantes') /\ Cardinality(Ocupantes') = Cardinality(Ocupantes) + 1
    BY <2>2, FS_AddElement DEF Slots
  <2>5. Cardinality(Ocupantes) \in Nat
    BY FS_CardinalityType DEF Slots
  <2> QED
    BY <2>3, <2>4, <2>5 DEF Slots
<1>4. ASSUME NewDespierta \/ NewVacia \/ NewQuita \/ NewAvisa PROVE Slots'
  <2>1. UNCHANGED <<motivo, hilo_cpu>>
    BY <1>4 DEF NewDespierta, NewVacia, NewQuita, NewAvisa
  <2>2. Ocupantes' = Ocupantes
    BY <1>4, <1>a, <2>1, EfectoQuieto, OcupantesQuietos
  <2>3. Cupos' = Cupos
    BY <1>4, <1>b DEF NewDespierta, NewVacia, NewQuita, NewAvisa, Cupos, Uno, Hilo, EnEspera
  <2> QED
    BY <2>2, <2>3, SlotsQuieto
<1>5. ASSUME HiloReady PROVE Slots'
  BY <1>5, <1>a, <1>c, EfectoReady, EfectoQuieto
     DEF HiloReady, ReadyDespierta, ReadyVacia, ReadyQuita, ReadyEnvia
<1>6. ASSUME HiloFs \/ FileSystemTermina PROVE Slots'
  BY <1>6, <1>a, <1>c, EfectoEncolar, EfectoQuieto
     DEF HiloFs, FileSystemTermina, FsDesbloqueado, FsEncola, FsAvisa
<1>7. ASSUME HiloIO PROVE Slots'
  BY <1>7, <1>a, <1>c, EfectoEncolar, EfectoQuieto DEF HiloIO, IOEncola, IOAvisa
<1>8. ASSUME NEW r \in Recursos, HiloRecurso(r) PROVE Slots'
  BY <1>8, <1>a, <1>c, EfectoEncolar, EfectoQuieto
     DEF HiloRecurso, RecursoDespierta, RecursoEncola, RecursoAvisa
<1>9. ASSUME Cpu PROVE Slots'
  BY <1>9, <1>a, <1>c, EfectoQuieto
     DEF Cpu, CpuRecibe, CpuLocal, CpuSegFault, CpuDevuelve, CpuLlama, CpuRespuesta,
         CpuInesperado, Ejecuta
<1> QED
  BY <1>a, <1>1, <1>2, <1>3, <1>4, <1>5, <1>6, <1>7, <1>8, <1>9, SlotsSyscall, SlotsHandler
  DEF Next, HiloNew, HiloCpu

\* Multiprogramming slots are neither lost nor invented, except those of the
\* processes that a SIGNAL of an unknown resource ended, which are never given
\* back; every WAIT names a configured resource.
THEOREM SlotsCorrecto ==
    ASSUME RecursosConfigurados
    PROVE  Spec => []Slots
<1>1. Init => Ficha /\ Unicidad /\ Slots
  BY FichaInicial, UnicidadInicial, SlotsInicial
<1>2. TipoOK /\ TipoOK' /\ Ficha /\ [Next]_vars => Ficha'
  BY FichaPaso
<1>3. TipoOK /\ TipoOK' /\ Ficha /\ Ficha' /\ Unicidad /\ [Next]_vars => Unicidad'
  BY UnicidadPaso
<1>4. TipoOK /\ TipoOK' /\ Ficha /\ Ficha' /\ Unicidad /\ Unicidad' /\ Slots /\ [Next]_vars => Slots'
  BY SlotsPaso
<1> QED
  BY <1>1, <1>2, <1>3, <1>4, TipoCorrecto, PTL DEF Spec

-----------------------------------------------------------------------------
(* The five-state diagram. *)

LEMMA CicloInicial == ASSUME Init PROVE Ciclo!Init
  BY DEF Init, Ciclo!Init, EstadoDe

\* While a process is being admitted, one slot more than those held is taken.
LEMMA AdmisionConCupo ==
    ASSUME TipoOK, Slots, hilo_new.pc = "encola"
    PROVE  Cardinality(Activos) < GradoMultiprogramacion
<1>1. Activos \subseteq Ocupantes
  BY DEF Ocupantes
<1>2. /\ Cardinality(Activos) <= Cardinality(Ocupantes) /\ Cardinality(Ocupantes) \in Nat
      /\ Cardinality(Activos) \in Nat
  BY <1>1, FS_Subset, FS_CardinalityType DEF Slots
<1>3. Cupos \in Nat \ {0}
  BY DEF Cupos, Uno, TipoOK, TipoSemaforos
<1> QED
  BY <1>2, <1>3 DEF Slots

LEMMA CicloPaso ==
    ASSUME TipoOK, TipoOK', Ficha, Ficha', Unicidad, Unicidad', Slots, [Next]_vars
    PROVE  [Ciclo!Next]_([p \in Procesos |-> EstadoDe(p)])
<1> DEFINE estado == [p \in Procesos |-> EstadoDe(p)]
<1>a. Clasificados /\ Clasificados'
  BY ClasificadosDe, ClasificadosPrima
<1>b. ASSUME Quieto PROVE UNCHANGED estado
  BY <1>b, QuietoCambia
<1>c. ASSUME NEW q \in Procesos,
             \/ Pasa(q, "NONE", "NEW") \/ Pasa(q, "BLOCK", "READY") \/ Pasa(q, "EXEC", "READY")
             \/ Pasa(q, "EXEC", "BLOCK") \/ Pasa(q, "EXEC", "EXIT")
      PROVE  Ciclo!Next
  BY <1>c, PasaCambia
     DEF Ciclo!Next, Ciclo!Crear, Ciclo!Desbloquear, Ciclo!Desalojar, Ciclo!Bloquear, Ciclo!Terminar
<1>1. ASSUME NewEncola PROVE Ciclo!Next
  <2>1. PICK q \in Procesos : Pasa(q, "NEW", "READY")
    BY <1>1, <1>a, EfectoEncolar
  <2>2. Ciclo!En({"READY", "EXEC", "BLOCK"}) = Activos
    BY DEF Ciclo!En, Activos
  <2>3. Ciclo!Cardinality(Activos) = Cardinality(Activos)
    BY DEF Ciclo!Cardinality, Cardinality
  <2>4. Ciclo!Admitir(q)
    BY <1>1, <2>1, <2>2, <2>3, PasaCambia, AdmisionConCupo DEF NewEncola, Ciclo!Admitir
  <2> QED
    BY <2>4 DEF Ciclo!Next
<1>2. ASSUME ReadyQuita PROVE Ciclo!Next
  <2>1. EnEjecucion = {}
    BY <1>2, <1>a, EfectoReady
  <2>2. PICK q \in Procesos : Pasa(q, "READY", "EXEC")
    BY <1>2, <1>a, EfectoReady
  <2>3. Ciclo!En({"EXEC"}) = {}
    BY <1>a, <2>1 DEF Ciclo!En, Clasificados
  <2>4. Ciclo!Despachar(q)
    BY <2>2, <2>3, PasaCambia DEF Ciclo!Despachar
  <2> QED
    BY <2>4 DEF Ciclo!Next
<1>3. ASSUME NEW q \in Procesos, AtenderSyscall(q) PROVE Ciclo!Next \/ UNCHANGED estado
  <2>1. ~AtenderWaitInexistente(q)
    BY RecibirFicha DEF AtenderWaitInexistente, procesos
  <2> QED
    BY <1>3, <1>a, <1>b, <1>c, <2>1, EfectoSyscall, EfectoQuieto DEF AtenderSyscall
<1>4. ASSUME ContinuarHandler PROVE Ciclo!Next \/ UNCHANGED estado
  BY <1>4, <1>a, <1>b, <1>c, EfectoHandler, EfectoQuieto DEF ContinuarHandler
<1>5. ASSUME UNCHANGED vars PROVE UNCHANGED estado
  BY <1>5, <1>a, <1>b, SinMover, Quietos, EjecucionQuieta DEF vars, Nuevos
<1>6. ASSUME HiloNew \/ HiloReady \/ HiloFs \/ HiloIO \/ FileSystemTermina \/ Cpu
      PROVE  Ciclo!Next \/ UNCHANGED estado
  BY <1>6, <1>a, <1>b, <1>c, <1>1, <1>2, EfectoEncolar, EfectoQuieto
     DEF HiloNew, HiloReady, HiloFs, HiloIO
<1>7. ASSUME NEW r \in Recursos, HiloRecurso(r) PROVE Ciclo!Next \/ UNCHANGED estado
  BY <1>7, <1>a, <1>b, <1>c, EfectoEncolar, EfectoQuieto DEF HiloRecurso
<1>8. ASSUME NEW q \in Procesos, Consola(q) PROVE Ciclo!Next \/ UNCHANGED estado
  BY <1>8, <1>a, <1>b, <1>c, EfectoConsola DEF Consola
<1> HIDE DEF estado
<1>9. Ciclo!Next \/ UNCHANGED estado
  BY <1>3, <1>4, <1>5, <1>6, <1>7, <1>8 DEF Next, HiloCpu
<1> QED
  BY <1>9 DEF estado

\* The scheduler implements the five-state diagram that its log lines announce:
\* admissions within the degree, one process in EXEC, no other arrow.
THEOREM ImplementaCicloCorrecto ==
    ASSUME RecursosConfigurados
    PROVE  Spec => ImplementaCiclo
<1>1. Init => Ciclo!Init /\ Ficha /\ Unicidad /\ Slots
  BY CicloInicial, FichaInicial, UnicidadInicial, SlotsInicial
<1>2. TipoOK /\ TipoOK' /\ Ficha /\ [Next]_vars => Ficha'
  BY FichaPaso
<1>3. TipoOK /\ TipoOK' /\ Ficha /\ Ficha' /\ Unicidad /\ [Next]_vars => Unicidad'
  BY UnicidadPaso
<1>4. TipoOK /\ TipoOK' /\ Ficha /\ Ficha' /\ Unicidad /\ Unicidad' /\ Slots /\ [Next]_vars => Slots'
  BY SlotsPaso
<1>5. TipoOK /\ TipoOK' /\ Ficha /\ Ficha' /\ Unicidad /\ Unicidad' /\ Slots /\ [Next]_vars
        => [Ciclo!Next]_([p \in Procesos |-> EstadoDe(p)])
  BY CicloPaso
<1> QED
  BY <1>1, <1>2, <1>3, <1>4, <1>5, TipoCorrecto, PTL DEF Spec, ImplementaCiclo, Ciclo!Spec

-----------------------------------------------------------------------------
(* Finished processes. *)

\* Only the CPU moves a program counter, and the process it executes is alive.
LEMMA NoEjecutaPaso ==
    ASSUME TipoOK, Ficha, Unicidad, [Next]_vars
    PROVE  [\A p \in Procesos : motivo[p] # "ninguno" => pc'[p] = pc[p]]_vars
<1> USE DEF procesos, new, ready, recursos, hilos, otrosHilos, semaforos, kernel, canales
<1>1. ASSUME NEW ops, Ejecuta(ops), NEW p \in Procesos, motivo[p] # "ninguno"
      PROVE  pc'[p] = pc[p]
  <2>1. cpu.pcb \in EnEjecucion /\ cpu.pcb \in Procesos
    BY <1>1, EjecucionDe, EjecutaTipo DEF Situada, EnCpu, Ejecuta
  <2>2. cpu.pcb \in Vivos
    BY <2>1 DEF Unicidad, PlazaUnica, Uno
  <2>3. cpu.pcb # p
    BY <1>1, <2>2 DEF Vivos
  <2> QED
    BY <1>1, <2>3 DEF Ejecuta, TipoOK, TipoProcesos
<1>2. ASSUME CpuRecibe \/ CpuRespuesta \/ CpuInesperado PROVE UNCHANGED pc
  BY <1>2 DEF CpuRecibe, CpuRespuesta, CpuInesperado
<1>3. ASSUME CpuLocal \/ CpuSegFault \/ CpuDevuelve \/ CpuLlama
      PROVE  \A p \in Procesos : motivo[p] # "ninguno" => pc'[p] = pc[p]
  BY <1>1, <1>3 DEF CpuLocal, CpuSegFault, CpuDevuelve, CpuLlama
<1>4. ASSUME \/ HiloNew \/ HiloReady \/ HiloFs \/ HiloIO \/ FileSystemTermina
             \/ \E p \in Procesos : Consola(p)
             \/ \E r \in Recursos : HiloRecurso(r)
      PROVE  UNCHANGED pc
  BY <1>4 DEF HiloNew, NewDespierta, NewVacia, NewQuita, NewEncola, NewAvisa, HiloReady,
         ReadyDespierta, ReadyVacia, ReadyQuita, ReadyEnvia, HiloFs, FsDesbloqueado, FsEncola,
         FsAvisa, HiloIO, IOAvisa, IOEncola, FileSystemTermina, Consola, ConsolaEncola,
         ConsolaAvisa, HiloRecurso, RecursoDespierta, RecursoEncola, RecursoAvisa
<1>5. ASSUME NEW q \in Procesos, AtenderSyscall(q) PROVE UNCHANGED pc
  BY <1>5 DEF AtenderSyscall, AtenderDesalojado, AtenderIO, AtenderArchivo, AtenderWait,
         AtenderSignal, AtenderWaitInexistente, AtenderSignalInexistente, AtenderCrearSegmento,
         AtenderEliminarSegmento, AtenderFinalizar
<1>6. ASSUME ContinuarHandler PROVE UNCHANGED pc
  BY <1>6 DEF ContinuarHandler, CpuAvisaReady, Habilitar, EnviarArchivo, LiberarGrado,
         EliminarProceso, CreacionExitosa, SinMemoria, HabilitarSinMemoria, LiberarSinMemoria,
         RealizarCompactacion, PedirCompactacion, FinCompactacion
<1> QED
  BY <1>2, <1>3, <1>4, <1>5, <1>6 DEF Next, HiloCpu, Cpu

\* A process logged as finished executes no further instruction, if every WAIT
\* names a configured resource. PlanError1 shows that one which does not is
\* enough to break it.
THEOREM FinalizadoNoEjecutaCorrecto ==
    ASSUME RecursosConfigurados
    PROVE  Spec => FinalizadoNoEjecuta
<1>1. Init => Ficha /\ Unicidad
  BY FichaInicial, UnicidadInicial
<1>2. TipoOK /\ TipoOK' /\ Ficha /\ [Next]_vars => Ficha'
  BY FichaPaso
<1>3. TipoOK /\ TipoOK' /\ Ficha /\ Ficha' /\ Unicidad /\ [Next]_vars => Unicidad'
  BY UnicidadPaso
<1>4. TipoOK /\ Ficha /\ Unicidad /\ [Next]_vars
        => [\A p \in Procesos : motivo[p] # "ninguno" => pc'[p] = pc[p]]_vars
  BY NoEjecutaPaso
<1> QED
  BY <1>1, <1>2, <1>3, <1>4, TipoCorrecto, PTL DEF Spec, FinalizadoNoEjecuta

-----------------------------------------------------------------------------
(* No slot is lost when SIGNAL names configured resources too. *)

SenalesConfiguradas ==
    \A prog \in Programas : \A i \in DOMAIN prog :
        prog[i].op = "SIGNAL" => prog[i].rec \in Recursos

\* A SIGNAL on its way to the kernel names a configured resource.
SenalConfigurada ==
    \A i \in DOMAIN de_cpu :
        de_cpu[i].op = "EJECUTAR_SIGNAL" => UltimaInstruccion(de_cpu[i].pid).rec \in Recursos

SinFugas == Fugados = {} /\ SenalConfigurada

LEMMA SinFugasInicial == ASSUME Init PROVE SinFugas
  BY DEF Init, SinFugas, Fugados, SenalConfigurada

LEMMA SinFugasQuieto ==
    ASSUME SinFugas, UNCHANGED <<motivo, programa, pc, de_cpu>>
    PROVE  SinFugas'
  BY DEF SinFugas, Fugados, SenalConfigurada, UltimaInstruccion

\* The CPU sends a call: the instruction is one of the program's.
LEMMA SinFugasCpu ==
    ASSUME TipoOK, Ficha, SinFugas, SenalesConfiguradas, Cpu
    PROVE  SinFugas'
<1> USE DEF procesos, kernel, canales
<1>1. UNCHANGED <<motivo, programa>>
  BY DEF Cpu, CpuRecibe, CpuLocal, CpuSegFault, CpuDevuelve, CpuLlama, CpuRespuesta,
         CpuInesperado, Ejecuta
<1>2. Fugados' = {}
  BY <1>1 DEF SinFugas, Fugados
<1>3. ASSUME CpuRecibe \/ CpuRespuesta \/ CpuInesperado PROVE SinFugas'
  BY <1>3, SinFugasQuieto DEF CpuRecibe, CpuRespuesta, CpuInesperado
<1>4. ASSUME NEW ops, Ejecuta(ops)
      PROVE  /\ de_cpu = <<>> /\ cpu.pcb \in Procesos
             /\ UltimaInstruccion(cpu.pcb)' = programa'[cpu'.pcb][pc'[cpu'.pcb]]
             /\ pc'[cpu.pcb] = pc[cpu.pcb] + 1 /\ Siguiente(cpu.pcb).op \in ops
             /\ Siguiente(cpu.pcb).op = "SIGNAL" => Siguiente(cpu.pcb).rec \in Recursos
  <2>1. de_cpu = <<>>
    BY <1>4, FichaExclusiva DEF Ficha, EnCpu, DesdeCpu, Ejecuta
  <2>2. cpu.pcb \in Procesos
    BY <1>4, EjecutaTipo
  <2>3. pc'[cpu.pcb] = pc[cpu.pcb] + 1
    BY <1>4, <2>2 DEF Ejecuta, TipoOK, TipoProcesos
  <2>4. programa[cpu.pcb] \in Programas /\ pc[cpu.pcb] \in Nat /\ pc[cpu.pcb] < Len(programa[cpu.pcb])
    BY <1>4, <2>2 DEF Ejecuta, TipoOK, TipoProcesos
  <2>5. programa[cpu.pcb] \in Seq(Instruccion)
    BY <2>4, SupuestosPlanificador
  <2>6. pc[cpu.pcb] + 1 \in DOMAIN programa[cpu.pcb]
    BY <2>4, <2>5
  <2>7. Siguiente(cpu.pcb).op = "SIGNAL" => Siguiente(cpu.pcb).rec \in Recursos
    BY <2>4, <2>6 DEF SenalesConfiguradas, Siguiente
  <2> QED
    BY <1>4, <2>1, <2>2, <2>3, <2>7 DEF UltimaInstruccion, Ejecuta
<1>5. CASE CpuLocal
  <2>1. de_cpu' = <<>>
    BY <1>4, <1>5 DEF CpuLocal
  <2> QED
    BY <1>2, <2>1 DEF SinFugas, SenalConfigurada
<1>6. ASSUME NEW op, NEW ops, Ejecuta(ops), de_cpu' = Append(de_cpu, Mensaje(op, cpu.pcb)),
             op = "EJECUTAR_SIGNAL" => Siguiente(cpu.pcb).op = "SIGNAL"
      PROVE  SinFugas'
  <2>1. PICK q \in Procesos : q = cpu.pcb
    BY <1>4, <1>6
  <2>2. de_cpu' = <<Mensaje(op, q)>>
    <3>1. \A m : Append(<<>>, m) = <<m>>
      OBVIOUS
    <3> QED
      BY <1>4, <1>6, <2>1, <3>1, Zenon
  <2>3. op = "EJECUTAR_SIGNAL" => programa[q][pc[q] + 1].rec \in Recursos
    BY <1>4, <1>6, <2>1 DEF Siguiente
  <2>4. programa'[q][pc'[q]] = programa[q][pc[q] + 1]
    BY <1>1, <1>4, <1>6, <2>1
  <2> DEFINE m == Mensaje(op, q)
  <2>5. /\ de_cpu' = <<m>>
        /\ m.op = "EJECUTAR_SIGNAL" => programa'[m.pid][pc'[m.pid]].rec \in Recursos
    BY <2>2, <2>3, <2>4 DEF Mensaje
  <2> HIDE DEF m
  <2>6. SenalConfigurada'
    BY <2>5 DEF SenalConfigurada, UltimaInstruccion
  <2> QED
    BY <1>2, <2>6 DEF SinFugas
<1>7. CASE CpuSegFault
  BY <1>6, <1>7 DEF CpuSegFault
<1>8. CASE CpuDevuelve
  <2>1. Siguiente(cpu.pcb).op \in {"YIELD", "IO", "EXIT"}
    BY <1>8 DEF CpuDevuelve, Ejecuta
  <2>2. CodigoOp[Siguiente(cpu.pcb).op] # "EJECUTAR_SIGNAL"
    BY <2>1 DEF CodigoOp
  <2> QED
    BY <1>6, <1>8, <2>2 DEF CpuDevuelve
<1>9. CASE CpuLlama
  <2>1. Siguiente(cpu.pcb).op \in {"WAIT", "SIGNAL", "F_READ", "CREATE_SEGMENT", "DELETE_SEGMENT"}
    BY <1>9 DEF CpuLlama, Ejecuta
  <2>2. CodigoOp[Siguiente(cpu.pcb).op] = "EJECUTAR_SIGNAL" => Siguiente(cpu.pcb).op = "SIGNAL"
    BY <2>1 DEF CodigoOp
  <2> QED
    BY <1>6, <1>9, <2>2 DEF CpuLlama
<1> QED
  BY <1>3, <1>5, <1>7, <1>8, <1>9 DEF Cpu

LEMMA SinFugasPaso ==
    ASSUME TipoOK, Ficha, SinFugas, SenalesConfiguradas, [Next]_vars
    PROVE  SinFugas'
<1> USE DEF procesos, new, ready, recursos, hilos, otrosHilos, semaforos, kernel, canales
<1>1. CASE UNCHANGED vars
  BY <1>1, SinFugasQuieto DEF vars
<1>2. ASSUME \/ HiloNew \/ HiloReady \/ HiloFs \/ HiloIO \/ FileSystemTermina
             \/ \E p \in Procesos : Consola(p)
             \/ \E r \in Recursos : HiloRecurso(r)
      PROVE  SinFugas'
  <2>1. UNCHANGED <<motivo, programa, pc, de_cpu>>
    BY <1>2 DEF HiloNew, NewDespierta, NewVacia, NewQuita, NewEncola, NewAvisa, HiloReady,
         ReadyDespierta, ReadyVacia, ReadyQuita, ReadyEnvia, HiloFs, FsDesbloqueado, FsEncola,
         FsAvisa, HiloIO, IOAvisa, IOEncola, FileSystemTermina, Consola, ConsolaEncola,
         ConsolaAvisa, HiloRecurso, RecursoDespierta, RecursoEncola, RecursoAvisa
  <2> QED
    BY <2>1, SinFugasQuieto
<1>3. ASSUME NEW q \in Procesos, AtenderSyscall(q) PROVE SinFugas'
  <2>1. \E op : Recibe(op, q) /\ UNCHANGED <<programa, pc, cpu>>
    BY <1>3 DEF AtenderSyscall, AtenderDesalojado, AtenderIO, AtenderArchivo, AtenderWait,
         AtenderSignal, AtenderWaitInexistente, AtenderSignalInexistente, AtenderCrearSegmento,
         AtenderEliminarSegmento, AtenderFinalizar
  <2>2. de_cpu' = <<>>
    BY <2>1, RecibirFicha DEF DesdeCpu
  <2>3. ~AtenderSignalInexistente(q)
    <3>1. ASSUME Recibe("EJECUTAR_SIGNAL", q) PROVE UltimaInstruccion(q).rec \in Recursos
      <4>1. de_cpu \in Seq(DelCpu) /\ de_cpu # <<>> /\ Head(de_cpu) = Mensaje("EJECUTAR_SIGNAL", q)
        BY <3>1 DEF Recibe, TipoOK, TipoSockets
      <4>2. 1 \in DOMAIN de_cpu /\ de_cpu[1] = Mensaje("EJECUTAR_SIGNAL", q)
        BY <4>1
      <4> QED
        BY <4>2 DEF SinFugas, SenalConfigurada, Mensaje
    <3> QED
      BY <3>1 DEF AtenderSignalInexistente
  <2>4. ~AtenderWaitInexistente(q)
    BY RecibirFicha DEF AtenderWaitInexistente
  <2>5. ASSUME NEW op \in {"FINALIZAR", "SEG_FAULT"}, AtenderFinalizar(op, q) PROVE Fugados' = {}
    BY <2>5 DEF AtenderFinalizar, SinFugas, Fugados, TipoOK, TipoProcesos
  <2>6. UNCHANGED motivo \/ \E op \in {"FINALIZAR", "SEG_FAULT"} : AtenderFinalizar(op, q)
    BY <1>3, <2>3, <2>4
       DEF AtenderSyscall, AtenderDesalojado, AtenderIO, AtenderArchivo, AtenderWait,
           AtenderSignal, AtenderCrearSegmento, AtenderEliminarSegmento
  <2>7. Fugados' = {}
    BY <2>5, <2>6 DEF SinFugas, Fugados
  <2> QED
    BY <2>2, <2>7 DEF SinFugas, SenalConfigurada
<1>4. CASE ContinuarHandler
  <2>1. UNCHANGED <<programa, pc, de_cpu>>
    BY <1>4 DEF ContinuarHandler, CpuAvisaReady, Habilitar, EnviarArchivo, LiberarGrado,
         EliminarProceso, CreacionExitosa, SinMemoria, HabilitarSinMemoria, LiberarSinMemoria,
         RealizarCompactacion, PedirCompactacion, FinCompactacion
  <2>2. Fugados' = {}
    <3>1. CASE SinMemoria
      BY <3>1 DEF SinMemoria, SinFugas, Fugados, TipoOK, TipoProcesos
    <3>2. CASE ~SinMemoria
      <4>1. UNCHANGED motivo
        BY <1>4, <3>2 DEF ContinuarHandler, CpuAvisaReady, Habilitar, EnviarArchivo, LiberarGrado,
         EliminarProceso, CreacionExitosa, HabilitarSinMemoria, LiberarSinMemoria,
         RealizarCompactacion, PedirCompactacion, FinCompactacion
      <4> QED
        BY <4>1 DEF SinFugas, Fugados
    <3> QED
      BY <3>1, <3>2
  <2> QED
    BY <2>1, <2>2 DEF SinFugas, SenalConfigurada, UltimaInstruccion
<1> QED
  BY <1>1, <1>2, <1>3, <1>4, SinFugasCpu DEF Next, HiloCpu

LEMMA SlotsImplica == ASSUME TipoOK, Slots, SinFugas PROVE SlotsConservados
<1>1. Ocupantes = {p \in Procesos : EstadoDe(p) \in {"READY", "EXEC", "BLOCK"}}
  BY DEF Ocupantes, Activos, SinFugas
<1>2. Cardinality(Ocupantes) \in Nat /\ sem_multiprogramacion \in Nat
  BY FS_CardinalityType DEF Slots, TipoOK, TipoSemaforos
<1> QED
  BY <1>1, <1>2 DEF SlotsConservados, Slots, Cupos, Uno

\* Multiprogramming slots are neither lost nor invented: each is free, taken by
\* an admitted process, or changing hands.
THEOREM SlotsConservadosCorrecto ==
    ASSUME RecursosConfigurados, SenalesConfiguradas
    PROVE  Spec => []SlotsConservados
<1>1. Init => Ficha /\ SinFugas
  BY FichaInicial, SinFugasInicial
<1>2. TipoOK /\ TipoOK' /\ Ficha /\ [Next]_vars => Ficha'
  BY FichaPaso
<1>3. TipoOK /\ Ficha /\ SinFugas /\ [Next]_vars => SinFugas'
  BY SinFugasPaso
<1>4. TipoOK /\ Slots /\ SinFugas => SlotsConservados
  BY SlotsImplica
<1> QED
  BY <1>1, <1>2, <1>3, <1>4, TipoCorrecto, SlotsCorrecto, PTL DEF Spec

-----------------------------------------------------------------------------
(* The accounts of the resources. Who has taken a resource is known from     *)
(* what the kernel has counted of each program: one process more has taken   *)
(* it for each instance less. Who is queued has taken it too, so whoever     *)
(* signals, with one instance, finds the queue with as many processes as the *)
(* resource owes and no post to come.                                        *)

DeRecurso(i, r) == i.op \in {"WAIT", "SIGNAL"} /\ i.rec = r

\* The last WAIT or SIGNAL of r among the first c instructions of g is a WAIT.
Toma(g, c, r) ==
    \E j \in 1..c : /\ g[j].op = "WAIT" /\ g[j].rec = r
                    /\ \A k \in (j + 1)..c : ~DeRecurso(g[k], r)

\* A program gives back only what it holds, and waits only for what it does not.
DevuelveLoSuyo ==
    \A g \in Programas : \A i \in DOMAIN g :
        /\ g[i].op = "SIGNAL" => Toma(g, i - 1, g[i].rec)
        /\ g[i].op = "WAIT" => ~Toma(g, i - 1, g[i].rec)

UnaInstanciaOMenos == \A r \in Recursos : InstanciasIniciales[r] <= 1

\* The CPU has sent the kernel a WAIT or a SIGNAL of p.
PorContar(p) ==
    \E i \in DOMAIN de_cpu :
        de_cpu[i].pid = p /\ de_cpu[i].op \in {"EJECUTAR_WAIT", "EJECUTAR_SIGNAL"}

\* The instructions of p that the kernel has counted.
Contadas(p) == IF PorContar(p) THEN pc[p] - 1 ELSE pc[p]

\* The processes that have taken r: each holds it or is queued for it, or has
\* ended with it.
Tienen(r) == {p \in Procesos : Toma(programa[p], Contadas(p), r)}

\* What is on its way is the instruction last executed.
LlamadaFiel ==
    \A i \in DOMAIN de_cpu :
        LET p == de_cpu[i].pid
        IN  /\ de_cpu[i].op = "EJECUTAR_WAIT" => UltimaInstruccion(p).op = "WAIT"
            /\ de_cpu[i].op = "EJECUTAR_SIGNAL" => UltimaInstruccion(p).op = "SIGNAL"
            /\ PorContar(p) => pc[p] \in DOMAIN programa[p]

LEMMA TomaAvanza ==
    ASSUME NEW g, NEW c \in Nat, NEW r
    PROVE  /\ ~DeRecurso(g[c + 1], r) => (Toma(g, c + 1, r) <=> Toma(g, c, r))
           /\ g[c + 1].op = "WAIT" /\ g[c + 1].rec = r => Toma(g, c + 1, r)
           /\ g[c + 1].op = "SIGNAL" /\ g[c + 1].rec = r => ~Toma(g, c + 1, r)
<1>1. ASSUME ~DeRecurso(g[c + 1], r), Toma(g, c + 1, r) PROVE Toma(g, c, r)
  <2>1. PICK j \in 1..(c + 1) : /\ g[j].op = "WAIT" /\ g[j].rec = r
                                /\ \A k \in (j + 1)..(c + 1) : ~DeRecurso(g[k], r)
    BY <1>1 DEF Toma
  <2>2. j # c + 1
    BY <1>1, <2>1 DEF DeRecurso
  <2>3. j \in 1..c /\ \A k \in (j + 1)..c : k \in (j + 1)..(c + 1)
    BY <2>2
  <2> QED
    BY <2>1, <2>3 DEF Toma
<1>2. ASSUME ~DeRecurso(g[c + 1], r), Toma(g, c, r) PROVE Toma(g, c + 1, r)
  <2>1. PICK j \in 1..c : /\ g[j].op = "WAIT" /\ g[j].rec = r
                          /\ \A k \in (j + 1)..c : ~DeRecurso(g[k], r)
    BY <1>2 DEF Toma
  <2>2. j \in 1..(c + 1) /\ \A k \in (j + 1)..(c + 1) : k = c + 1 \/ k \in (j + 1)..c
    OBVIOUS
  <2>3. \A k \in (j + 1)..(c + 1) : ~DeRecurso(g[k], r)
    BY <1>2, <2>1, <2>2
  <2> QED
    BY <2>1, <2>2, <2>3 DEF Toma
<1>3. ASSUME g[c + 1].op = "WAIT", g[c + 1].rec = r PROVE Toma(g, c + 1, r)
  <2>1. c + 1 \in 1..(c + 1) /\ ((c + 1) + 1)..(c + 1) = {}
    OBVIOUS
  <2> QED
    BY <1>3, <2>1 DEF Toma
<1>4. ASSUME g[c + 1].op = "SIGNAL", g[c + 1].rec = r, Toma(g, c + 1, r) PROVE FALSE
  <2>1. PICK j \in 1..(c + 1) : /\ g[j].op = "WAIT"
                                /\ \A k \in (j + 1)..(c + 1) : ~DeRecurso(g[k], r)
    BY <1>4 DEF Toma
  <2>2. j # c + 1
    BY <1>4, <2>1
  <2>3. c + 1 \in (j + 1)..(c + 1)
    BY <2>2
  <2> QED
    BY <1>4, <2>1, <2>3 DEF DeRecurso
<1> QED
  BY <1>1, <1>2, <1>3, <1>4

\* As many places as processes, in a queue that repeats none.
LEMMA LargoDeCola ==
    ASSUME NEW S, NEW s \in Seq(S), IsInjective(s)
    PROVE  IsFiniteSet(ToSet(s)) /\ Cardinality(ToSet(s)) = Len(s)
<1>1. Len(s) \in Nat /\ DOMAIN s = 1..Len(s)
  OBVIOUS
<1>2. ExistsBijection(1..Len(s), ToSet(s))
  <2>1. s \in [1..Len(s) -> ToSet(s)] /\ \A y \in ToSet(s) : \E i \in 1..Len(s) : s[i] = y
    BY <1>1 DEF ToSet
  <2>2. \A i, j \in 1..Len(s) : s[i] = s[j] => i = j
    BY <1>1 DEF IsInjective
  <2> QED
    BY <2>1, <2>2 DEF ExistsBijection, Bijection, Injection, Surjection
<1>3. IsFiniteSet(1..Len(s)) /\ Cardinality(1..Len(s)) = Len(s)
  BY <1>1, FS_Interval
<1> QED
  BY <1>2, <1>3, FS_Bijection

\* The list of who has taken r moves with what the kernel has counted.
LEMMA TienenQuieto ==
    ASSUME NEW r, UNCHANGED programa, \A p \in Procesos :
             Toma(programa[p], Contadas(p)', r) <=> Toma(programa[p], Contadas(p), r)
    PROVE  Tienen(r)' = Tienen(r)
  BY DEF Tienen

LEMMA ContadasQuietas ==
    ASSUME UNCHANGED <<programa, pc, de_cpu>>
    PROVE  (\A r : Tienen(r)' = Tienen(r)) /\ (LlamadaFiel => LlamadaFiel')
<1>1. \A p : (PorContar(p)' <=> PorContar(p)) /\ UltimaInstruccion(p)' = UltimaInstruccion(p)
  BY DEF PorContar, UltimaInstruccion
<1>2. \A p : Contadas(p)' = Contadas(p)
  BY <1>1 DEF Contadas
<1> QED
  BY <1>1, <1>2 DEF Tienen, LlamadaFiel

\* The CPU executes: a WAIT or a SIGNAL is on its way until the kernel counts
\* it, and other instructions count for nothing.
LEMMA TienenCpu ==
    ASSUME TipoOK, Ficha, LlamadaFiel, Cpu
    PROVE  LlamadaFiel' /\ \A r : Tienen(r)' = Tienen(r)
<1> USE DEF procesos, kernel, canales
<1>1. ASSUME CpuRecibe \/ CpuRespuesta \/ CpuInesperado
      PROVE  LlamadaFiel' /\ \A r : Tienen(r)' = Tienen(r)
  BY <1>1, ContadasQuietas DEF CpuRecibe, CpuRespuesta, CpuInesperado
<1>2. ASSUME NEW ops, Ejecuta(ops), NEW m,
             \/ de_cpu' = <<>> /\ Siguiente(cpu.pcb).op \notin {"WAIT", "SIGNAL"}
             \/ /\ de_cpu' = Append(de_cpu, m) /\ m.pid = cpu.pcb
                /\ m.op = "EJECUTAR_WAIT" => Siguiente(cpu.pcb).op = "WAIT"
                /\ m.op = "EJECUTAR_SIGNAL" => Siguiente(cpu.pcb).op = "SIGNAL"
                /\ Siguiente(cpu.pcb).op = "WAIT" => m.op = "EJECUTAR_WAIT"
                /\ Siguiente(cpu.pcb).op = "SIGNAL" => m.op = "EJECUTAR_SIGNAL"
      PROVE  LlamadaFiel' /\ \A r : Tienen(r)' = Tienen(r)
  <2>1. PICK q \in Procesos : q = cpu.pcb
    BY <1>2, EjecutaTipo
  <2> DEFINE g == programa[q]
             c == pc[q]
  <2>2. de_cpu = <<>>
    BY <1>2, FichaExclusiva DEF Ficha, EnCpu, DesdeCpu, Ejecuta
  <2>3. /\ c \in Nat /\ pc'[q] = c + 1 /\ programa' = programa
        /\ \A p \in Procesos : p # q => pc'[p] = pc[p]
    BY <1>2, <2>1 DEF Ejecuta, TipoOK, TipoProcesos
  <2>4. c + 1 \in DOMAIN g
    <3>1. g \in Seq(Instruccion) /\ c < Len(g)
      BY <1>2, <2>1, SupuestosPlanificador DEF Ejecuta, TipoOK, TipoProcesos
    <3> QED
      BY <2>3, <3>1
  <2>5. Siguiente(cpu.pcb) = g[c + 1]
    BY <2>1 DEF Siguiente
  <2>6. \A p : ~PorContar(p)
    BY <2>2 DEF PorContar
  <2>7. ASSUME NEW l, de_cpu' = <<l>>
        PROVE  \A p : PorContar(p)' <=> l.pid = p /\ l.op \in {"EJECUTAR_WAIT", "EJECUTAR_SIGNAL"}
    BY <2>7 DEF PorContar
  <2>8. de_cpu' = <<>> => \A p : ~PorContar(p)'
    BY DEF PorContar
  <2>9. de_cpu' # <<>> => de_cpu' = <<m>> /\ m.pid = q
    <3>1. Append(<<>>, m) = <<m>>
      OBVIOUS
    <3> QED
      BY <1>2, <2>1, <2>2, <3>1, Zenon
  <2> HIDE DEF g, c
  <2>10. \A p : PorContar(p)' <=> p = q /\ g[c + 1].op \in {"WAIT", "SIGNAL"}
    BY <1>2, <2>5, <2>7, <2>8, <2>9
  <2>11. \A p : /\ p # q => Contadas(p)' = IF PorContar(p)' THEN pc'[p] - 1 ELSE pc'[p]
                /\ Contadas(p) = pc[p]
    BY <2>6 DEF Contadas
  <2>12. Contadas(q)' = IF g[c + 1].op \in {"WAIT", "SIGNAL"} THEN c ELSE c + 1
    BY <2>3, <2>10 DEF Contadas
  <2>13. ASSUME NEW r, NEW p \in Procesos
         PROVE  Toma(programa[p], Contadas(p)', r) <=> Toma(programa[p], Contadas(p), r)
    <3>1. CASE p # q
      BY <2>3, <2>10, <2>11, <3>1
    <3>2. CASE p = q
      <4>1. Contadas(p) = c /\ programa[p] = g
        BY <2>11, <3>2 DEF c, g
      <4>2. CASE g[c + 1].op \in {"WAIT", "SIGNAL"}
        BY <2>12, <3>2, <4>1, <4>2
      <4>3. CASE g[c + 1].op \notin {"WAIT", "SIGNAL"}
        <5>1. ~DeRecurso(g[c + 1], r)
          BY <4>3 DEF DeRecurso
        <5>2. Toma(g, c + 1, r) <=> Toma(g, c, r)
          BY <2>3, <5>1, TomaAvanza
        <5> QED
          BY <2>12, <3>2, <4>1, <4>3, <5>2
      <4> QED
        BY <4>2, <4>3
    <3> QED
      BY <3>1, <3>2
  <2>14. \A r : Tienen(r)' = Tienen(r)
    BY <2>3, <2>13, TienenQuieto
  <2>15. UltimaInstruccion(q)' = g[c + 1] /\ programa'[q] = g
    BY <2>3 DEF UltimaInstruccion, g
  <2>16. LlamadaFiel'
    <3>1. CASE de_cpu' = <<>>
      BY <3>1 DEF LlamadaFiel
    <3>2. CASE de_cpu' # <<>>
      <4>1. de_cpu' = <<m>> /\ m.pid = q
        BY <2>9, <3>2
      <4>2. /\ m.op = "EJECUTAR_WAIT" => g[c + 1].op = "WAIT"
            /\ m.op = "EJECUTAR_SIGNAL" => g[c + 1].op = "SIGNAL"
        BY <1>2, <2>5, <3>2
      <4>3. \A i \in DOMAIN de_cpu' : de_cpu'[i] = m
        BY <4>1
      <4> QED
        BY <2>3, <2>4, <2>15, <4>1, <4>2, <4>3 DEF LlamadaFiel, UltimaInstruccion
    <3> QED
      BY <3>1, <3>2
  <2> QED
    BY <2>14, <2>16
<1>3. ASSUME NEW ops, Ejecuta(ops) PROVE de_cpu = <<>>
  BY <1>3, FichaExclusiva DEF Ficha, EnCpu, DesdeCpu, Ejecuta
<1>4. CASE CpuLocal
  <2>1. Siguiente(cpu.pcb).op \notin {"WAIT", "SIGNAL"} /\ de_cpu' = <<>>
    BY <1>3, <1>4 DEF CpuLocal, Ejecuta
  <2> QED
    BY <1>2, <1>4, <2>1 DEF CpuLocal
<1>5. CASE CpuSegFault
  <2> DEFINE m == Mensaje("SEG_FAULT", cpu.pcb)
  <2>1. /\ Ejecuta({"MOV_IN"}) /\ de_cpu' = Append(de_cpu, m)
        /\ m.pid = cpu.pcb /\ m.op = "SEG_FAULT" /\ Siguiente(cpu.pcb).op = "MOV_IN"
    BY <1>5 DEF CpuSegFault, Ejecuta, Mensaje
  <2> HIDE DEF m
  <2> QED
    BY <1>2, <2>1
<1>6. ASSUME NEW ops \in SUBSET DOMAIN CodigoOp, Ejecuta(ops),
             de_cpu' = Append(de_cpu, Mensaje(CodigoOp[Siguiente(cpu.pcb).op], cpu.pcb))
      PROVE  LlamadaFiel' /\ \A r : Tienen(r)' = Tienen(r)
  <2> DEFINE m == Mensaje(CodigoOp[Siguiente(cpu.pcb).op], cpu.pcb)
  <2>1. /\ de_cpu' = Append(de_cpu, m) /\ m.pid = cpu.pcb
        /\ m.op = CodigoOp[Siguiente(cpu.pcb).op] /\ Siguiente(cpu.pcb).op \in DOMAIN CodigoOp
    BY <1>6 DEF Ejecuta, Mensaje
  <2> HIDE DEF m
  <2>2. /\ m.op = "EJECUTAR_WAIT" <=> Siguiente(cpu.pcb).op = "WAIT"
        /\ m.op = "EJECUTAR_SIGNAL" <=> Siguiente(cpu.pcb).op = "SIGNAL"
    BY <2>1 DEF CodigoOp
  <2> QED
    BY <1>2, <1>6, <2>1, <2>2
<1>7. CASE CpuDevuelve \/ CpuLlama
  <2>1. /\ {"YIELD", "IO", "EXIT"} \in SUBSET DOMAIN CodigoOp
        /\ {"WAIT", "SIGNAL", "F_READ", "CREATE_SEGMENT", "DELETE_SEGMENT"} \in SUBSET DOMAIN CodigoOp
    BY DEF CodigoOp
  <2> QED
    BY <1>6, <1>7, <2>1 DEF CpuDevuelve, CpuLlama
<1> QED
  BY <1>1, <1>4, <1>5, <1>7 DEF Cpu

\* The kernel takes a message of p: what it counts is the instruction that p
\* executed last.
LEMMA TienenRecibe ==
    ASSUME TipoOK, Ficha, LlamadaFiel, NEW p \in Procesos, NEW op, Recibe(op, p),
           UNCHANGED <<programa, pc>>
    PROVE  /\ LlamadaFiel'
           /\ op \notin {"EJECUTAR_WAIT", "EJECUTAR_SIGNAL"} => \A r : Tienen(r)' = Tienen(r)
           /\ op = "EJECUTAR_WAIT" =>
                /\ \A r : Tienen(r)' = IF r = UltimaInstruccion(p).rec THEN Tienen(r) \cup {p}
                                       ELSE Tienen(r)
                /\ DevuelveLoSuyo => p \notin Tienen(UltimaInstruccion(p).rec)
           /\ op = "EJECUTAR_SIGNAL" =>
                /\ \A r : Tienen(r)' = IF r = UltimaInstruccion(p).rec THEN Tienen(r) \ {p}
                                       ELSE Tienen(r)
                /\ DevuelveLoSuyo => p \in Tienen(UltimaInstruccion(p).rec)
<1>1. de_cpu' = <<>> /\ DOMAIN de_cpu = {1} /\ de_cpu[1].op = op /\ de_cpu[1].pid = p
  <2>1. de_cpu \in Seq(DelCpu) /\ de_cpu # <<>> /\ de_cpu' = Tail(de_cpu) /\ Head(de_cpu) = Mensaje(op, p)
    BY DEF TipoOK, TipoSockets, Recibe
  <2>2. Len(de_cpu) \in Nat /\ Len(de_cpu) # 0 /\ DOMAIN de_cpu = 1..Len(de_cpu) /\ Head(de_cpu) = de_cpu[1]
    BY <2>1
  <2>3. Len(de_cpu) <= 1
    BY DEF Ficha, RespuestaUnica
  <2>4. Len(de_cpu) = 1
    BY <2>2, <2>3
  <2>5. Tail(de_cpu) = <<>>
    BY <2>1, <2>4
  <2> QED
    BY <2>1, <2>2, <2>4, <2>5 DEF Mensaje
<1> DEFINE g == programa[p]
           WS == op \in {"EJECUTAR_WAIT", "EJECUTAR_SIGNAL"}
<1>2. \A q : (PorContar(q) <=> q = p /\ WS) /\ ~PorContar(q)'
  BY <1>1 DEF PorContar
<1>3. LlamadaFiel'
  BY <1>1 DEF LlamadaFiel
<1>4. \A q : /\ Contadas(q)' = pc[q] /\ (q # p \/ ~WS => Contadas(q) = pc[q])
             /\ WS => Contadas(p) = pc[p] - 1
  BY <1>2 DEF Contadas
<1>5. ASSUME ~WS, NEW r PROVE Tienen(r)' = Tienen(r)
  BY <1>4, <1>5 DEF Tienen
<1>6. ASSUME WS
      PROVE  /\ pc[p] \in DOMAIN g /\ UltimaInstruccion(p) = g[pc[p]]
             /\ op = "EJECUTAR_WAIT" => g[pc[p]].op = "WAIT"
             /\ op = "EJECUTAR_SIGNAL" => g[pc[p]].op = "SIGNAL"
  BY <1>1, <1>2, <1>6 DEF LlamadaFiel, UltimaInstruccion
<1>7. g \in Programas /\ g \in Seq(Instruccion) /\ pc[p] \in Nat
  BY SupuestosPlanificador DEF TipoOK, TipoProcesos
<1>8. ASSUME NEW r, NEW q \in Procesos, q # p PROVE q \in Tienen(r)' <=> q \in Tienen(r)
  BY <1>4, <1>8 DEF Tienen
<1>9. ASSUME NEW r
      PROVE  (p \in Tienen(r)' <=> Toma(g, pc[p], r)) /\ (WS => (p \in Tienen(r) <=> Toma(g, pc[p] - 1, r)))
  BY <1>4 DEF Tienen
<1>10. ASSUME WS, NEW r
       PROVE  /\ ~DeRecurso(g[pc[p]], r) => (Toma(g, pc[p], r) <=> Toma(g, pc[p] - 1, r))
              /\ g[pc[p]].op = "WAIT" /\ g[pc[p]].rec = r => Toma(g, pc[p], r)
              /\ g[pc[p]].op = "SIGNAL" /\ g[pc[p]].rec = r => ~Toma(g, pc[p], r)
  <2> DEFINE c == pc[p] - 1
  <2>1. c \in Nat /\ c + 1 = pc[p]
    <3>1. pc[p] # 0
      BY <1>6, <1>7, <1>10
    <3> QED
      BY <1>7, <3>1
  <2> HIDE DEF c
  <2>2. /\ ~DeRecurso(g[c + 1], r) => (Toma(g, c + 1, r) <=> Toma(g, c, r))
        /\ g[c + 1].op = "WAIT" /\ g[c + 1].rec = r => Toma(g, c + 1, r)
        /\ g[c + 1].op = "SIGNAL" /\ g[c + 1].rec = r => ~Toma(g, c + 1, r)
    BY <2>1, TomaAvanza
  <2> QED
    BY <2>1, <2>2 DEF c
<1>s. PICK s : s = UltimaInstruccion(p).rec
  OBVIOUS
<1>11. ASSUME WS, NEW r, r # s PROVE Tienen(r)' = Tienen(r)
  <2>1. ~DeRecurso(g[pc[p]], r)
    BY <1>s, <1>6, <1>11 DEF DeRecurso
  <2>2. p \in Tienen(r)' <=> p \in Tienen(r)
    BY <1>9, <1>10, <1>11, <2>1
  <2>3. Tienen(r) \subseteq Procesos /\ Tienen(r)' \subseteq Procesos
    BY DEF Tienen
  <2> QED
    BY <1>8, <2>2, <2>3
<1>12. Tienen(s) \subseteq Procesos /\ Tienen(s)' \subseteq Procesos
  BY DEF Tienen
<1>13. ASSUME op = "EJECUTAR_WAIT"
       PROVE  Tienen(s)' = Tienen(s) \cup {p} /\ (DevuelveLoSuyo => p \notin Tienen(s))
  <2>1. WS /\ g[pc[p]].op = "WAIT" /\ g[pc[p]].rec = s /\ pc[p] \in DOMAIN g
    BY <1>s, <1>6, <1>13
  <2>2. DevuelveLoSuyo => ~Toma(g, pc[p] - 1, s)
    BY <1>7, <2>1 DEF DevuelveLoSuyo
  <2> QED
    BY <1>8, <1>9, <1>10, <1>12, <2>1, <2>2
<1>14. ASSUME op = "EJECUTAR_SIGNAL"
       PROVE  Tienen(s)' = Tienen(s) \ {p} /\ (DevuelveLoSuyo => p \in Tienen(s))
  <2>1. WS /\ g[pc[p]].op = "SIGNAL" /\ g[pc[p]].rec = s /\ pc[p] \in DOMAIN g
    BY <1>s, <1>6, <1>14
  <2>2. DevuelveLoSuyo => Toma(g, pc[p] - 1, s)
    BY <1>7, <2>1 DEF DevuelveLoSuyo
  <2> QED
    BY <1>8, <1>9, <1>10, <1>12, <2>1, <2>2
<1>15. CASE op = "EJECUTAR_WAIT"
  <2>1. \A r : Tienen(r)' = IF r = s THEN Tienen(r) \cup {p} ELSE Tienen(r)
    BY <1>11, <1>13, <1>15
  <2> QED
    BY <1>s, <1>3, <1>13, <1>15, <2>1
<1>16. CASE op = "EJECUTAR_SIGNAL"
  <2>1. \A r : Tienen(r)' = IF r = s THEN Tienen(r) \ {p} ELSE Tienen(r)
    BY <1>11, <1>14, <1>16
  <2> QED
    BY <1>s, <1>3, <1>14, <1>16, <2>1
<1> QED
  BY <1>3, <1>5, <1>15, <1>16

\* The counts of a resource agree: of the instances with who has taken them,
\* and of the queue with the posts.
Cuenta(r) ==
    /\ IsFiniteSet(Tienen(r))
    /\ Cardinality(Tienen(r)) = InstanciasIniciales[r] - instancias[r]
    /\ ToSet(cola_recurso[r]) \subseteq Tienen(r)
    /\ Len(cola_recurso[r]) - sem_recurso[r] = Deuda(r)

Cuentas == LlamadaFiel /\ \A r \in Recursos : Cuenta(r)

LEMMA CuentasInicial == ASSUME Init PROVE Cuentas
<1>1. de_cpu = <<>> /\ DOMAIN de_cpu = {}
  BY DEF Init
<1>2. LlamadaFiel
  BY <1>1 DEF LlamadaFiel
<1>3. ASSUME NEW r \in Recursos PROVE Cuenta(r)
  <2>1. \A p \in Procesos : Contadas(p) = 0
    BY <1>1 DEF Init, Contadas, PorContar
  <2>2. Tienen(r) = {}
    BY <2>1 DEF Tienen, Toma
  <2>3. IsFiniteSet({}) /\ Cardinality({}) = 0
    BY FS_EmptySet
  <2>4. /\ instancias[r] = InstanciasIniciales[r] /\ InstanciasIniciales[r] \in Nat
        /\ cola_recurso[r] = <<>> /\ sem_recurso[r] = 0
    BY SupuestosPlanificador DEF Init
  <2>5. ToSet(<<>>) = {}
    BY DEF ToSet
  <2> QED
    BY <2>2, <2>3, <2>4, <2>5 DEF Cuenta, Deuda
<1> QED
  BY <1>2, <1>3 DEF Cuentas

LEMMA CuentaIgual ==
    ASSUME NEW s, Cuenta(s), Tienen(s)' = Tienen(s), cola_recurso'[s] = cola_recurso[s],
           sem_recurso'[s] = sem_recurso[s], instancias'[s] = instancias[s]
    PROVE  Cuenta(s)'
<1>1. Deuda(s)' = Deuda(s)
  BY DEF Deuda
<1> QED
  BY <1>1 DEF Cuenta

LEMMA CuentasQuietas ==
    ASSUME Cuentas, UNCHANGED recursos, LlamadaFiel', \A r \in Recursos : Tienen(r)' = Tienen(r)
    PROVE  Cuentas'
<1>1. \A r \in Recursos : Cuenta(r)'
  BY CuentaIgual DEF Cuentas, recursos
<1> QED
  BY <1>1 DEF Cuentas

LEMMA CuentaTipo ==
    ASSUME TipoOK, Unicidad, UnaInstanciaOMenos, NEW r \in Recursos, Cuenta(r)
    PROVE  /\ cola_recurso[r] \in Seq(Procesos) /\ Len(cola_recurso[r]) \in Nat
           /\ cola_recurso[r] = <<>> <=> Len(cola_recurso[r]) = 0
           /\ sem_recurso[r] \in Nat /\ instancias[r] \in Int
           /\ InstanciasIniciales[r] \in Nat /\ InstanciasIniciales[r] <= 1
           /\ IsInjective(cola_recurso[r])
           /\ Len(cola_recurso[r]) - sem_recurso[r] = IF instancias[r] < 0 THEN - instancias[r] ELSE 0
<1>1. cola_recurso[r] \in Seq(Procesos)
  BY DEF TipoOK, TipoRecursos
<1> QED
  BY <1>1, SupuestosPlanificador DEF TipoOK, TipoRecursos, Unicidad, RecursosSinRepetir, Cuenta, Deuda,
     UnaInstanciaOMenos

\* Who talks to the kernel is in no queue.
LEMMA NoEspera ==
    ASSUME Unicidad, NEW p \in Procesos, p \in DeLaCpu
    PROVE  p \notin EnRecurso
<1>1. p \in EnEjecucion
  BY DEF EnEjecucion
<1>2. \A b : Uno(b) \in {0, 1}
  BY DEF Uno
<1>3. Uno(p \in EnRecurso) + Uno(p \in EnEjecucion) <= Uno(p \in Vivos)
  BY <1>2 DEF Unicidad, PlazaUnica
<1> QED
  BY <1>1, <1>2, <1>3 DEF Uno

LEMMA CuentaWait ==
    ASSUME TipoOK, Ficha, Unicidad, UnaInstanciaOMenos, DevuelveLoSuyo, Cuentas,
           NEW r \in Recursos, NEW p \in Procesos, AtenderWait(p, r)
    PROVE  Cuentas'
<1>1. /\ Recibe("EJECUTAR_WAIT", p) /\ UNCHANGED <<programa, pc>> /\ UltimaInstruccion(p).rec = r
      /\ sem_recurso' = sem_recurso
  BY DEF AtenderWait, procesos
<1>2. /\ LlamadaFiel' /\ p \notin Tienen(r)
      /\ \A s : Tienen(s)' = IF s = r THEN Tienen(s) \cup {p} ELSE Tienen(s)
  BY <1>1, TienenRecibe DEF Cuentas
<1>3. /\ instancias'[r] = instancias[r] - 1
      /\ \A s \in Recursos \ {r} : instancias'[s] = instancias[s]
      /\ cola_recurso'[r] = IF instancias[r] - 1 < 0 THEN Append(cola_recurso[r], p) ELSE cola_recurso[r]
      /\ \A s \in Recursos \ {r} : cola_recurso'[s] = cola_recurso[s]
  BY DEF AtenderWait, TipoOK, TipoRecursos
<1>4. \A s \in Recursos \ {r} : Cuenta(s)'
  BY <1>1, <1>2, <1>3, CuentaIgual DEF Cuentas
<1>5. Cuenta(r)
  BY DEF Cuentas
<1> DEFINE T == Tienen(r)
           U == T \cup {p}
<1>6. Tienen(r)' = U
  BY <1>2
<1>7. /\ IsFiniteSet(T) /\ Cardinality(T) \in Nat
      /\ IsFiniteSet(U) /\ Cardinality(U) = Cardinality(T) + 1
  <2>1. IsFiniteSet(T) /\ p \notin T
    BY <1>2, <1>5 DEF Cuenta
  <2> HIDE DEF T
  <2> QED
    BY <2>1, FS_AddElement, FS_CardinalityType
<1>8. ToSet(cola_recurso'[r]) \subseteq U
  <2>1. ToSet(Append(cola_recurso[r], p)) = ToSet(cola_recurso[r]) \cup {p}
    BY <1>5, CuentaTipo, Anexar
  <2> QED
    BY <1>3, <1>5, <2>1 DEF Cuenta
<1>9. Len(cola_recurso'[r]) - sem_recurso'[r] = Deuda(r)'
  <2>1. Len(Append(cola_recurso[r], p)) = Len(cola_recurso[r]) + 1
    BY <1>5, CuentaTipo
  <2>2. Deuda(r)' = IF instancias[r] - 1 < 0 THEN - (instancias[r] - 1) ELSE 0
    BY <1>3 DEF Deuda
  <2> QED
    BY <1>1, <1>3, <1>5, <2>1, <2>2, CuentaTipo
<1>10. Cardinality(U) = InstanciasIniciales[r] - instancias'[r]
  BY <1>3, <1>5, <1>7, CuentaTipo DEF Cuenta
<1>11. Cuenta(r)'
  BY <1>6, <1>7, <1>8, <1>9, <1>10 DEF Cuenta
<1> QED
  BY <1>2, <1>4, <1>11 DEF Cuentas

\* With at most one instance, a queue that is not empty has as many processes
\* as instances are owed, and no post to come.
LEMMA CuentaSignal ==
    ASSUME TipoOK, Ficha, Unicidad, UnaInstanciaOMenos, DevuelveLoSuyo, Cuentas,
           NEW r \in Recursos, NEW p \in Procesos, AtenderSignal(p, r)
    PROVE  Cuentas'
<1>1. /\ Recibe("EJECUTAR_SIGNAL", p) /\ UNCHANGED <<programa, pc>> /\ UltimaInstruccion(p).rec = r
      /\ cola_recurso' = cola_recurso
  BY DEF AtenderSignal, procesos
<1>2. /\ LlamadaFiel' /\ p \in Tienen(r)
      /\ \A s : Tienen(s)' = IF s = r THEN Tienen(s) \ {p} ELSE Tienen(s)
  BY <1>1, TienenRecibe DEF Cuentas
<1>3. /\ instancias'[r] = instancias[r] + 1
      /\ \A s \in Recursos \ {r} : instancias'[s] = instancias[s]
      /\ sem_recurso'[r] = IF cola_recurso[r] # <<>> THEN sem_recurso[r] + 1 ELSE sem_recurso[r]
      /\ \A s \in Recursos \ {r} : sem_recurso'[s] = sem_recurso[s]
  BY DEF AtenderSignal, TipoOK, TipoRecursos
<1>4. \A s \in Recursos \ {r} : Cuenta(s)'
  BY <1>1, <1>2, <1>3, CuentaIgual DEF Cuentas
<1>5. Cuenta(r)
  BY DEF Cuentas
<1> DEFINE T == Tienen(r)
           U == T \ {p}
           C == ToSet(cola_recurso[r])
<1>6. Tienen(r)' = U
  BY <1>2
<1>7. p \notin C
  <2>1. de_cpu # <<>> /\ de_cpu \in Seq(DelCpu) /\ Head(de_cpu) = Mensaje("EJECUTAR_SIGNAL", p)
    BY <1>1 DEF Recibe, TipoOK, TipoSockets
  <2>2. 1 \in DOMAIN de_cpu /\ de_cpu[1].pid = p
    BY <2>1 DEF Mensaje
  <2>3. p \in DeLaCpu
    BY <2>2 DEF DeLaCpu
  <2> QED
    BY <2>3, NoEspera DEF EnRecurso
<1>8. IsFiniteSet(C) /\ Cardinality(C) = Len(cola_recurso[r])
  BY <1>5, CuentaTipo, LargoDeCola
<1>9. /\ IsFiniteSet(U) /\ Cardinality(U) = Cardinality(T) - 1 /\ Cardinality(T) \in Nat
      /\ C \subseteq U /\ Cardinality(C) <= Cardinality(U)
  <2>1. IsFiniteSet(T) /\ p \in T /\ C \subseteq T \ {p}
    BY <1>2, <1>5, <1>7 DEF Cuenta
  <2> HIDE DEF T, C
  <2>2. IsFiniteSet(U) /\ Cardinality(U) = Cardinality(T) - 1 /\ Cardinality(T) \in Nat
    BY <2>1, FS_RemoveElement, FS_CardinalityType
  <2>3. Cardinality(C) <= Cardinality(U)
    BY <2>1, <2>2, FS_Subset
  <2> QED
    BY <2>1, <2>2, <2>3
<1>10. Len(cola_recurso[r]) + 1 <= InstanciasIniciales[r] - instancias[r]
  <2>1. Cardinality(T) = InstanciasIniciales[r] - instancias[r]
    BY <1>5 DEF Cuenta
  <2> HIDE DEF T, U, C
  <2> QED
    BY <1>5, <1>8, <1>9, <2>1, CuentaTipo
<1>11. Len(cola_recurso'[r]) - sem_recurso'[r] = Deuda(r)'
  <2>1. Deuda(r)' = IF instancias[r] + 1 < 0 THEN - (instancias[r] + 1) ELSE 0
    BY <1>3 DEF Deuda
  <2> QED
    BY <1>1, <1>3, <1>5, <1>10, <2>1, CuentaTipo
<1>12. Cardinality(U) = InstanciasIniciales[r] - instancias'[r]
  BY <1>3, <1>5, <1>9, CuentaTipo DEF Cuenta
<1>13. Cuenta(r)'
  BY <1>1, <1>6, <1>9, <1>11, <1>12 DEF Cuenta
<1> QED
  BY <1>2, <1>4, <1>13 DEF Cuentas

LEMMA CuentaDespierta ==
    ASSUME TipoOK, Unicidad, UnaInstanciaOMenos, Cuentas, NEW r \in Recursos, RecursoDespierta(r)
    PROVE  Cuentas' /\ UNCHANGED caido
<1>1. Cuenta(r)
  BY DEF Cuentas
<1>2. LlamadaFiel' /\ \A s : Tienen(s)' = Tienen(s)
  BY ContadasQuietas DEF RecursoDespierta, procesos, canales, Cuentas
<1>3. sem_recurso[r] > 0 /\ Len(cola_recurso[r]) > 0 /\ cola_recurso[r] # <<>>
  BY <1>1, CuentaTipo DEF RecursoDespierta
<1>4. /\ sem_recurso'[r] = sem_recurso[r] - 1 /\ cola_recurso'[r] = Tail(cola_recurso[r])
      /\ UNCHANGED <<instancias, caido>>
      /\ \A s \in Recursos \ {r} : /\ sem_recurso'[s] = sem_recurso[s]
                                   /\ cola_recurso'[s] = cola_recurso[s]
  BY <1>3 DEF RecursoDespierta, TipoOK, TipoRecursos
<1>5. \A s \in Recursos \ {r} : Cuenta(s)'
  BY <1>2, <1>4, CuentaIgual DEF Cuentas
<1>6. Len(Tail(cola_recurso[r])) = Len(cola_recurso[r]) - 1
  BY <1>1, <1>3, CuentaTipo
<1>7. ToSet(Tail(cola_recurso[r])) \subseteq ToSet(cola_recurso[r])
  BY <1>1, <1>3, CuentaTipo, SacarPrimero
<1>8. Deuda(r)' = Deuda(r) /\ Tienen(r)' = Tienen(r)
  BY <1>2, <1>4 DEF Deuda
<1>9. Len(cola_recurso'[r]) - sem_recurso'[r] = Deuda(r)'
  <2>1. Len(cola_recurso[r]) - sem_recurso[r] = Deuda(r)
    BY <1>1 DEF Cuenta
  <2> QED
    BY <1>1, <1>4, <1>6, <1>8, <2>1, CuentaTipo
<1>10. Cuenta(r)'
  BY <1>1, <1>4, <1>7, <1>8, <1>9 DEF Cuenta
<1> QED
  BY <1>2, <1>4, <1>5, <1>10 DEF Cuentas

LEMMA CuentasPaso ==
    ASSUME TipoOK, Ficha, Unicidad, UnaInstanciaOMenos, DevuelveLoSuyo, Cuentas, ~caido,
           [Next]_vars
    PROVE  Cuentas' /\ ~caido'
<1> USE DEF procesos, new, ready, recursos, hilos, otrosHilos, semaforos, kernel, canales
<1>1. ASSUME UNCHANGED <<programa, pc, de_cpu, instancias, cola_recurso, sem_recurso, caido>>
      PROVE  Cuentas' /\ ~caido'
  BY <1>1, ContadasQuietas, CuentasQuietas DEF Cuentas
<1>2. CASE UNCHANGED vars
  BY <1>1, <1>2 DEF vars
<1>3. ASSUME \/ HiloNew \/ HiloReady \/ HiloFs \/ HiloIO \/ FileSystemTermina
             \/ \E p \in Procesos : Consola(p)
             \/ \E r \in Recursos : RecursoEncola(r) \/ RecursoAvisa(r)
             \/ ContinuarHandler
      PROVE  Cuentas' /\ ~caido'
  <2>1. CASE ContinuarHandler
    BY <1>1, <2>1 DEF ContinuarHandler, CpuAvisaReady, Habilitar, EnviarArchivo, LiberarGrado,
         EliminarProceso, CreacionExitosa, SinMemoria, HabilitarSinMemoria, LiberarSinMemoria,
         RealizarCompactacion, PedirCompactacion, FinCompactacion
  <2>2. CASE \/ HiloNew \/ HiloReady \/ HiloFs \/ HiloIO \/ FileSystemTermina
             \/ \E p \in Procesos : Consola(p)
             \/ \E r \in Recursos : RecursoEncola(r) \/ RecursoAvisa(r)
    <3>1. UNCHANGED <<programa, pc, de_cpu, instancias, cola_recurso, sem_recurso, caido>>
      BY <2>2 DEF HiloNew, NewDespierta, NewVacia, NewQuita, NewEncola, NewAvisa, HiloReady,
           ReadyDespierta, ReadyVacia, ReadyQuita, ReadyEnvia, HiloFs, FsDesbloqueado, FsEncola,
           FsAvisa, HiloIO, IOAvisa, IOEncola, FileSystemTermina, Consola, ConsolaEncola,
           ConsolaAvisa, RecursoEncola, RecursoAvisa
    <3> QED
      BY <1>1, <3>1
  <2> QED
    BY <1>3, <2>1, <2>2
<1>4. ASSUME NEW r \in Recursos, RecursoDespierta(r) PROVE Cuentas' /\ ~caido'
  BY <1>4, CuentaDespierta
<1>5. CASE Cpu
  <2>1. UNCHANGED <<instancias, cola_recurso, sem_recurso, caido>>
    BY <1>5 DEF Cpu, CpuRecibe, CpuLocal, CpuSegFault, CpuDevuelve, CpuLlama, CpuRespuesta,
         CpuInesperado, Ejecuta
  <2>2. LlamadaFiel' /\ \A r : Tienen(r)' = Tienen(r)
    BY <1>5, TienenCpu DEF Cuentas
  <2> QED
    BY <2>1, <2>2, CuentasQuietas
<1>6. ASSUME NEW p \in Procesos, AtenderSyscall(p) PROVE Cuentas' /\ ~caido'
  <2>1. ASSUME NEW op, Recibe(op, p), op \notin {"EJECUTAR_WAIT", "EJECUTAR_SIGNAL"},
               UNCHANGED <<programa, pc, instancias, cola_recurso, sem_recurso, caido>>
        PROVE  Cuentas' /\ ~caido'
    <3>1. LlamadaFiel' /\ \A r : Tienen(r)' = Tienen(r)
      BY <2>1, TienenRecibe DEF Cuentas
    <3> QED
      BY <2>1, <3>1, CuentasQuietas
  <2>2. CASE \/ AtenderDesalojado(p) \/ AtenderIO(p) \/ AtenderArchivo(p)
             \/ AtenderCrearSegmento(p) \/ AtenderEliminarSegmento(p)
             \/ AtenderFinalizar("FINALIZAR", p) \/ AtenderFinalizar("SEG_FAULT", p)
    <3>1. \E op \in {"DESALOJADO", "EJECUTAR_IO", "LEER_ARCHIVO", "CREAR_SEGMENTO",
                     "ELIMINAR_SEGMENTO", "FINALIZAR", "SEG_FAULT"} : Recibe(op, p)
      BY <2>2 DEF AtenderDesalojado, AtenderIO, AtenderArchivo, AtenderCrearSegmento,
           AtenderEliminarSegmento, AtenderFinalizar
    <3>2. UNCHANGED <<programa, pc, instancias, cola_recurso, sem_recurso, caido>>
      BY <2>2 DEF AtenderDesalojado, AtenderIO, AtenderArchivo, AtenderCrearSegmento,
           AtenderEliminarSegmento, AtenderFinalizar
    <3> QED
      BY <2>1, <3>1, <3>2
  <2>3. ASSUME NEW r \in Recursos, AtenderWait(p, r) \/ AtenderSignal(p, r)
        PROVE  Cuentas' /\ ~caido'
    <3>1. UNCHANGED caido
      BY <2>3 DEF AtenderWait, AtenderSignal
    <3> QED
      BY <2>3, <3>1, CuentaWait, CuentaSignal
  <2>4. ~AtenderWaitInexistente(p)
    BY RecibirFicha DEF AtenderWaitInexistente
  \* A SIGNAL of an unknown resource counts for none of the others.
  <2>5. CASE AtenderSignalInexistente(p)
    <3>1. /\ Recibe("EJECUTAR_SIGNAL", p) /\ UltimaInstruccion(p).rec \notin Recursos
          /\ UNCHANGED <<programa, pc, instancias, cola_recurso, sem_recurso, caido>>
      BY <2>5 DEF AtenderSignalInexistente
    <3>2. LlamadaFiel' /\ \A r \in Recursos : Tienen(r)' = Tienen(r)
      BY <3>1, TienenRecibe DEF Cuentas
    <3> QED
      BY <3>1, <3>2, CuentasQuietas
  <2> QED
    BY <1>6, <2>2, <2>3, <2>4, <2>5 DEF AtenderSyscall
<1> QED
  BY <1>2, <1>3, <1>4, <1>5, <1>6 DEF Next, HiloCpu, HiloRecurso

LEMMA CuentasSiempre ==
    ASSUME RecursosConfigurados, UnaInstanciaOMenos, DevuelveLoSuyo
    PROVE  Spec => [](Cuentas /\ ~caido)
<1>1. Init => Ficha /\ Unicidad /\ Cuentas /\ ~caido
  BY FichaInicial, UnicidadInicial, CuentasInicial DEF Init
<1>2. TipoOK /\ TipoOK' /\ Ficha /\ [Next]_vars => Ficha'
  BY FichaPaso
<1>3. TipoOK /\ TipoOK' /\ Ficha /\ Ficha' /\ Unicidad /\ [Next]_vars => Unicidad'
  BY UnicidadPaso
<1>4. TipoOK /\ Ficha /\ Unicidad /\ (Cuentas /\ ~caido) /\ [Next]_vars => (Cuentas /\ ~caido)'
  BY CuentasPaso
<1> QED
  BY <1>1, <1>2, <1>3, <1>4, TipoCorrecto, PTL DEF Spec

\* As many processes wait for a resource without a post on its way as instances
\* it owes, with resources of at most one instance and programs that signal only
\* what they hold.
THEOREM ContabilidadRecursosCorrecta ==
    ASSUME RecursosConfigurados, UnaInstanciaOMenos, DevuelveLoSuyo
    PROVE  Spec => []ContabilidadRecursos
<1>1. Cuentas => ContabilidadRecursos
  BY DEF Cuentas, Cuenta, Deuda, ContabilidadRecursos
<1> QED
  BY <1>1, CuentasSiempre, PTL

\* With the same, the thread of a resource that is woken finds somebody in its
\* queue: the kernel does not fall.
THEOREM NoCaeKernelCorrecto ==
    ASSUME RecursosConfigurados, UnaInstanciaOMenos, DevuelveLoSuyo
    PROVE  Spec => []~caido
  BY CuentasSiempre, PTL
=============================================================================
