--------------------------- MODULE ArchivosProofs ---------------------------
(***************************************************************************)
(* Proofs about Archivos: its types, that F_OPEN locks a file, and that an *)
(* access goes to the position that the program asked for.                 *)
(*                                                                         *)
(* The kernel frees or passes on a file at any F_CLOSE of it, whoever      *)
(* sends it, so the theorems about the lock take programs that close only  *)
(* what they have open (CierraLoSuyo). F_CLOSE leaves the file in the PCB  *)
(* and F_SEEK moves the oldest entry of a file, so the one about positions *)
(* takes programs that seek again after they open again                    *)
(* (PosicionaAlReabrir).                                                   *)
(***************************************************************************)
EXTENDS Archivos, ColasProofs, FiniteSetTheorems, TLAPS

-----------------------------------------------------------------------------
(* What the programs do. *)

DeArchivo(i, a) == i.arch = a /\ i.op \in {"F_OPEN", "F_CLOSE"}

\* Before every F_CLOSE of a file, the last F_OPEN or F_CLOSE of it is a
\* F_OPEN.
CierraLoSuyo ==
    \A g \in Programas : \A i \in DOMAIN g : g[i].op = "F_CLOSE" =>
        \E j \in 1..(i - 1) :
            /\ g[j].op = "F_OPEN" /\ g[j].arch = g[i].arch
            /\ \A k \in (j + 1)..(i - 1) : ~DeArchivo(g[k], g[i].arch)

\* Before every F_OPEN, whatever the program has opened it has closed.
AbreDeAUno ==
    \A g \in Programas : \A i \in DOMAIN g : g[i].op = "F_OPEN" =>
        \A j \in 1..(i - 1) : g[j].op = "F_OPEN" =>
            \E k \in (j + 1)..(i - 1) : g[k].op = "F_CLOSE" /\ g[k].arch = g[j].arch

Abre(i, a) == i.op = "F_OPEN" /\ i.arch = a
Posiciona(i, a) == i.op = "F_SEEK" /\ i.arch = a
Usa(i) == i.op \in {"F_READ", "F_WRITE"}

\* Before it reads or writes a file, a program opens it, and seeks if it opens
\* it again after it sought.
PosicionaAlReabrir ==
    \A g \in Programas : \A i \in DOMAIN g : Usa(g[i]) =>
        /\ \E o \in 1..(i - 1) : Abre(g[o], g[i].arch)
        /\ \A o \in 1..(i - 1) : \A s \in 1..(o - 1) :
                Abre(g[o], g[i].arch) /\ Posiciona(g[s], g[i].arch) =>
                    \E k \in (o + 1)..(i - 1) : Posiciona(g[k], g[i].arch)

-----------------------------------------------------------------------------
(* Messages between the kernel and the file system, by class. *)

Aperturas == {"ABRIR_ARCHIVO", "CREAR_ARCHIVO", "EXISTE_ARCHIVO", "ARCHIVO_CREADO"}
Accesos == Operaciones \cup {"DESBLOQUEADO"}

HaciaFs == [op : {"ABRIR_ARCHIVO", "CREAR_ARCHIVO"}, pid : Procesos, arch : Nombres]
           \cup [op : Operaciones, pid : Procesos, arch : Nombres, pos : Posiciones]
DesdeFs == [op : {"EXISTE_ARCHIVO", "CREAR_ARCHIVO", "ARCHIVO_CREADO", "DESBLOQUEADO"},
            pid : Procesos, arch : Nombres]

\* The places of a channel with a message of the class.
Lugares(s, C) == {i \in DOMAIN s : s[i].op \in C}
Clase(s, C) == {s[i] : i \in Lugares(s, C)}
EnVuelo(C) == Clase(a_fs, C) \cup Clase(de_fs, C)

\* At most one message of the class is on its way.
Unico(s, C) == \A i, j \in Lugares(s, C) : i = j
Solo(C) ==
    /\ Unico(a_fs, C) /\ Unico(de_fs, C)
    /\ Clase(a_fs, C) = {} \/ Clase(de_fs, C) = {}

\* Types, with those of the state that TipoOK leaves out.
Tipo ==
    /\ TipoOK
    /\ programa \in [Procesos -> Programas]
    /\ \A p \in Procesos : pc[p] <= Len(programa[p])
    /\ a_fs \in Seq(HaciaFs)
    /\ de_fs \in Seq(DesdeFs)

-----------------------------------------------------------------------------
(* lista_archivos_abiertos as a function of the file. *)

EnLista == {lista[i].dir : i \in DOMAIN lista}
Cola(a) == lista[Entrada(a)].cola
Sem(a) == lista[Entrada(a)].sem
Esperan(a) == {p \in Procesos : EnCola(p, a)}

UnaEntrada == \A i, j \in DOMAIN lista : lista[i].dir = lista[j].dir => i = j

\* While the file system opens a file the CPU waits, and the file is not in
\* the list.
Apertura ==
    /\ Solo(Aperturas)
    /\ \A m \in EnVuelo(Aperturas) :
        cpu = Cpu("espera", m.pid) /\ m.arch \notin EnLista

\* mutex_compresion is free when no operation is on its way.
Mutex == Solo(Accesos) /\ (EnVuelo(Accesos) # {} <=> mutex_compresion = 0)

\* What holds whatever the programs do.
Base == Tipo /\ UnaEntrada /\ Apertura /\ Mutex

-----------------------------------------------------------------------------
(* The inductive invariant of the lock. *)

EnCpu == {p \in Procesos : cpu.pcb = p}
EnFs == {m.pid : m \in EnVuelo(Accesos)}

\* A process is in one place: it is ready, on the CPU, waits for an access,
\* or waits for one file.
Plaza ==
    /\ listos \cap EnCpu = {} /\ listos \cap EnFs = {} /\ EnCpu \cap EnFs = {}
    /\ \A a \in EnLista :
        /\ IsInjective(Cola(a))
        /\ listos \cap Esperan(a) = {} /\ EnCpu \cap Esperan(a) = {} /\ EnFs \cap Esperan(a) = {}
        /\ \A b \in EnLista : a # b => Esperan(a) \cap Esperan(b) = {}

\* p has executed F_OPEN of the file and not F_CLOSE.
Quiere(p, a) ==
    /\ UltimaApertura(p, a) # 0
    /\ programa[p][UltimaApertura(p, a)].op = "F_OPEN"

\* The file system is opening the file for p.
Pide(p, a) == \E m \in EnVuelo(Aperturas) : m.pid = p /\ m.arch = a

\* p has been let on.
Posee(p, a) == Quiere(p, a) /\ ~EnCola(p, a) /\ ~Pide(p, a)

\* A file belongs to one process or is being passed to the first that waits;
\* one that is not in the list, to none.
Turno(a) ==
    /\ a \notin EnLista => \A p \in Procesos : ~Posee(p, a)
    /\ a \in EnLista =>
        /\ \A p, q \in Procesos : Posee(p, a) /\ Posee(q, a) => p = q
        /\ Sem(a) \in 0..1
        /\ Sem(a) = 1 => Cola(a) # <<>> /\ \A p \in Procesos : ~Posee(p, a)

Bloqueo == Base /\ Plaza /\ ~caido /\ \A a \in Nombres : Turno(a)

\* With programs that have one file open at a time, a file in the list has an
\* owner or is being passed on, who waits for one still wants it, and who
\* wants one wants no other.
Duenio ==
    /\ \A a \in EnLista : Sem(a) = 0 => \E p \in Procesos : Posee(p, a)
    /\ \A p \in Procesos, a \in Nombres : EnCola(p, a) \/ Pide(p, a) => Quiere(p, a)
    /\ \A p \in Procesos, a, b \in Nombres : Quiere(p, a) /\ Quiere(p, b) => a = b
    /\ \A p \in Procesos : cpu = Cpu("espera", p) => \E a \in Nombres : Pide(p, a)

-----------------------------------------------------------------------------
(* Channels: appending to one and taking its first message. *)

LEMMA Encolar ==
    ASSUME NEW S, NEW s \in Seq(S), NEW m \in S, NEW C
    PROVE  /\ Clase(Append(s, m), C) = Clase(s, C) \cup (IF m.op \in C THEN {m} ELSE {})
           /\ Unico(s, C) /\ (m.op \in C => Clase(s, C) = {}) => Unico(Append(s, m), C)
<1> DEFINE t == Append(s, m)
<1>1. /\ DOMAIN t = DOMAIN s \cup {Len(s) + 1} /\ t[Len(s) + 1] = m
      /\ \A i \in DOMAIN s : t[i] = s[i]
  OBVIOUS
<1> HIDE DEF t
<1>2. Lugares(t, C) = Lugares(s, C) \cup (IF m.op \in C THEN {Len(s) + 1} ELSE {})
  BY <1>1 DEF Lugares
<1>3. Clase(t, C) = Clase(s, C) \cup (IF m.op \in C THEN {m} ELSE {})
  BY <1>1, <1>2 DEF Clase, Lugares
<1>4. Clase(s, C) = {} => Lugares(s, C) = {}
  BY DEF Clase
<1>5. Unico(s, C) /\ (m.op \in C => Clase(s, C) = {}) => Unico(t, C)
  BY <1>2, <1>4 DEF Unico
<1> QED
  BY <1>3, <1>5 DEF t

LEMMA Desencolar ==
    ASSUME NEW S, NEW s \in Seq(S), s # <<>>, NEW C, Unico(s, C)
    PROVE  /\ Unico(Tail(s), C)
           /\ Head(s).op \in C => Clase(s, C) = {Head(s)} /\ Clase(Tail(s), C) = {}
           /\ Head(s).op \notin C => Clase(Tail(s), C) = Clase(s, C)
<1> DEFINE t == Tail(s)
<1>1. 1 \in DOMAIN s /\ Head(s) = s[1]
  OBVIOUS
<1>2. \A i \in DOMAIN t : i \in Nat /\ i + 1 \in DOMAIN s /\ i + 1 # 1 /\ t[i] = s[i + 1]
  OBVIOUS
<1>3. \A i \in DOMAIN s : i \in Nat /\ (i # 1 => i - 1 \in DOMAIN t /\ t[i - 1] = s[i])
  OBVIOUS
<1> HIDE DEF t
<1>4. \A i \in Lugares(t, C) : i + 1 \in Lugares(s, C) /\ i \in Nat /\ i + 1 # 1
  BY <1>2 DEF Lugares
<1>5. Unico(t, C)
  <2> SUFFICES ASSUME NEW i \in Lugares(t, C), NEW j \in Lugares(t, C) PROVE i = j
    BY DEF Unico
  <2>1. i + 1 = j + 1
    BY <1>4 DEF Unico
  <2> QED
    BY <1>4, <2>1
<1>6. ASSUME Head(s).op \in C PROVE Clase(s, C) = {Head(s)} /\ Clase(t, C) = {}
  <2>1. 1 \in Lugares(s, C)
    BY <1>1, <1>6 DEF Lugares
  <2>2. Lugares(s, C) = {1}
    BY <2>1 DEF Unico
  <2>3. Lugares(t, C) = {}
    BY <2>2, <1>4
  <2> QED
    BY <2>2, <2>3, <1>1 DEF Clase
<1>7. ASSUME Head(s).op \notin C PROVE Clase(t, C) = Clase(s, C)
  <2>1. Clase(t, C) \subseteq Clase(s, C)
    <3>1. \A i \in Lugares(t, C) : i + 1 \in Lugares(s, C) /\ t[i] = s[i + 1]
      BY <1>2, <1>4 DEF Lugares
    <3> QED
      BY <3>1 DEF Clase
  <2>2. \A i \in Lugares(s, C) : i - 1 \in Lugares(t, C) /\ t[i - 1] = s[i]
    BY <1>1, <1>3, <1>7 DEF Lugares
  <2>3. Clase(s, C) \subseteq Clase(t, C)
    BY <2>2 DEF Clase
  <2> QED
    BY <2>1, <2>3
<1> QED
  BY <1>5, <1>6, <1>7 DEF t

-----------------------------------------------------------------------------
(* The last use of a file in a program. *)

\* The F_OPEN and F_CLOSE of a file that a process has executed.
Usos(p, a) == {i \in 1..pc[p] : DeArchivo(programa[p][i], a)}

LEMMA UltimaEs ==
    ASSUME NEW p, NEW a
    PROVE  /\ UltimaApertura(p, a) = IF Usos(p, a) # {} THEN Max(Usos(p, a)) ELSE 0
           /\ UltimaApertura(p, a)' = IF Usos(p, a)' # {} THEN Max(Usos(p, a)') ELSE 0
BY DEF UltimaApertura, SelectLastInSubSeq, Usos, DeArchivo


-----------------------------------------------------------------------------
(* lista_archivos_abiertos. *)

Entradas == [dir : Nombres, cola : Seq(Procesos), sem : Nat]
TipoLista == lista \in Seq(Entradas)

\* The list read through the names of the files.
ListaLeida ==
    /\ \A i \in DOMAIN lista : Entrada(lista[i].dir) = i
    /\ \A a \in EnLista : /\ Entrada(a) \in DOMAIN lista /\ lista[Entrada(a)].dir = a
                          /\ Entrada(a) # 0 /\ a \in Nombres
                          /\ Cola(a) \in Seq(Procesos) /\ Sem(a) \in Nat
                          /\ Esperan(a) = ToSet(Cola(a))
    /\ \A a \in Nombres : a \notin EnLista => Entrada(a) = 0 /\ Esperan(a) = {}

LEMMA ListaDe == TipoLista /\ UnaEntrada => ListaLeida
<1> SUFFICES ASSUME lista \in Seq(Entradas), UnaEntrada PROVE ListaLeida
  BY DEF TipoLista
<1>1. ASSUME NEW a PROVE Entrada(a) = LET I == {i \in 1..Len(lista) : lista[i].dir = a}
                                      IN  IF I # {} THEN Min(I) ELSE 0
  BY DEF Entrada, SelectInSeq
<1>2. /\ DOMAIN lista = 1..Len(lista) /\ Len(lista) \in Nat
      /\ \A i \in DOMAIN lista : lista[i] \in Entradas
  OBVIOUS
<1>3. ASSUME NEW i \in DOMAIN lista PROVE Entrada(lista[i].dir) = i
  <2>1. {j \in 1..Len(lista) : lista[j].dir = lista[i].dir} = {i}
    BY <1>2 DEF UnaEntrada
  <2>2. Entrada(lista[i].dir) = Min({i})
    BY <1>1, <2>1
  <2>3. i \in Nat
    BY <1>2
  <2>4. Min({i}) \in {i}
    BY <2>3, MenorExiste
  <2>5. Min({i}) = i
    BY <2>4
  <2> QED
    BY <2>2, <2>5
<1>4. ASSUME NEW a \in EnLista
      PROVE  /\ Entrada(a) \in DOMAIN lista /\ lista[Entrada(a)].dir = a
             /\ Entrada(a) # 0 /\ a \in Nombres
             /\ Cola(a) \in Seq(Procesos) /\ Sem(a) \in Nat
             /\ Esperan(a) = ToSet(Cola(a))
  <2>1. PICK i \in DOMAIN lista : lista[i].dir = a
    BY DEF EnLista
  <2>2. Entrada(a) = i /\ i # 0
    BY <2>1, <1>2, <1>3
  <2>3. a \in Nombres /\ Cola(a) \in Seq(Procesos) /\ Sem(a) \in Nat
    BY <2>1, <2>2, <1>2 DEF Entradas, Cola, Sem
  <2>4. Esperan(a) = ToSet(Cola(a))
    BY <2>2, <2>3 DEF Esperan, EnCola, Contains, ToSet, Cola
  <2> QED
    BY <2>1, <2>2, <2>3, <2>4
<1>5. ASSUME NEW a \in Nombres, a \notin EnLista PROVE Entrada(a) = 0 /\ Esperan(a) = {}
  <2>1. {j \in 1..Len(lista) : lista[j].dir = a} = {}
    BY <1>2, <1>5 DEF EnLista
  <2>2. Entrada(a) = 0
    BY <2>1, <1>1
  <2> QED
    BY <2>2 DEF Esperan, EnCola
<1> QED
  BY <1>3, <1>4, <1>5 DEF ListaLeida

LEMMA ListaDePrima == TipoLista' /\ UnaEntrada' => ListaLeida'
  BY ListaDe, PTL

\* An entry changes and keeps its file.
LEMMA ListaCambiada ==
    ASSUME TipoLista, UnaEntrada, TipoLista',
           DOMAIN lista' = DOMAIN lista, \A i \in DOMAIN lista : lista'[i].dir = lista[i].dir
    PROVE  /\ UnaEntrada' /\ EnLista' = EnLista
           /\ \A a \in EnLista : Entrada(a)' = Entrada(a)
<1>1. UnaEntrada' /\ EnLista' = EnLista
  BY DEF UnaEntrada, EnLista
<1>2. ListaLeida /\ ListaLeida'
  BY <1>1, ListaDe, ListaDePrima
<1>3. ASSUME NEW a \in EnLista PROVE Entrada(a)' = Entrada(a)
  BY <1>1, <1>2, <1>3 DEF ListaLeida
<1> QED
  BY <1>1, <1>3

\* An entry, if it is not there already, comes in at the end.
LEMMA ListaAgregada ==
    ASSUME TipoLista, UnaEntrada, NEW a \in Nombres, a \notin EnLista,
           lista' = Append(lista, [dir |-> a, cola |-> <<>>, sem |-> 0])
    PROVE  /\ TipoLista' /\ UnaEntrada' /\ EnLista' = EnLista \cup {a}
           /\ \A b \in EnLista : Cola(b)' = Cola(b) /\ Sem(b)' = Sem(b)
           /\ Cola(a)' = <<>> /\ Sem(a)' = 0
<1> DEFINE e == [dir |-> a, cola |-> <<>>, sem |-> 0]
           n == Len(lista) + 1
<1>1. e \in Entradas /\ e.dir = a /\ e.cola = <<>> /\ e.sem = 0
  BY DEF Entradas
<1> HIDE DEF e
<1>2. lista' = Append(lista, e)
  BY DEF e
<1>3. /\ TipoLista' /\ DOMAIN lista' = DOMAIN lista \cup {n} /\ lista'[n] = e
      /\ n \notin DOMAIN lista /\ \A i \in DOMAIN lista : lista'[i] = lista[i]
  BY <1>1, <1>2 DEF TipoLista
<1> HIDE DEF n
<1>4. UnaEntrada'
  BY <1>1, <1>3 DEF UnaEntrada, EnLista
<1>5. EnLista' = EnLista \cup {a}
  BY <1>1, <1>3 DEF EnLista
<1>6. ListaLeida /\ ListaLeida'
  BY <1>3, <1>4, ListaDe, ListaDePrima
<1>7. ASSUME NEW b \in EnLista PROVE Cola(b)' = Cola(b) /\ Sem(b)' = Sem(b)
  <2>1. Entrada(b) \in DOMAIN lista /\ lista[Entrada(b)].dir = b
    BY <1>6 DEF ListaLeida
  <2>2. Entrada(b)' = Entrada(b)
    BY <1>3, <1>6, <2>1 DEF ListaLeida
  <2> QED
    BY <1>3, <2>1, <2>2 DEF Cola, Sem
<1>8. Entrada(a)' = n
  BY <1>1, <1>3, <1>6 DEF ListaLeida
<1>9. Cola(a)' = <<>> /\ Sem(a)' = 0
  BY <1>1, <1>3, <1>8 DEF Cola, Sem
<1> QED
  BY <1>3, <1>4, <1>5, <1>7, <1>9

\* An entry is freed.
LEMMA ListaQuitada ==
    ASSUME TipoLista, UnaEntrada, NEW a \in EnLista, lista' = RemoveAt(lista, Entrada(a))
    PROVE  /\ TipoLista' /\ UnaEntrada' /\ EnLista' = EnLista \ {a}
           /\ \A b \in EnLista : b # a => Cola(b)' = Cola(b) /\ Sem(b)' = Sem(b)
<1> DEFINE i == Entrada(a)
           n == Len(lista)
<1>1. ListaLeida
  BY ListaDe
<1>2. i \in DOMAIN lista /\ lista[i].dir = a
  BY <1>1 DEF ListaLeida
<1>3. lista' = RemoveAt(lista, i) /\ lista \in Seq(Entradas)
  BY DEF TipoLista
<1> HIDE DEF i
<1>4. /\ n \in Nat /\ DOMAIN lista = 1..n /\ TipoLista' /\ DOMAIN lista' = 1..(n - 1)
      /\ \A j \in 1..(n - 1) : lista'[j] = lista[IF j < i THEN j ELSE j + 1]
  BY <1>2, <1>3, SinUno DEF TipoLista
<1> HIDE DEF n
<1> DEFINE Antes(j) == IF j < i THEN j ELSE j + 1
           Despues(k) == IF k < i THEN k ELSE k - 1
<1>5. \A j \in DOMAIN lista' : /\ Antes(j) \in DOMAIN lista /\ Antes(j) # i
                               /\ lista'[j] = lista[Antes(j)] /\ Despues(Antes(j)) = j
  BY <1>2, <1>4
<1>6. \A k \in DOMAIN lista : k # i => Despues(k) \in DOMAIN lista' /\ Antes(Despues(k)) = k
  BY <1>2, <1>4
<1> HIDE DEF Antes, Despues
<1>7. UnaEntrada'
  <2> SUFFICES ASSUME NEW j \in DOMAIN lista', NEW k \in DOMAIN lista',
                      lista'[j].dir = lista'[k].dir
               PROVE  j = k
    BY DEF UnaEntrada
  <2>1. Antes(j) = Antes(k)
    BY <1>5 DEF UnaEntrada
  <2> QED
    BY <1>5, <2>1
<1>8. EnLista' = EnLista \ {a}
  <2>1. \A j \in DOMAIN lista' : lista'[j].dir \in EnLista \ {a}
    BY <1>2, <1>5 DEF EnLista, UnaEntrada
  <2>2. \A k \in DOMAIN lista : lista[k].dir # a => lista[k].dir \in EnLista'
    <3> SUFFICES ASSUME NEW k \in DOMAIN lista, lista[k].dir # a PROVE lista[k].dir \in EnLista'
      OBVIOUS
    <3>1. Despues(k) \in DOMAIN lista' /\ lista'[Despues(k)] = lista[k]
      BY <1>2, <1>5, <1>6
    <3> QED
      BY <3>1 DEF EnLista
  <2> QED
    BY <2>1, <2>2 DEF EnLista
<1>9. ListaLeida'
  BY <1>4, <1>7, ListaDePrima
<1>10. ASSUME NEW b \in EnLista, b # a PROVE Cola(b)' = Cola(b) /\ Sem(b)' = Sem(b)
  <2> DEFINE k == Entrada(b)
  <2>1. k \in DOMAIN lista /\ lista[k].dir = b
    BY <1>1 DEF ListaLeida
  <2>2. Despues(k) \in DOMAIN lista' /\ lista'[Despues(k)] = lista[k]
    BY <1>2, <1>5, <1>6, <1>10, <2>1
  <2>3. Entrada(b)' = Despues(k)
    BY <1>9, <2>1, <2>2 DEF ListaLeida
  <2> QED
    BY <2>2, <2>3 DEF Cola, Sem
<1> QED
  BY <1>4, <1>7, <1>8, <1>10

-----------------------------------------------------------------------------
(* Types. *)

UnaCpu == [estado : {"ociosa"}, pcb : {Nadie}] \cup [estado : {"ejecuta", "espera"}, pcb : Procesos]
Archivo == [dir : Nombres, punt : Posiciones]

\* The instruction that the CPU executes.
LEMMA ActualDe ==
    ASSUME Tipo, cpu.estado = "ejecuta", pc[cpu.pcb] < Len(programa[cpu.pcb])
    PROVE  /\ cpu.pcb \in Procesos /\ cpu = Cpu("ejecuta", cpu.pcb)
           /\ Actual \in Instruccion /\ Actual.arch \in Nombres /\ Actual.pos \in Posiciones
           /\ pc[cpu.pcb] \in Nat /\ programa[cpu.pcb] \in Programas
           /\ programa[cpu.pcb] \in Seq(Instruccion)
<1>1. cpu \in UnaCpu
  BY DEF Tipo, TipoOK, UnaCpu
<1>2. cpu.pcb \in Procesos /\ cpu = Cpu("ejecuta", cpu.pcb)
  BY <1>1 DEF UnaCpu, Cpu
<1>3. pc[cpu.pcb] \in Nat /\ programa[cpu.pcb] \in Programas
  BY <1>2 DEF Tipo, TipoOK
<1>4. programa[cpu.pcb] \in Seq(Instruccion)
  BY <1>3, SupuestosArchivos
<1>5. Actual \in Instruccion
  BY <1>3, <1>4 DEF Actual
<1>6. Actual.arch \in Nombres /\ Actual.pos \in Posiciones
  BY <1>5 DEF Instruccion
<1> QED
  BY <1>2, <1>3, <1>4, <1>5, <1>6

LEMMA EjecutaTipo ==
    ASSUME Tipo, NEW op, Ejecuta(op)
    PROVE  /\ pc' \in [Procesos -> Nat]
           /\ \A p \in Procesos : pc'[p] <= Len(programa'[p])
           /\ programa' \in [Procesos -> Programas] /\ fcbs' \subseteq Nombres
           /\ de_fs' \in Seq(DesdeFs)
<1> DEFINE p == cpu.pcb
<1>1. p \in Procesos /\ pc[p] \in Nat /\ pc[p] < Len(programa[p]) /\ programa[p] \in Seq(Instruccion)
  BY ActualDe DEF Ejecuta
<1>2. pc' = [pc EXCEPT ![p] = @ + 1] /\ UNCHANGED <<programa, fcbs, de_fs>>
  BY DEF Ejecuta
<1>3. pc \in [Procesos -> Nat] /\ \A q \in Procesos : pc[q] <= Len(programa[q])
  BY DEF Tipo, TipoOK
<1> HIDE DEF p
<1>4. pc' \in [Procesos -> Nat]
  BY <1>1, <1>2, <1>3
<1>5. ASSUME NEW q \in Procesos PROVE pc'[q] <= Len(programa'[q])
  <2>1. CASE q = p
    <3>1. pc'[q] = pc[p] + 1 /\ Len(programa[p]) \in Nat
      BY <1>1, <1>2, <1>3, <2>1
    <3> QED
      BY <3>1, <1>1, <1>2, <2>1
  <2>2. CASE q # p
    BY <1>1, <1>2, <1>3, <2>2
  <2> QED
    BY <2>1, <2>2
<1> QED
  BY <1>2, <1>4, <1>5 DEF Tipo, TipoOK

LEMMA PunteroTipo ==
    ASSUME Tipo, NEW p \in Procesos, NEW a \in Nombres, NEW n \in BuscarPuntero(p, a)
    PROVE  n \in Posiciones
<1> DEFINE s == abiertos[p]
           I == {i \in 1..Len(s) : s[i].dir = a}
<1>1. s \in Seq(Archivo)
  BY DEF Tipo, TipoOK, Archivo
<1>2. Propia(p, a) = IF I # {} THEN Min(I) ELSE 0
  BY DEF Propia, SelectInSeq
<1>3. CASE Propia(p, a) = 0
  BY <1>3 DEF BuscarPuntero
<1>4. CASE Propia(p, a) # 0
  <2>1. I # {} /\ I \in SUBSET Nat
    BY <1>1, <1>2, <1>4
  <2>2. Propia(p, a) \in I
    <3> HIDE DEF I
    <3> QED
      BY <1>2, <2>1, MenorExiste
  <2>3. s[Propia(p, a)] \in Archivo
    BY <1>1, <2>2
  <2> QED
    BY <1>4, <2>3 DEF BuscarPuntero, Archivo
<1> QED
  BY <1>3, <1>4

LEMMA RecibeTipo ==
    ASSUME Tipo
    PROVE  /\ a_fs # <<>> => /\ Head(a_fs) \in HaciaFs /\ Tail(a_fs) \in Seq(HaciaFs)
                             /\ Head(a_fs).pid \in Procesos /\ Head(a_fs).arch \in Nombres
           /\ de_fs # <<>> => /\ Head(de_fs) \in DesdeFs /\ Tail(de_fs) \in Seq(DesdeFs)
                              /\ Head(de_fs).pid \in Procesos /\ Head(de_fs).arch \in Nombres
<1>1. ASSUME a_fs # <<>> PROVE Head(a_fs) \in HaciaFs /\ Tail(a_fs) \in Seq(HaciaFs)
  BY <1>1 DEF Tipo
<1>2. \A m \in HaciaFs : m.pid \in Procesos /\ m.arch \in Nombres
  BY DEF HaciaFs
<1>3. ASSUME de_fs # <<>> PROVE Head(de_fs) \in DesdeFs /\ Tail(de_fs) \in Seq(DesdeFs)
  BY <1>3 DEF Tipo
<1>4. \A m \in DesdeFs : m.pid \in Procesos /\ m.arch \in Nombres
  BY DEF DesdeFs
<1> QED
  BY <1>1, <1>2, <1>3, <1>4

LEMMA CpuTipo ==
    /\ Libre \in UnaCpu
    /\ \A p \in Procesos : Cpu("ejecuta", p) \in UnaCpu /\ Cpu("espera", p) \in UnaCpu
  BY DEF Libre, Cpu, UnaCpu

-----------------------------------------------------------------------------
(* What a step does to the messages of a class. *)

LEMMA EnviaFs ==
    ASSUME Tipo, NEW C, Solo(C), NEW m \in HaciaFs, m.op \in C => EnVuelo(C) = {},
           a_fs' = Append(a_fs, m), de_fs' = de_fs
    PROVE  Solo(C)' /\ EnVuelo(C)' = EnVuelo(C) \cup (IF m.op \in C THEN {m} ELSE {})
<1>1. /\ Clase(a_fs', C) = Clase(a_fs, C) \cup (IF m.op \in C THEN {m} ELSE {})
      /\ Unico(a_fs', C)
  BY Encolar DEF Tipo, Solo, EnVuelo
<1> QED
  BY <1>1 DEF Solo, EnVuelo

LEMMA LlegaDeFs ==
    ASSUME Tipo, NEW C, Solo(C), de_fs # <<>>, de_fs' = Tail(de_fs), a_fs' = a_fs
    PROVE  /\ Solo(C)'
           /\ Head(de_fs).op \in C => EnVuelo(C) = {Head(de_fs)} /\ EnVuelo(C)' = {}
           /\ Head(de_fs).op \notin C => EnVuelo(C)' = EnVuelo(C)
<1>1. /\ Unico(de_fs', C)
      /\ Head(de_fs).op \in C => Clase(de_fs, C) = {Head(de_fs)} /\ Clase(de_fs', C) = {}
      /\ Head(de_fs).op \notin C => Clase(de_fs', C) = Clase(de_fs, C)
  BY Desencolar DEF Tipo, Solo
<1> QED
  BY <1>1 DEF Solo, EnVuelo

LEMMA Reenvia ==
    ASSUME Tipo, NEW C, Solo(C), de_fs # <<>>, Head(de_fs) \in HaciaFs,
           de_fs' = Tail(de_fs), a_fs' = Append(a_fs, Head(de_fs))
    PROVE  /\ Solo(C)' /\ EnVuelo(C)' = EnVuelo(C)
           /\ Head(de_fs).op \in C => EnVuelo(C) = {Head(de_fs)}
<1> DEFINE m == Head(de_fs)
<1>1. /\ Unico(de_fs', C)
      /\ m.op \in C => Clase(de_fs, C) = {m} /\ Clase(de_fs', C) = {}
      /\ m.op \notin C => Clase(de_fs', C) = Clase(de_fs, C)
  BY Desencolar DEF Tipo, Solo
<1>2. m.op \in C => Clase(a_fs, C) = {}
  BY <1>1 DEF Solo
<1>3. m \in HaciaFs /\ a_fs' = Append(a_fs, m)
  OBVIOUS
<1> HIDE DEF m
<1>4. /\ Clase(a_fs', C) = Clase(a_fs, C) \cup (IF m.op \in C THEN {m} ELSE {})
      /\ Unico(a_fs', C)
  BY <1>2, <1>3, Encolar DEF Tipo, Solo
<1>5. CASE m.op \in C
  <2>1. /\ Clase(a_fs', C) = {m} /\ Clase(de_fs', C) = {}
        /\ Clase(a_fs, C) = {} /\ Clase(de_fs, C) = {m}
    BY <1>1, <1>2, <1>4, <1>5
  <2> QED
    BY <1>1, <1>4, <2>1 DEF Solo, EnVuelo, m
<1>6. CASE m.op \notin C
  <2>1. Clase(a_fs', C) = Clase(a_fs, C) /\ Clase(de_fs', C) = Clase(de_fs, C)
    BY <1>1, <1>4, <1>6
  <2> QED
    BY <1>1, <1>4, <1>6, <2>1 DEF Solo, EnVuelo, m
<1> QED
  BY <1>5, <1>6

LEMMA AtiendeFs ==
    ASSUME Tipo, NEW C, Solo(C), a_fs # <<>>, NEW r \in DesdeFs,
           Head(a_fs).op \in C <=> r.op \in C,
           a_fs' = Tail(a_fs), de_fs' = Append(de_fs, r)
    PROVE  /\ Solo(C)'
           /\ Head(a_fs).op \in C => EnVuelo(C) = {Head(a_fs)} /\ EnVuelo(C)' = {r}
           /\ Head(a_fs).op \notin C => EnVuelo(C)' = EnVuelo(C)
<1> DEFINE m == Head(a_fs)
<1>1. /\ Unico(a_fs', C)
      /\ m.op \in C => Clase(a_fs, C) = {m} /\ Clase(a_fs', C) = {}
      /\ m.op \notin C => Clase(a_fs', C) = Clase(a_fs, C)
  BY Desencolar DEF Tipo, Solo
<1>2. r.op \in C => Clase(de_fs, C) = {}
  BY <1>1 DEF Solo
<1>3. /\ Clase(de_fs', C) = Clase(de_fs, C) \cup (IF r.op \in C THEN {r} ELSE {})
      /\ Unico(de_fs', C)
  BY <1>2, Encolar DEF Tipo, Solo
<1>4. m.op \in C <=> r.op \in C
  OBVIOUS
<1> HIDE DEF m
<1>5. CASE m.op \in C
  <2>1. /\ Clase(a_fs, C) = {m} /\ Clase(a_fs', C) = {}
        /\ Clase(de_fs, C) = {} /\ Clase(de_fs', C) = {r}
    BY <1>1, <1>2, <1>3, <1>4, <1>5
  <2> QED
    BY <1>1, <1>3, <1>5, <2>1 DEF Solo, EnVuelo, m
<1>6. CASE m.op \notin C
  <2>1. Clase(a_fs', C) = Clase(a_fs, C) /\ Clase(de_fs', C) = Clase(de_fs, C)
    BY <1>1, <1>3, <1>4, <1>6
  <2> QED
    BY <1>1, <1>3, <1>6, <2>1 DEF Solo, EnVuelo, m
<1> QED
  BY <1>5, <1>6

LEMMA FsQuieto ==
    ASSUME NEW C, UNCHANGED <<a_fs, de_fs>>
    PROVE  EnVuelo(C)' = EnVuelo(C) /\ Solo(C)' = Solo(C)
  BY DEF EnVuelo, Solo

-----------------------------------------------------------------------------
(* What holds whatever the programs do: types, one entry for every file, one *)
(* opening and one access at a time. One lemma for each action says what it  *)
(* does to the list, to the messages and to the places of the processes.     *)

LEMMA ListaQuieta ==
    ASSUME UNCHANGED lista
    PROVE  /\ EnLista' = EnLista /\ UnaEntrada' = UnaEntrada /\ TipoLista' = TipoLista
           /\ \A a : Cola(a)' = Cola(a) /\ Sem(a)' = Sem(a)
           /\ \A p, a : EnCola(p, a)' = EnCola(p, a)
<1>1. EnLista' = EnLista /\ UnaEntrada' = UnaEntrada /\ TipoLista' = TipoLista
  BY DEF EnLista, UnaEntrada, TipoLista
<1>2. \A a : Entrada(a)' = Entrada(a)
  BY DEF Entrada, SelectInSeq
<1>3. \A a : Cola(a)' = Cola(a) /\ Sem(a)' = Sem(a)
  BY <1>2 DEF Cola, Sem
<1>4. \A p, a : EnCola(p, a)' = EnCola(p, a)
  BY <1>2 DEF EnCola
<1> QED
  BY <1>1, <1>3, <1>4

LEMMA CpuSinApertura ==
    ASSUME Base, cpu.estado # "espera"
    PROVE  EnVuelo(Aperturas) = {}
  BY DEF Base, Apertura, Cpu

LEMMA ListaEntrada ==
    ASSUME Base
    PROVE  /\ TipoLista /\ ListaLeida
           /\ \A a \in Nombres : Entrada(a) # 0 <=> a \in EnLista
<1>1. TipoLista
  BY DEF Base, Tipo, TipoOK, TipoLista, Entradas
<1>2. ListaLeida
  BY <1>1, ListaDe DEF Base
<1> QED
  BY <1>1, <1>2 DEF ListaLeida

\* What the CPU executes.
LEMMA EjecutaDe ==
    ASSUME Base, NEW op, Ejecuta(op)
    PROVE  /\ cpu.pcb \in Procesos /\ cpu = Cpu("ejecuta", cpu.pcb) /\ cpu.estado # "espera"
           /\ Actual \in Instruccion /\ Actual.arch \in Nombres /\ Actual.pos \in Posiciones
           /\ Actual.op = op
           /\ EnVuelo(Aperturas) = {}
           /\ UNCHANGED <<de_fs, caido, programa, fcbs>>
<1>1. Tipo /\ cpu.estado = "ejecuta" /\ pc[cpu.pcb] < Len(programa[cpu.pcb])
  BY DEF Ejecuta, Base
<1>2. /\ cpu.pcb \in Procesos /\ cpu = Cpu("ejecuta", cpu.pcb)
      /\ Actual \in Instruccion /\ Actual.arch \in Nombres /\ Actual.pos \in Posiciones
  BY <1>1, ActualDe
<1>3. EnVuelo(Aperturas) = {}
  BY <1>1, CpuSinApertura
<1> QED
  BY <1>1, <1>2, <1>3 DEF Ejecuta

\* A step of the CPU that sends nothing.
LEMMA CpuCallada ==
    ASSUME Base, NEW op, Ejecuta(op), UNCHANGED <<a_fs, mutex_compresion>>,
           abiertos' \in [Procesos -> Seq(Archivo)], listos' \subseteq Procesos,
           cpu' \in UnaCpu, TipoLista', UnaEntrada'
    PROVE  Base' /\ \A C : EnVuelo(C)' = EnVuelo(C)
<1>1. Tipo'
  BY EjecutaTipo, EjecutaDe DEF Base, Tipo, TipoOK, UnaCpu, Archivo, Entradas, TipoLista
<1>2. UNCHANGED <<a_fs, de_fs, mutex_compresion>>
  BY EjecutaDe
<1>3. \A C : EnVuelo(C)' = EnVuelo(C) /\ Solo(C)' = Solo(C)
  BY <1>2, FsQuieto
<1>4. EnVuelo(Aperturas) = {}
  BY EjecutaDe
<1>5. Apertura' /\ Mutex'
  BY <1>2, <1>3, <1>4 DEF Apertura, Mutex, Base
<1> QED
  BY <1>1, <1>3, <1>5 DEF Base

\* An entry of the list is overwritten, and keeps its file.
LEMMA EntradaCambiada ==
    ASSUME Base, NEW a \in EnLista, NEW e \in Entradas, e.dir = a,
           lista' = [lista EXCEPT ![Entrada(a)] = e]
    PROVE  /\ TipoLista' /\ UnaEntrada' /\ EnLista' = EnLista
           /\ Cola(a)' = e.cola /\ Sem(a)' = e.sem
           /\ \A b \in EnLista : b # a => Cola(b)' = Cola(b) /\ Sem(b)' = Sem(b)
<1>1. PICK i : i = Entrada(a)
  OBVIOUS
<1>2. TipoLista /\ ListaLeida /\ UnaEntrada
  BY ListaEntrada DEF Base
<1>3. i \in DOMAIN lista /\ lista[i].dir = a /\ lista \in Seq(Entradas)
  BY <1>1, <1>2 DEF ListaLeida, TipoLista
<1>4. /\ lista' \in Seq(Entradas) /\ DOMAIN lista' = DOMAIN lista /\ lista'[i] = e
      /\ \A j \in DOMAIN lista : j # i => lista'[j] = lista[j]
  BY <1>1, <1>3
<1>5. TipoLista' /\ \A j \in DOMAIN lista : lista'[j].dir = lista[j].dir
  BY <1>3, <1>4 DEF TipoLista
<1>6. UnaEntrada' /\ EnLista' = EnLista /\ \A b \in EnLista : Entrada(b)' = Entrada(b)
  BY <1>2, <1>4, <1>5, ListaCambiada
<1>7. Cola(a)' = e.cola /\ Sem(a)' = e.sem
  BY <1>1, <1>4, <1>6 DEF Cola, Sem
<1>8. ASSUME NEW b \in EnLista, b # a PROVE Cola(b)' = Cola(b) /\ Sem(b)' = Sem(b)
  <2>1. Entrada(b) \in DOMAIN lista /\ Entrada(b) # i
    BY <1>2, <1>3, <1>8 DEF ListaLeida
  <2> QED
    BY <1>4, <1>6, <2>1 DEF Cola, Sem
<1> QED
  BY <1>5, <1>6, <1>7, <1>8

LEMMA ConCola ==
    ASSUME NEW e \in Entradas, NEW c \in Seq(Procesos)
    PROVE  /\ [e EXCEPT !.cola = c] \in Entradas /\ [e EXCEPT !.cola = c].dir = e.dir
           /\ [e EXCEPT !.cola = c].cola = c /\ [e EXCEPT !.cola = c].sem = e.sem
  BY DEF Entradas

LEMMA ConSem ==
    ASSUME NEW e \in Entradas, NEW n \in Nat
    PROVE  /\ [e EXCEPT !.sem = n] \in Entradas /\ [e EXCEPT !.sem = n].dir = e.dir
           /\ [e EXCEPT !.sem = n].cola = e.cola /\ [e EXCEPT !.sem = n].sem = n
  BY DEF Entradas

LEMMA AnotarTipo ==
    ASSUME Base, NEW p \in Procesos, NEW a \in Nombres, Anotar(p, a)
    PROVE  abiertos' \in [Procesos -> Seq(Archivo)]
<1> DEFINE e == [dir |-> a, punt |-> 0]
<1>1. e \in Archivo
  BY SupuestosArchivos DEF Archivo
<1>2. abiertos \in [Procesos -> Seq(Archivo)] /\ abiertos' = [abiertos EXCEPT ![p] = Append(@, e)]
  BY DEF Base, Tipo, TipoOK, Archivo, Anotar
<1> HIDE DEF e
<1>3. Append(abiertos[p], e) \in Seq(Archivo)
  BY <1>1, <1>2
<1> QED
  BY <1>2, <1>3

LEMMA EfectoAbrirOcupado ==
    ASSUME Base, AbrirOcupado
    PROVE  /\ Base' /\ EnLista' = EnLista /\ \A C : EnVuelo(C)' = EnVuelo(C)
           /\ \E a \in EnLista, p \in Procesos :
                /\ a = Actual.arch /\ p = cpu.pcb
                /\ Cola(a)' = Append(Cola(a), p) /\ Sem(a)' = Sem(a)
                /\ \A b \in EnLista : b # a => Cola(b)' = Cola(b) /\ Sem(b)' = Sem(b)
<1>1. /\ Ejecuta("F_OPEN") /\ cpu.pcb \in Procesos /\ Actual.arch \in Nombres
      /\ Actual.arch \in EnLista
      /\ UNCHANGED <<listos, a_fs, mutex_compresion>> /\ cpu' = Libre
  BY EjecutaDe, ListaEntrada DEF AbrirOcupado
<1>2. PICK a \in EnLista, p \in Procesos : a = Actual.arch /\ p = cpu.pcb
  BY <1>1
<1>3. Anotar(p, a) /\ lista' = [lista EXCEPT ![Entrada(a)].cola = Append(@, p)]
  BY <1>2 DEF AbrirOcupado
<1>4. abiertos' \in [Procesos -> Seq(Archivo)]
  BY <1>1, <1>2, <1>3, AnotarTipo
<1> DEFINE c == Append(Cola(a), p)
           e == [lista[Entrada(a)] EXCEPT !.cola = c]
<1>5. Entrada(a) \in DOMAIN lista /\ lista[Entrada(a)] \in Entradas /\ lista[Entrada(a)].dir = a
  BY ListaEntrada DEF ListaLeida, TipoLista
<1>6. c \in Seq(Procesos)
  BY ListaEntrada DEF ListaLeida
<1>7. e \in Entradas /\ e.dir = a /\ e.cola = c /\ e.sem = Sem(a)
  BY <1>5, <1>6, ConCola DEF Sem
<1>8. lista' = [lista EXCEPT ![Entrada(a)] = e]
  BY <1>3 DEF Cola
<1> HIDE DEF e
<1>9. /\ TipoLista' /\ UnaEntrada' /\ EnLista' = EnLista
      /\ Cola(a)' = c /\ Sem(a)' = Sem(a)
      /\ \A b \in EnLista : b # a => Cola(b)' = Cola(b) /\ Sem(b)' = Sem(b)
  BY <1>7, <1>8, EntradaCambiada
<1>10. Base' /\ \A C : EnVuelo(C)' = EnVuelo(C)
  <2>1. cpu' \in UnaCpu /\ listos' \subseteq Procesos
    BY <1>1, CpuTipo DEF Base, Tipo, TipoOK
  <2> QED
    BY <1>1, <1>4, <1>9, <2>1, CpuCallada
<1> QED
  BY <1>2, <1>9, <1>10

LEMMA EfectoAbrirLibre ==
    ASSUME Base, AbrirLibre
    PROVE  /\ Base' /\ UNCHANGED lista
           /\ EnVuelo(Aperturas) = {} /\ EnVuelo(Accesos)' = EnVuelo(Accesos)
           /\ \E a \in Nombres, p \in Procesos, m \in HaciaFs :
                /\ a = Actual.arch /\ p = cpu.pcb /\ a \notin EnLista
                /\ cpu' = Cpu("espera", p)
                /\ EnVuelo(Aperturas)' = {m} /\ m.pid = p /\ m.arch = a
<1>1. /\ Ejecuta("F_OPEN") /\ cpu.pcb \in Procesos /\ Actual.arch \in Nombres
      /\ Actual.arch \notin EnLista
      /\ UNCHANGED <<abiertos, listos, lista, mutex_compresion>>
  BY EjecutaDe, ListaEntrada DEF AbrirLibre
<1>2. PICK a \in Nombres, p \in Procesos : a = Actual.arch /\ p = cpu.pcb
  BY <1>1
<1> DEFINE m == [op |-> "ABRIR_ARCHIVO", pid |-> p, arch |-> a]
<1>3. a_fs' = Append(a_fs, m) /\ cpu' = Cpu("espera", p)
  BY <1>2 DEF AbrirLibre
<1>4. m \in HaciaFs /\ m.pid = p /\ m.arch = a /\ m.op \in Aperturas /\ m.op \notin Accesos
  BY DEF HaciaFs, Aperturas, Accesos, Operaciones
<1> HIDE DEF m
<1>5. de_fs' = de_fs /\ EnVuelo(Aperturas) = {}
  BY <1>1, EjecutaDe
<1>6. Tipo'
  <2>1. cpu' \in UnaCpu
    BY <1>2, <1>3, CpuTipo
  <2>2. a_fs' \in Seq(HaciaFs)
    BY <1>3, <1>4 DEF Base, Tipo
  <2> QED
    BY <1>1, <2>1, <2>2, EjecutaTipo DEF Base, Tipo, TipoOK, UnaCpu
<1>7. Solo(Aperturas)' /\ EnVuelo(Aperturas)' = {m}
  BY <1>3, <1>4, <1>5, EnviaFs DEF Base, Apertura
<1>8. Solo(Accesos)' /\ EnVuelo(Accesos)' = EnVuelo(Accesos)
  <2>1. Tipo /\ Solo(Accesos)
    BY DEF Base, Mutex
  <2>2. /\ Solo(Accesos)'
        /\ EnVuelo(Accesos)' = EnVuelo(Accesos) \cup (IF m.op \in Accesos THEN {m} ELSE {})
    BY <1>3, <1>4, <1>5, <2>1, EnviaFs
  <2> QED
    BY <1>4, <2>2
<1>9. EnLista' = EnLista /\ UnaEntrada'
  BY <1>1, ListaQuieta DEF Base
<1>10. Apertura' /\ Mutex'
  BY <1>1, <1>2, <1>3, <1>4, <1>7, <1>8, <1>9 DEF Base, Apertura, Mutex
<1> QED
  BY <1>1, <1>2, <1>3, <1>4, <1>5, <1>6, <1>7, <1>8, <1>9, <1>10 DEF Base

LEMMA EfectoBloquear ==
    ASSUME Base, NEW op, Ejecuta(op), NEW o \in Operaciones, NEW n \in Posiciones, Bloquear(o, n)
    PROVE  /\ Base' /\ UNCHANGED <<lista, listos>> /\ cpu' = Libre
           /\ EnVuelo(Aperturas)' = {} /\ EnVuelo(Accesos) = {}
           /\ \E p \in Procesos, m \in HaciaFs :
                p = cpu.pcb /\ EnVuelo(Accesos)' = {m} /\ m.pid = p
<1>1. /\ cpu.pcb \in Procesos /\ Actual.arch \in Nombres
      /\ UNCHANGED <<abiertos, listos, lista>> /\ cpu' = Libre
      /\ mutex_compresion > 0 /\ mutex_compresion' = mutex_compresion - 1
  BY EjecutaDe DEF Bloquear
<1>2. PICK a \in Nombres, p \in Procesos : a = Actual.arch /\ p = cpu.pcb
  BY <1>1
<1> DEFINE m == [op |-> o, pid |-> p, arch |-> a, pos |-> n]
<1>3. a_fs' = Append(a_fs, m)
  BY <1>2 DEF Bloquear
<1>4. m \in HaciaFs /\ m.pid = p /\ m.op \in Accesos /\ m.op \notin Aperturas
  BY DEF HaciaFs, Aperturas, Accesos, Operaciones
<1> HIDE DEF m
<1>5. de_fs' = de_fs /\ EnVuelo(Aperturas) = {}
  BY EjecutaDe
<1>6. mutex_compresion = 1 /\ mutex_compresion' = 0 /\ EnVuelo(Accesos) = {}
  BY <1>1 DEF Base, Mutex, Tipo, TipoOK
<1>7. Tipo'
  <2>1. cpu' \in UnaCpu
    BY <1>1, CpuTipo
  <2>2. a_fs' \in Seq(HaciaFs)
    BY <1>3, <1>4 DEF Base, Tipo
  <2>3. /\ pc' \in [Procesos -> Nat] /\ \A q \in Procesos : pc'[q] <= Len(programa'[q])
        /\ programa' \in [Procesos -> Programas] /\ fcbs' \subseteq Nombres
        /\ de_fs' \in Seq(DesdeFs)
    BY EjecutaTipo DEF Base
  <2>4. /\ abiertos' \in [Procesos -> Seq([dir : Nombres, punt : Posiciones])]
        /\ listos' \subseteq Procesos
        /\ lista' \in Seq([dir : Nombres, cola : Seq(Procesos), sem : Nat])
    BY <1>1 DEF Base, Tipo, TipoOK
  <2>5. mutex_compresion' \in 0..1
    BY <1>6
  <2> QED
    BY <2>1, <2>2, <2>3, <2>4, <2>5 DEF Tipo, TipoOK, UnaCpu
<1>8. Solo(Aperturas)' /\ EnVuelo(Aperturas)' = {}
  BY <1>3, <1>4, <1>5, EnviaFs DEF Base, Apertura
<1>9. Solo(Accesos)' /\ EnVuelo(Accesos)' = {m}
  BY <1>3, <1>4, <1>5, <1>6, EnviaFs DEF Base, Mutex
<1>10. EnLista' = EnLista /\ UnaEntrada'
  BY <1>1, ListaQuieta DEF Base
<1>11. Apertura' /\ Mutex'
  BY <1>6, <1>8, <1>9, <1>10 DEF Apertura, Mutex
<1> QED
  BY <1>1, <1>2, <1>4, <1>6, <1>7, <1>8, <1>9, <1>10, <1>11 DEF Base

LEMMA EfectoAcceder ==
    ASSUME Base, Operar \/ Truncar
    PROVE  /\ Base' /\ UNCHANGED <<lista, listos>> /\ cpu' = Libre
           /\ EnVuelo(Aperturas)' = {} /\ EnVuelo(Accesos) = {}
           /\ \E p \in Procesos, m \in HaciaFs :
                p = cpu.pcb /\ EnVuelo(Accesos)' = {m} /\ m.pid = p
<1>1. CASE Truncar
  BY <1>1, EfectoBloquear, SupuestosArchivos DEF Truncar, Operaciones
<1>2. CASE Operar
  <2>1. PICK op \in {"F_READ", "F_WRITE"} : Ejecuta(op)
    BY <1>2 DEF Operar
  <2>2. cpu.pcb \in Procesos /\ Actual.arch \in Nombres /\ Tipo
    BY <2>1, EjecutaDe DEF Base
  <2>3. PICK n \in BuscarPuntero(cpu.pcb, Actual.arch) :
            Bloquear(IF Actual.op = "F_READ" THEN "LEER_ARCHIVO" ELSE "ESCRIBIR_ARCHIVO", n)
    BY <1>2 DEF Operar
  <2>4. n \in Posiciones
    BY <2>2, <2>3, PunteroTipo
  <2>5. PICK o \in Operaciones : Bloquear(o, n)
    BY <2>3 DEF Operaciones
  <2> QED
    BY <2>1, <2>4, <2>5, EfectoBloquear
<1> QED
  BY <1>1, <1>2

\* F_SEEK, YIELD and EXIT leave the list and the messages alone.
LEMMA EfectoMover ==
    ASSUME Base, Mover
    PROVE  Base' /\ UNCHANGED <<lista, listos, cpu>> /\ \A C : EnVuelo(C)' = EnVuelo(C)
<1>1. /\ Ejecuta("F_SEEK") /\ cpu.pcb \in Procesos /\ Actual.pos \in Posiciones
      /\ UNCHANGED <<listos, cpu, lista, a_fs, mutex_compresion>>
  BY EjecutaDe DEF Mover
<1>2. PICK p \in Procesos, n \in Posiciones, i \in {Propia(cpu.pcb, Actual.arch)} :
        p = cpu.pcb /\ n = Actual.pos /\ i = Propia(p, Actual.arch)
  BY <1>1
<1>3. abiertos \in [Procesos -> Seq(Archivo)]
  BY DEF Base, Tipo, TipoOK, Archivo
<1>4. abiertos' \in [Procesos -> Seq(Archivo)]
  <2>1. abiertos' = IF i = 0 THEN abiertos ELSE [abiertos EXCEPT ![p][i].punt = n]
    BY <1>2 DEF Mover
  <2> DEFINE s == abiertos[p]
             t == [s EXCEPT ![i] = [@ EXCEPT !.punt = n]]
  <2>2. s \in Seq(Archivo)
    BY <1>3
  <2>3. t \in Seq(Archivo)
    <3>1. CASE i \in DOMAIN s
      <4>1. [s[i] EXCEPT !.punt = n] \in Archivo
        <5>1. s[i] \in Archivo
          BY <2>2, <3>1
        <5> QED
          BY <5>1 DEF Archivo
      <4> HIDE DEF s
      <4> QED
        BY <2>2, <3>1, <4>1
    <3>2. CASE i \notin DOMAIN s
      <4>1. t = s
        BY <2>2, <3>2
      <4> QED
        BY <2>2, <4>1
    <3> QED
      BY <3>1, <3>2
  <2>4. [abiertos EXCEPT ![p][i].punt = n] = [abiertos EXCEPT ![p] = t]
    OBVIOUS
  <2> HIDE DEF t
  <2> QED
    BY <1>3, <2>1, <2>3, <2>4
<1>5. TipoLista' /\ UnaEntrada'
  BY <1>1, ListaQuieta, ListaEntrada DEF Base
<1>6. cpu' \in UnaCpu /\ listos' \subseteq Procesos
  BY <1>1 DEF Base, Tipo, TipoOK, UnaCpu
<1>7. Base' /\ \A C : EnVuelo(C)' = EnVuelo(C)
  BY <1>1, <1>4, <1>5, <1>6, CpuCallada
<1> QED
  BY <1>1, <1>7

LEMMA EfectoSoltar ==
    ASSUME Base, Desalojar \/ Terminar
    PROVE  /\ Base' /\ UNCHANGED lista /\ \A C : EnVuelo(C)' = EnVuelo(C)
           /\ cpu' = Libre /\ listos' \subseteq listos \cup {cpu.pcb}
<1>1. PICK op \in {"YIELD", "EXIT"} : Ejecuta(op)
  BY DEF Desalojar, Terminar
<1>2. /\ cpu.pcb \in Procesos /\ UNCHANGED <<abiertos, lista, a_fs, mutex_compresion>>
      /\ cpu' = Libre /\ listos' \subseteq listos \cup {cpu.pcb}
  BY <1>1, EjecutaDe DEF Desalojar, Terminar
<1>3. TipoLista' /\ UnaEntrada'
  BY <1>2, ListaQuieta, ListaEntrada DEF Base
<1>4. cpu' \in UnaCpu /\ listos' \subseteq Procesos /\ abiertos' \in [Procesos -> Seq(Archivo)]
  BY <1>2, CpuTipo DEF Base, Tipo, TipoOK, Archivo
<1>5. Base' /\ \A C : EnVuelo(C)' = EnVuelo(C)
  BY <1>1, <1>2, <1>3, <1>4, CpuCallada
<1> QED
  BY <1>2, <1>5

\* F_CLOSE frees the entry, or posts its semaphore.
LEMMA EfectoCerrar ==
    ASSUME Base, Cerrar
    PROVE  /\ Base' /\ UNCHANGED <<listos, cpu>> /\ \A C : EnVuelo(C)' = EnVuelo(C)
           /\ \E a \in Nombres, p \in Procesos :
                /\ a = Actual.arch /\ p = cpu.pcb
                /\ \/ a \notin EnLista /\ UNCHANGED lista
                   \/ /\ a \in EnLista /\ Cola(a) = <<>> /\ EnLista' = EnLista \ {a}
                      /\ \A b \in EnLista : b # a => Cola(b)' = Cola(b) /\ Sem(b)' = Sem(b)
                   \/ /\ a \in EnLista /\ Cola(a) # <<>> /\ EnLista' = EnLista
                      /\ Cola(a)' = Cola(a) /\ Sem(a)' = Sem(a) + 1
                      /\ \A b \in EnLista : b # a => Cola(b)' = Cola(b) /\ Sem(b)' = Sem(b)
<1>1. /\ Ejecuta("F_CLOSE") /\ cpu.pcb \in Procesos /\ Actual.arch \in Nombres
      /\ UNCHANGED <<abiertos, listos, cpu, a_fs, mutex_compresion>>
  BY EjecutaDe DEF Cerrar
<1>2. PICK a \in Nombres, p \in Procesos : a = Actual.arch /\ p = cpu.pcb
  BY <1>1
<1>3. lista' = IF Entrada(a) = 0 THEN lista
               ELSE IF lista[Entrada(a)].cola = <<>> THEN RemoveAt(lista, Entrada(a))
               ELSE [lista EXCEPT ![Entrada(a)].sem = @ + 1]
  BY <1>2 DEF Cerrar
<1>4. TipoLista /\ ListaLeida /\ UnaEntrada /\ (Entrada(a) # 0 <=> a \in EnLista)
  BY ListaEntrada DEF Base
<1> DEFINE
      Igual == a \notin EnLista /\ UNCHANGED lista
      Liberada == /\ a \in EnLista /\ Cola(a) = <<>> /\ EnLista' = EnLista \ {a}
                  /\ \A b \in EnLista : b # a => Cola(b)' = Cola(b) /\ Sem(b)' = Sem(b)
      Avisada == /\ a \in EnLista /\ Cola(a) # <<>> /\ EnLista' = EnLista
                 /\ Cola(a)' = Cola(a) /\ Sem(a)' = Sem(a) + 1
                 /\ \A b \in EnLista : b # a => Cola(b)' = Cola(b) /\ Sem(b)' = Sem(b)
<1>5. TipoLista' /\ UnaEntrada' /\ (Igual \/ Liberada \/ Avisada)
  <2>1. CASE a \notin EnLista
    <3>1. UNCHANGED lista
      BY <1>3, <1>4, <2>1
    <3> QED
      BY <1>4, <2>1, <3>1, ListaQuieta
  <2>2. CASE a \in EnLista /\ Cola(a) = <<>>
    <3>1. lista' = RemoveAt(lista, Entrada(a))
      BY <1>3, <1>4, <2>2 DEF Cola
    <3> QED
      BY <1>4, <2>2, <3>1, ListaQuitada
  <2>3. CASE a \in EnLista /\ Cola(a) # <<>>
    <3> DEFINE n == Sem(a) + 1
               e == [lista[Entrada(a)] EXCEPT !.sem = n]
    <3>1. lista' = [lista EXCEPT ![Entrada(a)] = e]
      BY <1>3, <1>4, <2>3 DEF Cola, Sem
    <3>2. Entrada(a) \in DOMAIN lista /\ lista[Entrada(a)] \in Entradas /\ lista[Entrada(a)].dir = a
      BY <1>4, <2>3 DEF ListaLeida, TipoLista
    <3>3. n \in Nat
      BY <1>4, <2>3 DEF ListaLeida
    <3>4. e \in Entradas /\ e.dir = a /\ e.cola = Cola(a) /\ e.sem = n
      BY <3>2, <3>3, ConSem DEF Cola
    <3> HIDE DEF e
    <3> QED
      BY <2>3, <3>1, <3>4, EntradaCambiada
  <2> QED
    BY <2>1, <2>2, <2>3
<1>6. Base' /\ \A C : EnVuelo(C)' = EnVuelo(C)
  <2>1. cpu' \in UnaCpu /\ listos' \subseteq Procesos /\ abiertos' \in [Procesos -> Seq(Archivo)]
    BY <1>1 DEF Base, Tipo, TipoOK, Archivo, UnaCpu
  <2> QED
    BY <1>1, <1>5, <2>1, CpuCallada
<1> QED
  BY <1>1, <1>2, <1>5, <1>6

\* A step that leaves the channels, the programs and the list alone.
LEMMA EfectoDespachar ==
    ASSUME Base, NEW p \in Procesos, Despachar(p)
    PROVE  /\ Base' /\ UNCHANGED lista /\ \A C : EnVuelo(C)' = EnVuelo(C)
           /\ p \in listos /\ listos' = listos \ {p} /\ cpu' = Cpu("ejecuta", p)
           /\ UNCHANGED <<programa, pc, caido>>
<1>1. /\ cpu = Libre /\ p \in listos /\ listos' = listos \ {p} /\ cpu' = Cpu("ejecuta", p)
      /\ UNCHANGED <<programa, pc, abiertos, lista, fcbs, a_fs, de_fs, mutex_compresion, caido>>
  BY DEF Despachar
<1>2. \A C : EnVuelo(C)' = EnVuelo(C) /\ Solo(C)' = Solo(C)
  BY <1>1, FsQuieto
<1>3. EnVuelo(Aperturas) = {}
  BY <1>1, CpuSinApertura DEF Libre, Cpu
<1>4. cpu' \in UnaCpu
  BY <1>1, CpuTipo
<1>5. Tipo'
  BY <1>1, <1>4 DEF Base, Tipo, TipoOK, UnaCpu
<1>6. UnaEntrada' /\ Apertura' /\ Mutex'
  BY <1>1, <1>2, <1>3, ListaQuieta DEF Base, Apertura, Mutex
<1> QED
  BY <1>1, <1>2, <1>5, <1>6 DEF Base

LEMMA EfectoDespertar ==
    ASSUME Base, NEW a \in Nombres, HiloArchivo(a)
    PROVE  /\ Base' /\ \A C : EnVuelo(C)' = EnVuelo(C)
           /\ a \in EnLista /\ Sem(a) > 0 /\ UNCHANGED <<programa, pc, cpu>>
           /\ \/ Cola(a) = <<>>
              \/ /\ Cola(a) # <<>> /\ listos' = listos \cup {Head(Cola(a))} /\ EnLista' = EnLista
                 /\ Cola(a)' = Tail(Cola(a)) /\ Sem(a)' = Sem(a) - 1 /\ caido' = caido
                 /\ \A b \in EnLista : b # a => Cola(b)' = Cola(b) /\ Sem(b)' = Sem(b)
<1> DEFINE i == Entrada(a)
<1>1. TipoLista /\ ListaLeida /\ UnaEntrada /\ a \in EnLista
  BY ListaEntrada DEF Base, HiloArchivo
<1>2. i \in DOMAIN lista /\ lista[i] \in Entradas /\ lista[i].dir = a
  BY <1>1 DEF ListaLeida, TipoLista
<1>3. Cola(a) \in Seq(Procesos) /\ Sem(a) \in Nat /\ Cola(a) = lista[i].cola /\ Sem(a) = lista[i].sem
  BY <1>1 DEF ListaLeida, Cola, Sem
<1>4. /\ Sem(a) > 0
      /\ UNCHANGED <<programa, pc, abiertos, cpu, fcbs, a_fs, de_fs, mutex_compresion>>
      /\ \/ Cola(a) = <<>> /\ UNCHANGED <<lista, listos>>
         \/ /\ Cola(a) # <<>> /\ listos' = listos \cup {Head(Cola(a))} /\ caido' = caido
            /\ lista' = [lista EXCEPT ![i].cola = Tail(@), ![i].sem = @ - 1]
  BY <1>3 DEF HiloArchivo, Despertar
<1>5. \A C : EnVuelo(C)' = EnVuelo(C) /\ Solo(C)' = Solo(C)
  BY <1>4, FsQuieto
<1>6. CASE Cola(a) = <<>>
  <2>1. UNCHANGED <<lista, listos>>
    BY <1>4, <1>6
  <2>2. Tipo'
    BY <1>4, <2>1 DEF Base, Tipo, TipoOK
  <2>3. UnaEntrada' /\ Apertura' /\ Mutex'
    BY <1>4, <1>5, <2>1, ListaQuieta DEF Base, Apertura, Mutex
  <2> QED
    BY <1>1, <1>4, <1>5, <1>6, <2>2, <2>3 DEF Base
<1>7. CASE Cola(a) # <<>>
  <2> DEFINE c == Tail(Cola(a))
             n == Sem(a) - 1
             d == [lista[i] EXCEPT !.cola = c]
             e == [d EXCEPT !.sem = n]
  <2>1. c \in Seq(Procesos) /\ n \in Nat /\ Head(Cola(a)) \in Procesos
    BY <1>3, <1>4, <1>7
  <2>2. listos' = listos \cup {Head(Cola(a))} /\ caido' = caido
    BY <1>4, <1>7
  <2>3. lista' = [lista EXCEPT ![i] = e]
    <3>1. lista' = [lista EXCEPT ![i].cola = Tail(@), ![i].sem = @ - 1]
      BY <1>4, <1>7
    <3>2. [lista EXCEPT ![i].cola = Tail(@), ![i].sem = @ - 1] = [lista EXCEPT ![i] = e]
      BY <1>1, <1>2, <1>3 DEF TipoLista, Entradas
    <3> QED
      BY <3>1, <3>2
  <2>4. e \in Entradas /\ e.dir = a /\ e.cola = c /\ e.sem = n
    <3>1. d \in Entradas /\ d.dir = a /\ d.cola = c
      BY <1>2, <2>1, ConCola
    <3> HIDE DEF d
    <3> QED
      BY <2>1, <3>1, ConSem
  <2> HIDE DEF e
  <2>5. /\ TipoLista' /\ UnaEntrada' /\ EnLista' = EnLista /\ Cola(a)' = c /\ Sem(a)' = n
        /\ \A b \in EnLista : b # a => Cola(b)' = Cola(b) /\ Sem(b)' = Sem(b)
    BY <1>1, <2>3, <2>4, EntradaCambiada
  <2>6. listos' \subseteq Procesos
    BY <2>1, <2>2 DEF Base, Tipo, TipoOK
  <2>7. Tipo'
    BY <1>4, <2>5, <2>6 DEF Base, Tipo, TipoOK, TipoLista, Entradas
  <2>8. Apertura' /\ Mutex'
    BY <1>4, <1>5, <2>5 DEF Base, Apertura, Mutex
  <2> QED
    BY <1>1, <1>4, <1>5, <1>7, <2>2, <2>5, <2>7, <2>8 DEF Base
<1> QED
  BY <1>6, <1>7

\* The file system's answer to an opening: the file enters the list.
LEMMA EfectoArchivoListo ==
    ASSUME Base, ArchivoListo
    PROVE  /\ Base' /\ UNCHANGED <<programa, pc, caido, listos>>
           /\ EnVuelo(Accesos)' = EnVuelo(Accesos) /\ EnVuelo(Aperturas)' = {}
           /\ \E a \in Nombres, p \in Procesos, m \in DesdeFs :
                /\ EnVuelo(Aperturas) = {m} /\ m.pid = p /\ m.arch = a /\ a \notin EnLista
                /\ cpu = Cpu("espera", p) /\ cpu' = Cpu("ejecuta", p)
                /\ EnLista' = EnLista \cup {a} /\ Cola(a)' = <<>> /\ Sem(a)' = 0
                /\ \A b \in EnLista : Cola(b)' = Cola(b) /\ Sem(b)' = Sem(b)
<1>1. /\ de_fs # <<>> /\ Head(de_fs).op \in {"EXISTE_ARCHIVO", "ARCHIVO_CREADO"}
      /\ de_fs' = Tail(de_fs)
      /\ UNCHANGED <<programa, pc, fcbs, caido, listos, a_fs, mutex_compresion>>
  BY DEF ArchivoListo, Llega
<1>2. /\ Head(de_fs) \in DesdeFs /\ Tail(de_fs) \in Seq(DesdeFs)
      /\ Head(de_fs).pid \in Procesos /\ Head(de_fs).arch \in Nombres
  BY <1>1, RecibeTipo DEF Base
<1>3. PICK m \in DesdeFs, p \in Procesos, a \in Nombres :
          m = Head(de_fs) /\ p = m.pid /\ a = m.arch
  BY <1>2
<1>4. /\ lista' = Append(lista, [dir |-> a, cola |-> <<>>, sem |-> 0])
      /\ Anotar(p, a) /\ cpu' = Cpu("ejecuta", p)
  BY <1>3 DEF ArchivoListo
<1>5. m.op \in Aperturas /\ m.op \notin Accesos
  BY <1>1, <1>3 DEF Aperturas, Accesos, Operaciones
<1>6. Tipo /\ Solo(Aperturas) /\ Solo(Accesos)
  BY DEF Base, Apertura, Mutex
<1>7. Solo(Aperturas)' /\ EnVuelo(Aperturas) = {m} /\ EnVuelo(Aperturas)' = {}
  BY <1>1, <1>3, <1>5, <1>6, LlegaDeFs
<1>8. Solo(Accesos)' /\ EnVuelo(Accesos)' = EnVuelo(Accesos)
  BY <1>1, <1>3, <1>5, <1>6, LlegaDeFs
<1>9. cpu = Cpu("espera", p) /\ a \notin EnLista
  BY <1>3, <1>7 DEF Base, Apertura
<1>10. /\ TipoLista' /\ UnaEntrada' /\ EnLista' = EnLista \cup {a}
       /\ \A b \in EnLista : Cola(b)' = Cola(b) /\ Sem(b)' = Sem(b)
       /\ Cola(a)' = <<>> /\ Sem(a)' = 0
  BY <1>4, <1>9, ListaEntrada, ListaAgregada DEF Base
<1>11. Tipo'
  <2>1. abiertos' \in [Procesos -> Seq(Archivo)]
    BY <1>4, AnotarTipo
  <2>2. cpu' \in UnaCpu
    BY <1>4, CpuTipo
  <2> QED
    BY <1>1, <1>2, <1>10, <2>1, <2>2
       DEF Base, Tipo, TipoOK, UnaCpu, Archivo, TipoLista, Entradas
<1>12. Apertura' /\ Mutex'
  BY <1>1, <1>7, <1>8 DEF Base, Apertura, Mutex
<1> QED
  BY <1>1, <1>3, <1>4, <1>7, <1>8, <1>9, <1>10, <1>11, <1>12 DEF Base

\* DESBLOQUEADO frees the mutex and readies the process.
LEMMA EfectoDesbloqueado ==
    ASSUME Base, Desbloqueado
    PROVE  /\ Base' /\ UNCHANGED <<programa, pc, caido, lista, cpu>>
           /\ EnVuelo(Aperturas)' = EnVuelo(Aperturas) /\ EnVuelo(Accesos)' = {}
           /\ \E p \in Procesos, m \in DesdeFs :
                /\ EnVuelo(Accesos) = {m} /\ m.pid = p /\ listos' = listos \cup {p}
<1>1. /\ de_fs # <<>> /\ Head(de_fs).op \in {"DESBLOQUEADO"}
      /\ de_fs' = Tail(de_fs) /\ mutex_compresion' = mutex_compresion + 1
      /\ UNCHANGED <<programa, pc, fcbs, caido, abiertos, cpu, lista, a_fs>>
  BY DEF Desbloqueado, Llega
<1>2. /\ Head(de_fs) \in DesdeFs /\ Tail(de_fs) \in Seq(DesdeFs) /\ Head(de_fs).pid \in Procesos
  BY <1>1, RecibeTipo DEF Base
<1>3. PICK m \in DesdeFs, p \in Procesos : m = Head(de_fs) /\ p = m.pid
  BY <1>2
<1>4. listos' = listos \cup {p}
  BY <1>3 DEF Desbloqueado
<1>5. m.op \in Accesos /\ m.op \notin Aperturas
  BY <1>1, <1>3 DEF Aperturas, Accesos, Operaciones
<1>6. Tipo /\ Solo(Aperturas) /\ Solo(Accesos)
  BY DEF Base, Apertura, Mutex
<1>7. Solo(Accesos)' /\ EnVuelo(Accesos) = {m} /\ EnVuelo(Accesos)' = {}
  BY <1>1, <1>3, <1>5, <1>6, LlegaDeFs
<1>8. Solo(Aperturas)' /\ EnVuelo(Aperturas)' = EnVuelo(Aperturas)
  BY <1>1, <1>3, <1>5, <1>6, LlegaDeFs
<1>9. mutex_compresion = 0
  BY <1>7 DEF Base, Mutex
<1>10. mutex_compresion' = 1
  BY <1>1, <1>9
<1>11. mutex_compresion' \in 0..1 /\ mutex_compresion' # 0
  BY <1>10
<1>12. Tipo'
  BY <1>1, <1>2, <1>4, <1>11 DEF Base, Tipo, TipoOK
<1>13. UnaEntrada' /\ Apertura' /\ Mutex'
  BY <1>1, <1>7, <1>8, <1>11, ListaQuieta DEF Base, Apertura, Mutex
<1> QED
  BY <1>1, <1>3, <1>4, <1>7, <1>8, <1>12, <1>13 DEF Base

\* The rest of an opening and of an access changes the message, not whose it
\* is nor the file it is about.
LEMMA EfectoReenvio ==
    ASSUME Base, PedirCreacion
    PROVE  /\ Base' /\ UNCHANGED <<programa, pc, caido, lista, listos, cpu>>
           /\ \A C \in {Aperturas, Accesos} : EnVuelo(C)' = EnVuelo(C)
<1>1. /\ de_fs # <<>> /\ Head(de_fs).op \in {"CREAR_ARCHIVO"}
      /\ de_fs' = Tail(de_fs) /\ a_fs' = Append(a_fs, Head(de_fs))
      /\ UNCHANGED <<programa, pc, fcbs, caido, abiertos, listos, cpu, lista, mutex_compresion>>
  BY DEF PedirCreacion, Llega
<1>2. Head(de_fs) \in DesdeFs /\ Tail(de_fs) \in Seq(DesdeFs)
  BY <1>1, RecibeTipo DEF Base
<1>3. Head(de_fs) \in HaciaFs
  BY <1>1, <1>2 DEF DesdeFs, HaciaFs
<1>4. Tipo /\ Solo(Aperturas) /\ Solo(Accesos)
  BY DEF Base, Apertura, Mutex
<1>5. /\ Solo(Aperturas)' /\ EnVuelo(Aperturas)' = EnVuelo(Aperturas)
      /\ Solo(Accesos)' /\ EnVuelo(Accesos)' = EnVuelo(Accesos)
  BY <1>1, <1>3, <1>4, Reenvia
<1>6. a_fs' \in Seq(HaciaFs)
  BY <1>1, <1>3 DEF Base, Tipo
<1>7. Tipo'
  BY <1>1, <1>2, <1>6 DEF Base, Tipo, TipoOK
<1>8. UnaEntrada' /\ Apertura' /\ Mutex'
  BY <1>1, <1>5, ListaQuieta DEF Base, Apertura, Mutex
<1> QED
  BY <1>1, <1>5, <1>7, <1>8 DEF Base

LEMMA EfectoFileSystem ==
    ASSUME Base, FileSystem
    PROVE  /\ Base' /\ UNCHANGED <<programa, pc, caido, lista, listos, cpu>>
           /\ \A C \in {Aperturas, Accesos} :
                \/ EnVuelo(C)' = EnVuelo(C)
                \/ \E m, r : /\ EnVuelo(C) = {m} /\ EnVuelo(C)' = {r}
                             /\ r.pid = m.pid /\ r.arch = m.arch
<1>1. PICK ops, o : Atiende(ops, o) /\ a_fs # <<>> /\ Head(a_fs).op \in ops
                    /\ o \in {"EXISTE_ARCHIVO", "CREAR_ARCHIVO", "ARCHIVO_CREADO", "DESBLOQUEADO"}
                    /\ \A C \in {Aperturas, Accesos} : Head(a_fs).op \in C <=> o \in C
  <2>1. CASE FsAbrir
    <3>1. PICK o \in {"EXISTE_ARCHIVO", "CREAR_ARCHIVO"} : Atiende({"ABRIR_ARCHIVO"}, o)
      BY <2>1 DEF FsAbrir
    <3>2. a_fs # <<>> /\ Head(a_fs).op = "ABRIR_ARCHIVO"
      BY <3>1 DEF Atiende
    <3> QED
      BY <3>1, <3>2 DEF Aperturas, Accesos, Operaciones
  <2>2. CASE FsCrear
    <3>1. Atiende({"CREAR_ARCHIVO"}, "ARCHIVO_CREADO")
      BY <2>2 DEF FsCrear
    <3>2. a_fs # <<>> /\ Head(a_fs).op = "CREAR_ARCHIVO"
      BY <3>1 DEF Atiende
    <3> QED
      BY <3>1, <3>2 DEF Aperturas, Accesos, Operaciones
  <2>3. CASE FsOpera
    <3>1. Atiende(Operaciones, "DESBLOQUEADO")
      BY <2>3 DEF FsOpera
    <3>2. a_fs # <<>> /\ Head(a_fs).op \in Operaciones
      BY <3>1 DEF Atiende
    <3> QED
      BY <3>1, <3>2 DEF Aperturas, Accesos, Operaciones
  <2> QED
    BY <2>1, <2>2, <2>3 DEF FileSystem
<1>2. /\ Head(a_fs) \in HaciaFs /\ Tail(a_fs) \in Seq(HaciaFs)
      /\ Head(a_fs).pid \in Procesos /\ Head(a_fs).arch \in Nombres
  BY <1>1, RecibeTipo DEF Base
<1> DEFINE m == Head(a_fs)
           r == [op |-> o, pid |-> m.pid, arch |-> m.arch]
<1>3. /\ a_fs' = Tail(a_fs) /\ de_fs' = Append(de_fs, r)
      /\ UNCHANGED <<programa, pc, abiertos, listos, cpu, lista, mutex_compresion, caido>>
  BY <1>1 DEF Atiende
<1>4. r \in DesdeFs /\ r.pid = m.pid /\ r.arch = m.arch /\ r.op = o
  BY <1>1, <1>2 DEF DesdeFs
<1>5. fcbs' \subseteq Nombres
  BY <1>2 DEF FileSystem, FsAbrir, FsCrear, FsOpera, CrearArchivoFcb, Base, Tipo, TipoOK
<1> HIDE DEF r
<1>6. ASSUME NEW C \in {Aperturas, Accesos}
      PROVE  /\ Solo(C)'
             /\ \/ EnVuelo(C)' = EnVuelo(C)
                \/ EnVuelo(C) = {m} /\ EnVuelo(C)' = {r}
  <2>1. Tipo /\ Solo(C) /\ (Head(a_fs).op \in C <=> r.op \in C)
    BY <1>1, <1>4 DEF Base, Apertura, Mutex
  <2> QED
    BY <1>1, <1>3, <1>4, <2>1, AtiendeFs
<1>7. Tipo'
  <2>1. de_fs' \in Seq(DesdeFs) /\ a_fs' \in Seq(HaciaFs)
    BY <1>2, <1>3, <1>4 DEF Base, Tipo
  <2> QED
    BY <1>3, <1>5, <2>1 DEF Base, Tipo, TipoOK
<1>8. UnaEntrada' /\ EnLista' = EnLista
  BY <1>3, ListaQuieta DEF Base
<1>9. Apertura'
  <2>1. CASE EnVuelo(Aperturas)' = EnVuelo(Aperturas)
    BY <1>3, <1>6, <1>8, <2>1 DEF Base, Apertura
  <2>2. CASE EnVuelo(Aperturas) = {m} /\ EnVuelo(Aperturas)' = {r}
    BY <1>3, <1>4, <1>6, <1>8, <2>2 DEF Base, Apertura
  <2> QED
    BY <1>6, <2>1, <2>2
<1>10. Mutex'
  <2>1. Solo(Accesos)' /\ (EnVuelo(Accesos)' # {} <=> EnVuelo(Accesos) # {})
    BY <1>6
  <2> QED
    BY <1>3, <2>1 DEF Base, Mutex
<1> QED
  BY <1>3, <1>4, <1>6, <1>7, <1>8, <1>9, <1>10 DEF Base

-----------------------------------------------------------------------------
(* The unconditional invariant. *)

LEMMA BaseInicial == ASSUME Init PROVE Base
<1>1. Tipo
  <2>1. cpu \in UnaCpu
    BY CpuTipo DEF Init
  <2>2. /\ programa \in [Procesos -> Programas] /\ pc \in [Procesos -> Nat]
        /\ abiertos \in [Procesos -> Seq(Archivo)]
    BY DEF Init
  <2>3. ASSUME NEW p \in Procesos PROVE pc[p] <= Len(programa[p])
    <3>1. programa[p] \in Seq(Instruccion) /\ pc[p] = 0
      BY <2>2, SupuestosArchivos DEF Init
    <3>2. Len(programa[p]) \in Nat
      BY <3>1
    <3> QED
      BY <3>1, <3>2
  <2>4. /\ listos \subseteq Procesos /\ fcbs \subseteq Nombres
        /\ lista \in Seq(Entradas) /\ a_fs \in Seq(HaciaFs) /\ de_fs \in Seq(DesdeFs)
    BY DEF Init
  <2>5. mutex_compresion \in 0..1
    BY DEF Init
  <2> QED
    BY <2>1, <2>2, <2>3, <2>4, <2>5 DEF Tipo, TipoOK, UnaCpu, Archivo, Entradas
<1>2. \A C : EnVuelo(C) = {} /\ Solo(C)
  BY DEF Init, EnVuelo, Solo, Clase, Lugares, Unico
<1>3. UnaEntrada
  BY DEF Init, UnaEntrada
<1> QED
  BY <1>1, <1>2, <1>3 DEF Base, Apertura, Mutex, Init

LEMMA BasePaso == ASSUME Base, [Next]_vars PROVE Base'
<1>1. CASE UNCHANGED vars
  <2>1. UNCHANGED <<programa, pc, abiertos, listos, cpu, lista, fcbs, a_fs, de_fs, mutex_compresion>>
    BY <1>1 DEF vars
  <2>2. \A C : EnVuelo(C)' = EnVuelo(C) /\ Solo(C)' = Solo(C)
    BY <2>1, FsQuieto
  <2>3. Tipo'
    BY <2>1 DEF Base, Tipo, TipoOK
  <2>4. UnaEntrada' /\ Apertura' /\ Mutex'
    BY <2>1, <2>2, ListaQuieta DEF Base, Apertura, Mutex
  <2> QED
    BY <2>3, <2>4 DEF Base
<1>2. CASE Next
  <2>1. ASSUME NEW p \in Procesos, Despachar(p) PROVE Base'
    BY <2>1, EfectoDespachar
  <2>2. CASE HiloCpu
    BY <2>2, EfectoAbrirOcupado, EfectoAbrirLibre, EfectoCerrar, EfectoMover, EfectoAcceder,
       EfectoSoltar DEF HiloCpu
  <2>3. CASE HiloFs
    BY <2>3, EfectoArchivoListo, EfectoReenvio, EfectoDesbloqueado DEF HiloFs
  <2>4. CASE FileSystem
    BY <2>4, EfectoFileSystem
  <2>5. ASSUME NEW a \in Nombres, HiloArchivo(a) PROVE Base'
    BY <2>5, EfectoDespertar
  <2> QED
    BY <1>2, <2>1, <2>2, <2>3, <2>4, <2>5 DEF Next
<1> QED
  BY <1>1, <1>2

\* The state has its types.
THEOREM TipoArchivosCorrecto == Spec => []TipoOK
<1>1. Init => Base
  BY BaseInicial
<1>2. Base /\ [Next]_vars => Base'
  BY BasePaso
<1>3. Base => TipoOK
  BY DEF Base, Tipo
<1> QED
  BY <1>1, <1>2, <1>3, PTL DEF Spec

\* No file is twice in lista_archivos_abiertos, whatever the programs do: the
\* CPU waits while the file system opens one, so no other process asks for it
\* between the search in the list and the entry in it. And mutex_compresion is
\* free just when no read, write or truncation is on its way.
THEOREM UnaEntradaCorrecta == Spec => [](UnaEntrada /\ Mutex)
<1>1. Init => Base
  BY BaseInicial
<1>2. Base /\ [Next]_vars => Base'
  BY BasePaso
<1>3. Base => UnaEntrada /\ Mutex
  BY DEF Base
<1> QED
  BY <1>1, <1>2, <1>3, PTL DEF Spec

-----------------------------------------------------------------------------
(* What a process wants: it changes when it executes F_OPEN or F_CLOSE. *)

LEMMA QuiereIgual ==
    ASSUME NEW p, UNCHANGED programa, pc'[p] = pc[p]
    PROVE  \A a : Quiere(p, a)' = Quiere(p, a)
<1> SUFFICES ASSUME NEW a PROVE Quiere(p, a)' = Quiere(p, a)
  OBVIOUS
<1>1. Usos(p, a)' = Usos(p, a)
  BY DEF Usos
<1>2. UltimaApertura(p, a)' = UltimaApertura(p, a)
  BY <1>1, UltimaEs
<1> QED
  BY <1>2 DEF Quiere

LEMMA QuiereAvanza ==
    ASSUME Base, NEW op, Ejecuta(op)
    PROVE  \E p \in Procesos, a \in Nombres :
              /\ p = cpu.pcb /\ a = Actual.arch
              /\ \A q \in Procesos, b \in Nombres :
                    Quiere(q, b)' <=> IF q = p /\ b = a /\ op \in {"F_OPEN", "F_CLOSE"}
                                      THEN op = "F_OPEN" ELSE Quiere(q, b)
<1>1. PICK p \in Procesos, a \in Nombres : p = cpu.pcb /\ a = Actual.arch
  BY EjecutaDe
<1>2. /\ pc' = [pc EXCEPT ![p] = @ + 1] /\ programa' = programa
      /\ pc \in [Procesos -> Nat] /\ pc[p] \in Nat
  BY <1>1 DEF Ejecuta, Base, Tipo, TipoOK
<1> DEFINE n == pc[p] + 1
<1>3. /\ n \in Nat /\ pc'[p] = n /\ \A q \in Procesos : q # p => pc'[q] = pc[q]
      /\ n \in 1..n /\ \A i \in 1..n : i <= n
      /\ \A i : i \in 1..n <=> i \in 1..pc[p] \/ i = n
      /\ n \notin 1..pc[p]
  BY <1>2
<1>4. programa[p][n].op = op /\ programa[p][n].arch = a
  BY <1>1, EjecutaDe DEF Actual
<1> HIDE DEF n
<1>5. ASSUME NEW q \in Procesos, q # p PROVE \A b \in Nombres : Quiere(q, b)' <=> Quiere(q, b)
  BY <1>2, <1>3, <1>5, QuiereIgual
<1>6. ASSUME NEW b \in Nombres, b # a \/ op \notin {"F_OPEN", "F_CLOSE"}
      PROVE  Quiere(p, b)' <=> Quiere(p, b)
  <2>1. ~DeArchivo(programa[p][n], b)
    BY <1>4, <1>6 DEF DeArchivo
  <2>2. Usos(p, b)' = Usos(p, b)
    BY <1>2, <1>3, <2>1 DEF Usos
  <2>3. UltimaApertura(p, b)' = UltimaApertura(p, b)
    BY <2>2, UltimaEs
  <2> QED
    BY <1>2, <2>3 DEF Quiere
<1>7. ASSUME op \in {"F_OPEN", "F_CLOSE"} PROVE Quiere(p, a)' <=> op = "F_OPEN"
  <2>1. DeArchivo(programa[p][n], a)
    BY <1>4, <1>7 DEF DeArchivo
  <2> DEFINE U == {i \in 1..n : DeArchivo(programa[p][i], a)}
  <2>2. U = Usos(p, a)'
    BY <1>2, <1>3 DEF Usos
  <2>3. n \in U /\ U \in SUBSET Int /\ \A y \in U : n >= y
    BY <1>3, <2>1
  <2> HIDE DEF U
  <2>4. Max(U) = n
    BY <2>3, MayorEs
  <2>5. UltimaApertura(p, a)' = n
    BY <2>2, <2>3, <2>4, UltimaEs
  <2>6. n # 0
    BY <1>2 DEF n
  <2> QED
    BY <1>2, <1>4, <2>5, <2>6 DEF Quiere
<1>8. ASSUME NEW q \in Procesos, NEW b \in Nombres
      PROVE  Quiere(q, b)' <=> IF q = p /\ b = a /\ op \in {"F_OPEN", "F_CLOSE"}
                               THEN op = "F_OPEN" ELSE Quiere(q, b)
  <2>1. CASE q # p
    BY <1>5, <2>1
  <2>2. CASE q = p
    BY <1>6, <1>7, <2>2
  <2> QED
    BY <2>1, <2>2
<1> QED
  BY <1>1, <1>8

\* A program closes what it has open.
LEMMA CierraPropio ==
    ASSUME Base, CierraLoSuyo, Ejecuta("F_CLOSE")
    PROVE  Quiere(cpu.pcb, Actual.arch)
<1>1. PICK p \in Procesos, a \in Nombres : p = cpu.pcb /\ a = Actual.arch
  BY EjecutaDe
<1>2. /\ programa[p] \in Programas /\ programa[p] \in Seq(Instruccion) /\ pc[p] \in Nat
      /\ pc[p] < Len(programa[p])
  BY <1>1, ActualDe DEF Ejecuta, Base
<1> DEFINE n == pc[p] + 1
<1>3. /\ n \in DOMAIN programa[p] /\ n - 1 = pc[p]
      /\ programa[p][n].op = "F_CLOSE" /\ programa[p][n].arch = a
  BY <1>1, <1>2, EjecutaDe DEF Actual
<1> HIDE DEF n
<1>4. PICK j \in 1..pc[p] : /\ programa[p][j].op = "F_OPEN" /\ programa[p][j].arch = a
                            /\ \A k \in (j + 1)..pc[p] : ~DeArchivo(programa[p][k], a)
  BY <1>2, <1>3 DEF CierraLoSuyo
<1>5. j \in Usos(p, a)
  BY <1>4 DEF Usos, DeArchivo
<1>6. Usos(p, a) \in SUBSET Int /\ \A y \in Usos(p, a) : j >= y
  <2> SUFFICES ASSUME NEW y \in Usos(p, a) PROVE j >= y
    BY DEF Usos
  <2>1. y \in 1..pc[p] /\ DeArchivo(programa[p][y], a)
    BY DEF Usos
  <2>2. y \notin (j + 1)..pc[p]
    BY <1>4, <2>1
  <2> QED
    BY <1>2, <2>1, <2>2
<1>7. UltimaApertura(p, a) = j
  BY <1>5, <1>6, MayorEs, UltimaEs
<1>8. j # 0
  BY <1>2
<1> QED
  BY <1>1, <1>4, <1>7, <1>8 DEF Quiere

\* A program that opens has nothing open.
LEMMA AbreLimpio ==
    ASSUME Base, AbreDeAUno, Ejecuta("F_OPEN"), NEW a \in Nombres
    PROVE  ~Quiere(cpu.pcb, a)
<1>1. PICK p \in Procesos : p = cpu.pcb
  BY EjecutaDe
<1>2. /\ programa[p] \in Programas /\ programa[p] \in Seq(Instruccion) /\ pc[p] \in Nat
      /\ pc[p] < Len(programa[p])
  BY <1>1, ActualDe DEF Ejecuta, Base
<1> DEFINE n == pc[p] + 1
<1>3. /\ n \in DOMAIN programa[p] /\ n - 1 = pc[p] /\ programa[p][n].op = "F_OPEN"
  BY <1>1, <1>2, EjecutaDe DEF Actual
<1> HIDE DEF n
<1> SUFFICES ASSUME Quiere(p, a) PROVE FALSE
  BY <1>1
<1> DEFINE u == UltimaApertura(p, a)
<1>4. u # 0 /\ programa[p][u].op = "F_OPEN" /\ Usos(p, a) # {} /\ u = Max(Usos(p, a))
  BY UltimaEs DEF Quiere
<1>5. u \in Usos(p, a) /\ \A y \in Usos(p, a) : u >= y
  <2>1. Usos(p, a) \in SUBSET (0..pc[p])
    BY DEF Usos
  <2> QED
    BY <1>2, <1>4, <2>1, MayorExiste
<1> HIDE DEF u
<1>6. u \in 1..pc[p] /\ programa[p][u].arch = a
  BY <1>5 DEF Usos, DeArchivo
<1>7. PICK k \in (u + 1)..pc[p] : programa[p][k].op = "F_CLOSE" /\ programa[p][k].arch = a
  BY <1>2, <1>3, <1>4, <1>6 DEF AbreDeAUno
<1>8. k \in Usos(p, a) /\ k > u
  BY <1>2, <1>6, <1>7 DEF Usos, DeArchivo
<1>9. u \in Int /\ k \in Int /\ u >= k
  BY <1>5, <1>6, <1>7, <1>8
<1> QED
  BY <1>8, <1>9

-----------------------------------------------------------------------------
(* The lock. *)

BaseLeida == Base => TipoLista /\ ListaLeida
LEMMA Leida == BaseLeida /\ BaseLeida'
<1>1. BaseLeida
  BY ListaEntrada DEF BaseLeida
<1> QED
  BY <1>1, PTL

LEMMA EsperanIgual ==
    ASSUME Base, Base', EnLista' = EnLista, NEW a \in Nombres,
           a \in EnLista => Cola(a)' = Cola(a)
    PROVE  Esperan(a)' = Esperan(a)
  BY Leida DEF BaseLeida, ListaLeida

\* Who is on the CPU.
LEMMA CpuDe ==
    ASSUME NEW e, NEW p \in Procesos
    PROVE  (cpu = Cpu(e, p) => EnCpu = {p}) /\ (cpu' = Cpu(e, p) => EnCpu' = {p})
  BY DEF EnCpu, Cpu

LEMMA CpuVacia == (cpu = Libre => EnCpu = {}) /\ (cpu' = Libre => EnCpu' = {})
  BY SupuestosArchivos DEF EnCpu, Cpu, Libre

LEMMA EnFsDe ==
    ASSUME NEW m
    PROVE  /\ EnVuelo(Accesos) = {m} => EnFs = {m.pid}
           /\ EnVuelo(Accesos)' = {m} => EnFs' = {m.pid}
  BY DEF EnFs

LEMMA EnFsVacio ==
    /\ EnVuelo(Accesos) = {} => EnFs = {}
    /\ EnVuelo(Accesos)' = {} => EnFs' = {}
    /\ EnVuelo(Accesos)' = EnVuelo(Accesos) => EnFs' = EnFs
  BY DEF EnFs

LEMMA PlazaQuieta ==
    ASSUME Plaza, UNCHANGED lista,
           listos' \cup EnCpu' \cup EnFs' \subseteq listos \cup EnCpu \cup EnFs,
           listos' \cap EnCpu' = {}, listos' \cap EnFs' = {}, EnCpu' \cap EnFs' = {}
    PROVE  Plaza'
<1>1. /\ EnLista' = EnLista /\ \A a : Cola(a)' = Cola(a)
      /\ \A a : Esperan(a)' = Esperan(a)
  BY ListaQuieta DEF Esperan
<1>2. \A a \in EnLista : (listos' \cup EnCpu' \cup EnFs') \cap Esperan(a) = {}
  BY DEF Plaza
<1> QED
  BY <1>1, <1>2 DEF Plaza

LEMMA TurnoQuieto ==
    ASSUME \A a \in Nombres : Turno(a), UNCHANGED lista,
           \A p \in Procesos, a \in Nombres : Posee(p, a)' => Posee(p, a)
    PROVE  \A a \in Nombres : Turno(a)'
  BY ListaQuieta DEF Turno

\* Nobody gets a file by a step that changes neither the list nor who wants
\* what, and by which no opening ends.
LEMMA BloqueoQuieto ==
    ASSUME Bloqueo, Base', UNCHANGED <<lista, caido>>,
           \A p \in Procesos, a \in Nombres : Quiere(p, a)' => Quiere(p, a),
           \A p \in Procesos, a \in Nombres : Pide(p, a) => Pide(p, a)',
           listos' \cup EnCpu' \cup EnFs' \subseteq listos \cup EnCpu \cup EnFs,
           listos' \cap EnCpu' = {}, listos' \cap EnFs' = {}, EnCpu' \cap EnFs' = {}
    PROVE  Bloqueo'
<1>1. \A p \in Procesos, a \in Nombres : Posee(p, a)' => Posee(p, a)
  BY ListaQuieta DEF Posee
<1>2. Plaza' /\ \A a \in Nombres : Turno(a)'
  BY <1>1, PlazaQuieta, TurnoQuieto DEF Bloqueo
<1> QED
  BY <1>2 DEF Bloqueo

LEMMA PideIgual ==
    ASSUME EnVuelo(Aperturas)' = EnVuelo(Aperturas)
    PROVE  \A p, a : Pide(p, a)' <=> Pide(p, a)
  BY DEF Pide

LEMMA BloqueoCpu ==
    ASSUME Bloqueo, Mover \/ Operar \/ Truncar \/ Desalojar \/ Terminar
    PROVE  Bloqueo'
<1>1. PICK op : Ejecuta(op) /\ op \notin {"F_OPEN", "F_CLOSE"}
  BY DEF Mover, Operar, Truncar, Desalojar, Terminar
<1>2. Base
  BY DEF Bloqueo
<1>3. PICK p \in Procesos : p = cpu.pcb /\ cpu = Cpu("ejecuta", p)
  BY <1>1, <1>2, EjecutaDe
<1>4. EnCpu = {p} /\ EnVuelo(Aperturas) = {} /\ caido' = caido
  BY <1>1, <1>2, <1>3, CpuDe, EjecutaDe
<1>5. \A q \in Procesos, a \in Nombres : Quiere(q, a)' => Quiere(q, a)
  BY <1>1, <1>2, QuiereAvanza
<1>6. /\ listos \cap EnCpu = {} /\ listos \cap EnFs = {} /\ EnCpu \cap EnFs = {}
  BY DEF Bloqueo, Plaza
<1>7. \A q \in Procesos, a \in Nombres : Pide(q, a) => Pide(q, a)'
  BY <1>4 DEF Pide
<1>8. CASE Mover
  <2>1. Base' /\ UNCHANGED <<lista, listos, cpu>> /\ \A C : EnVuelo(C)' = EnVuelo(C)
    BY <1>2, <1>8, EfectoMover
  <2>2. EnCpu' = EnCpu /\ EnFs' = EnFs
    BY <2>1, EnFsVacio DEF EnCpu
  <2> QED
    BY <1>4, <1>5, <1>6, <1>7, <2>1, <2>2, BloqueoQuieto
<1>9. CASE Operar \/ Truncar
  <2>1. /\ Base' /\ UNCHANGED <<lista, listos>> /\ cpu' = Libre
        /\ EnVuelo(Accesos) = {}
        /\ \E m \in HaciaFs : EnVuelo(Accesos)' = {m} /\ m.pid = p
    BY <1>2, <1>3, <1>9, EfectoAcceder
  <2>2. EnCpu' = {} /\ EnFs = {} /\ EnFs' = {p}
    BY <2>1, CpuVacia, EnFsDe, EnFsVacio
  <2> QED
    BY <1>4, <1>5, <1>6, <1>7, <2>1, <2>2, BloqueoQuieto
<1>10. CASE Desalojar \/ Terminar
  <2>1. /\ Base' /\ UNCHANGED lista /\ \A C : EnVuelo(C)' = EnVuelo(C)
        /\ cpu' = Libre /\ listos' \subseteq listos \cup {p}
    BY <1>2, <1>3, <1>10, EfectoSoltar
  <2>2. EnCpu' = {} /\ EnFs' = EnFs
    BY <2>1, CpuVacia, EnFsVacio
  <2> QED
    BY <1>4, <1>5, <1>6, <1>7, <2>1, <2>2, BloqueoQuieto
<1> QED
  BY <1>8, <1>9, <1>10

LEMMA BloqueoMensajes ==
    ASSUME Bloqueo, \/ \E p \in Procesos : Despachar(p)
                    \/ PedirCreacion \/ Desbloqueado \/ FileSystem
    PROVE  Bloqueo'
<1>1. Base
  BY DEF Bloqueo
<1>2. UNCHANGED <<programa, pc, caido, lista>> /\ Base'
  BY <1>1, EfectoDespachar, EfectoReenvio, EfectoDesbloqueado, EfectoFileSystem
<1>3. \A q \in Procesos, a \in Nombres : Quiere(q, a)' => Quiere(q, a)
  BY <1>2, QuiereIgual
<1>4. /\ listos \cap EnCpu = {} /\ listos \cap EnFs = {} /\ EnCpu \cap EnFs = {}
  BY DEF Bloqueo, Plaza
<1>5. ASSUME NEW p \in Procesos, Despachar(p) PROVE Bloqueo'
  <2>1. /\ \A C : EnVuelo(C)' = EnVuelo(C)
        /\ p \in listos /\ listos' = listos \ {p} /\ cpu' = Cpu("ejecuta", p)
    BY <1>1, <1>5, EfectoDespachar
  <2>2. EnCpu' = {p} /\ EnFs' = EnFs
    BY <2>1, CpuDe, EnFsVacio
  <2>3. \A q \in Procesos, a \in Nombres : Pide(q, a) => Pide(q, a)'
    BY <2>1, PideIgual
  <2> QED
    BY <1>2, <1>3, <1>4, <2>1, <2>2, <2>3, BloqueoQuieto
<1>6. CASE PedirCreacion
  <2>1. /\ UNCHANGED <<listos, cpu>>
        /\ EnVuelo(Aperturas)' = EnVuelo(Aperturas) /\ EnVuelo(Accesos)' = EnVuelo(Accesos)
    BY <1>1, <1>6, EfectoReenvio
  <2>2. EnCpu' = EnCpu /\ EnFs' = EnFs
    BY <2>1, EnFsVacio DEF EnCpu
  <2>3. \A q \in Procesos, a \in Nombres : Pide(q, a) => Pide(q, a)'
    BY <2>1, PideIgual
  <2> QED
    BY <1>2, <1>3, <1>4, <2>1, <2>2, <2>3, BloqueoQuieto
<1>7. CASE Desbloqueado
  <2>1. /\ cpu' = cpu
        /\ EnVuelo(Aperturas)' = EnVuelo(Aperturas) /\ EnVuelo(Accesos)' = {}
    BY <1>1, <1>7, EfectoDesbloqueado
  <2>2. PICK p \in Procesos, m \in DesdeFs :
            EnVuelo(Accesos) = {m} /\ m.pid = p /\ listos' = listos \cup {p}
    BY <1>1, <1>7, EfectoDesbloqueado
  <2>3. EnCpu' = EnCpu /\ EnFs = {p} /\ EnFs' = {}
    BY <2>1, <2>2, EnFsDe, EnFsVacio DEF EnCpu
  <2>4. \A q \in Procesos, a \in Nombres : Pide(q, a) => Pide(q, a)'
    BY <2>1, PideIgual
  <2> QED
    BY <1>2, <1>3, <1>4, <2>2, <2>3, <2>4, BloqueoQuieto
<1>8. CASE FileSystem
  <2>1. /\ UNCHANGED <<listos, cpu>>
        /\ \A C \in {Aperturas, Accesos} :
             \/ EnVuelo(C)' = EnVuelo(C)
             \/ \E m, r : /\ EnVuelo(C) = {m} /\ EnVuelo(C)' = {r}
                          /\ r.pid = m.pid /\ r.arch = m.arch
    BY <1>1, <1>8, EfectoFileSystem
  <2>2. EnCpu' = EnCpu
    BY <2>1 DEF EnCpu
  <2>3. EnFs' = EnFs
    BY <2>1 DEF EnFs
  <2>4. \A q \in Procesos, a \in Nombres : Pide(q, a) => Pide(q, a)'
    BY <2>1 DEF Pide
  <2> QED
    BY <1>2, <1>3, <1>4, <2>1, <2>2, <2>3, <2>4, BloqueoQuieto
<1> QED
  BY <1>5, <1>6, <1>7, <1>8

LEMMA BloqueoEncola ==
    ASSUME Bloqueo, AbrirOcupado
    PROVE  /\ Bloqueo'
           /\ \A b \in Nombres : Esperan(b)' =
                IF b = Actual.arch THEN Esperan(b) \cup {cpu.pcb} ELSE Esperan(b)
<1>1. Base /\ Ejecuta("F_OPEN")
  BY DEF Bloqueo, AbrirOcupado
<1>2. /\ Base' /\ EnLista' = EnLista /\ \A C : EnVuelo(C)' = EnVuelo(C)
      /\ UNCHANGED <<listos, caido>> /\ cpu' = Libre /\ EnVuelo(Aperturas) = {}
  BY <1>1, EfectoAbrirOcupado, EjecutaDe DEF AbrirOcupado
<1>3. PICK a \in EnLista, p \in Procesos :
        /\ a = Actual.arch /\ p = cpu.pcb
        /\ Cola(a)' = Append(Cola(a), p) /\ Sem(a)' = Sem(a)
        /\ \A b \in EnLista : b # a => Cola(b)' = Cola(b) /\ Sem(b)' = Sem(b)
  BY <1>1, EfectoAbrirOcupado
<1>4. /\ a \in Nombres /\ Cola(a) \in Seq(Procesos) /\ Sem(a) \in Nat
      /\ \A b \in EnLista : Esperan(b) = ToSet(Cola(b)) /\ Esperan(b)' = ToSet(Cola(b)')
  BY <1>1, <1>2, Leida DEF BaseLeida, ListaLeida
<1>5. EnCpu = {p} /\ EnCpu' = {} /\ EnFs' = EnFs
  BY <1>1, <1>2, <1>3, EjecutaDe, CpuDe, CpuVacia, EnFsVacio
<1>6. p \notin listos /\ p \notin EnFs /\ \A b \in EnLista : p \notin Esperan(b)
  BY <1>5 DEF Bloqueo, Plaza
<1>7. /\ Esperan(a)' = Esperan(a) \cup {p} /\ IsInjective(Cola(a))'
      /\ \A b \in EnLista : b # a => Esperan(b)' = Esperan(b) /\ IsInjective(Cola(b))'
  <2>1. IsInjective(Cola(a)) /\ p \notin ToSet(Cola(a))
    BY <1>4, <1>6 DEF Bloqueo, Plaza
  <2>2. ToSet(Append(Cola(a), p)) = ToSet(Cola(a)) \cup {p} /\ IsInjective(Append(Cola(a), p))
    BY <1>4, <2>1, Anexar
  <2>3. \A b \in EnLista : IsInjective(Cola(b))
    BY DEF Bloqueo, Plaza
  <2>4. Cola(a)' = Append(Cola(a), p) /\ \A b \in EnLista : b # a => Cola(b)' = Cola(b)
    BY <1>3
  <2>5. Esperan(a)' = Esperan(a) \cup {p} /\ \A b \in EnLista : b # a => Esperan(b)' = Esperan(b)
    BY <1>4, <2>2, <2>4
  <2>6. IsInjective(Cola(a)')
    BY <2>2, <2>4
  <2>7. \A b \in EnLista : b # a => IsInjective(Cola(b)')
    BY <2>3, <2>4
  <2> QED
    BY <2>5, <2>6, <2>7
<1>8. Plaza'
  <2>1. /\ listos' \cap EnCpu' = {} /\ listos' \cap EnFs' = {} /\ EnCpu' \cap EnFs' = {}
    BY <1>2, <1>5 DEF Bloqueo, Plaza
  <2>2. ASSUME NEW b \in EnLista
        PROVE  /\ IsInjective(Cola(b))'
               /\ listos' \cap Esperan(b)' = {} /\ EnFs' \cap Esperan(b)' = {}
    BY <1>2, <1>5, <1>6, <1>7 DEF Bloqueo, Plaza
  <2>3. ASSUME NEW b \in EnLista, NEW c \in EnLista, b # c
        PROVE  Esperan(b)' \cap Esperan(c)' = {}
    <3>1. Esperan(b) \cap Esperan(c) = {} /\ p \notin Esperan(b) /\ p \notin Esperan(c)
      BY <1>6, <2>3 DEF Bloqueo, Plaza
    <3> QED
      BY <1>7, <2>3, <3>1
  <2> QED
    BY <1>2, <1>5, <2>1, <2>2, <2>3 DEF Plaza
<1>9. ASSUME NEW q \in Procesos, NEW b \in Nombres, Posee(q, b)' PROVE Posee(q, b)
  <2>1. Esperan(b) \subseteq Esperan(b)' /\ (b = a => p \in Esperan(b)')
    <3>1. CASE b \in EnLista
      BY <1>7, <3>1
    <3>2. CASE b \notin EnLista
      BY <1>1, <1>3, <3>2, Leida DEF BaseLeida, ListaLeida
    <3> QED
      BY <3>1, <3>2
  <2>2. Quiere(q, b)' /\ q \notin Esperan(b)'
    BY <1>9 DEF Posee, Esperan
  <2>3. ~(q = p /\ b = a)
    BY <2>1, <2>2
  <2>4. Quiere(q, b)
    BY <1>1, <1>3, <2>2, <2>3, QuiereAvanza
  <2> QED
    BY <1>2, <2>1, <2>2, <2>4 DEF Posee, Esperan, Pide
<1>10. ASSUME NEW b \in Nombres PROVE Turno(b)'
  <2>1. b \in EnLista => Sem(b)' = Sem(b) /\ (Cola(b) # <<>> => Cola(b)' # <<>>)
    <3>1. Append(Cola(a), p) # <<>>
      BY <1>4
    <3> QED
      BY <1>3, <3>1
  <2> QED
    BY <1>2, <1>9, <2>1 DEF Bloqueo, Turno
<1>11. \A b \in Nombres : Esperan(b)' = IF b = a THEN Esperan(b) \cup {p} ELSE Esperan(b)
  <2>1. \A b \in Nombres : b \notin EnLista => Esperan(b)' = {} /\ Esperan(b) = {}
    BY <1>1, <1>2, Leida DEF BaseLeida, ListaLeida
  <2> QED
    BY <1>7, <2>1
<1> QED
  BY <1>2, <1>3, <1>8, <1>10, <1>11 DEF Bloqueo

LEMMA BloqueoPide ==
    ASSUME Bloqueo, AbrirLibre
    PROVE  Bloqueo'
<1>1. Base /\ Ejecuta("F_OPEN")
  BY DEF Bloqueo, AbrirLibre
<1>2. /\ Base' /\ UNCHANGED <<lista, listos, caido>>
      /\ EnVuelo(Aperturas) = {} /\ EnVuelo(Accesos)' = EnVuelo(Accesos)
  BY <1>1, EfectoAbrirLibre, EjecutaDe DEF AbrirLibre
<1>3. PICK a \in Nombres, p \in Procesos, m \in HaciaFs :
        /\ a = Actual.arch /\ p = cpu.pcb /\ a \notin EnLista
        /\ cpu' = Cpu("espera", p)
        /\ EnVuelo(Aperturas)' = {m} /\ m.pid = p /\ m.arch = a
  BY <1>1, EfectoAbrirLibre
<1>4. EnCpu = {p} /\ EnCpu' = {p} /\ EnFs' = EnFs
  BY <1>1, <1>2, <1>3, EjecutaDe, CpuDe, EnFsVacio
<1>5. Plaza'
  BY <1>2, <1>4, PlazaQuieta DEF Bloqueo, Plaza
<1>6. ASSUME NEW q \in Procesos, NEW b \in Nombres, Posee(q, b)' PROVE Posee(q, b)
  <2>1. Quiere(q, b)' /\ ~EnCola(q, b)' /\ ~Pide(q, b)'
    BY <1>6 DEF Posee
  <2>2. ~(q = p /\ b = a)
    BY <1>3, <2>1 DEF Pide
  <2>3. Quiere(q, b)
    BY <1>1, <1>3, <2>1, <2>2, QuiereAvanza
  <2>4. ~EnCola(q, b) /\ ~Pide(q, b)
    BY <1>2, <2>1, ListaQuieta DEF Pide
  <2> QED
    BY <2>3, <2>4 DEF Posee
<1> QED
  BY <1>2, <1>5, <1>6, TurnoQuieto DEF Bloqueo

LEMMA BloqueoCierra ==
    ASSUME Bloqueo, CierraLoSuyo, Cerrar
    PROVE  Bloqueo' /\ \A b \in Nombres : Esperan(b)' = Esperan(b)
<1>1. Base /\ Ejecuta("F_CLOSE")
  BY DEF Bloqueo, Cerrar
<1>2. /\ Base' /\ UNCHANGED <<listos, cpu, caido>> /\ \A C : EnVuelo(C)' = EnVuelo(C)
      /\ EnVuelo(Aperturas) = {}
  BY <1>1, EfectoCerrar, EjecutaDe
<1>3. PICK a \in Nombres, p \in Procesos :
        /\ a = Actual.arch /\ p = cpu.pcb
        /\ \/ a \notin EnLista /\ UNCHANGED lista
           \/ /\ a \in EnLista /\ Cola(a) = <<>> /\ EnLista' = EnLista \ {a}
              /\ \A b \in EnLista : b # a => Cola(b)' = Cola(b) /\ Sem(b)' = Sem(b)
           \/ /\ a \in EnLista /\ Cola(a) # <<>> /\ EnLista' = EnLista
              /\ Cola(a)' = Cola(a) /\ Sem(a)' = Sem(a) + 1
              /\ \A b \in EnLista : b # a => Cola(b)' = Cola(b) /\ Sem(b)' = Sem(b)
  BY <1>1, EfectoCerrar
<1>4. EnCpu = {p} /\ EnCpu' = EnCpu /\ EnFs' = EnFs
  BY <1>1, <1>2, <1>3, EjecutaDe, CpuDe, EnFsVacio DEF EnCpu
<1>5. Posee(p, a)
  <2>1. Quiere(p, a)
    BY <1>1, <1>3, CierraPropio
  <2>2. ~EnCola(p, a)
    <3>1. a \in EnLista => p \notin Esperan(a)
      BY <1>4 DEF Bloqueo, Plaza
    <3>2. p \notin Esperan(a)
      BY <1>1, <3>1, Leida DEF BaseLeida, ListaLeida
    <3> QED
      BY <3>2 DEF Esperan
  <2> QED
    BY <1>2, <2>1, <2>2 DEF Posee, Pide
<1>6. a \in EnLista /\ Sem(a) = 0 /\ \A q \in Procesos : Posee(q, a) => q = p
  BY <1>5 DEF Bloqueo, Turno
<1>7. ~Quiere(p, a)' /\ \A q \in Procesos, b \in Nombres : Quiere(q, b)' => Quiere(q, b)
  BY <1>1, <1>3, QuiereAvanza
<1>8. /\ EnLista' \subseteq EnLista /\ \A b \in EnLista' : Cola(b)' = Cola(b)
      /\ \A b \in EnLista : b \notin EnLista' => Cola(b) = <<>>
      /\ \A b \in Nombres : b # a => (b \in EnLista' <=> b \in EnLista)
  BY <1>3, <1>6
<1>9. \A b \in Nombres : Esperan(b)' = Esperan(b)
  <2> SUFFICES ASSUME NEW b \in Nombres PROVE Esperan(b)' = Esperan(b)
    OBVIOUS
  <2>1. /\ b \in EnLista => Esperan(b) = ToSet(Cola(b))
        /\ b \in EnLista' => Esperan(b)' = ToSet(Cola(b)')
        /\ b \notin EnLista => Esperan(b) = {}
        /\ b \notin EnLista' => Esperan(b)' = {}
    BY <1>1, <1>2, Leida DEF BaseLeida, ListaLeida
  <2>2. ToSet(<<>>) = {}
    BY DEF ToSet
  <2> QED
    BY <1>8, <2>1, <2>2
<1>10. Plaza'
  <2>1. \A b \in EnLista' : IsInjective(Cola(b)') /\ b \in Nombres /\ b \in EnLista
    <3>1. \A b \in EnLista : IsInjective(Cola(b)) /\ b \in Nombres
      BY <1>1, Leida DEF BaseLeida, ListaLeida, Bloqueo, Plaza
    <3> QED
      BY <1>8, <3>1
  <2>2. \A b \in EnLista' : Esperan(b)' = Esperan(b)
    BY <1>9, <2>1
  <2> QED
    BY <1>2, <1>4, <2>1, <2>2 DEF Bloqueo, Plaza
<1>11. ASSUME NEW q \in Procesos, NEW b \in Nombres, Posee(q, b)' PROVE Posee(q, b) /\ b # a
  <2>1. Quiere(q, b)' /\ q \notin Esperan(b)' /\ ~Pide(q, b)'
    BY <1>11 DEF Posee, Esperan
  <2>2. Posee(q, b)
    BY <1>2, <1>7, <1>9, <2>1 DEF Posee, Esperan, Pide
  <2>3. ~(q = p /\ b = a)
    BY <1>7, <2>1
  <2> QED
    BY <1>6, <2>2, <2>3
<1>12. ASSUME NEW b \in Nombres PROVE Turno(b)'
  <2>1. CASE b # a
    <3>1. b \in EnLista => Cola(b)' = Cola(b) /\ Sem(b)' = Sem(b)
      BY <1>3, <1>6, <2>1
    <3> QED
      BY <1>8, <1>11, <2>1, <3>1 DEF Bloqueo, Turno
  <2>2. CASE b = a
    <3>1. \A q \in Procesos : ~Posee(q, a)'
      BY <1>11
    <3>2. a \in EnLista' => Sem(a)' = 1 /\ Cola(a)' # <<>>
      BY <1>3, <1>6
    <3> QED
      BY <2>2, <3>1, <3>2 DEF Turno
  <2> QED
    BY <2>1, <2>2
<1> QED
  BY <1>2, <1>9, <1>10, <1>12 DEF Bloqueo

LEMMA BloqueoDespierta ==
    ASSUME Bloqueo, NEW a \in Nombres, HiloArchivo(a)
    PROVE  /\ Bloqueo'
           /\ \E p \in Esperan(a) :
                \A b \in Nombres : Esperan(b)' = IF b = a THEN Esperan(b) \ {p} ELSE Esperan(b)
<1>1. Base
  BY DEF Bloqueo
<1>2. /\ Base' /\ \A C : EnVuelo(C)' = EnVuelo(C)
      /\ a \in EnLista /\ Sem(a) > 0 /\ UNCHANGED <<programa, pc, cpu>>
  BY <1>1, EfectoDespertar
<1>3. Sem(a) \in 0..1 /\ Sem(a) = 1
  BY <1>2 DEF Bloqueo, Turno
<1>4. Cola(a) # <<>> /\ \A q \in Procesos : ~Posee(q, a)
  BY <1>2, <1>3 DEF Bloqueo, Turno
<1>5. PICK p : p = Head(Cola(a))
  OBVIOUS
<1>6. /\ listos' = listos \cup {p} /\ EnLista' = EnLista
      /\ Cola(a)' = Tail(Cola(a)) /\ Sem(a)' = 0 /\ caido' = caido
      /\ \A b \in EnLista : b # a => Cola(b)' = Cola(b) /\ Sem(b)' = Sem(b)
  BY <1>1, <1>3, <1>4, <1>5, EfectoDespertar
<1>7. /\ Cola(a) \in Seq(Procesos)
      /\ \A b \in EnLista : Esperan(b) = ToSet(Cola(b)) /\ Esperan(b)' = ToSet(Cola(b)')
      /\ \A b \in EnLista : b \in Nombres
      /\ \A b \in Nombres : b \notin EnLista => Esperan(b) = {} /\ Esperan(b)' = {}
  BY <1>1, <1>2, <1>6, Leida DEF BaseLeida, ListaLeida
<1>8. EnCpu' = EnCpu /\ EnFs' = EnFs
  BY <1>2, EnFsVacio DEF EnCpu
<1>9. \A b \in EnLista : IsInjective(Cola(b))
  BY DEF Bloqueo, Plaza
<1>10. /\ p \in Esperan(a) /\ p \in Procesos
       /\ Esperan(a)' = Esperan(a) \ {p} /\ IsInjective(Cola(a)')
  <2>1. /\ p \in ToSet(Cola(a)) /\ p \in Procesos
        /\ ToSet(Tail(Cola(a))) = ToSet(Cola(a)) \ {p} /\ IsInjective(Tail(Cola(a)))
    BY <1>2, <1>4, <1>5, <1>7, <1>9, SacarPrimero
  <2> QED
    BY <1>2, <1>6, <1>7, <2>1
<1>11. \A b \in EnLista : b # a => Esperan(b)' = Esperan(b) /\ p \notin Esperan(b)
  BY <1>2, <1>6, <1>7, <1>10 DEF Bloqueo, Plaza
<1>12. p \notin listos /\ p \notin EnCpu /\ p \notin EnFs
  BY <1>2, <1>10 DEF Bloqueo, Plaza
<1>13. Plaza'
  <2>1. \A b \in EnLista : IsInjective(Cola(b)')
    BY <1>6, <1>9, <1>10
  <2>2. \A b \in EnLista : p \notin Esperan(b)' /\ Esperan(b)' \subseteq Esperan(b)
    BY <1>10, <1>11
  <2>3. \A b \in EnLista : listos' \cap Esperan(b)' = {}
    BY <1>6, <2>2 DEF Bloqueo, Plaza
  <2> QED
    BY <1>6, <1>8, <1>12, <2>1, <2>2, <2>3 DEF Bloqueo, Plaza
<1>14. \A q \in Procesos, b \in Nombres : Quiere(q, b)' = Quiere(q, b) /\ Pide(q, b)' = Pide(q, b)
  BY <1>2, QuiereIgual DEF Pide
<1>15. ASSUME NEW q \in Procesos, NEW b \in Nombres, ~(q = p /\ b = a)
       PROVE  Posee(q, b)' <=> Posee(q, b)
  <2>1. q \in Esperan(b)' <=> q \in Esperan(b)
    BY <1>7, <1>10, <1>11, <1>15
  <2>2. EnCola(q, b)' <=> EnCola(q, b)
    BY <2>1 DEF Esperan
  <2> QED
    BY <1>14, <2>2 DEF Posee
<1>16. ASSUME NEW b \in Nombres PROVE Turno(b)'
  <2>1. CASE b = a
    <3>1. \A q \in Procesos : Posee(q, a)' => q = p
      BY <1>4, <1>15
    <3>2. Sem(a)' \in 0..1 /\ Sem(a)' # 1
      BY <1>6
    <3> QED
      BY <1>2, <1>6, <2>1, <3>1, <3>2 DEF Turno
  <2>2. CASE b # a
    <3>1. \A q \in Procesos : Posee(q, b)' <=> Posee(q, b)
      BY <1>15, <2>2
    <3> QED
      BY <1>6, <2>2, <3>1 DEF Bloqueo, Turno
  <2> QED
    BY <2>1, <2>2
<1>17. \A b \in Nombres : Esperan(b)' = IF b = a THEN Esperan(b) \ {p} ELSE Esperan(b)
  BY <1>7, <1>10, <1>11
<1> QED
  BY <1>2, <1>6, <1>10, <1>13, <1>16, <1>17 DEF Bloqueo

LEMMA BloqueoAbre ==
    ASSUME Bloqueo, ArchivoListo
    PROVE  /\ Bloqueo'
           /\ \A b \in Nombres : Esperan(b)' = Esperan(b)
           /\ \A b \in Nombres : b \notin EnLista => Esperan(b) = {}
<1>1. Base
  BY DEF Bloqueo
<1>2. /\ Base' /\ UNCHANGED <<programa, pc, caido, listos>>
      /\ EnVuelo(Accesos)' = EnVuelo(Accesos) /\ EnVuelo(Aperturas)' = {}
  BY <1>1, EfectoArchivoListo
<1>3. PICK a \in Nombres, p \in Procesos, m \in DesdeFs :
        /\ EnVuelo(Aperturas) = {m} /\ m.pid = p /\ m.arch = a /\ a \notin EnLista
        /\ cpu = Cpu("espera", p) /\ cpu' = Cpu("ejecuta", p)
        /\ EnLista' = EnLista \cup {a} /\ Cola(a)' = <<>> /\ Sem(a)' = 0
        /\ \A b \in EnLista : Cola(b)' = Cola(b) /\ Sem(b)' = Sem(b)
  BY <1>1, EfectoArchivoListo
<1>4. EnCpu = {p} /\ EnCpu' = {p} /\ EnFs' = EnFs
  BY <1>2, <1>3, CpuDe, EnFsVacio
<1>5. \A b \in Nombres : Esperan(b)' = Esperan(b)
  <2> SUFFICES ASSUME NEW b \in Nombres PROVE Esperan(b)' = Esperan(b)
    OBVIOUS
  <2>1. /\ b \in EnLista => Esperan(b) = ToSet(Cola(b))
        /\ b \in EnLista' => Esperan(b)' = ToSet(Cola(b)')
        /\ b \notin EnLista => Esperan(b) = {}
        /\ b \notin EnLista' => Esperan(b)' = {}
    BY <1>1, <1>2, Leida DEF BaseLeida, ListaLeida
  <2>2. ToSet(<<>>) = {}
    BY DEF ToSet
  <2> QED
    BY <1>3, <2>1, <2>2
<1>6. Esperan(a)' = {} /\ \A b \in EnLista' : b \in Nombres
  BY <1>1, <1>2, <1>3, <1>5, Leida DEF BaseLeida, ListaLeida
<1>7. Plaza'
  <2>1. IsInjective(<<>>)
    BY DEF IsInjective
  <2>2. \A b \in EnLista' : IsInjective(Cola(b)')
    BY <1>3, <2>1 DEF Bloqueo, Plaza
  <2>3. \A b \in EnLista' : (b \in EnLista /\ Esperan(b)' = Esperan(b)) \/ Esperan(b)' = {}
    BY <1>3, <1>5, <1>6
  <2> QED
    BY <1>2, <1>4, <2>2, <2>3 DEF Bloqueo, Plaza
<1>8. ASSUME NEW q \in Procesos, NEW b \in Nombres, Posee(q, b)', ~(q = p /\ b = a)
      PROVE  Posee(q, b)
  <2>1. Quiere(q, b) /\ q \notin Esperan(b)
    BY <1>2, <1>5, <1>8, QuiereIgual DEF Posee, Esperan
  <2>2. ~Pide(q, b)
    BY <1>3, <1>8 DEF Pide
  <2> QED
    BY <2>1, <2>2 DEF Posee, Esperan
<1>9. ASSUME NEW b \in Nombres PROVE Turno(b)'
  <2>1. CASE b = a
    <3>1. \A q \in Procesos : Posee(q, a)' => q = p
      BY <1>3, <1>8 DEF Bloqueo, Turno
    <3>2. Sem(a)' \in 0..1 /\ Sem(a)' # 1
      BY <1>3
    <3> QED
      BY <1>3, <2>1, <3>1, <3>2 DEF Turno
  <2>2. CASE b # a
    <3>1. \A q \in Procesos : Posee(q, b)' => Posee(q, b)
      BY <1>8, <2>2
    <3> QED
      BY <1>3, <2>2, <3>1 DEF Bloqueo, Turno
  <2> QED
    BY <2>1, <2>2
<1>10. \A b \in Nombres : b \notin EnLista => Esperan(b) = {}
  BY <1>1, Leida DEF BaseLeida, ListaLeida
<1> QED
  BY <1>2, <1>5, <1>7, <1>9, <1>10 DEF Bloqueo

LEMMA BloqueoInicial == ASSUME Init PROVE Bloqueo
<1>1. Base
  BY BaseInicial
<1>2. EnLista = {}
  BY DEF Init, EnLista
<1>3. EnCpu = {} /\ EnFs = {}
  BY CpuVacia DEF Init, EnFs, EnVuelo, Clase, Lugares
<1>4. \A p \in Procesos, a \in Nombres : ~Quiere(p, a)
  <2> SUFFICES ASSUME NEW p \in Procesos, NEW a \in Nombres PROVE ~Quiere(p, a)
    OBVIOUS
  <2>1. pc[p] = 0
    BY DEF Init
  <2>2. Usos(p, a) = {}
    BY <2>1 DEF Usos
  <2> QED
    BY <2>2, UltimaEs DEF Quiere
<1> QED
  BY <1>1, <1>2, <1>3, <1>4 DEF Init, Bloqueo, Plaza, Turno, Posee

LEMMA BloqueoPaso == ASSUME Bloqueo, CierraLoSuyo, [Next]_vars PROVE Bloqueo'
<1>1. CASE UNCHANGED vars
  <2>1. UNCHANGED <<programa, pc, listos, cpu, lista, a_fs, de_fs, caido>>
    BY <1>1 DEF vars
  <2>2. Base'
    BY BasePaso DEF Bloqueo
  <2>3. \A C : EnVuelo(C)' = EnVuelo(C)
    BY <2>1, FsQuieto
  <2>4. EnCpu' = EnCpu /\ EnFs' = EnFs
    BY <2>1, <2>3, EnFsVacio DEF EnCpu
  <2>5. \A q \in Procesos, a \in Nombres : (Quiere(q, a)' => Quiere(q, a)) /\ (Pide(q, a) => Pide(q, a)')
    BY <2>1, <2>3, QuiereIgual, PideIgual
  <2> QED
    BY <2>1, <2>2, <2>4, <2>5, BloqueoQuieto DEF Bloqueo, Plaza
<1>2. CASE Next
  <2>1. CASE HiloCpu
    BY <2>1, BloqueoEncola, BloqueoPide, BloqueoCierra, BloqueoCpu DEF HiloCpu
  <2>2. CASE HiloFs
    BY <2>2, BloqueoAbre, BloqueoMensajes DEF HiloFs
  <2>3. ASSUME NEW a \in Nombres, HiloArchivo(a) PROVE Bloqueo'
    BY <2>3, BloqueoDespierta
  <2> QED
    BY <1>2, <2>1, <2>2, <2>3, BloqueoMensajes DEF Next
<1> QED
  BY <1>1, <1>2

\* Who has a file, as ExclusionArchivo has it, has been let on.
LEMMA TienePosee ==
    ASSUME Base, NEW p \in Procesos, NEW a \in Nombres, Tiene(p, a)
    PROVE  Posee(p, a)
  BY DEF Tiene, Posee, Quiere, Pide, Base, Apertura

LEMMA BloqueoImplica == ASSUME Bloqueo PROVE ExclusionArchivo /\ ~caido
<1>1. ASSUME NEW a \in Nombres PROVE Cardinality(Duenios(a)) <= 1
  <2>1. \A p, q \in Duenios(a) : p = q
    BY TienePosee DEF Duenios, Bloqueo, Turno
  <2>2. CASE Duenios(a) = {}
    BY <2>2, FS_EmptySet
  <2>3. CASE Duenios(a) # {}
    <3>1. PICK p \in Duenios(a) : TRUE
      BY <2>3
    <3>2. Duenios(a) = {p}
      BY <2>1, <3>1
    <3>3. Cardinality({p}) = 1
      BY FS_Singleton
    <3> QED
      BY <3>2, <3>3
  <2> QED
    BY <2>2, <2>3
<1> QED
  BY <1>1 DEF ExclusionArchivo, Bloqueo

\* F_OPEN locks a file, for any number of processes and files, with programs
\* that close only what they have open.
THEOREM ExclusionArchivoCorrecta ==
    ASSUME CierraLoSuyo
    PROVE  Spec => []ExclusionArchivo
<1>1. Init => Bloqueo
  BY BloqueoInicial
<1>2. Bloqueo /\ [Next]_vars => Bloqueo'
  BY BloqueoPaso
<1>3. Bloqueo => ExclusionArchivo
  BY BloqueoImplica
<1> QED
  BY <1>1, <1>2, <1>3, PTL DEF Spec

\* The thread of a file that is woken finds somebody in its queue
\* (iniciar_archivo, kernel.c:1280-1284).
THEOREM NoCaeCorrecto ==
    ASSUME CierraLoSuyo
    PROVE  Spec => []~caido
<1>1. Init => Bloqueo
  BY BloqueoInicial
<1>2. Bloqueo /\ [Next]_vars => Bloqueo'
  BY BloqueoPaso
<1>3. Bloqueo => ~caido
  BY BloqueoImplica
<1> QED
  BY <1>1, <1>2, <1>3, PTL DEF Spec

-----------------------------------------------------------------------------
(* The list and the owners, with programs that have one file open at a time. *)

LEMMA PoseeIgual ==
    ASSUME NEW p \in Procesos, NEW a,
           Quiere(p, a)' <=> Quiere(p, a), Pide(p, a)' <=> Pide(p, a), Esperan(a)' = Esperan(a)
    PROVE  Posee(p, a)' <=> Posee(p, a)
<1>1. EnCola(p, a)' <=> EnCola(p, a)
  BY DEF Esperan
<1> QED
  BY <1>1 DEF Posee

\* A step that changes neither the list nor who wants or asks for what.
LEMMA DuenioQuieto ==
    ASSUME Duenio, UNCHANGED lista,
           \A p \in Procesos, a \in Nombres : Quiere(p, a)' <=> Quiere(p, a),
           \A p \in Procesos, a \in Nombres : Pide(p, a)' <=> Pide(p, a),
           \A p \in Procesos : cpu' = Cpu("espera", p) => cpu = Cpu("espera", p),
           EnLista \subseteq Nombres
    PROVE  Duenio'
<1>1. /\ EnLista' = EnLista /\ \A a : Sem(a)' = Sem(a)
      /\ \A p, a : EnCola(p, a)' = EnCola(p, a)
  BY ListaQuieta
<1>2. \A p \in Procesos, a \in Nombres : Posee(p, a)' <=> Posee(p, a)
  BY <1>1 DEF Posee
<1> QED
  BY <1>1, <1>2 DEF Duenio

LEMMA EnListaNombres == ASSUME Base PROVE EnLista \subseteq Nombres
  BY Leida DEF BaseLeida, ListaLeida

LEMMA DuenioCpu ==
    ASSUME Bloqueo, Duenio, Mover \/ Operar \/ Truncar \/ Desalojar \/ Terminar
    PROVE  Duenio'
<1>1. PICK op : Ejecuta(op) /\ op \notin {"F_OPEN", "F_CLOSE"}
  BY DEF Mover, Operar, Truncar, Desalojar, Terminar
<1>2. Base
  BY DEF Bloqueo
<1>3. PICK p \in Procesos : p = cpu.pcb /\ cpu = Cpu("ejecuta", p)
  BY <1>1, <1>2, EjecutaDe
<1>4. EnVuelo(Aperturas) = {}
  BY <1>1, <1>2, EjecutaDe
<1>5. \A q \in Procesos, a \in Nombres : Quiere(q, a)' <=> Quiere(q, a)
  BY <1>1, <1>2, QuiereAvanza
<1>6. EnVuelo(Aperturas)' = {} /\ UNCHANGED lista /\ (cpu' = cpu \/ cpu' = Libre)
  <2>1. CASE Mover
    BY <1>2, <1>4, <2>1, EfectoMover
  <2>2. CASE Operar \/ Truncar
    BY <1>2, <2>2, EfectoAcceder
  <2>3. CASE Desalojar \/ Terminar
    BY <1>2, <1>4, <2>3, EfectoSoltar
  <2> QED
    BY <2>1, <2>2, <2>3
<1>7. \A q \in Procesos, a \in Nombres : Pide(q, a)' <=> Pide(q, a)
  BY <1>4, <1>6 DEF Pide
<1>8. \A q \in Procesos : cpu' # Cpu("espera", q)
  BY <1>3, <1>6 DEF Cpu, Libre
<1> QED
  BY <1>2, <1>5, <1>6, <1>7, <1>8, DuenioQuieto, EnListaNombres

LEMMA DuenioMensajes ==
    ASSUME Bloqueo, Duenio, \/ \E p \in Procesos : Despachar(p)
                            \/ PedirCreacion \/ Desbloqueado \/ FileSystem
    PROVE  Duenio'
<1>1. Base
  BY DEF Bloqueo
<1>2. UNCHANGED <<programa, pc, lista>>
  BY <1>1, EfectoDespachar, EfectoReenvio, EfectoDesbloqueado, EfectoFileSystem
<1>3. \A q \in Procesos, a \in Nombres : Quiere(q, a)' <=> Quiere(q, a)
  BY <1>2, QuiereIgual
<1>4. CASE \/ \E p \in Procesos : Despachar(p)
           \/ PedirCreacion \/ Desbloqueado
  <2>1. EnVuelo(Aperturas)' = EnVuelo(Aperturas)
    BY <1>1, <1>4, EfectoDespachar, EfectoReenvio, EfectoDesbloqueado
  <2>2. cpu' = cpu \/ \E p \in Procesos : cpu' = Cpu("ejecuta", p)
    BY <1>1, <1>4, EfectoDespachar, EfectoReenvio, EfectoDesbloqueado
  <2>3. \A q \in Procesos : cpu' = Cpu("espera", q) => cpu = Cpu("espera", q)
    <3>1. \A p, q : Cpu("ejecuta", p) # Cpu("espera", q)
      BY DEF Cpu
    <3> QED
      BY <2>2, <3>1
  <2>4. \A q \in Procesos, a \in Nombres : Pide(q, a)' <=> Pide(q, a)
    BY <2>1, PideIgual
  <2> QED
    BY <1>1, <1>2, <1>3, <2>3, <2>4, DuenioQuieto, EnListaNombres
<1>5. CASE FileSystem
  <2>1. cpu' = cpu /\ \A C \in {Aperturas, Accesos} :
             \/ EnVuelo(C)' = EnVuelo(C)
             \/ \E m, r : /\ EnVuelo(C) = {m} /\ EnVuelo(C)' = {r}
                          /\ r.pid = m.pid /\ r.arch = m.arch
    BY <1>1, <1>5, EfectoFileSystem
  <2>2. \A q \in Procesos, a \in Nombres : Pide(q, a)' <=> Pide(q, a)
    BY <2>1 DEF Pide
  <2> QED
    BY <1>1, <1>2, <1>3, <2>1, <2>2, DuenioQuieto, EnListaNombres
<1> QED
  BY <1>4, <1>5

LEMMA DuenioEncola ==
    ASSUME Bloqueo, Duenio, AbreDeAUno, AbrirOcupado
    PROVE  Duenio'
<1>1. Base /\ Ejecuta("F_OPEN")
  BY DEF Bloqueo, AbrirOcupado
<1>2. /\ Base' /\ EnLista' = EnLista /\ \A C : EnVuelo(C)' = EnVuelo(C)
      /\ cpu' = Libre /\ EnVuelo(Aperturas) = {}
  BY <1>1, EfectoAbrirOcupado, EjecutaDe DEF AbrirOcupado
<1>3. PICK a \in Nombres, p \in Procesos :
        /\ a = Actual.arch /\ p = cpu.pcb
        /\ \A q \in Procesos, b \in Nombres :
             Quiere(q, b)' <=> IF q = p /\ b = a THEN TRUE ELSE Quiere(q, b)
  BY <1>1, QuiereAvanza
<1>4. \A b \in Nombres : ~Quiere(p, b)
  BY <1>1, <1>3, AbreLimpio
<1>5. \A b \in Nombres : Esperan(b)' = IF b = a THEN Esperan(b) \cup {p} ELSE Esperan(b)
  BY <1>3, BloqueoEncola
<1>6. \A b \in EnLista : b \in Nombres /\ Sem(b)' = Sem(b)
  BY <1>1, EfectoAbrirOcupado, EnListaNombres
<1>7. \A q \in Procesos, b \in Nombres :
        EnCola(q, b)' <=> EnCola(q, b) \/ (q = p /\ b = a)
  BY <1>5 DEF Esperan
<1>8. \A q \in Procesos, b \in Nombres : ~Pide(q, b) /\ ~Pide(q, b)'
  BY <1>2 DEF Pide
<1>9. \A q \in Procesos, b \in Nombres : Posee(q, b) => Posee(q, b)'
  BY <1>3, <1>4, <1>7, <1>8 DEF Posee
<1>10. \A q \in Procesos : cpu' # Cpu("espera", q)
  BY <1>2 DEF Cpu, Libre
<1>11. \A q \in Procesos, b, c \in Nombres : Quiere(q, b)' /\ Quiere(q, c)' => b = c
  BY <1>3, <1>4 DEF Duenio
<1> QED
  BY <1>2, <1>3, <1>6, <1>7, <1>8, <1>9, <1>10, <1>11 DEF Duenio

LEMMA DuenioPide ==
    ASSUME Bloqueo, Duenio, AbreDeAUno, AbrirLibre
    PROVE  Duenio'
<1>1. Base /\ Ejecuta("F_OPEN")
  BY DEF Bloqueo, AbrirLibre
<1>2. PICK a \in Nombres, p \in Procesos :
        /\ a = Actual.arch /\ p = cpu.pcb
        /\ \A q \in Procesos, b \in Nombres :
             Quiere(q, b)' <=> IF q = p /\ b = a THEN TRUE ELSE Quiere(q, b)
  BY <1>1, QuiereAvanza
<1>3. \A b \in Nombres : ~Quiere(p, b)
  BY <1>1, <1>2, AbreLimpio
<1>4. /\ UNCHANGED lista /\ EnVuelo(Aperturas) = {} /\ cpu' = Cpu("espera", p)
      /\ \E m : EnVuelo(Aperturas)' = {m} /\ m.pid = p /\ m.arch = a
  BY <1>1, <1>2, EfectoAbrirLibre
<1>5. /\ EnLista' = EnLista /\ \A b : Sem(b)' = Sem(b)
      /\ \A q, b : EnCola(q, b)' = EnCola(q, b)
  BY <1>4, ListaQuieta
<1>6. \A q \in Procesos, b \in Nombres : Pide(q, b)' <=> q = p /\ b = a
  BY <1>4 DEF Pide
<1>7. \A q \in Procesos, b \in Nombres : Posee(q, b) => Posee(q, b)'
  BY <1>2, <1>3, <1>5, <1>6 DEF Posee
<1>8. \A q \in Procesos : cpu' = Cpu("espera", q) => q = p
  BY <1>4 DEF Cpu
<1>9. \A q \in Procesos, b, c \in Nombres : Quiere(q, b)' /\ Quiere(q, c)' => b = c
  BY <1>2, <1>3 DEF Duenio
<1>10. EnLista \subseteq Nombres
  BY <1>1, EnListaNombres
<1> QED
  BY <1>2, <1>5, <1>6, <1>7, <1>8, <1>9, <1>10 DEF Duenio

LEMMA DuenioCierra ==
    ASSUME Bloqueo, Duenio, CierraLoSuyo, Cerrar
    PROVE  Duenio'
<1>1. Base /\ Ejecuta("F_CLOSE")
  BY DEF Bloqueo, Cerrar
<1>2. PICK a \in Nombres, p \in Procesos :
        /\ a = Actual.arch /\ p = cpu.pcb
        /\ \A q \in Procesos, b \in Nombres :
             Quiere(q, b)' <=> IF q = p /\ b = a THEN FALSE ELSE Quiere(q, b)
  BY <1>1, QuiereAvanza
<1>3. /\ Base' /\ cpu' = cpu /\ EnVuelo(Aperturas) = {} /\ EnVuelo(Aperturas)' = {}
      /\ cpu = Cpu("ejecuta", p)
  BY <1>1, <1>2, EfectoCerrar, EjecutaDe
<1>4. \A b \in Nombres : Esperan(b)' = Esperan(b)
  BY BloqueoCierra
<1>5. \A q \in Procesos, b \in Nombres : EnCola(q, b)' <=> EnCola(q, b)
  BY <1>4 DEF Esperan
<1>6. ~EnCola(p, a)
  <2>1. p \in EnCpu
    BY <1>2 DEF EnCpu
  <2>2. a \in EnLista => p \notin Esperan(a)
    BY <2>1 DEF Bloqueo, Plaza
  <2>3. a \notin EnLista => Esperan(a) = {}
    BY <1>1, Leida DEF BaseLeida, ListaLeida
  <2> QED
    BY <2>2, <2>3 DEF Esperan
<1>7. \A q \in Procesos, b \in Nombres : ~Pide(q, b) /\ ~Pide(q, b)'
  BY <1>3 DEF Pide
<1>8. ASSUME NEW b \in EnLista', Sem(b)' = 0 PROVE \E q \in Procesos : Posee(q, b)'
  <2>1. b \in Nombres
    BY <1>3, Leida DEF BaseLeida, ListaLeida
  <2>2. a \in EnLista => Sem(a) \in Nat
    BY <1>1, Leida DEF BaseLeida, ListaLeida
  <2>3. b # a /\ b \in EnLista /\ Sem(b) = 0
    BY <1>1, <1>2, <1>8, <2>2, EfectoCerrar, ListaQuieta
  <2>4. PICK q \in Procesos : Posee(q, b)
    BY <2>3 DEF Duenio
  <2>5. Posee(q, b)'
    BY <1>2, <1>5, <1>7, <2>1, <2>3, <2>4 DEF Posee
  <2> QED
    BY <2>5
<1>9. \A q \in Procesos : cpu' # Cpu("espera", q)
  BY <1>3 DEF Cpu
<1>10. \A q \in Procesos, b \in Nombres : EnCola(q, b)' \/ Pide(q, b)' => Quiere(q, b)'
  BY <1>2, <1>5, <1>6, <1>7 DEF Duenio
<1>11. \A q \in Procesos, b, c \in Nombres : Quiere(q, b)' /\ Quiere(q, c)' => b = c
  BY <1>2 DEF Duenio
<1> QED
  BY <1>8, <1>9, <1>10, <1>11 DEF Duenio

LEMMA DuenioDespierta ==
    ASSUME Bloqueo, Duenio, NEW a \in Nombres, HiloArchivo(a)
    PROVE  Duenio'
<1>1. Base
  BY DEF Bloqueo
<1>2. /\ \A C : EnVuelo(C)' = EnVuelo(C)
      /\ a \in EnLista /\ Sem(a) > 0 /\ UNCHANGED <<programa, pc, cpu>>
  BY <1>1, EfectoDespertar
<1>3. PICK p \in Esperan(a) :
        \A b \in Nombres : Esperan(b)' = IF b = a THEN Esperan(b) \ {p} ELSE Esperan(b)
  BY BloqueoDespierta
<1>4. p \in Procesos /\ EnCola(p, a)
  BY DEF Esperan
<1>5. \A q \in Procesos, b \in Nombres : EnCola(q, b)' <=> EnCola(q, b) /\ ~(q = p /\ b = a)
  BY <1>3, <1>4 DEF Esperan
<1>6. \A q \in Procesos, b \in Nombres :
        /\ Quiere(q, b)' <=> Quiere(q, b)
        /\ Pide(q, b)' <=> Pide(q, b)
  BY <1>2, QuiereIgual, PideIgual
<1>7. ~Pide(p, a)
  BY <1>1, <1>2 DEF Pide, Base, Apertura
<1>8. Posee(p, a)'
  BY <1>4, <1>5, <1>6, <1>7 DEF Posee, Duenio
<1>9. \A b \in EnLista : b # a => Sem(b)' = Sem(b)
  <2>1. Cola(a) # <<>>
    BY <1>2 DEF Bloqueo, Turno
  <2> QED
    BY <1>1, <2>1, EfectoDespertar
<1>10. EnLista' = EnLista /\ EnLista \subseteq Nombres
  <2>1. Cola(a) # <<>>
    BY <1>2 DEF Bloqueo, Turno
  <2> QED
    BY <1>1, <2>1, EfectoDespertar, EnListaNombres
<1>11. ASSUME NEW b \in EnLista', Sem(b)' = 0 PROVE \E q \in Procesos : Posee(q, b)'
  <2>1. CASE b = a
    BY <1>4, <1>8, <2>1
  <2>2. CASE b # a
    <3>1. PICK q \in Procesos : Posee(q, b)
      BY <1>9, <1>10, <1>11, <2>2 DEF Duenio
    <3>2. Posee(q, b)'
      BY <1>5, <1>6, <1>10, <2>2, <3>1 DEF Posee
    <3> QED
      BY <3>2
  <2> QED
    BY <2>1, <2>2
<1> QED
  BY <1>2, <1>5, <1>6, <1>11 DEF Duenio

LEMMA DuenioAbre ==
    ASSUME Bloqueo, Duenio, ArchivoListo
    PROVE  Duenio'
<1>1. Base
  BY DEF Bloqueo
<1>2. UNCHANGED <<programa, pc>> /\ EnVuelo(Aperturas)' = {}
  BY <1>1, EfectoArchivoListo
<1>3. PICK a \in Nombres, p \in Procesos :
        /\ \E m : EnVuelo(Aperturas) = {m} /\ m.pid = p /\ m.arch = a
        /\ a \notin EnLista /\ EnLista' = EnLista \cup {a} /\ cpu' = Cpu("ejecuta", p)
        /\ \A b \in EnLista : Sem(b)' = Sem(b)
  BY <1>1, EfectoArchivoListo
<1>4. /\ \A b \in Nombres : Esperan(b)' = Esperan(b)
      /\ \A b \in Nombres : b \notin EnLista => Esperan(b) = {}
  BY BloqueoAbre
<1>5. /\ \A q \in Procesos, b \in Nombres : EnCola(q, b)' <=> EnCola(q, b)
      /\ ~EnCola(p, a)
  BY <1>3, <1>4 DEF Esperan
<1>6. /\ \A q \in Procesos, b \in Nombres : Quiere(q, b)' <=> Quiere(q, b)
      /\ \A q \in Procesos, b \in Nombres : ~Pide(q, b)'
  BY <1>2, QuiereIgual DEF Pide
<1>7. Pide(p, a)
  BY <1>3 DEF Pide
<1>8. Posee(p, a)'
  BY <1>5, <1>6, <1>7 DEF Posee, Duenio
<1>9. \A q \in Procesos, b \in Nombres : Posee(q, b) => Posee(q, b)'
  BY <1>5, <1>6 DEF Posee
<1>10. \A q \in Procesos : cpu' # Cpu("espera", q)
  BY <1>3 DEF Cpu
<1>11. ASSUME NEW b \in EnLista', Sem(b)' = 0 PROVE \E q \in Procesos : Posee(q, b)'
  <2>1. CASE b = a
    BY <1>8, <2>1
  <2>2. CASE b \in EnLista
    <3>1. PICK q \in Procesos : Posee(q, b)
      BY <1>3, <1>11, <2>2 DEF Duenio
    <3> QED
      BY <1>1, <1>9, <2>2, <3>1, EnListaNombres
  <2> QED
    BY <1>3, <2>1, <2>2
<1> QED
  BY <1>5, <1>6, <1>10, <1>11 DEF Duenio

LEMMA DuenioInicial == ASSUME Init PROVE Duenio
<1>1. EnLista = {} /\ \A p, a : ~EnCola(p, a) /\ ~Pide(p, a)
  <2>1. \A a : Entrada(a) = 0
    BY DEF Init, Entrada, SelectInSeq
  <2> QED
    BY <2>1 DEF Init, EnLista, EnCola, Pide, EnVuelo, Clase, Lugares
<1>2. \A p \in Procesos, a \in Nombres : ~Quiere(p, a)
  <2> SUFFICES ASSUME NEW p \in Procesos, NEW a \in Nombres PROVE ~Quiere(p, a)
    OBVIOUS
  <2>1. pc[p] = 0
    BY DEF Init
  <2>2. Usos(p, a) = {}
    BY <2>1 DEF Usos
  <2> QED
    BY <2>2, UltimaEs DEF Quiere
<1>3. \A p \in Procesos : cpu # Cpu("espera", p)
  BY DEF Init, Cpu, Libre
<1> QED
  BY <1>1, <1>2, <1>3 DEF Duenio

LEMMA DuenioPaso ==
    ASSUME Bloqueo, Duenio, CierraLoSuyo, AbreDeAUno, [Next]_vars
    PROVE  Duenio'
<1>1. CASE UNCHANGED vars
  <2>1. UNCHANGED <<programa, pc, cpu, lista, a_fs, de_fs>>
    BY <1>1 DEF vars
  <2>2. EnVuelo(Aperturas)' = EnVuelo(Aperturas)
    BY <2>1, FsQuieto
  <2>3. \A q \in Procesos, a \in Nombres : (Quiere(q, a)' <=> Quiere(q, a)) /\ (Pide(q, a)' <=> Pide(q, a))
    BY <2>1, <2>2, QuiereIgual, PideIgual
  <2> QED
    BY <2>1, <2>3, DuenioQuieto, EnListaNombres DEF Bloqueo
<1>2. CASE Next
  <2>1. CASE HiloCpu
    BY <2>1, DuenioEncola, DuenioPide, DuenioCierra, DuenioCpu DEF HiloCpu
  <2>2. CASE HiloFs
    BY <2>2, DuenioAbre, DuenioMensajes DEF HiloFs
  <2>3. ASSUME NEW a \in Nombres, HiloArchivo(a) PROVE Duenio'
    BY <2>3, DuenioDespierta
  <2> QED
    BY <1>2, <2>1, <2>2, <2>3, DuenioMensajes DEF Next
<1> QED
  BY <1>1, <1>2

\* Who has been let on has the file, as ExclusionArchivo has it: while the
\* CPU waits for a file to be opened, its process wants no other.
LEMMA PoseeTiene ==
    ASSUME Bloqueo, Duenio, NEW p \in Procesos, NEW a \in Nombres
    PROVE  Tiene(p, a) <=> Posee(p, a)
<1>1. ASSUME Posee(p, a) PROVE cpu # Cpu("espera", p)
  <2> SUFFICES ASSUME cpu = Cpu("espera", p) PROVE FALSE
    OBVIOUS
  <2>1. PICK b \in Nombres : Pide(p, b)
    BY DEF Duenio
  <2>2. b = a
    BY <1>1, <2>1 DEF Posee, Duenio
  <2> QED
    BY <1>1, <2>1, <2>2 DEF Posee
<1>2. Tiene(p, a) => Posee(p, a)
  BY TienePosee DEF Bloqueo
<1>3. Posee(p, a) => Tiene(p, a)
  BY <1>1 DEF Tiene, Posee, Quiere
<1> QED
  BY <1>2, <1>3

LEMMA DuenioImplica == ASSUME Bloqueo, Duenio PROVE ListaCorrecta
<1>1. UnaEntrada
  BY DEF Bloqueo, Base
<1>2. ASSUME NEW a \in Nombres
      PROVE  IF Entrada(a) = 0 THEN Duenios(a) = {}
             ELSE /\ Cardinality(Duenios(a)) + lista[Entrada(a)].sem = 1
                  /\ lista[Entrada(a)].sem <= Len(lista[Entrada(a)].cola)
  <2>1. Duenios(a) = {p \in Procesos : Posee(p, a)}
    BY PoseeTiene DEF Duenios
  <2>2. Entrada(a) # 0 <=> a \in EnLista
    BY ListaEntrada DEF Bloqueo
  <2>3. CASE a \notin EnLista
    BY <2>1, <2>2, <2>3 DEF Bloqueo, Turno
  <2>4. CASE a \in EnLista
    <3>1. Cola(a) \in Seq(Procesos) /\ Sem(a) \in 0..1
      BY <2>4, Leida DEF BaseLeida, ListaLeida, Bloqueo, Turno
    <3>2. CASE Sem(a) = 0
      <4>1. PICK p \in Procesos : Posee(p, a)
        BY <2>4, <3>2 DEF Duenio
      <4>2. Duenios(a) = {p}
        BY <2>1, <2>4, <4>1 DEF Bloqueo, Turno
      <4>3. Cardinality({p}) = 1
        BY FS_Singleton
      <4>4. Cardinality(Duenios(a)) = 1 /\ Sem(a) <= Len(Cola(a))
        BY <3>1, <3>2, <4>2, <4>3
      <4> QED
        BY <2>2, <2>4, <3>2, <4>4 DEF Sem, Cola
    <3>3. CASE Sem(a) = 1
      <4>1. Cola(a) # <<>> /\ Duenios(a) = {}
        BY <2>1, <2>4, <3>3 DEF Bloqueo, Turno
      <4>2. Cardinality(Duenios(a)) = 0
        BY <4>1, FS_EmptySet
      <4>3. Sem(a) <= Len(Cola(a))
        BY <3>1, <3>3, <4>1
      <4> QED
        BY <2>2, <2>4, <3>3, <4>2, <4>3 DEF Sem, Cola
    <3> QED
      BY <3>1, <3>2, <3>3
  <2> QED
    BY <2>3, <2>4
<1> QED
  BY <1>1, <1>2 DEF ListaCorrecta, UnaEntrada

\* A file is in the list, once, exactly while one process has it open or the
\* first that waits is being woken, with programs that close only what they
\* have open and have one file open at a time.
THEOREM ListaBienLlevada ==
    ASSUME CierraLoSuyo, AbreDeAUno
    PROVE  Spec => []ListaCorrecta
<1>1. Init => Bloqueo /\ Duenio
  BY BloqueoInicial, DuenioInicial
<1>2. Bloqueo /\ Duenio /\ [Next]_vars => (Bloqueo /\ Duenio)'
  BY BloqueoPaso, DuenioPaso
<1>3. Bloqueo /\ Duenio => ListaCorrecta
  BY DuenioImplica
<1> QED
  BY <1>1, <1>2, <1>3, PTL DEF Spec

-----------------------------------------------------------------------------
(* The positions of files. The first entry that a process has of a file is   *)
(* the one F_SEEK moves and an access reads: where the instructions executed  *)
(* so far leave it (Deja).                                                   *)

\* The entry of a file that F_SEEK, F_READ and F_WRITE use, in a list l.
Primera(l, a) == SelectInSeq(l, LAMBDA e : e.dir = a)
Esta(l, a) == Primera(l, a) # 0
Apunta(l, a) == l[Primera(l, a)].punt

\* The first c instructions of g open a; and seek in it when it is open.
Abrio(g, c, a) == \E o \in 1..c : Abre(g[o], a)
SinPosicion(g, c, a) == \A s \in 1..c : \A o \in 1..(s - 1) : ~(Abre(g[o], a) /\ Posiciona(g[s], a))

\* Where they leave the pointer of the first entry of a.
Deja(g, c, a, n) ==
    \/ n = 0 /\ SinPosicion(g, c, a)
    \/ \E s \in 1..c : /\ Posiciona(g[s], a) /\ g[s].pos = n
                       /\ \E o \in 1..(s - 1) : Abre(g[o], a)
                       /\ \A k \in (s + 1)..c : ~Posiciona(g[k], a)

\* l is the list that they make; Q are the files that are being opened.
Fiel(g, c, l, Q, a) ==
    /\ Esta(l, a) => Abrio(g, c, a) /\ Deja(g, c, a, Apunta(l, a))
    /\ ~Esta(l, a) => (a \in Q <=> Abrio(g, c, a)) /\ SinPosicion(g, c, a)

Pedidas(p) == {a \in Nombres : Pide(p, a)}

Punteros == \A p \in Procesos, a \in Nombres : Fiel(programa[p], pc[p], abiertos[p], Pedidas(p), a)

\* The position that the instructions ask for.
Pedida(g, c, a) ==
    LET i == SelectLastInSubSeq(g, 1, c, LAMBDA x : x.arch = a /\ x.op \in {"F_OPEN", "F_SEEK"})
    IN  IF g[i].op = "F_SEEK" THEN g[i].pos ELSE 0

LEMMA PrimeraEs ==
    ASSUME NEW l \in Seq(Archivo), NEW a
    PROVE  \/ Primera(l, a) = 0 /\ \A i \in DOMAIN l : l[i].dir # a
           \/ /\ Primera(l, a) \in DOMAIN l /\ l[Primera(l, a)].dir = a /\ Primera(l, a) # 0
              /\ \A i \in DOMAIN l : l[i].dir = a => Primera(l, a) <= i
<1> DEFINE I == {i \in 1..Len(l) : l[i].dir = a}
<1>1. Primera(l, a) = IF I # {} THEN Min(I) ELSE 0
  BY DEF Primera, SelectInSeq
<1>2. DOMAIN l = 1..Len(l) /\ Len(l) \in Nat /\ I \in SUBSET Nat
  OBVIOUS
<1>3. CASE I = {}
  BY <1>1, <1>2, <1>3
<1>4. CASE I # {}
  <2>1. Min(I) \in I /\ \A i \in I : Min(I) <= i
    <3> HIDE DEF I
    <3> QED
      BY <1>2, <1>4, MenorExiste
  <2> QED
    BY <1>1, <1>2, <1>4, <2>1
<1> QED
  BY <1>3, <1>4

LEMMA PrimeraAgrega ==
    ASSUME NEW l \in Seq(Archivo), NEW e \in Archivo, NEW b
    PROVE  /\ Esta(Append(l, e), b) <=> Esta(l, b) \/ e.dir = b
           /\ Esta(l, b) => Apunta(Append(l, e), b) = Apunta(l, b)
           /\ ~Esta(l, b) /\ e.dir = b => Apunta(Append(l, e), b) = e.punt
<1> DEFINE t == Append(l, e)
           n == Len(l) + 1
<1>1. /\ t \in Seq(Archivo) /\ DOMAIN t = DOMAIN l \cup {n} /\ t[n] = e
      /\ \A i \in DOMAIN l : t[i] = l[i] /\ i <= n /\ n # i
      /\ DOMAIN l \subseteq Nat /\ n \in Nat
  OBVIOUS
<1> HIDE DEF t, n
<1>2. /\ \/ Primera(l, b) = 0 /\ \A i \in DOMAIN l : l[i].dir # b
         \/ /\ Primera(l, b) \in DOMAIN l /\ l[Primera(l, b)].dir = b /\ Primera(l, b) # 0
            /\ \A i \in DOMAIN l : l[i].dir = b => Primera(l, b) <= i
      /\ \/ Primera(t, b) = 0 /\ \A i \in DOMAIN t : t[i].dir # b
         \/ /\ Primera(t, b) \in DOMAIN t /\ t[Primera(t, b)].dir = b /\ Primera(t, b) # 0
            /\ \A i \in DOMAIN t : t[i].dir = b => Primera(t, b) <= i
  BY <1>1, PrimeraEs
<1>3. CASE Esta(l, b)
  <2>1. Primera(t, b) = Primera(l, b) /\ Primera(l, b) \in DOMAIN l
    BY <1>1, <1>2, <1>3 DEF Esta
  <2> QED
    BY <1>1, <1>3, <2>1 DEF Esta, Apunta, t
<1>4. CASE ~Esta(l, b)
  <2>1. e.dir = b => Primera(t, b) = n /\ n # 0
    BY <1>1, <1>2, <1>4 DEF Esta
  <2>2. e.dir # b => Primera(t, b) = 0
    BY <1>1, <1>2, <1>4 DEF Esta
  <2> QED
    BY <1>1, <1>4, <2>1, <2>2 DEF Esta, Apunta, t
<1> QED
  BY <1>3, <1>4

LEMMA PrimeraMueve ==
    ASSUME NEW l \in Seq(Archivo), NEW a, Esta(l, a), NEW n \in Posiciones, NEW b,
           NEW t, t = [l EXCEPT ![Primera(l, a)].punt = n]
    PROVE  /\ Esta(t, b) <=> Esta(l, b)
           /\ Apunta(t, a) = n
           /\ b # a /\ Esta(l, b) => Apunta(t, b) = Apunta(l, b)
<1> DEFINE k == Primera(l, a)
           e == [l[k] EXCEPT !.punt = n]
<1>1. k \in DOMAIN l /\ l[k].dir = a /\ k # 0
  BY PrimeraEs DEF Esta
<1> HIDE DEF k
<1>2. l[k] \in Archivo
  BY <1>1
<1>3. e \in Archivo /\ e.dir = a /\ e.punt = n
  BY <1>1, <1>2 DEF Archivo
<1>4. t = [l EXCEPT ![k] = e]
  BY DEF k
<1> HIDE DEF e
<1>5. /\ t \in Seq(Archivo) /\ DOMAIN t = DOMAIN l /\ t[k] = e
      /\ \A i \in DOMAIN l : i # k => t[i] = l[i]
      /\ DOMAIN l \subseteq Nat
  <2>1. [l EXCEPT ![k] = e] \in Seq(Archivo)
    BY <1>1, <1>3
  <2>2. DOMAIN l \subseteq Nat
    OBVIOUS
  <2> QED
    BY <1>1, <1>4, <2>1, <2>2
<1>6. ASSUME NEW c PROVE Primera(t, c) = Primera(l, c)
  <2>1. /\ \/ Primera(l, c) = 0 /\ \A i \in DOMAIN l : l[i].dir # c
           \/ /\ Primera(l, c) \in DOMAIN l /\ l[Primera(l, c)].dir = c /\ Primera(l, c) # 0
              /\ \A i \in DOMAIN l : l[i].dir = c => Primera(l, c) <= i
        /\ \/ Primera(t, c) = 0 /\ \A i \in DOMAIN t : t[i].dir # c
           \/ /\ Primera(t, c) \in DOMAIN t /\ t[Primera(t, c)].dir = c /\ Primera(t, c) # 0
              /\ \A i \in DOMAIN t : t[i].dir = c => Primera(t, c) <= i
    BY <1>5, PrimeraEs
  <2>2. \A i \in DOMAIN l : t[i].dir = l[i].dir
    BY <1>1, <1>3, <1>5
  <2> DEFINE x == Primera(t, c)
             y == Primera(l, c)
             I == DOMAIN l
  <2>3. /\ \/ y = 0 /\ \A i \in I : l[i].dir # c
           \/ y \in I /\ l[y].dir = c /\ \A i \in I : l[i].dir = c => y <= i
        /\ \/ x = 0 /\ \A i \in I : l[i].dir # c
           \/ x \in I /\ l[x].dir = c /\ \A i \in I : l[i].dir = c => x <= i
    BY <1>5, <2>1, <2>2
  <2>4. I \subseteq Nat
    BY <1>5
  <2> HIDE DEF x, y, I
  <2>5. x = y
    BY <2>3, <2>4
  <2> QED
    BY <2>5 DEF x, y
<1>7. Apunta(t, a) = n
  BY <1>3, <1>5, <1>6 DEF Apunta, k
<1>8. ASSUME b # a, Esta(l, b) PROVE Apunta(t, b) = Apunta(l, b)
  <2>1. Primera(l, b) \in DOMAIN l /\ l[Primera(l, b)].dir = b
    BY <1>8, PrimeraEs DEF Esta
  <2>2. Primera(l, b) # k
    BY <1>1, <1>8, <2>1
  <2> QED
    BY <1>5, <1>6, <2>1, <2>2 DEF Apunta
<1>9. Esta(t, b) <=> Esta(l, b)
  BY <1>6 DEF Esta
<1> QED
  BY <1>7, <1>8, <1>9

LEMMA DejaAvanza ==
    ASSUME NEW g, NEW c \in Nat, NEW a, ~Posiciona(g[c + 1], a)
    PROVE  /\ \A n : Deja(g, c, a, n) => Deja(g, c + 1, a, n)
           /\ SinPosicion(g, c, a) => SinPosicion(g, c + 1, a)
           /\ Abrio(g, c + 1, a) <=> Abrio(g, c, a) \/ Abre(g[c + 1], a)
<1>1. \A i : i \in 1..(c + 1) <=> i \in 1..c \/ i = c + 1
  OBVIOUS
<1>2. SinPosicion(g, c, a) => SinPosicion(g, c + 1, a)
  BY <1>1 DEF SinPosicion
<1>3. Abrio(g, c + 1, a) <=> Abrio(g, c, a) \/ Abre(g[c + 1], a)
  BY <1>1 DEF Abrio
<1>4. ASSUME NEW n, NEW s \in 1..c, \A k \in (s + 1)..c : ~Posiciona(g[k], a)
      PROVE  s \in 1..(c + 1) /\ \A k \in (s + 1)..(c + 1) : ~Posiciona(g[k], a)
  <2>1. \A k \in (s + 1)..(c + 1) : k \in (s + 1)..c \/ k = c + 1
    OBVIOUS
  <2> QED
    BY <1>4, <2>1
<1>5. ASSUME NEW n, Deja(g, c, a, n) PROVE Deja(g, c + 1, a, n)
  BY <1>2, <1>4, <1>5, Zenon DEF Deja
<1> QED
  BY <1>2, <1>3, <1>5

LEMMA DejaPosiciona ==
    ASSUME NEW g, NEW c \in Nat, NEW a, Posiciona(g[c + 1], a)
    PROVE  /\ Abrio(g, c, a) => Deja(g, c + 1, a, g[c + 1].pos)
           /\ ~Abrio(g, c, a) => SinPosicion(g, c + 1, a)
           /\ Abrio(g, c + 1, a) <=> Abrio(g, c, a)
<1>1. \A i : i \in 1..(c + 1) <=> i \in 1..c \/ i = c + 1
  OBVIOUS
<1>2. \A s \in 1..(c + 1) : \A o \in 1..(s - 1) : o \in 1..c
  OBVIOUS
<1>3. /\ c + 1 \in 1..(c + 1) /\ (c + 1) - 1 = c /\ \A k \in ((c + 1) + 1)..(c + 1) : FALSE
  OBVIOUS
<1>4. ~Abre(g[c + 1], a)
  BY DEF Abre, Posiciona
<1>5. Abrio(g, c, a) => Deja(g, c + 1, a, g[c + 1].pos)
  BY <1>3, Zenon DEF Abrio, Deja
<1>6. ~Abrio(g, c, a) => SinPosicion(g, c + 1, a)
  BY <1>2 DEF Abrio, SinPosicion
<1>7. Abrio(g, c + 1, a) <=> Abrio(g, c, a)
  BY <1>1, <1>4 DEF Abrio
<1> QED
  BY <1>5, <1>6, <1>7

\* What each instruction does to a list that is right.
LEMMA FielAvanza ==
    ASSUME NEW g, NEW c \in Nat, NEW l, NEW a, Fiel(g, c, l, {}, a),
           ~Posiciona(g[c + 1], a), ~Abre(g[c + 1], a)
    PROVE  Fiel(g, c + 1, l, {}, a)
  BY DejaAvanza DEF Fiel

LEMMA FielPide ==
    ASSUME NEW g, NEW c \in Nat, NEW l, NEW a, NEW b, Fiel(g, c, l, {}, b), Abre(g[c + 1], a)
    PROVE  Fiel(g, c + 1, l, {a}, b)
<1>1. ~Posiciona(g[c + 1], b) /\ (Abre(g[c + 1], b) <=> b = a)
  BY DEF Abre, Posiciona
<1> QED
  BY <1>1, DejaAvanza DEF Fiel

LEMMA FielLista ==
    ASSUME NEW g, NEW c, NEW l \in Seq(Archivo), NEW a \in Nombres, NEW b, Fiel(g, c, l, {a}, b)
    PROVE  Fiel(g, c, Append(l, [dir |-> a, punt |-> 0]), {}, b)
<1> DEFINE e == [dir |-> a, punt |-> 0]
           t == Append(l, e)
<1>1. e \in Archivo /\ e.dir = a /\ e.punt = 0
  BY SupuestosArchivos DEF Archivo
<1> SUFFICES Fiel(g, c, t, {}, b)
  OBVIOUS
<1> HIDE DEF e
<1>2. /\ Esta(t, b) <=> Esta(l, b) \/ b = a
      /\ Esta(l, b) => Apunta(t, b) = Apunta(l, b)
      /\ ~Esta(l, b) /\ b = a => Apunta(t, b) = 0
  BY <1>1, PrimeraAgrega
<1> HIDE DEF t
<1>3. CASE Esta(l, b)
  BY <1>2, <1>3 DEF Fiel
<1>4. CASE ~Esta(l, b) /\ b = a
  <2>1. Abrio(g, c, b) /\ SinPosicion(g, c, b)
    BY <1>4 DEF Fiel
  <2>2. Deja(g, c, b, 0)
    BY <2>1 DEF Deja
  <2> QED
    BY <1>2, <1>4, <2>1, <2>2 DEF Fiel
<1>5. CASE ~Esta(l, b) /\ b # a
  BY <1>2, <1>5 DEF Fiel
<1> QED
  BY <1>3, <1>4, <1>5

LEMMA FielMueve ==
    ASSUME NEW g, NEW c \in Nat, NEW l \in Seq(Archivo), NEW a, NEW b, Fiel(g, c, l, {}, a),
           Fiel(g, c, l, {}, b), Posiciona(g[c + 1], a), g[c + 1].pos \in Posiciones
    PROVE  Fiel(g, c + 1, IF Primera(l, a) = 0 THEN l
                          ELSE [l EXCEPT ![Primera(l, a)].punt = g[c + 1].pos], {}, b)
<1> DEFINE n == g[c + 1].pos
           t == [l EXCEPT ![Primera(l, a)].punt = n]
<1>1. ~Abre(g[c + 1], b) /\ (Posiciona(g[c + 1], b) <=> b = a)
  BY DEF Abre, Posiciona
<1>2. CASE ~Esta(l, a)
  <2>1. CASE b = a
    <3>1. ~Abrio(g, c, a)
      BY <1>2 DEF Fiel
    <3>2. SinPosicion(g, c + 1, a) /\ ~Abrio(g, c + 1, a)
      BY <3>1, DejaPosiciona
    <3> QED
      BY <1>2, <2>1, <3>2 DEF Fiel, Esta
  <2>2. CASE b # a
    BY <1>1, <1>2, <2>2, FielAvanza DEF Esta
  <2> QED
    BY <2>1, <2>2
<1>3. CASE Esta(l, a)
  <2>1. /\ Esta(t, b) <=> Esta(l, b)
        /\ Apunta(t, a) = n
        /\ b # a /\ Esta(l, b) => Apunta(t, b) = Apunta(l, b)
    BY <1>3, PrimeraMueve
  <2> HIDE DEF t
  <2>2. CASE b = a
    <3>1. Abrio(g, c, a)
      BY <1>3 DEF Fiel
    <3>2. Abrio(g, c + 1, a) /\ Deja(g, c + 1, a, n)
      BY <3>1, DejaPosiciona
    <3>3. Fiel(g, c + 1, t, {}, b)
      BY <1>3, <2>1, <2>2, <3>2 DEF Fiel
    <3> QED
      BY <1>3, <3>3 DEF Esta, t
  <2>3. CASE b # a
    <3>1. Fiel(g, c + 1, l, {}, b)
      BY <1>1, <2>3, FielAvanza
    <3>2. Fiel(g, c + 1, t, {}, b)
      BY <2>1, <2>3, <3>1 DEF Fiel
    <3> QED
      BY <1>3, <3>2 DEF Esta, t
  <2> QED
    BY <2>2, <2>3
<1> QED
  BY <1>2, <1>3

\* The last of the openings and seeks.
Ultimas(g, c, a) == {i \in 1..c : Abre(g[i], a) \/ Posiciona(g[i], a)}

LEMMA PedidaEs ==
    ASSUME NEW g, NEW c \in Nat, NEW a, Abrio(g, c, a)
    PROVE  \E i \in 1..c :
              /\ Abre(g[i], a) \/ Posiciona(g[i], a)
              /\ \A k \in 1..c : Abre(g[k], a) \/ Posiciona(g[k], a) => k <= i
              /\ Pedida(g, c, a) = IF Posiciona(g[i], a) THEN g[i].pos ELSE 0
<1> DEFINE U == Ultimas(g, c, a)
           V == {i \in 1..c : g[i].arch = a /\ g[i].op \in {"F_OPEN", "F_SEEK"}}
<1>1. U = V
  BY DEF Ultimas, Abre, Posiciona
<1>2. U # {} /\ U \in SUBSET (0..c)
  BY DEF Abrio, Ultimas
<1>3. Max(U) \in U /\ \A i \in U : i <= Max(U)
  <2> HIDE DEF U
  <2>1. Max(U) \in U /\ \A i \in U : Max(U) >= i
    BY <1>2, MayorExiste
  <2> QED
    BY <1>2, <2>1
<1>4. Pedida(g, c, a) = IF g[Max(U)].op = "F_SEEK" THEN g[Max(U)].pos ELSE 0
  BY <1>1, <1>2 DEF Pedida, SelectLastInSubSeq
<1> QED
  BY <1>3, <1>4 DEF Ultimas, Abre, Posiciona

\* What a program reads or writes is where it asked for.
LEMMA DejaPedida ==
    ASSUME PosicionaAlReabrir, NEW g \in Programas, NEW c \in Nat, c + 1 \in DOMAIN g,
           Usa(g[c + 1]), NEW n, Deja(g, c, g[c + 1].arch, n)
    PROVE  n = Pedida(g, c + 1, g[c + 1].arch)
<1> DEFINE a == g[c + 1].arch
<1>1. /\ \E o \in 1..c : Abre(g[o], a)
      /\ \A o \in 1..c : \A s \in 1..(o - 1) :
            Abre(g[o], a) /\ Posiciona(g[s], a) => \E k \in (o + 1)..c : Posiciona(g[k], a)
  <2>1. (c + 1) - 1 = c
    OBVIOUS
  <2> QED
    BY <2>1 DEF PosicionaAlReabrir
<1>2. ~Abre(g[c + 1], a) /\ ~Posiciona(g[c + 1], a)
  BY DEF Usa, Abre, Posiciona
<1>3. PICK o \in 1..c : Abre(g[o], a)
  BY <1>1
<1>4. Abrio(g, c + 1, a) /\ c + 1 \in Nat /\ \A k \in 1..c : k \in 1..(c + 1)
  BY <1>3 DEF Abrio
<1> HIDE DEF a
<1>5. PICK i \in 1..(c + 1) :
              /\ Abre(g[i], a) \/ Posiciona(g[i], a)
              /\ \A k \in 1..(c + 1) : Abre(g[k], a) \/ Posiciona(g[k], a) => k <= i
              /\ Pedida(g, c + 1, a) = IF Posiciona(g[i], a) THEN g[i].pos ELSE 0
  BY <1>4, PedidaEs
<1>6. i \in 1..c /\ \A k \in 1..c : Abre(g[k], a) \/ Posiciona(g[k], a) => k <= i
  BY <1>2, <1>4, <1>5
<1>7. CASE Posiciona(g[i], a)
  <2>1. ~Abre(g[i], a)
    BY <1>7 DEF Abre, Posiciona
  <2>2. o \in 1..(i - 1)
    BY <1>3, <1>6, <2>1
  <2>3. ~SinPosicion(g, c, a)
    BY <1>3, <1>6, <1>7, <2>2 DEF SinPosicion
  <2>4. PICK s \in 1..c : /\ Posiciona(g[s], a) /\ g[s].pos = n
                          /\ \A k \in (s + 1)..c : ~Posiciona(g[k], a)
    BY <2>3 DEF Deja, a
  <2>5. s = i
    <3>1. s <= i /\ i \notin (s + 1)..c
      BY <1>6, <1>7, <2>4
    <3> QED
      BY <1>6, <3>1
  <2> QED
    BY <1>5, <1>7, <2>4, <2>5 DEF a
<1>8. CASE ~Posiciona(g[i], a)
  <2>1. Abre(g[i], a)
    BY <1>5, <1>8
  <2>2. \A s \in 1..c : ~Posiciona(g[s], a)
    <3> SUFFICES ASSUME NEW s \in 1..c, Posiciona(g[s], a) PROVE FALSE
      OBVIOUS
    <3>1. s <= i /\ s # i
      BY <1>6, <1>8
    <3>2. s \in 1..(i - 1)
      BY <1>6, <3>1
    <3>3. PICK k \in (i + 1)..c : Posiciona(g[k], a)
      BY <1>1, <1>6, <2>1, <3>2 DEF a
    <3>4. k \in 1..c /\ ~(k <= i)
      BY <1>6
    <3> QED
      BY <1>6, <3>3, <3>4
  <2>3. n = 0
    BY <2>2 DEF Deja, a
  <2> QED
    BY <1>5, <1>8, <2>3 DEF a
<1> QED
  BY <1>7, <1>8

-----------------------------------------------------------------------------
(* The instructions move the lists of the processes as Fiel says, whatever   *)
(* the programs do.                                                          *)

LEMMA PedidasDe ==
    ASSUME NEW p
    PROVE  /\ EnVuelo(Aperturas) = {} => Pedidas(p) = {}
           /\ EnVuelo(Aperturas)' = {} => Pedidas(p)' = {}
           /\ EnVuelo(Aperturas)' = EnVuelo(Aperturas) => Pedidas(p)' = Pedidas(p)
           /\ \A m, r : EnVuelo(Aperturas) = {m} /\ EnVuelo(Aperturas)' = {r}
                            /\ r.pid = m.pid /\ r.arch = m.arch => Pedidas(p)' = Pedidas(p)
  BY DEF Pedidas, Pide

LEMMA PedidasUna ==
    ASSUME NEW m, m.arch \in Nombres, NEW p
    PROVE  /\ EnVuelo(Aperturas) = {m} => Pedidas(p) = IF p = m.pid THEN {m.arch} ELSE {}
           /\ EnVuelo(Aperturas)' = {m} => Pedidas(p)' = IF p = m.pid THEN {m.arch} ELSE {}
  BY DEF Pedidas, Pide

\* The list of the process that executes, and the instruction.
LEMMA PunterosDe ==
    ASSUME Base, Punteros, NEW op, Ejecuta(op)
    PROVE  \E p \in Procesos, a \in Nombres :
              /\ p = cpu.pcb /\ a = Actual.arch /\ pc[p] \in Nat /\ programa[p] \in Programas
              /\ pc[p] + 1 \in DOMAIN programa[p]
              /\ programa[p][pc[p] + 1] = Actual /\ Actual.op = op /\ Actual.pos \in Posiciones
              /\ abiertos[p] \in Seq(Archivo)
              /\ \A b \in Nombres : Fiel(programa[p], pc[p], abiertos[p], {}, b)
<1>1. Tipo /\ cpu.estado = "ejecuta" /\ pc[cpu.pcb] < Len(programa[cpu.pcb])
  BY DEF Base, Ejecuta
<1>2. PICK p \in Procesos, a \in Nombres : p = cpu.pcb /\ a = Actual.arch
  BY EjecutaDe
<1>3. /\ pc[p] \in Nat /\ programa[p] \in Programas /\ programa[p] \in Seq(Instruccion)
      /\ pc[p] < Len(programa[p])
  BY <1>1, <1>2, ActualDe
<1>4. pc[p] + 1 \in DOMAIN programa[p]
  <2> DEFINE g == programa[p]
  <2>1. DOMAIN g = 1..Len(g) /\ Len(g) \in Nat
    BY <1>3
  <2> HIDE DEF g
  <2>2. pc[p] < Len(g)
    BY <1>3 DEF g
  <2> QED
    BY <1>3, <2>1, <2>2 DEF g
<1>5. programa[p][pc[p] + 1] = Actual /\ Actual.op = op /\ Actual.pos \in Posiciones
  BY <1>2, EjecutaDe DEF Actual
<1>6. abiertos[p] \in Seq(Archivo)
  BY <1>1 DEF Tipo, TipoOK, Archivo
<1>7. Pedidas(p) = {}
  BY EjecutaDe, PedidasDe
<1>8. \A b \in Nombres : Fiel(programa[p], pc[p], abiertos[p], {}, b)
  BY <1>7 DEF Punteros
<1> QED
  BY <1>2, <1>3, <1>4, <1>5, <1>6, <1>8

LEMMA PunterosEjecuta ==
    ASSUME Base, Punteros, NEW op, Ejecuta(op), NEW p \in Procesos, p = cpu.pcb,
           \A q \in Procesos : q # p => abiertos'[q] = abiertos[q] /\ Pedidas(q)' = {},
           \A b \in Nombres : Fiel(programa[p], pc[p] + 1, abiertos'[p], Pedidas(p)', b)
    PROVE  Punteros'
<1>1. pc' = [pc EXCEPT ![p] = @ + 1] /\ programa' = programa /\ pc \in [Procesos -> Nat]
  BY DEF Ejecuta, Base, Tipo, TipoOK
<1>2. pc'[p] = pc[p] + 1 /\ \A q \in Procesos : q # p => pc'[q] = pc[q]
  BY <1>1
<1>3. ASSUME NEW q \in Procesos, NEW b \in Nombres
      PROVE  Fiel(programa[q], pc'[q], abiertos'[q], Pedidas(q)', b)
  <2>1. CASE q = p
    BY <1>2, <2>1
  <2>2. CASE q # p
    <3>1. Fiel(programa[q], pc[q], abiertos[q], Pedidas(q), b) /\ Pedidas(q) = {}
      BY EjecutaDe, PedidasDe DEF Punteros
    <3> QED
      BY <1>2, <2>2, <3>1
  <2> QED
    BY <2>1, <2>2
<1> QED
  BY <1>1, <1>3 DEF Punteros

LEMMA PunterosCpu ==
    ASSUME Base, Punteros, HiloCpu
    PROVE  Punteros'
<1>1. CASE Operar \/ Truncar \/ Cerrar \/ Desalojar \/ Terminar
  <2>1. PICK op \in {"F_READ", "F_WRITE", "F_TRUNCATE", "F_CLOSE", "YIELD", "EXIT"} : Ejecuta(op)
    BY <1>1 DEF Operar, Truncar, Cerrar, Desalojar, Terminar
  <2>2. PICK p \in Procesos, a \in Nombres :
              /\ p = cpu.pcb /\ a = Actual.arch /\ pc[p] \in Nat /\ programa[p] \in Programas
              /\ programa[p][pc[p] + 1] = Actual /\ Actual.op = op
              /\ \A b \in Nombres : Fiel(programa[p], pc[p], abiertos[p], {}, b)
    BY <2>1, PunterosDe
  <2>3. UNCHANGED abiertos
    BY <1>1 DEF Operar, Truncar, Cerrar, Desalojar, Terminar, Bloquear
  <2>4. EnVuelo(Aperturas) = {} /\ EnVuelo(Aperturas)' = {}
    BY <1>1, <2>1, EjecutaDe, EfectoAcceder, EfectoCerrar, EfectoSoltar
  <2>5. \A q : Pedidas(q)' = {}
    BY <2>4, PedidasDe
  <2>6. \A b \in Nombres : ~Posiciona(programa[p][pc[p] + 1], b) /\ ~Abre(programa[p][pc[p] + 1], b)
    BY <2>2 DEF Posiciona, Abre
  <2>7. \A b \in Nombres : Fiel(programa[p], pc[p] + 1, abiertos[p], {}, b)
    BY <2>2, <2>6, FielAvanza
  <2> QED
    BY <2>1, <2>2, <2>3, <2>5, <2>7, PunterosEjecuta
<1>2. CASE Mover
  <2>1. Ejecuta("F_SEEK")
    BY <1>2 DEF Mover
  <2>2. PICK p \in Procesos, a \in Nombres :
              /\ p = cpu.pcb /\ a = Actual.arch /\ pc[p] \in Nat /\ programa[p] \in Programas
              /\ programa[p][pc[p] + 1] = Actual /\ Actual.op = "F_SEEK" /\ Actual.pos \in Posiciones
              /\ abiertos[p] \in Seq(Archivo)
              /\ \A b \in Nombres : Fiel(programa[p], pc[p], abiertos[p], {}, b)
    BY <2>1, PunterosDe
  <2> DEFINE l == abiertos[p]
             t == IF Primera(l, a) = 0 THEN l ELSE [l EXCEPT ![Primera(l, a)].punt = Actual.pos]
  <2>3. abiertos' = IF Primera(l, a) = 0 THEN abiertos
                    ELSE [abiertos EXCEPT ![p][Primera(l, a)].punt = Actual.pos]
    <3>1. PICK i \in {Propia(cpu.pcb, Actual.arch)} : i = Propia(p, a)
      BY <2>2
    <3>2. abiertos' = IF i = 0 THEN abiertos ELSE [abiertos EXCEPT ![p][i].punt = Actual.pos]
      BY <1>2, <2>2, <3>1 DEF Mover
    <3>3. i = Primera(l, a)
      BY <3>1 DEF Propia, Primera
    <3> QED
      BY <3>2, <3>3
  <2>4. abiertos'[p] = t /\ \A q \in Procesos : q # p => abiertos'[q] = abiertos[q]
    <3>1. abiertos \in [Procesos -> Seq(Archivo)]
      BY DEF Base, Tipo, TipoOK, Archivo
    <3> QED
      BY <2>3, <3>1
  <2>5. \A q : Pedidas(q)' = {}
    BY <1>2, <2>1, EjecutaDe, EfectoMover, PedidasDe
  <2>6. Posiciona(programa[p][pc[p] + 1], a)
    BY <2>2 DEF Posiciona
  <2>7. \A b \in Nombres : Fiel(programa[p], pc[p] + 1, t, {}, b)
    BY <2>2, <2>6, FielMueve
  <2> HIDE DEF t
  <2>8. \A b \in Nombres : Fiel(programa[p], pc[p] + 1, abiertos'[p], {}, b)
    BY <2>4, <2>7
  <2> QED
    BY <2>1, <2>2, <2>4, <2>5, <2>8, PunterosEjecuta
<1>3. ASSUME AbrirOcupado \/ AbrirLibre
      PROVE  \E p \in Procesos, a \in Nombres :
              /\ p = cpu.pcb /\ a = Actual.arch /\ Ejecuta("F_OPEN")
              /\ abiertos[p] \in Seq(Archivo)
              /\ \A b \in Nombres : Fiel(programa[p], pc[p] + 1, abiertos[p], {a}, b)
  <2>1. Ejecuta("F_OPEN")
    BY <1>3 DEF AbrirOcupado, AbrirLibre
  <2>2. PICK p \in Procesos, a \in Nombres :
              /\ p = cpu.pcb /\ a = Actual.arch /\ pc[p] \in Nat
              /\ programa[p][pc[p] + 1] = Actual /\ Actual.op = "F_OPEN"
              /\ abiertos[p] \in Seq(Archivo)
              /\ \A b \in Nombres : Fiel(programa[p], pc[p], abiertos[p], {}, b)
    BY <2>1, PunterosDe
  <2>3. Abre(programa[p][pc[p] + 1], a)
    BY <2>2 DEF Abre
  <2>4. \A b \in Nombres : Fiel(programa[p], pc[p] + 1, abiertos[p], {a}, b)
    BY <2>2, <2>3, FielPide
  <2> QED
    BY <2>1, <2>2, <2>4
<1>4. CASE AbrirOcupado
  <2>1. PICK p \in Procesos, a \in Nombres :
              /\ p = cpu.pcb /\ a = Actual.arch /\ Ejecuta("F_OPEN")
              /\ abiertos[p] \in Seq(Archivo)
              /\ \A b \in Nombres : Fiel(programa[p], pc[p] + 1, abiertos[p], {a}, b)
    BY <1>3, <1>4
  <2> DEFINE t == Append(abiertos[p], [dir |-> a, punt |-> 0])
  <2>2. abiertos' = [abiertos EXCEPT ![p] = t]
    BY <1>4, <2>1 DEF AbrirOcupado, Anotar
  <2>3. \A b \in Nombres : Fiel(programa[p], pc[p] + 1, t, {}, b)
    BY <2>1, FielLista
  <2> HIDE DEF t
  <2>4. abiertos'[p] = t /\ \A q \in Procesos : q # p => abiertos'[q] = abiertos[q]
    BY <2>2 DEF Base, Tipo, TipoOK
  <2>5. \A q : Pedidas(q)' = {}
    BY <1>4, <2>1, EjecutaDe, EfectoAbrirOcupado, PedidasDe
  <2> QED
    BY <2>1, <2>3, <2>4, <2>5, PunterosEjecuta
<1>5. CASE AbrirLibre
  <2>1. PICK p \in Procesos, a \in Nombres :
              /\ p = cpu.pcb /\ a = Actual.arch /\ Ejecuta("F_OPEN")
              /\ \A b \in Nombres : Fiel(programa[p], pc[p] + 1, abiertos[p], {a}, b)
    BY <1>3, <1>5
  <2>2. PICK m \in HaciaFs : EnVuelo(Aperturas)' = {m} /\ m.pid = p /\ m.arch = a
    BY <1>5, <2>1, EfectoAbrirLibre
  <2>3. Pedidas(p)' = {a} /\ \A q : q # p => Pedidas(q)' = {}
    BY <2>2, PedidasUna
  <2>4. UNCHANGED abiertos
    BY <1>5 DEF AbrirLibre
  <2> QED
    BY <2>1, <2>3, <2>4, PunterosEjecuta
<1> QED
  BY <1>1, <1>2, <1>4, <1>5 DEF HiloCpu

LEMMA PunterosListo ==
    ASSUME Base, Punteros, ArchivoListo
    PROVE  Punteros'
<1>1. PICK a \in Nombres, p \in Procesos, m \in DesdeFs :
            /\ EnVuelo(Aperturas) = {m} /\ m.pid = p /\ m.arch = a
            /\ UNCHANGED <<programa, pc>> /\ EnVuelo(Aperturas)' = {}
  BY EfectoArchivoListo
<1>2. Head(de_fs) = m
  <2>1. de_fs # <<>> /\ Head(de_fs).op \in Aperturas
    BY DEF ArchivoListo, Llega, Aperturas
  <2>2. 1 \in Lugares(de_fs, Aperturas) /\ Head(de_fs) = de_fs[1]
    BY <2>1 DEF Base, Tipo, Lugares
  <2>3. Head(de_fs) \in EnVuelo(Aperturas)
    BY <2>2 DEF EnVuelo, Clase
  <2> QED
    BY <1>1, <2>3
<1> DEFINE t == Append(abiertos[p], [dir |-> a, punt |-> 0])
<1>3. abiertos' = [abiertos EXCEPT ![p] = t]
  BY <1>1, <1>2 DEF ArchivoListo, Anotar
<1>4. abiertos \in [Procesos -> Seq(Archivo)]
  BY DEF Base, Tipo, TipoOK, Archivo
<1>5. Pedidas(p) = {a} /\ \A q : (q # p => Pedidas(q) = {}) /\ Pedidas(q)' = {}
  BY <1>1, PedidasUna, PedidasDe
<1>6. \A b \in Nombres : Fiel(programa[p], pc[p], t, {}, b)
  BY <1>4, <1>5, FielLista DEF Punteros
<1> HIDE DEF t
<1>7. abiertos'[p] = t /\ \A q \in Procesos : q # p => abiertos'[q] = abiertos[q]
  BY <1>3, <1>4
<1>8. ASSUME NEW q \in Procesos, NEW b \in Nombres
      PROVE  Fiel(programa[q], pc[q], abiertos'[q], Pedidas(q)', b)
  <2>1. CASE q = p
    BY <1>5, <1>6, <1>7, <2>1
  <2>2. CASE q # p
    <3>1. Fiel(programa[q], pc[q], abiertos[q], Pedidas(q), b)
      BY DEF Punteros
    <3> QED
      BY <1>5, <1>7, <2>2, <3>1
  <2> QED
    BY <2>1, <2>2
<1> QED
  BY <1>1, <1>8 DEF Punteros

LEMMA PunterosPaso ==
    ASSUME Base, Punteros, [Next]_vars
    PROVE  Punteros'
<1>1. ASSUME UNCHANGED <<programa, pc, abiertos>>, \A q : Pedidas(q)' = Pedidas(q)
      PROVE  Punteros'
  BY <1>1 DEF Punteros
<1>2. CASE UNCHANGED vars
  <2>1. \A q : Pedidas(q)' = Pedidas(q)
    BY <1>2, FsQuieto, PedidasDe DEF vars
  <2> QED
    BY <1>1, <1>2, <2>1 DEF vars
<1>3. CASE \E p \in Procesos : Despachar(p)
  <2>1. \A q : Pedidas(q)' = Pedidas(q)
    BY <1>3, EfectoDespachar, PedidasDe
  <2> QED
    BY <1>1, <1>3, <2>1 DEF Despachar
<1>4. CASE PedirCreacion \/ Desbloqueado
  <2>1. EnVuelo(Aperturas)' = EnVuelo(Aperturas)
    BY <1>4, EfectoReenvio, EfectoDesbloqueado
  <2>2. \A q : Pedidas(q)' = Pedidas(q)
    BY <2>1, PedidasDe
  <2> QED
    BY <1>1, <1>4, <2>2 DEF PedirCreacion, Desbloqueado, Llega
<1>5. CASE FileSystem
  <2>1. \/ EnVuelo(Aperturas)' = EnVuelo(Aperturas)
        \/ \E m, r : /\ EnVuelo(Aperturas) = {m} /\ EnVuelo(Aperturas)' = {r}
                     /\ r.pid = m.pid /\ r.arch = m.arch
    BY <1>5, EfectoFileSystem
  <2>2. \A q : Pedidas(q)' = Pedidas(q)
    BY <2>1, PedidasDe
  <2> QED
    BY <1>1, <1>5, <2>2 DEF FileSystem, FsAbrir, FsCrear, FsOpera, Atiende
<1>6. ASSUME NEW a \in Nombres, HiloArchivo(a) PROVE Punteros'
  <2>1. \A q : Pedidas(q)' = Pedidas(q)
    BY <1>6, EfectoDespertar, PedidasDe
  <2> QED
    BY <1>1, <1>6, <2>1 DEF HiloArchivo, Despertar
<1> QED
  BY <1>2, <1>3, <1>4, <1>5, <1>6, PunterosCpu, PunterosListo DEF Next, HiloFs

-----------------------------------------------------------------------------
(* The accesses on their way. *)

LEMMA PunterosInicial == ASSUME Init PROVE Punteros
<1> SUFFICES ASSUME NEW p \in Procesos, NEW a \in Nombres
             PROVE  Fiel(programa[p], pc[p], abiertos[p], Pedidas(p), a)
  BY DEF Punteros
<1>1. pc[p] = 0 /\ abiertos[p] = <<>>
  BY DEF Init
<1>2. Pedidas(p) = {}
  BY PedidasDe DEF Init, EnVuelo, Clase, Lugares
<1>3. ~Esta(<<>>, a)
  <2>1. <<>> \in Seq(Archivo) /\ DOMAIN <<>> = {}
    OBVIOUS
  <2> QED
    BY <2>1, PrimeraEs DEF Esta
<1>4. ~Abrio(programa[p], 0, a) /\ SinPosicion(programa[p], 0, a)
  BY DEF Abrio, SinPosicion
<1> QED
  BY <1>1, <1>2, <1>3, <1>4 DEF Fiel

\* m is a read or a write.
Accede(m) == m.op \in {"LEER_ARCHIVO", "ESCRIBIR_ARCHIVO"}

\* PosicionVigente, with the position as a function of the program.
Vigente ==
    \A i \in DOMAIN a_fs : Accede(a_fs[i]) =>
        a_fs[i].pos = Pedida(programa[a_fs[i].pid], pc[a_fs[i].pid], a_fs[i].arch)

LEMMA VigenteEs == PosicionVigente <=> Vigente
<1>1. ASSUME NEW p, NEW a
      PROVE  PosicionPedida(p, a) = Pedida(programa[p], pc[p], a)
  BY DEF PosicionPedida, Pedida
<1> QED
  BY <1>1 DEF PosicionVigente, Vigente, Accede

\* The messages that stay in the channel, when their processes do not advance.
LEMMA VigenteQueda ==
    ASSUME Vigente, UNCHANGED programa,
           \A i \in DOMAIN a_fs' : Accede(a_fs'[i]) =>
                \/ a_fs'[i].pos = Pedida(programa[a_fs'[i].pid], pc'[a_fs'[i].pid], a_fs'[i].arch)
                \/ \E j \in DOMAIN a_fs : a_fs'[i] = a_fs[j] /\ pc'[a_fs[j].pid] = pc[a_fs[j].pid]
    PROVE  Vigente'
<1> SUFFICES ASSUME NEW i \in DOMAIN a_fs', Accede(a_fs'[i])
             PROVE  a_fs'[i].pos = Pedida(programa[a_fs'[i].pid], pc'[a_fs'[i].pid], a_fs'[i].arch)
  BY DEF Vigente
<1>1. ASSUME NEW j \in DOMAIN a_fs, a_fs'[i] = a_fs[j], pc'[a_fs[j].pid] = pc[a_fs[j].pid]
      PROVE  a_fs'[i].pos = Pedida(programa[a_fs'[i].pid], pc'[a_fs'[i].pid], a_fs'[i].arch)
  <2>1. a_fs[j].pos = Pedida(programa[a_fs[j].pid], pc[a_fs[j].pid], a_fs[j].arch)
    BY <1>1 DEF Vigente
  <2> QED
    BY <1>1, <2>1
<1> QED
  BY <1>1

\* A step of the CPU: the process that advances has no message on its way.
LEMMA VigenteCpu ==
    ASSUME Base, Plaza, Vigente, NEW op, Ejecuta(op), NEW m,
           a_fs' = a_fs \/ a_fs' = Append(a_fs, m),
           Accede(m) => m.pos = Pedida(programa[m.pid], pc'[m.pid], m.arch)
    PROVE  Vigente'
<1>1. /\ cpu.pcb \in EnCpu /\ UNCHANGED programa /\ a_fs \in Seq(HaciaFs)
      /\ pc' = [pc EXCEPT ![cpu.pcb] = @ + 1] /\ pc \in [Procesos -> Nat]
  BY EjecutaDe DEF EnCpu, Ejecuta, Base, Tipo, TipoOK
<1>2. ASSUME NEW j \in DOMAIN a_fs, Accede(a_fs[j])
      PROVE  pc'[a_fs[j].pid] = pc[a_fs[j].pid]
  <2>1. a_fs[j] \in EnVuelo(Accesos)
    BY <1>2 DEF EnVuelo, Clase, Lugares, Accesos, Operaciones, Accede
  <2>2. a_fs[j].pid \in EnFs
    BY <2>1 DEF EnFs
  <2>3. a_fs[j].pid # cpu.pcb
    BY <1>1, <2>2 DEF Plaza
  <2> QED
    BY <1>1, <2>3
<1>3. ASSUME NEW i \in DOMAIN a_fs'
      PROVE  a_fs'[i] = m \/ \E j \in DOMAIN a_fs : a_fs'[i] = a_fs[j]
  BY <1>1
<1> QED
  BY <1>1, <1>2, <1>3, VigenteQueda

\* The pointer that buscar_puntero finds is the position asked for.
LEMMA VigenteOpera ==
    ASSUME Base, Punteros, PosicionaAlReabrir, NEW op \in {"F_READ", "F_WRITE"}, Ejecuta(op),
           NEW n \in BuscarPuntero(cpu.pcb, Actual.arch)
    PROVE  n = Pedida(programa[cpu.pcb], pc'[cpu.pcb], Actual.arch)
<1>1. PICK p \in Procesos, a \in Nombres :
              /\ p = cpu.pcb /\ a = Actual.arch /\ pc[p] \in Nat /\ programa[p] \in Programas
              /\ pc[p] + 1 \in DOMAIN programa[p]
              /\ programa[p][pc[p] + 1] = Actual /\ Actual.op = op
              /\ \A b \in Nombres : Fiel(programa[p], pc[p], abiertos[p], {}, b)
  BY PunterosDe
<1> DEFINE g == programa[p]
           c == pc[p]
<1>2. g \in Programas /\ c \in Nat /\ c + 1 \in DOMAIN g /\ Usa(g[c + 1]) /\ g[c + 1].arch = a
  BY <1>1 DEF Usa
<1>3. Abrio(g, c, a)
  <2>1. (c + 1) - 1 = c
    BY <1>1
  <2> QED
    BY <1>2, <2>1 DEF PosicionaAlReabrir, Abrio
<1>4. Esta(abiertos[p], a) /\ Deja(g, c, a, Apunta(abiertos[p], a))
  BY <1>1, <1>3 DEF Fiel
<1>5. n = Apunta(abiertos[p], a)
  <2>1. Propia(p, a) = Primera(abiertos[p], a)
    BY DEF Propia, Primera
  <2> QED
    BY <1>1, <1>4, <2>1 DEF BuscarPuntero, Esta, Apunta
<1>6. n = Pedida(g, c + 1, a)
  BY <1>2, <1>4, <1>5, DejaPedida
<1>7. pc'[p] = c + 1
  BY <1>1 DEF Ejecuta, Base, Tipo, TipoOK
<1> QED
  BY <1>1, <1>6, <1>7

LEMMA VigentePaso ==
    ASSUME Bloqueo, Punteros, Vigente, PosicionaAlReabrir, [Next]_vars
    PROVE  Vigente'
<1>1. Base /\ Plaza /\ a_fs \in Seq(HaciaFs) /\ de_fs \in Seq(DesdeFs)
  BY DEF Bloqueo, Base, Tipo
<1>2. CASE UNCHANGED <<programa, pc, a_fs>>
  BY <1>2, VigenteQueda
<1>3. CASE AbrirOcupado \/ Cerrar \/ Mover \/ Desalojar \/ Terminar
  <2>1. PICK op \in {"F_OPEN", "F_CLOSE", "F_SEEK", "YIELD", "EXIT"} : Ejecuta(op)
    BY <1>3 DEF AbrirOcupado, Cerrar, Mover, Desalojar, Terminar
  <2>2. PICK m \in {[op |-> "DESBLOQUEADO"]} : ~Accede(m)
    BY DEF Accede
  <2>3. a_fs' = a_fs
    BY <1>3 DEF AbrirOcupado, Cerrar, Mover, Desalojar, Terminar
  <2> QED
    BY <1>1, <2>1, <2>2, <2>3, VigenteCpu
<1>4. CASE AbrirLibre
  <2> DEFINE m == [op |-> "ABRIR_ARCHIVO", pid |-> cpu.pcb, arch |-> Actual.arch]
  <2>1. Ejecuta("F_OPEN") /\ a_fs' = Append(a_fs, m) /\ ~Accede(m)
    BY <1>4 DEF AbrirLibre, Accede
  <2> HIDE DEF m
  <2> QED
    BY <1>1, <2>1, VigenteCpu
<1>5. CASE Truncar
  <2> DEFINE m == [op |-> "MODIFICAR_TAMANIO", pid |-> cpu.pcb, arch |-> Actual.arch, pos |-> 0]
  <2>1. Ejecuta("F_TRUNCATE") /\ a_fs' = Append(a_fs, m) /\ ~Accede(m)
    BY <1>5 DEF Truncar, Bloquear, Accede
  <2> HIDE DEF m
  <2> QED
    BY <1>1, <2>1, VigenteCpu
<1>6. CASE Operar
  <2>1. PICK op \in {"F_READ", "F_WRITE"} : Ejecuta(op)
    BY <1>6 DEF Operar
  <2>2. PICK n \in BuscarPuntero(cpu.pcb, Actual.arch) :
            Bloquear(IF Actual.op = "F_READ" THEN "LEER_ARCHIVO" ELSE "ESCRIBIR_ARCHIVO", n)
    BY <1>6 DEF Operar
  <2> DEFINE m == [op |-> IF Actual.op = "F_READ" THEN "LEER_ARCHIVO" ELSE "ESCRIBIR_ARCHIVO",
                   pid |-> cpu.pcb, arch |-> Actual.arch, pos |-> n]
  <2>3. a_fs' = Append(a_fs, m)
    BY <2>2 DEF Bloquear
  <2>4. n = Pedida(programa[cpu.pcb], pc'[cpu.pcb], Actual.arch)
    BY <1>1, <2>1, VigenteOpera
  <2>5. m.pos = n /\ m.pid = cpu.pcb /\ m.arch = Actual.arch
    OBVIOUS
  <2> HIDE DEF m
  <2>6. m.pos = Pedida(programa[m.pid], pc'[m.pid], m.arch)
    BY <2>4, <2>5
  <2> QED
    BY <1>1, <2>1, <2>3, <2>6, VigenteCpu
<1>7. CASE PedirCreacion
  <2>1. de_fs # <<>> /\ Head(de_fs).op = "CREAR_ARCHIVO" /\ UNCHANGED <<programa, pc>>
    BY <1>7 DEF PedirCreacion, Llega
  <2> DEFINE m == Head(de_fs)
  <2>2. a_fs' = Append(a_fs, m) /\ ~Accede(m)
    BY <1>7, <2>1 DEF PedirCreacion, Accede
  <2> HIDE DEF m
  <2>3. ASSUME NEW i \in DOMAIN a_fs'
        PROVE  a_fs'[i] = m \/ \E j \in DOMAIN a_fs : a_fs'[i] = a_fs[j]
    BY <1>1, <2>2
  <2> QED
    BY <2>1, <2>2, <2>3, VigenteQueda
<1>8. CASE FileSystem
  <2>1. a_fs # <<>> /\ a_fs' = Tail(a_fs) /\ UNCHANGED <<programa, pc>>
    BY <1>8 DEF FileSystem, FsAbrir, FsCrear, FsOpera, Atiende
  <2>2. ASSUME NEW i \in DOMAIN a_fs'
        PROVE  \E j \in DOMAIN a_fs : a_fs'[i] = a_fs[j]
    BY <1>1, <2>1
  <2> QED
    BY <2>1, <2>2, VigenteQueda
<1>9. CASE \/ UNCHANGED vars \/ \E p \in Procesos : Despachar(p)
           \/ ArchivoListo \/ Desbloqueado \/ \E a \in Nombres : HiloArchivo(a)
  <2>1. UNCHANGED <<programa, pc, a_fs>>
    BY <1>9 DEF vars, Despachar, ArchivoListo, Desbloqueado, Llega, HiloArchivo, Despertar
  <2> QED
    BY <1>2, <2>1
<1> QED
  BY <1>3, <1>4, <1>5, <1>6, <1>7, <1>8, <1>9 DEF Next, HiloCpu, HiloFs

\* A read or a write reaches the file system with the position that its
\* process last asked for, with programs that close only what they have open,
\* open a file before they use it, and seek again if they open it again.
THEOREM PosicionVigenteCorrecta ==
    ASSUME CierraLoSuyo, PosicionaAlReabrir
    PROVE  Spec => []PosicionVigente
<1>1. ASSUME Init PROVE Bloqueo /\ Punteros /\ Vigente
  <2>1. DOMAIN a_fs = {}
    BY <1>1 DEF Init
  <2>2. Vigente
    BY <2>1 DEF Vigente
  <2> QED
    BY <1>1, <2>2, BloqueoInicial, PunterosInicial
<1>2. Bloqueo /\ Punteros /\ Vigente /\ [Next]_vars => (Bloqueo /\ Punteros /\ Vigente)'
  BY BloqueoPaso, PunterosPaso, VigentePaso DEF Bloqueo
<1>3. Vigente => PosicionVigente
  BY VigenteEs
<1> QED
  BY <1>1, <1>2, <1>3, PTL DEF Spec
=============================================================================
