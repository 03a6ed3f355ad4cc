---------------------------- MODULE TablasProofs ----------------------------
(***************************************************************************)
(* The copies of the segment tables serve for what they are used for: the  *)
(* address that the cpu finds in the copy of a PCB, or that waits in the   *)
(* PCB of a blocked process, is that of the byte the program means; and a  *)
(* segment keeps its bytes whatever the others ask of the memory           *)
(* (refinement of Segmentos).                                              *)
(*                                                                         *)
(* No copy is equal to the table of the memory: they lack segments created *)
(* later and keep segments deleted since. What is inductive is that a copy *)
(* and the table agree on the ids that both have (Vigente), which needs    *)
(* that no id comes back (Frescos), and that who asks for a creation, a    *)
(* deletion or a compaction is the process in EXEC (Pedidor).              *)
(*                                                                         *)
(* The memory is that of module Memoria, whose proofs are taken as MP.     *)
(***************************************************************************)
EXTENDS TablasSegmentos, ColasProofs

MP == INSTANCE MemoriaProofs WITH Algoritmos <- {"FIRST"}

-----------------------------------------------------------------------------
(* M and MP are instances of the same module. *)

LEMMA IgualCardinal == \A S : M!Cardinality(S) = MP!Cardinality(S)
  BY Zenon DEF M!Cardinality, MP!Cardinality

LEMMA IgualSuma ==
    /\ \A hs : M!SumaHuecos(hs) = MP!SumaHuecos(hs)
    /\ \A f, S : M!SumFunctionOnSet(f, S) = MP!SumFunctionOnSet(f, S)
  BY Zenon DEF M!SumaHuecos, MP!SumaHuecos, M!SumFunction, MP!SumFunction, M!SumFunctionOnSet,
     MP!SumFunctionOnSet, M!FoldFunctionOnSet, MP!FoldFunctionOnSet, M!MapThenFoldSet,
     MP!MapThenFoldSet

LEMMA IgualOrden == \A s : M!Ordenaciones(s) = MP!Ordenaciones(s)
  BY Zenon DEF M!Ordenaciones, MP!Ordenaciones, M!Inserciones, MP!Inserciones, M!InsertAt,
     MP!InsertAt

LEMMA IgualUnion == \A hs : M!CombinarHuecosLibres(hs) = MP!CombinarHuecosLibres(hs)
  BY Zenon DEF M!CombinarHuecosLibres, MP!CombinarHuecosLibres, M!Max, MP!Max, M!FinDe,
     MP!FinDe, M!Hueco, MP!Hueco, M!Min, MP!Min, M!Tramo, MP!Tramo, M!Cardinality,
     MP!Cardinality

LEMMA IgualLugar ==
    /\ M!Propios = MP!Propios /\ M!Lugares = MP!Lugares
    /\ \A l : M!Tamanio(l) = MP!Tamanio(l) /\ M!Base(l) = MP!Base(l)
  BY Zenon DEF M!Propios, MP!Propios, M!Lugares, MP!Lugares, M!Tamanio, MP!Tamanio, M!Base,
     MP!Base

LEMMA IgualHueco == \A t : M!Cabe(t) = MP!Cabe(t) /\ M!ElegirHueco(t) = MP!ElegirHueco(t)
  BY Zenon DEF M!Cabe, MP!Cabe, M!ElegirHueco, MP!ElegirHueco, M!BuscarPorFirst,
     MP!BuscarPorFirst, M!BuscarPorBest, MP!BuscarPorBest, M!BuscarPorWorst,
     MP!BuscarPorWorst, M!PrimeroYMejor, MP!PrimeroYMejor, M!Min, MP!Min

LEMMA IgualPide == /\ \A p : M!Ocupados(p) = MP!Ocupados(p)
                   /\ \A p, id, t : M!PideCrear(p, id, t) <=> MP!PideCrear(p, id, t)
                   /\ \A p, id : M!PideEliminar(p, id) <=> MP!PideEliminar(p, id)
                   /\ \A p : M!PideFinalizar(p) <=> MP!PideFinalizar(p)
  BY Zenon DEF M!Ocupados, MP!Ocupados, M!PideCrear, MP!PideCrear, M!PideEliminar,
     MP!PideEliminar, M!PideFinalizar, MP!PideFinalizar

LEMMA IgualInicial == M!Init <=> MP!Init
  BY Zenon DEF M!Init, MP!Init, M!Hueco, MP!Hueco

LEMMA IgualAbrir == M!Segmento0 = MP!Segmento0 /\ (M!InicializarEstructura <=> MP!InicializarEstructura)
  BY Zenon DEF M!InicializarEstructura, MP!InicializarEstructura, M!Segmento0, MP!Segmento0,
     M!Segmento, MP!Segmento

LEMMA IgualCrear == M!CrearSegmento <=> MP!CrearSegmento
  BY IgualSuma, IgualOrden, IgualHueco, Zenon DEF M!CrearSegmento, MP!CrearSegmento,
     M!SinMemoria, MP!SinMemoria, M!HayEspacio, MP!HayEspacio, M!IndiceSinIniciar,
     MP!IndiceSinIniciar, M!SolicitarCompactacion, MP!SolicitarCompactacion, M!Ubicar,
     MP!Ubicar, M!Hueco, MP!Hueco, M!Segmento, MP!Segmento, M!Atiende, MP!Atiende

LEMMA IgualEliminarSegmento == M!EliminarSegmento <=> MP!EliminarSegmento
  BY Zenon DEF M!EliminarSegmento, MP!EliminarSegmento, M!Estado, MP!Estado, M!EliminarDe,
     MP!EliminarDe, M!Ordenaciones, MP!Ordenaciones, M!Inserciones, MP!Inserciones,
     M!InsertAt, MP!InsertAt, M!CombinarHuecosLibres, MP!CombinarHuecosLibres, M!Max, MP!Max,
     M!FinDe, MP!FinDe, M!Hueco, MP!Hueco, M!Min, MP!Min, M!Tramo, MP!Tramo, M!Cardinality,
     MP!Cardinality, M!RemoveAt, MP!RemoveAt, M!SelectInSeq, MP!SelectInSeq, M!SelectInSubSeq,
     MP!SelectInSubSeq, M!Atiende, MP!Atiende

LEMMA IgualEliminarProceso == M!EliminarProceso <=> MP!EliminarProceso
  BY Zenon DEF M!EliminarProceso, MP!EliminarProceso, M!EliminarDe, MP!EliminarDe,
     M!Ordenaciones, MP!Ordenaciones, M!Inserciones, MP!Inserciones, M!InsertAt, MP!InsertAt,
     M!CombinarHuecosLibres, MP!CombinarHuecosLibres, M!Max, MP!Max, M!FinDe, MP!FinDe,
     M!Hueco, MP!Hueco, M!Min, MP!Min, M!Tramo, MP!Tramo, M!Cardinality, MP!Cardinality,
     M!RemoveAt, MP!RemoveAt, M!SelectInSeq, MP!SelectInSeq, M!SelectInSubSeq,
     MP!SelectInSubSeq, M!Estado, MP!Estado, M!Atiende, MP!Atiende

LEMMA IgualTabla == M!TablaCompacta = MP!TablaCompacta
  BY Zenon DEF M!TablaCompacta, MP!TablaCompacta, M!BaseCompacta, MP!BaseCompacta, M!Base,
     MP!Base, M!Movidos, MP!Movidos, M!Antes, MP!Antes, M!Lugares, MP!Lugares, M!Cardinality,
     MP!Cardinality, M!Tamanio, MP!Tamanio, M!SumFunctionOnSet, MP!SumFunctionOnSet,
     M!FoldFunctionOnSet, MP!FoldFunctionOnSet, M!MapThenFoldSet, MP!MapThenFoldSet

LEMMA IgualCompactar == M!Compactar <=> MP!Compactar
  BY IgualTabla, IgualSuma, Zenon DEF M!Compactar, MP!Compactar, M!HuecosCompactos,
     MP!HuecosCompactos, M!Hueco, MP!Hueco, M!Atiende, MP!Atiende

LEMMA IgualNext == (M!Next <=> MP!Next) /\ M!vars = MP!vars
<1>1. M!Kernel <=> MP!Kernel
  BY IgualPide, Zenon DEF M!Kernel, MP!Kernel
<1>2. M!AtenderModulos <=> MP!AtenderModulos
  BY IgualCrear, IgualEliminarSegmento, IgualEliminarProceso, IgualCompactar, Zenon
  DEF M!AtenderModulos, MP!AtenderModulos
<1>3. M!vars = MP!vars
  BY DEF M!vars, MP!vars
<1> QED
  BY <1>1, <1>2, <1>3, IgualAbrir, Zenon DEF M!Next, MP!Next

-----------------------------------------------------------------------------
(* The memory inside *)

\* The algorithm of the instance, and who may be in EXEC.
SoloFirst == algoritmo = "FIRST" /\ corrupta = FALSE /\ cpu \in vivos \cup {Nadie}

LEMMA SoloFirstInicial == Init => SoloFirst
  BY DEF Init, M!Init, SoloFirst

LEMMA SoloFirstPaso ==
    ASSUME SoloFirst, [Next]_vars
    PROVE  SoloFirst'
<1> USE DEF SoloFirst
<1>1. CASE Abrir
  BY <1>1 DEF Abrir, M!InicializarEstructura
<1>2. CASE Despachar
  BY <1>2 DEF Despachar, varsMemoria
<1>3. CASE Desalojar
  BY <1>3 DEF Desalojar, varsMemoria
<1>4. CASE Pedir
  BY <1>4 DEF Pedir, M!PideCrear, M!PideEliminar
<1>5. CASE Terminar
  BY <1>5 DEF Terminar
<1>6. CASE ResponderCrear
  <2>1. algoritmo' = algoritmo /\ corrupta' = corrupta
    BY <1>6 DEF ResponderCrear, M!CrearSegmento, M!Ubicar, M!SolicitarCompactacion, M!IndiceSinIniciar,
                M!SinMemoria
  <2>2. cpu' \in vivos' \cup {Nadie}
    BY <1>6 DEF ResponderCrear
  <2> QED
    BY <2>1, <2>2
<1>7. CASE ResponderEliminar
  BY <1>7 DEF ResponderEliminar, M!EliminarSegmento
<1>8. CASE ResponderFinalizar
  BY <1>8 DEF ResponderFinalizar, M!EliminarProceso
<1>9. CASE Compactar
  BY <1>9 DEF Compactar, M!Compactar
<1>10. CASE Acceder
  <2>1. CASE \E dl \in Direcciones, n \in TamRegistros : MovOut(dl, n)
    BY <2>1 DEF MovOut, varsMemoria
  <2>2. CASE \E dl \in Direcciones, n \in TamRegistros : FOperacion(dl, n)
    BY <2>2 DEF FOperacion, varsMemoria
  <2> QED
    BY <1>5, <1>10, <2>1, <2>2 DEF Acceder, SegFault
<1>11. CASE FsTermina
  BY <1>11 DEF FsTermina, varsMemoria
<1>12. CASE UNCHANGED vars
  BY <1>12 DEF vars, varsMemoria
<1> QED
  BY <1>1, <1>2, <1>3, <1>4, <1>5, <1>6, <1>7, <1>8, <1>9, <1>10, <1>11, <1>12
  DEF Next, Kernel, AtenderModulos, Salir

\* Every step of the kernel, the cpu and the memory is one of Memoria.
LEMMA PasoMemoria ==
    ASSUME SoloFirst, [Next]_vars
    PROVE  [M!Next]_(M!vars)
<1>1. CASE UNCHANGED varsMemoria
  BY <1>1 DEF varsMemoria, M!vars
<1>2. CASE Abrir
  BY <1>2 DEF Abrir, M!Next
<1>3. CASE Pedir
  <2>1. cpu \in vivos /\ pedido = Nada /\ ~corrupta
    BY <1>3 DEF Pedir, Ejecuta, SoloFirst
  <2>2. M!Kernel
    BY <1>3, <2>1 DEF Pedir, M!Kernel
  <2> QED
    BY <2>2 DEF M!Next
<1>4. CASE Ejecuta /\ Terminar
  <2>1. cpu \in vivos /\ pedido = Nada /\ ~corrupta
    BY <1>4 DEF Terminar, Ejecuta, SoloFirst
  <2>2. M!Kernel
    BY <1>4, <2>1 DEF Terminar, M!Kernel
  <2> QED
    BY <2>2 DEF M!Next
<1>5. CASE AtenderModulos
  BY <1>5 DEF AtenderModulos, ResponderCrear, ResponderEliminar, ResponderFinalizar, Compactar,
              M!AtenderModulos, M!Next
<1>6. CASE Acceder
  <2>1. CASE \E dl \in Direcciones, n \in TamRegistros : MovOut(dl, n)
    BY <1>1, <2>1 DEF MovOut
  <2>2. CASE \E dl \in Direcciones, n \in TamRegistros : FOperacion(dl, n)
    BY <1>1, <2>2 DEF FOperacion
  <2> QED
    BY <1>4, <1>6, <2>1, <2>2 DEF Acceder, SegFault
<1>7. CASE Despachar \/ Desalojar \/ FsTermina \/ UNCHANGED vars
  BY <1>1, <1>7 DEF Despachar, Desalojar, FsTermina, vars
<1> QED
  BY <1>2, <1>3, <1>4, <1>5, <1>6, <1>7 DEF Next, Kernel, Salir

\* So the invariant of MemoriaProofs holds here.
LEMMA PasoInvariante ==
    ASSUME TamSegmento0 > 0, SoloFirst, MP!Invariante, [Next]_vars
    PROVE  MP!Invariante'
<1>1. [MP!Next]_(MP!vars)
  BY PasoMemoria, IgualNext DEF M!vars, MP!vars
<1> QED
  BY <1>1, MP!Paso, SupuestosTablas

LEMMA InvarianteInicial == Init => MP!Invariante
  BY IgualInicial, MP!Iniciales, SupuestosTablas DEF Init

\* The memory of this composition is the one of module Memoria: the kernel and
\* the cpu ask of it nothing that Memoria does not allow.
THEOREM EsMemoria == Spec => M!Spec
<1>1. Init => M!Init
  BY DEF Init
<1>2. SoloFirst /\ [Next]_vars => SoloFirst'
  BY SoloFirstPaso
<1>3. SoloFirst /\ [Next]_vars => [M!Next]_(M!vars)
  BY PasoMemoria
<1> QED
  BY <1>1, <1>2, <1>3, SoloFirstInicial, PTL DEF Spec, M!Spec

-----------------------------------------------------------------------------
(* The copies of a table *)

\* An address found in l is right for t: what has the same id is the same.
Vigente(l, t) == \A i \in DOMAIN l, j \in DOMAIN t : l[i].id = t[j].id => l[i] = t[j]

Hasta(l, n) == \A i \in DOMAIN l : l[i].id \in Nat /\ l[i].id <= n

\* k has nothing that l does not have.
Contenida(k, l) == \A i \in DOMAIN k : \E j \in DOMAIN l : k[i] = l[j]

PideCreacion == pedido # Nada /\ pedido.op \in {"CREAR_SEGMENTO", "REALIZAR_COMPACTACION"}

\* The ids that segments may have by now.
Usadas == IF PideCreacion THEN creados - 1 ELSE creados

TiposCopias ==
    /\ copia \in Seq(Tablas) /\ Len(copia) = Len(tabla)
    /\ tabla_general \in Seq(Tablas) /\ Len(tabla_general) <= Len(tabla)
    /\ creados \in Nat

\* Only the process in EXEC waits for the memory, and an end is of a process
\* that the kernel has ended.
Pedidor ==
    pedido # Nada =>
        /\ pedido.op # "FINALIZAR" => cpu # Nadie /\ pedido.pid = cpu
        /\ pedido.op = "FINALIZAR" => pedido.pid \notin vivos
        /\ PideCreacion => pedido.id = creados

Frescos ==
    \A p \in DOMAIN tabla :
        /\ Hasta(tabla[p], Usadas) /\ Hasta(copia[p], Usadas)
        /\ p \in DOMAIN tabla_general => Hasta(tabla_general[p], Usadas)

\* What a dispatch gives to a process is right, and complete before the first
\* compaction.
AlDia ==
    \A p \in vivos :
        /\ Vigente(ActualizarDeLaTablaGeneral(p), tabla[p])
        /\ p \notin DOMAIN tabla_general => IdsDe(tabla[p]) \subseteq IdsDe(copia[p])

\* What the process in EXEC has is right, and has all that a dispatch gives.
EnCpu ==
    cpu # Nadie /\ ~PideCreacion =>
        /\ Vigente(copia[cpu], tabla[cpu])
        /\ cpu \in DOMAIN tabla_general =>
                IdsDe(tabla[cpu]) \cap IdsDe(tabla_general[cpu]) \subseteq IdsDe(copia[cpu])

Pendiente ==
    operacion # Nada =>
        /\ operacion.pid \in vivos /\ operacion.pid # cpu
        /\ operacion.df_fs \in Verdadera(operacion.pid, operacion.dl, operacion.cant_bytes)

Copias == TiposCopias /\ Pedidor /\ Frescos /\ AlDia /\ EnCpu /\ Pendiente

LEMMA VigenteSi ==
    ASSUME NEW k, NEW l, \A i, j \in DOMAIN l : l[i].id = l[j].id => i = j, Contenida(k, l)
    PROVE  Vigente(k, l)
  BY DEF Vigente, Contenida

LEMMA VigenteMenos ==
    ASSUME NEW c, NEW l, Vigente(c, l), NEW k, Contenida(k, l)
    PROVE  Vigente(c, k) /\ IdsDe(k) \subseteq IdsDe(l)
  BY DEF Vigente, Contenida, IdsDe

LEMMA ContenidaSi == \A l : Contenida(l, l)
  BY DEF Contenida

LEMMA HastaMenos ==
    ASSUME NEW l, NEW n \in Int, NEW m \in Int, n <= m, Hasta(l, n), NEW k, Contenida(k, l)
    PROVE  Hasta(k, m)
  BY DEF Hasta, Contenida

\* A segment with an id that no list has yet.
LEMMA VigenteMas ==
    ASSUME NEW c, NEW n \in Int, Hasta(c, n), NEW l \in Seq(MP!Segms \cup {MP!Segmento0}), 
           NEW s \in MP!Segms, s.id > n, Vigente(c, l)
    PROVE  Vigente(c, Append(l, s)) /\ IdsDe(c) \cap IdsDe(Append(l, s)) \subseteq IdsDe(l)
<1> DEFINE S == MP!Segms \cup {MP!Segmento0}
           t == Append(l, s)
<1>1. l \in Seq(S) /\ s \in S
  OBVIOUS
<1> HIDE DEF S
<1>2. DOMAIN t = DOMAIN l \cup {Len(l) + 1} /\ t[Len(l) + 1] = s /\ \A i \in DOMAIN l : t[i] = l[i]
  BY <1>1
<1> HIDE DEF t
<1>3. \A i \in DOMAIN c : c[i].id # s.id
  BY DEF Hasta
<1>4. Vigente(c, t)
  BY <1>2, <1>3 DEF Vigente
<1>5. IdsDe(c) \cap IdsDe(t) \subseteq IdsDe(l)
  BY <1>2, <1>3 DEF IdsDe
<1> QED
  BY <1>4, <1>5 DEF t

\* The lists of the memory are tables of a PCB.
LEMMA ListaTipo ==
    ASSUME NEW l, MP!ListaBien(l)
    PROVE  /\ l \in Tablas /\ l # <<>>
           /\ \A i, j \in DOMAIN l : l[i].id = l[j].id => i = j
           /\ Vigente(l, l)
<1> DEFINE R == [id : Ids \cup {0}, base : M!Rango, tamanio : Tamanios \cup {TamSegmento0}]
           S == MP!Segms \cup {MP!Segmento0}
<1>1. MP!Segms \subseteq R
  BY SupuestosTablas DEF MP!Segms, MP!Rango, M!Rango
<1>2. MP!Segmento0 \in R
  BY SupuestosTablas DEF MP!Segmento0, MP!Segmento, M!Rango
<1>3. l \in Seq(S) /\ S \subseteq R
  BY <1>1, <1>2 DEF MP!ListaBien
<1> HIDE DEF R, S
<1>4. l \in Seq(R)
  BY <1>3
<1>5. l # <<>> /\ \A i, j \in DOMAIN l : l[i].id = l[j].id => i = j
  BY DEF MP!ListaBien
<1>6. Vigente(l, l)
  BY <1>5 DEF Vigente
<1> QED
  BY <1>4, <1>5, <1>6 DEF Tablas, R

\* What the invariant says of the tables and of the copies.
LEMMA Hechos ==
    ASSUME MP!Invariante
    PROVE  /\ Len(tabla) \in Nat /\ DOMAIN tabla = 1..Len(tabla) /\ vivos \subseteq DOMAIN tabla
           /\ MP!TablaBien(tabla) /\ MP!PedidoBien
           /\ \A p \in DOMAIN tabla : MP!ListaBien(tabla[p]) /\ tabla[p] \in Tablas
<1>1. MP!TablaBien(tabla) /\ vivos \subseteq DOMAIN tabla /\ MP!PedidoBien
  BY DEF MP!Invariante
<1> DEFINE S == Seq(MP!Segms \cup {MP!Segmento0})
<1>2. tabla \in Seq(S)
  BY <1>1 DEF MP!TablaBien
<1> HIDE DEF S
<1>3. Len(tabla) \in Nat /\ DOMAIN tabla = 1..Len(tabla)
  BY <1>2
<1> QED
  BY <1>1, <1>3, ListaTipo DEF MP!TablaBien

LEMMA HechosCopias ==
    ASSUME MP!Invariante, TiposCopias
    PROVE  /\ DOMAIN copia = DOMAIN tabla /\ DOMAIN tabla_general \subseteq DOMAIN tabla
           /\ \A p \in DOMAIN tabla : copia[p] \in Tablas
           /\ \A p \in DOMAIN tabla_general : tabla_general[p] \in Tablas
           /\ creados \in Nat
<1> DEFINE T == Tablas
<1>1. copia \in Seq(T) /\ tabla_general \in Seq(T)
  BY DEF TiposCopias
<1> HIDE DEF T
<1>2. /\ DOMAIN copia = 1..Len(copia) /\ DOMAIN tabla_general = 1..Len(tabla_general)
      /\ \A p \in DOMAIN copia : copia[p] \in T
      /\ \A p \in DOMAIN tabla_general : tabla_general[p] \in T
      /\ Len(tabla_general) \in Nat
  BY <1>1
<1>3. Len(copia) = Len(tabla) /\ Len(tabla_general) <= Len(tabla) /\ creados \in Nat
  BY DEF TiposCopias
<1> QED
  BY <1>2, <1>3, Hechos DEF T

LEMMA CopiasInicial == Init => Copias
<1> SUFFICES ASSUME Init PROVE Copias
  OBVIOUS
<1>1. /\ tabla = <<>> /\ copia = <<>> /\ tabla_general = <<>> /\ cpu = Nadie /\ vivos = {}
      /\ operacion = Nada /\ creados = 0 /\ pedido = Nada
  BY DEF Init, M!Init
<1>2. TiposCopias
  BY <1>1 DEF TiposCopias
<1> QED
  BY <1>1, <1>2 DEF Copias, Pedidor, Frescos, AlDia, EnCpu, Pendiente

\* Steps that do not touch the tables and their copies.
LEMMA CopiasIgual ==
    ASSUME Copias, UNCHANGED <<varsMemoria, copia, tabla_general, cpu, creados>>,
           operacion' \in {operacion, Nada}
    PROVE  Copias'
<1> USE DEF varsMemoria
<1>1. TiposCopias' /\ Pedidor' /\ Usadas' = Usadas /\ PideCreacion' = PideCreacion
  BY DEF Copias, TiposCopias, Pedidor, Usadas, PideCreacion
<1>2. Frescos'
  BY <1>1 DEF Copias, Frescos
<1>3. AlDia'
  BY DEF Copias, AlDia, ActualizarDeLaTablaGeneral
<1>4. EnCpu'
  BY <1>1 DEF Copias, EnCpu
<1>5. Pendiente'
  BY DEF Copias, Pendiente, Verdadera
<1> QED
  BY <1>1, <1>2, <1>3, <1>4, <1>5 DEF Copias

\* One lemma for each action that touches copies, requests or segments.
LEMMA CopiasDespachar ==
    ASSUME MP!Invariante, Copias, Despachar
    PROVE  Copias'
<1> USE DEF varsMemoria
<1>1. PICK p \in vivos \ Bloqueados :
          cpu' = p /\ copia' = [copia EXCEPT ![p] = ActualizarDeLaTablaGeneral(p)]
  BY DEF Despachar
<1>2. /\ UNCHANGED <<algoritmo, huecos, tabla, pedido, vivos, corrupta>> /\ cpu = Nadie
      /\ UNCHANGED <<tabla_general, operacion, creados>>
  BY DEF Despachar
<1> DEFINE a == ActualizarDeLaTablaGeneral(p)
<1>3. p \in DOMAIN tabla /\ p \in DOMAIN copia /\ DOMAIN copia = DOMAIN tabla /\ a \in Tablas
  BY <1>1, Hechos, HechosCopias DEF Copias, ActualizarDeLaTablaGeneral
<1>4. /\ DOMAIN copia' = DOMAIN tabla /\ copia'[p] = a
      /\ \A q \in DOMAIN tabla : q # p => copia'[q] = copia[q]
  BY <1>1, <1>3
<1>5. PideCreacion' = PideCreacion /\ Usadas' = Usadas /\ ~PideCreacion
  BY <1>2 DEF Copias, Pedidor, PideCreacion, Usadas
<1>6. TiposCopias'
  <2> DEFINE T == Tablas
  <2>1. copia \in Seq(T) /\ a \in T /\ p \in DOMAIN copia
    BY <1>3 DEF Copias, TiposCopias
  <2> HIDE DEF T, a
  <2>2. copia' \in Seq(T) /\ Len(copia') = Len(copia)
    BY <1>1, <2>1 DEF a
  <2> QED
    BY <1>2, <2>2 DEF Copias, TiposCopias, T
<1>7. Pedidor'
  BY <1>2, <1>5 DEF Copias, Pedidor
<1>8. Frescos'
  <2>1. Hasta(a, Usadas)
    BY <1>3 DEF Copias, Frescos, ActualizarDeLaTablaGeneral
  <2> QED
    BY <1>2, <1>4, <1>5, <2>1 DEF Copias, Frescos
<1>9. /\ Vigente(a, tabla[p])
      /\ p \notin DOMAIN tabla_general => a = copia[p] /\ IdsDe(tabla[p]) \subseteq IdsDe(copia[p])
      /\ p \in DOMAIN tabla_general => a = tabla_general[p]
  BY <1>1 DEF Copias, AlDia, ActualizarDeLaTablaGeneral
<1>10. AlDia'
  <2> SUFFICES ASSUME NEW q \in vivos
               PROVE  /\ Vigente(ActualizarDeLaTablaGeneral(q)', tabla[q])
                      /\ q \notin DOMAIN tabla_general => IdsDe(tabla[q]) \subseteq IdsDe(copia'[q])
    BY <1>2 DEF AlDia
  <2>1. q \in DOMAIN tabla
    BY Hechos
  <2>2. ActualizarDeLaTablaGeneral(q)' = ActualizarDeLaTablaGeneral(q)
    BY <1>2, <1>4, <1>9, <2>1 DEF ActualizarDeLaTablaGeneral
  <2>3. q \notin DOMAIN tabla_general => copia'[q] = copia[q]
    BY <1>4, <1>9, <2>1
  <2> QED
    BY <2>2, <2>3 DEF Copias, AlDia
<1>11. EnCpu'
  BY <1>1, <1>2, <1>4, <1>9 DEF EnCpu
<1>12. Pendiente'
  <2>1. operacion # Nada => operacion.pid # p
    BY <1>1 DEF Bloqueados
  <2> QED
    BY <1>1, <1>2, <2>1 DEF Copias, Pendiente, Verdadera
<1> QED
  BY <1>6, <1>7, <1>8, <1>10, <1>11, <1>12 DEF Copias

\* Steps after which nobody is in EXEC and nothing else is changed.
LEMMA CopiasSale ==
    ASSUME Copias, UNCHANGED <<varsMemoria, copia, tabla_general, creados>>, cpu' = Nadie,
           Ejecuta, Pendiente'
    PROVE  Copias'
<1> USE DEF varsMemoria
<1>1. TiposCopias' /\ Usadas' = Usadas /\ PideCreacion' = PideCreacion
  BY DEF Copias, TiposCopias, Usadas, PideCreacion
<1>2. Pedidor'
  BY <1>1 DEF Copias, Pedidor, Ejecuta, EsperaRespuesta, PideCreacion
<1>3. Frescos'
  BY <1>1 DEF Copias, Frescos
<1>4. AlDia'
  BY DEF Copias, AlDia, ActualizarDeLaTablaGeneral
<1>5. EnCpu'
  BY DEF EnCpu
<1> QED
  BY <1>1, <1>2, <1>3, <1>4, <1>5 DEF Copias

LEMMA CopiasDesalojar ==
    ASSUME MP!Invariante, SoloFirst, Copias, Desalojar, Nadie \notin DOMAIN tabla
    PROVE  Copias'
<1>1. Pendiente'
  BY Hechos DEF Desalojar, Copias, Pendiente, Verdadera, varsMemoria
<1> QED
  BY <1>1, CopiasSale DEF Desalojar

\* Who executes waits for nothing.
LEMMA EjecutaEs ==
    ASSUME Copias, SoloFirst, Ejecuta
    PROVE  /\ cpu # Nadie /\ cpu \in vivos /\ ~PideCreacion
           /\ pedido # Nada => pedido.op = "FINALIZAR"
  BY DEF Copias, SoloFirst, Ejecuta, EsperaRespuesta, Pedidor, PideCreacion

\* An address that the cpu finds is right.
LEMMA Traduce ==
    ASSUME MP!Invariante, SoloFirst, Copias, Ejecuta, NEW dl, NEW n, NoEliminado(cpu, dl),
           DireccionFisica(cpu, dl, n) >= 0
    PROVE  DireccionFisica(cpu, dl, n) \in Verdadera(cpu, dl, n)
<1>1. cpu # Nadie /\ cpu \in DOMAIN tabla /\ Vigente(copia[cpu], tabla[cpu])
  BY EjecutaEs, Hechos DEF Copias, EnCpu
<1> DEFINE c == copia[cpu]
           H == {i \in DOMAIN c : c[i].id = NumSegmento(dl) /\ CabeEn(c[i], dl, n)}
<1>2. c \in Tablas
  BY <1>1, HechosCopias DEF Copias
<1>3. DOMAIN c = 1..Len(c) /\ Len(c) \in Nat
  BY <1>2 DEF Tablas
<1>4. H # {} /\ DireccionFisica(cpu, dl, n) = Desplazamiento(dl) + c[Max(H)].base
  <2>1. DireccionFisica(cpu, dl, n) = IF H = {} THEN -1 ELSE Desplazamiento(dl) + c[Max(H)].base
    BY Zenon DEF DireccionFisica
  <2> HIDE DEF H, c
  <2> QED
    BY <2>1
<1>5. Max(H) \in H
  <2>1. H \in SUBSET (0..Len(c)) /\ H # {}
    BY <1>3, <1>4
  <2> HIDE DEF H, c
  <2> QED
    BY <2>1, <1>3, MayorExiste
<1> DEFINE i == Max(H)
<1>6. i \in DOMAIN c /\ c[i].id = NumSegmento(dl) /\ CabeEn(c[i], dl, n)
  BY <1>5
<1> HIDE DEF H, i
<1>7. NumSegmento(dl) \in IdsDe(c)
  BY <1>6 DEF IdsDe
<1>8. PICK j \in DOMAIN tabla[cpu] : tabla[cpu][j].id = NumSegmento(dl)
  BY <1>7 DEF NoEliminado, M!Ocupados
<1>9. c[i] = tabla[cpu][j]
  BY <1>1, <1>6, <1>8 DEF Vigente
<1>10. Desplazamiento(dl) + n <= tabla[cpu][j].tamanio
  BY <1>6, <1>9 DEF CabeEn
<1> QED
  BY <1>4, <1>6, <1>8, <1>9, <1>10 DEF Verdadera, i

LEMMA CopiasFOperacion ==
    ASSUME MP!Invariante, SoloFirst, Copias, Ejecuta, Nadie \notin DOMAIN tabla, NEW dl, NEW n,
           NoEliminado(cpu, dl), FOperacion(dl, n)
    PROVE  Copias'
<1>1. DireccionFisica(cpu, dl, n) \in Verdadera(cpu, dl, n)
  BY Traduce DEF FOperacion
<1>2. cpu \in vivos /\ cpu # Nadie
  BY EjecutaEs
<1>3. /\ operacion' = [pid |-> cpu, dl |-> dl, df_fs |-> DireccionFisica(cpu, dl, n), cant_bytes |-> n]
      /\ UNCHANGED <<varsMemoria, copia, tabla_general, creados>> /\ cpu' = Nadie
  BY DEF FOperacion
<1>5. Pendiente'
  <2>1. /\ operacion'.pid = cpu /\ operacion'.dl = dl /\ operacion'.cant_bytes = n
        /\ operacion'.df_fs = DireccionFisica(cpu, dl, n)
    BY <1>3
  <2>2. vivos' = vivos /\ tabla' = tabla
    BY <1>3 DEF varsMemoria
  <2> QED
    BY <1>1, <1>2, <1>3, <2>1, <2>2 DEF Pendiente, Verdadera
<1> QED
  BY <1>3, <1>5, CopiasSale

LEMMA CopiasPedir ==
    ASSUME MP!Invariante, SoloFirst, Copias, Pedir
    PROVE  Copias'
<1>1. /\ UNCHANGED <<tabla, vivos, copia, cpu, tabla_general, operacion>> /\ pedido = Nada /\ Ejecuta
  BY DEF Pedir, M!PideCrear, M!PideEliminar
<1>2. creados' \in Nat /\ creados' >= creados /\ creados \in Nat
  BY DEF Pedir, Copias, TiposCopias
<1>3. cpu # Nadie /\ cpu \in vivos /\ ~PideCreacion /\ Usadas = creados
  BY <1>1, EjecutaEs DEF Usadas
<1>4. \/ /\ creados' = creados + 1
         /\ pedido'.op = "CREAR_SEGMENTO" /\ pedido'.pid = cpu /\ pedido'.id = creados'
      \/ pedido'.op = "ELIMINAR_SEGMENTO" /\ pedido'.pid = cpu /\ creados' = creados
  BY DEF Pedir, M!PideCrear, M!PideEliminar
<1>5. Usadas' \in Int /\ Usadas <= Usadas' /\ Usadas \in Int
  <2>1. Usadas' = IF PideCreacion' THEN creados' - 1 ELSE creados'
    BY Zenon DEF Usadas
  <2>2. CASE creados' = creados + 1
    BY <1>2, <1>3, <2>1, <2>2
  <2>3. CASE pedido'.op = "ELIMINAR_SEGMENTO" /\ creados' = creados
    <3>1. ~PideCreacion'
      BY <2>3 DEF PideCreacion
    <3> QED
      BY <1>2, <1>3, <2>1, <2>3, <3>1
  <2> QED
    BY <1>4, <2>2, <2>3
<1>6. TiposCopias'
  BY <1>1, <1>2 DEF Copias, TiposCopias
<1>7. Pedidor'
  BY <1>1, <1>3, <1>4 DEF Pedidor, PideCreacion
<1>8. Frescos'
  <2>1. \A l : Hasta(l, Usadas) => Hasta(l, Usadas')
    BY <1>5, HastaMenos, ContenidaSi
  <2> QED
    BY <1>1, <2>1 DEF Copias, Frescos
<1>9. AlDia'
  BY <1>1 DEF Copias, AlDia, ActualizarDeLaTablaGeneral
<1>10. EnCpu'
  BY <1>1, <1>3 DEF Copias, EnCpu
<1>11. Pendiente'
  BY <1>1 DEF Copias, Pendiente, Verdadera
<1> QED
  BY <1>6, <1>7, <1>8, <1>9, <1>10, <1>11 DEF Copias

\* The table of one PCB changes.
LEMMA CopiasUna ==
    ASSUME MP!Invariante, TiposCopias, NEW p \in DOMAIN tabla, NEW l \in Tablas,
           copia' = [copia EXCEPT ![p] = l]
    PROVE  /\ copia' \in Seq(Tablas) /\ Len(copia') = Len(copia) /\ DOMAIN copia' = DOMAIN tabla
           /\ copia'[p] = l /\ \A q \in DOMAIN tabla : q # p => copia'[q] = copia[q]
<1> DEFINE T == Tablas
<1>1. p \in DOMAIN copia /\ DOMAIN copia = DOMAIN tabla
  BY HechosCopias
<1>2. copia \in Seq(T) /\ l \in T
  BY DEF TiposCopias
<1> HIDE DEF T
<1>3. copia' \in Seq(T) /\ Len(copia') = Len(copia)
  BY <1>1, <1>2
<1> QED
  BY <1>1, <1>3 DEF T

LEMMA Vacia == <<>> \in Tablas /\ (\A n : Hasta(<<>>, n)) /\ \A l : Vigente(<<>>, l)
  BY DEF Tablas, Hasta, Vigente

LEMMA CopiasTerminar ==
    ASSUME MP!Invariante, SoloFirst, Copias, Ejecuta, Terminar, Nadie \notin DOMAIN tabla
    PROVE  Copias'
<1>1. /\ UNCHANGED <<tabla, tabla_general, operacion, creados>> /\ cpu' = Nadie /\ pedido = Nada
      /\ vivos' = vivos \ {cpu} /\ pedido' = [op |-> "FINALIZAR", pid |-> cpu]
      /\ copia' = [copia EXCEPT ![cpu] = <<>>]
  BY DEF Terminar, M!PideFinalizar
<1>2. cpu # Nadie /\ cpu \in vivos /\ cpu \in DOMAIN tabla /\ vivos \subseteq DOMAIN tabla
  BY EjecutaEs, Hechos
<1>3. /\ copia' \in Seq(Tablas) /\ Len(copia') = Len(copia) /\ DOMAIN copia' = DOMAIN tabla
      /\ copia'[cpu] = <<>> /\ \A q \in DOMAIN tabla : q # cpu => copia'[q] = copia[q]
  BY <1>1, <1>2, CopiasUna, Vacia DEF Copias
<1>4. ~PideCreacion /\ ~PideCreacion' /\ Usadas' = Usadas
  <2>1. ~PideCreacion /\ ~PideCreacion'
    BY <1>1 DEF PideCreacion
  <2> QED
    BY <1>1, <2>1 DEF Usadas
<1>5. TiposCopias'
  BY <1>1, <1>3 DEF Copias, TiposCopias
<1>6. Pedidor'
  BY <1>1, <1>4 DEF Pedidor
<1>7. Frescos'
  BY <1>1, <1>3, <1>4, Vacia DEF Copias, Frescos
<1>8. AlDia'
  <2> SUFFICES ASSUME NEW q \in vivos, q # cpu
               PROVE  /\ Vigente(ActualizarDeLaTablaGeneral(q)', tabla[q])
                      /\ q \notin DOMAIN tabla_general => IdsDe(tabla[q]) \subseteq IdsDe(copia'[q])
    BY <1>1 DEF AlDia
  <2>1. copia'[q] = copia[q]
    BY <1>2, <1>3
  <2> QED
    BY <1>1, <2>1 DEF Copias, AlDia, ActualizarDeLaTablaGeneral
<1>9. EnCpu'
  BY <1>1 DEF EnCpu
<1>10. Pendiente'
  <2>1. operacion # Nada => operacion.pid # Nadie
    BY Hechos DEF Copias, Pendiente
  <2> QED
    BY <1>1, <2>1 DEF Copias, Pendiente, Verdadera
<1> QED
  BY <1>5, <1>6, <1>7, <1>8, <1>9, <1>10 DEF Copias

Creado(s) ==
    /\ pedido' = Nada /\ vivos' = vivos
    /\ s.id = pedido.id
    /\ DOMAIN tabla' = DOMAIN tabla /\ tabla'[pedido.pid] = Append(tabla[pedido.pid], s)
    /\ \A q \in DOMAIN tabla : q # pedido.pid => tabla'[q] = tabla[q]

\* What memoria answers to a creation.
LEMMA CrearEs ==
    ASSUME MP!Invariante, SoloFirst, M!CrearSegmento
    PROVE  /\ pedido # Nada /\ pedido.op = "CREAR_SEGMENTO" /\ pedido.pid \in DOMAIN tabla
           /\ \/ \E s \in MP!Segms : Creado(s)
              \/ /\ tabla' = tabla /\ vivos' = vivos
                 /\ pedido'.op = "REALIZAR_COMPACTACION" /\ pedido'.pid = pedido.pid
                 /\ pedido'.id = pedido.id
              \/ /\ tabla' = tabla /\ vivos' = vivos \ {pedido.pid}
                 /\ pedido' = [op |-> "FINALIZAR", pid |-> pedido.pid]
<1> DEFINE p == pedido.pid
<1>1. pedido # Nada /\ pedido.op = "CREAR_SEGMENTO" /\ MP!Atiende("CREAR_SEGMENTO")
  BY DEF M!CrearSegmento, M!Atiende, MP!Atiende
<1>2. /\ p \in DOMAIN tabla /\ pedido.id \in Ids /\ pedido.tamanio \in Tamanios
      /\ pedido.id \notin MP!Ocupados(p)
      /\ \A op : [pedido EXCEPT !.op = op] =
                        [op |-> op, pid |-> pedido.pid, id |-> pedido.id, tamanio |-> pedido.tamanio]
  BY <1>1, Hechos, MP!PedidoEs, SupuestosTablas
<1>3. MP!CrearSegmento
  BY IgualCrear
<1>4. CASE MP!Ubicar(p, pedido.id, pedido.tamanio)
  <2>1. PICK s \in MP!Segms : /\ s.id = pedido.id
                              /\ tabla' = MP!Con(tabla, p, Append(tabla[p], s))
                              /\ MP!ListaBien(Append(tabla[p], s))
    BY <1>2, <1>4, MP!UbicarTablas, SupuestosTablas
  <2>2. MP!TablaBien(tabla)
    BY Hechos
  <2>3. MP!Cambia(tabla, tabla', p, Append(tabla[p], s))
    BY <1>2, <2>1, <2>2, MP!ConEs, SupuestosTablas
  <2>4. pedido' = Nada /\ vivos' = vivos
    BY <1>4 DEF MP!Ubicar
  <2>5. Creado(s)
    BY <2>1, <2>3, <2>4 DEF Creado, MP!Cambia
  <2> QED
    BY <1>1, <1>2, <2>5
<1>5. CASE MP!SolicitarCompactacion(pedido.tamanio)
  <2>1. pedido' = [pedido EXCEPT !.op = "REALIZAR_COMPACTACION"] /\ tabla' = tabla /\ vivos' = vivos
    BY <1>5 DEF MP!SolicitarCompactacion
  <2> QED
    BY <1>1, <1>2, <2>1
<1>6. CASE MP!SinMemoria(p, pedido.tamanio)
  BY <1>1, <1>2, <1>6 DEF MP!SinMemoria
<1>7. ~MP!IndiceSinIniciar(pedido.tamanio)
  BY DEF SoloFirst, MP!IndiceSinIniciar
<1> QED
  BY <1>3, <1>4, <1>5, <1>6, <1>7 DEF MP!CrearSegmento

LEMMA CopiasResponderCrear ==
    ASSUME MP!Invariante, MP!Invariante', SoloFirst, Copias, ResponderCrear, Nadie \notin DOMAIN tabla
    PROVE  Copias'
<1> DEFINE l == IF pedido' = Nada THEN tabla'[cpu]
                ELSE IF cpu \in vivos' THEN copia[cpu] ELSE <<>>
<1>1. /\ M!CrearSegmento /\ copia' = [copia EXCEPT ![cpu] = l]
      /\ cpu' = (IF cpu \in vivos' THEN cpu ELSE Nadie)
      /\ UNCHANGED <<tabla_general, operacion, creados>>
  BY DEF ResponderCrear, CopiaNueva
<1>2. /\ cpu # Nadie /\ cpu \in vivos /\ pedido.pid = cpu /\ cpu \in DOMAIN tabla
      /\ pedido # Nada /\ pedido.op = "CREAR_SEGMENTO" /\ PideCreacion /\ pedido.id = creados
      /\ vivos \subseteq DOMAIN tabla /\ vivos' \subseteq vivos
  BY <1>1, CrearEs, Hechos DEF Copias, Pedidor, PideCreacion, SoloFirst, Creado
<1>3. \/ \E s \in MP!Segms : Creado(s)
      \/ /\ tabla' = tabla /\ vivos' = vivos /\ pedido'.op = "REALIZAR_COMPACTACION"
         /\ pedido'.pid = cpu /\ pedido'.id = creados
      \/ /\ tabla' = tabla /\ vivos' = vivos \ {cpu}
         /\ pedido' = [op |-> "FINALIZAR", pid |-> cpu]
  BY <1>1, <1>2, CrearEs
<1>4. DOMAIN tabla' = DOMAIN tabla /\ \A q \in DOMAIN tabla : q # cpu => tabla'[q] = tabla[q]
  BY <1>2, <1>3 DEF Creado
<1>5. \A q \in DOMAIN tabla : MP!ListaBien(tabla'[q]) /\ tabla'[q] \in Tablas /\ Vigente(tabla'[q], tabla'[q])
  <2>1. MP!TablaBien(tabla')
    BY DEF MP!Invariante
  <2> QED
    BY <1>4, <2>1, ListaTipo DEF MP!TablaBien
<1>6. /\ creados \in Nat /\ Usadas = creados - 1 /\ Usadas' \in {creados - 1, creados}
      /\ Usadas \in Int /\ Usadas' \in Int /\ Usadas <= Usadas'
      /\ pedido' = Nada => Usadas' = creados
  <2>1. creados \in Nat /\ Usadas = creados - 1
    BY <1>2 DEF Copias, TiposCopias, Usadas
  <2>2. Usadas' = IF PideCreacion' THEN creados - 1 ELSE creados
    BY <1>1, Zenon DEF Usadas
  <2>3. pedido' = Nada => ~PideCreacion'
    BY DEF PideCreacion
  <2> QED
    BY <2>1, <2>2, <2>3
<1>7. l \in {tabla'[cpu], copia[cpu], <<>>} /\ (pedido' = Nada => l = tabla'[cpu])
      /\ (pedido' # Nada /\ cpu \in vivos' => l = copia[cpu])
  <2>1. CASE pedido' = Nada
    <3>1. l = tabla'[cpu]
      BY <2>1
    <3> HIDE DEF l
    <3> QED
      BY <2>1, <3>1
  <2>2. CASE pedido' # Nada /\ cpu \in vivos'
    <3>1. l = copia[cpu]
      BY <2>2
    <3> HIDE DEF l
    <3> QED
      BY <2>2, <3>1
  <2>3. CASE pedido' # Nada /\ cpu \notin vivos'
    <3>1. l = <<>>
      BY <2>3
    <3> HIDE DEF l
    <3> QED
      BY <2>3, <3>1
  <2> QED
    BY <2>1, <2>2, <2>3
<1> HIDE DEF l
<1>8. l \in Tablas
  BY <1>2, <1>5, <1>7, Vacia, HechosCopias DEF Copias
<1>9. /\ copia' \in Seq(Tablas) /\ Len(copia') = Len(copia) /\ DOMAIN copia' = DOMAIN tabla
      /\ copia'[cpu] = l /\ \A q \in DOMAIN tabla : q # cpu => copia'[q] = copia[q]
  BY <1>1, <1>2, <1>8, CopiasUna DEF Copias
<1>10. \A q \in DOMAIN tabla : Hasta(tabla'[q], Usadas')
  <2> SUFFICES ASSUME NEW q \in DOMAIN tabla
               PROVE  Hasta(tabla'[q], Usadas')
    OBVIOUS
  <2>1. Hasta(tabla[q], Usadas')
    BY <1>6, HastaMenos, ContenidaSi DEF Copias, Frescos
  <2>2. CASE \E s \in MP!Segms : Creado(s)
    <3>1. PICK s \in MP!Segms : Creado(s)
      BY <2>2
    <3>2. CASE q = cpu
      <4>1. tabla'[q] = Append(tabla[q], s) /\ s.id = creados /\ Usadas' = creados
        BY <1>2, <1>6, <3>1, <3>2 DEF Creado
      <4> DEFINE S == MP!Segms \cup {MP!Segmento0}
      <4>2. tabla[q] \in Seq(S) /\ s \in S
        BY Hechos DEF MP!ListaBien
      <4> HIDE DEF S
      <4>3. \A i \in DOMAIN tabla'[q] : (i \in DOMAIN tabla[q] /\ tabla'[q][i] = tabla[q][i]) \/ tabla'[q][i] = s
        BY <4>1, <4>2
      <4> QED
        BY <1>6, <2>1, <4>1, <4>3 DEF Hasta
    <3>3. CASE q # cpu
      BY <1>4, <2>1, <3>3
    <3> QED
      BY <3>2, <3>3
  <2>3. CASE tabla' = tabla
    BY <2>1, <2>3
  <2> QED
    BY <1>3, <2>2, <2>3
<1>11. TiposCopias'
  <2>1. Len(tabla') = Len(tabla)
    <3>1. Len(tabla) \in Nat /\ DOMAIN tabla = 1..Len(tabla)
      BY Hechos
    <3>2. Len(tabla') \in Nat /\ DOMAIN tabla' = 1..Len(tabla')
      <4> DEFINE S == Seq(MP!Segms \cup {MP!Segmento0})
      <4>1. tabla' \in Seq(S)
        BY DEF MP!Invariante, MP!TablaBien
      <4> HIDE DEF S
      <4> QED
        BY <4>1
    <3> QED
      BY <1>4, <3>1, <3>2, MP!MismoLargo, SupuestosTablas
  <2> QED
    BY <1>1, <1>9, <2>1 DEF Copias, TiposCopias
<1>12. Pedidor'
  BY <1>1, <1>2, <1>3 DEF Pedidor, PideCreacion, Creado
<1>13. Frescos'
  <2>1. \A k : Hasta(k, Usadas) => Hasta(k, Usadas')
    BY <1>6, HastaMenos, ContenidaSi
  <2>2. Hasta(l, Usadas')
    BY <1>2, <1>7, <1>10, <2>1, Vacia DEF Copias, Frescos
  <2> QED
    BY <1>1, <1>4, <1>9, <1>10, <2>1, <2>2 DEF Copias, Frescos
<1>14. AlDia'
  <2> SUFFICES ASSUME NEW q \in vivos'
               PROVE  /\ Vigente(ActualizarDeLaTablaGeneral(q)', tabla'[q])
                      /\ q \notin DOMAIN tabla_general => IdsDe(tabla'[q]) \subseteq IdsDe(copia'[q])
    BY <1>1 DEF AlDia
  <2>1. q \in vivos /\ q \in DOMAIN tabla
    BY <1>2
  <2>2. ActualizarDeLaTablaGeneral(q)' = IF q \in DOMAIN tabla_general THEN tabla_general[q] ELSE copia'[q]
    BY <1>1 DEF ActualizarDeLaTablaGeneral
  <2>3. CASE q # cpu
    BY <1>4, <1>9, <2>1, <2>2, <2>3 DEF Copias, AlDia, ActualizarDeLaTablaGeneral
  <2>4. CASE q = cpu /\ q \notin DOMAIN tabla_general
    <3>1. l = tabla'[q] \/ (l = copia[q] /\ tabla' = tabla)
      BY <1>3, <1>7, <2>4 DEF Creado
    <3> QED
      BY <1>5, <1>9, <2>1, <2>2, <2>4, <3>1 DEF Copias, AlDia, ActualizarDeLaTablaGeneral
  <2>5. CASE q = cpu /\ q \in DOMAIN tabla_general
    <3>1. Vigente(tabla_general[q], tabla[q]) /\ Hasta(tabla_general[q], Usadas)
      BY <2>1, <2>5 DEF Copias, AlDia, Frescos, ActualizarDeLaTablaGeneral
    <3>2. CASE tabla' = tabla
      BY <2>2, <2>5, <3>1, <3>2
    <3>3. CASE \E s \in MP!Segms : Creado(s)
      <4>1. PICK s \in MP!Segms : Creado(s)
        BY <3>3
      <4>2. tabla'[q] = Append(tabla[q], s) /\ s.id > Usadas
        BY <1>2, <1>6, <2>5, <4>1 DEF Creado
      <4>3. tabla[q] \in Seq(MP!Segms \cup {MP!Segmento0})
        BY <2>1, Hechos DEF MP!ListaBien
      <4> QED
        BY <1>6, <2>2, <2>5, <3>1, <4>2, <4>3, VigenteMas
    <3> QED
      BY <1>3, <3>2, <3>3
  <2> QED
    BY <2>3, <2>4, <2>5
<1>15. EnCpu'
  <2> SUFFICES ASSUME cpu' # Nadie, ~PideCreacion'
               PROVE  /\ Vigente(copia'[cpu'], tabla'[cpu'])
                      /\ cpu' \in DOMAIN tabla_general =>
                             IdsDe(tabla'[cpu']) \cap IdsDe(tabla_general[cpu']) \subseteq IdsDe(copia'[cpu'])
    BY <1>1 DEF EnCpu
  <2>1. cpu' = cpu /\ cpu \in vivos'
    BY <1>1
  <2>2. pedido' = Nada
    BY <1>3, <2>1 DEF PideCreacion, Creado
  <2>3. copia'[cpu] = tabla'[cpu]
    BY <1>7, <1>9, <2>2
  <2> QED
    BY <1>2, <1>5, <2>1, <2>3
<1>16. Pendiente'
  <2> SUFFICES ASSUME operacion # Nada
               PROVE  /\ operacion.pid \in vivos' /\ operacion.pid # cpu'
                      /\ operacion.df_fs \in Verdadera(operacion.pid, operacion.dl, operacion.cant_bytes)'
    BY <1>1 DEF Pendiente, Verdadera
  <2>1. /\ operacion.pid \in vivos /\ operacion.pid # cpu /\ operacion.pid \in DOMAIN tabla
        /\ operacion.df_fs \in Verdadera(operacion.pid, operacion.dl, operacion.cant_bytes)
    BY <1>2 DEF Copias, Pendiente
  <2>2. operacion.pid \in vivos' /\ operacion.pid # cpu'
    BY <1>1, <1>3, <2>1 DEF Creado
  <2>3. tabla'[operacion.pid] = tabla[operacion.pid]
    BY <1>4, <2>1
  <2> QED
    BY <1>1, <2>1, <2>2, <2>3 DEF Verdadera
<1> QED
  BY <1>11, <1>12, <1>13, <1>14, <1>15, <1>16 DEF Copias

LEMMA MenosLargo ==
    ASSUME MP!Invariante, MP!Invariante', DOMAIN tabla' = DOMAIN tabla
    PROVE  Len(tabla') = Len(tabla)
<1>1. Len(tabla) \in Nat /\ DOMAIN tabla = 1..Len(tabla)
  BY Hechos
<1>2. Len(tabla') \in Nat /\ DOMAIN tabla' = 1..Len(tabla')
  <2> DEFINE S == Seq(MP!Segms \cup {MP!Segmento0})
  <2>1. tabla' \in Seq(S)
    BY DEF MP!Invariante, MP!TablaBien
  <2> HIDE DEF S
  <2> QED
    BY <2>1
<1> QED
  BY <1>1, <1>2, MP!MismoLargo, SupuestosTablas

\* An answer after which the lists of the memory are shorter, at most.
LEMMA CopiasMenos ==
    ASSUME MP!Invariante, MP!Invariante', SoloFirst, Copias, ~PideCreacion, pedido' = Nada,
           UNCHANGED <<vivos, copia, cpu, tabla_general, operacion, creados>>,
           DOMAIN tabla' = DOMAIN tabla, \A q \in DOMAIN tabla : Contenida(tabla'[q], tabla[q]),
           operacion # Nada => tabla'[operacion.pid] = tabla[operacion.pid]
    PROVE  Copias'
<1>1. ~PideCreacion' /\ Usadas' = Usadas /\ Usadas \in Int
  BY DEF PideCreacion, Usadas, Copias, TiposCopias
<1>2. TiposCopias'
  BY MenosLargo DEF Copias, TiposCopias
<1>3. Pedidor'
  BY DEF Pedidor
<1>4. Frescos'
  <2>1. \A q \in DOMAIN tabla : Hasta(tabla'[q], Usadas)
    BY <1>1, HastaMenos DEF Copias, Frescos
  <2> QED
    BY <1>1, <2>1 DEF Copias, Frescos
<1>5. \A q \in DOMAIN tabla : /\ \A c : Vigente(c, tabla[q]) => Vigente(c, tabla'[q])
                              /\ IdsDe(tabla'[q]) \subseteq IdsDe(tabla[q])
  <2> SUFFICES ASSUME NEW q \in DOMAIN tabla
               PROVE  /\ \A c : Vigente(c, tabla[q]) => Vigente(c, tabla'[q])
                      /\ IdsDe(tabla'[q]) \subseteq IdsDe(tabla[q])
    OBVIOUS
  <2>1. Contenida(tabla'[q], tabla[q])
    OBVIOUS
  <2> QED
    BY <2>1, VigenteMenos DEF Contenida, IdsDe
<1>6. vivos \subseteq DOMAIN tabla
  BY Hechos
<1>7. AlDia'
  <2> SUFFICES ASSUME NEW q \in vivos
               PROVE  /\ Vigente(ActualizarDeLaTablaGeneral(q)', tabla'[q])
                      /\ q \notin DOMAIN tabla_general => IdsDe(tabla'[q]) \subseteq IdsDe(copia[q])
    BY DEF AlDia
  <2>1. ActualizarDeLaTablaGeneral(q)' = ActualizarDeLaTablaGeneral(q)
    BY DEF ActualizarDeLaTablaGeneral
  <2> QED
    BY <1>5, <1>6, <2>1 DEF Copias, AlDia
<1>8. EnCpu'
  <2> SUFFICES ASSUME cpu # Nadie
               PROVE  /\ Vigente(copia[cpu], tabla'[cpu])
                      /\ cpu \in DOMAIN tabla_general =>
                             IdsDe(tabla'[cpu]) \cap IdsDe(tabla_general[cpu]) \subseteq IdsDe(copia[cpu])
    BY DEF EnCpu
  <2>1. cpu \in DOMAIN tabla
    BY <1>6 DEF SoloFirst
  <2> QED
    BY <1>5, <2>1 DEF Copias, EnCpu
<1>9. Pendiente'
  BY DEF Copias, Pendiente, Verdadera
<1> QED
  BY <1>2, <1>3, <1>4, <1>7, <1>8, <1>9 DEF Copias

LEMMA QuitaContenida ==
    ASSUME NEW l, MP!ListaBien(l), NEW id, NEW k, MP!QuitaDe(l, id, k)
    PROVE  Contenida(k, l)
<1>1. CASE k = l
  BY <1>1, ContenidaSi
<1>2. CASE \E j \in 2..Len(l) : l[j].id = id /\ k = RemoveAt(l, j)
  <2>1. PICK j \in 2..Len(l) : k = MP!RemoveAt(l, j)
    BY <1>2 DEF RemoveAt, MP!RemoveAt
  <2>2. /\ MP!ListaBien(k) /\ Len(k) = Len(l) - 1
        /\ \A i \in 1..Len(l) - 1 : k[i] = l[IF i < j THEN i ELSE i + 1]
    BY <2>1, MP!ListaSinUno, SupuestosTablas
  <2>3. Len(l) \in Nat /\ DOMAIN l = 1..Len(l) /\ DOMAIN k = 1..Len(k)
    <3> DEFINE S == MP!Segms \cup {MP!Segmento0}
    <3>1. l \in Seq(S) /\ k \in Seq(S)
      BY <2>2 DEF MP!ListaBien
    <3> HIDE DEF S
    <3> QED
      BY <3>1
  <2>4. \A i \in DOMAIN k : (IF i < j THEN i ELSE i + 1) \in DOMAIN l
                            /\ k[i] = l[IF i < j THEN i ELSE i + 1]
    BY <2>2, <2>3
  <2> QED
    BY <2>4 DEF Contenida
<1> QED
  BY <1>1, <1>2 DEF MP!QuitaDe, RemoveAt, MP!RemoveAt

LEMMA ConUna ==
    ASSUME MP!Invariante, NEW p \in DOMAIN tabla, NEW k, MP!ListaBien(k), tabla' = MP!Con(tabla, p, k),
           Contenida(k, tabla[p])
    PROVE  /\ DOMAIN tabla' = DOMAIN tabla /\ \A q \in DOMAIN tabla : Contenida(tabla'[q], tabla[q])
           /\ tabla'[p] = k /\ \A q \in DOMAIN tabla : q # p => tabla'[q] = tabla[q]
<1>1. MP!TablaBien(tabla)
  BY Hechos
<1>2. MP!Cambia(tabla, tabla', p, k)
  BY <1>1, MP!ConEs, SupuestosTablas
<1> QED
  BY <1>2, ContenidaSi DEF MP!Cambia

LEMMA CopiasResponderEliminar ==
    ASSUME MP!Invariante, MP!Invariante', SoloFirst, Copias, ResponderEliminar
    PROVE  Copias'
<1> DEFINE p == pedido.pid
<1>1. /\ MP!EliminarSegmento /\ UNCHANGED <<copia, cpu, tabla_general, operacion, creados>>
  BY IgualEliminarSegmento DEF ResponderEliminar
<1>2. pedido # Nada /\ pedido.op = "ELIMINAR_SEGMENTO" /\ pedido' = Nada /\ vivos' = vivos
  BY <1>1 DEF MP!EliminarSegmento, MP!Atiende
<1>3. PICK k : MP!ListaBien(k) /\ tabla' = MP!Con(tabla, p, k) /\ MP!QuitaDe(tabla[p], pedido.id, k)
  BY <1>1, MP!EliminarTablas, SupuestosTablas
<1>4. ~PideCreacion /\ p = cpu /\ p \in DOMAIN tabla
  BY <1>2, Hechos DEF PideCreacion, Copias, Pedidor, MP!PedidoBien
<1>5. MP!ListaBien(tabla[p])
  BY <1>4, Hechos
<1>6. Contenida(k, tabla[p])
  BY <1>3, <1>5, QuitaContenida
<1>7. /\ DOMAIN tabla' = DOMAIN tabla /\ \A q \in DOMAIN tabla : Contenida(tabla'[q], tabla[q])
      /\ \A q \in DOMAIN tabla : q # p => tabla'[q] = tabla[q]
  BY <1>3, <1>4, <1>6, ConUna
<1>8. operacion # Nada => tabla'[operacion.pid] = tabla[operacion.pid]
  BY <1>4, <1>7, Hechos DEF Copias, Pendiente
<1> QED
  BY <1>1, <1>2, <1>4, <1>7, <1>8, CopiasMenos

LEMMA CopiasResponderFinalizar ==
    ASSUME MP!Invariante, MP!Invariante', SoloFirst, Copias, ResponderFinalizar
    PROVE  Copias'
<1> DEFINE p == pedido.pid
<1>1. /\ MP!EliminarProceso /\ UNCHANGED <<copia, cpu, tabla_general, operacion, creados>>
  BY IgualEliminarProceso DEF ResponderFinalizar
<1>2. pedido # Nada /\ pedido.op = "FINALIZAR" /\ pedido' = Nada /\ vivos' = vivos
  BY <1>1 DEF MP!EliminarProceso, MP!Atiende
<1>3. PICK k : MP!ListaBien(k) /\ tabla' = MP!Con(tabla, p, k) /\ MP!Recortada(k, tabla[p], 1)
  BY <1>1, MP!EliminarProcesoTablas, SupuestosTablas
<1>4. ~PideCreacion /\ p \notin vivos /\ p \in DOMAIN tabla
  BY <1>2, Hechos DEF PideCreacion, Copias, Pedidor, MP!PedidoBien
<1>5. MP!ListaBien(tabla[p])
  BY <1>4, Hechos
<1>6. Contenida(k, tabla[p])
  <2> DEFINE S == MP!Segms \cup {MP!Segmento0}
  <2>1. k \in Seq(S) /\ tabla[p] \in Seq(S) /\ k # <<>> /\ tabla[p] # <<>>
    BY <1>3, <1>5 DEF MP!ListaBien
  <2>2. Len(k) = 1 /\ k[1] = tabla[p][1]
    BY <1>3 DEF MP!Recortada
  <2> HIDE DEF S
  <2>3. DOMAIN k = {1} /\ 1 \in DOMAIN tabla[p]
    BY <2>1, <2>2
  <2> QED
    BY <2>2, <2>3 DEF Contenida
<1>7. /\ DOMAIN tabla' = DOMAIN tabla /\ \A q \in DOMAIN tabla : Contenida(tabla'[q], tabla[q])
      /\ \A q \in DOMAIN tabla : q # p => tabla'[q] = tabla[q]
  BY <1>3, <1>4, <1>6, ConUna
<1>8. operacion # Nada => tabla'[operacion.pid] = tabla[operacion.pid]
  BY <1>4, <1>7, Hechos DEF Copias, Pendiente
<1> QED
  BY <1>1, <1>2, <1>4, <1>7, <1>8, CopiasMenos

\* No request, and no process, is the value that stands for none.
Aparte == Nada \notin M!Pedidos /\ Nadie \notin 1..MaxProcesos

LEMMA CopiasCompactar ==
    ASSUME TamSegmento0 > 0, Aparte, MP!Invariante, MP!Invariante', SoloFirst, Copias, Compactar
    PROVE  Copias'
<1>1. /\ UNCHANGED <<copia, cpu, operacion, creados, vivos>> /\ operacion = Nada
      /\ tabla' = MP!TablaCompacta /\ tabla_general' = tabla'
      /\ pedido # Nada /\ pedido.op = "REALIZAR_COMPACTACION"
      /\ pedido' = [pedido EXCEPT !.op = "CREAR_SEGMENTO"]
  BY IgualTabla DEF Compactar, M!Compactar, M!Atiende, MutexCompresion
<1>2. /\ pedido.pid \in DOMAIN tabla /\ pedido.id \in Ids /\ pedido.tamanio \in Tamanios
      /\ pedido' = [op |-> "CREAR_SEGMENTO", pid |-> pedido.pid, id |-> pedido.id, tamanio |-> pedido.tamanio]
  BY <1>1, Hechos, MP!PedidoEs, SupuestosTablas DEF MP!Atiende
<1>3. pedido' # Nada
  <2>1. pedido.pid \in 1..MaxProcesos
    <3>1. Len(tabla) <= MaxProcesos /\ DOMAIN tabla = 1..Len(tabla) /\ Len(tabla) \in Nat
      BY Hechos DEF MP!TablaBien
    <3> QED
      BY <1>2, <3>1, SupuestosTablas
  <2>2. pedido' \in M!Pedidos
    BY <1>2, <2>1 DEF M!Pedidos
  <2> QED
    BY <2>2 DEF Aparte
<1>4. PideCreacion /\ PideCreacion' /\ Usadas' = Usadas
  <2>1. PideCreacion /\ PideCreacion'
    BY <1>1, <1>2, <1>3 DEF PideCreacion
  <2> QED
    BY <1>1, <2>1 DEF Usadas
<1>5. MP!TablasBien
  BY DEF MP!Invariante, MP!TablasBien
<1>6. /\ DOMAIN tabla' = DOMAIN tabla
      /\ \A p \in DOMAIN tabla : /\ DOMAIN tabla'[p] = DOMAIN tabla[p]
                                 /\ \A i \in DOMAIN tabla[p] : tabla'[p][i].id = tabla[p][i].id
  BY <1>1, <1>5, MP!TablaCompactaEs, SupuestosTablas
<1>7. \A p \in DOMAIN tabla : tabla'[p] \in Tablas /\ Vigente(tabla'[p], tabla'[p])
  <2>1. MP!TablaBien(tabla')
    BY DEF MP!Invariante
  <2> QED
    BY <1>6, <2>1, ListaTipo DEF MP!TablaBien
<1>8. Len(tabla') = Len(tabla) /\ tabla' \in Seq(Tablas)
  <2> DEFINE S == Seq(MP!Segms \cup {MP!Segmento0})
             T == Tablas
  <2>1. tabla' \in Seq(S)
    BY DEF MP!Invariante, MP!TablaBien
  <2>2. \A p \in DOMAIN tabla' : tabla'[p] \in T
    BY <1>6, <1>7
  <2> HIDE DEF S, T
  <2>3. tabla' \in Seq(T)
    BY <2>1, <2>2
  <2> QED
    BY <1>6, <2>3, MenosLargo DEF T
<1>9. TiposCopias'
  <2>1. Len(tabla) \in Nat
    BY Hechos
  <2> QED
    BY <1>1, <1>8, <2>1 DEF Copias, TiposCopias
<1>10. Pedidor'
  BY <1>1, <1>2, <1>4 DEF Copias, Pedidor
<1>11. Frescos'
  <2>1. \A p \in DOMAIN tabla : Hasta(tabla'[p], Usadas)
    BY <1>6 DEF Copias, Frescos, Hasta
  <2> QED
    BY <1>1, <1>4, <1>6, <2>1 DEF Copias, Frescos
<1>12. AlDia'
  <2>1. \A p \in vivos : p \in DOMAIN tabla
    BY Hechos
  <2> QED
    BY <1>1, <1>6, <1>7, <2>1 DEF AlDia, ActualizarDeLaTablaGeneral
<1>13. EnCpu'
  BY <1>4 DEF EnCpu
<1>14. Pendiente'
  BY <1>1 DEF Pendiente
<1> QED
  BY <1>9, <1>10, <1>11, <1>12, <1>13, <1>14 DEF Copias

LEMMA CopiasAbrir ==
    ASSUME MP!Invariante, MP!Invariante', Copias, Abrir, Nadie \notin 1..MaxProcesos, SoloFirst
    PROVE  Copias'
<1> DEFINE n == Len(tabla) + 1
           e == <<M!Segmento0>>
<1>1. /\ tabla' = Append(tabla, e) /\ copia' = Append(copia, e)
      /\ vivos' = vivos \cup {n} /\ Len(tabla) < MaxProcesos
      /\ UNCHANGED <<pedido, cpu, tabla_general, operacion, creados>>
  BY DEF Abrir, M!InicializarEstructura
<1>2. /\ Len(tabla) \in Nat /\ DOMAIN tabla = 1..Len(tabla) /\ vivos \subseteq DOMAIN tabla
      /\ n \in 1..MaxProcesos
  BY <1>1, Hechos, SupuestosTablas
<1>3. /\ DOMAIN tabla' = DOMAIN tabla \cup {n} /\ tabla'[n] = e /\ n \notin DOMAIN tabla
      /\ \A q \in DOMAIN tabla : tabla'[q] = tabla[q]
      /\ Len(tabla') = n
  <2> DEFINE S == Seq(MP!Segms \cup {MP!Segmento0})
  <2>1. tabla \in Seq(S)
    BY Hechos DEF MP!TablaBien
  <2>2. e \in S
    BY IgualAbrir
  <2> HIDE DEF S, e
  <2> QED
    BY <1>1, <2>1, <2>2
<1>4. e \in Tablas /\ Vigente(e, e)
  <2>1. MP!ListaBien(tabla'[n])
    BY <1>3 DEF MP!Invariante, MP!TablaBien
  <2> QED
    BY <1>3, <2>1, ListaTipo
<1>5. e[1] = M!Segmento0 /\ DOMAIN e = {1} /\ M!Segmento0.id = 0
  BY DEF M!Segmento0, M!Segmento
<1> HIDE DEF e
<1>6. /\ copia' \in Seq(Tablas) /\ Len(copia') = n /\ DOMAIN copia' = DOMAIN tabla'
      /\ copia'[n] = e /\ \A q \in DOMAIN tabla : copia'[q] = copia[q]
  <2> DEFINE T == Tablas
  <2>1. copia \in Seq(T) /\ Len(copia) = Len(tabla) /\ e \in T
    BY <1>4 DEF Copias, TiposCopias
  <2> HIDE DEF T
  <2>2. copia' \in Seq(T) /\ Len(copia') = n /\ DOMAIN copia' = 1..n
        /\ copia'[n] = e /\ \A q \in 1..Len(copia) : copia'[q] = copia[q]
    BY <1>1, <1>2, <2>1
  <2> QED
    BY <1>2, <1>3, <2>1, <2>2 DEF T
<1>7. DOMAIN tabla_general \subseteq DOMAIN tabla /\ Len(tabla_general) \in Nat
  BY HechosCopias DEF Copias, TiposCopias
<1>8. PideCreacion' = PideCreacion /\ Usadas' = Usadas /\ Usadas \in Int
  BY <1>1 DEF PideCreacion, Usadas, Copias, TiposCopias
<1>9. TiposCopias'
  BY <1>1, <1>2, <1>3, <1>6, <1>7 DEF Copias, TiposCopias
<1>10. Pedidor'
  <2>1. pedido # Nada => pedido.pid # n
    BY <1>3, Hechos DEF MP!PedidoBien
  <2> QED
    BY <1>1, <1>8, <2>1 DEF Copias, Pedidor
<1>11. Usadas >= 0
  <2>1. creados \in Nat
    BY DEF Copias, TiposCopias
  <2>2. CASE PideCreacion
    <3>1. pedido.id \in Ids /\ pedido.id = creados
      BY <2>2, Hechos, MP!PedidoEs, SupuestosTablas DEF Copias, Pedidor, PideCreacion, MP!Atiende
    <3> QED
      BY <2>1, <2>2, <3>1, SupuestosTablas DEF Usadas
  <2> QED
    BY <2>1, <2>2 DEF Usadas
<1>12. Frescos'
  <2>1. Hasta(e, Usadas)
    BY <1>5, <1>8, <1>11 DEF Hasta
  <2> QED
    BY <1>1, <1>3, <1>6, <1>7, <1>8, <2>1 DEF Copias, Frescos
<1>13. AlDia'
  <2> SUFFICES ASSUME NEW q \in vivos'
               PROVE  /\ Vigente(ActualizarDeLaTablaGeneral(q)', tabla'[q])
                      /\ q \notin DOMAIN tabla_general => IdsDe(tabla'[q]) \subseteq IdsDe(copia'[q])
    BY <1>1 DEF AlDia
  <2>1. CASE q = n
    BY <1>1, <1>3, <1>4, <1>6, <1>7, <2>1 DEF ActualizarDeLaTablaGeneral
  <2>2. CASE q # n
    BY <1>1, <1>2, <1>3, <1>6, <2>2 DEF Copias, AlDia, ActualizarDeLaTablaGeneral
  <2> QED
    BY <2>1, <2>2
<1>14. EnCpu'
  <2>1. cpu # Nadie => cpu \in DOMAIN tabla
    BY <1>2 DEF SoloFirst
  <2> QED
    BY <1>1, <1>3, <1>6, <1>8, <2>1 DEF Copias, EnCpu
<1>15. Pendiente'
  BY <1>1, <1>2, <1>3 DEF Copias, Pendiente, Verdadera
<1> QED
  BY <1>9, <1>10, <1>12, <1>13, <1>14, <1>15 DEF Copias

\* Copias is inductive, once the memory is right.
LEMMA CopiasPaso ==
    ASSUME TamSegmento0 > 0, Aparte, MP!Invariante, MP!Invariante', SoloFirst, Copias, [Next]_vars
    PROVE  Copias'
<1>1. Nadie \notin DOMAIN tabla
  <2>1. Len(tabla) <= MaxProcesos /\ DOMAIN tabla = 1..Len(tabla) /\ Len(tabla) \in Nat
    BY Hechos DEF MP!TablaBien
  <2>2. DOMAIN tabla \subseteq 1..MaxProcesos
    BY <2>1, SupuestosTablas
  <2> QED
    BY <2>2 DEF Aparte
<1>2. CASE Abrir
  BY <1>2, CopiasAbrir DEF Aparte
<1>3. CASE Despachar
  BY <1>3, CopiasDespachar
<1>4. CASE Desalojar
  BY <1>1, <1>4, CopiasDesalojar
<1>5. CASE Pedir
  BY <1>5, CopiasPedir
<1>6. CASE Ejecuta /\ Terminar
  BY <1>1, <1>6, CopiasTerminar
<1>7. CASE Acceder
  <2>1. PICK dl \in Direcciones, n \in TamRegistros :
            NoEliminado(cpu, dl) /\ (MovOut(dl, n) \/ SegFault(dl, n) \/ FOperacion(dl, n))
    BY <1>7 DEF Acceder
  <2>2. Ejecuta
    BY <1>7 DEF Acceder
  <2>3. CASE MovOut(dl, n)
    BY <2>3, CopiasIgual DEF MovOut
  <2>4. CASE SegFault(dl, n)
    BY <1>6, <2>2, <2>4 DEF SegFault
  <2>5. CASE FOperacion(dl, n)
    BY <1>1, <2>1, <2>2, <2>5, CopiasFOperacion
  <2> QED
    BY <2>1, <2>3, <2>4, <2>5
<1>8. CASE ResponderCrear
  BY <1>1, <1>8, CopiasResponderCrear
<1>9. CASE ResponderEliminar
  BY <1>9, CopiasResponderEliminar
<1>10. CASE ResponderFinalizar
  BY <1>10, CopiasResponderFinalizar
<1>11. CASE Compactar
  BY <1>11, CopiasCompactar
<1>12. CASE FsTermina
  BY <1>12, CopiasIgual DEF FsTermina
<1>13. CASE UNCHANGED vars
  BY <1>13, CopiasIgual DEF vars
<1> QED
  BY <1>2, <1>3, <1>4, <1>5, <1>6, <1>7, <1>8, <1>9, <1>10, <1>11, <1>12, <1>13
  DEF Next, Kernel, AtenderModulos, Salir

-----------------------------------------------------------------------------
(* What a compaction does to the bytes *)

LEMMA IgualCompacta ==
    /\ \A l : M!Antes(l) = MP!Antes(l)
    /\ \A l : M!BaseCompacta(l) = MP!BaseCompacta(l)
  BY Zenon DEF M!BaseCompacta, MP!BaseCompacta, M!Base, MP!Base, M!Movidos, MP!Movidos, M!Antes,
     MP!Antes, M!Lugares, MP!Lugares, M!Cardinality, MP!Cardinality, M!Tamanio, MP!Tamanio,
     M!SumFunctionOnSet, MP!SumFunctionOnSet, M!FoldFunctionOnSet, MP!FoldFunctionOnSet,
     M!MapThenFoldSet, MP!MapThenFoldSet

\* The places of the segments that are copied, in their order.
Puestos == Len(tabla)..MP!Cardinality(MP!Lugares) - 1

LEMMA IgualTamano == \A S : Cardinality(S) = MP!Cardinality(S)
  BY Zenon DEF Cardinality, MP!Cardinality

\* Orden(n) is the n-th segment by base.
LEMMA OrdenEs ==
    ASSUME MP!TablasBien, TamSegmento0 > 0, NEW v \in Puestos
    PROVE  Orden(v) \in MP!Propios /\ MP!Puesto(Orden(v)) = v
<1> DEFINE P(l) == l \in MP!Lugares /\ MP!Puesto(l) = v
<1>1. (\E l : P(l)) /\ \A l : P(l) => l \in MP!Propios
  BY MP!PuestoEs, SupuestosTablas DEF Puestos
<1>2. Orden(v) = CHOOSE l \in MP!Lugares : MP!Puesto(l) = v
  BY IgualLugar, IgualCompacta, IgualTamano, Zenon DEF Orden, MP!Puesto
<1>3. P(Orden(v))
  BY <1>1, <1>2, Zenon
<1> QED
  BY <1>1, <1>3

\* The first i of them are in their place and the others where they were.
Lugar(l, i) == IF MP!Puesto(l) < Len(tabla) + i THEN MP!Nueva(l) ELSE MP!Base(l)

Copiadas(m, i) ==
    /\ DOMAIN m = 0..TamMemoria - 1
    /\ \A d \in 0..TamSegmento0 - 1 : m[d] = memoria_usuario[d]
    /\ \A l \in MP!Propios : \A c \in 0..MP!Tamanio(l) - 1 :
            m[Lugar(l, i) + c] = memoria_usuario[MP!Base(l) + c]

\* One memcpy: the segments before are in place and those after untouched.
LEMMA CopiarUno ==
    ASSUME MP!TablasBien, TamSegmento0 > 0, NEW i \in Nat, Len(tabla) + i \in Puestos, NEW m,
           Copiadas(m, i)
    PROVE  Copiadas(Copiar(m, Orden(Len(tabla) + i)), i + 1)
<1> DEFINE l == Orden(Len(tabla) + i)
           b == MP!Nueva(l)
           x == MP!Base(l)
           t == MP!Tamanio(l)
           w == Copiar(m, l)
<1>1. l \in MP!Propios /\ MP!Puesto(l) = Len(tabla) + i
  BY OrdenEs
<1>2. /\ x \in Nat /\ t \in Nat /\ t >= 1 /\ TamSegmento0 <= b /\ b <= x /\ x + t <= TamMemoria
      /\ b \in Nat
  BY <1>1, MP!PropioEs, MP!NuevaEs, SupuestosTablas
<1>3. w = [d \in DOMAIN m |-> IF d \in b..b + t - 1 THEN m[x + d - b] ELSE m[d]]
  <2>1. MP!BaseCompacta(l) = b
    BY <1>1, MP!BaseCompactaEs, SupuestosTablas DEF MP!Nueva
  <2> HIDE DEF l
  <2> QED
    BY <2>1, IgualLugar, IgualCompacta, Zenon DEF Copiar
<1>4. Len(tabla) \in Nat /\ TamMemoria \in Nat /\ TamSegmento0 \in Nat /\ MP!Propios \subseteq MP!Lugares
  BY MP!CerosEs, SupuestosTablas
<1>5. DOMAIN m = 0..TamMemoria - 1 /\ DOMAIN w = 0..TamMemoria - 1
  BY <1>3, Zenon DEF Copiadas
<1> HIDE DEF l, b, x, t, w
<1>6. \A d \in 0..TamMemoria - 1 : w[d] = IF d \in b..b + t - 1 THEN m[x + d - b] ELSE m[d]
  BY <1>3, <1>5
<1>7. ASSUME NEW d \in 0..TamSegmento0 - 1 PROVE w[d] = memoria_usuario[d]
  <2>1. d \in 0..TamMemoria - 1 /\ d \notin b..b + t - 1
    BY <1>2, <1>4, SupuestosTablas
  <2>2. w[d] = m[d]
    BY <1>6, <2>1
  <2> QED
    BY <2>2 DEF Copiadas
<1>8. ASSUME NEW k \in MP!Propios, NEW c \in 0..MP!Tamanio(k) - 1
      PROVE  w[Lugar(k, i + 1) + c] = memoria_usuario[MP!Base(k) + c]
  <2> DEFINE y == MP!Base(k)
             z == MP!Nueva(k)
             u == MP!Tamanio(k)
  <2>1. /\ y \in Nat /\ u \in Nat /\ u >= 1 /\ y + u <= TamMemoria /\ z \in Nat /\ z <= y
        /\ MP!Puesto(k) \in Nat
    BY <1>4, MP!PropioEs, MP!NuevaEs, MP!PuestoTipo, SupuestosTablas
  <2>2. m[Lugar(k, i) + c] = memoria_usuario[y + c]
    BY DEF Copiadas
  <2>3. /\ k # l => y < x \/ x < y
        /\ y < x => z + u <= b /\ MP!Puesto(k) < MP!Puesto(l)
        /\ x < y => x + t <= y /\ MP!Puesto(l) < MP!Puesto(k)
    <3>1. x \in Nat /\ y \in Nat /\ x = MP!Base(l) /\ k \in MP!Lugares /\ l \in MP!Lugares
      BY <1>1, <1>2, <1>4, <2>1 DEF x
    <3>2. k # l => y # x
      BY <1>1, <3>1, MP!UnoAntesDeOtro, SupuestosTablas
    <3>3. x < y => x + t <= y
      BY <1>1, <3>1, MP!UnoAntesDeOtro, SupuestosTablas DEF t
    <3>4. y < x => z + u <= b
      BY <1>1, <3>1, MP!NuevasAparte, SupuestosTablas DEF b
    <3>5. /\ y < x => MP!Puesto(k) < MP!Puesto(l)
          /\ x < y => MP!Puesto(l) < MP!Puesto(k)
      BY <3>1, MP!PuestoCrece, SupuestosTablas
    <3> HIDE DEF y, z, u
    <3> QED
      BY <3>1, <3>2, <3>3, <3>4, <3>5
  <2>4. c \in Nat /\ c < u
    BY <2>1
  <2> HIDE DEF y, z, u
  <2>5. CASE k = l
    <3>1. Lugar(k, i) = x /\ Lugar(k, i + 1) = b /\ u = t /\ y = x
      BY <1>1, <1>4, <2>5 DEF Lugar, b, x, t, u, y
    <3>2. b + c \in 0..TamMemoria - 1 /\ b + c \in b..b + t - 1 /\ x + (b + c) - b = x + c
      BY <1>2, <1>4, <2>1, <2>4, <3>1
    <3>3. w[b + c] = m[x + c]
      BY <1>6, <3>2
    <3> QED
      BY <2>2, <3>1, <3>3 DEF y
  <2>6. CASE y < x
    <3>1. Lugar(k, i) = z /\ Lugar(k, i + 1) = z
      BY <1>1, <1>4, <2>1, <2>3, <2>6 DEF Lugar, z
    <3>2. z + c \in 0..TamMemoria - 1 /\ z + c \notin b..b + t - 1
      BY <1>2, <1>4, <2>1, <2>3, <2>4, <2>6
    <3>3. w[z + c] = m[z + c]
      BY <1>6, <3>2
    <3> QED
      BY <2>2, <3>1, <3>3 DEF y
  <2>7. CASE x < y
    <3>1. Lugar(k, i) = y /\ Lugar(k, i + 1) = y
      BY <1>1, <1>4, <2>1, <2>3, <2>7 DEF Lugar, y
    <3>2. y + c \in 0..TamMemoria - 1 /\ y + c \notin b..b + t - 1
      BY <1>2, <1>4, <2>1, <2>3, <2>4, <2>7
    <3>3. w[y + c] = m[y + c]
      BY <1>6, <3>2
    <3> QED
      BY <2>2, <3>1, <3>3 DEF y
  <2> QED
    BY <2>3, <2>5, <2>6, <2>7
<1>9. Copiadas(w, i + 1)
  BY <1>5, <1>7, <1>8 DEF Copiadas
<1> QED
  BY <1>9 DEF w, l

\* The definition of `tras` in CopiarSegmentos defines a function.
Sucesion(g, n) ==
    g = [i \in 0..n |-> IF i = 0 THEN memoria_usuario
                        ELSE Copiar(g[i - 1], Orden(Len(tabla) + i - 1))]

\* The recursive function of CopiarSegmentos is one.
LEMMA SucesionExiste ==
    ASSUME NEW n \in Nat
    PROVE  \E g : Sucesion(g, n)
<1> DEFINE F(m, i) == Copiar(m, Orden(Len(tabla) + i - 1))
           Parcial(g, m) == g = [i \in 0..m |-> IF i = 0 THEN memoria_usuario ELSE F(g[i - 1], i)]
           P == {m \in Nat : \E g : Parcial(g, m)}
<1> HIDE DEF F
<1>1. 0 \in P
  <2> DEFINE g == [i \in 0..0 |-> memoria_usuario]
  <2>1. Parcial(g, 0)
    OBVIOUS
  <2> HIDE DEF Parcial
  <2> QED
    BY <2>1
<1>2. ASSUME NEW m \in P PROVE m + 1 \in P
  <2>1. PICK g : Parcial(g, m)
    OBVIOUS
  <2> DEFINE h == [i \in 0..m + 1 |-> IF i = m + 1 THEN F(g[m], m + 1) ELSE g[i]]
  <2>2. DOMAIN g = 0..m /\ \A i \in 0..m : g[i] = IF i = 0 THEN memoria_usuario ELSE F(g[i - 1], i)
    BY <2>1, Zenon
  <2>3. \A i \in 0..m : h[i] = g[i]
    OBVIOUS
  <2>4. ASSUME NEW i \in 0..m + 1
        PROVE  h[i] = IF i = 0 THEN memoria_usuario ELSE F(h[i - 1], i)
    <3>1. CASE i = m + 1
      <4>1. h[i] = F(g[m], m + 1) /\ i - 1 = m /\ h[m] = g[m] /\ i # 0
        BY <2>3, <3>1
      <4> HIDE DEF h
      <4> QED
        BY <3>1, <4>1
    <3>2. CASE i # m + 1
      <4>1. i \in 0..m /\ h[i] = g[i] /\ (i # 0 => i - 1 \in 0..m)
        BY <3>2
      <4>2. i # 0 => h[i - 1] = g[i - 1]
        BY <2>3, <4>1
      <4> HIDE DEF h
      <4> QED
        BY <2>2, <4>1, <4>2
    <3> QED
      BY <3>1, <3>2
  <2>5. h = [i \in 0..m + 1 |-> h[i]]
    OBVIOUS
  <2> HIDE DEF h
  <2>6. Parcial(h, m + 1)
    BY <2>4, <2>5
  <2> HIDE DEF Parcial
  <2>7. m + 1 \in Nat
    OBVIOUS
  <2> QED
    BY <2>6, <2>7
<1> HIDE DEF Parcial
<1>3. P \in SUBSET Nat
  OBVIOUS
<1>4. P = Nat
  <2> HIDE DEF P
  <2> QED
    BY <1>1, <1>2, <1>3, InduccionNat
<1> QED
  BY <1>4 DEF Parcial, F, Sucesion

\* All the segments are in their place after the last copy.
LEMMA CopiarTodos ==
    ASSUME MP!TablasBien, TamSegmento0 > 0, DOMAIN memoria_usuario = 0..TamMemoria - 1
    PROVE  /\ DOMAIN CopiarSegmentos = 0..TamMemoria - 1
           /\ \A d \in 0..TamSegmento0 - 1 : CopiarSegmentos[d] = memoria_usuario[d]
           /\ \A l \in MP!Propios : \A c \in 0..MP!Tamanio(l) - 1 :
                 CopiarSegmentos[MP!Nueva(l) + c] = memoria_usuario[MP!Base(l) + c]
<1> DEFINE N == Len(tabla)
           n == Cardinality(M!Lugares) - N
           g == CHOOSE f : Sucesion(f, n)
<1>1. N \in Nat /\ n \in Nat /\ MP!Cardinality(MP!Lugares) = N + n
  <2>1. /\ N \in Nat /\ MP!Cardinality(MP!Propios) = MP!Cardinality(MP!Lugares) - N
        /\ IsFiniteSet(MP!Propios) /\ IsFiniteSet(MP!Lugares)
    BY MP!CerosEs, MP!LugaresFinitos, SupuestosTablas DEF MP!TablasBien, IsFiniteSet, MP!IsFiniteSet
  <2>2. Cardinality(MP!Propios) \in Nat /\ Cardinality(MP!Lugares) \in Nat
    BY <2>1, FS_CardinalityType
  <2> QED
    BY <2>1, <2>2, IgualLugar, IgualTamano
<1>2. CopiarSegmentos = g[n]
  BY Zenon DEF CopiarSegmentos, Sucesion
<1>3. Sucesion(g, n)
  <2> HIDE DEF n
  <2> QED
    BY <1>1, SucesionExiste
<1> HIDE DEF g, n
<1>4. \A i \in 0..n : g[i] = IF i = 0 THEN memoria_usuario ELSE Copiar(g[i - 1], Orden(N + i - 1))
  BY <1>3, Zenon DEF Sucesion
<1>5. \A l \in MP!Propios : MP!Puesto(l) \in N..N + n - 1
  <2> SUFFICES ASSUME NEW l \in MP!Propios PROVE MP!Puesto(l) \in N..N + n - 1
    OBVIOUS
  <2>1. l \in MP!Movidos /\ l \in MP!Lugares
    BY MP!MovidosEs, SupuestosTablas DEF MP!Movidos
  <2>2. MP!Puesto(l) \in Nat /\ MP!Puesto(l) < N + n
    BY <1>1, <2>1, MP!PuestoTipo, SupuestosTablas
  <2>3. MP!Puesto(l) >= N
    BY <2>1 DEF MP!Movidos, MP!Puesto
  <2> QED
    BY <1>1, <2>2, <2>3
<1> DEFINE P == {i \in Nat : i <= n => Copiadas(g[i], i)}
<1>6. 0 \in P
  <2>1. g[0] = memoria_usuario
    BY <1>1, <1>4
  <2>2. \A l \in MP!Propios : Lugar(l, 0) = MP!Base(l)
    BY <1>1, <1>5 DEF Lugar
  <2>3. Copiadas(g[0], 0)
    BY <2>1, <2>2 DEF Copiadas
  <2> QED
    BY <2>3
<1>7. ASSUME NEW i \in P PROVE i + 1 \in P
  <2>1. i \in Nat /\ i + 1 \in Nat /\ (i <= n => Copiadas(g[i], i))
    OBVIOUS
  <2> SUFFICES ASSUME i + 1 <= n PROVE Copiadas(g[i + 1], i + 1)
    BY <2>1
  <2>2. i + 1 \in 0..n /\ i + 1 # 0 /\ (i + 1) - 1 = i /\ N + (i + 1) - 1 = N + i /\ i <= n
    BY <1>1, <2>1
  <2>3. g[i + 1] = Copiar(g[i], Orden(N + i))
    BY <1>4, <2>2
  <2>4. N + i \in Puestos
    BY <1>1, <2>1 DEF Puestos
  <2>5. Copiadas(g[i], i)
    BY <2>1, <2>2
  <2> HIDE DEF P
  <2> QED
    BY <2>1, <2>3, <2>4, <2>5, CopiarUno
<1>8. P \in SUBSET Nat
  OBVIOUS
<1>9. n \in P
  <2> HIDE DEF P
  <2> QED
    BY <1>1, <1>6, <1>7, <1>8, InduccionNat
<1>10. Copiadas(CopiarSegmentos, n)
  BY <1>1, <1>2, <1>9
<1>11. \A l \in MP!Propios : Lugar(l, n) = MP!Nueva(l)
  BY <1>1, <1>5 DEF Lugar
<1> QED
  BY <1>10, <1>11 DEF Copiadas

-----------------------------------------------------------------------------
(* The bytes, and the operation that the file system has *)

\* Addresses are those of the memory, and the operation is one of a program.
ConBytes ==
    /\ DOMAIN memoria_usuario = 0..TamMemoria - 1
    /\ operacion # Nada => operacion.dl \in Direcciones /\ operacion.cant_bytes \in TamRegistros

LEMMA ConBytesInicial == Init => ConBytes
  BY DEF Init, ConBytes

LEMMA ConBytesPaso ==
    ASSUME MP!Invariante, TamSegmento0 > 0, ConBytes, [Next]_vars
    PROVE  ConBytes'
<1>1. CASE UNCHANGED <<memoria_usuario, operacion>>
  BY <1>1 DEF ConBytes
<1>2. CASE Acceder
  <2>1. PICK dl \in Direcciones, n \in TamRegistros : MovOut(dl, n) \/ SegFault(dl, n) \/ FOperacion(dl, n)
    BY <1>2 DEF Acceder
  <2>2. CASE MovOut(dl, n)
    BY <2>2 DEF MovOut, EscribirValor, ConBytes
  <2>3. CASE SegFault(dl, n)
    BY <1>1, <2>3 DEF SegFault, Terminar
  <2>4. CASE FOperacion(dl, n)
    BY <2>4 DEF FOperacion, ConBytes
  <2> QED
    BY <2>1, <2>2, <2>3, <2>4
<1>3. CASE FsTermina
  BY <1>3 DEF FsTermina, EscribirValor, ConBytes
<1>4. CASE Compactar
  <2>1. MP!TablasBien
    BY DEF MP!Invariante, MP!TablasBien
  <2>2. DOMAIN CopiarSegmentos = 0..TamMemoria - 1
    BY <2>1, CopiarTodos DEF ConBytes
  <2> QED
    BY <1>4, <2>2 DEF Compactar, ConBytes
<1> QED
  BY <1>1, <1>2, <1>3, <1>4 DEF Next, Kernel, AtenderModulos, Salir, Abrir, Despachar, Desalojar,
     Pedir, Terminar, ResponderCrear, ResponderEliminar, ResponderFinalizar, vars

\* The inductive invariant.
Inductiva == MP!Invariante /\ SoloFirst /\ Copias /\ ConBytes

LEMMA EsInductiva ==
    ASSUME TamSegmento0 > 0, Aparte
    PROVE  Spec => []Inductiva
<1>1. Init => Inductiva
  BY InvarianteInicial, SoloFirstInicial, CopiasInicial, ConBytesInicial DEF Inductiva
<1>2. Inductiva /\ [Next]_vars => Inductiva'
  BY PasoInvariante, SoloFirstPaso, CopiasPaso, ConBytesPaso DEF Inductiva
<1> QED
  BY <1>1, <1>2, PTL DEF Spec

-----------------------------------------------------------------------------
(* What the invariant says *)

\* The address that the cpu obtains (cpu.c:699-728) is that of the byte the
\* program means, whatever happened since its copy of the table was made.
THEOREM TraduccionCorrectaSiempre ==
    ASSUME TamSegmento0 > 0, Aparte
    PROVE  Spec => []TraduccionCorrecta
<1>1. Inductiva => TraduccionCorrecta
  BY Traduce, Zenon DEF TraduccionCorrecta, Inductiva
<1> QED
  BY <1>1, EsInductiva, PTL

\* The address that went to the file system with a blocked process
\* (kernel.c:313-316) still is that of its byte.
THEOREM DireccionPendienteCorrecta ==
    ASSUME TamSegmento0 > 0, Aparte
    PROVE  Spec => []DireccionPendiente
<1>1. Inductiva => DireccionPendiente
  BY DEF Inductiva, Copias, Pendiente, DireccionPendiente
<1> QED
  BY <1>1, EsInductiva, PTL

\* A segment that the cpu does not find was created after the last compaction,
\* whose table each dispatch puts in the PCB (kernel.c:1113, 1217).
THEOREM SoloFaltanPosterioresCorrecto ==
    ASSUME TamSegmento0 > 0, Aparte
    PROVE  Spec => []SoloFaltanPosteriores
<1>1. Inductiva => SoloFaltanPosteriores
  <2> SUFFICES ASSUME MP!Invariante, SoloFirst, Copias, Ejecuta, NEW id \in M!Ocupados(cpu)
               PROVE  id \in IdsDe(copia[cpu]) \/
                        (cpu \in DOMAIN tabla_general /\ id \notin IdsDe(tabla_general[cpu]))
    BY DEF SoloFaltanPosteriores, Inductiva
  <2>1. cpu # Nadie /\ cpu \in vivos /\ ~PideCreacion
    BY EjecutaEs
  <2>2. id \in IdsDe(tabla[cpu])
    BY DEF M!Ocupados, IdsDe
  <2> QED
    BY <2>1, <2>2 DEF Copias, EnCpu, AlDia
<1> QED
  BY <1>1, EsInductiva, PTL

\* The types: the tables of the PCBs and of the kernel are tables of the memory,
\* one for each process at most, and only processes that live run or wait for
\* the file system.
THEOREM TipoTablasCorrecto ==
    ASSUME TamSegmento0 > 0, Aparte
    PROVE  Spec => []TipoOK
<1>1. ASSUME Inductiva PROVE TipoOK
  <2>1. MP!TipoOK
    BY <1>1, MP!TipoDeInvariante, SupuestosTablas DEF Inductiva
  <2>2. M!TipoOK
    BY <2>1, Zenon DEF M!TipoOK, MP!TipoOK, M!Rango, MP!Rango, M!Pedidos, MP!Pedidos
  <2> QED
    BY <1>1, <2>2 DEF TipoOK, Inductiva, SoloFirst, Copias, TiposCopias, Pendiente, ConBytes
<1> QED
  BY <1>1, EsInductiva, PTL

-----------------------------------------------------------------------------
(* The contents of the segments *)

\* The bytes of s in m.
FilaDe(m, s) == [i \in 0..s.tamanio - 1 |-> m[s.base + i]]

\* The segments of a process, without the one that all share.
IdsPropios(l) == {l[i].id : i \in 2..Len(l)}

ClavesDe(T) == {<<0, 0>>} \cup UNION {{p} \X IdsPropios(T[p]) : p \in DOMAIN T}

\* c is what the segments of the tables T contain when the memory is m.
Refleja(c, T, m) ==
    /\ c = [k \in ClavesDe(T) |-> c[k]]
    /\ c[<<0, 0>>] = FilaDe(m, M!Segmento0)
    /\ \A p \in DOMAIN T : \A i \in 2..Len(T[p]) : c[<<p, T[p][i].id>>] = FilaDe(m, T[p][i])

ContenidoAbs == [k \in Claves |-> Fila(SegmentoDe(k))]

ReflejaAbs == Refleja(ContenidoAbs, tabla, memoria_usuario)

\* Each key is that of one segment.
LEMMA ClaveEs ==
    ASSUME NEW T
    PROVE  /\ <<0, 0>> \in ClavesDe(T)
           /\ \A p \in DOMAIN T : \A i \in 2..Len(T[p]) : <<p, T[p][i].id>> \in ClavesDe(T)
           /\ \A k \in ClavesDe(T) :
                 k = <<0, 0>> \/ \E p \in DOMAIN T : \E i \in 2..Len(T[p]) : k = <<p, T[p][i].id>>
<1>1. ASSUME NEW p \in DOMAIN T, NEW i \in 2..Len(T[p]) PROVE <<p, T[p][i].id>> \in ClavesDe(T)
  <2>1. T[p][i].id \in IdsPropios(T[p])
    BY DEF IdsPropios
  <2>2. <<p, T[p][i].id>> \in {p} \X IdsPropios(T[p])
    BY <2>1
  <2> QED
    BY <2>2 DEF ClavesDe
<1>2. ASSUME NEW k \in ClavesDe(T), k # <<0, 0>>
      PROVE  \E p \in DOMAIN T : \E i \in 2..Len(T[p]) : k = <<p, T[p][i].id>>
  <2>1. PICK p \in DOMAIN T : k \in {p} \X IdsPropios(T[p])
    BY <1>2 DEF ClavesDe
  <2>2. PICK x \in IdsPropios(T[p]) : k = <<p, x>>
    BY <2>1
  <2> QED
    BY <2>2 DEF IdsPropios
<1> QED
  BY <1>1, <1>2 DEF ClavesDe

LEMMA SegmentoDeEs ==
    ASSUME MP!Invariante, NEW p \in DOMAIN tabla, NEW i \in 2..Len(tabla[p])
    PROVE  SegmentoDe(<<p, tabla[p][i].id>>) = tabla[p][i]
<1> DEFINE l == tabla[p]
           k == <<p, l[i].id>>
           I == {j \in 1..Len(l) : l[j].id = l[i].id}
<1>1. p \in Nat /\ p >= 1 /\ MP!ListaBien(l)
  BY Hechos
<1>2. DOMAIN l = 1..Len(l) /\ Len(l) \in Nat /\ i \in DOMAIN l
  <2> DEFINE S == MP!Segms \cup {MP!Segmento0}
  <2>1. l \in Seq(S)
    BY <1>1 DEF MP!ListaBien
  <2> HIDE DEF S
  <2> QED
    BY <2>1
<1>3. I = {i}
  BY <1>1, <1>2 DEF MP!ListaBien
<1>4. k # <<0, 0>> /\ k[1] = p /\ k[2] = l[i].id
  BY <1>1
<1>5. SegmentoDe(k) = l[SelectInSeq(l, LAMBDA s : s.id = l[i].id)]
  BY <1>4 DEF SegmentoDe
<1>6. SelectInSeq(l, LAMBDA s : s.id = l[i].id) = Min(I)
  BY <1>3 DEF SelectInSeq
<1>7. Min(I) = i
  <2>1. I \in SUBSET Nat /\ I # {}
    BY <1>2, <1>3
  <2>2. Min(I) \in I
    <3> HIDE DEF I
    <3> QED
      BY <2>1, MenorExiste
  <2> QED
    BY <1>3, <2>2
<1> QED
  BY <1>5, <1>6, <1>7

\* Segmentos, through the refinement, sees just these contents.
LEMMA ReflejaEs == MP!Invariante => ReflejaAbs
<1> SUFFICES ASSUME MP!Invariante PROVE ReflejaAbs
  OBVIOUS
<1>1. Claves = ClavesDe(tabla)
  <2>1. ASSUME NEW l \in MP!Propios PROVE <<l[1], tabla[l[1]][l[2]].id>> \in ClavesDe(tabla)
    <3>1. l[1] \in DOMAIN tabla /\ l[2] \in 2..Len(tabla[l[1]])
      BY MP!PropioEs, SupuestosTablas DEF MP!TablasBien, MP!Invariante
    <3> QED
      BY <3>1, ClaveEs
  <2>2. ASSUME NEW p \in DOMAIN tabla, NEW i \in 2..Len(tabla[p])
        PROVE  <<p, i>> \in MP!Propios
    <3>1. i \in DOMAIN tabla[p]
      <4> DEFINE S == MP!Segms \cup {MP!Segmento0}
      <4>1. tabla[p] \in Seq(S)
        BY Hechos DEF MP!ListaBien
      <4> HIDE DEF S
      <4> QED
        BY <4>1
    <3>2. <<p, i>> \in MP!Lugares
      BY <3>1, Hechos, MP!LugarEs, SupuestosTablas
    <3> QED
      BY <3>2 DEF MP!Propios
  <2>3. Claves = {<<0, 0>>} \cup {<<l[1], tabla[l[1]][l[2]].id>> : l \in MP!Propios}
    BY IgualLugar, Zenon DEF Claves
  <2>4. ASSUME NEW k \in ClavesDe(tabla) PROVE k \in Claves
    <3>1. CASE k = <<0, 0>>
      BY <2>3, <3>1
    <3>2. CASE \E p \in DOMAIN tabla : \E i \in 2..Len(tabla[p]) : k = <<p, tabla[p][i].id>>
      <4>0. PICK p \in DOMAIN tabla : \E i \in 2..Len(tabla[p]) : k = <<p, tabla[p][i].id>>
        BY <3>2
      <4>1. PICK i \in 2..Len(tabla[p]) : k = <<p, tabla[p][i].id>>
        BY <4>0
      <4>2. <<p, i>> \in MP!Propios /\ <<p, i>>[1] = p /\ <<p, i>>[2] = i
        BY <2>2
      <4> QED
        BY <2>3, <4>1, <4>2
    <3> QED
      BY <3>1, <3>2, ClaveEs
  <2> QED
    BY <2>1, <2>3, <2>4, ClaveEs
<1>2. \A k \in Claves : ContenidoAbs[k] = Fila(SegmentoDe(k))
  BY DEF ContenidoAbs
<1>3. \A s : Fila(s) = FilaDe(memoria_usuario, s)
  BY Zenon DEF Fila, FilaDe
<1>4. ContenidoAbs[<<0, 0>>] = FilaDe(memoria_usuario, M!Segmento0)
  <2>1. SegmentoDe(<<0, 0>>) = M!Segmento0
    BY DEF SegmentoDe
  <2> QED
    BY <1>1, <1>2, <1>3, <2>1, ClaveEs
<1>5. ASSUME NEW p \in DOMAIN tabla, NEW i \in 2..Len(tabla[p])
      PROVE  ContenidoAbs[<<p, tabla[p][i].id>>] = FilaDe(memoria_usuario, tabla[p][i])
  BY <1>1, <1>2, <1>3, ClaveEs, SegmentoDeEs
<1>6. ContenidoAbs = [k \in Claves |-> ContenidoAbs[k]]
  BY DEF ContenidoAbs
<1> HIDE DEF ContenidoAbs
<1> QED
  BY <1>1, <1>4, <1>5, <1>6 DEF ReflejaAbs, Refleja

LEMMA ReflejaLuego == MP!Invariante' => ReflejaAbs'
  BY ReflejaEs, PTL

\* Two steps apart, a segment with the same bytes.
LEMMA Intacto ==
    ASSUME NEW c, NEW T, NEW m, Refleja(c, T, m), NEW d, NEW U, NEW w, Refleja(d, U, w),
           NEW p \in DOMAIN T \cap DOMAIN U, NEW i \in 2..Len(T[p]), NEW j \in 2..Len(U[p]),
           U[p][j].id = T[p][i].id, FilaDe(w, U[p][j]) = FilaDe(m, T[p][i])
    PROVE  d[<<p, T[p][i].id>>] = c[<<p, T[p][i].id>>]
  BY DEF Refleja

\* Contents are the same if each segment has the same bytes, wherever it is.
LEMMA ReflejaIgual ==
    ASSUME NEW c, NEW T, NEW m, Refleja(c, T, m), NEW d, NEW U, NEW w, Refleja(d, U, w),
           ClavesDe(U) = ClavesDe(T), FilaDe(w, M!Segmento0) = FilaDe(m, M!Segmento0),
           \A p \in DOMAIN T : \A i \in 2..Len(T[p]) :
              p \in DOMAIN U /\ \E j \in 2..Len(U[p]) :
                    U[p][j].id = T[p][i].id /\ FilaDe(w, U[p][j]) = FilaDe(m, T[p][i])
    PROVE  d = c
<1>1. ASSUME NEW k \in ClavesDe(T) PROVE d[k] = c[k]
  <2>1. CASE k = <<0, 0>>
    BY <2>1 DEF Refleja
  <2>2. CASE \E p \in DOMAIN T : \E i \in 2..Len(T[p]) : k = <<p, T[p][i].id>>
    BY <2>2, Intacto
  <2> QED
    BY <2>1, <2>2, ClaveEs
<1> QED
  BY <1>1 DEF Refleja

SegmentoBien(s) ==
    s.base \in Nat /\ s.tamanio \in Nat /\ s.base + s.tamanio <= TamMemoria

Separados(r, s) == r.base + r.tamanio <= s.base \/ s.base + s.tamanio <= r.base

\* A segment is in the memory and off segment 0.
LEMMA SegmentosBien ==
    ASSUME MP!Invariante, NEW p \in DOMAIN tabla
    PROVE  /\ SegmentoBien(M!Segmento0) /\ M!Segmento0.tamanio = TamSegmento0
           /\ tabla[p][1] = M!Segmento0 /\ DOMAIN tabla[p] = 1..Len(tabla[p]) /\ Len(tabla[p]) \in Nat
           /\ \A i \in 2..Len(tabla[p]) :
                 /\ SegmentoBien(tabla[p][i]) /\ Separados(M!Segmento0, tabla[p][i])
                 /\ <<p, i>> \in MP!Propios /\ tabla[p][i] \in MP!Segms
                 /\ MP!Base(<<p, i>>) = tabla[p][i].base /\ MP!Tamanio(<<p, i>>) = tabla[p][i].tamanio
<1>1. /\ MP!ListaBien(tabla[p]) /\ MP!TablaBien(tabla)
      /\ M!Segmento0 = [id |-> 0, base |-> 0, tamanio |-> TamSegmento0] /\ M!Segmento0 = MP!Segmento0
  BY Hechos, IgualAbrir DEF M!Segmento0, M!Segmento
<1>2. DOMAIN tabla[p] = 1..Len(tabla[p]) /\ Len(tabla[p]) \in Nat
  <2> DEFINE S == MP!Segms \cup {MP!Segmento0}
  <2>1. tabla[p] \in Seq(S)
    BY <1>1 DEF MP!ListaBien
  <2> HIDE DEF S
  <2> QED
    BY <2>1
<1>3. SegmentoBien(M!Segmento0) /\ tabla[p][1] = M!Segmento0 /\ M!Segmento0.tamanio = TamSegmento0
  BY <1>1, SupuestosTablas DEF SegmentoBien, MP!ListaBien
<1>4. ASSUME NEW i \in 2..Len(tabla[p])
      PROVE  /\ SegmentoBien(tabla[p][i]) /\ Separados(M!Segmento0, tabla[p][i])
             /\ <<p, i>> \in MP!Propios /\ tabla[p][i] \in MP!Segms
             /\ MP!Base(<<p, i>>) = tabla[p][i].base /\ MP!Tamanio(<<p, i>>) = tabla[p][i].tamanio
  <2>1. i \in DOMAIN tabla[p] /\ i > 1
    BY <1>2
  <2>2. <<p, i>> \in MP!Propios
    <3>1. <<p, i>> \in MP!Lugares
      BY <1>1, <2>1, MP!LugarEs, SupuestosTablas
    <3> QED
      BY <2>1, <3>1 DEF MP!Propios
  <2>3. tabla[p][i] \in MP!Segms
    BY <1>1 DEF MP!ListaBien
  <2>4. /\ tabla[p][i].base \in Nat /\ tabla[p][i].tamanio \in Nat
        /\ TamSegmento0 <= tabla[p][i].base
        /\ tabla[p][i].base + tabla[p][i].tamanio <= TamMemoria
    <3>1. /\ tabla[p][i].base \in MP!Rango /\ tabla[p][i].tamanio \in Tamanios
          /\ TamSegmento0 <= tabla[p][i].base
          /\ tabla[p][i].base + tabla[p][i].tamanio <= TamMemoria
      BY <2>3 DEF MP!Segms
    <3>2. MP!Rango \subseteq Nat /\ Tamanios \subseteq Nat
      BY SupuestosTablas DEF MP!Rango
    <3> QED
      BY <3>1, <3>2
  <2>5. SegmentoBien(tabla[p][i])
    BY <2>4 DEF SegmentoBien
  <2>6. Separados(M!Segmento0, tabla[p][i])
    BY <1>1, <2>4, SupuestosTablas DEF Separados
  <2> QED
    BY <2>2, <2>3, <2>5, <2>6 DEF MP!Base, MP!Tamanio
<1> QED
  BY <1>2, <1>3, <1>4

\* Two segments have no byte in common (Reparto of MemoriaProofs).
LEMMA PropiosSeparados ==
    ASSUME MP!Invariante, NEW p \in DOMAIN tabla, NEW i \in 2..Len(tabla[p]),
           NEW q \in DOMAIN tabla, NEW j \in 2..Len(tabla[q]), <<p, i>> # <<q, j>>
    PROVE  Separados(tabla[p][i], tabla[q][j])
<1> DEFINE k == <<p, i>>
           l == <<q, j>>
<1>1. /\ k \in MP!Propios /\ l \in MP!Propios /\ k # l
      /\ MP!Base(k) = tabla[p][i].base /\ MP!Tamanio(k) = tabla[p][i].tamanio
      /\ MP!Base(l) = tabla[q][j].base /\ MP!Tamanio(l) = tabla[q][j].tamanio
      /\ MP!Base(k) \in Nat /\ MP!Base(l) \in Nat
  BY SegmentosBien DEF SegmentoBien
<1> HIDE DEF k, l
<1>2. MP!TablasBien
  BY DEF MP!Invariante, MP!TablasBien
<1>3. /\ MP!Base(k) < MP!Base(l) => MP!Base(k) + MP!Tamanio(k) <= MP!Base(l)
      /\ MP!Base(l) < MP!Base(k) => MP!Base(l) + MP!Tamanio(l) <= MP!Base(k)
      /\ MP!Base(k) # MP!Base(l)
  BY <1>1, <1>2, MP!UnoAntesDeOtro, SupuestosTablas
<1> QED
  BY <1>1, <1>3 DEF Separados

\* m after EscribirValor.
Escrita(w, m, df, n, v) == w = [d \in DOMAIN m |-> IF d \in df..df + n - 1 THEN v ELSE m[d]]

EscritaEn(w, m, s, x, n, v) ==
    /\ DOMAIN m = 0..TamMemoria - 1 /\ SegmentoBien(s) /\ x \in Nat /\ n \in Nat
    /\ x + n <= s.tamanio /\ Escrita(w, m, x + s.base, n, v)

FilaCon(f, x, n, v) == [j \in DOMAIN f |-> IF j \in x..x + n - 1 THEN v ELSE f[j]]

\* A write in s writes its contents,
LEMMA FilaEscrita ==
    ASSUME NEW m, NEW w, NEW s, NEW x, NEW n, NEW v, EscritaEn(w, m, s, x, n, v)
    PROVE  FilaDe(w, s) = FilaCon(FilaDe(m, s), x, n, v)
<1> DEFINE b == s.base
           t == s.tamanio
<1>1. b \in Nat /\ t \in Nat /\ b + t <= TamMemoria /\ TamMemoria \in Nat /\ x + n <= t
      /\ x \in Nat /\ n \in Nat
  BY SupuestosTablas DEF SegmentoBien, EscritaEn
<1>2. /\ DOMAIN FilaDe(m, s) = 0..t - 1 /\ \A j \in 0..t - 1 : FilaDe(m, s)[j] = m[b + j]
      /\ FilaDe(w, s) = [j \in 0..t - 1 |-> w[b + j]]
  BY DEF FilaDe
<1>3. \A d \in 0..TamMemoria - 1 : w[d] = IF d \in (x + b)..(x + b) + n - 1 THEN v ELSE m[d]
  BY DEF Escrita, EscritaEn
<1> HIDE DEF b, t
<1>4. ASSUME NEW j \in 0..t - 1
      PROVE  w[b + j] = IF j \in x..x + n - 1 THEN v ELSE m[b + j]
  <2>1. b + j \in 0..TamMemoria - 1 /\ (b + j \in (x + b)..(x + b) + n - 1 <=> j \in x..x + n - 1)
    BY <1>1
  <2> QED
    BY <1>3, <2>1
<1> QED
  BY <1>2, <1>4 DEF FilaCon

\* and those of no segment off s.
LEMMA FilaAjena ==
    ASSUME NEW m, NEW w, NEW s, NEW x, NEW n, NEW v, EscritaEn(w, m, s, x, n, v),
           NEW r, SegmentoBien(r), Separados(r, s)
    PROVE  FilaDe(w, r) = FilaDe(m, r)
<1> DEFINE b == s.base
           t == s.tamanio
           c == r.base
           u == r.tamanio
<1>1. /\ b \in Nat /\ t \in Nat /\ b + t <= TamMemoria /\ TamMemoria \in Nat /\ x + n <= t
      /\ c \in Nat /\ u \in Nat /\ c + u <= TamMemoria /\ (c + u <= b \/ b + t <= c)
      /\ x \in Nat /\ n \in Nat
  BY SupuestosTablas DEF SegmentoBien, Separados, EscritaEn
<1>2. /\ FilaDe(m, r) = [j \in 0..u - 1 |-> m[c + j]]
      /\ FilaDe(w, r) = [j \in 0..u - 1 |-> w[c + j]]
  BY DEF FilaDe
<1>3. \A d \in 0..TamMemoria - 1 : w[d] = IF d \in (x + b)..(x + b) + n - 1 THEN v ELSE m[d]
  BY DEF Escrita, EscritaEn
<1> HIDE DEF b, t, c, u
<1>4. ASSUME NEW j \in 0..u - 1 PROVE w[c + j] = m[c + j]
  <2>1. c + j \in 0..TamMemoria - 1 /\ c + j \notin (x + b)..(x + b) + n - 1
    BY <1>1
  <2> QED
    BY <1>3, <2>1
<1> QED
  BY <1>2, <1>4

\* The key of the segment at i in the table of p.
ClaveDe(p, i) == IF i = 1 THEN <<0, 0>> ELSE <<p, tabla[p][i].id>>

\* d is c with v in the n positions from x of its row k, which has t bytes.
TrasEscribir(d, c, k, t, x, n, v) ==
    /\ k \in DOMAIN c /\ DOMAIN c[k] = 0..t - 1
    /\ d = [c EXCEPT ![k] = FilaCon(c[k], x, n, v)]

\* A write in a segment is a write in its contents and in no others.
LEMMA ContenidoEscrito ==
    ASSUME MP!Invariante, NEW m, DOMAIN m = 0..TamMemoria - 1, NEW p \in DOMAIN tabla,
           NEW i \in DOMAIN tabla[p], NEW x \in Nat, NEW n \in Nat, x + n <= tabla[p][i].tamanio,
           NEW v, NEW w, Escrita(w, m, x + tabla[p][i].base, n, v),
           NEW c, Refleja(c, tabla, m), NEW d, Refleja(d, tabla, w)
    PROVE  TrasEscribir(d, c, ClaveDe(p, i), tabla[p][i].tamanio, x, n, v)
<1> DEFINE s == tabla[p][i]
           K == ClaveDe(p, i)
           F == FilaCon(c[K], x, n, v)
           C == ClavesDe(tabla)
<1>1. i \in 1..Len(tabla[p]) /\ Len(tabla[p]) \in Nat /\ (i # 1 => i \in 2..Len(tabla[p]))
  BY SegmentosBien
<1>2. /\ SegmentoBien(s) /\ (i = 1 => s = M!Segmento0)
      /\ EscritaEn(w, m, s, x, n, v)
  BY <1>1, SegmentosBien DEF EscritaEn
<1>3. K \in C /\ c[K] = FilaDe(m, s) /\ d[K] = FilaDe(w, s)
  BY <1>1, <1>2, ClaveEs DEF ClaveDe, Refleja
<1>4. d[K] = F
  <2> HIDE DEF s, K
  <2>1. FilaDe(w, s) = FilaCon(FilaDe(m, s), x, n, v)
    BY <1>2, FilaEscrita
  <2> QED
    BY <1>3, <2>1
<1>5. \A r : SegmentoBien(r) /\ Separados(r, s) => FilaDe(w, r) = FilaDe(m, r)
  <2> HIDE DEF s
  <2> QED
    BY <1>2, FilaAjena
<1>6. ASSUME NEW k \in C, k # K PROVE d[k] = c[k]
  <2>1. CASE k = <<0, 0>>
    <3>1. i \in 2..Len(tabla[p])
      BY <1>1, <1>6, <2>1 DEF ClaveDe
    <3>2. FilaDe(w, M!Segmento0) = FilaDe(m, M!Segmento0)
      BY <1>5, <3>1, SegmentosBien
    <3> QED
      BY <2>1, <3>2 DEF Refleja
  <2>2. CASE \E q \in DOMAIN tabla : \E j \in 2..Len(tabla[q]) : k = <<q, tabla[q][j].id>>
    <3>0. PICK q \in DOMAIN tabla : \E j \in 2..Len(tabla[q]) : k = <<q, tabla[q][j].id>>
      BY <2>2
    <3>1. PICK j \in 2..Len(tabla[q]) : k = <<q, tabla[q][j].id>>
      BY <3>0
    <3>2. SegmentoBien(tabla[q][j])
      BY SegmentosBien
    <3>3. Separados(tabla[q][j], s)
      <4>1. CASE i = 1
        <5>1. Separados(M!Segmento0, tabla[q][j])
          BY SegmentosBien
        <5> QED
          BY <1>2, <4>1, <5>1 DEF Separados
      <4>2. CASE i # 1
        <5>1. <<q, j>> # <<p, i>> /\ i \in 2..Len(tabla[p])
          BY <1>1, <1>6, <3>1, <4>2 DEF ClaveDe
        <5> QED
          BY <5>1, PropiosSeparados
      <4> QED
        BY <4>1, <4>2
    <3>4. FilaDe(w, tabla[q][j]) = FilaDe(m, tabla[q][j])
      BY <1>5, <3>2, <3>3
    <3> QED
      BY <3>1, <3>4 DEF Refleja
  <2> QED
    BY <2>1, <2>2, ClaveEs
<1>7. DOMAIN c = C /\ d = [k \in C |-> d[k]] /\ DOMAIN c[K] = 0..s.tamanio - 1
  BY <1>3 DEF Refleja, FilaDe
<1>8. d = [c EXCEPT ![K] = F]
  <2>1. [c EXCEPT ![K] = F] = [k \in C |-> IF k = K THEN F ELSE c[k]]
    BY <1>3, <1>7
  <2> HIDE DEF F, K, C
  <2> QED
    BY <1>4, <1>6, <1>7, <2>1
<1> HIDE DEF F
<1> QED
  BY <1>3, <1>7, <1>8, Zenon DEF F, TrasEscribir

LEMMA TablaHechos ==
    ASSUME NEW T, MP!TablaBien(T)
    PROVE  /\ 0 \notin DOMAIN T
           /\ \A q \in DOMAIN T :
                 /\ DOMAIN T[q] = 1..Len(T[q]) /\ Len(T[q]) \in Nat /\ T[q][1].id = 0
                 /\ \A i \in 2..Len(T[q]) : T[q][i].id \in Ids /\ T[q][i].id # 0 /\ T[q][i].tamanio \in Tamanios
<1>1. 0 \notin DOMAIN T
  <2> DEFINE S == Seq(MP!Segms \cup {MP!Segmento0})
  <2>1. T \in Seq(S)
    BY DEF MP!TablaBien
  <2> HIDE DEF S
  <2> QED
    BY <2>1
<1>2. ASSUME NEW q \in DOMAIN T
      PROVE  /\ DOMAIN T[q] = 1..Len(T[q]) /\ Len(T[q]) \in Nat /\ T[q][1].id = 0
             /\ \A i \in 2..Len(T[q]) : T[q][i].id \in Ids /\ T[q][i].id # 0 /\ T[q][i].tamanio \in Tamanios
  <2> DEFINE S == MP!Segms \cup {MP!Segmento0}
  <2>1. /\ T[q] \in Seq(S) /\ T[q][1] = MP!Segmento0
        /\ \A i \in 2..Len(T[q]) : T[q][i] \in MP!Segms
    BY DEF MP!TablaBien, MP!ListaBien
  <2>2. DOMAIN T[q] = 1..Len(T[q]) /\ Len(T[q]) \in Nat
    <3> HIDE DEF S
    <3> QED
      BY <2>1
  <2>3. T[q][1].id = 0
    BY <2>1 DEF MP!Segmento0, MP!Segmento
  <2>4. \A s \in MP!Segms : s.id \in Ids /\ s.id # 0 /\ s.tamanio \in Tamanios
    BY SupuestosTablas DEF MP!Segms
  <2> QED
    BY <2>1, <2>2, <2>3, <2>4
<1> QED
  BY <1>1, <1>2

\* The segments of U, all of which T has, keep their bytes.
LEMMA IntactosDe ==
    ASSUME NEW T, MP!TablaBien(T), NEW U, MP!TablaBien(U), NEW m, NEW c, Refleja(c, T, m),
           NEW d, Refleja(d, U, m), \A q \in DOMAIN U : q \in DOMAIN T /\ Contenida(U[q], T[q])
    PROVE  \A k \in ClavesDe(U) : k \in ClavesDe(T) /\ d[k] = c[k]
<1> SUFFICES ASSUME NEW k \in ClavesDe(U) PROVE k \in ClavesDe(T) /\ d[k] = c[k]
  OBVIOUS
<1>1. CASE k = <<0, 0>>
  BY <1>1, ClaveEs DEF Refleja
<1>2. CASE \E q \in DOMAIN U : \E j \in 2..Len(U[q]) : k = <<q, U[q][j].id>>
  <2>0. PICK q \in DOMAIN U : \E j \in 2..Len(U[q]) : k = <<q, U[q][j].id>>
    BY <1>2
  <2>1. PICK j \in 2..Len(U[q]) : k = <<q, U[q][j].id>>
    BY <2>0
  <2>2. j \in DOMAIN U[q] /\ U[q][j].id # 0 /\ q \in DOMAIN T
    BY TablaHechos
  <2>3. PICK i \in DOMAIN T[q] : U[q][j] = T[q][i]
    BY <2>2 DEF Contenida
  <2>4. i \in 2..Len(T[q])
    BY <2>2, <2>3, TablaHechos
  <2>5. d[k] = FilaDe(m, T[q][i]) /\ c[k] = FilaDe(m, T[q][i]) /\ k = <<q, T[q][i].id>>
    BY <2>1, <2>2, <2>3, <2>4 DEF Refleja
  <2> QED
    BY <2>2, <2>4, <2>5, ClaveEs
<1> QED
  BY <1>1, <1>2, ClaveEs

\* The keys when only the list of p changes.
LEMMA ClavesCon ==
    ASSUME NEW T, MP!TablaBien(T), NEW U, DOMAIN U = DOMAIN T, NEW p \in DOMAIN T,
           \A q \in DOMAIN T : q # p => U[q] = T[q]
    PROVE  \A k : k \in ClavesDe(U) <=> \/ k \in ClavesDe(T) /\ k[1] # p
                                        \/ \E x \in IdsPropios(U[p]) : k = <<p, x>>
<1>0. p # 0
  BY TablaHechos
<1>1. \A V, k : k \in ClavesDe(V) <=>
                    k = <<0, 0>> \/ \E q \in DOMAIN V : \E x \in IdsPropios(V[q]) : k = <<q, x>>
  BY DEF ClavesDe
<1>2. \A q, x : <<q, x>>[1] = q
  OBVIOUS
<1> QED
  BY <1>0, <1>1, <1>2

LEMMA ClavesPropias ==
    ASSUME NEW T, MP!TablaBien(T), NEW p \in DOMAIN T
    PROVE  \A k \in ClavesDe(T) : k[1] = p <=> \E x \in IdsPropios(T[p]) : k = <<p, x>>
<1>0. p # 0
  BY TablaHechos
<1>1. \A k : k \in ClavesDe(T) <=>
                    k = <<0, 0>> \/ \E q \in DOMAIN T : \E x \in IdsPropios(T[q]) : k = <<q, x>>
  BY DEF ClavesDe
<1>2. \A q, x : <<q, x>>[1] = q
  OBVIOUS
<1> QED
  BY <1>0, <1>1, <1>2

LEMMA InicioPromesa == Init => Promesa!Init
<1> SUFFICES ASSUME Init PROVE Promesa!Init
  OBVIOUS
<1>1. ReflejaAbs /\ tabla = <<>>
  BY InvarianteInicial, ReflejaEs DEF Init, M!Init
<1>2. DOMAIN ContenidoAbs = {<<0, 0>>}
  <2>1. ClavesDe(tabla) = {<<0, 0>>}
    BY <1>1 DEF ClavesDe
  <2> QED
    BY <1>1, <2>1 DEF ReflejaAbs, Refleja
<1>3. DOMAIN ContenidoAbs[<<0, 0>>] = 0..TamSegmento0 - 1
  BY <1>1 DEF ReflejaAbs, Refleja, FilaDe, M!Segmento0, M!Segmento
<1> QED
  BY <1>2, <1>3 DEF Promesa!Init, Promesa!Existentes, Promesa!Compartido, ContenidoAbs

\* Steps that move no segment and write no byte.
LEMMA PromesaIgual ==
    ASSUME MP!Invariante, MP!Invariante', UNCHANGED <<tabla, memoria_usuario>>
    PROVE  ContenidoAbs' = ContenidoAbs
<1>1. ReflejaAbs /\ ReflejaAbs'
  BY ReflejaEs, ReflejaLuego
<1>2. Refleja(ContenidoAbs, tabla, memoria_usuario) /\ Refleja(ContenidoAbs', tabla, memoria_usuario)
  BY <1>1 DEF ReflejaAbs
<1> QED
  BY <1>2, ReflejaIgual

\* One lemma for each action that changes the contents: each is one of Segmentos.
LEMMA PromesaAbrir ==
    ASSUME MP!Invariante, MP!Invariante', Abrir
    PROVE  ContenidoAbs' = ContenidoAbs
<1> DEFINE n == Len(tabla) + 1
           e == <<M!Segmento0>>
           c == ContenidoAbs
           d == ContenidoAbs'
<1>1. tabla' = Append(tabla, e) /\ memoria_usuario' = memoria_usuario
  BY DEF Abrir, M!InicializarEstructura
<1>2. MP!TablaBien(tabla) /\ MP!TablaBien(tabla')
  BY DEF MP!Invariante
<1>3. /\ DOMAIN tabla' = DOMAIN tabla \cup {n} /\ tabla'[n] = e /\ n \notin DOMAIN tabla
      /\ \A q \in DOMAIN tabla : tabla'[q] = tabla[q]
  <2> DEFINE S == Seq(MP!Segms \cup {MP!Segmento0})
  <2>1. tabla \in Seq(S)
    BY <1>2 DEF MP!TablaBien
  <2>2. e \in S
    BY IgualAbrir
  <2> HIDE DEF S, e
  <2> QED
    BY <1>1, <2>1, <2>2
<1>4. IdsPropios(tabla'[n]) = {}
  BY <1>3 DEF IdsPropios
<1>5. ClavesDe(tabla') = ClavesDe(tabla)
  <2> HIDE DEF n, e
  <2> QED
    BY <1>3, <1>4 DEF ClavesDe
<1>6. Refleja(c, tabla, memoria_usuario) /\ Refleja(d, tabla', memoria_usuario)
  BY <1>1, ReflejaEs, ReflejaLuego DEF ReflejaAbs
<1> HIDE DEF n, e, c, d
<1>7. d = c
  BY <1>3, <1>5, <1>6, ReflejaIgual
<1> QED
  BY <1>7 DEF c, d

LEMMA PromesaCrear ==
    ASSUME MP!Invariante, MP!Invariante', SoloFirst, ResponderCrear
    PROVE  [Promesa!Next]_ContenidoAbs
<1> DEFINE p == pedido.pid
           c == ContenidoAbs
           d == ContenidoAbs'
<1>1. M!CrearSegmento /\ memoria_usuario' = memoria_usuario
  BY DEF ResponderCrear
<1>2. p \in DOMAIN tabla /\ (tabla' = tabla \/ \E s \in MP!Segms : Creado(s))
  BY <1>1, CrearEs
<1>3. CASE tabla' = tabla
  BY <1>1, <1>3, PromesaIgual
<1>4. CASE \E s \in MP!Segms : Creado(s)
  <2>1. PICK s \in MP!Segms : Creado(s)
    BY <1>4
  <2>2. MP!TablaBien(tabla) /\ MP!TablaBien(tabla')
    BY DEF MP!Invariante
  <2>3. /\ DOMAIN tabla' = DOMAIN tabla /\ tabla'[p] = Append(tabla[p], s)
        /\ \A q \in DOMAIN tabla : q # p => tabla'[q] = tabla[q]
    BY <2>1 DEF Creado
  <2>4. /\ \A i \in DOMAIN tabla[p] : i \in DOMAIN tabla'[p] /\ tabla'[p][i] = tabla[p][i]
        /\ DOMAIN tabla[p] = 1..Len(tabla[p]) /\ Len(tabla[p]) \in Nat /\ Len(tabla[p]) >= 1
        /\ Len(tabla'[p]) = Len(tabla[p]) + 1 /\ tabla'[p][Len(tabla[p]) + 1] = s
    <3> DEFINE S == MP!Segms \cup {MP!Segmento0}
    <3>1. tabla[p] \in Seq(S) /\ s \in S /\ tabla[p] # <<>>
      BY <1>2, <2>2 DEF MP!TablaBien, MP!ListaBien
    <3> HIDE DEF S, p
    <3> QED
      BY <2>3, <3>1
  <2>5. IdsPropios(tabla'[p]) = IdsPropios(tabla[p]) \cup {s.id}
    BY <2>4 DEF IdsPropios
  <2>6. s.id \notin IdsPropios(tabla[p])
    <3>1. s.id \notin MP!Ocupados(p)
      BY <1>1, <2>1, Hechos, MP!PedidoEs, SupuestosTablas DEF Creado, M!CrearSegmento, M!Atiende, MP!Atiende
    <3> QED
      BY <2>4, <3>1 DEF IdsPropios, MP!Ocupados
  <2>7. Refleja(c, tabla, memoria_usuario) /\ Refleja(d, tabla', memoria_usuario)
    BY <1>1, ReflejaEs, ReflejaLuego DEF ReflejaAbs
  <2> HIDE DEF c, d, p
  <2>8. ClavesDe(tabla') = ClavesDe(tabla) \cup {<<p, s.id>>} /\ <<p, s.id>> \notin ClavesDe(tabla)
    <3> DEFINE A == IdsPropios(tabla[p])
               B == IdsPropios(tabla'[p])
    <3>1. \A k : k \in ClavesDe(tabla') <=> \/ k \in ClavesDe(tabla) /\ k[1] # p
                                            \/ \E x \in B : k = <<p, x>>
      <4>1. MP!TablaBien(tabla) /\ DOMAIN tabla' = DOMAIN tabla /\ p \in DOMAIN tabla
        BY <1>2, <2>2, <2>3
      <4>2. \A q \in DOMAIN tabla : q # p => tabla'[q] = tabla[q]
        BY <2>3
      <4> HIDE DEF B
      <4> QED
        BY <4>1, <4>2, ClavesCon DEF B
    <3>2. \A k \in ClavesDe(tabla) : k[1] = p <=> \E x \in A : k = <<p, x>>
      BY <1>2, <2>2, ClavesPropias
    <3>3. B = A \cup {s.id} /\ s.id \notin A
      BY <2>5, <2>6
    <3> HIDE DEF A, B
    <3>4. <<p, s.id>>[1] = p /\ \A x : <<p, s.id>> = <<p, x>> => s.id = x
      OBVIOUS
    <3>5. <<p, s.id>> \in ClavesDe(tabla') /\ <<p, s.id>> \notin ClavesDe(tabla)
      BY <3>1, <3>2, <3>3, <3>4
    <3>6. \A k \in ClavesDe(tabla) : k \in ClavesDe(tabla')
      BY <3>1, <3>2, <3>3
    <3>7. \A k \in ClavesDe(tabla') : k \in ClavesDe(tabla) \/ k = <<p, s.id>>
      <4>1. ASSUME NEW x \in B PROVE x = s.id \/ x \in A
        BY <3>3
      <4>2. ASSUME NEW x \in A PROVE <<p, x>> \in ClavesDe(tabla)
        BY <1>2, <4>2 DEF ClavesDe, A
      <4> QED
        BY <3>1, <4>1, <4>2
    <3> QED
      BY <3>5, <3>6, <3>7
  <2>9. \A k \in ClavesDe(tabla) : d[k] = c[k]
    <3>1. \A q \in DOMAIN tabla : q \in DOMAIN tabla' /\ Contenida(tabla[q], tabla'[q])
      BY <2>3, <2>4 DEF Contenida
    <3> QED
      BY <2>2, <2>7, <3>1, IntactosDe
  <2>10. DOMAIN d[<<p, s.id>>] = 0..s.tamanio - 1
    <3>1. Len(tabla[p]) + 1 \in 2..Len(tabla'[p]) /\ p \in DOMAIN tabla'
      BY <1>2, <2>3, <2>4
    <3>2. d[<<p, s.id>>] = FilaDe(memoria_usuario, s)
      BY <2>4, <2>7, <3>1 DEF Refleja
    <3> QED
      BY <3>2 DEF FilaDe
  <2>11. DOMAIN c = ClavesDe(tabla) /\ DOMAIN d = ClavesDe(tabla')
    BY <2>7 DEF Refleja
  <2>12. s.id \in Ids /\ s.tamanio \in Tamanios /\ p \in 1..MaxProcesos
    <3>1. s.id \in Ids /\ s.tamanio \in Tamanios
      BY DEF MP!Segms
    <3>2. Len(tabla) <= MaxProcesos /\ DOMAIN tabla = 1..Len(tabla) /\ Len(tabla) \in Nat
      BY Hechos DEF MP!TablaBien
    <3> QED
      BY <1>2, <3>1, <3>2, SupuestosTablas
  <2>13. /\ <<p, s.id>> \notin DOMAIN c /\ DOMAIN d = DOMAIN c \cup {<<p, s.id>>}
         /\ \A k \in DOMAIN c : d[k] = c[k]
    BY <2>8, <2>9, <2>11
  <2>14. Promesa!Crear(p, s.id, s.tamanio)
    BY <2>10, <2>13 DEF Promesa!Crear, Promesa!Existentes, Promesa!Intactos, c, d, ContenidoAbs
  <2> QED
    BY <2>12, <2>14 DEF Promesa!Next
<1> QED
  BY <1>2, <1>3, <1>4

\* The list of p loses the segments of some ids.
LEMMA PromesaQuita ==
    ASSUME MP!Invariante, MP!Invariante', NEW p \in DOMAIN tabla, NEW k, MP!ListaBien(k),
           tabla' = MP!Con(tabla, p, k), Contenida(k, tabla[p]), memoria_usuario' = memoria_usuario,
           NEW S, S = {<<p, x>> : x \in IdsPropios(tabla[p]) \ IdsPropios(k)}
    PROVE  Promesa!Quitar(S)
<1> DEFINE c == ContenidoAbs
           d == ContenidoAbs'
           A == IdsPropios(tabla[p])
           B == IdsPropios(k)
<1>1. MP!TablaBien(tabla) /\ MP!TablaBien(tabla')
  BY DEF MP!Invariante
<1>2. /\ DOMAIN tabla' = DOMAIN tabla /\ tabla'[p] = k
      /\ \A q \in DOMAIN tabla : q # p => tabla'[q] = tabla[q]
      /\ \A q \in DOMAIN tabla' : q \in DOMAIN tabla /\ Contenida(tabla'[q], tabla[q])
  BY ConUna
<1>3. Refleja(c, tabla, memoria_usuario) /\ Refleja(d, tabla', memoria_usuario)
  BY ReflejaEs, ReflejaLuego DEF ReflejaAbs
<1>4. \A y : y \in ClavesDe(tabla') <=> \/ y \in ClavesDe(tabla) /\ y[1] # p
                                        \/ \E x \in B : y = <<p, x>>
  <2> HIDE DEF B
  <2> QED
    BY <1>1, <1>2, ClavesCon DEF B
<1>5. \A y \in ClavesDe(tabla) : y[1] = p <=> \E x \in A : y = <<p, x>>
  BY <1>1, ClavesPropias
<1>6. \A x \in A : <<p, x>> \in ClavesDe(tabla)
  BY DEF ClavesDe
<1> HIDE DEF c, d
<1>7. \A y \in ClavesDe(tabla') : y \in ClavesDe(tabla) /\ d[y] = c[y]
  BY <1>1, <1>2, <1>3, IntactosDe
<1>8. DOMAIN c = ClavesDe(tabla) /\ DOMAIN d = ClavesDe(tabla')
  BY <1>3 DEF Refleja
<1>9. p # 0
  BY <1>1, TablaHechos
<1> HIDE DEF A, B
<1>10. S = {<<p, x>> : x \in A \ B}
  BY DEF A, B
<1>11. S \subseteq DOMAIN c \ {<<0, 0>>}
  BY <1>6, <1>8, <1>9, <1>10
<1>12. \A y \in ClavesDe(tabla) : y \notin S => y \in ClavesDe(tabla')
  <2> SUFFICES ASSUME NEW y \in ClavesDe(tabla), y \notin S PROVE y \in ClavesDe(tabla')
    OBVIOUS
  <2>1. CASE y[1] # p
    BY <1>4, <2>1
  <2>2. CASE y[1] = p
    <3>1. PICK x \in A : y = <<p, x>>
      BY <1>5, <2>2
    <3>2. x \in B
      BY <1>10, <3>1
    <3> QED
      BY <1>4, <3>1, <3>2
  <2> QED
    BY <2>1, <2>2
<1>13. \A y \in ClavesDe(tabla') : y \notin S
  <2> SUFFICES ASSUME NEW x \in A \ B, <<p, x>> \in ClavesDe(tabla') PROVE FALSE
    BY <1>10
  <2>1. <<p, x>>[1] = p /\ \A z : <<p, x>> = <<p, z>> => x = z
    OBVIOUS
  <2>2. \E z \in B : <<p, x>> = <<p, z>>
    BY <1>4, <2>1
  <2> QED
    BY <2>1, <2>2
<1>14. DOMAIN d = DOMAIN c \ S /\ \A y \in DOMAIN c \ S : d[y] = c[y]
  BY <1>7, <1>8, <1>12, <1>13
<1> QED
  BY <1>11, <1>14 DEF Promesa!Quitar, Promesa!Existentes, Promesa!Intactos, Promesa!Compartido,
                       c, d, ContenidoAbs

LEMMA ProcesoEs ==
    ASSUME MP!Invariante, NEW p \in DOMAIN tabla
    PROVE  p \in 1..MaxProcesos
<1>1. Len(tabla) <= MaxProcesos /\ DOMAIN tabla = 1..Len(tabla) /\ Len(tabla) \in Nat
  BY Hechos DEF MP!TablaBien
<1> QED
  BY <1>1, SupuestosTablas

LEMMA PromesaEliminar ==
    ASSUME MP!Invariante, MP!Invariante', ResponderEliminar
    PROVE  [Promesa!Next]_ContenidoAbs
<1> DEFINE p == pedido.pid
           id == pedido.id
<1>1. MP!EliminarSegmento /\ memoria_usuario' = memoria_usuario
  BY IgualEliminarSegmento DEF ResponderEliminar
<1>2. pedido # Nada /\ MP!Atiende("ELIMINAR_SEGMENTO")
  BY <1>1 DEF MP!EliminarSegmento, MP!Atiende
<1>3. PICK k : MP!ListaBien(k) /\ tabla' = MP!Con(tabla, p, k) /\ MP!QuitaDe(tabla[p], id, k)
  BY <1>1, MP!EliminarTablas, SupuestosTablas
<1>4. p \in DOMAIN tabla /\ id \in Ids
  BY <1>2, Hechos, MP!PedidoEs, SupuestosTablas
<1>5. MP!TablaBien(tabla) /\ MP!TablaBien(tabla') /\ MP!ListaBien(tabla[p])
  BY <1>4, Hechos DEF MP!Invariante
<1>6. Contenida(k, tabla[p])
  BY <1>3, <1>5, QuitaContenida
<1>7. CASE k = tabla[p]
  <2>1. tabla' = tabla
    <3>1. \A q \in DOMAIN tabla : tabla'[q] = tabla[q]
      BY <1>3, <1>4, <1>6, <1>7, ConUna
    <3>2. tabla = [q \in DOMAIN tabla |-> tabla[q]]
      <4> DEFINE S == Seq(MP!Segms \cup {MP!Segmento0})
      <4>1. tabla \in Seq(S)
        BY <1>5 DEF MP!TablaBien
      <4> HIDE DEF S
      <4> QED
        BY <4>1
    <3> QED
      BY <1>3, <1>7, <3>2 DEF MP!Con
  <2> QED
    BY <1>1, <2>1, PromesaIgual
<1>8. CASE \E j \in 2..Len(tabla[p]) : tabla[p][j].id = id /\ k = MP!RemoveAt(tabla[p], j)
  <2> DEFINE l == tabla[p]
  <2>1. PICK j \in 2..Len(l) : l[j].id = id /\ k = MP!RemoveAt(l, j)
    BY <1>8
  <2>2. /\ Len(k) = Len(l) - 1 /\ \A i \in 1..Len(l) - 1 : k[i] = l[IF i < j THEN i ELSE i + 1]
        /\ DOMAIN l = 1..Len(l) /\ Len(l) \in Nat
    <3>1. Len(k) = Len(l) - 1 /\ \A i \in 1..Len(l) - 1 : k[i] = l[IF i < j THEN i ELSE i + 1]
      BY <1>5, <2>1, MP!ListaSinUno, SupuestosTablas
    <3>2. DOMAIN l = 1..Len(l) /\ Len(l) \in Nat
      BY <1>4, <1>5, TablaHechos
    <3> QED
      BY <3>1, <3>2
  <2>3. \A i, h \in DOMAIN l : l[i].id = l[h].id => i = h
    BY <1>5 DEF MP!ListaBien
  <2> HIDE DEF l
  <2>4. \A i \in 2..Len(k) : \E h \in 2..Len(l) : h # j /\ k[i] = l[h]
    <3> SUFFICES ASSUME NEW i \in 2..Len(k) PROVE \E h \in 2..Len(l) : h # j /\ k[i] = l[h]
      OBVIOUS
    <3> DEFINE h == IF i < j THEN i ELSE i + 1
    <3>1. h \in 2..Len(l) /\ h # j /\ i \in 1..Len(l) - 1
      BY <2>2
    <3>2. k[i] = l[h]
      BY <2>2, <3>1
    <3> HIDE DEF h
    <3> QED
      BY <3>1, <3>2
  <2>5. \A h \in 2..Len(l) : h # j => \E i \in 2..Len(k) : k[i] = l[h]
    <3> SUFFICES ASSUME NEW h \in 2..Len(l), h # j PROVE \E i \in 2..Len(k) : k[i] = l[h]
      OBVIOUS
    <3> DEFINE i == IF h < j THEN h ELSE h - 1
    <3>1. i \in 2..Len(k) /\ i \in 1..Len(l) - 1 /\ (IF i < j THEN i ELSE i + 1) = h
      BY <2>2
    <3> HIDE DEF i
    <3>2. k[i] = l[h]
      BY <2>2, <3>1
    <3> QED
      BY <3>1, <3>2
  <2>6. id \in IdsPropios(l) /\ id \notin IdsPropios(k)
    <3>1. j \in DOMAIN l /\ \A h \in 2..Len(l) : h \in DOMAIN l
      BY <2>2
    <3>2. \A i \in 2..Len(k) : k[i].id # id
      BY <2>1, <2>3, <2>4, <3>1
    <3> QED
      BY <2>1, <3>2 DEF IdsPropios
  <2>7. \A x \in IdsPropios(l) : x # id => x \in IdsPropios(k)
    BY <2>1, <2>5 DEF IdsPropios
  <2> DEFINE S == {<<p, x>> : x \in IdsPropios(l) \ IdsPropios(k)}
  <2>8. S = {<<p, id>>}
    BY <2>6, <2>7
  <2>9. Promesa!Quitar(S)
    <3> HIDE DEF p, id
    <3> QED
      BY <1>1, <1>3, <1>4, <1>6, PromesaQuita DEF l
  <2>10. p \in 1..MaxProcesos
    BY <1>4, ProcesoEs
  <2> QED
    BY <1>4, <2>8, <2>9, <2>10 DEF Promesa!Next
<1> QED
  BY <1>3, <1>7, <1>8 DEF MP!QuitaDe

LEMMA PromesaFinalizar ==
    ASSUME MP!Invariante, MP!Invariante', ResponderFinalizar
    PROVE  [Promesa!Next]_ContenidoAbs
<1> DEFINE p == pedido.pid
<1>1. MP!EliminarProceso /\ memoria_usuario' = memoria_usuario
  BY IgualEliminarProceso DEF ResponderFinalizar
<1>2. pedido # Nada
  BY <1>1 DEF MP!EliminarProceso, MP!Atiende
<1>3. PICK k : MP!ListaBien(k) /\ tabla' = MP!Con(tabla, p, k) /\ MP!Recortada(k, tabla[p], 1)
  BY <1>1, MP!EliminarProcesoTablas, SupuestosTablas
<1>4. p \in DOMAIN tabla
  BY <1>2, Hechos DEF MP!PedidoBien
<1>5. MP!TablaBien(tabla) /\ MP!ListaBien(tabla[p])
  BY <1>4, Hechos
<1>6. Len(k) = 1 /\ k[1] = tabla[p][1]
  BY <1>3 DEF MP!Recortada
<1>7. Contenida(k, tabla[p])
  <2> DEFINE S == MP!Segms \cup {MP!Segmento0}
  <2>1. k \in Seq(S) /\ tabla[p] \in Seq(S) /\ tabla[p] # <<>>
    BY <1>3, <1>5 DEF MP!ListaBien
  <2> HIDE DEF S
  <2>2. DOMAIN k = {1} /\ 1 \in DOMAIN tabla[p]
    BY <1>6, <2>1
  <2> QED
    BY <1>6, <2>2 DEF Contenida
<1>8. IdsPropios(k) = {}
  BY <1>6 DEF IdsPropios
<1> DEFINE S == {<<p, x>> : x \in IdsPropios(tabla[p]) \ IdsPropios(k)}
<1>9. Promesa!Quitar(S)
  <2> HIDE DEF p
  <2> QED
    BY <1>1, <1>3, <1>4, <1>7, PromesaQuita
<1>10. S = {y \in DOMAIN ContenidoAbs : y[1] = p}
  <2> DEFINE A == IdsPropios(tabla[p])
  <2>1. DOMAIN ContenidoAbs = ClavesDe(tabla)
    BY ReflejaEs DEF ReflejaAbs, Refleja
  <2>2. \A y \in ClavesDe(tabla) : y[1] = p <=> \E x \in A : y = <<p, x>>
    BY <1>4, <1>5, ClavesPropias
  <2>3. \A x \in A : <<p, x>> \in ClavesDe(tabla) /\ <<p, x>>[1] = p
    BY <1>4 DEF ClavesDe
  <2>4. S = {<<p, x>> : x \in A}
    BY <1>8
  <2> HIDE DEF A, S, p
  <2> QED
    BY <2>1, <2>2, <2>3, <2>4
<1>11. p \in 1..MaxProcesos
  BY <1>4, ProcesoEs
<1> HIDE DEF S
<1>12. \E q \in 1..MaxProcesos : Promesa!Quitar({y \in Promesa!Existentes : y[1] = q})
  BY <1>9, <1>10, <1>11 DEF Promesa!Existentes, ContenidoAbs
<1> QED
  BY <1>12 DEF Promesa!Next

\* A compaction moves the segments and changes the contents of none.
LEMMA PromesaCompactar ==
    ASSUME TamSegmento0 > 0, MP!Invariante, MP!Invariante', ConBytes, Compactar
    PROVE  ContenidoAbs' = ContenidoAbs
<1> DEFINE c == ContenidoAbs
           d == ContenidoAbs'
           m == memoria_usuario
           w == CopiarSegmentos
<1>1. tabla' = MP!TablaCompacta /\ memoria_usuario' = w
  BY IgualTabla DEF Compactar, M!Compactar
<1>2. MP!TablasBien /\ MP!TablaBien(tabla) /\ MP!TablaBien(tabla')
  BY DEF MP!Invariante, MP!TablasBien
<1>3. DOMAIN m = 0..TamMemoria - 1
  BY DEF ConBytes
<1>4. /\ \A x \in 0..TamSegmento0 - 1 : w[x] = m[x]
      /\ \A l \in MP!Propios : \A x \in 0..MP!Tamanio(l) - 1 :
                 w[MP!Nueva(l) + x] = m[MP!Base(l) + x]
  BY <1>2, <1>3, CopiarTodos
<1>5. Refleja(c, tabla, m) /\ Refleja(d, tabla', w)
  BY <1>1, ReflejaEs, ReflejaLuego DEF ReflejaAbs
<1> HIDE DEF c, d, m, w
<1>6. /\ DOMAIN tabla' = DOMAIN tabla
      /\ \A p \in DOMAIN tabla : /\ Len(tabla'[p]) = Len(tabla[p])
                                 /\ \A i \in DOMAIN tabla[p] : tabla'[p][i].id = tabla[p][i].id
                                 /\ \A i \in 2..Len(tabla[p]) : tabla'[p][i].base = MP!Nueva(<<p, i>>)
                                        /\ tabla'[p][i].tamanio = tabla[p][i].tamanio
  <2>1. /\ DOMAIN tabla' = DOMAIN tabla
        /\ \A p \in DOMAIN tabla : /\ Len(tabla'[p]) = Len(tabla[p])
                                   /\ \A i \in DOMAIN tabla[p] : tabla'[p][i].id = tabla[p][i].id
                                   /\ \A i \in 2..Len(tabla[p]) :
                                          /\ tabla'[p][i].base = MP!Nueva(<<p, i>>)
                                          /\ tabla'[p][i].tamanio = MP!Tamanio(<<p, i>>)
    BY <1>1, <1>2, MP!TablaCompactaEs, SupuestosTablas
  <2>2. \A p \in DOMAIN tabla : \A i \in 2..Len(tabla[p]) : MP!Tamanio(<<p, i>>) = tabla[p][i].tamanio
    BY SegmentosBien
  <2> QED
    BY <2>1, <2>2
<1>7. \A p \in DOMAIN tabla : \A i \in 2..Len(tabla[p]) : tabla'[p][i].id = tabla[p][i].id
  BY <1>2, <1>6, TablaHechos
<1>8. ClavesDe(tabla') = ClavesDe(tabla)
  <2>1. \A p \in DOMAIN tabla : IdsPropios(tabla'[p]) = IdsPropios(tabla[p])
    BY <1>6, <1>7 DEF IdsPropios
  <2> QED
    BY <1>6, <2>1 DEF ClavesDe
<1>9. FilaDe(w, M!Segmento0) = FilaDe(m, M!Segmento0)
  <2>1. M!Segmento0.base = 0 /\ M!Segmento0.tamanio = TamSegmento0
    BY DEF M!Segmento0, M!Segmento
  <2> HIDE DEF M!Segmento0
  <2>2. \A x \in 0..TamSegmento0 - 1 : w[0 + x] = m[0 + x]
    BY <1>4, SupuestosTablas
  <2> QED
    BY <2>1, <2>2 DEF FilaDe
<1>10. ASSUME NEW p \in DOMAIN tabla, NEW i \in 2..Len(tabla[p])
       PROVE  FilaDe(w, tabla'[p][i]) = FilaDe(m, tabla[p][i])
  <2>1. /\ <<p, i>> \in MP!Propios /\ MP!Base(<<p, i>>) = tabla[p][i].base
        /\ MP!Tamanio(<<p, i>>) = tabla[p][i].tamanio
    BY SegmentosBien
  <2>2. tabla'[p][i].base = MP!Nueva(<<p, i>>) /\ tabla'[p][i].tamanio = tabla[p][i].tamanio
    BY <1>6
  <2>3. \A x \in 0..tabla[p][i].tamanio - 1 : w[tabla'[p][i].base + x] = m[tabla[p][i].base + x]
    BY <1>4, <2>1, <2>2
  <2> QED
    BY <2>2, <2>3 DEF FilaDe
<1>11. d = c
  <2>1. ASSUME NEW p \in DOMAIN tabla, NEW i \in 2..Len(tabla[p])
        PROVE  p \in DOMAIN tabla' /\ \E j \in 2..Len(tabla'[p]) :
                  tabla'[p][j].id = tabla[p][i].id /\ FilaDe(w, tabla'[p][j]) = FilaDe(m, tabla[p][i])
    BY <1>6, <1>7, <1>10
  <2> QED
    BY <1>5, <1>8, <1>9, <2>1, ReflejaIgual
<1> QED
  BY <1>11 DEF c, d

\* A write at the address of n bytes of p is one in the contents of a segment.
LEMMA PromesaEscribir ==
    ASSUME MP!Invariante, MP!Invariante', ConBytes, NEW p \in DOMAIN tabla, NEW dl \in Direcciones,
           NEW n \in TamRegistros, NEW v \in Valores, NEW df \in Verdadera(p, dl, n),
           EscribirValor(df, n, v), tabla' = tabla
    PROVE  Promesa!Next
<1> DEFINE c == ContenidoAbs
           d == ContenidoAbs'
           x == Desplazamiento(dl)
           m == memoria_usuario
           w == memoria_usuario'
<1>1. PICK i \in DOMAIN tabla[p] : x + n <= tabla[p][i].tamanio /\ df = x + tabla[p][i].base
  BY DEF Verdadera
<1>2. x \in Nat /\ n \in Nat /\ n # 0
  BY SupuestosTablas DEF Desplazamiento
<1>3. Refleja(c, tabla, m) /\ Refleja(d, tabla, w)
  BY ReflejaEs, ReflejaLuego DEF ReflejaAbs
<1>4. DOMAIN m = 0..TamMemoria - 1 /\ Escrita(w, m, x + tabla[p][i].base, n, v)
  BY <1>1 DEF ConBytes, EscribirValor, Escrita
<1> DEFINE k == ClaveDe(p, i)
<1>5. /\ k \in DOMAIN c /\ DOMAIN c[k] = 0..tabla[p][i].tamanio - 1
      /\ d = [c EXCEPT ![k] = FilaCon(c[k], x, n, v)]
  <2>1. /\ i \in DOMAIN tabla[p] /\ x \in Nat /\ n \in Nat /\ x + n <= tabla[p][i].tamanio
        /\ DOMAIN m = 0..TamMemoria - 1 /\ Escrita(w, m, x + tabla[p][i].base, n, v)
        /\ Refleja(c, tabla, m) /\ Refleja(d, tabla, w)
    BY <1>1, <1>2, <1>3, <1>4
  <2> HIDE DEF c, d, x, m, w
  <2>2. TrasEscribir(d, c, k, tabla[p][i].tamanio, x, n, v)
    BY <2>1, ContenidoEscrito
  <2> QED
    BY <2>2 DEF TrasEscribir
<1>6. x \in DOMAIN c[k] /\ x..x + n - 1 \subseteq DOMAIN c[k]
  <2>1. tabla[p][i].tamanio \in Nat
    <3>1. i = 1 \/ i \in 2..Len(tabla[p])
      BY SegmentosBien
    <3> QED
      BY <3>1, SegmentosBien DEF SegmentoBien
  <2> HIDE DEF c, x, k
  <2> QED
    BY <1>1, <1>2, <1>5, <2>1
<1> HIDE DEF x, k
<1>7. Promesa!Escribir(k, x, n, v)
  BY <1>5, <1>6, Zenon DEF Promesa!Escribir, Promesa!Existentes, FilaCon, c, d, ContenidoAbs
<1>8. k \in Promesa!Existentes /\ x \in DOMAIN ContenidoAbs[k]
  BY <1>5, <1>6, Zenon DEF Promesa!Existentes, c, ContenidoAbs
<1> QED
  BY <1>7, <1>8, Zenon DEF Promesa!Next, ContenidoAbs

\* The step of the refinement.
LEMMA PromesaPaso ==
    ASSUME TamSegmento0 > 0, Inductiva, Inductiva', [Next]_vars
    PROVE  [Promesa!Next]_ContenidoAbs
<1> USE DEF Inductiva
<1>1. CASE UNCHANGED <<tabla, memoria_usuario>>
  BY <1>1, PromesaIgual
<1>2. CASE Abrir
  BY <1>2, PromesaAbrir
<1>3. CASE Acceder
  <2>1. PICK dl \in Direcciones, n \in TamRegistros :
            NoEliminado(cpu, dl) /\ (MovOut(dl, n) \/ SegFault(dl, n) \/ FOperacion(dl, n))
    BY <1>3 DEF Acceder
  <2>2. Ejecuta /\ cpu \in DOMAIN tabla
    BY <1>3, EjecutaEs, Hechos DEF Acceder
  <2>3. CASE MovOut(dl, n)
    <3>1. PICK v \in Valores : EscribirValor(DireccionFisica(cpu, dl, n), n, v)
      BY <2>3 DEF MovOut
    <3>2. DireccionFisica(cpu, dl, n) \in Verdadera(cpu, dl, n) /\ tabla' = tabla
      BY <2>1, <2>2, <2>3, Traduce DEF MovOut, varsMemoria
    <3> QED
      BY <2>2, <3>1, <3>2, PromesaEscribir
  <2>4. CASE SegFault(dl, n) \/ FOperacion(dl, n)
    BY <1>1, <2>4 DEF SegFault, Terminar, FOperacion, varsMemoria
  <2> QED
    BY <2>1, <2>3, <2>4
<1>4. CASE FsTermina
  <2>1. operacion # Nada /\ tabla' = tabla
    BY <1>4 DEF FsTermina, varsMemoria
  <2>2. /\ operacion.pid \in DOMAIN tabla /\ operacion.dl \in Direcciones
        /\ operacion.cant_bytes \in TamRegistros
        /\ operacion.df_fs \in Verdadera(operacion.pid, operacion.dl, operacion.cant_bytes)
    BY <2>1, Hechos DEF Copias, Pendiente, ConBytes
  <2>3. CASE \E v \in Valores : EscribirValor(operacion.df_fs, operacion.cant_bytes, v)
    BY <2>1, <2>2, <2>3, PromesaEscribir
  <2> QED
    BY <1>1, <1>4, <2>1, <2>3 DEF FsTermina
<1>5. CASE ResponderCrear
  BY <1>5, PromesaCrear
<1>6. CASE ResponderEliminar
  BY <1>6, PromesaEliminar
<1>7. CASE ResponderFinalizar
  BY <1>7, PromesaFinalizar
<1>8. CASE Compactar
  BY <1>8, PromesaCompactar
<1> QED
  BY <1>1, <1>2, <1>3, <1>4, <1>5, <1>6, <1>7, <1>8
  DEF Next, Kernel, AtenderModulos, Salir, Despachar, Desalojar, Pedir, Terminar, varsMemoria, vars,
      M!PideCrear, M!PideEliminar, M!PideFinalizar

\* A segment keeps its bytes through compactions and whatever other processes
\* create, delete and write (memoria.c:696-705, 589-606): every step changes the
\* contents as one of Segmentos does, or not at all.
THEOREM ImplementaSegmentosCorrecto ==
    ASSUME TamSegmento0 > 0, Aparte
    PROVE  Spec => ImplementaSegmentos
<1>1. Init => Promesa!Init
  BY InicioPromesa
<1>2. Inductiva /\ Inductiva' /\ [Next]_vars => [Promesa!Next]_ContenidoAbs
  BY PromesaPaso
<1> QED
  BY <1>1, <1>2, EsInductiva, PTL DEF Spec, ImplementaSegmentos, Promesa!Spec, ContenidoAbs
=============================================================================
