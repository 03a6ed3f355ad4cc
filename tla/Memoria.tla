------------------------------ MODULE Memoria ------------------------------
(***************************************************************************)
(* The segment allocator of memoria/src/memoria.c: the table of holes, the *)
(* segment table of every process, the three placement algorithms and      *)
(* compaction, driven by the requests of the kernel.                       *)
(*                                                                         *)
(* Every handler of atender_modulos runs under mutex_modulos, so a handler *)
(* is one step. The kernel has one request outstanding (only atender_cpu   *)
(* sends them, and it waits for the answer), but a console thread may open *)
(* a process at any time. Programs name a fresh id in CREATE_SEGMENT and   *)
(* never delete segment 0, as every script under consola/ does; the code   *)
(* checks neither.                                                         *)
(***************************************************************************)
EXTENDS Integers, Sequences, FiniteSets, FiniteSetsExt, SequencesExt

CONSTANTS
    TamMemoria,             \* TAM_MEMORIA of memoria.config
    TamSegmento0,           \* TAM_SEGMENTO_0 of memoria.config
    Algoritmos,             \* values ALGORITMO_ASIGNACION may have
    MaxProcesos,            \* bound: processes opened in a behaviour
    Ids,                    \* ids of the segments a program names
    Tamanios,               \* sizes a program asks for
    Nada                    \* no request outstanding

ASSUME SupuestosMemoria ==
    /\ TamMemoria \in Nat /\ TamSegmento0 \in Nat /\ TamSegmento0 < TamMemoria
    /\ Algoritmos \subseteq {"FIRST", "BEST", "WORST"}
    /\ MaxProcesos \in Nat
    /\ Ids \subseteq Nat \ {0}
    /\ Tamanios \subseteq Nat \ {0}

VARIABLES
    algoritmo,              \* datos.algoritmo, read once from memoria.config
    huecos,                 \* tabla_huecos_libres: sequence of [base, tamanio]
    tabla,                  \* tabla_general: tabla[pid] is the segment list
    pedido,                 \* request on its way to the memory, or Nada
    vivos,                  \* processes the kernel has not ended
    corrupta                \* an uninitialised hole index was used

vars == <<algoritmo, huecos, tabla, pedido, vivos, corrupta>>

Hueco(b, t) == [base |-> b, tamanio |-> t]
Segmento(i, b, t) == [id |-> i, base |-> b, tamanio |-> t]
Segmento0 == Segmento(0, 0, TamSegmento0)

\* main: one hole with the whole memory, less segment 0, which is shared.
Init ==
    /\ algoritmo \in Algoritmos
    /\ huecos = <<Hueco(TamSegmento0, TamMemoria - TamSegmento0)>>
    /\ tabla = <<>>
    /\ pedido = Nada
    /\ vivos = {}
    /\ corrupta = FALSE

-----------------------------------------------------------------------------
(* Lists *)

\* The results list_sort may give: it does not fix the order of equal bases.
Inserciones(s, h) ==
    {InsertAt(s, i, h) : i \in {j \in 1..Len(s) + 1 :
        /\ \A k \in 1..j - 1 : s[k].base <= h.base
        /\ \A k \in j..Len(s) : h.base <= s[k].base}}

Ordenaciones(s) ==
    LET primeros[n \in 0..Len(s)] ==
            IF n = 0 THEN {<<>>} ELSE UNION {Inserciones(t, s[n]) : t \in primeros[n - 1]}
    IN  primeros[Len(s)]

SumaHuecos(hs) == SumFunction([i \in DOMAIN hs |-> hs[i].tamanio])

\* Mutant: the last free byte cannot be used.
HayEspacioEstricto(t) == t < SumaHuecos(huecos)

\* hay_espacio
HayEspacio(t) == t <= SumaHuecos(huecos)

\* combinar_huecos_libres: a hole that starts where the one before it in the
\* list ends joins it, so each run of such holes becomes one.
FinDe(h) == h.base + h.tamanio

\* The run that the hole i is of.
Tramo(hs, i) == Cardinality({j \in 1..i : j = 1 \/ FinDe(hs[j-1]) # hs[j].base})

CombinarHuecosLibres(hs) ==
    LET tramo(k) == {i \in DOMAIN hs : Tramo(hs, i) = k}
    IN  [k \in 1..Tramo(hs, Len(hs)) |->
            LET b == hs[Min(tramo(k))].base
            IN  Hueco(b, FinDe(hs[Max(tramo(k))]) - b)]

-----------------------------------------------------------------------------
(* Placement: an index of `huecos`, 0 when the search finds none *)

\* Mutant: off by one.
CabeDeMas(t) == {i \in DOMAIN huecos : huecos[i].tamanio >= t - 1}

Cabe(t) == {i \in DOMAIN huecos : huecos[i].tamanio >= t}

\* The first hole that fits, then the first later one that is Mejor.
PrimeroYMejor(t, Mejor(_, _)) ==
    LET i == Min(Cabe(t))
        mejores == {j \in Cabe(t) : j > i /\ Mejor(huecos[j].tamanio, huecos[i].tamanio)}
    IN  IF mejores = {} THEN i ELSE Min(mejores)

BuscarPorFirst(t) == Min(Cabe(t))
BuscarPorBest(t)  == PrimeroYMejor(t, LAMBDA a, b : a < b)
BuscarPorWorst(t) == PrimeroYMejor(t, LAMBDA a, b : a > b)

ElegirHueco(t) ==
    CASE algoritmo = "FIRST" -> BuscarPorFirst(t)
      [] algoritmo = "BEST"  -> BuscarPorBest(t)
      [] algoritmo = "WORST" -> BuscarPorWorst(t)

-----------------------------------------------------------------------------
(* The kernel's requests *)

Ocupados(p) == {tabla[p][i].id : i \in DOMAIN tabla[p]}

PideCrear(p, id, t) ==
    /\ id \notin Ocupados(p)
    /\ pedido' = [op |-> "CREAR_SEGMENTO", pid |-> p, id |-> id, tamanio |-> t]
    /\ UNCHANGED vivos

PideEliminar(p, id) ==
    /\ pedido' = [op |-> "ELIMINAR_SEGMENTO", pid |-> p, id |-> id]
    /\ UNCHANGED vivos

PideFinalizar(p) ==
    /\ pedido' = [op |-> "FINALIZAR", pid |-> p]
    /\ vivos' = vivos \ {p}

Kernel ==
    /\ pedido = Nada /\ ~corrupta
    /\ \E p \in vivos :
        \/ \E id \in Ids, t \in Tamanios : PideCrear(p, id, t)
        \/ \E id \in Ids : PideEliminar(p, id)
        \/ PideFinalizar(p)
    /\ UNCHANGED <<algoritmo, huecos, tabla, corrupta>>

-----------------------------------------------------------------------------
(* Handlers of atender_modulos *)

\* A console thread of the kernel opens a process; its pid is its position.
InicializarEstructura ==
    /\ Len(tabla) < MaxProcesos /\ ~corrupta
    /\ tabla' = Append(tabla, <<Segmento0>>)
    /\ vivos' = vivos \cup {Len(tabla) + 1}
    /\ UNCHANGED <<algoritmo, huecos, pedido, corrupta>>

Atiende(op) == pedido # Nada /\ pedido.op = op

\* crear_segmento takes the bytes from the front of the hole and leaves the
\* hole in the list even when nothing is left of it.
Ubicar(p, id, t) ==
    /\ HayEspacio(t) /\ Cabe(t) # {}
    /\ LET i == ElegirHueco(t)
           h == huecos[i]
       IN  /\ tabla' = [tabla EXCEPT ![p] = Append(@, Segmento(id, h.base, t))]
           /\ huecos' \in Ordenaciones([huecos EXCEPT ![i] = Hueco(h.base + t, h.tamanio - t)])
    /\ pedido' = Nada
    /\ UNCHANGED <<algoritmo, vivos, corrupta>>

\* The free bytes suffice and no hole does: the memory asks for a compaction
\* and the kernel sends REALIZAR_COMPACTACION back.
SolicitarCompactacion(t) ==
    /\ HayEspacio(t) /\ Cabe(t) = {}
    /\ huecos' \in Ordenaciones(huecos)
    /\ pedido' = [pedido EXCEPT !.op = "REALIZAR_COMPACTACION"]
    /\ UNCHANGED <<algoritmo, tabla, vivos, corrupta>>

\* buscar_por_best and buscar_por_worst leave `indice` uninitialised when no
\* hole fits; if it happens to be positive the last hole is overrun. What
\* follows is not modelled.
IndiceSinIniciar(t) ==
    /\ algoritmo # "FIRST"
    /\ HayEspacio(t) /\ Cabe(t) = {}
    /\ corrupta' = TRUE
    /\ UNCHANGED <<algoritmo, huecos, tabla, pedido, vivos>>

\* SIN_MEMORIA: the kernel ends the process.
SinMemoria(p, t) ==
    /\ ~HayEspacio(t)
    /\ pedido' = [op |-> "FINALIZAR", pid |-> p]
    /\ vivos' = vivos \ {p}
    /\ UNCHANGED <<algoritmo, huecos, tabla, corrupta>>

CrearSegmento ==
    /\ ~corrupta
    /\ Atiende("CREAR_SEGMENTO")
    /\ \/ Ubicar(pedido.pid, pedido.id, pedido.tamanio)
       \/ SolicitarCompactacion(pedido.tamanio)
       \/ IndiceSinIniciar(pedido.tamanio)
       \/ SinMemoria(pedido.pid, pedido.tamanio)

\* eliminar_segmento on a hole table and a segment list: the set of results.
EliminarDe(e, id) ==
    LET j == SelectInSeq(e.segmentos, LAMBDA s : s.id = id)
        s == e.segmentos[j]
        hs == IF j = 0 THEN e.huecos ELSE Append(e.huecos, Hueco(s.base, s.tamanio))
        ss == IF j = 0 THEN e.segmentos ELSE RemoveAt(e.segmentos, j)
    IN  {[huecos |-> CombinarHuecosLibres(t), segmentos |-> ss] : t \in Ordenaciones(hs)}

Estado(p) == [huecos |-> huecos, segmentos |-> tabla[p]]

EliminarSegmento ==
    /\ Atiende("ELIMINAR_SEGMENTO")
    /\ \E e \in EliminarDe(Estado(pedido.pid), pedido.id) :
        /\ huecos' = e.huecos
        /\ tabla' = [tabla EXCEPT ![pedido.pid] = e.segmentos]
    /\ pedido' = Nada
    /\ UNCHANGED <<algoritmo, vivos, corrupta>>

\* eliminar_proceso: every segment but the first, from the last one down. The
\* entry of the process stays in tabla_general.
EliminarProceso ==
    /\ Atiende("FINALIZAR")
    /\ LET p == pedido.pid
           n == Len(tabla[p])
           tras[c \in 0..n - 1] ==
                IF c = 0 THEN {Estado(p)}
                ELSE UNION {EliminarDe(e, e.segmentos[n + 1 - c].id) : e \in tras[c - 1]}
       IN  \E e \in tras[n - 1] :
            /\ huecos' = e.huecos
            /\ tabla' = [tabla EXCEPT ![p] = e.segmentos]
    /\ pedido' = Nada
    /\ UNCHANGED <<algoritmo, vivos, corrupta>>

\* The segments as <<pid, position>>.
Lugares == UNION {{p} \X DOMAIN tabla[p] : p \in DOMAIN tabla}
Base(l) == tabla[l[1]][l[2]].base
Tamanio(l) == tabla[l[1]][l[2]].tamanio

\* Mutant: the list of all the segments is not sorted.
AntesSinOrdenar(l) ==
    {k \in Lugares : k[1] < l[1] \/ (k[1] = l[1] /\ k[2] < l[2])}

\* Those before l in the list of all the segments ordered by base.
Antes(l) ==
    {k \in Lugares : Base(k) < Base(l) \/ (Base(k) = Base(l) /\ k[1] < l[1])}

\* Mutant: one segment too many is packed.
MovidosDeMas == {l \in Lugares : Cardinality(Antes(l)) >= Len(tabla) - 1}

\* compactar_tabla_general: all of that list but its first
\* list_size(tabla_general), which are the segments 0, packed from the end of
\* segment 0.
Movidos == {l \in Lugares : Cardinality(Antes(l)) >= Len(tabla)}

BaseCompacta(l) ==
    IF l \in Movidos
    THEN TamSegmento0 + SumFunctionOnSet([k \in Lugares |-> Tamanio(k)], Antes(l) \cap Movidos)
    ELSE Base(l)

TablaCompacta ==
    [p \in DOMAIN tabla |-> [i \in DOMAIN tabla[p] |->
        [tabla[p][i] EXCEPT !.base = BaseCompacta(<<p, i>>)]]]

\* Mutant: the holes are moved but not joined.
HuecosSinUnir == huecos

\* compactar_tabla_huecos_libres: all the holes become one, at the end.
HuecosCompactos == <<Hueco(TamMemoria - SumaHuecos(huecos), SumaHuecos(huecos))>>

\* COMPACTAR: the kernel asks for the same creation again.
Compactar ==
    /\ Atiende("REALIZAR_COMPACTACION")
    /\ tabla' = TablaCompacta
    /\ huecos' = HuecosCompactos
    /\ pedido' = [pedido EXCEPT !.op = "CREAR_SEGMENTO"]
    /\ UNCHANGED <<algoritmo, vivos, corrupta>>

-----------------------------------------------------------------------------
AtenderModulos == CrearSegmento \/ EliminarSegmento \/ EliminarProceso \/ Compactar

Next == Kernel \/ InicializarEstructura \/ AtenderModulos

Spec == Init /\ [][Next]_vars

-----------------------------------------------------------------------------
(* Properties *)

Rango == 0..TamMemoria

Pedidos ==
    [op : {"CREAR_SEGMENTO", "REALIZAR_COMPACTACION"},
     pid : 1..MaxProcesos, id : Ids, tamanio : Tamanios]
    \cup [op : {"ELIMINAR_SEGMENTO"}, pid : 1..MaxProcesos, id : Ids]
    \cup [op : {"FINALIZAR"}, pid : 1..MaxProcesos]

\* Types; the kernel only asks about processes the memory has a table for.
TipoOK ==
    /\ huecos \in Seq([base : Rango, tamanio : Rango])
    /\ tabla \in Seq(Seq([id : Ids \cup {0}, base : Rango, tamanio : Tamanios \cup {TamSegmento0}]))
    /\ Len(tabla) <= MaxProcesos
    /\ pedido \in Pedidos \cup {Nada}
    /\ vivos \subseteq DOMAIN tabla
    /\ pedido # Nada => pedido.pid \in DOMAIN tabla
    /\ corrupta \in BOOLEAN
    /\ algoritmo \in Algoritmos

Contiene(r, c) == r.base <= c /\ c < r.base + r.tamanio

Propios == {l \in Lugares : l[2] > 1}

\* Segment 0, the other segments of every process and the holes cut the
\* memory into disjoint pieces that leave nothing out: no byte belongs to two
\* processes and none is lost, through any order of creations, deletions,
\* endings and compactions (memoria.c tabla_huecos_libres, tabla_general).
Particion ==
    /\ \A p \in DOMAIN tabla : tabla[p][1] = Segmento0
    /\ \A c \in 0..TamMemoria - 1 :
        LET libres   == {i \in DOMAIN huecos : Contiene(huecos[i], c)}
            ocupados == {l \in Propios : Contiene(tabla[l[1]][l[2]], c)}
        IN  Cardinality(libres) + Cardinality(ocupados) = IF c < TamSegmento0 THEN 0 ELSE 1

\* The copies of compactar_tabla_general go upwards: when a segment is copied
\* to its place it does not write over one that is still to be copied, so
\* the contents of every segment survive (memoria.c:697-703).
CompactarNoPisa ==
    [][Compactar => \A k, l \in Propios :
        /\ Base(k)' <= Base(k)
        /\ Base(k) < Base(l) => Base(k)' + Tamanio(k) <= Base(l)]_vars

\* The memory of Asignador: addresses forgotten and compactions hidden.
Abstracto == INSTANCE Asignador WITH
    Capacidad <- TamMemoria - TamSegmento0,
    asignado <- {[pid |-> l[1], id |-> tabla[l[1]][l[2]].id, tamanio |-> Tamanio(l)] : l \in Propios},
    pedido <- IF Atiende("REALIZAR_COMPACTACION")
              THEN [pedido EXCEPT !.op = "CREAR_SEGMENTO"] ELSE pedido

\* The allocator implements Asignador: whatever the fragmentation, a creation
\* is refused exactly when the free bytes are too few, and deletions and
\* endings release the segments of that process and no other.
ImplementaAsignador == Abstracto!Spec

\* ALGORITMO_ASIGNACION=BEST places a segment in the smallest hole that fits
\* (memoria.c:373 "Busco el hueco por el aggoritmo elegido").
BestElige ==
    algoritmo = "BEST" /\ Atiende("CREAR_SEGMENTO") /\ Cabe(pedido.tamanio) # {} =>
        \A i \in Cabe(pedido.tamanio) :
            huecos[ElegirHueco(pedido.tamanio)].tamanio <= huecos[i].tamanio
=============================================================================
