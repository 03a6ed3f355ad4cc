--------------------------- MODULE MemoriaProofs ---------------------------
(***************************************************************************)
(* Memory is partitioned: through every placement, coalescing, compaction  *)
(* and end of a process each byte after segment 0 is of exactly one hole   *)
(* or of exactly one segment.                                              *)
(*                                                                         *)
(* That is inductive (Reparto), once said of the bytes and not of the      *)
(* order of the lists: what list_sort does with equal bases, and which     *)
(* neighbours a pass of combinar_huecos_libres joins, do not matter to it. *)
(* From it follow the types, that a compaction copies no segment over one  *)
(* it has still to move, and the refinement of Asignador, for which the    *)
(* lengths of the holes add up to the bytes that no segment has.           *)
(*                                                                         *)
(* With TamSegmento0 = 0 segment 0 would have the base of a segment that   *)
(* moves and the sort could put it after; memoria.config has 128.          *)
(***************************************************************************)
EXTENDS Memoria, ColasProofs

-----------------------------------------------------------------------------
(* The invariant *)

Bytes == TamSegmento0..TamMemoria - 1

UnHueco(hs, c) ==
    \E i \in DOMAIN hs :
        Contiene(hs[i], c) /\ \A j \in DOMAIN hs : Contiene(hs[j], c) => j = i

NingunHueco(hs, c) == \A i \in DOMAIN hs : ~Contiene(hs[i], c)

UnSegmento(T, c) ==
    \E p \in DOMAIN T : \E i \in 2..Len(T[p]) :
        /\ Contiene(T[p][i], c)
        /\ \A q \in DOMAIN T : \A j \in 2..Len(T[q]) : Contiene(T[q][j], c) => q = p /\ j = i

NingunSegmento(T, c) ==
    \A p \in DOMAIN T : \A i \in 2..Len(T[p]) : ~Contiene(T[p][i], c)

\* Each byte after segment 0 is of one hole or of one segment.
DeUno(hs, T, c) ==
    \/ UnHueco(hs, c) /\ NingunSegmento(T, c)
    \/ NingunHueco(hs, c) /\ UnSegmento(T, c)

Reparto(hs, T) == \A c \in Bytes : DeUno(hs, T, c)

Huecos == {h \in [base : Rango, tamanio : Rango] :
              TamSegmento0 <= h.base /\ FinDe(h) <= TamMemoria}

Segms == {s \in [id : Ids, base : Rango, tamanio : Tamanios] :
                 TamSegmento0 <= s.base /\ s.base + s.tamanio <= TamMemoria}

\* A process's list: segment 0, then others with ids of their own.
ListaBien(l) ==
    /\ l \in Seq(Segms \cup {Segmento0}) /\ l # <<>> /\ l[1] = Segmento0
    /\ \A i \in 2..Len(l) : l[i] \in Segms
    /\ \A i, j \in DOMAIN l : l[i].id = l[j].id => i = j

TablaBien(T) ==
    /\ T \in Seq(Seq(Segms \cup {Segmento0})) /\ Len(T) <= MaxProcesos
    /\ \A p \in DOMAIN T : ListaBien(T[p])

PedidoBien ==
    pedido # Nada =>
        /\ pedido \in Pedidos
        /\ pedido.pid \in DOMAIN tabla
        /\ pedido.op \in {"CREAR_SEGMENTO", "REALIZAR_COMPACTACION"} =>
                pedido.id \notin Ocupados(pedido.pid)

Invariante ==
    /\ huecos \in Seq(Huecos)
    /\ TablaBien(tabla)
    /\ Reparto(huecos, tabla)
    /\ PedidoBien
    /\ vivos \subseteq DOMAIN tabla
    /\ corrupta \in BOOLEAN
    /\ algoritmo \in Algoritmos

-----------------------------------------------------------------------------
(* Sorting *)

\* u is s with h put at j.
Insertada(u, s, j, h) ==
    /\ DOMAIN u = 1..(Len(s) + 1) /\ Len(u) = Len(s) + 1
    /\ \A k \in 1..(Len(s) + 1) :
          u[k] = IF k < j THEN s[k] ELSE IF k = j THEN h ELSE s[k - 1]

LEMMA Insertar ==
    ASSUME NEW S, NEW s \in Seq(S), NEW h \in S, NEW j \in 1..(Len(s) + 1)
    PROVE  InsertAt(s, j, h) \in Seq(S) /\ Insertada(InsertAt(s, j, h), s, j, h)
<1> DEFINE x == SubSeq(s, 1, j - 1)
           y == SubSeq(s, j, Len(s))
           z == x \o <<h>>
           t == InsertAt(s, j, h)
<1>1. j \in Nat /\ j >= 1 /\ j - 1 <= Len(s) /\ Len(s) \in Nat /\ DOMAIN s = 1..Len(s)
  OBVIOUS
<1>2. x \in Seq(S) /\ Len(x) = j - 1 /\ \A k \in 1..(j - 1) : x[k] = s[k]
  BY <1>1
<1>3. /\ y \in Seq(S) /\ Len(y) = Len(s) - j + 1
      /\ \A k \in 1..(Len(s) - j + 1) : y[k] = s[j + k - 1]
  BY <1>1
<1>4. t = z \o y
  BY DEF InsertAt
<1> HIDE DEF t, x, y
<1>5. /\ z \in Seq(S) /\ Len(z) = j /\ z[j] = h
      /\ \A k \in 1..(j - 1) : z[k] = s[k]
  <2>1. <<h>> \in Seq(S) /\ Len(<<h>>) = 1 /\ <<h>>[1] = h
    OBVIOUS
  <2> DEFINE u == <<h>>
  <2> HIDE DEF u
  <2>2. /\ x \o u \in Seq(S) /\ DOMAIN (x \o u) = 1..j
        /\ \A k \in 1..j : (x \o u)[k] = IF k <= j - 1 THEN x[k] ELSE u[k - (j - 1)]
    BY <1>1, <1>2, <2>1, Concatenar DEF u
  <2>3. (x \o u)[j] = h /\ \A k \in 1..(j - 1) : (x \o u)[k] = s[k]
    <3>1. j \in 1..j /\ ~(j <= j - 1) /\ j - (j - 1) = 1
      BY <1>1
    <3>2. (x \o u)[j] = u[1]
      BY <2>2, <3>1
    <3>3. \A k \in 1..(j - 1) : k \in 1..j /\ k <= j - 1
      BY <1>1
    <3> QED
      BY <1>2, <2>1, <2>2, <3>2, <3>3 DEF u
  <2>4. Len(x \o u) = j
    BY <1>1, <2>2
  <2> QED
    BY <2>2, <2>3, <2>4 DEF u
<1> HIDE DEF z
<1>6. /\ t \in Seq(S) /\ DOMAIN t = 1..(Len(z) + Len(y))
      /\ \A k \in 1..(Len(z) + Len(y)) : t[k] = IF k <= Len(z) THEN z[k] ELSE y[k - Len(z)]
  BY <1>3, <1>4, <1>5, Concatenar
<1>7. Len(z) + Len(y) = Len(s) + 1
  BY <1>1, <1>3, <1>5
<1>8. ASSUME NEW k \in 1..(Len(s) + 1)
      PROVE  t[k] = IF k < j THEN s[k] ELSE IF k = j THEN h ELSE s[k - 1]
  <2>1. CASE k <= j
    BY <1>1, <1>5, <1>6, <1>7, <2>1
  <2>2. CASE k > j
    <3>1. k - j \in 1..(Len(s) - j + 1) /\ j + (k - j) - 1 = k - 1 /\ ~(k <= j) /\ ~(k < j) /\ k # j
      BY <1>1, <2>2
    <3>2. t[k] = y[k - j]
      BY <1>5, <1>6, <1>7, <3>1
    <3> QED
      BY <1>3, <3>1, <3>2
  <2> QED
    BY <1>1, <2>1, <2>2
<1>9. Len(t) = Len(s) + 1
  BY <1>1, <1>6, <1>7
<1> QED
  BY <1>6, <1>7, <1>8, <1>9 DEF t, Insertada

\* t has the first n elements of s, in the order that f says.
Reordena(f, s, t, n) ==
    /\ f \in [1..n -> 1..n]
    /\ \A i, j \in 1..n : f[i] = f[j] => i = j
    /\ \A k \in 1..n : \E i \in 1..n : f[i] = k
    /\ \A i \in 1..n : t[f[i]] = s[i]

\* Inserting the element n keeps a rearrangement a rearrangement.
LEMMA ReordenaInsertando ==
    ASSUME NEW S, NEW s \in Seq(S), NEW n \in 1..Len(s), NEW t \in Seq(S), Len(t) = n - 1,
           NEW f, Reordena(f, s, t, n - 1), NEW j \in 1..n
    PROVE  \E g : Reordena(g, s, InsertAt(t, j, s[n]), n)
<1> DEFINE u == InsertAt(t, j, s[n])
           g == [i \in 1..n |-> IF i = n THEN j ELSE IF f[i] < j THEN f[i] ELSE f[i] + 1]
<1>0. n \in Nat /\ n >= 1 /\ j \in Nat /\ s[n] \in S
  OBVIOUS
<1>1. \A k \in 1..n : u[k] = IF k < j THEN t[k] ELSE IF k = j THEN s[n] ELSE t[k - 1]
  <2>1. j \in 1..(Len(t) + 1) /\ Len(t) + 1 = n
    BY <1>0
  <2>2. Insertada(u, t, j, s[n])
    BY <1>0, <2>1, Insertar
  <2> QED
    BY <2>1, <2>2 DEF Insertada
<1> HIDE DEF u
<1>2. /\ \A i \in 1..n - 1 : f[i] \in 1..n - 1
      /\ \A i, k \in 1..n - 1 : f[i] = f[k] => i = k
      /\ \A k \in 1..n - 1 : \E i \in 1..n - 1 : f[i] = k
      /\ \A i \in 1..n - 1 : t[f[i]] = s[i]
  BY DEF Reordena
<1>3. g[n] = j /\ \A i \in 1..n - 1 : g[i] = IF f[i] < j THEN f[i] ELSE f[i] + 1
  BY <1>0
<1>4. g \in [1..n -> 1..n]
  BY <1>0, <1>2
<1> HIDE DEF g
<1>5. \A i, k \in 1..n : g[i] = g[k] => i = k
  <2> SUFFICES ASSUME NEW i \in 1..n, NEW k \in 1..n, g[i] = g[k] PROVE i = k
    OBVIOUS
  <2>1. CASE i = n /\ k = n
    BY <2>1
  <2>0. ASSUME NEW x \in 1..n, x # n
        PROVE  x \in 1..n - 1 /\ f[x] \in Nat /\ g[x] = IF f[x] < j THEN f[x] ELSE f[x] + 1
    <3>1. x \in 1..n - 1
      BY <1>0, <2>0
    <3>2. f[x] \in 1..n - 1
      BY <1>2, <3>1
    <3> QED
      BY <1>0, <1>3, <3>1, <3>2
  <2>2. CASE i = n /\ k # n
    BY <1>0, <1>3, <2>0, <2>2
  <2>3. CASE i # n /\ k = n
    BY <1>0, <1>3, <2>0, <2>3
  <2>4. CASE i # n /\ k # n
    <3>1. i \in 1..n - 1 /\ k \in 1..n - 1
      BY <2>0, <2>4
    <3>2. f[i] = f[k]
      BY <1>0, <2>0, <2>4
    <3> QED
      BY <1>2, <3>1, <3>2
  <2> QED
    BY <2>1, <2>2, <2>3, <2>4
<1>6. \A k \in 1..n : \E i \in 1..n : g[i] = k
  <2> SUFFICES ASSUME NEW k \in 1..n PROVE \E i \in 1..n : g[i] = k
    OBVIOUS
  <2>1. CASE k = j
    BY <1>0, <1>3, <2>1
  <2>2. CASE k < j
    <3>1. k \in 1..n - 1
      BY <1>0, <2>2
    <3>2. PICK i \in 1..n - 1 : f[i] = k
      BY <1>2, <3>1
    <3> QED
      BY <1>0, <1>3, <2>2, <3>2
  <2>3. CASE k > j
    <3>1. k - 1 \in 1..n - 1 /\ ~(k - 1 < j)
      BY <1>0, <2>3
    <3>2. PICK i \in 1..n - 1 : f[i] = k - 1
      BY <1>2, <3>1
    <3> QED
      BY <1>0, <1>3, <2>3, <3>1, <3>2
  <2> QED
    BY <1>0, <2>1, <2>2, <2>3
<1>7. ASSUME NEW i \in 1..n PROVE u[g[i]] = s[i]
  <2>1. CASE i = n
    BY <1>0, <1>1, <1>3, <2>1
  <2>2. CASE i # n
    <3>1. i \in 1..n - 1
      BY <1>0, <2>2
    <3>2. f[i] \in 1..n - 1 /\ g[i] \in 1..n /\ g[i] = IF f[i] < j THEN f[i] ELSE f[i] + 1
      BY <1>2, <1>3, <1>4, <3>1
    <3>3. u[g[i]] = IF g[i] < j THEN t[g[i]] ELSE IF g[i] = j THEN s[n] ELSE t[g[i] - 1]
      BY <1>1, <3>2
    <3>4. CASE f[i] < j
      BY <1>0, <1>2, <3>1, <3>2, <3>3, <3>4
    <3>5. CASE ~(f[i] < j)
      <4>1. ~(g[i] < j) /\ g[i] # j /\ g[i] - 1 = f[i]
        BY <1>0, <3>2, <3>5
      <4> QED
        BY <1>2, <3>1, <3>3, <4>1
    <3> QED
      BY <3>4, <3>5
  <2> QED
    BY <2>1, <2>2
<1>8. Reordena(g, s, u, n)
  BY <1>4, <1>5, <1>6, <1>7 DEF Reordena
<1> QED
  BY <1>8 DEF u

\* The definition of `primeros` defines a function.
Primeros(g, s) ==
    g = [n \in 0..Len(s) |->
            IF n = 0 THEN {<<>>} ELSE UNION {Inserciones(t, s[n]) : t \in g[n - 1]}]

LEMMA PrimerosExiste ==
    ASSUME NEW s, Len(s) \in Nat
    PROVE  \E g : Primeros(g, s)
<1> DEFINE Parcial(g, m) ==
              g = [n \in 0..m |->
                    IF n = 0 THEN {<<>>} ELSE UNION {Inserciones(t, s[n]) : t \in g[n - 1]}]
           P == {m \in Nat : \E g : Parcial(g, m)}
<1>1. 0 \in P
  <2> DEFINE g == [n \in 0..0 |-> {<<>>}]
  <2>1. Parcial(g, 0)
    OBVIOUS
  <2> HIDE DEF Parcial
  <2> QED
    BY <2>1
<1>2. ASSUME NEW m \in P PROVE m + 1 \in P
  <2>0. m \in Nat
    OBVIOUS
  <2>1. PICK g : Parcial(g, m)
    OBVIOUS
  <2> DEFINE h == [n \in 0..m + 1 |->
                IF n = 0 THEN {<<>>} ELSE UNION {Inserciones(t, s[n]) : t \in g[n - 1]}]
  <2>2. ASSUME NEW n \in 0..m + 1, n # 0 PROVE h[n - 1] = g[n - 1]
    <3>1. n - 1 \in 0..m /\ n - 1 \in 0..m + 1
      BY <2>0, <2>2
    <3> DEFINE k == n - 1
    <3> HIDE DEF k
    <3>2. g[k] = IF k = 0 THEN {<<>>} ELSE UNION {Inserciones(t, s[k]) : t \in g[k - 1]}
      BY <2>1, <3>1, Zenon DEF k
    <3>3. h[k] = IF k = 0 THEN {<<>>} ELSE UNION {Inserciones(t, s[k]) : t \in g[k - 1]}
      BY <3>1, Zenon DEF k
    <3> QED
      BY <3>2, <3>3 DEF k
  <2>3. h = [n \in 0..m + 1 |->
                IF n = 0 THEN {<<>>} ELSE UNION {Inserciones(t, s[n]) : t \in h[n - 1]}]
    BY <2>2, Zenon
  <2>4. Parcial(h, m + 1)
    BY <2>3
  <2>5. m + 1 \in Nat
    BY <2>0
  <2> HIDE DEF Parcial
  <2> QED
    BY <2>4, <2>5
<1>3. P = Nat
  <2> HIDE DEF P
  <2>1. P \in SUBSET Nat
    BY DEF P
  <2> QED
    BY <1>1, <1>2, <2>1, InduccionNat
<1>4. \E g : Parcial(g, Len(s))
  BY <1>3
<1> QED
  BY <1>4 DEF Primeros

\* What list_sort gives has the elements of the list.
LEMMA Ordenada ==
    ASSUME NEW S, NEW s \in Seq(S), NEW t \in Ordenaciones(s)
    PROVE  t \in Seq(S) /\ Len(t) = Len(s) /\ \E f : Reordena(f, s, t, Len(s))
<1> DEFINE g == CHOOSE x : Primeros(x, s)
           Q(n, u) == u \in Seq(S) /\ Len(u) = n /\ \E f : Reordena(f, s, u, n)
           P == {n \in Nat : n <= Len(s) => \A u \in g[n] : Q(n, u)}
<1>0. Len(s) \in Nat
  OBVIOUS
<1>1. Primeros(g, s)
  BY <1>0, PrimerosExiste
<1>2. Ordenaciones(s) = g[Len(s)]
  BY DEF Ordenaciones, Primeros
<1> HIDE DEF g
<1>3. g[0] = {<<>>}
  <2>1. 0 \in 0..Len(s)
    BY <1>0
  <2> QED
    BY <1>1, <2>1, Zenon DEF Primeros
<1>4. ASSUME NEW n \in 1..Len(s) PROVE g[n] = UNION {Inserciones(u, s[n]) : u \in g[n - 1]}
  <2>1. n \in 0..Len(s) /\ n # 0
    BY <1>0
  <2> QED
    BY <1>1, <2>1, Zenon DEF Primeros
<1>5. 0 \in P
  <2>1. Reordena(<<>>, s, <<>>, 0)
    BY DEF Reordena
  <2>2. Q(0, <<>>)
    BY <2>1
  <2> HIDE DEF Q
  <2> QED
    BY <1>3, <2>2
<1>6. ASSUME NEW n \in P PROVE n + 1 \in P
  <2>0. n \in Nat
    OBVIOUS
  <2>1. SUFFICES ASSUME n + 1 <= Len(s), NEW u \in g[n + 1] PROVE Q(n + 1, u)
    <3>1. n + 1 \in Nat
      BY <2>0
    <3> HIDE DEF Q
    <3> QED
      BY <2>1, <3>1
  <2>2. n + 1 \in 1..Len(s) /\ (n + 1) - 1 = n /\ n <= Len(s) /\ s[n + 1] \in S
    BY <1>0, <2>0, <2>1
  <2>3. PICK v \in g[n] : u \in Inserciones(v, s[n + 1])
    BY <1>4, <2>2
  <2>4. Q(n, v)
    BY <2>2
  <2>5. PICK f : Reordena(f, s, v, n)
    BY <2>4
  <2>6. PICK j \in 1..(n + 1) : u = InsertAt(v, j, s[n + 1])
    BY <2>3, <2>4 DEF Inserciones
  <2>7. u \in Seq(S) /\ Len(u) = n + 1
    BY <2>2, <2>4, <2>6, Insertar DEF Insertada
  <2>8. \E h : Reordena(h, s, u, n + 1)
    BY <2>2, <2>4, <2>5, <2>6, ReordenaInsertando
  <2> QED
    BY <2>7, <2>8
<1>7. P = Nat
  <2> HIDE DEF P
  <2>1. P \in SUBSET Nat
    BY DEF P
  <2> QED
    BY <1>5, <1>6, <2>1, InduccionNat
<1>8. Len(s) \in P /\ t \in g[Len(s)]
  BY <1>0, <1>2, <1>7
<1> HIDE DEF Q
<1>9. Q(Len(s), t)
  BY <1>0, <1>8
<1> QED
  BY <1>9 DEF Q

\* The holes of t have the bytes of those of s, each in one hole if it was.
Conserva(s, t) ==
    \A c \in Nat : /\ UnHueco(s, c) => UnHueco(t, c)
                   /\ NingunHueco(s, c) => NingunHueco(t, c)

\* list_sort changes the bytes of no hole.
LEMMA OrdenarConserva ==
    ASSUME NEW s \in Seq(Huecos), NEW t \in Ordenaciones(s)
    PROVE  t \in Seq(Huecos) /\ Conserva(s, t)
<1>1. t \in Seq(Huecos) /\ Len(t) = Len(s)
  BY Ordenada
<1>2. PICK f : Reordena(f, s, t, Len(s))
  BY Ordenada
<1>3. /\ DOMAIN s = 1..Len(s) /\ DOMAIN t = 1..Len(s)
      /\ \A i \in DOMAIN s : f[i] \in DOMAIN t /\ t[f[i]] = s[i]
      /\ \A k \in DOMAIN t : \E i \in DOMAIN s : f[i] = k
      /\ \A i, j \in DOMAIN s : f[i] = f[j] => i = j
  <2>1. DOMAIN s = 1..Len(s) /\ DOMAIN t = 1..Len(s)
    BY <1>1
  <2> QED
    BY <1>2, <2>1, Zenon DEF Reordena
<1>4. ASSUME NEW c \in Nat, UnHueco(s, c) PROVE UnHueco(t, c)
  <2>1. PICK i \in DOMAIN s : Contiene(s[i], c) /\ \A j \in DOMAIN s : Contiene(s[j], c) => j = i
    BY <1>4 DEF UnHueco
  <2>2. f[i] \in DOMAIN t /\ Contiene(t[f[i]], c)
    BY <1>3, <2>1
  <2>3. ASSUME NEW k \in DOMAIN t, Contiene(t[k], c) PROVE k = f[i]
    <3>1. PICK j \in DOMAIN s : f[j] = k
      BY <1>3
    <3> QED
      BY <1>3, <2>1, <2>3, <3>1
  <2> QED
    BY <2>2, <2>3 DEF UnHueco
<1>5. ASSUME NEW c \in Nat, NingunHueco(s, c) PROVE NingunHueco(t, c)
  BY <1>3, <1>5 DEF NingunHueco
<1> QED
  BY <1>1, <1>4, <1>5 DEF Conserva

-----------------------------------------------------------------------------
(* Joining holes *)

Corta(hs, j) == j = 1 \/ FinDe(hs[j-1]) # hs[j].base

LEMMA TramoTipo ==
    ASSUME NEW hs, NEW i \in Nat
    PROVE  IsFiniteSet({j \in 1..i : Corta(hs, j)}) /\ Tramo(hs, i) \in Nat
<1> DEFINE C == {j \in 1..i : Corta(hs, j)}
<1>1. C \in SUBSET (1..i)
  OBVIOUS
<1>2. IsFiniteSet(1..i)
  BY FS_Interval
<1> HIDE DEF C
<1>3. IsFiniteSet(C) /\ Cardinality(C) \in Nat
  BY <1>1, <1>2, FS_Subset, FS_CardinalityType
<1> QED
  BY <1>3 DEF C, Tramo, Corta

LEMMA TramoCero ==
    ASSUME NEW hs
    PROVE  Tramo(hs, 0) = 0
<1>1. {j \in 1..0 : Corta(hs, j)} = {}
  OBVIOUS
<1> QED
  BY <1>1, FS_EmptySet DEF Tramo, Corta

\* A run is cut where a hole does not start at the end of the one before.
LEMMA TramoPaso ==
    ASSUME NEW hs, NEW i \in Nat
    PROVE  Tramo(hs, i + 1) = IF Corta(hs, i + 1) THEN Tramo(hs, i) + 1 ELSE Tramo(hs, i)
<1> DEFINE C(k) == {j \in 1..k : Corta(hs, j)}
<1>1. Tramo(hs, i) = Cardinality(C(i)) /\ Tramo(hs, i + 1) = Cardinality(C(i + 1))
  BY DEF Tramo, Corta
<1>2. 1..(i + 1) = (1..i) \cup {i + 1} /\ i + 1 \notin 1..i
  OBVIOUS
<1>3. C(i + 1) = IF Corta(hs, i + 1) THEN C(i) \cup {i + 1} ELSE C(i)
  BY <1>2
<1>4. i + 1 \notin C(i)
  BY <1>2
<1>5. IsFiniteSet(C(i))
  BY TramoTipo
<1> HIDE DEF C
<1>6. Cardinality(C(i) \cup {i + 1}) = Cardinality(C(i)) + 1
  BY <1>4, <1>5, FS_AddElement
<1> QED
  BY <1>1, <1>3, <1>6

LEMMA TramoCrece ==
    ASSUME NEW hs, NEW i \in Nat, NEW j \in Nat, i <= j
    PROVE  Tramo(hs, i) <= Tramo(hs, j)
<1>1. (1..i) \in SUBSET (1..j)
  OBVIOUS
<1>2. {k \in 1..i : Corta(hs, k)} \in SUBSET {k \in 1..j : Corta(hs, k)}
  BY <1>1
<1> QED
  BY <1>2, TramoTipo, FS_Subset DEF Tramo, Corta

\* Every run up to the last has a hole.
LEMMA TramoTodos ==
    ASSUME NEW hs, NEW n \in Nat, NEW k \in 1..Tramo(hs, n)
    PROVE  \E i \in 1..n : Tramo(hs, i) = k
<1> DEFINE T == {i \in 0..n : Tramo(hs, i) >= k}
           m == Min(T)
<1>1. Tramo(hs, n) \in Nat /\ k \in Nat /\ k >= 1 /\ n \in T
  <2>1. Tramo(hs, n) \in Nat
    BY TramoTipo
  <2> QED
    BY <2>1
<1>2. T \in SUBSET Nat /\ T # {}
  BY <1>1
<1> HIDE DEF T
<1>3. m \in T /\ \A y \in T : m <= y
  BY <1>2, MenorExiste
<1> HIDE DEF m
<1>4. m \in 0..n /\ Tramo(hs, m) >= k
  BY <1>3 DEF T
<1>5. m # 0
  BY <1>1, <1>4, TramoCero
<1>6. m - 1 \in 0..n /\ m - 1 \in Nat /\ ~(m <= m - 1) /\ (m - 1) + 1 = m
  BY <1>4, <1>5
<1>7. ~(Tramo(hs, m - 1) >= k)
  BY <1>3, <1>6 DEF T
<1>8. Tramo(hs, m - 1) \in Nat /\ Tramo(hs, m) \in Nat /\ Tramo(hs, m) <= Tramo(hs, m - 1) + 1
  <2> DEFINE y == m - 1
  <2> HIDE DEF y
  <2>1. y \in Nat /\ y + 1 = m
    BY <1>6 DEF y
  <2>2. Tramo(hs, y) \in Nat /\ Tramo(hs, y + 1) <= Tramo(hs, y) + 1 /\ Tramo(hs, y + 1) \in Nat
    <3>1. y + 1 \in Nat
      BY <2>1
    <3>2. Tramo(hs, y) \in Nat /\ Tramo(hs, y + 1) \in Nat
      BY <2>1, <3>1, TramoTipo
    <3> QED
      BY <2>1, <3>2, TramoPaso
  <2> QED
    BY <2>1, <2>2 DEF y
<1>9. Tramo(hs, m) = k
  BY <1>1, <1>4, <1>7, <1>8
<1> QED
  BY <1>4, <1>5, <1>9

\* Holes a to i, each where the one before it ends.
Seguidos(hs, a, i) == \A x \in a + 1..i : FinDe(hs[x - 1]) = hs[x].base

\* Holes that follow one another cover all from the first to the last.
LEMMA SeguidosSonUno ==
    ASSUME NEW hs \in Seq(Huecos), NEW a \in DOMAIN hs, NEW i \in DOMAIN hs, a <= i,
           Seguidos(hs, a, i)
    PROVE  /\ \A x \in a..i : hs[a].base <= hs[x].base /\ FinDe(hs[x]) <= FinDe(hs[i])
           /\ \A c \in Nat : hs[a].base <= c /\ c < FinDe(hs[i]) =>
                                \E x \in a..i : Contiene(hs[x], c)
<1> DEFINE Q(y) == /\ \A x \in a..y : hs[a].base <= hs[x].base /\ FinDe(hs[x]) <= FinDe(hs[y])
                   /\ \A c \in Nat : hs[a].base <= c /\ c < FinDe(hs[y]) =>
                                        \E x \in a..y : Contiene(hs[x], c)
           P == {d \in Nat : a + d <= i => Q(a + d)}
<1>0. /\ a \in Nat /\ i \in Nat /\ DOMAIN hs = 1..Len(hs)
      /\ \A x \in a..i : /\ x \in DOMAIN hs
                         /\ hs[x].base \in Nat /\ hs[x].tamanio \in Nat
                         /\ FinDe(hs[x]) = hs[x].base + hs[x].tamanio
  <2>1. a \in Nat /\ i \in Nat /\ DOMAIN hs = 1..Len(hs) /\ \A x \in a..i : x \in DOMAIN hs
    OBVIOUS
  <2>2. \A x \in DOMAIN hs : hs[x] \in Huecos
    OBVIOUS
  <2> QED
    BY <2>1, <2>2, SupuestosMemoria DEF Huecos, Rango, FinDe
<1>1. 0 \in P
  <2>1. a + 0 = a /\ \A x : x \in a..a <=> x = a
    BY <1>0
  <2>2. Q(a)
    BY <1>0, <2>1 DEF Contiene
  <2> QED
    BY <2>1, <2>2
<1>2. ASSUME NEW d \in P PROVE d + 1 \in P
  <2>0. d \in Nat /\ d + 1 \in Nat
    OBVIOUS
  <2> DEFINE y == a + d
             z == a + (d + 1)
  <2>1. SUFFICES ASSUME z <= i PROVE Q(z)
    <3> HIDE DEF Q
    <3> QED
      BY <2>0, <2>1
  <2>2. /\ y \in a..i /\ z \in a..i /\ z = y + 1 /\ z - 1 = y /\ z \in a + 1..i
        /\ y <= i /\ z \in a..z
    BY <1>0, <2>0, <2>1
  <2>3. \A x \in a..z : x = z \/ x \in a..y
    BY <1>0, <2>0
  <2>4. Q(y)
    BY <2>2
  <2> HIDE DEF y, z
  <2>5. FinDe(hs[y]) = hs[z].base
    BY <2>2 DEF Seguidos
  <2>6. /\ hs[z].base \in Nat /\ hs[z].tamanio \in Nat /\ hs[y].base \in Nat /\ hs[y].tamanio \in Nat
        /\ FinDe(hs[z]) = hs[z].base + hs[z].tamanio /\ FinDe(hs[y]) = hs[y].base + hs[y].tamanio
        /\ hs[a].base \in Nat
    BY <1>0, <2>2
  <2>7. hs[a].base <= hs[y].base
    BY <1>0, <2>2, <2>4
  <2>8. ASSUME NEW x \in a..z PROVE hs[a].base <= hs[x].base /\ FinDe(hs[x]) <= FinDe(hs[z])
    <3>1. CASE x = z
      <4>1. hs[a].base <= hs[z].base
        BY <2>5, <2>6, <2>7
      <4> QED
        BY <2>6, <3>1, <4>1
    <3>2. CASE x \in a..y
      <4>1. hs[a].base <= hs[x].base /\ FinDe(hs[x]) <= FinDe(hs[y])
        BY <2>4, <3>2
      <4>2. FinDe(hs[x]) \in Nat
        <5>1. x \in a..i
          BY <1>0, <2>2, <3>2
        <5>2. /\ hs[x].base \in Nat /\ hs[x].tamanio \in Nat
              /\ FinDe(hs[x]) = hs[x].base + hs[x].tamanio
          BY <1>0, <5>1
        <5> QED
          BY <5>2
      <4> QED
        BY <2>5, <2>6, <4>1, <4>2
    <3> QED
      BY <2>3, <3>1, <3>2
  <2>9. ASSUME NEW c \in Nat, hs[a].base <= c /\ c < FinDe(hs[z])
        PROVE  \E x \in a..z : Contiene(hs[x], c)
    <3>1. CASE c < FinDe(hs[y])
      <4>1. PICK x \in a..y : Contiene(hs[x], c)
        BY <2>4, <2>9, <3>1
      <4>2. x \in a..z
        BY <1>0, <2>2
      <4> QED
        BY <4>1, <4>2
    <3>2. CASE ~(c < FinDe(hs[y]))
      <4>1. Contiene(hs[z], c)
        BY <2>5, <2>6, <2>9, <3>2 DEF Contiene
      <4> QED
        BY <2>2, <4>1
    <3> QED
      BY <3>1, <3>2
  <2> QED
    BY <2>8, <2>9
<1>3. P = Nat
  <2> HIDE DEF P
  <2>1. P \in SUBSET Nat
    BY DEF P
  <2> QED
    BY <1>1, <1>2, <2>1, InduccionNat
<1>4. i - a \in P /\ a + (i - a) = i
  BY <1>0, <1>3
<1>5. Q(i)
  <2> HIDE DEF Q
  <2> QED
    BY <1>0, <1>4
<1> QED
  BY <1>5

\* The runs of a hole table: the run k goes from Desde(k) to Hasta(k).
Indices(hs, k) == {i \in DOMAIN hs : Tramo(hs, i) = k}

\* The indices of a run are an interval, and the holes there follow each other.
LEMMA TramoEs ==
    ASSUME NEW hs \in Seq(Huecos), NEW k \in 1..Tramo(hs, Len(hs)),
           NEW a, a = Min(Indices(hs, k)), NEW b, b = Max(Indices(hs, k))
    PROVE  /\ a \in Indices(hs, k) /\ b \in Indices(hs, k) /\ a <= b
           /\ Indices(hs, k) \subseteq a..b /\ a..b \subseteq Indices(hs, k)
           /\ Seguidos(hs, a, b)
<1> DEFINE T == Indices(hs, k)
<1>0. Len(hs) \in Nat /\ DOMAIN hs = 1..Len(hs)
  OBVIOUS
<1>1. T \in SUBSET Nat /\ T \in SUBSET (0..Len(hs)) /\ T # {}
  <2>1. PICK i \in 1..Len(hs) : Tramo(hs, i) = k
    BY <1>0, TramoTodos
  <2> QED
    BY <1>0, <2>1 DEF Indices
<1>2. a \in T /\ \A y \in T : a <= y
  BY <1>1, MenorExiste
<1>3. b \in T /\ \A y \in T : b >= y
  BY <1>0, <1>1, MayorExiste
<1>4. a \in Nat /\ b \in Nat /\ a >= 1 /\ b <= Len(hs) /\ a <= b
  BY <1>0, <1>2, <1>3 DEF Indices
<1>5. T \subseteq a..b
  <2> SUFFICES ASSUME NEW y \in T PROVE y \in a..b
    OBVIOUS
  <2>1. y \in Nat /\ a <= y /\ b >= y
    BY <1>1, <1>2, <1>3
  <2> QED
    BY <1>4, <2>1
<1>6. ASSUME NEW y \in a..b PROVE y \in T
  <2>1. y \in Nat /\ y \in DOMAIN hs /\ a <= y /\ y <= b
    BY <1>0, <1>4
  <2>2. Tramo(hs, a) <= Tramo(hs, y) /\ Tramo(hs, y) <= Tramo(hs, b)
    BY <1>4, <2>1, TramoCrece
  <2>3. Tramo(hs, a) = k /\ Tramo(hs, b) = k
    BY <1>2, <1>3 DEF Indices
  <2>4. Tramo(hs, y) \in Nat /\ k \in Nat
    <3>1. Tramo(hs, y) \in Nat /\ Tramo(hs, a) \in Nat
      BY <1>4, <2>1, TramoTipo
    <3> QED
      BY <2>3, <3>1
  <2> QED
    BY <2>1, <2>2, <2>3, <2>4 DEF Indices
<1>7. ASSUME NEW x \in a + 1..b PROVE FinDe(hs[x - 1]) = hs[x].base
  <2>1. x \in a..b /\ x - 1 \in a..b /\ x - 1 \in Nat /\ (x - 1) + 1 = x /\ x # 1
    BY <1>4
  <2>2. Tramo(hs, x) = k /\ Tramo(hs, x - 1) = k
    BY <1>6, <2>1 DEF Indices
  <2> DEFINE y == x - 1
  <2> HIDE DEF y
  <2>3. y \in Nat /\ y + 1 = x /\ Tramo(hs, y) = k /\ Tramo(hs, y + 1) = k /\ Tramo(hs, y) \in Nat
    BY <2>1, <2>2, TramoTipo DEF y
  <2>4. ~Corta(hs, y + 1)
    <3>1. k \in Nat
      BY <2>3
    <3> QED
      BY <2>3, <3>1, TramoPaso
  <2> QED
    BY <2>1, <2>3, <2>4 DEF Corta
<1> HIDE DEF T
<1> QED
  BY <1>2, <1>3, <1>4, <1>5, <1>6, <1>7 DEF T, Seguidos

\* One hole of the joined table.
LEMMA UnidoEs ==
    ASSUME NEW hs \in Seq(Huecos), NEW k \in 1..Tramo(hs, Len(hs))
    PROVE  LET h == CombinarHuecosLibres(hs)[k]
           IN  /\ h \in Huecos
               /\ \A c \in Nat : Contiene(h, c) => \E x \in Indices(hs, k) : Contiene(hs[x], c)
               /\ \A x \in Indices(hs, k), c \in Nat : Contiene(hs[x], c) => Contiene(h, c)
<1> DEFINE a == Min(Indices(hs, k))
           b == Max(Indices(hs, k))
           h == CombinarHuecosLibres(hs)[k]
<1>1. h = Hueco(hs[a].base, FinDe(hs[b]) - hs[a].base)
  BY DEF CombinarHuecosLibres, Indices
<1> HIDE DEF a, b, h
<1>2. /\ a \in Indices(hs, k) /\ b \in Indices(hs, k) /\ a <= b
      /\ Indices(hs, k) \subseteq a..b /\ a..b \subseteq Indices(hs, k)
      /\ Seguidos(hs, a, b)
  BY TramoEs DEF a, b
<1>3. a \in DOMAIN hs /\ b \in DOMAIN hs /\ a \in a..b /\ b \in a..b
  <2>1. a \in DOMAIN hs /\ b \in DOMAIN hs
    BY <1>2 DEF Indices
  <2>2. DOMAIN hs = 1..Len(hs) /\ Len(hs) \in Nat
    OBVIOUS
  <2> QED
    BY <1>2, <2>1, <2>2
<1>4. /\ \A x \in a..b : hs[a].base <= hs[x].base /\ FinDe(hs[x]) <= FinDe(hs[b])
      /\ \A c \in Nat : hs[a].base <= c /\ c < FinDe(hs[b]) => \E x \in a..b : Contiene(hs[x], c)
  BY <1>2, <1>3, SeguidosSonUno
<1>5. ASSUME NEW x \in DOMAIN hs
      PROVE  /\ hs[x].base \in Nat /\ hs[x].tamanio \in Nat
             /\ FinDe(hs[x]) = hs[x].base + hs[x].tamanio
             /\ TamSegmento0 <= hs[x].base /\ FinDe(hs[x]) <= TamMemoria
  <2>1. hs[x] \in Huecos
    OBVIOUS
  <2> QED
    BY <2>1, SupuestosMemoria DEF Huecos, Rango, FinDe
<1>6. hs[a].base <= FinDe(hs[b])
  <2>1. hs[a].base <= hs[b].base
    BY <1>3, <1>4
  <2> QED
    BY <1>3, <1>5, <2>1
<1>7. h.base = hs[a].base /\ h.tamanio = FinDe(hs[b]) - hs[a].base
  BY <1>1 DEF Hueco
<1>8. h.base + h.tamanio = FinDe(hs[b])
  BY <1>3, <1>5, <1>7
<1>9. h \in Huecos
  <2>1. hs[a].base \in Rango /\ FinDe(hs[b]) - hs[a].base \in Rango
    BY <1>3, <1>5, <1>6, SupuestosMemoria DEF Rango
  <2>2. h \in [base : Rango, tamanio : Rango]
    BY <1>1, <2>1 DEF Hueco
  <2> QED
    BY <1>3, <1>5, <1>7, <1>8, <2>2 DEF Huecos, FinDe
<1>10. ASSUME NEW c \in Nat, Contiene(h, c) PROVE \E x \in Indices(hs, k) : Contiene(hs[x], c)
  <2>1. hs[a].base <= c /\ c < FinDe(hs[b])
    BY <1>7, <1>8, <1>10 DEF Contiene
  <2> QED
    BY <1>2, <1>4, <2>1
<1>11. ASSUME NEW x \in Indices(hs, k), NEW c \in Nat, Contiene(hs[x], c) PROVE Contiene(h, c)
  <2>1. x \in a..b /\ x \in DOMAIN hs
    BY <1>2 DEF Indices
  <2>2. hs[a].base <= hs[x].base /\ FinDe(hs[x]) <= FinDe(hs[b])
    BY <1>4, <2>1
  <2>3. hs[x].base <= c /\ c < FinDe(hs[x])
    BY <1>11, <2>1, <1>5 DEF Contiene
  <2> QED
    BY <1>3, <1>5, <1>7, <1>8, <2>1, <2>2, <2>3 DEF Contiene
<1> QED
  BY <1>9, <1>10, <1>11 DEF h

\* combinar_huecos_libres changes the bytes of no hole.
LEMMA CombinarConserva ==
    ASSUME NEW hs \in Seq(Huecos)
    PROVE  CombinarHuecosLibres(hs) \in Seq(Huecos) /\ Conserva(hs, CombinarHuecosLibres(hs))
<1> DEFINE t == CombinarHuecosLibres(hs)
           n == Tramo(hs, Len(hs))
<1>0. Len(hs) \in Nat /\ DOMAIN hs = 1..Len(hs)
  OBVIOUS
<1>1. n \in Nat
  BY <1>0, TramoTipo
<1>2. DOMAIN t = 1..n
  BY DEF CombinarHuecosLibres
<1>3. ASSUME NEW k \in 1..n
      PROVE  /\ t[k] \in Huecos
             /\ \A c \in Nat : Contiene(t[k], c) => \E x \in Indices(hs, k) : Contiene(hs[x], c)
             /\ \A x \in Indices(hs, k), c \in Nat : Contiene(hs[x], c) => Contiene(t[k], c)
  BY UnidoEs
<1>4. t = [k \in 1..n |-> t[k]]
  BY DEF CombinarHuecosLibres
<1> HIDE DEF t
<1>5. t \in Seq(Huecos)
  <2> HIDE DEF n
  <2>1. t \in [1..n -> Huecos]
    BY <1>3, <1>4
  <2> QED
    BY <1>1, <2>1
<1>6. ASSUME NEW i \in DOMAIN hs PROVE Tramo(hs, i) \in 1..n
  <2>1. 1 \in Nat /\ i \in Nat /\ 1 <= i /\ i <= Len(hs)
    BY <1>0
  <2>2. Tramo(hs, 0 + 1) = IF Corta(hs, 0 + 1) THEN Tramo(hs, 0) + 1 ELSE Tramo(hs, 0)
    BY TramoPaso
  <2>3. Tramo(hs, 1) = 1
    BY <2>2, TramoCero DEF Corta
  <2>4. Tramo(hs, 1) <= Tramo(hs, i) /\ Tramo(hs, i) <= n /\ Tramo(hs, i) \in Nat
    BY <1>0, <2>1, TramoCrece, TramoTipo
  <2> HIDE DEF n
  <2> QED
    BY <1>1, <2>3, <2>4
<1> HIDE DEF n
<1>7. ASSUME NEW c \in Nat, NingunHueco(hs, c) PROVE NingunHueco(t, c)
  <2> SUFFICES ASSUME NEW k \in 1..n, Contiene(t[k], c) PROVE FALSE
    BY <1>2 DEF NingunHueco
  <2>1. PICK x \in Indices(hs, k) : Contiene(hs[x], c)
    BY <1>3
  <2> QED
    BY <1>7, <2>1 DEF NingunHueco, Indices
<1>8. ASSUME NEW c \in Nat, UnHueco(hs, c) PROVE UnHueco(t, c)
  <2>1. PICK i \in DOMAIN hs : Contiene(hs[i], c) /\ \A j \in DOMAIN hs : Contiene(hs[j], c) => j = i
    BY <1>8 DEF UnHueco
  <2>2. Tramo(hs, i) \in DOMAIN t /\ i \in Indices(hs, Tramo(hs, i))
    BY <1>2, <1>6 DEF Indices
  <2>3. Contiene(t[Tramo(hs, i)], c)
    BY <1>2, <1>3, <2>1, <2>2
  <2>4. ASSUME NEW k \in DOMAIN t, Contiene(t[k], c) PROVE k = Tramo(hs, i)
    <3>1. PICK x \in Indices(hs, k) : Contiene(hs[x], c)
      BY <1>2, <1>3, <2>4
    <3>2. x = i
      BY <2>1, <3>1 DEF Indices
    <3> QED
      BY <3>1, <3>2 DEF Indices
  <2> QED
    BY <2>2, <2>3, <2>4 DEF UnHueco
<1> QED
  BY <1>5, <1>7, <1>8 DEF Conserva, t

LEMMA ConservaReparto ==
    ASSUME NEW s, NEW t, Conserva(s, t), NEW T, Reparto(s, T)
    PROVE  Reparto(t, T)
<1>1. Bytes \subseteq Nat
  BY SupuestosMemoria DEF Bytes
<1> QED
  BY <1>1 DEF Conserva, Reparto, DeUno

\* What sorting and joining do to a hole table.
LEMMA OrdenarYCombinar ==
    ASSUME NEW s \in Seq(Huecos), NEW t \in Ordenaciones(s)
    PROVE  /\ CombinarHuecosLibres(t) \in Seq(Huecos)
           /\ \A T : Reparto(s, T) => Reparto(CombinarHuecosLibres(t), T)
<1>1. t \in Seq(Huecos) /\ Conserva(s, t)
  BY OrdenarConserva
<1>2. CombinarHuecosLibres(t) \in Seq(Huecos) /\ Conserva(t, CombinarHuecosLibres(t))
  BY <1>1, CombinarConserva
<1> QED
  BY <1>1, <1>2, ConservaReparto

-----------------------------------------------------------------------------
(* Segments that come and go *)

\* T1 is T but for the list of p, which is l.
Cambia(T, T1, p, l) ==
    /\ T1 \in Seq(Seq(Segms \cup {Segmento0})) /\ DOMAIN T1 = DOMAIN T /\ Len(T1) = Len(T)
    /\ T1[p] = l /\ \A q \in DOMAIN T : q # p => T1[q] = T[q]

LEMMA CambiaExcept ==
    ASSUME NEW T, TablaBien(T), NEW p \in DOMAIN T, NEW l \in Seq(Segms \cup {Segmento0})
    PROVE  Cambia(T, [T EXCEPT ![p] = l], p, l)
<1> DEFINE T1 == [T EXCEPT ![p] = l]
<1>1. T \in Seq(Seq(Segms \cup {Segmento0}))
  BY DEF TablaBien
<1>2. T1 \in Seq(Seq(Segms \cup {Segmento0})) /\ DOMAIN T1 = DOMAIN T /\ Len(T1) = Len(T)
  BY <1>1
<1>3. T1[p] = l /\ \A q \in DOMAIN T : q # p => T1[q] = T[q]
  BY <1>1
<1> QED
  BY <1>2, <1>3 DEF Cambia

LEMMA CambiaBien ==
    ASSUME NEW T, TablaBien(T), NEW p \in DOMAIN T, NEW l, ListaBien(l), NEW T1, Cambia(T, T1, p, l)
    PROVE  TablaBien(T1)
BY DEF TablaBien, Cambia

LEMMA MismoLargo ==
    ASSUME NEW m \in Nat, NEW n \in Nat, 1..m = 1..n
    PROVE  m = n
<1>1. CASE m < n
  <2>1. n \in 1..n /\ n \notin 1..m
    BY <1>1
  <2> QED
    BY <2>1
<1>2. CASE n < m
  <2>1. m \in 1..m /\ m \notin 1..n
    BY <1>2
  <2> QED
    BY <2>1
<1> QED
  BY <1>1, <1>2

\* A list without its position j.
LEMMA ListaSinUno ==
    ASSUME NEW l, ListaBien(l), NEW j \in 2..Len(l)
    PROVE  /\ ListaBien(RemoveAt(l, j)) /\ Len(RemoveAt(l, j)) = Len(l) - 1
           /\ \A i \in 1..Len(l) - 1 : RemoveAt(l, j)[i] = l[IF i < j THEN i ELSE i + 1]
<1> DEFINE r == RemoveAt(l, j)
           S == Segms \cup {Segmento0}
<1>1. /\ l \in Seq(S) /\ l[1] = Segmento0 /\ \A i \in 2..Len(l) : l[i] \in Segms
      /\ \A i, k \in DOMAIN l : l[i].id = l[k].id => i = k
  BY DEF ListaBien
<1>2. Len(l) \in Nat /\ DOMAIN l = 1..Len(l) /\ j \in DOMAIN l /\ j \in Nat /\ j >= 2 /\ j <= Len(l)
  BY <1>1
<1>3. /\ r \in Seq(S) /\ DOMAIN r = 1..(Len(l) - 1)
      /\ \A i \in 1..(Len(l) - 1) : r[i] = l[IF i < j THEN i ELSE i + 1]
  BY <1>1, <1>2, SinUno
<1> HIDE DEF r
<1>4. Len(r) = Len(l) - 1
  <2>1. Len(r) \in Nat /\ DOMAIN r = 1..Len(r)
    <3> HIDE DEF S
    <3> QED
      BY <1>3
  <2>2. Len(l) - 1 \in Nat /\ 1..Len(r) = 1..(Len(l) - 1)
    <3>1. Len(l) - 1 \in Nat
      BY <1>2
    <3> QED
      BY <1>3, <2>1, <3>1, Zenon
  <2> QED
    BY <2>1, <2>2, MismoLargo
<1>5. r # <<>> /\ r[1] = Segmento0
  BY <1>1, <1>2, <1>3
<1>6. ASSUME NEW i \in 2..Len(r) PROVE r[i] \in Segms
  <2>1. (IF i < j THEN i ELSE i + 1) \in 2..Len(l) /\ i \in 1..(Len(l) - 1)
    BY <1>2, <1>4
  <2> QED
    BY <1>1, <1>3, <2>1
<1>7. ASSUME NEW i \in DOMAIN r, NEW k \in DOMAIN r, r[i].id = r[k].id PROVE i = k
  <2> DEFINE x == IF i < j THEN i ELSE i + 1
             y == IF k < j THEN k ELSE k + 1
  <2>1. x \in DOMAIN l /\ y \in DOMAIN l /\ r[i] = l[x] /\ r[k] = l[y] /\ i \in Nat /\ k \in Nat
    BY <1>2, <1>3
  <2>2. x = y
    <3> HIDE DEF x, y
    <3> QED
      BY <1>1, <1>7, <2>1
  <2> QED
    BY <1>2, <2>1, <2>2
<1>8. ListaBien(r)
  BY <1>3, <1>5, <1>6, <1>7 DEF ListaBien
<1> QED
  BY <1>3, <1>4, <1>8 DEF r

\* A hole at the end of the table.
LEMMA HuecoMas ==
    ASSUME NEW hs \in Seq(Huecos), NEW h \in Huecos
    PROVE  /\ Append(hs, h) \in Seq(Huecos)
           /\ \A c : /\ Contiene(h, c) /\ NingunHueco(hs, c) => UnHueco(Append(hs, h), c)
                     /\ ~Contiene(h, c) /\ NingunHueco(hs, c) => NingunHueco(Append(hs, h), c)
                     /\ ~Contiene(h, c) /\ UnHueco(hs, c) => UnHueco(Append(hs, h), c)
<1> DEFINE t == Append(hs, h)
<1>1. /\ t \in Seq(Huecos) /\ DOMAIN t = DOMAIN hs \cup {Len(hs) + 1} /\ t[Len(hs) + 1] = h
      /\ Len(hs) + 1 \notin DOMAIN hs
      /\ \A i \in DOMAIN hs : t[i] = hs[i]
  OBVIOUS
<1> HIDE DEF t
<1>2. ASSUME NEW c, ~Contiene(h, c), NingunHueco(hs, c) PROVE NingunHueco(t, c)
  BY <1>1, <1>2 DEF NingunHueco
<1>3. ASSUME NEW c, Contiene(h, c), NingunHueco(hs, c) PROVE UnHueco(t, c)
  BY <1>1, <1>3 DEF NingunHueco, UnHueco
<1>4. ASSUME NEW c, ~Contiene(h, c), UnHueco(hs, c) PROVE UnHueco(t, c)
  BY <1>1, <1>4 DEF UnHueco
<1> QED
  BY <1>1, <1>2, <1>3, <1>4 DEF t

\* A segment that is taken out of the list of p and given to the holes.
LEMMA LiberarReparto ==
    ASSUME NEW T, TablaBien(T), NEW hs \in Seq(Huecos), Reparto(hs, T),
           NEW p \in DOMAIN T, NEW j \in 2..Len(T[p]),
           NEW T1, Cambia(T, T1, p, RemoveAt(T[p], j))
    PROVE  /\ Hueco(T[p][j].base, T[p][j].tamanio) \in Huecos
           /\ Reparto(Append(hs, Hueco(T[p][j].base, T[p][j].tamanio)), T1)
<1> DEFINE s == T[p][j]
           h == Hueco(s.base, s.tamanio)
           t == Append(hs, h)
           M(q, i) == IF q = p /\ ~(i < j) THEN i + 1 ELSE i
<1>1. ListaBien(T[p]) /\ s \in Segms /\ \A q \in DOMAIN T : Len(T[q]) \in Nat
  BY DEF TablaBien, ListaBien
<1>2. h \in Huecos
  <2>1. s.base \in Rango /\ s.tamanio \in Tamanios /\ s.tamanio \in Nat
    BY <1>1, SupuestosMemoria DEF Segms
  <2>2. s.tamanio \in Rango /\ TamSegmento0 <= s.base /\ s.base + s.tamanio <= TamMemoria
    BY <1>1, <2>1, SupuestosMemoria DEF Segms, Rango
  <2> QED
    BY <2>1, <2>2 DEF Hueco, Huecos, FinDe
<1>3. \A c : Contiene(h, c) <=> Contiene(s, c)
  BY DEF Contiene, Hueco
<1> HIDE DEF h, s
<1>4. \A c : /\ Contiene(h, c) /\ NingunHueco(hs, c) => UnHueco(t, c)
             /\ ~Contiene(h, c) /\ NingunHueco(hs, c) => NingunHueco(t, c)
             /\ ~Contiene(h, c) /\ UnHueco(hs, c) => UnHueco(t, c)
  BY <1>2, HuecoMas
<1> HIDE DEF t
<1>5. /\ DOMAIN T1 = DOMAIN T /\ Len(T1[p]) = Len(T[p]) - 1
      /\ \A q \in DOMAIN T : q # p => T1[q] = T[q]
      /\ \A i \in 1..Len(T[p]) - 1 : T1[p][i] = T[p][IF i < j THEN i ELSE i + 1]
  BY <1>1, ListaSinUno DEF Cambia
<1>6. j \in Nat /\ j >= 2 /\ j <= Len(T[p]) /\ Len(T[p]) \in Nat
  BY <1>1
<1>7. ASSUME NEW q \in DOMAIN T, NEW i \in 2..Len(T1[q])
      PROVE  M(q, i) \in 2..Len(T[q]) /\ ~(q = p /\ M(q, i) = j) /\ T1[q][i] = T[q][M(q, i)]
  <2>1. CASE q = p
    BY <1>5, <1>6, <2>1
  <2>2. CASE q # p
    BY <1>5, <2>2
  <2> QED
    BY <2>1, <2>2
<1>8. ASSUME NEW q \in DOMAIN T, NEW k \in 2..Len(T[q]), ~(q = p /\ k = j)
      PROVE  \E i \in 2..Len(T1[q]) : M(q, i) = k
  <2>1. CASE q = p /\ k < j
    BY <1>5, <1>6, <2>1
  <2>2. CASE q = p /\ k > j
    <3>1. k - 1 \in 2..Len(T1[q]) /\ ~(k - 1 < j) /\ (k - 1) + 1 = k
      BY <1>5, <1>6, <2>2
    <3> QED
      BY <2>2, <3>1
  <2>3. CASE q # p
    BY <1>5, <2>3
  <2> QED
    BY <1>1, <1>6, <1>8, <2>1, <2>2, <2>3
<1>9. ASSUME NEW q \in DOMAIN T, NEW i \in 2..Len(T1[q]), NEW k \in 2..Len(T1[q]), M(q, i) = M(q, k)
      PROVE  i = k
  BY <1>6, <1>9
<1> HIDE DEF M
<1>10. \A c : NingunSegmento(T, c) => ~Contiene(s, c) /\ NingunSegmento(T1, c)
  BY <1>5, <1>7 DEF NingunSegmento, s
<1>11. ASSUME NEW c, UnSegmento(T, c), Contiene(s, c) PROVE NingunSegmento(T1, c)
  <2>1. PICK q \in DOMAIN T : \E i \in 2..Len(T[q]) :
            \A u \in DOMAIN T : \A k \in 2..Len(T[u]) : Contiene(T[u][k], c) => u = q /\ k = i
    BY <1>11 DEF UnSegmento
  <2>2. PICK i \in 2..Len(T[q]) :
            \A u \in DOMAIN T : \A k \in 2..Len(T[u]) : Contiene(T[u][k], c) => u = q /\ k = i
    BY <2>1
  <2>3. q = p /\ i = j
    BY <1>11, <2>2 DEF s
  <2> QED
    BY <1>5, <1>7, <2>2, <2>3 DEF NingunSegmento
<1>12. ASSUME NEW c, UnSegmento(T, c), ~Contiene(s, c) PROVE UnSegmento(T1, c)
  <2>1. PICK q \in DOMAIN T : \E i \in 2..Len(T[q]) :
          /\ Contiene(T[q][i], c)
          /\ \A u \in DOMAIN T : \A k \in 2..Len(T[u]) : Contiene(T[u][k], c) => u = q /\ k = i
    BY <1>12 DEF UnSegmento
  <2>2. PICK i \in 2..Len(T[q]) :
          /\ Contiene(T[q][i], c)
          /\ \A u \in DOMAIN T : \A k \in 2..Len(T[u]) : Contiene(T[u][k], c) => u = q /\ k = i
    BY <2>1
  <2>3. ~(q = p /\ i = j)
    BY <1>12, <2>2 DEF s
  <2>4. PICK x \in 2..Len(T1[q]) : M(q, x) = i
    BY <1>8, <2>3
  <2>5. Contiene(T1[q][x], c)
    BY <1>7, <2>2, <2>4
  <2>6. ASSUME NEW u \in DOMAIN T1, NEW k \in 2..Len(T1[u]), Contiene(T1[u][k], c)
        PROVE  u = q /\ k = x
    <3>1. u = q /\ M(u, k) = i
      BY <1>5, <1>7, <2>2, <2>6
    <3> QED
      BY <1>9, <2>4, <3>1
  <2> QED
    BY <1>5, <2>5, <2>6 DEF UnSegmento
<1>13. Reparto(t, T1)
  <2> SUFFICES ASSUME NEW c \in Bytes PROVE DeUno(t, T1, c)
    BY DEF Reparto
  <2>1. DeUno(hs, T, c)
    BY DEF Reparto
  <2> QED
    BY <1>3, <1>4, <1>10, <1>11, <1>12, <2>1, Zenon DEF DeUno
<1> QED
  BY <1>2, <1>13 DEF t, h, s

-----------------------------------------------------------------------------
(* eliminar_segmento and eliminar_proceso *)

Con(T, p, l) == [T EXCEPT ![p] = l]

LEMMA ConEs ==
    ASSUME NEW T, TablaBien(T), NEW p \in DOMAIN T, NEW l, ListaBien(l)
    PROVE  /\ Cambia(T, Con(T, p, l), p, l) /\ TablaBien(Con(T, p, l))
           /\ DOMAIN Con(T, p, l) = DOMAIN T /\ Con(T, p, l)[p] = l
           /\ \A k : Con(Con(T, p, l), p, k) = Con(T, p, k)
<1>1. l \in Seq(Segms \cup {Segmento0})
  BY DEF ListaBien
<1>2. Cambia(T, Con(T, p, l), p, l)
  BY <1>1, CambiaExcept DEF Con
<1>3. TablaBien(Con(T, p, l))
  BY <1>2, CambiaBien
<1>4. \A k : Con(Con(T, p, l), p, k) = Con(T, p, k)
  BY DEF Con
<1> QED
  BY <1>2, <1>3, <1>4 DEF Cambia

\* What eliminar_segmento does to a list.
QuitaDe(l, id, k) ==
    \/ k = l /\ \A i \in DOMAIN l : l[i].id # id
    \/ \E j \in 2..Len(l) : l[j].id = id /\ k = RemoveAt(l, j)

\* The holes and the list of p in T are a good table.
EstadoBien(e, T, p) ==
    /\ e.huecos \in Seq(Huecos) /\ ListaBien(e.segmentos)
    /\ Reparto(e.huecos, Con(T, p, e.segmentos))

\* eliminar_segmento keeps the partition.
LEMMA EliminarDeBien ==
    ASSUME NEW T, TablaBien(T), NEW p \in DOMAIN T, NEW e, e.segmentos = T[p],
           e.huecos \in Seq(Huecos), Reparto(e.huecos, T), NEW id, id # 0,
           NEW f \in EliminarDe(e, id)
    PROVE  EstadoBien(f, T, p) /\ QuitaDe(T[p], id, f.segmentos)
<1> DEFINE l == T[p]
           I == {i \in 1..Len(l) : l[i].id = id}
           j == SelectInSeq(e.segmentos, LAMBDA s : s.id = id)
           h == Hueco(l[j].base, l[j].tamanio)
           hs == IF j = 0 THEN e.huecos ELSE Append(e.huecos, h)
           ss == IF j = 0 THEN l ELSE RemoveAt(l, j)
<1>1. ListaBien(l)
  BY DEF TablaBien
<1>2. /\ l \in Seq(Segms \cup {Segmento0}) /\ Len(l) \in Nat /\ DOMAIN l = 1..Len(l)
      /\ l[1] = Segmento0
  BY <1>1 DEF ListaBien
<1>3. j = IF I # {} THEN Min(I) ELSE 0
  BY DEF SelectInSeq
<1>4. PICK t \in Ordenaciones(hs) :
            f = [huecos |-> CombinarHuecosLibres(t), segmentos |-> ss]
  BY DEF EliminarDe
<1>5. f.huecos = CombinarHuecosLibres(t) /\ f.segmentos = ss
  BY <1>4
<1>6. CASE I = {}
  <2>1. j = 0
    BY <1>3, <1>6
  <2>2. hs = e.huecos /\ ss = l
    BY <2>1
  <2>3. \A i \in DOMAIN l : l[i].id # id
    BY <1>2, <1>6
  <2>4. Con(T, p, l) = T
    <3>1. T = [q \in DOMAIN T |-> T[q]]
      BY DEF TablaBien
    <3> QED
      BY <3>1 DEF Con
  <2> HIDE DEF hs, ss, j, I
  <2>5. f.huecos \in Seq(Huecos) /\ Reparto(f.huecos, T)
    BY <1>5, <2>2, OrdenarYCombinar
  <2> QED
    BY <1>1, <1>5, <2>2, <2>3, <2>4, <2>5 DEF EstadoBien, QuitaDe
<1>7. CASE I # {}
  <2>1. j \in I
    <3>1. I \in SUBSET Nat
      BY <1>2
    <3> HIDE DEF I
    <3> QED
      BY <1>3, <1>7, <3>1, MenorExiste
  <2>2. j \in 2..Len(l) /\ l[j].id = id /\ j # 0
    <3>1. l[1].id = 0
      BY <1>2 DEF Segmento0, Segmento
    <3> HIDE DEF j
    <3> QED
      BY <1>2, <2>1, <3>1
  <2> HIDE DEF j, I
  <2>3. hs = Append(e.huecos, h) /\ ss = RemoveAt(l, j)
    BY <2>2
  <2>4. ListaBien(ss)
    BY <1>1, <2>2, <2>3, ListaSinUno
  <2> HIDE DEF hs, ss
  <2>5. Cambia(T, Con(T, p, ss), p, RemoveAt(T[p], j))
    BY <2>3, <2>4, ConEs
  <2>6. h \in Huecos /\ Reparto(Append(e.huecos, h), Con(T, p, ss))
    BY <2>2, <2>5, LiberarReparto
  <2>7. hs \in Seq(Huecos)
    BY <2>3, <2>6, HuecoMas
  <2>8. f.huecos \in Seq(Huecos) /\ Reparto(f.huecos, Con(T, p, ss))
    BY <1>5, <2>3, <2>6, <2>7, OrdenarYCombinar
  <2>9. QuitaDe(l, id, ss)
    BY <2>2, <2>3 DEF QuitaDe
  <2> QED
    BY <1>5, <2>4, <2>8, <2>9 DEF EstadoBien
<1> QED
  BY <1>6, <1>7

\* The definition of `tras` in EliminarProceso defines a function.
Tras(g, e0, n) ==
    g = [c \in 0..n - 1 |->
            IF c = 0 THEN {e0}
            ELSE UNION {EliminarDe(e, e.segmentos[n + 1 - c].id) : e \in g[c - 1]}]

LEMMA TrasExiste ==
    ASSUME NEW e0, NEW n \in Nat
    PROVE  \E g : Tras(g, e0, n)
<1> DEFINE F(S, c) == UNION {EliminarDe(e, e.segmentos[n + 1 - c].id) : e \in S}
           Parcial(g, m) == g = [c \in 0..m |-> IF c = 0 THEN {e0} ELSE F(g[c - 1], c)]
           P == {m \in Nat : \E g : Parcial(g, m)}
<1> HIDE DEF F
<1>1. 0 \in P
  <2> DEFINE g == [c \in 0..0 |-> {e0}]
  <2>1. Parcial(g, 0)
    OBVIOUS
  <2> HIDE DEF Parcial
  <2> QED
    BY <2>1
<1>2. ASSUME NEW m \in P PROVE m + 1 \in P
  <2>1. PICK g : Parcial(g, m)
    OBVIOUS
  <2> DEFINE h == [c \in 0..m + 1 |-> IF c = m + 1 THEN F(g[m], m + 1) ELSE g[c]]
  <2>2. DOMAIN g = 0..m /\ \A c \in 0..m : g[c] = IF c = 0 THEN {e0} ELSE F(g[c - 1], c)
    BY <2>1, Zenon
  <2>3. \A c \in 0..m : h[c] = g[c]
    OBVIOUS
  <2>4. ASSUME NEW c \in 0..m + 1
        PROVE  h[c] = IF c = 0 THEN {e0} ELSE F(h[c - 1], c)
    <3>1. CASE c = m + 1
      <4>1. h[c] = F(g[m], m + 1) /\ c - 1 = m /\ h[m] = g[m] /\ c # 0
        BY <2>3, <3>1
      <4> HIDE DEF h
      <4> QED
        BY <3>1, <4>1
    <3>2. CASE c # m + 1
      <4>1. c \in 0..m /\ h[c] = g[c] /\ (c # 0 => c - 1 \in 0..m)
        BY <3>2
      <4>2. c # 0 => h[c - 1] = g[c - 1]
        BY <2>3, <4>1
      <4> HIDE DEF h
      <4> QED
        BY <2>2, <4>1, <4>2
    <3> QED
      BY <3>1, <3>2
  <2>5. h = [c \in 0..m + 1 |-> h[c]]
    OBVIOUS
  <2> HIDE DEF h
  <2>6. Parcial(h, m + 1)
    BY <2>4, <2>5
  <2> HIDE DEF Parcial
  <2>7. m + 1 \in Nat
    OBVIOUS
  <2> QED
    BY <2>6, <2>7
<1> HIDE DEF Parcial
<1>3. P \in SUBSET Nat
  OBVIOUS
<1>4. P = Nat
  <2> HIDE DEF P
  <2> QED
    BY <1>1, <1>2, <1>3, InduccionNat
<1>5. CASE n = 0
  <2>1. \E g : g = [c \in {} |-> {}]
    OBVIOUS
  <2>2. 0..n - 1 = {}
    BY <1>5
  <2> QED
    BY <2>1, <2>2 DEF Tras
<1>6. CASE n # 0
  <2>1. n - 1 \in P
    BY <1>4, <1>6
  <2>2. PICK g : Parcial(g, n - 1)
    BY <2>1
  <2> QED
    BY <2>2 DEF Tras, Parcial, F
<1> QED
  BY <1>5, <1>6

\* The list of a process while eliminar_proceso takes segments from its end.
Recortada(k, l, m) == Len(k) = m /\ \A i \in 1..m : k[i] = l[i]

LEMMA QuitaElUltimo ==
    ASSUME NEW l, ListaBien(l), NEW k, NEW m \in Nat, m >= 2, Len(l) = m,
           QuitaDe(l, l[m].id, k)
    PROVE  Recortada(k, l, m - 1)
<1>1. DOMAIN l = 1..m /\ \A i, j \in DOMAIN l : l[i].id = l[j].id => i = j
  BY DEF ListaBien
<1>2. m \in DOMAIN l
  BY <1>1
<1>3. PICK j \in 2..m : l[j].id = l[m].id /\ k = RemoveAt(l, j)
  BY <1>2 DEF QuitaDe
<1>4. j = m
  BY <1>1, <1>2, <1>3
<1>5. Len(k) = m - 1 /\ \A i \in 1..m - 1 : k[i] = l[IF i < m THEN i ELSE i + 1]
  BY <1>3, <1>4, ListaSinUno
<1> QED
  BY <1>5 DEF Recortada

\* eliminar_proceso leaves the process with segment 0.
LEMMA TrasBien ==
    ASSUME NEW T, TablaBien(T), NEW p \in DOMAIN T, NEW hs \in Seq(Huecos), Reparto(hs, T),
           NEW g, Tras(g, [huecos |-> hs, segmentos |-> T[p]], Len(T[p])),
           NEW e \in g[Len(T[p]) - 1]
    PROVE  EstadoBien(e, T, p) /\ Recortada(e.segmentos, T[p], 1)
<1> DEFINE l == T[p]
           n == Len(l)
           Q(c, x) == EstadoBien(x, T, p) /\ Recortada(x.segmentos, l, n - c)
           P == {c \in Nat : c <= n - 1 => \A x \in g[c] : Q(c, x)}
<1>1. ListaBien(l) /\ n \in Nat /\ n >= 1 /\ DOMAIN l = 1..n
  BY DEF TablaBien, ListaBien
<1> DEFINE F(S, d) == UNION {EliminarDe(x, x.segmentos[d].id) : x \in S}
           e0 == [huecos |-> hs, segmentos |-> l]
<1> HIDE DEF n
<1>2. Con(T, p, l) = T
  <2>1. T = [q \in DOMAIN T |-> T[q]]
    BY DEF TablaBien
  <2> QED
    BY <2>1 DEF Con
<1>3. \A c \in 0..n - 1 : g[c] = IF c = 0 THEN {e0} ELSE F(g[c - 1], n + 1 - c)
  BY Zenon DEF Tras, n
<1> HIDE DEF F
<1>4. 0 \in P
  <2> SUFFICES ASSUME NEW x \in g[0] PROVE Q(0, x)
    OBVIOUS
  <2>1. x = e0
    <3>1. 0 \in 0..n - 1
      BY <1>1
    <3>2. g[0] = {e0}
      BY <1>3, <3>1
    <3> QED
      BY <3>2
  <2>2. x.huecos = hs /\ x.segmentos = l
    BY <2>1
  <2>3. EstadoBien(x, T, p)
    BY <1>1, <1>2, <2>2 DEF EstadoBien
  <2>4. n - 0 = n
    BY <1>1
  <2> QED
    BY <2>2, <2>3, <2>4 DEF Recortada, n
<1>5. ASSUME NEW c \in P PROVE c + 1 \in P
  <2>0. c \in Nat /\ c + 1 \in Nat
    OBVIOUS
  <2> SUFFICES ASSUME c + 1 <= n - 1, NEW f \in g[c + 1] PROVE Q(c + 1, f)
    BY <2>0
  <2>1. c <= n - 1 /\ c + 1 \in 0..n - 1 /\ c + 1 # 0 /\ (c + 1) - 1 = c /\ n + 1 - (c + 1) = n - c
    BY <1>1, <2>0
  <2>2. PICK x \in g[c] : f \in EliminarDe(x, x.segmentos[n - c].id)
    <3>1. g[c + 1] = F(g[c], n - c)
      BY <1>3, <2>1
    <3> QED
      BY <3>1 DEF F
  <2>3. Q(c, x)
    BY <2>1
  <2> DEFINE k == x.segmentos
             m == n - c
             T1 == Con(T, p, k)
  <2>4. m \in Nat /\ m >= 2 /\ n - (c + 1) = m - 1
    BY <1>1, <2>0, <2>1
  <2>5. ListaBien(k) /\ x.huecos \in Seq(Huecos) /\ Reparto(x.huecos, T1) /\ Recortada(k, l, m)
    BY <2>3 DEF EstadoBien
  <2> HIDE DEF m, P
  <2>6. /\ TablaBien(T1) /\ p \in DOMAIN T1 /\ T1[p] = k
        /\ \A y : Con(T1, p, y) = Con(T, p, y)
    BY <2>5, ConEs
  <2>7. k[m].id # 0 /\ Len(k) = m
    <3>1. Len(k) = m /\ m \in 2..Len(k)
      BY <2>4, <2>5 DEF Recortada
    <3>2. k[m] \in Segms
      BY <2>5, <3>1 DEF ListaBien
    <3> QED
      BY <3>1, <3>2, SupuestosMemoria DEF Segms
  <2> HIDE DEF T1, k
  <2>8. EstadoBien(f, T1, p) /\ QuitaDe(k, k[m].id, f.segmentos)
    <3>1. x.segmentos = T1[p] /\ f \in EliminarDe(x, k[m].id)
      BY <2>2, <2>6 DEF k, m
    <3> QED
      BY <2>5, <2>6, <2>7, <3>1, EliminarDeBien
  <2>9. Recortada(f.segmentos, k, m - 1)
    BY <2>4, <2>5, <2>7, <2>8, QuitaElUltimo
  <2>10. Recortada(f.segmentos, l, m - 1)
    BY <2>4, <2>5, <2>9 DEF Recortada
  <2>11. EstadoBien(f, T, p)
    BY <2>6, <2>8 DEF EstadoBien
  <2> QED
    BY <2>4, <2>10, <2>11
<1>6. P = Nat
  <2> HIDE DEF P
  <2>1. P \in SUBSET Nat
    BY DEF P
  <2> QED
    BY <1>4, <1>5, <2>1, InduccionNat
<1>7. n - 1 \in P /\ n - 1 <= n - 1 /\ n - (n - 1) = 1
  BY <1>1, <1>6
<1> QED
  BY <1>7 DEF n

-----------------------------------------------------------------------------
(* crear_segmento *)

\* A segment at the end of a list.
LEMMA ListaMasUno ==
    ASSUME NEW l, ListaBien(l), NEW s \in Segms, \A i \in DOMAIN l : l[i].id # s.id
    PROVE  /\ ListaBien(Append(l, s)) /\ Len(Append(l, s)) = Len(l) + 1
           /\ Append(l, s)[Len(l) + 1] = s
           /\ \A i \in 1..Len(l) : Append(l, s)[i] = l[i]
<1> DEFINE k == Append(l, s)
           S == Segms \cup {Segmento0}
<1>1. /\ l \in Seq(S) /\ l # <<>> /\ l[1] = Segmento0 /\ \A i \in 2..Len(l) : l[i] \in Segms
      /\ \A i, j \in DOMAIN l : l[i].id = l[j].id => i = j
  BY DEF ListaBien
<1>2. Len(l) \in Nat /\ DOMAIN l = 1..Len(l) /\ Len(l) >= 1
  BY <1>1
<1>3. /\ k \in Seq(S) /\ Len(k) = Len(l) + 1 /\ DOMAIN k = 1..(Len(l) + 1)
      /\ k[Len(l) + 1] = s /\ \A i \in 1..Len(l) : k[i] = l[i]
  BY <1>1, <1>2
<1> HIDE DEF k
<1>4. k # <<>> /\ k[1] = Segmento0
  BY <1>1, <1>2, <1>3
<1>5. ASSUME NEW i \in 2..Len(k) PROVE k[i] \in Segms
  BY <1>1, <1>2, <1>3
<1>6. ASSUME NEW i \in DOMAIN k, NEW j \in DOMAIN k, k[i].id = k[j].id PROVE i = j
  BY <1>1, <1>2, <1>3, <1>6
<1> QED
  BY <1>3, <1>4, <1>5, <1>6 DEF k, ListaBien

\* A segment is cut from the front of a hole and put in the list of p.
LEMMA UbicarReparto ==
    ASSUME NEW T, TablaBien(T), NEW hs \in Seq(Huecos), Reparto(hs, T),
           NEW p \in DOMAIN T, NEW i \in DOMAIN hs,
           NEW t \in Tamanios, hs[i].tamanio >= t,
           NEW id \in Ids, \A j \in DOMAIN T[p] : T[p][j].id # id,
           NEW s, s = Segmento(id, hs[i].base, t),
           NEW h, h = Hueco(hs[i].base + t, hs[i].tamanio - t)
    PROVE  /\ s \in Segms /\ [hs EXCEPT ![i] = h] \in Seq(Huecos)
           /\ ListaBien(Append(T[p], s))
           /\ Reparto([hs EXCEPT ![i] = h], Con(T, p, Append(T[p], s)))
<1> DEFINE hs1 == [hs EXCEPT ![i] = h]
           l == T[p]
           k == Append(l, s)
           T1 == Con(T, p, k)
           n == Len(l)
<1>1. /\ hs[i] \in [base : Rango, tamanio : Rango] /\ t \in Nat /\ t >= 1
      /\ TamSegmento0 <= hs[i].base /\ hs[i].base + hs[i].tamanio <= TamMemoria
      /\ TamMemoria \in Nat /\ TamSegmento0 \in Nat
  BY SupuestosMemoria DEF Huecos, FinDe
<1>2. hs[i].base \in Nat /\ hs[i].tamanio \in Nat
  BY <1>1 DEF Rango
<1>3. s.id = id /\ s.base = hs[i].base /\ s.tamanio = t
  BY DEF Segmento
<1>4. h.base = hs[i].base + t /\ h.tamanio = hs[i].tamanio - t
  BY DEF Hueco
<1>5. s \in Segms
  <2>1. s \in [id : Ids, base : Rango, tamanio : Tamanios]
    BY <1>1 DEF Segmento
  <2> QED
    BY <1>1, <1>2, <1>3, <2>1 DEF Segms
<1>6. h \in Huecos
  <2>1. h.base \in Rango /\ h.tamanio \in Rango
    BY <1>1, <1>2, <1>4 DEF Rango
  <2>2. h \in [base : Rango, tamanio : Rango]
    BY <1>4, <2>1 DEF Hueco
  <2> QED
    BY <1>1, <1>2, <1>4, <2>2 DEF Huecos, FinDe
<1>7. /\ hs1 \in Seq(Huecos) /\ DOMAIN hs1 = DOMAIN hs /\ hs1[i] = h
      /\ \A j \in DOMAIN hs : j # i => hs1[j] = hs[j]
  BY <1>6
<1>8. ListaBien(l)
  BY DEF TablaBien
<1>9. /\ ListaBien(k) /\ Len(k) = n + 1 /\ k[n + 1] = s /\ \A j \in 1..n : k[j] = l[j]
  BY <1>3, <1>5, <1>8, ListaMasUno
<1> HIDE DEF hs1, k
<1>10. /\ DOMAIN T1 = DOMAIN T /\ T1[p] = k
       /\ \A q \in DOMAIN T : q # p => T1[q] = T[q]
  BY <1>9, ConEs DEF Cambia
<1>11. \A q \in DOMAIN T : Len(T[q]) \in Nat /\ Len(T[q]) >= 1
  BY DEF TablaBien, ListaBien
<1> HIDE DEF T1, l
<1>12. n \in Nat /\ n >= 1 /\ n + 1 \in 2..n + 1 /\ n = Len(T[p])
  BY <1>11 DEF l
<1> HIDE DEF n
<1>13. ASSUME NEW q \in DOMAIN T, NEW j \in 2..Len(T[q])
       PROVE  j \in 2..Len(T1[q]) /\ T1[q][j] = T[q][j] /\ ~(q = p /\ j = n + 1)
  BY <1>9, <1>10, <1>11, <1>12 DEF l
<1>14. ASSUME NEW q \in DOMAIN T, NEW j \in 2..Len(T1[q]), ~(q = p /\ j = n + 1)
       PROVE  j \in 2..Len(T[q]) /\ T1[q][j] = T[q][j]
  BY <1>9, <1>10, <1>11, <1>12, <1>14 DEF l
<1>15. p \in DOMAIN T1 /\ n + 1 \in 2..Len(T1[p]) /\ T1[p][n + 1] = s
  BY <1>9, <1>10, <1>12
<1>16. ASSUME NEW c \in Bytes PROVE DeUno(hs1, T1, c)
  <2>0. c \in Nat
    BY SupuestosMemoria DEF Bytes
  <2>1. /\ Contiene(hs[i], c) <=> Contiene(s, c) \/ Contiene(h, c)
        /\ ~(Contiene(s, c) /\ Contiene(h, c))
    BY <1>1, <1>2, <1>3, <1>4, <2>0 DEF Contiene
  <2>2. CASE UnHueco(hs, c) /\ NingunSegmento(T, c) /\ Contiene(s, c)
    <3>1. \A j \in DOMAIN hs : Contiene(hs[j], c) => j = i
      BY <2>1, <2>2 DEF UnHueco
    <3>2. NingunHueco(hs1, c)
      BY <1>7, <2>1, <2>2, <3>1 DEF NingunHueco
    <3>3. ASSUME NEW q \in DOMAIN T1, NEW j \in 2..Len(T1[q]), Contiene(T1[q][j], c)
          PROVE  q = p /\ j = n + 1
      BY <1>10, <1>14, <2>2, <3>3 DEF NingunSegmento
    <3>4. UnSegmento(T1, c)
      BY <1>15, <2>2, <3>3 DEF UnSegmento
    <3> QED
      BY <3>2, <3>4 DEF DeUno
  <2>3. CASE UnHueco(hs, c) /\ NingunSegmento(T, c) /\ ~Contiene(s, c)
    <3>1. PICK x \in DOMAIN hs : Contiene(hs[x], c) /\ \A j \in DOMAIN hs : Contiene(hs[j], c) => j = x
      BY <2>3 DEF UnHueco
    <3>2. Contiene(hs1[x], c)
      BY <1>7, <2>1, <2>3, <3>1
    <3>3. \A j \in DOMAIN hs1 : Contiene(hs1[j], c) => j = x
      BY <1>7, <2>1, <3>1
    <3>4. UnHueco(hs1, c)
      BY <1>7, <3>2, <3>3 DEF UnHueco
    <3>5. NingunSegmento(T1, c)
      <4> SUFFICES ASSUME NEW q \in DOMAIN T1, NEW j \in 2..Len(T1[q]), Contiene(T1[q][j], c)
                   PROVE  FALSE
        BY DEF NingunSegmento
      <4>1. ~(q = p /\ j = n + 1)
        BY <1>15, <2>3
      <4> QED
        BY <1>10, <1>14, <2>3, <4>1 DEF NingunSegmento
    <3> QED
      BY <3>4, <3>5 DEF DeUno
  <2>4. CASE NingunHueco(hs, c) /\ UnSegmento(T, c)
    <3>1. ~Contiene(s, c) /\ ~Contiene(h, c)
      BY <2>1, <2>4 DEF NingunHueco
    <3>2. NingunHueco(hs1, c)
      BY <1>7, <2>4, <3>1 DEF NingunHueco
    <3>3. PICK q \in DOMAIN T : \E j \in 2..Len(T[q]) :
            /\ Contiene(T[q][j], c)
            /\ \A u \in DOMAIN T : \A x \in 2..Len(T[u]) : Contiene(T[u][x], c) => u = q /\ x = j
      BY <2>4 DEF UnSegmento
    <3>4. PICK j \in 2..Len(T[q]) :
            /\ Contiene(T[q][j], c)
            /\ \A u \in DOMAIN T : \A x \in 2..Len(T[u]) : Contiene(T[u][x], c) => u = q /\ x = j
      BY <3>3
    <3>5. j \in 2..Len(T1[q]) /\ Contiene(T1[q][j], c)
      BY <1>13, <3>4
    <3>6. ASSUME NEW u \in DOMAIN T1, NEW x \in 2..Len(T1[u]), Contiene(T1[u][x], c)
          PROVE  u = q /\ x = j
      <4>1. ~(u = p /\ x = n + 1)
        BY <1>15, <3>1, <3>6
      <4>2. x \in 2..Len(T[u]) /\ T1[u][x] = T[u][x] /\ u \in DOMAIN T
        BY <1>10, <1>14, <4>1
      <4> QED
        BY <3>4, <3>6, <4>2
    <3>7. UnSegmento(T1, c)
      BY <1>10, <3>5, <3>6 DEF UnSegmento
    <3> QED
      BY <3>2, <3>7 DEF DeUno
  <2> QED
    BY <2>2, <2>3, <2>4 DEF Reparto, DeUno
<1>17. Reparto(hs1, T1)
  BY <1>16 DEF Reparto
<1> QED
  BY <1>5, <1>7, <1>9, <1>17 DEF hs1, k, T1, l

\* Every search gives a hole that fits.
LEMMA ElegirHuecoEs ==
    ASSUME huecos \in Seq(Huecos), algoritmo \in Algoritmos, NEW t, Cabe(t) # {}
    PROVE  ElegirHueco(t) \in Cabe(t)
<1>1. Cabe(t) \in SUBSET Nat
  BY DEF Cabe
<1>2. Min(Cabe(t)) \in Cabe(t)
  BY <1>1, MenorExiste
<1>3. ASSUME NEW x \in Cabe(t), NEW M \in SUBSET Cabe(t) PROVE M # {} => Min(M) \in Cabe(t)
  BY <1>1, MenorExiste
<1>4. BuscarPorBest(t) \in Cabe(t)
  <2> DEFINE i == Min(Cabe(t))
             M == {j \in Cabe(t) : j > i /\ huecos[j].tamanio < huecos[i].tamanio}
  <2>1. BuscarPorBest(t) = IF M = {} THEN i ELSE Min(M)
    BY DEF BuscarPorBest, PrimeroYMejor
  <2>2. M \in SUBSET Cabe(t)
    OBVIOUS
  <2> HIDE DEF M
  <2> QED
    BY <1>2, <1>3, <2>1, <2>2
<1>5. BuscarPorWorst(t) \in Cabe(t)
  <2> DEFINE i == Min(Cabe(t))
             M == {j \in Cabe(t) : j > i /\ huecos[j].tamanio > huecos[i].tamanio}
  <2>1. BuscarPorWorst(t) = IF M = {} THEN i ELSE Min(M)
    BY DEF BuscarPorWorst, PrimeroYMejor
  <2>2. M \in SUBSET Cabe(t)
    OBVIOUS
  <2> HIDE DEF M
  <2> QED
    BY <1>2, <1>3, <2>1, <2>2
<1>6. algoritmo \in {"FIRST", "BEST", "WORST"}
  BY SupuestosMemoria
<1> QED
  BY <1>2, <1>4, <1>5, <1>6 DEF ElegirHueco, BuscarPorFirst

-----------------------------------------------------------------------------
(* Compaction: where the segments are *)

TablasBien == huecos \in Seq(Huecos) /\ TablaBien(tabla) /\ Reparto(huecos, tabla)

Seg(l) == tabla[l[1]][l[2]]

\* The bytes of a segment.
Zona(l) == {c \in Bytes : Contiene(Seg(l), c)}

LEMMA LugarEs ==
    ASSUME TablaBien(tabla)
    PROVE  /\ \A l \in Lugares : /\ l[1] \in DOMAIN tabla /\ l[2] \in DOMAIN tabla[l[1]]
                                 /\ l = <<l[1], l[2]>> /\ l[1] \in Nat /\ l[2] \in Nat /\ l[2] >= 1
           /\ \A p \in DOMAIN tabla : \A i \in DOMAIN tabla[p] : <<p, i>> \in Lugares
<1>1. ASSUME NEW l \in Lugares
      PROVE  l[1] \in DOMAIN tabla /\ l[2] \in DOMAIN tabla[l[1]] /\ l = <<l[1], l[2]>>
  <2>1. PICK p \in DOMAIN tabla : l \in {p} \X DOMAIN tabla[p]
    BY DEF Lugares
  <2> QED
    BY <2>1
<1>2. \A p \in DOMAIN tabla : p \in Nat /\ \A i \in DOMAIN tabla[p] : i \in Nat /\ i >= 1
  BY DEF TablaBien
<1>3. \A p \in DOMAIN tabla : \A i \in DOMAIN tabla[p] : <<p, i>> \in Lugares
  BY DEF Lugares
<1> QED
  BY <1>1, <1>2, <1>3

LEMMA LugaresFinitos ==
    ASSUME TablaBien(tabla)
    PROVE  IsFiniteSet(Lugares) /\ IsFiniteSet(Propios)
<1>1. \A p \in DOMAIN tabla : Len(tabla[p]) \in Nat /\ DOMAIN tabla[p] = 1..Len(tabla[p])
  BY DEF TablaBien
<1>2. ASSUME NEW p \in DOMAIN tabla PROVE IsFiniteSet({p} \X DOMAIN tabla[p])
  <2>1. IsFiniteSet(DOMAIN tabla[p])
    BY <1>1, FS_Interval
  <2>2. IsFiniteSet({p})
    BY FS_Singleton
  <2> QED
    BY <2>1, <2>2, FS_Product
<1>3. IsFiniteSet(DOMAIN tabla)
  <2>1. Len(tabla) \in Nat /\ DOMAIN tabla = 1..Len(tabla)
    BY DEF TablaBien
  <2> QED
    BY <2>1, FS_Interval
<1>4. IsFiniteSet({{p} \X DOMAIN tabla[p] : p \in DOMAIN tabla})
  <2> DEFINE f == [p \in DOMAIN tabla |-> {p} \X DOMAIN tabla[p]]
             S == {{p} \X DOMAIN tabla[p] : p \in DOMAIN tabla}
  <2>1. f \in [DOMAIN tabla -> S] /\ \A t \in S : \E p \in DOMAIN tabla : f[p] = t
    BY Zenon
  <2>2. f \in Surjection(DOMAIN tabla, S)
    BY <2>1 DEF Surjection
  <2> QED
    BY <1>3, <2>2, FS_Surjection
<1>5. IsFiniteSet(Lugares)
  BY <1>2, <1>4, FS_UNION DEF Lugares
<1> QED
  BY <1>5, FS_Subset DEF Propios

LEMMA PropioEs ==
    ASSUME TablasBien, NEW l \in Propios
    PROVE  /\ l \in Lugares /\ l[1] \in DOMAIN tabla /\ l[2] \in 2..Len(tabla[l[1]])
           /\ Seg(l) \in Segms /\ Base(l) = Seg(l).base /\ Tamanio(l) = Seg(l).tamanio
           /\ Base(l) \in Nat /\ Tamanio(l) \in Nat /\ Tamanio(l) >= 1
           /\ TamSegmento0 <= Base(l) /\ Base(l) + Tamanio(l) <= TamMemoria
           /\ Zona(l) = Base(l)..Base(l) + Tamanio(l) - 1
           /\ Base(l) \in Zona(l)
<1>1. /\ l \in Lugares /\ l[1] \in DOMAIN tabla /\ l[2] \in DOMAIN tabla[l[1]] /\ l[2] > 1
      /\ l[2] \in Nat
  BY LugarEs DEF Propios, TablasBien
<1>2. ListaBien(tabla[l[1]]) /\ l[2] \in 2..Len(tabla[l[1]])
  BY <1>1 DEF TablasBien, TablaBien, ListaBien
<1>3. Seg(l) \in Segms
  BY <1>2 DEF ListaBien, Seg
<1>4. Base(l) = Seg(l).base /\ Tamanio(l) = Seg(l).tamanio
  BY DEF Base, Tamanio, Seg
<1>5. /\ Base(l) \in Nat /\ Tamanio(l) \in Nat /\ Tamanio(l) >= 1
      /\ TamSegmento0 <= Base(l) /\ Base(l) + Tamanio(l) <= TamMemoria
  <2>1. /\ Seg(l).base \in Rango /\ Seg(l).tamanio \in Tamanios
        /\ TamSegmento0 <= Seg(l).base /\ Seg(l).base + Seg(l).tamanio <= TamMemoria
    BY <1>3 DEF Segms
  <2>2. Seg(l).base \in Nat /\ Seg(l).tamanio \in Nat /\ Seg(l).tamanio # 0
    <3>1. Tamanios \subseteq Nat \ {0} /\ Rango \subseteq Nat
      BY SupuestosMemoria DEF Rango
    <3> QED
      BY <2>1, <3>1
  <2>3. TamSegmento0 \in Nat /\ TamMemoria \in Nat
    BY SupuestosMemoria
  <2> QED
    BY <1>4, <2>1, <2>2, <2>3
<1>6. Zona(l) = Base(l)..Base(l) + Tamanio(l) - 1
  BY <1>4, <1>5, SupuestosMemoria DEF Zona, Bytes, Contiene
<1> QED
  BY <1>1, <1>2, <1>3, <1>4, <1>5, <1>6

\* No byte is of two segments.
LEMMA ZonasAparte ==
    ASSUME TablasBien, NEW k \in Propios, NEW l \in Propios, k # l
    PROVE  Zona(k) \cap Zona(l) = {}
<1> SUFFICES ASSUME NEW c \in Bytes, Contiene(Seg(k), c), Contiene(Seg(l), c) PROVE FALSE
  BY DEF Zona
<1>1. /\ k[1] \in DOMAIN tabla /\ k[2] \in 2..Len(tabla[k[1]])
      /\ l[1] \in DOMAIN tabla /\ l[2] \in 2..Len(tabla[l[1]])
  BY PropioEs
<1>2. ~NingunSegmento(tabla, c)
  BY <1>1 DEF NingunSegmento, Seg
<1>3. UnSegmento(tabla, c)
  BY <1>2 DEF TablasBien, Reparto, DeUno
<1>4. k[1] = l[1] /\ k[2] = l[2]
  BY <1>1, <1>3 DEF UnSegmento, Seg
<1>5. k = <<k[1], k[2]>> /\ l = <<l[1], l[2]>>
  BY LugarEs, PropioEs DEF TablasBien
<1> QED
  BY <1>4, <1>5

LEMMA UnoAntesDeOtro ==
    ASSUME TablasBien, NEW k \in Propios, NEW l \in Propios
    PROVE  /\ Base(k) < Base(l) => Base(k) + Tamanio(k) <= Base(l)
           /\ Base(k) = Base(l) => k = l
<1>1. /\ Base(k) \in Nat /\ Tamanio(k) \in Nat /\ Base(l) \in Nat
      /\ Zona(k) = Base(k)..Base(k) + Tamanio(k) - 1 /\ Base(l) \in Zona(l) /\ Base(k) \in Zona(k)
  BY PropioEs
<1>2. Zona(k) \cap Zona(l) # {} => k = l
  BY ZonasAparte
<1>3. CASE Base(k) = Base(l)
  BY <1>1, <1>2, <1>3
<1>4. CASE Base(k) < Base(l)
  <2>1. Base(l) \notin Zona(k)
    BY <1>1, <1>2, <1>4
  <2> QED
    BY <1>1, <1>4, <2>1
<1> QED
  BY <1>1, <1>3, <1>4

\* The segments that compaction moves are the processes' own.
LEMMA MovidosEs ==
    ASSUME TablasBien, TamSegmento0 > 0
    PROVE  Movidos = Propios
<1> DEFINE Ceros == {<<p, 1>> : p \in DOMAIN tabla}
<1>0. TablaBien(tabla) /\ Len(tabla) \in Nat /\ DOMAIN tabla = 1..Len(tabla)
  BY DEF TablasBien, TablaBien
<1>1. ASSUME NEW p \in DOMAIN tabla
      PROVE  <<p, 1>> \in Lugares /\ Base(<<p, 1>>) = 0 /\ <<p, 1>>[1] = p /\ <<p, 1>>[2] = 1
  <2>1. tabla[p] # <<>> /\ tabla[p][1] = Segmento0 /\ 1 \in DOMAIN tabla[p]
    BY <1>0 DEF TablaBien, ListaBien
  <2> QED
    BY <1>0, <2>1, LugarEs DEF Base, Segmento0, Segmento
<1>2. ASSUME NEW n \in Nat, n <= Len(tabla)
      PROVE  /\ IsFiniteSet({<<p, 1>> : p \in 1..n}) /\ Cardinality({<<p, 1>> : p \in 1..n}) = n
  <2> DEFINE f == [p \in 1..n |-> <<p, 1>>]
             S == {<<p, 1>> : p \in 1..n}
  <2>0. f \in [1..n -> S] /\ \A t \in S : \E p \in 1..n : f[p] = t
    BY Zenon
  <2>3. \A p, q \in 1..n : f[p] = f[q] => p = q
    OBVIOUS
  <2>1. f \in Bijection(1..n, S)
    <3> HIDE DEF f, S
    <3> QED
      BY <2>0, <2>3 DEF Bijection, Injection, Surjection, IsInjective
  <2>2. ExistsBijection(1..n, S)
    BY <2>1 DEF ExistsBijection
  <2>4. IsFiniteSet(1..n) /\ Cardinality(1..n) = n
    BY FS_Interval
  <2> QED
    BY <2>2, <2>4, FS_Bijection
<1>3. IsFiniteSet(Lugares)
  BY <1>0, LugaresFinitos
<1>4. ASSUME NEW l \in Propios PROVE l \in Movidos
  <2>1. Base(l) > 0 /\ l \in Lugares
    BY PropioEs, SupuestosMemoria
  <2>2. Ceros \subseteq Antes(l)
    BY <1>1, <2>1 DEF Antes
  <2>3. IsFiniteSet(Antes(l))
    BY <1>3, FS_Subset DEF Antes
  <2>4. Cardinality(Ceros) = Len(tabla)
    <3>1. Ceros = {<<p, 1>> : p \in 1..Len(tabla)} /\ Len(tabla) <= Len(tabla)
      BY <1>0
    <3> HIDE DEF Ceros
    <3> QED
      BY <1>0, <1>2, <3>1
  <2> HIDE DEF Ceros
  <2>5. Cardinality(Antes(l)) >= Len(tabla)
    BY <1>0, <2>2, <2>3, <2>4, FS_Subset, FS_CardinalityType
  <2> QED
    BY <2>1, <2>5 DEF Movidos
<1>5. ASSUME NEW l \in Lugares, l \notin Propios PROVE l \notin Movidos
  <2>1. l[2] = 1 /\ l[1] \in DOMAIN tabla /\ l = <<l[1], 1>> /\ l[1] \in Nat /\ l[1] >= 1
    BY <1>0, <1>5, LugarEs DEF Propios
  <2>2. Base(l) = 0
    BY <1>1, <2>1
  <2>3. Antes(l) \subseteq {<<p, 1>> : p \in 1..l[1] - 1}
    <3> SUFFICES ASSUME NEW k \in Antes(l) PROVE k \in {<<p, 1>> : p \in 1..l[1] - 1}
      OBVIOUS
    <3>1. k \in Lugares /\ (Base(k) < 0 \/ (Base(k) = 0 /\ k[1] < l[1]))
      BY <2>2 DEF Antes
    <3>2. k \notin Propios
      BY <3>1, PropioEs, SupuestosMemoria
    <3>3. k[2] = 1 /\ k[1] \in DOMAIN tabla /\ k = <<k[1], 1>> /\ k[1] \in Nat /\ k[1] >= 1
      BY <1>0, <3>1, <3>2, LugarEs DEF Propios
    <3>4. Base(k) = 0
      BY <1>1, <3>3
    <3> QED
      BY <2>1, <3>1, <3>3, <3>4
  <2>4. l[1] - 1 \in Nat /\ l[1] - 1 < Len(tabla)
    BY <1>0, <2>1
  <2>5. /\ IsFiniteSet({<<p, 1>> : p \in 1..l[1] - 1})
        /\ Cardinality({<<p, 1>> : p \in 1..l[1] - 1}) = l[1] - 1
    <3> DEFINE m == l[1] - 1
    <3>1. m \in Nat /\ m <= Len(tabla)
      BY <1>0, <2>4
    <3> HIDE DEF m
    <3>2. IsFiniteSet({<<p, 1>> : p \in 1..m}) /\ Cardinality({<<p, 1>> : p \in 1..m}) = m
      BY <1>2, <3>1
    <3> QED
      BY <3>2 DEF m
  <2>6. Cardinality(Antes(l)) <= l[1] - 1 /\ Cardinality(Antes(l)) \in Nat
    BY <2>3, <2>5, FS_Subset, FS_CardinalityType
  <2>7. ~(Cardinality(Antes(l)) >= Len(tabla))
    BY <1>0, <2>1, <2>4, <2>6
  <2> QED
    BY <2>7 DEF Movidos
<1> QED
  BY <1>4, <1>5 DEF Movidos, Propios

-----------------------------------------------------------------------------
(* Compaction: how many used bytes there are before one *)

Rango0(O, c) == Cardinality({x \in O : x < c})

LEMMA RangoTipo ==
    ASSUME NEW O \in SUBSET Nat, IsFiniteSet(O), NEW c \in Nat
    PROVE  /\ Rango0(O, c) \in Nat /\ IsFiniteSet({x \in O : x < c})
           /\ Rango0(O, c) <= Cardinality(O) /\ Cardinality(O) \in Nat
BY FS_Subset, FS_CardinalityType DEF Rango0

\* How many used bytes are below c, byte by byte.
LEMMA RangoPaso ==
    ASSUME NEW O \in SUBSET Nat, IsFiniteSet(O), NEW c \in Nat
    PROVE  Rango0(O, c + 1) = IF c \in O THEN Rango0(O, c) + 1 ELSE Rango0(O, c)
<1> DEFINE P == {x \in O : x < c}
           Q == {x \in O : x < c + 1}
<1>0. \A x \in O : x \in Nat
  OBVIOUS
<1>1. \A x \in O : (x < c + 1 <=> x < c \/ x = c) /\ ~(c < c)
  BY <1>0
<1>4. Q = IF c \in O THEN P \cup {c} ELSE P
  BY <1>1
<1>2. IsFiniteSet(P) /\ c \notin P
  BY RangoTipo
<1> HIDE DEF P, Q
<1>3. Cardinality(P \cup {c}) = Cardinality(P) + 1
  BY <1>2, FS_AddElement
<1> QED
  BY <1>3, <1>4 DEF P, Q, Rango0

LEMMA RangoCero ==
    ASSUME NEW O \in SUBSET Nat
    PROVE  Rango0(O, 0) = 0
<1>0. \A x \in O : x \in Nat
  OBVIOUS
<1>2. \A x \in O : ~(x < 0)
  BY <1>0
<1>1. {x \in O : x < 0} = {}
  BY <1>2
<1> QED
  BY <1>1, FS_EmptySet DEF Rango0

LEMMA RangoCrece ==
    ASSUME NEW O \in SUBSET Nat, IsFiniteSet(O), NEW a \in Nat, NEW b \in Nat, a <= b
    PROVE  Rango0(O, a) <= Rango0(O, b)
<1>0. \A x \in O : x \in Nat
  OBVIOUS
<1>2. \A x \in O : x < a => x < b
  BY <1>0
<1>1. {x \in O : x < a} \in SUBSET {x \in O : x < b}
  BY <1>2
<1> QED
  BY <1>1, RangoTipo, FS_Subset DEF Rango0

\* Used bytes that follow one another have ranks that do.
LEMMA RangoSeguido ==
    ASSUME NEW O \in SUBSET Nat, IsFiniteSet(O), NEW a \in Nat, NEW d \in Nat, a..a + d - 1 \subseteq O
    PROVE  Rango0(O, a + d) = Rango0(O, a) + d
<1> DEFINE P == {n \in Nat : n <= d => Rango0(O, a + n) = Rango0(O, a) + n}
<1>0. Rango0(O, a) \in Nat
  BY RangoTipo
<1>1. 0 \in P
  <2>1. a + 0 = a
    OBVIOUS
  <2> QED
    BY <1>0, <2>1
<1>2. ASSUME NEW n \in P PROVE n + 1 \in P
  <2>0. n \in Nat /\ n + 1 \in Nat
    OBVIOUS
  <2> SUFFICES ASSUME n + 1 <= d PROVE Rango0(O, a + (n + 1)) = Rango0(O, a) + (n + 1)
    BY <2>0
  <2>1. Rango0(O, a + n) = Rango0(O, a) + n
    BY <2>0
  <2>2. a + n \in O /\ a + n \in Nat /\ a + (n + 1) = (a + n) + 1
    BY <2>0
  <2>3. Rango0(O, (a + n) + 1) = Rango0(O, a + n) + 1
    BY <2>2, RangoPaso
  <2> QED
    BY <1>0, <2>0, <2>1, <2>2, <2>3
<1>3. P = Nat
  <2> HIDE DEF P
  <2>1. P \in SUBSET Nat
    BY DEF P
  <2> QED
    BY <1>1, <1>2, <2>1, InduccionNat
<1> QED
  BY <1>3

LEMMA Intervalo ==
    ASSUME NEW a \in Nat, NEW b \in Nat, a <= b
    PROVE  IsFiniteSet(a..b - 1) /\ Cardinality(a..b - 1) = b - a
<1> DEFINE y == b - 1
<1>1. y \in Int /\ a \in Int /\ (IF a > y THEN 0 ELSE y - a + 1) = b - a
  OBVIOUS
<1> HIDE DEF y
<1>2. IsFiniteSet(a..y) /\ Cardinality(a..y) = b - a
  BY <1>1, FS_Interval
<1> QED
  BY <1>2 DEF y

LEMMA RangoAcotado ==
    ASSUME NEW O \in SUBSET Nat, IsFiniteSet(O), NEW a \in Nat, NEW b \in Nat, a <= b,
           \A x \in O : a <= x
    PROVE  Rango0(O, b) <= b - a
<1>0. \A x \in O : x \in Nat
  OBVIOUS
<1>3. \A x \in O : x < b => x \in a..b - 1
  BY <1>0
<1>1. {x \in O : x < b} \in SUBSET (a..b - 1)
  BY <1>3
<1>2. IsFiniteSet(a..b - 1) /\ Cardinality(a..b - 1) = b - a
  BY Intervalo
<1> QED
  BY <1>1, <1>2, FS_Subset DEF Rango0

\* Every number up to how many there are is the rank of one.
LEMMA RangoTodos ==
    ASSUME NEW O \in SUBSET Nat, IsFiniteSet(O), NEW m \in Nat, \A x \in O : x < m,
           NEW v \in Nat, v < Cardinality(O)
    PROVE  \E x \in O : Rango0(O, x) = v
<1> DEFINE S == {x \in Nat : Rango0(O, x) > v}
           y == Min(S)
<1>1. m \in S
  <2>1. {x \in O : x < m} = O
    OBVIOUS
  <2> QED
    BY <2>1 DEF Rango0
<1>2. S \in SUBSET Nat
  OBVIOUS
<1>3. y \in S /\ \A z \in S : y <= z
  <2> HIDE DEF S
  <2> QED
    BY <1>1, <1>2, MenorExiste
<1> HIDE DEF y
<1>4. y \in Nat /\ Rango0(O, y) > v /\ y # 0
  BY <1>3, RangoCero
<1>5. y - 1 \in Nat /\ y - 1 \notin S /\ (y - 1) + 1 = y
  <2> HIDE DEF S
  <2> QED
    BY <1>3, <1>4
<1> DEFINE x == y - 1
<1>6. x \in Nat /\ x + 1 = y /\ Rango0(O, x) \in Nat /\ ~(Rango0(O, x) > v)
  BY <1>5, RangoTipo
<1> HIDE DEF x, S
<1>7. Rango0(O, x + 1) = IF x \in O THEN Rango0(O, x) + 1 ELSE Rango0(O, x)
  BY <1>6, RangoPaso
<1>8. x \in O /\ Rango0(O, x) = v
  BY <1>4, <1>6, <1>7
<1> QED
  BY <1>8

-----------------------------------------------------------------------------
(* Compaction: where it leaves the segments *)

Usados == UNION {Zona(l) : l \in Propios}

LEMMA UsadosFinitos ==
    IsFiniteSet(Usados) /\ Usados \in SUBSET Bytes /\ Bytes \in SUBSET Nat /\ IsFiniteSet(Bytes)
    /\ Cardinality(Bytes) = TamMemoria - TamSegmento0
<1>1. Bytes \in SUBSET Nat /\ IsFiniteSet(Bytes) /\ Cardinality(Bytes) = TamMemoria - TamSegmento0
  BY FS_Interval, SupuestosMemoria DEF Bytes
<1>2. Usados \in SUBSET Bytes
  BY DEF Usados, Zona
<1> QED
  BY <1>1, <1>2, FS_Subset

\* A byte is used when a segment has it.
LEMMA UsadosEs ==
    ASSUME TablaBien(tabla), NEW c \in Bytes
    PROVE  c \in Usados <=> ~NingunSegmento(tabla, c)
<1>1. ASSUME NEW l \in Propios, Contiene(Seg(l), c) PROVE ~NingunSegmento(tabla, c)
  <2>1. l[1] \in DOMAIN tabla /\ l[2] \in DOMAIN tabla[l[1]] /\ l[2] > 1 /\ l[2] \in Nat
    BY LugarEs DEF Propios
  <2>2. l[2] \in 2..Len(tabla[l[1]])
    BY <2>1 DEF TablaBien
  <2> QED
    BY <1>1, <2>1, <2>2 DEF NingunSegmento, Seg
<1>2. ASSUME NEW p \in DOMAIN tabla, NEW i \in 2..Len(tabla[p]), Contiene(tabla[p][i], c)
      PROVE  c \in Usados
  <2>1. i \in DOMAIN tabla[p] /\ i > 1
    BY DEF TablaBien
  <2>2. <<p, i>> \in Propios
    BY <2>1, LugarEs DEF Propios
  <2>3. c \in Zona(<<p, i>>)
    BY <1>2 DEF Zona, Seg
  <2> QED
    BY <2>2, <2>3 DEF Usados
<1> QED
  BY <1>1, <1>2 DEF Usados, Zona, NingunSegmento

LEMMA ZonaCardinal ==
    ASSUME TablasBien, NEW l \in Propios
    PROVE  IsFiniteSet(Zona(l)) /\ Cardinality(Zona(l)) = Tamanio(l)
BY PropioEs, FS_Interval

\* The sum of the sizes of the segments before one, where compactar_segmentos
\* puts it, is the number of used bytes before it.
LEMMA BaseCompactaEs ==
    ASSUME TablasBien, TamSegmento0 > 0, NEW l \in Propios
    PROVE  BaseCompacta(l) = TamSegmento0 + Rango0(Usados, Base(l))
<1> DEFINE f == [k \in Lugares |-> Tamanio(k)]
           B == [k \in Propios |-> Zona(k)]
           S == Antes(l) \cap Propios
<1>1. Movidos = Propios
  BY MovidosEs
<1>2. BaseCompacta(l) = TamSegmento0 + SumFunctionOnSet(f, S)
  BY <1>1 DEF BaseCompacta
<1>3. IsFiniteSet(Propios) /\ Propios \subseteq Lugares
  BY LugaresFinitos DEF TablasBien, Propios
<1>4. \A x \in Propios : IsFiniteSet(B[x]) /\ f[x] = Cardinality(B[x])
  BY <1>3, ZonaCardinal
<1>5. \A x, y \in Propios : x # y => B[x] \cap B[y] = {}
  BY ZonasAparte
<1>6. S \in SUBSET Propios
  OBVIOUS
<1>7. S = {k \in Propios : Base(k) < Base(l)}
  <2>1. ASSUME NEW k \in Propios, Base(k) = Base(l) PROVE ~(k[1] < l[1])
    <3>1. k = l
      BY <2>1, UnoAntesDeOtro
    <3>2. l[1] \in Nat
      BY <1>3, LugarEs DEF TablasBien
    <3> QED
      BY <3>1, <3>2
  <2> QED
    BY <1>3, <2>1 DEF Antes
<1>8. UNION {B[x] : x \in S} = {x \in Usados : x < Base(l)}
  <2>1. ASSUME NEW k \in S, NEW c \in Zona(k) PROVE c \in Usados /\ c < Base(l)
    <3>1. k \in Propios /\ Base(k) < Base(l)
      BY <1>7
    <3>2. Base(k) + Tamanio(k) <= Base(l)
      BY <3>1, UnoAntesDeOtro
    <3>3. /\ Zona(k) = Base(k)..Base(k) + Tamanio(k) - 1
          /\ Base(k) \in Nat /\ Tamanio(k) \in Nat /\ Base(l) \in Nat
      BY <3>1, PropioEs
    <3> QED
      BY <3>1, <3>2, <3>3 DEF Usados
  <2>2. ASSUME NEW k \in Propios, NEW c \in Zona(k), c < Base(l) PROVE k \in S
    <3>1. /\ Zona(k) = Base(k)..Base(k) + Tamanio(k) - 1
          /\ Base(k) \in Nat /\ Tamanio(k) \in Nat /\ Base(l) \in Nat
      BY PropioEs
    <3>2. Base(k) < Base(l)
      BY <2>2, <3>1
    <3> QED
      BY <1>7, <3>2
  <2>3. \A x \in S : B[x] = Zona(x)
    BY <1>6
  <2> HIDE DEF B, S
  <2>4. UNION {B[x] : x \in S} = UNION {Zona(x) : x \in S}
    BY <2>3
  <2> QED
    BY <1>6, <2>1, <2>2, <2>4 DEF Usados
<1> HIDE DEF f, B, S
<1>9. SumFunctionOnSet(f, S) = Cardinality(UNION {B[x] : x \in S})
  <2>1. Cajas(Propios, f, B)
    BY <1>3, <1>4, <1>5 DEF Cajas
  <2> QED
    BY <1>6, <2>1, SumaDeCajas DEF EnCajas
<1> QED
  BY <1>2, <1>8, <1>9 DEF Rango0

\* The free bytes are those that no segment has.
LEMMA SumaHuecosEs ==
    ASSUME TablasBien
    PROVE  SumaHuecos(huecos) = TamMemoria - TamSegmento0 - Cardinality(Usados)
<1> DEFINE D == DOMAIN huecos
           f == [i \in D |-> huecos[i].tamanio]
           B == [i \in D |-> {c \in Bytes : Contiene(huecos[i], c)}]
<1>1. SumaHuecos(huecos) = SumFunctionOnSet(f, D)
  BY DEF SumaHuecos, SumFunction
<1>2. huecos \in Seq(Huecos) /\ Len(huecos) \in Nat /\ D = 1..Len(huecos)
  BY DEF TablasBien
<1>3. IsFiniteSet(D)
  BY <1>2, FS_Interval
<1>4. ASSUME NEW i \in D PROVE IsFiniteSet(B[i]) /\ f[i] = Cardinality(B[i])
  <2> DEFINE h == huecos[i]
  <2>1. h \in Huecos
    BY <1>2
  <2>2. /\ h.base \in Rango /\ h.tamanio \in Rango
        /\ TamSegmento0 <= h.base /\ h.base + h.tamanio <= TamMemoria
    BY <2>1 DEF Huecos, FinDe
  <2>3. /\ h.base \in Nat /\ h.tamanio \in Nat /\ TamMemoria \in Nat /\ TamSegmento0 \in Nat
    BY <2>2, SupuestosMemoria DEF Rango
  <2>4. B[i] = {c \in Bytes : h.base <= c /\ c < h.base + h.tamanio} /\ f[i] = h.tamanio
    BY DEF Contiene
  <2> HIDE DEF h, B, f
  <2>5. {c \in Bytes : h.base <= c /\ c < h.base + h.tamanio} = h.base..(h.base + h.tamanio) - 1
    BY <2>2, <2>3 DEF Bytes
  <2>6. /\ IsFiniteSet(h.base..(h.base + h.tamanio) - 1)
        /\ Cardinality(h.base..(h.base + h.tamanio) - 1) = h.tamanio
    <3> DEFINE y == h.base + h.tamanio
    <3>1. y \in Nat /\ h.base <= y /\ y - h.base = h.tamanio
      BY <2>3
    <3> HIDE DEF y
    <3>2. IsFiniteSet(h.base..y - 1) /\ Cardinality(h.base..y - 1) = y - h.base
      BY <2>3, <3>1, Intervalo
    <3>3. IsFiniteSet(h.base..y - 1) /\ Cardinality(h.base..y - 1) = h.tamanio
      BY <3>1, <3>2
    <3> QED
      BY <3>3, Zenon DEF y
  <2> QED
    BY <2>4, <2>5, <2>6
<1>5. ASSUME NEW i \in D, NEW j \in D, i # j, NEW c \in B[i], c \in B[j] PROVE FALSE
  <2>1. c \in Bytes /\ Contiene(huecos[i], c) /\ Contiene(huecos[j], c)
    BY <1>5
  <2>2. DeUno(huecos, tabla, c)
    BY <2>1 DEF TablasBien, Reparto
  <2> QED
    BY <1>5, <2>1, <2>2 DEF DeUno, UnHueco, NingunHueco
<1>6. UNION {B[i] : i \in D} = Bytes \ Usados
  <2>1. ASSUME NEW c \in Bytes PROVE c \in Usados <=> NingunHueco(huecos, c)
    <3>1. DeUno(huecos, tabla, c)
      BY DEF TablasBien, Reparto
    <3>2. c \in Usados <=> ~NingunSegmento(tabla, c)
      BY UsadosEs DEF TablasBien
    <3>3. UnHueco(huecos, c) => ~NingunHueco(huecos, c)
      BY DEF UnHueco, NingunHueco
    <3>4. UnSegmento(tabla, c) => ~NingunSegmento(tabla, c)
      BY DEF UnSegmento, NingunSegmento
    <3> QED
      BY <3>1, <3>2, <3>3, <3>4 DEF DeUno
  <2>2. \A c : c \in UNION {B[i] : i \in D} <=> c \in Bytes /\ ~NingunHueco(huecos, c)
    BY DEF NingunHueco
  <2> QED
    BY <2>1, <2>2
<1> HIDE DEF B, f, D
<1>7. SumFunctionOnSet(f, D) = Cardinality(UNION {B[i] : i \in D})
  <2>1. \A x, y \in D : x # y => B[x] \cap B[y] = {}
    BY <1>5
  <2>2. D \in SUBSET D
    OBVIOUS
  <2>3. \A x \in D : IsFiniteSet(B[x]) /\ f[x] = Cardinality(B[x])
    BY <1>4
  <2>4. Cajas(D, f, B)
    BY <1>3, <2>1, <2>3 DEF Cajas
  <2> QED
    BY <2>2, <2>4, SumaDeCajas DEF EnCajas
<1>8. Cardinality(Bytes \ Usados) = Cardinality(Bytes) - Cardinality(Usados)
  <2>1. Bytes \cap Usados = Usados /\ IsFiniteSet(Bytes)
    BY UsadosFinitos
  <2>2. Cardinality(Bytes \ Usados) = Cardinality(Bytes) - Cardinality(Bytes \cap Usados)
    BY <2>1, FS_Difference
  <2> QED
    BY <2>1, <2>2
<1> QED
  BY <1>1, <1>6, <1>7, <1>8, UsadosFinitos

Nueva(l) == TamSegmento0 + Rango0(Usados, Base(l))

\* A segment moves down, and its bytes keep their order.
LEMMA NuevaEs ==
    ASSUME TablasBien, NEW l \in Propios
    PROVE  /\ Nueva(l) \in Nat /\ TamSegmento0 <= Nueva(l) /\ Nueva(l) <= Base(l)
           /\ Nueva(l) + Tamanio(l) = TamSegmento0 + Rango0(Usados, Base(l) + Tamanio(l))
           /\ Nueva(l) + Tamanio(l) <= TamSegmento0 + Cardinality(Usados)
           /\ \A c \in Zona(l) : TamSegmento0 + Rango0(Usados, c) = Nueva(l) + (c - Base(l))
<1> DEFINE O == Usados
           b == Base(l)
           t == Tamanio(l)
<1>1. /\ b \in Nat /\ t \in Nat /\ t >= 1 /\ TamSegmento0 <= b
      /\ Zona(l) = b..b + t - 1
  BY PropioEs
<1>2. /\ O \in SUBSET Nat /\ IsFiniteSet(O) /\ \A x \in O : TamSegmento0 <= x
  BY UsadosFinitos, SupuestosMemoria DEF Bytes
<1>3. Zona(l) \subseteq O
  BY DEF Usados
<1>4. TamSegmento0 \in Nat
  BY SupuestosMemoria
<1>5. Nueva(l) = TamSegmento0 + Rango0(O, b)
  BY DEF Nueva
<1> HIDE DEF O, b, t
<1>6. Rango0(O, b) \in Nat /\ Rango0(O, b) <= b - TamSegmento0
  BY <1>1, <1>2, <1>4, RangoTipo, RangoAcotado
<1>7. ASSUME NEW d \in Nat, d <= t PROVE Rango0(O, b + d) = Rango0(O, b) + d
  <2>1. b..b + d - 1 \subseteq O
    BY <1>1, <1>3, <1>7
  <2> QED
    BY <1>1, <1>2, <2>1, RangoSeguido
<1>8. Rango0(O, b + t) = Rango0(O, b) + t
  BY <1>1, <1>7
<1>9. Rango0(O, b + t) <= Cardinality(O) /\ Cardinality(O) \in Nat
  <2>1. b + t \in Nat
    BY <1>1
  <2> QED
    BY <1>2, <2>1, RangoTipo
<1>10. ASSUME NEW c \in Zona(l) PROVE TamSegmento0 + Rango0(O, c) = Nueva(l) + (c - b)
  <2> DEFINE d == c - b
  <2>1. d \in Nat /\ d <= t /\ b + d = c
    BY <1>1
  <2> HIDE DEF d
  <2>2. Rango0(O, b + d) = Rango0(O, b) + d
    BY <1>7, <2>1
  <2> QED
    BY <1>4, <1>5, <1>6, <2>1, <2>2 DEF d
<1>11. /\ Nueva(l) \in Nat /\ TamSegmento0 <= Nueva(l) /\ Nueva(l) <= b
       /\ Nueva(l) + t = TamSegmento0 + Rango0(O, b + t)
       /\ Nueva(l) + t <= TamSegmento0 + Cardinality(O)
  BY <1>1, <1>4, <1>5, <1>6, <1>8, <1>9
<1> QED
  BY <1>10, <1>11 DEF O, b, t

\* Segments keep their order and do not overlap.
LEMMA NuevasAparte ==
    ASSUME TablasBien, NEW k \in Propios, NEW l \in Propios, Base(k) < Base(l)
    PROVE  Nueva(k) + Tamanio(k) <= Nueva(l)
<1>1. /\ Base(k) \in Nat /\ Tamanio(k) \in Nat /\ Base(l) \in Nat
      /\ Base(k) + Tamanio(k) <= Base(l)
  BY PropioEs, UnoAntesDeOtro
<1>2. Nueva(k) + Tamanio(k) = TamSegmento0 + Rango0(Usados, Base(k) + Tamanio(k))
  BY NuevaEs
<1>3. Usados \in SUBSET Nat /\ IsFiniteSet(Usados)
  BY UsadosFinitos
<1> DEFINE x == Base(k) + Tamanio(k)
<1>4. x \in Nat /\ x <= Base(l)
  BY <1>1
<1> HIDE DEF x
<1>5. Rango0(Usados, x) <= Rango0(Usados, Base(l))
  BY <1>1, <1>3, <1>4, RangoCrece
<1>6. Rango0(Usados, x) \in Nat /\ Rango0(Usados, Base(l)) \in Nat /\ TamSegmento0 \in Nat
  BY <1>1, <1>3, <1>4, RangoTipo, SupuestosMemoria
<1>7. Nueva(k) + Tamanio(k) = TamSegmento0 + Rango0(Usados, x)
  BY <1>2 DEF x
<1> HIDE DEF Nueva
<1>8. Nueva(l) = TamSegmento0 + Rango0(Usados, Base(l))
  BY DEF Nueva
<1> QED
  BY <1>5, <1>6, <1>7, <1>8

\* A byte after segment 0 is of a moved segment if it is before the hole.
LEMMA NuevasCubren ==
    ASSUME TablasBien, NEW c \in Bytes, c < TamSegmento0 + Cardinality(Usados)
    PROVE  \E l \in Propios : Nueva(l) <= c /\ c < Nueva(l) + Tamanio(l)
<1> DEFINE v == c - TamSegmento0
           N == Cardinality(Usados)
<1>1. /\ Usados \in SUBSET Nat /\ IsFiniteSet(Usados) /\ N \in Nat
      /\ \A x \in Usados : x < TamMemoria
  <2>1. Usados \in SUBSET Nat /\ IsFiniteSet(Usados) /\ Usados \in SUBSET Bytes
    BY UsadosFinitos
  <2>2. N \in Nat
    BY <2>1, FS_CardinalityType
  <2>3. \A x \in Bytes : x < TamMemoria
    BY SupuestosMemoria DEF Bytes
  <2> HIDE DEF N
  <2> QED
    BY <2>1, <2>2, <2>3
<1>2. TamSegmento0 \in Nat /\ TamMemoria \in Nat /\ c \in Nat /\ TamSegmento0 <= c
  BY SupuestosMemoria DEF Bytes
<1>3. v \in Nat /\ v < N
  BY <1>1, <1>2
<1> HIDE DEF v, N
<1>4. PICK x \in Usados : Rango0(Usados, x) = v
  BY <1>1, <1>2, <1>3, RangoTodos DEF N
<1>5. PICK l \in Propios : x \in Zona(l)
  BY DEF Usados
<1>6. TamSegmento0 + v = Nueva(l) + (x - Base(l))
  BY <1>4, <1>5, NuevaEs
<1>7. /\ Zona(l) = Base(l)..Base(l) + Tamanio(l) - 1
      /\ Base(l) \in Nat /\ Tamanio(l) \in Nat /\ Nueva(l) \in Nat
  BY PropioEs, NuevaEs
<1>8. c = Nueva(l) + (x - Base(l))
  BY <1>2, <1>6 DEF v
<1> QED
  BY <1>2, <1>5, <1>7, <1>8

-----------------------------------------------------------------------------
(* Compaction: the order in which it copies *)

LEMMA BaseDeLugar ==
    ASSUME TablasBien, NEW l \in Lugares
    PROVE  /\ Base(l) \in Nat /\ l[1] \in Nat
           /\ l \notin Propios => Base(l) = 0 /\ l = <<l[1], 1>> /\ l[1] \in 1..Len(tabla)
<1>1. TablaBien(tabla) /\ Len(tabla) \in Nat /\ DOMAIN tabla = 1..Len(tabla)
  BY DEF TablasBien, TablaBien
<1>2. l[1] \in DOMAIN tabla /\ l[2] \in DOMAIN tabla[l[1]] /\ l = <<l[1], l[2]>> /\ l[2] \in Nat /\ l[2] >= 1
  BY <1>1, LugarEs
<1>3. CASE l \in Propios
  BY <1>1, <1>2, <1>3, PropioEs
<1>4. CASE l \notin Propios
  <2>1. l[2] = 1
    BY <1>2, <1>4 DEF Propios
  <2>2. tabla[l[1]][1] = Segmento0
    BY <1>1, <1>2 DEF TablaBien, ListaBien
  <2> QED
    BY <1>1, <1>2, <1>4, <2>1, <2>2 DEF Base, Segmento0, Segmento
<1> QED
  BY <1>3, <1>4

\* How many segments go before one.
Puesto(l) == Cardinality(Antes(l))

LEMMA PuestoTipo ==
    ASSUME TablasBien, NEW l \in Lugares
    PROVE  /\ IsFiniteSet(Antes(l)) /\ Puesto(l) \in Nat /\ Puesto(l) < Cardinality(Lugares)
           /\ Cardinality(Lugares) \in Nat
<1>1. IsFiniteSet(Lugares)
  BY LugaresFinitos DEF TablasBien
<1>2. l \notin Antes(l) /\ Antes(l) \subseteq Lugares \ {l}
  BY BaseDeLugar DEF Antes
<1>3. /\ IsFiniteSet(Lugares \ {l}) /\ Cardinality(Lugares \ {l}) = Cardinality(Lugares) - 1
      /\ Cardinality(Lugares) \in Nat
  BY <1>1, FS_RemoveElement, FS_CardinalityType
<1>4. /\ IsFiniteSet(Antes(l)) /\ Cardinality(Antes(l)) <= Cardinality(Lugares \ {l})
      /\ Cardinality(Antes(l)) \in Nat
  BY <1>2, <1>3, FS_Subset, FS_CardinalityType
<1> QED
  BY <1>3, <1>4 DEF Puesto

LEMMA PuestoCrece ==
    ASSUME TablasBien, NEW k \in Lugares, NEW l \in Lugares, Base(k) < Base(l)
    PROVE  Puesto(k) < Puesto(l)
<1>1. k \notin Antes(k)
  BY BaseDeLugar DEF Antes
<1>2. Antes(k) \cup {k} \subseteq Antes(l)
  <2> SUFFICES ASSUME NEW x \in Antes(k) PROVE x \in Antes(l)
    BY DEF Antes
  <2>1. x \in Lugares /\ (Base(x) < Base(k) \/ Base(x) = Base(k))
    BY DEF Antes
  <2>2. Base(x) \in Nat /\ Base(k) \in Nat /\ Base(l) \in Nat
    BY <2>1, BaseDeLugar
  <2> QED
    BY <2>1, <2>2 DEF Antes
<1>3. Cardinality(Antes(k) \cup {k}) = Puesto(k) + 1 /\ IsFiniteSet(Antes(l))
  BY <1>1, PuestoTipo, FS_AddElement DEF Puesto
<1>4. Cardinality(Antes(k) \cup {k}) <= Puesto(l)
  BY <1>2, <1>3, FS_Subset DEF Puesto
<1> QED
  BY <1>3, <1>4, PuestoTipo

LEMMA CerosEs ==
    ASSUME TablasBien
    PROVE  /\ IsFiniteSet(Lugares \ Propios) /\ Cardinality(Lugares \ Propios) = Len(tabla)
           /\ Cardinality(Propios) = Cardinality(Lugares) - Len(tabla) /\ IsFiniteSet(Propios)
           /\ Propios \subseteq Lugares /\ Len(tabla) \in Nat
<1> DEFINE n == Len(tabla)
           S == Lugares \ Propios
           f == [p \in 1..n |-> <<p, 1>>]
<1>1. n \in Nat /\ DOMAIN tabla = 1..n /\ TablaBien(tabla)
  BY DEF TablasBien, TablaBien
<1>2. \A p \in 1..n : <<p, 1>> \in S
  <2> SUFFICES ASSUME NEW p \in 1..n PROVE <<p, 1>> \in S
    OBVIOUS
  <2>1. p \in DOMAIN tabla
    BY <1>1
  <2>2. 1 \in DOMAIN tabla[p]
    <3> DEFINE R == Segms \cup {Segmento0}
    <3>1. tabla[p] \in Seq(R) /\ tabla[p] # <<>>
      BY <1>1, <2>1 DEF TablaBien, ListaBien
    <3> HIDE DEF R
    <3> QED
      BY <3>1
  <2> QED
    BY <1>1, <2>1, <2>2, LugarEs DEF Propios
<1>3. \A l \in S : l[1] \in 1..n /\ l = <<l[1], 1>>
  BY BaseDeLugar
<1>4. f \in [1..n -> S] /\ \A l \in S : \E p \in 1..n : f[p] = l
  <2> HIDE DEF S
  <2> QED
    BY <1>2, <1>3
<1>5. \A p, q \in 1..n : f[p] = f[q] => p = q
  OBVIOUS
<1>6. f \in Bijection(1..n, S)
  <2> HIDE DEF f, S
  <2> QED
    BY <1>4, <1>5 DEF Bijection, Injection, Surjection, IsInjective
<1>7. ExistsBijection(1..n, S)
  BY <1>6 DEF ExistsBijection
<1>8. IsFiniteSet(1..n) /\ Cardinality(1..n) = n
  <2> HIDE DEF n
  <2> QED
    BY <1>1, FS_Interval
<1>9. IsFiniteSet(S) /\ Cardinality(S) = n
  BY <1>7, <1>8, FS_Bijection
<1>10. IsFiniteSet(Lugares) /\ IsFiniteSet(Propios) /\ Propios \subseteq Lugares
  BY <1>1, LugaresFinitos DEF Propios
<1>11. Lugares \ S = Propios /\ Lugares \cap S = S
  BY <1>10
<1>12. Cardinality(Lugares \ S) = Cardinality(Lugares) - Cardinality(Lugares \cap S)
  BY <1>10, FS_Difference
<1> HIDE DEF S
<1> QED
  BY <1>1, <1>9, <1>10, <1>11, <1>12 DEF S

\* One segment and no other has each place after those of the segments 0.
LEMMA PuestoEs ==
    ASSUME TablasBien, TamSegmento0 > 0, NEW v \in Len(tabla)..Cardinality(Lugares) - 1
    PROVE  /\ \E l \in Lugares : Puesto(l) = v
           /\ \A l \in Lugares : Puesto(l) = v => l \in Propios
<1> DEFINE n == Len(tabla)
           c == Cardinality(Lugares)
           f == [l \in Propios |-> Puesto(l)]
           T == n..c - 1
<1>1. n \in Nat /\ c \in Nat /\ Cardinality(Propios) = c - n /\ Propios \subseteq Lugares
      /\ IsFiniteSet(Lugares) /\ IsFiniteSet(Propios)
  BY CerosEs, LugaresFinitos, FS_CardinalityType DEF TablasBien
<1>2. \A l \in Lugares : Puesto(l) \in Nat /\ Puesto(l) < c
  BY PuestoTipo
<1>3. \A l \in Lugares : l \in Propios <=> Puesto(l) >= n
  BY MovidosEs DEF Movidos, Puesto
<1>4. f \in [Propios -> T]
  <2> SUFFICES ASSUME NEW l \in Propios PROVE Puesto(l) \in T
    OBVIOUS
  <2> QED
    BY <1>1, <1>2, <1>3
<1>5. \A k, l \in Propios : f[k] = f[l] => k = l
  <2> SUFFICES ASSUME NEW k \in Propios, NEW l \in Propios, Puesto(k) = Puesto(l) PROVE k = l
    OBVIOUS
  <2>1. Base(k) \in Nat /\ Base(l) \in Nat /\ Puesto(k) \in Nat
    BY <1>1, <1>2, PropioEs
  <2>2. ~(Base(k) < Base(l)) /\ ~(Base(l) < Base(k))
    BY <1>1, <2>1, PuestoCrece
  <2> QED
    BY <2>1, <2>2, UnoAntesDeOtro
<1>6. f \in Injection(Propios, T)
  <2> HIDE DEF f, T
  <2> QED
    BY <1>4, <1>5 DEF Injection, IsInjective
<1>7. IsFiniteSet(T) /\ Cardinality(T) = Cardinality(Propios)
  <2> DEFINE b == c - 1
  <2>0. n <= b /\ b \in Int /\ n \in Int /\ c \in Int /\ b = c - 1
    BY <1>1
  <2> HIDE DEF n, b, c
  <2>1. IsFiniteSet(n..b) /\ Cardinality(n..b) = IF n > b THEN 0 ELSE b - n + 1
    BY <2>0, FS_Interval
  <2>2. Cardinality(n..b) = c - n
    BY <2>0, <2>1
  <2> QED
    BY <1>1, <2>1, <2>2 DEF b
<1>8. f \in Surjection(Propios, T)
  <2> HIDE DEF f, T
  <2> QED
    BY <1>6, <1>7, FS_Injection
<1>9. \E l \in Propios : f[l] = v
  <2> HIDE DEF f
  <2> QED
    BY <1>8 DEF Surjection
<1> QED
  BY <1>1, <1>3, <1>9

-----------------------------------------------------------------------------
(* Compaction: the table that it leaves *)

LEMMA TablaCompactaEs ==
    ASSUME TablasBien, TamSegmento0 > 0
    PROVE  /\ DOMAIN TablaCompacta = DOMAIN tabla /\ Len(TablaCompacta) = Len(tabla)
           /\ \A p \in DOMAIN tabla :
                 /\ DOMAIN TablaCompacta[p] = DOMAIN tabla[p]
                 /\ Len(TablaCompacta[p]) = Len(tabla[p])
                 /\ TablaCompacta[p] \in Seq(Segms \cup {Segmento0})
                 /\ TablaCompacta[p][1] = Segmento0
                 /\ \A i \in DOMAIN tabla[p] : TablaCompacta[p][i].id = tabla[p][i].id
                 /\ \A i \in 2..Len(tabla[p]) :
                       /\ <<p, i>> \in Propios
                       /\ TablaCompacta[p][i] \in Segms
                       /\ TablaCompacta[p][i].base = Nueva(<<p, i>>)
                       /\ TablaCompacta[p][i].tamanio = Tamanio(<<p, i>>)
<1> DEFINE T1 == TablaCompacta
<1>0. /\ tabla \in Seq(Seq(Segms \cup {Segmento0})) /\ DOMAIN tabla = 1..Len(tabla) /\ Len(tabla) \in Nat
      /\ TablaBien(tabla)
  BY DEF TablasBien, TablaBien
<1>1. /\ T1 = [p \in DOMAIN tabla |-> T1[p]]
      /\ \A p \in DOMAIN tabla : T1[p] = [i \in DOMAIN tabla[p] |->
                                            [tabla[p][i] EXCEPT !.base = BaseCompacta(<<p, i>>)]]
  BY DEF TablaCompacta
<1> HIDE DEF T1
<1>2. DOMAIN T1 = DOMAIN tabla /\ Len(T1) = Len(tabla)
  <2>1. DOMAIN T1 = 1..Len(tabla)
    BY <1>0, <1>1
  <2>2. T1 \in Seq({T1[p] : p \in DOMAIN tabla})
    BY <1>0, <1>1
  <2> QED
    BY <1>0, <2>1, <2>2
<1>3. ASSUME NEW p \in DOMAIN tabla
      PROVE  /\ DOMAIN T1[p] = DOMAIN tabla[p]
             /\ Len(T1[p]) = Len(tabla[p])
             /\ T1[p] \in Seq(Segms \cup {Segmento0})
             /\ T1[p][1] = Segmento0
             /\ \A i \in DOMAIN tabla[p] : T1[p][i].id = tabla[p][i].id
             /\ \A i \in 2..Len(tabla[p]) :
                    /\ <<p, i>> \in Propios
                    /\ T1[p][i] \in Segms
                    /\ T1[p][i].base = Nueva(<<p, i>>)
                    /\ T1[p][i].tamanio = Tamanio(<<p, i>>)
  <2> DEFINE l == tabla[p]
             m == Len(l)
             S == Segms \cup {Segmento0}
  <2>1. /\ ListaBien(l) /\ l \in Seq(S) /\ m \in Nat /\ m >= 1 /\ DOMAIN l = 1..m
        /\ l[1] = Segmento0 /\ \A i \in 2..m : l[i] \in Segms
    BY <1>0 DEF TablaBien, ListaBien
  <2>2. /\ T1[p] = [i \in 1..m |-> T1[p][i]]
        /\ \A i \in 1..m : T1[p][i] = [l[i] EXCEPT !.base = BaseCompacta(<<p, i>>)]
    BY <1>1, <2>1
  <2>3. T1[p][1] = Segmento0
    <3>1. <<p, 1>> \notin Propios /\ <<p, 1>> \in Lugares
      BY <1>0, <2>1, LugarEs DEF Propios
    <3>2. BaseCompacta(<<p, 1>>) = Base(<<p, 1>>)
      BY <3>1, MovidosEs DEF BaseCompacta
    <3>3. Base(<<p, 1>>) = 0
      BY <2>1 DEF Base, Segmento0, Segmento
    <3>4. T1[p][1] = [Segmento0 EXCEPT !.base = 0]
      BY <2>1, <2>2, <3>2, <3>3
    <3> QED
      BY <3>4 DEF Segmento0, Segmento
  <2>4. ASSUME NEW i \in 2..m
        PROVE  /\ <<p, i>> \in Propios /\ T1[p][i] \in Segms /\ T1[p][i].id = l[i].id
               /\ T1[p][i].base = Nueva(<<p, i>>) /\ T1[p][i].tamanio = Tamanio(<<p, i>>)
    <3>1. i \in 1..m /\ l[i] \in Segms /\ i \in DOMAIN l
      BY <2>1
    <3>2. <<p, i>> \in Propios
      BY <1>0, <3>1, LugarEs DEF Propios
    <3> DEFINE b == Nueva(<<p, i>>)
    <3>3. T1[p][i] = [l[i] EXCEPT !.base = b]
      BY <2>2, <3>1, <3>2, BaseCompactaEs DEF Nueva
    <3>4. /\ b \in Nat /\ TamSegmento0 <= b /\ b <= Base(<<p, i>>)
          /\ Base(<<p, i>>) \in Nat /\ Tamanio(<<p, i>>) \in Nat
          /\ Base(<<p, i>>) + Tamanio(<<p, i>>) <= TamMemoria
          /\ Tamanio(<<p, i>>) = l[i].tamanio
      BY <3>2, NuevaEs, PropioEs DEF Tamanio
    <3> HIDE DEF b
    <3>5. b \in Rango /\ b + l[i].tamanio <= TamMemoria
      BY <3>4, SupuestosMemoria DEF Rango
    <3>6. [l[i] EXCEPT !.base = b] \in Segms
      <4>1. l[i] \in [id : Ids, base : Rango, tamanio : Tamanios]
        BY <3>1 DEF Segms
      <4>2. /\ [l[i] EXCEPT !.base = b] \in [id : Ids, base : Rango, tamanio : Tamanios]
            /\ [l[i] EXCEPT !.base = b].base = b /\ [l[i] EXCEPT !.base = b].tamanio = l[i].tamanio
        BY <3>5, <4>1
      <4> QED
        BY <3>4, <3>5, <4>2 DEF Segms
    <3>7. T1[p][i].id = l[i].id /\ T1[p][i].base = b /\ T1[p][i].tamanio = l[i].tamanio
      <4>1. l[i] \in [id : Ids, base : Rango, tamanio : Tamanios]
        BY <3>1 DEF Segms
      <4> QED
        BY <3>3, <4>1
    <3> QED
      BY <3>2, <3>3, <3>4, <3>6, <3>7 DEF b
  <2>5. ASSUME NEW i \in 1..m PROVE T1[p][i] \in S /\ T1[p][i].id = l[i].id
    <3>1. CASE i = 1
      BY <2>1, <2>3, <3>1
    <3>2. CASE i # 1
      <4>1. i \in 2..m
        BY <2>1, <3>2
      <4> QED
        BY <2>4, <4>1
    <3> QED
      BY <3>1, <3>2
  <2> HIDE DEF S, m
  <2>6. T1[p] \in [1..m -> S]
    BY <2>2, <2>5
  <2>7. T1[p] \in Seq(S) /\ Len(T1[p]) = m /\ DOMAIN T1[p] = 1..m
    BY <2>1, <2>6
  <2> QED
    BY <2>1, <2>3, <2>4, <2>5, <2>7 DEF S, m
<1> QED
  BY <1>2, <1>3 DEF T1

\* Compaction keeps the partition.
LEMMA CompactarBien ==
    ASSUME TablasBien, TamSegmento0 > 0
    PROVE  /\ HuecosCompactos \in Seq(Huecos) /\ TablaBien(TablaCompacta)
           /\ Reparto(HuecosCompactos, TablaCompacta)
<1> DEFINE T1 == TablaCompacta
           N == Cardinality(Usados)
           b == TamSegmento0 + N
           t == TamMemoria - b
           h == Hueco(b, t)
           H == HuecosCompactos
<1>0. /\ tabla \in Seq(Seq(Segms \cup {Segmento0})) /\ DOMAIN tabla = 1..Len(tabla) /\ Len(tabla) \in Nat
      /\ TablaBien(tabla) /\ \A p \in DOMAIN tabla : Len(tabla[p]) \in Nat
  BY DEF TablasBien, TablaBien
<1>1. /\ DOMAIN T1 = DOMAIN tabla /\ Len(T1) = Len(tabla)
      /\ \A p \in DOMAIN tabla : /\ DOMAIN T1[p] = DOMAIN tabla[p] /\ Len(T1[p]) = Len(tabla[p])
                                 /\ T1[p] \in Seq(Segms \cup {Segmento0}) /\ T1[p][1] = Segmento0
                                 /\ \A i \in DOMAIN tabla[p] : T1[p][i].id = tabla[p][i].id
      /\ \A p \in DOMAIN tabla : \A i \in 2..Len(tabla[p]) :
            /\ <<p, i>> \in Propios /\ T1[p][i] \in Segms
            /\ T1[p][i].base = Nueva(<<p, i>>) /\ T1[p][i].tamanio = Tamanio(<<p, i>>)
  BY TablaCompactaEs
<1>1a. T1 = [p \in DOMAIN tabla |-> T1[p]]
  BY DEF TablaCompacta
<1> HIDE DEF T1
<1>2. TablaBien(T1)
  <2>1. T1 \in Seq(Seq(Segms \cup {Segmento0}))
    <3> DEFINE S == Seq(Segms \cup {Segmento0})
    <3>1. \A p \in DOMAIN tabla : T1[p] \in S
      BY <1>1
    <3> HIDE DEF S
    <3>2. T1 \in [1..Len(tabla) -> S]
      BY <1>0, <1>1a, <3>1
    <3>3. T1 \in Seq(S)
      <4> DEFINE n == Len(tabla)
      <4>1. n \in Nat /\ T1 \in [1..n -> S]
        BY <1>0, <3>2
      <4> HIDE DEF n
      <4> QED
        BY <4>1
    <3> QED
      BY <3>3 DEF S
  <2>2. Len(T1) <= MaxProcesos
    BY <1>0, <1>1 DEF TablaBien
  <2>3. ASSUME NEW p \in DOMAIN T1 PROVE ListaBien(T1[p])
    <3>1. p \in DOMAIN tabla /\ ListaBien(tabla[p])
      BY <1>0, <1>1, <2>3 DEF TablaBien
    <3>2. tabla[p] # <<>> /\ 1 \in DOMAIN tabla[p]
      BY <3>1 DEF ListaBien
    <3>3. T1[p] # <<>>
      BY <1>1, <3>1, <3>2
    <3>4. \A i \in 2..Len(T1[p]) : T1[p][i] \in Segms
      BY <1>1, <3>1
    <3>5. \A i, j \in DOMAIN T1[p] : T1[p][i].id = T1[p][j].id => i = j
      BY <1>1, <3>1 DEF ListaBien
    <3> QED
      BY <1>1, <3>1, <3>3, <3>4, <3>5 DEF ListaBien
  <2> QED
    BY <2>1, <2>2, <2>3 DEF TablaBien
<1>3. /\ N \in Nat /\ TamSegmento0 \in Nat /\ TamMemoria \in Nat
      /\ N <= TamMemoria - TamSegmento0
  <2>1. IsFiniteSet(Bytes) /\ Usados \in SUBSET Bytes /\ Cardinality(Bytes) = TamMemoria - TamSegmento0
    BY UsadosFinitos
  <2>2. Cardinality(Usados) <= Cardinality(Bytes) /\ IsFiniteSet(Usados)
    BY <2>1, FS_Subset
  <2>3. Cardinality(Usados) \in Nat
    BY <2>2, FS_CardinalityType
  <2> QED
    BY <2>1, <2>2, <2>3, SupuestosMemoria
<1>4. H = <<h>>
  <2>1. SumaHuecos(huecos) = TamMemoria - TamSegmento0 - N
    BY SumaHuecosEs
  <2>2. TamMemoria - SumaHuecos(huecos) = b /\ SumaHuecos(huecos) = t
    BY <1>3, <2>1
  <2> QED
    BY <2>2 DEF HuecosCompactos
<1>5. b \in Nat /\ t \in Nat /\ b + t = TamMemoria /\ TamSegmento0 <= b
  BY <1>3
<1>6. h.base = b /\ h.tamanio = t
  BY DEF Hueco
<1>7. h \in Huecos
  <2>1. b \in Rango /\ t \in Rango
    BY <1>3, <1>5 DEF Rango
  <2>2. h \in [base : Rango, tamanio : Rango]
    BY <2>1 DEF Hueco
  <2> QED
    BY <1>3, <1>5, <1>6, <2>2 DEF Huecos, FinDe
<1>8. H \in Seq(Huecos) /\ DOMAIN H = {1} /\ H[1] = h
  BY <1>4, <1>7
<1> HIDE DEF H, h
<1>9. ASSUME NEW p \in DOMAIN tabla, NEW i \in 2..Len(tabla[p]), NEW c
      PROVE  Contiene(T1[p][i], c) <=> Nueva(<<p, i>>) <= c /\ c < Nueva(<<p, i>>) + Tamanio(<<p, i>>)
  BY <1>1 DEF Contiene
<1>10. ASSUME NEW c \in Bytes PROVE DeUno(H, T1, c)
  <2>0. c \in Nat /\ TamSegmento0 <= c /\ c < TamMemoria
    BY <1>3 DEF Bytes
  <2>1. CASE c < b
    <3>1. NingunHueco(H, c)
      BY <1>5, <1>6, <1>8, <2>0, <2>1 DEF NingunHueco, Contiene
    <3>2. PICK l \in Propios : Nueva(l) <= c /\ c < Nueva(l) + Tamanio(l)
      BY <2>1, NuevasCubren
    <3>3. /\ l[1] \in DOMAIN tabla /\ l[2] \in 2..Len(tabla[l[1]]) /\ l = <<l[1], l[2]>>
      BY <1>0, PropioEs, LugarEs DEF TablasBien
    <3>4. Contiene(T1[l[1]][l[2]], c)
      BY <1>9, <3>2, <3>3
    <3>5. ASSUME NEW q \in DOMAIN tabla, NEW j \in 2..Len(tabla[q]), Contiene(T1[q][j], c)
          PROVE  q = l[1] /\ j = l[2]
      <4> DEFINE k == <<q, j>>
      <4>1. k \in Propios /\ Nueva(k) <= c /\ c < Nueva(k) + Tamanio(k)
        BY <1>1, <1>9, <3>5
      <4>2. Base(k) < Base(l) => Nueva(k) + Tamanio(k) <= Nueva(l)
        BY <4>1, NuevasAparte
      <4>3. Base(l) < Base(k) => Nueva(l) + Tamanio(l) <= Nueva(k)
        BY <4>1, NuevasAparte
      <4>4. /\ Nueva(k) \in Nat /\ Nueva(l) \in Nat /\ Base(k) \in Nat /\ Base(l) \in Nat
            /\ Tamanio(k) \in Nat /\ Tamanio(l) \in Nat
        BY <4>1, NuevaEs, PropioEs
      <4>5. Base(k) = Base(l)
        BY <2>0, <3>2, <4>1, <4>2, <4>3, <4>4
      <4>6. k = l
        BY <4>1, <4>5, UnoAntesDeOtro
      <4> QED
        BY <3>3, <4>6
    <3>6. UnSegmento(T1, c)
      <4>1. \A q \in DOMAIN T1 : q \in DOMAIN tabla /\ Len(T1[q]) = Len(tabla[q])
        BY <1>1
      <4>2. l[1] \in DOMAIN T1 /\ l[2] \in 2..Len(T1[l[1]])
        BY <1>1, <3>3
      <4>3. \A q \in DOMAIN T1 : \A j \in 2..Len(T1[q]) :
                Contiene(T1[q][j], c) => q = l[1] /\ j = l[2]
        BY <3>5, <4>1
      <4> QED
        BY <3>4, <4>2, <4>3 DEF UnSegmento
    <3> QED
      BY <3>1, <3>6 DEF DeUno
  <2>2. CASE ~(c < b)
    <3>1. UnHueco(H, c)
      <4>1. Contiene(h, c)
        BY <1>3, <1>5, <1>6, <2>0, <2>2 DEF Contiene
      <4> QED
        BY <1>8, <4>1 DEF UnHueco
    <3>2. NingunSegmento(T1, c)
      <4> SUFFICES ASSUME NEW p \in DOMAIN tabla, NEW i \in 2..Len(tabla[p]), Contiene(T1[p][i], c)
                   PROVE  FALSE
        BY <1>1 DEF NingunSegmento
      <4> DEFINE l == <<p, i>>
      <4>1. l \in Propios /\ c < Nueva(l) + Tamanio(l)
        BY <1>1, <1>9
      <4>2. Nueva(l) + Tamanio(l) <= b /\ Nueva(l) \in Nat /\ Tamanio(l) \in Nat
        BY <4>1, NuevaEs, PropioEs
      <4> QED
        BY <1>5, <2>0, <2>2, <4>1, <4>2
    <3> QED
      BY <3>1, <3>2 DEF DeUno
  <2> QED
    BY <2>1, <2>2
<1>11. Reparto(H, T1)
  BY <1>10 DEF Reparto
<1> QED
  BY <1>2, <1>8, <1>11 DEF H, T1

-----------------------------------------------------------------------------
(* The invariant holds *)

\* The part of the invariant that is about the requests.
PedidosBien ==
    PedidoBien /\ vivos \subseteq DOMAIN tabla /\ corrupta \in BOOLEAN /\ algoritmo \in Algoritmos

LEMMA InvarianteEs == Invariante <=> TablasBien /\ PedidosBien
BY DEF Invariante, TablasBien, PedidosBien

LEMMA TablaMasUna ==
    ASSUME NEW T, TablaBien(T), Len(T) < MaxProcesos, NEW hs, Reparto(hs, T)
    PROVE  /\ TablaBien(Append(T, <<Segmento0>>)) /\ Reparto(hs, Append(T, <<Segmento0>>))
           /\ DOMAIN Append(T, <<Segmento0>>) = DOMAIN T \cup {Len(T) + 1}
           /\ Append(T, <<Segmento0>>)[Len(T) + 1] = <<Segmento0>>
           /\ \A p \in DOMAIN T : Append(T, <<Segmento0>>)[p] = T[p]
<1> DEFINE S == Seq(Segms \cup {Segmento0})
           e == <<Segmento0>>
           T1 == Append(T, e)
           n == Len(T) + 1
<1>1. ListaBien(e) /\ e \in S /\ Len(e) = 1
  BY DEF ListaBien
<1>2. T \in Seq(S) /\ Len(T) \in Nat /\ \A p \in DOMAIN T : ListaBien(T[p])
  BY DEF TablaBien
<1> HIDE DEF S, e
<1>3. /\ T1 \in Seq(S) /\ Len(T1) = n /\ DOMAIN T1 = DOMAIN T \cup {n} /\ T1[n] = e
      /\ n \notin DOMAIN T /\ \A p \in DOMAIN T : T1[p] = T[p]
  BY <1>1, <1>2
<1> HIDE DEF T1
<1>4. TablaBien(T1)
  <2>1. Len(T1) <= MaxProcesos
    BY <1>2, <1>3, SupuestosMemoria
  <2> QED
    BY <1>1, <1>2, <1>3, <2>1 DEF TablaBien, S
<1>5. 2..Len(T1[n]) = {}
  <2>1. Len(T1[n]) = 1
    BY <1>1, <1>3
  <2> QED
    BY <2>1
<1> HIDE DEF n
<1>6. \A c : NingunSegmento(T, c) => NingunSegmento(T1, c)
  BY <1>3, <1>5 DEF NingunSegmento
<1>7. \A c : UnSegmento(T, c) => UnSegmento(T1, c)
  BY <1>3, <1>5 DEF UnSegmento
<1>8. Reparto(hs, T1)
  BY <1>6, <1>7 DEF Reparto, DeUno
<1> QED
  BY <1>3, <1>4, <1>8 DEF T1, e, n

LEMMA Iniciales ==
    Init => Invariante
<1> SUFFICES ASSUME Init PROVE Invariante
  OBVIOUS
<1> DEFINE h == Hueco(TamSegmento0, TamMemoria - TamSegmento0)
<1>1. huecos = <<h>> /\ tabla = <<>> /\ pedido = Nada /\ vivos = {} /\ corrupta = FALSE
      /\ algoritmo \in Algoritmos
  BY DEF Init
<1>2. TamSegmento0 \in Nat /\ TamMemoria \in Nat /\ TamSegmento0 < TamMemoria
  BY SupuestosMemoria
<1>3. h.base = TamSegmento0 /\ h.tamanio = TamMemoria - TamSegmento0
  BY DEF Hueco
<1>4. h \in Huecos
  <2>1. h.base \in Rango /\ h.tamanio \in Rango
    BY <1>2, <1>3 DEF Rango
  <2>2. h \in [base : Rango, tamanio : Rango]
    BY <1>3, <2>1 DEF Hueco
  <2> QED
    BY <1>2, <1>3, <2>2 DEF Huecos, FinDe
<1>5. huecos \in Seq(Huecos) /\ DOMAIN huecos = {1} /\ huecos[1] = h
  BY <1>1, <1>4
<1>6. TablaBien(tabla)
  BY <1>1, SupuestosMemoria DEF TablaBien
<1> HIDE DEF h
<1>7. ASSUME NEW c \in Bytes PROVE DeUno(huecos, tabla, c)
  <2>1. Contiene(h, c)
    BY <1>2, <1>3 DEF Bytes, Contiene
  <2>2. UnHueco(huecos, c)
    BY <1>5, <2>1 DEF UnHueco
  <2>3. NingunSegmento(tabla, c)
    BY <1>1 DEF NingunSegmento
  <2> QED
    BY <2>2, <2>3 DEF DeUno
<1>8. Reparto(huecos, tabla)
  BY <1>7 DEF Reparto
<1>9. PedidoBien
  BY <1>1 DEF PedidoBien
<1> QED
  BY <1>1, <1>5, <1>6, <1>8, <1>9 DEF Invariante

\* crear_segmento puts the segment at the end of the list of its process.
LEMMA UbicarTablas ==
    ASSUME Invariante, NEW p \in DOMAIN tabla, NEW id \in Ids, id \notin Ocupados(p),
           NEW t \in Tamanios, Ubicar(p, id, t)
    PROVE  /\ TablasBien' /\ DOMAIN tabla' = DOMAIN tabla
           /\ \E s \in Segms : /\ s.id = id /\ s.tamanio = t
                               /\ tabla' = Con(tabla, p, Append(tabla[p], s))
                               /\ ListaBien(Append(tabla[p], s))
<1> DEFINE i == ElegirHueco(t)
           h == huecos[i]
           s == Segmento(id, h.base, t)
           g == Hueco(h.base + t, h.tamanio - t)
           hs == [huecos EXCEPT ![i] = g]
           l == Append(tabla[p], s)
<1>1. TablasBien /\ algoritmo \in Algoritmos
  BY InvarianteEs DEF Invariante
<1>2. huecos \in Seq(Huecos) /\ TablaBien(tabla) /\ Reparto(huecos, tabla)
  BY <1>1 DEF TablasBien
<1>3. i \in DOMAIN huecos /\ huecos[i].tamanio >= t
  <2>1. Cabe(t) # {}
    BY DEF Ubicar
  <2> QED
    BY <1>1, <1>2, <2>1, ElegirHuecoEs DEF Cabe
<1>4. \A j \in DOMAIN tabla[p] : tabla[p][j].id # id
  BY DEF Ocupados
<1>5. tabla' = [tabla EXCEPT ![p] = Append(@, s)] /\ huecos' \in Ordenaciones(hs)
  BY DEF Ubicar
<1>6. tabla' = Con(tabla, p, l)
  BY <1>5 DEF Con
<1> HIDE DEF i
<1>7. s \in Segms /\ hs \in Seq(Huecos) /\ ListaBien(l) /\ Reparto(hs, Con(tabla, p, l))
  BY <1>2, <1>3, <1>4, UbicarReparto
<1>7a. s.id = id /\ s.tamanio = t
  BY DEF Segmento
<1> HIDE DEF hs, l, s
<1>8. huecos' \in Seq(Huecos) /\ Reparto(huecos', Con(tabla, p, l))
  BY <1>5, <1>7, OrdenarConserva, ConservaReparto
<1>9. TablaBien(Con(tabla, p, l)) /\ DOMAIN Con(tabla, p, l) = DOMAIN tabla
  BY <1>2, <1>7, ConEs
<1> QED
  BY <1>6, <1>7, <1>7a, <1>8, <1>9 DEF TablasBien, l

\* What a request is, by its operation.
LEMMA PedidoEs ==
    ASSUME PedidoBien
    PROVE  /\ pedido # Nada => pedido.pid \in DOMAIN tabla
           /\ Atiende("CREAR_SEGMENTO") \/ Atiende("REALIZAR_COMPACTACION") =>
                 /\ pedido.id \in Ids /\ pedido.tamanio \in Tamanios
                 /\ pedido.id \notin Ocupados(pedido.pid)
                 /\ \A op : [pedido EXCEPT !.op = op] =
                        [op |-> op, pid |-> pedido.pid, id |-> pedido.id, tamanio |-> pedido.tamanio]
           /\ Atiende("ELIMINAR_SEGMENTO") => pedido.id \in Ids
<1>1. pedido # Nada => pedido.pid \in DOMAIN tabla
  BY DEF PedidoBien
<1>2. ASSUME Atiende("CREAR_SEGMENTO") \/ Atiende("REALIZAR_COMPACTACION")
      PROVE  /\ pedido.id \in Ids /\ pedido.tamanio \in Tamanios
             /\ pedido.id \notin Ocupados(pedido.pid)
             /\ \A op : [pedido EXCEPT !.op = op] =
                    [op |-> op, pid |-> pedido.pid, id |-> pedido.id, tamanio |-> pedido.tamanio]
  <2>1. pedido \in Pedidos /\ pedido.op \in {"CREAR_SEGMENTO", "REALIZAR_COMPACTACION"}
    BY <1>2 DEF PedidoBien, Atiende
  <2>2. pedido \in [op : {"CREAR_SEGMENTO", "REALIZAR_COMPACTACION"},
                    pid : 1..MaxProcesos, id : Ids, tamanio : Tamanios]
    BY <2>1 DEF Pedidos
  <2>3. pedido.id \notin Ocupados(pedido.pid)
    BY <1>2, <2>1 DEF PedidoBien, Atiende
  <2> QED
    BY <2>2, <2>3
<1>3. ASSUME Atiende("ELIMINAR_SEGMENTO") PROVE pedido.id \in Ids
  <2>1. pedido \in Pedidos /\ pedido.op = "ELIMINAR_SEGMENTO"
    BY <1>3 DEF PedidoBien, Atiende
  <2> QED
    BY <2>1 DEF Pedidos
<1> QED
  BY <1>1, <1>2, <1>3

\* eliminar_segmento takes the segment of that id, if there is one.
LEMMA EliminarTablas ==
    ASSUME Invariante, EliminarSegmento
    PROVE  /\ TablasBien' /\ DOMAIN tabla' = DOMAIN tabla
           /\ \E k : /\ ListaBien(k) /\ tabla' = Con(tabla, pedido.pid, k)
                     /\ QuitaDe(tabla[pedido.pid], pedido.id, k)
<1> DEFINE p == pedido.pid
           id == pedido.id
<1>1. TablasBien /\ PedidoBien /\ Atiende("ELIMINAR_SEGMENTO")
  BY InvarianteEs DEF PedidosBien, EliminarSegmento
<1>2. huecos \in Seq(Huecos) /\ TablaBien(tabla) /\ Reparto(huecos, tabla)
  BY <1>1 DEF TablasBien
<1>3. p \in DOMAIN tabla /\ id \in Ids /\ id # 0
  BY <1>1, PedidoEs, SupuestosMemoria DEF Atiende
<1>4. PICK e \in EliminarDe(Estado(p), id) :
            huecos' = e.huecos /\ tabla' = [tabla EXCEPT ![p] = e.segmentos]
  BY DEF EliminarSegmento
<1>5. Estado(p).huecos = huecos /\ Estado(p).segmentos = tabla[p]
  BY DEF Estado
<1>6. EstadoBien(e, tabla, p) /\ QuitaDe(tabla[p], id, e.segmentos)
  BY <1>2, <1>3, <1>5, EliminarDeBien
<1>7. tabla' = Con(tabla, p, e.segmentos)
  BY <1>4 DEF Con
<1>8. ListaBien(e.segmentos) /\ huecos' \in Seq(Huecos) /\ Reparto(huecos', tabla')
  BY <1>4, <1>6, <1>7 DEF EstadoBien
<1>9. TablaBien(tabla') /\ DOMAIN tabla' = DOMAIN tabla
  BY <1>2, <1>3, <1>7, <1>8, ConEs
<1> QED
  BY <1>6, <1>7, <1>8, <1>9 DEF TablasBien

\* eliminar_proceso leaves segment 0 alone.
LEMMA EliminarProcesoTablas ==
    ASSUME Invariante, EliminarProceso
    PROVE  /\ TablasBien' /\ DOMAIN tabla' = DOMAIN tabla
           /\ \E k : /\ ListaBien(k) /\ tabla' = Con(tabla, pedido.pid, k)
                     /\ Recortada(k, tabla[pedido.pid], 1)
<1> DEFINE p == pedido.pid
           n == Len(tabla[p])
           g == CHOOSE x : Tras(x, Estado(p), n)
<1>1. TablasBien /\ PedidoBien /\ Atiende("FINALIZAR")
  BY InvarianteEs DEF PedidosBien, EliminarProceso
<1>2. huecos \in Seq(Huecos) /\ TablaBien(tabla) /\ Reparto(huecos, tabla)
  BY <1>1 DEF TablasBien
<1>3. p \in DOMAIN tabla
  BY <1>1, PedidoEs DEF Atiende
<1>4. n \in Nat
  BY <1>2, <1>3 DEF TablaBien, ListaBien
<1>5. PICK e \in g[n - 1] : huecos' = e.huecos /\ tabla' = [tabla EXCEPT ![p] = e.segmentos]
  BY Zenon DEF EliminarProceso, Tras
<1>6. Tras(g, Estado(p), n)
  BY <1>4, TrasExiste
<1> HIDE DEF g
<1>7. EstadoBien(e, tabla, p) /\ Recortada(e.segmentos, tabla[p], 1)
  BY <1>2, <1>3, <1>5, <1>6, TrasBien DEF Estado
<1>8. tabla' = Con(tabla, p, e.segmentos)
  BY <1>5 DEF Con
<1>9. ListaBien(e.segmentos) /\ huecos' \in Seq(Huecos) /\ Reparto(huecos', tabla')
  BY <1>5, <1>7, <1>8 DEF EstadoBien
<1>10. TablaBien(tabla') /\ DOMAIN tabla' = DOMAIN tabla
  BY <1>2, <1>3, <1>8, <1>9, ConEs
<1> QED
  BY <1>7, <1>8, <1>9, <1>10 DEF TablasBien

\* Every handler keeps the invariant.
LEMMA Paso ==
    ASSUME TamSegmento0 > 0, Invariante, [Next]_vars
    PROVE  Invariante'
<1>1. TablasBien /\ PedidosBien /\ PedidoBien
  BY InvarianteEs DEF PedidosBien
<1>2. huecos \in Seq(Huecos) /\ TablaBien(tabla) /\ Reparto(huecos, tabla)
  BY <1>1 DEF TablasBien
<1>3. /\ vivos \subseteq DOMAIN tabla /\ corrupta \in BOOLEAN /\ algoritmo \in Algoritmos
      /\ DOMAIN tabla \subseteq 1..MaxProcesos
  <2>1. DOMAIN tabla = 1..Len(tabla) /\ Len(tabla) \in Nat /\ Len(tabla) <= MaxProcesos
    BY <1>2 DEF TablaBien
  <2> QED
    BY <1>1, <2>1, SupuestosMemoria DEF PedidosBien
<1>4. SUFFICES TablasBien' /\ PedidosBien'
  BY DEF Invariante, TablasBien, PedidosBien
<1>5. ASSUME TablasBien', DOMAIN tabla' = DOMAIN tabla, pedido' = Nada,
             UNCHANGED <<algoritmo, vivos, corrupta>>
      PROVE  TablasBien' /\ PedidosBien'
  BY <1>3, <1>5 DEF PedidosBien, PedidoBien
<1>6. ASSUME NEW p \in DOMAIN tabla, pedido' = [op |-> "FINALIZAR", pid |-> p],
             UNCHANGED <<algoritmo, huecos, tabla, corrupta>>, vivos' \subseteq vivos
      PROVE  TablasBien' /\ PedidosBien'
  <2>1. pedido' \in Pedidos /\ pedido'.pid = p /\ pedido'.op = "FINALIZAR"
    BY <1>3, <1>6 DEF Pedidos
  <2> QED
    BY <1>1, <1>3, <1>6, <2>1 DEF TablasBien, PedidosBien, PedidoBien
<1>7. CASE UNCHANGED vars
  BY <1>1, <1>7 DEF vars, TablasBien, PedidosBien, PedidoBien, Ocupados
<1>8. CASE Kernel
  <2>1. PICK p \in vivos :
          \/ \E id \in Ids, t \in Tamanios : PideCrear(p, id, t)
          \/ \E id \in Ids : PideEliminar(p, id)
          \/ PideFinalizar(p)
    BY <1>8 DEF Kernel
  <2>2. UNCHANGED <<algoritmo, huecos, tabla, corrupta>> /\ p \in DOMAIN tabla /\ p \in 1..MaxProcesos
    BY <1>3, <1>8 DEF Kernel
  <2>3. CASE \E id \in Ids, t \in Tamanios : PideCrear(p, id, t)
    <3>1. PICK id \in Ids, t \in Tamanios : PideCrear(p, id, t)
      BY <2>3
    <3>2. /\ pedido' = [op |-> "CREAR_SEGMENTO", pid |-> p, id |-> id, tamanio |-> t]
          /\ vivos' = vivos /\ id \notin Ocupados(p)
      BY <3>1 DEF PideCrear
    <3>3. pedido' \in Pedidos /\ pedido'.pid = p /\ pedido'.id = id
      BY <2>2, <3>2 DEF Pedidos
    <3> QED
      BY <1>1, <1>3, <2>2, <3>2, <3>3 DEF TablasBien, PedidosBien, PedidoBien, Ocupados
  <2>4. CASE \E id \in Ids : PideEliminar(p, id)
    <3>1. PICK id \in Ids : PideEliminar(p, id)
      BY <2>4
    <3>2. /\ pedido' = [op |-> "ELIMINAR_SEGMENTO", pid |-> p, id |-> id] /\ vivos' = vivos
      BY <3>1 DEF PideEliminar
    <3>3. pedido' \in Pedidos /\ pedido'.pid = p /\ pedido'.op = "ELIMINAR_SEGMENTO"
      BY <2>2, <3>2 DEF Pedidos
    <3> QED
      BY <1>1, <1>3, <2>2, <3>2, <3>3 DEF TablasBien, PedidosBien, PedidoBien
  <2>5. CASE PideFinalizar(p)
    BY <1>6, <2>2, <2>5 DEF PideFinalizar
  <2> QED
    BY <2>1, <2>3, <2>4, <2>5
<1>9. CASE InicializarEstructura
  <2>1. /\ tabla' = Append(tabla, <<Segmento0>>) /\ Len(tabla) < MaxProcesos
        /\ vivos' = vivos \cup {Len(tabla) + 1}
        /\ UNCHANGED <<algoritmo, huecos, pedido, corrupta>>
    BY <1>9 DEF InicializarEstructura
  <2>2. /\ TablaBien(tabla') /\ Reparto(huecos, tabla')
        /\ DOMAIN tabla' = DOMAIN tabla \cup {Len(tabla) + 1}
        /\ \A p \in DOMAIN tabla : tabla'[p] = tabla[p]
    BY <1>2, <2>1, TablaMasUna
  <2>3. TablasBien'
    BY <1>2, <2>1, <2>2 DEF TablasBien
  <2>4. vivos' \subseteq DOMAIN tabla'
    BY <1>3, <2>1, <2>2
  <2>5. pedido # Nada => Ocupados(pedido.pid)' = Ocupados(pedido.pid)
    BY <1>1, <2>1, <2>2 DEF PedidoBien, Ocupados
  <2>6. PedidoBien'
    BY <1>1, <2>1, <2>2, <2>5 DEF PedidoBien
  <2> QED
    BY <1>3, <2>1, <2>3, <2>4, <2>6 DEF PedidosBien
<1>10. CASE CrearSegmento
  <2> DEFINE p == pedido.pid
  <2>1. Atiende("CREAR_SEGMENTO") /\ pedido # Nada
    BY <1>10 DEF CrearSegmento, Atiende
  <2>2. /\ p \in DOMAIN tabla /\ pedido.id \in Ids /\ pedido.tamanio \in Tamanios
        /\ pedido.id \notin Ocupados(p)
    BY <1>1, <2>1, PedidoEs
  <2>3. CASE Ubicar(p, pedido.id, pedido.tamanio)
    <3>1. TablasBien' /\ DOMAIN tabla' = DOMAIN tabla
      BY <2>2, <2>3, UbicarTablas
    <3> QED
      BY <1>5, <2>3, <3>1 DEF Ubicar
  <2>4. CASE SolicitarCompactacion(pedido.tamanio)
    <3>1. /\ huecos' \in Ordenaciones(huecos) /\ UNCHANGED <<algoritmo, tabla, vivos, corrupta>>
          /\ pedido' = [op |-> "REALIZAR_COMPACTACION", pid |-> pedido.pid, id |-> pedido.id,
                        tamanio |-> pedido.tamanio]
      BY <1>1, <2>1, <2>4, PedidoEs DEF SolicitarCompactacion
    <3>2. TablasBien'
      BY <1>2, <3>1, OrdenarConserva, ConservaReparto DEF TablasBien
    <3>3. pedido' \in Pedidos /\ pedido'.pid = p /\ pedido'.id = pedido.id
      BY <1>3, <2>2, <3>1 DEF Pedidos
    <3> QED
      BY <1>3, <2>2, <3>1, <3>2, <3>3 DEF PedidosBien, PedidoBien, Ocupados
  <2>5. CASE IndiceSinIniciar(pedido.tamanio)
    BY <1>1, <1>3, <2>5 DEF IndiceSinIniciar, TablasBien, PedidosBien, PedidoBien, Ocupados
  <2>6. CASE SinMemoria(p, pedido.tamanio)
    BY <1>6, <2>2, <2>6 DEF SinMemoria
  <2> QED
    BY <1>10, <2>3, <2>4, <2>5, <2>6 DEF CrearSegmento
<1>11. CASE EliminarSegmento
  BY <1>5, <1>11, EliminarTablas DEF EliminarSegmento
<1>12. CASE EliminarProceso
  <2>1. TablasBien' /\ DOMAIN tabla' = DOMAIN tabla
    BY <1>12, EliminarProcesoTablas
  <2>2. pedido' = Nada /\ UNCHANGED <<algoritmo, vivos, corrupta>>
    BY <1>12 DEF EliminarProceso
  <2> QED
    BY <1>5, <2>1, <2>2
<1>13. CASE Compactar
  <2>1. Atiende("REALIZAR_COMPACTACION") /\ pedido # Nada
    BY <1>13 DEF Compactar, Atiende
  <2>2. /\ pedido.pid \in DOMAIN tabla /\ pedido.id \in Ids /\ pedido.tamanio \in Tamanios
        /\ pedido.id \notin Ocupados(pedido.pid)
    BY <1>1, <2>1, PedidoEs
  <2>3. /\ huecos' = HuecosCompactos /\ tabla' = TablaCompacta
        /\ UNCHANGED <<algoritmo, vivos, corrupta>>
        /\ pedido' = [op |-> "CREAR_SEGMENTO", pid |-> pedido.pid, id |-> pedido.id,
                      tamanio |-> pedido.tamanio]
    BY <1>1, <1>13, <2>1, PedidoEs DEF Compactar
  <2>4. huecos' \in Seq(Huecos) /\ TablaBien(tabla') /\ Reparto(huecos', tabla')
    BY <1>1, <2>3, CompactarBien
  <2>5. TablasBien'
    BY <2>4 DEF TablasBien
  <2>6. DOMAIN tabla' = DOMAIN tabla /\ \A p \in DOMAIN tabla :
            /\ DOMAIN tabla'[p] = DOMAIN tabla[p]
            /\ \A i \in DOMAIN tabla[p] : tabla'[p][i].id = tabla[p][i].id
    BY <1>1, <2>3, TablaCompactaEs
  <2>7. Ocupados(pedido.pid)' = {tabla'[pedido.pid][i].id : i \in DOMAIN tabla'[pedido.pid]}
    BY <2>3 DEF Ocupados
  <2>8. pedido.id \notin {tabla'[pedido.pid][i].id : i \in DOMAIN tabla'[pedido.pid]}
    BY <2>2, <2>6 DEF Ocupados
  <2>9. pedido' \in Pedidos /\ pedido'.pid = pedido.pid /\ pedido'.id = pedido.id
    BY <1>3, <2>2, <2>3 DEF Pedidos
  <2>10. PedidoBien'
    BY <2>2, <2>6, <2>8, <2>9 DEF PedidoBien, Ocupados
  <2> QED
    BY <1>3, <2>3, <2>5, <2>6, <2>10 DEF PedidosBien
<1> QED
  BY <1>7, <1>8, <1>9, <1>10, <1>11, <1>12, <1>13 DEF Next, AtenderModulos

LEMMA EsInvariante ==
    ASSUME TamSegmento0 > 0
    PROVE  Spec => []Invariante
<1>1. Init => Invariante
  BY Iniciales
<1>2. Invariante /\ [Next]_vars => Invariante'
  BY Paso
<1> QED
  BY <1>1, <1>2, PTL DEF Spec

-----------------------------------------------------------------------------
(* What the invariant says *)

LEMMA TipoDeInvariante ==
    ASSUME Invariante
    PROVE  TipoOK
<1>1. huecos \in Seq([base : Rango, tamanio : Rango])
  <2> DEFINE B == [base : Rango, tamanio : Rango]
  <2>1. Huecos \subseteq B
    BY DEF Huecos
  <2>2. huecos \in Seq(Huecos)
    BY DEF Invariante
  <2> HIDE DEF B
  <2>3. huecos \in Seq(B)
    BY <2>1, <2>2
  <2> QED
    BY <2>3 DEF B
<1>2. /\ tabla \in Seq(Seq([id : Ids \cup {0}, base : Rango, tamanio : Tamanios \cup {TamSegmento0}]))
      /\ Len(tabla) <= MaxProcesos
  <2> DEFINE A == Segms \cup {Segmento0}
             B == [id : Ids \cup {0}, base : Rango, tamanio : Tamanios \cup {TamSegmento0}]
  <2>1. 0 \in Rango
    BY SupuestosMemoria DEF Rango
  <2>2. Segmento0 \in B
    BY <2>1 DEF Segmento0, Segmento
  <2>3. Segms \subseteq B
    BY DEF Segms
  <2>4. A \subseteq B
    BY <2>2, <2>3
  <2>5. tabla \in Seq(Seq(A)) /\ Len(tabla) <= MaxProcesos
    BY DEF Invariante, TablaBien
  <2> HIDE DEF A, B
  <2>6. Seq(A) \subseteq Seq(B)
    BY <2>4
  <2>7. tabla \in Seq(Seq(B))
    <3> DEFINE X == Seq(A)
               Y == Seq(B)
    <3>1. tabla \in Seq(X) /\ X \subseteq Y
      BY <2>5, <2>6
    <3> HIDE DEF X, Y
    <3>2. tabla \in Seq(Y)
      BY <3>1
    <3> QED
      BY <3>2 DEF Y
  <2> QED
    BY <2>5, <2>7 DEF B
<1>3. pedido \in Pedidos \cup {Nada} /\ (pedido # Nada => pedido.pid \in DOMAIN tabla)
  BY DEF Invariante, PedidoBien
<1> QED
  BY <1>1, <1>2, <1>3 DEF Invariante, TipoOK

\* The types (memoria.c tabla_huecos_libres, tabla_general; kernel requests): no
\* hole and no segment ever leaves the memory, and the kernel asks only about
\* processes that have a table.
THEOREM TipoMemoriaCorrecto ==
    ASSUME TamSegmento0 > 0
    PROVE  Spec => []TipoOK
<1>1. Invariante => TipoOK
  BY TipoDeInvariante
<1> QED
  BY <1>1, EsInvariante, PTL

LEMMA ParticionDeInvariante ==
    ASSUME Invariante
    PROVE  Particion
<1>1. huecos \in Seq(Huecos) /\ TablaBien(tabla) /\ Reparto(huecos, tabla) /\ TablasBien
  BY DEF Invariante, TablasBien
<1>2. \A p \in DOMAIN tabla : tabla[p][1] = Segmento0
  BY <1>1 DEF TablaBien, ListaBien
<1> DEFINE L(c) == {i \in DOMAIN huecos : Contiene(huecos[i], c)}
           O(c) == {l \in Propios : Contiene(tabla[l[1]][l[2]], c)}
<1>3. \A c : NingunHueco(huecos, c) => L(c) = {}
  BY DEF NingunHueco
<1>4. ASSUME NEW c, NingunSegmento(tabla, c) PROVE O(c) = {}
  <2>1. \A l \in Propios : l[1] \in DOMAIN tabla /\ l[2] \in 2..Len(tabla[l[1]])
    BY <1>1, PropioEs
  <2> QED
    BY <1>4, <2>1 DEF NingunSegmento
<1>5. ASSUME NEW c, UnHueco(huecos, c) PROVE \E i : L(c) = {i}
  <2>1. PICK i \in DOMAIN huecos :
            Contiene(huecos[i], c) /\ \A j \in DOMAIN huecos : Contiene(huecos[j], c) => j = i
    BY <1>5 DEF UnHueco
  <2>2. L(c) = {i}
    BY <2>1
  <2> QED
    BY <2>2
<1>6. ASSUME NEW c, UnSegmento(tabla, c) PROVE \E l : O(c) = {l}
  <2>1. PICK p \in DOMAIN tabla : \E i \in 2..Len(tabla[p]) :
            /\ Contiene(tabla[p][i], c)
            /\ \A q \in DOMAIN tabla : \A j \in 2..Len(tabla[q]) :
                    Contiene(tabla[q][j], c) => q = p /\ j = i
    BY <1>6 DEF UnSegmento
  <2>2. PICK i \in 2..Len(tabla[p]) :
            /\ Contiene(tabla[p][i], c)
            /\ \A q \in DOMAIN tabla : \A j \in 2..Len(tabla[q]) :
                    Contiene(tabla[q][j], c) => q = p /\ j = i
    BY <2>1
  <2>3. i \in DOMAIN tabla[p] /\ i > 1
    BY <1>1 DEF TablaBien, ListaBien
  <2>4. <<p, i>> \in O(c)
    BY <1>1, <2>2, <2>3, LugarEs DEF Propios
  <2>5. ASSUME NEW l \in O(c) PROVE l = <<p, i>>
    <3>1. l[1] \in DOMAIN tabla /\ l[2] \in 2..Len(tabla[l[1]]) /\ l = <<l[1], l[2]>>
      BY <1>1, PropioEs, LugarEs
    <3> QED
      BY <2>2, <3>1
  <2> HIDE DEF O
  <2>6. O(c) = {<<p, i>>}
    BY <2>4, <2>5
  <2> QED
    BY <2>6
<1>7. ASSUME NEW c \in 0..TamMemoria - 1, c < TamSegmento0
      PROVE  NingunHueco(huecos, c) /\ NingunSegmento(tabla, c)
  <2>0. c \in Nat /\ TamSegmento0 \in Nat
    BY SupuestosMemoria
  <2>1. ASSUME NEW i \in DOMAIN huecos PROVE ~Contiene(huecos[i], c)
    <3>1. huecos[i].base \in Nat /\ TamSegmento0 <= huecos[i].base
      BY <1>1, SupuestosMemoria DEF Huecos, Rango
    <3> QED
      BY <1>7, <2>0, <3>1 DEF Contiene
  <2>2. ASSUME NEW p \in DOMAIN tabla, NEW i \in 2..Len(tabla[p]) PROVE ~Contiene(tabla[p][i], c)
    <3>1. tabla[p][i] \in Segms
      BY <1>1 DEF TablaBien, ListaBien
    <3>2. tabla[p][i].base \in Nat /\ TamSegmento0 <= tabla[p][i].base
      BY <3>1, SupuestosMemoria DEF Segms, Rango
    <3> QED
      BY <1>7, <2>0, <3>2 DEF Contiene
  <2> QED
    BY <2>1, <2>2 DEF NingunHueco, NingunSegmento
<1> HIDE DEF L, O
<1>8. Cardinality({}) = 0 /\ \A x : Cardinality({x}) = 1
  BY FS_EmptySet, FS_Singleton
<1>9. ASSUME NEW c \in 0..TamMemoria - 1
      PROVE  Cardinality(L(c)) + Cardinality(O(c)) = IF c < TamSegmento0 THEN 0 ELSE 1
  <2>1. CASE c < TamSegmento0
    <3>1. L(c) = {} /\ O(c) = {}
      BY <1>3, <1>4, <1>7, <2>1
    <3> QED
      BY <1>8, <2>1, <3>1
  <2>2. CASE ~(c < TamSegmento0)
    <3>1. c \in Bytes
      BY <2>2, SupuestosMemoria DEF Bytes
    <3>2. DeUno(huecos, tabla, c)
      BY <1>1, <3>1 DEF Reparto
    <3>3. CASE UnHueco(huecos, c) /\ NingunSegmento(tabla, c)
      <4>1. O(c) = {} /\ \E i : L(c) = {i}
        BY <1>4, <1>5, <3>3
      <4>2. Cardinality(O(c)) = 0 /\ Cardinality(L(c)) = 1
        BY <1>8, <4>1
      <4> QED
        BY <2>2, <4>2
    <3>4. CASE NingunHueco(huecos, c) /\ UnSegmento(tabla, c)
      <4>1. L(c) = {} /\ \E l : O(c) = {l}
        BY <1>3, <1>6, <3>4
      <4>2. Cardinality(L(c)) = 0 /\ Cardinality(O(c)) = 1
        BY <1>8, <4>1
      <4> QED
        BY <2>2, <4>2
    <3> QED
      BY <3>2, <3>3, <3>4 DEF DeUno
  <2> QED
    BY <2>1, <2>2
<1> QED
  BY <1>2, <1>9 DEF Particion, L, O

\* The partition (memoria.c tabla_huecos_libres, tabla_general): whatever the
\* order of creations, deletions, endings and compactions, the placement
\* algorithm and the order list_sort leaves equal bases in, each byte after
\* segment 0 is of exactly one hole or of exactly one segment of one process.
THEOREM ParticionCorrecta ==
    ASSUME TamSegmento0 > 0
    PROVE  Spec => []Particion
<1>1. Invariante => Particion
  BY ParticionDeInvariante
<1> QED
  BY <1>1, EsInvariante, PTL

\* The two facts about the copies of a compaction.
LEMMA NoPisa ==
    ASSUME TamSegmento0 > 0, Invariante, Compactar, NEW k \in Propios, NEW l \in Propios
    PROVE  /\ Base(k)' <= Base(k)
           /\ Base(k) < Base(l) => Base(k)' + Tamanio(k) <= Base(l)
<1>1. TablasBien
  BY InvarianteEs
<1>2. tabla' = TablaCompacta
  BY DEF Compactar
<1>3. k[1] \in DOMAIN tabla /\ k[2] \in 2..Len(tabla[k[1]]) /\ k = <<k[1], k[2]>>
  BY <1>1, PropioEs, LugarEs DEF TablasBien
<1>4. Base(k)' = Nueva(k)
  BY <1>1, <1>2, <1>3, TablaCompactaEs DEF Base
<1>5. Nueva(k) <= Base(k) /\ Nueva(k) \in Nat
  BY <1>1, NuevaEs
<1>6. /\ Base(k) \in Nat /\ Base(l) \in Nat /\ Tamanio(k) \in Nat
      /\ Base(k) < Base(l) => Base(k) + Tamanio(k) <= Base(l)
  BY <1>1, PropioEs, UnoAntesDeOtro
<1> HIDE DEF Nueva
<1> QED
  BY <1>4, <1>5, <1>6

\* The copies of a compaction (memoria.c:697-703) go from the lowest segment up
\* and each ends before the next segment's old place: none writes over
\* contents that are still to be copied.
THEOREM CompactarNoPisaCorrecto ==
    ASSUME TamSegmento0 > 0
    PROVE  Spec => CompactarNoPisa
<1>1. Invariante /\ [Next]_vars =>
        [Compactar => \A k, l \in Propios :
            /\ Base(k)' <= Base(k)
            /\ Base(k) < Base(l) => Base(k)' + Tamanio(k) <= Base(l)]_vars
  BY NoPisa
<1> QED
  BY <1>1, EsInvariante, PTL DEF Spec, CompactarNoPisa

-----------------------------------------------------------------------------
(* The abstract allocator *)

AsignadoAbs == {[pid |-> l[1], id |-> tabla[l[1]][l[2]].id, tamanio |-> Tamanio(l)] : l \in Propios}

PedidoAbs ==
    IF Atiende("REALIZAR_COMPACTACION") THEN [pedido EXCEPT !.op = "CREAR_SEGMENTO"] ELSE pedido

Reg(p, s) == [pid |-> p, id |-> s.id, tamanio |-> s.tamanio]

\* The segments in a table, with no addresses.
Asignados(T) == UNION {{Reg(p, T[p][i]) : i \in 2..Len(T[p])} : p \in DOMAIN T}

\* The two ways to say what is granted.
LEMMA AsignadoEs ==
    TablaBien(tabla) => AsignadoAbs = Asignados(tabla)
<1> SUFFICES ASSUME TablaBien(tabla) PROVE AsignadoAbs = Asignados(tabla)
  OBVIOUS
<1>1. ASSUME NEW l \in Propios
      PROVE  [pid |-> l[1], id |-> tabla[l[1]][l[2]].id, tamanio |-> Tamanio(l)] \in Asignados(tabla)
  <2>1. l[1] \in DOMAIN tabla /\ l[2] \in DOMAIN tabla[l[1]] /\ l[2] > 1 /\ l[2] \in Nat
    BY LugarEs DEF Propios
  <2>2. l[2] \in 2..Len(tabla[l[1]])
    BY <2>1 DEF TablaBien
  <2> QED
    BY <2>1, <2>2 DEF Asignados, Reg, Tamanio
<1>2. ASSUME NEW p \in DOMAIN tabla, NEW i \in 2..Len(tabla[p])
      PROVE  Reg(p, tabla[p][i]) \in AsignadoAbs
  <2>1. i \in DOMAIN tabla[p] /\ i > 1
    BY DEF TablaBien
  <2>2. <<p, i>> \in Propios
    BY <2>1, LugarEs DEF Propios
  <2> QED
    BY <2>2 DEF AsignadoAbs, Reg, Tamanio
<1>3. AsignadoAbs \subseteq Asignados(tabla)
  BY <1>1 DEF AsignadoAbs
<1>4. Asignados(tabla) \subseteq AsignadoAbs
  BY <1>2 DEF Asignados
<1> QED
  BY <1>3, <1>4

LEMMA AsignadosMasUna ==
    ASSUME NEW T, TablaBien(T)
    PROVE  Asignados(Append(T, <<Segmento0>>)) = Asignados(T)
<1> DEFINE S == Seq(Segms \cup {Segmento0})
           e == <<Segmento0>>
           T1 == Append(T, e)
           n == Len(T) + 1
<1>1. e \in S /\ Len(e) = 1
  OBVIOUS
<1>2. T \in Seq(S) /\ Len(T) \in Nat
  BY DEF TablaBien
<1> HIDE DEF S, e
<1>3. DOMAIN T1 = DOMAIN T \cup {n} /\ T1[n] = e /\ n \notin DOMAIN T /\ \A p \in DOMAIN T : T1[p] = T[p]
  BY <1>1, <1>2
<1> HIDE DEF T1, n
<1>4. Len(T1[n]) = 1
  BY <1>1, <1>3
<1>5. 2..Len(T1[n]) = {}
  BY <1>4
<1> QED
  BY <1>3, <1>5 DEF Asignados, T1, e

LEMMA AsignadosUbica ==
    ASSUME NEW T, TablaBien(T), NEW p \in DOMAIN T, NEW s \in Segms, ListaBien(Append(T[p], s))
    PROVE  Asignados(Con(T, p, Append(T[p], s))) = Asignados(T) \cup {Reg(p, s)}
<1> DEFINE l == Append(T[p], s)
           T1 == Con(T, p, l)
           n == Len(T[p])
<1>1. /\ DOMAIN T1 = DOMAIN T /\ T1[p] = l /\ \A q \in DOMAIN T : q # p => T1[q] = T[q]
  <2>1. Cambia(T, T1, p, l)
    BY ConEs
  <2> HIDE DEF T1
  <2> QED
    BY <2>1, Zenon DEF Cambia
<1> HIDE DEF T1
<1>2. T[p] \in Seq(Segms \cup {Segmento0}) /\ T[p] # <<>>
  BY DEF TablaBien, ListaBien
<1>3. n \in Nat /\ n >= 1 /\ Len(l) = n + 1 /\ l[n + 1] = s /\ \A i \in 1..n : l[i] = T[p][i]
  BY <1>2
<1> HIDE DEF n, l
<1>4. 2..Len(l) = (2..n) \cup {n + 1} /\ \A i \in 2..n : i \in 1..n
  BY <1>3
<1>5. {Reg(p, l[i]) : i \in 2..Len(l)} = {Reg(p, T[p][i]) : i \in 2..n} \cup {Reg(p, s)}
  BY <1>3, <1>4
<1>6. ASSUME NEW q \in DOMAIN T
      PROVE  {Reg(q, T1[q][i]) : i \in 2..Len(T1[q])} =
                {Reg(q, T[q][i]) : i \in 2..Len(T[q])} \cup (IF q = p THEN {Reg(p, s)} ELSE {})
  <2>1. CASE q = p
    <3>1. T1[q] = l
      BY <1>1, <2>1
    <3>2. n = Len(T[q])
      BY <2>1 DEF n
    <3>3. {Reg(q, l[i]) : i \in 2..Len(l)} = {Reg(q, T[q][i]) : i \in 2..Len(T[q])} \cup {Reg(p, s)}
      BY <1>5, <2>1, <3>2
    <3> QED
      BY <2>1, <3>1, <3>3
  <2>2. CASE q # p
    BY <1>1, <2>2
  <2> QED
    BY <2>1, <2>2
<1> DEFINE F(q) == {Reg(q, T1[q][i]) : i \in 2..Len(T1[q])}
           G(q) == {Reg(q, T[q][i]) : i \in 2..Len(T[q])}
<1>7. Asignados(T1) = UNION {F(q) : q \in DOMAIN T} /\ Asignados(T) = UNION {G(q) : q \in DOMAIN T}
  BY <1>1 DEF Asignados
<1>8. \A q \in DOMAIN T : F(q) = G(q) \cup (IF q = p THEN {Reg(p, s)} ELSE {})
  BY <1>6
<1> HIDE DEF F, G
<1> QED
  BY <1>7, <1>8 DEF T1, l

\* What remains granted without one segment, without those of a process, and
\* after a compaction.
LEMMA AsignadosQuita ==
    ASSUME NEW T, TablaBien(T), NEW p \in DOMAIN T, NEW k, ListaBien(k), NEW id, QuitaDe(T[p], id, k)
    PROVE  Asignados(Con(T, p, k)) = {e \in Asignados(T) : <<e.pid, e.id>> # <<p, id>>}
<1> DEFINE T1 == Con(T, p, k)
           l == T[p]
           n == Len(l)
<1>1. DOMAIN T1 = DOMAIN T /\ T1[p] = k /\ \A q \in DOMAIN T : q # p => T1[q] = T[q]
  BY ConEs DEF Cambia
<1> HIDE DEF T1
<1>2. ListaBien(l) /\ n \in Nat /\ DOMAIN l = 1..n /\ \A i, j \in DOMAIN l : l[i].id = l[j].id => i = j
  BY DEF TablaBien, ListaBien
<1> DEFINE C(s) == \E i \in 2..Len(k) : k[i] = s
           A(s) == \E i \in 2..n : l[i] = s /\ s.id # id
<1>3. \A s : C(s) <=> A(s)
  <2>1. CASE k = l /\ \A i \in DOMAIN l : l[i].id # id
    <3>1. \A i \in 2..n : l[i].id # id
      BY <1>2, <2>1
    <3> QED
      BY <2>1, <3>1
  <2>2. CASE \E j \in 2..Len(l) : l[j].id = id /\ k = RemoveAt(l, j)
    <3>1. PICK j \in 2..Len(l) : l[j].id = id /\ k = RemoveAt(l, j)
      BY <2>2
    <3>2. Len(k) = n - 1 /\ \A i \in 1..n - 1 : k[i] = l[IF i < j THEN i ELSE i + 1]
      BY <1>2, <3>1, ListaSinUno
    <3>3. j \in 2..n /\ \A i \in 2..n : l[i].id = id => i = j
      BY <1>2, <3>1
    <3>4. ASSUME NEW i \in 2..Len(k) PROVE \E x \in 2..n : k[i] = l[x] /\ l[x].id # id
      <4> DEFINE x == IF i < j THEN i ELSE i + 1
      <4>1. i \in 1..n - 1 /\ x \in 2..n /\ x # j
        BY <1>2, <3>2, <3>3
      <4>2. k[i] = l[x]
        BY <3>2, <4>1
      <4> HIDE DEF x
      <4> QED
        BY <3>3, <4>1, <4>2
    <3>5. ASSUME NEW x \in 2..n, l[x].id # id PROVE \E i \in 2..Len(k) : k[i] = l[x]
      <4>1. x # j
        BY <3>1, <3>5
      <4>2. CASE x < j
        <5>1. x \in 2..Len(k) /\ x \in 1..n - 1
          BY <1>2, <3>2, <3>3, <4>2
        <5> QED
          BY <3>2, <4>2, <5>1
      <4>3. CASE x > j
        <5>1. /\ x - 1 \in 2..Len(k) /\ x - 1 \in 1..n - 1 /\ ~(x - 1 < j) /\ (x - 1) + 1 = x
          BY <1>2, <3>2, <3>3, <4>3
        <5>2. k[x - 1] = l[x]
          BY <3>2, <5>1
        <5> QED
          BY <5>1, <5>2
      <4> QED
        BY <3>3, <4>1, <4>2, <4>3
    <3> QED
      BY <3>4, <3>5
  <2> QED
    BY <2>1, <2>2 DEF QuitaDe
<1>4. ASSUME NEW e \in Asignados(T1) PROVE e \in Asignados(T) /\ <<e.pid, e.id>> # <<p, id>>
  <2>1. PICK q \in DOMAIN T : \E i \in 2..Len(T1[q]) : e = Reg(q, T1[q][i])
    BY <1>1 DEF Asignados
  <2>2. PICK i \in 2..Len(T1[q]) : e = Reg(q, T1[q][i])
    BY <2>1
  <2>3. e.pid = q /\ e.id = T1[q][i].id
    BY <2>2 DEF Reg
  <2>4. CASE q = p
    <3>1. A(T1[q][i])
      BY <1>1, <1>3, <2>4
    <3>2. PICK x \in 2..n : l[x] = T1[q][i] /\ T1[q][i].id # id
      BY <3>1
    <3>3. e = Reg(p, l[x])
      BY <2>2, <2>4, <3>2
    <3> QED
      BY <2>3, <3>2, <3>3 DEF Asignados
  <2>5. CASE q # p
    <3>1. T1[q] = T[q]
      BY <1>1, <2>5
    <3> QED
      BY <2>2, <2>3, <2>5, <3>1 DEF Asignados
  <2> QED
    BY <2>4, <2>5
<1>5. ASSUME NEW e \in Asignados(T), <<e.pid, e.id>> # <<p, id>> PROVE e \in Asignados(T1)
  <2>1. PICK q \in DOMAIN T : \E i \in 2..Len(T[q]) : e = Reg(q, T[q][i])
    BY DEF Asignados
  <2>2. PICK i \in 2..Len(T[q]) : e = Reg(q, T[q][i])
    BY <2>1
  <2>3. e.pid = q /\ e.id = T[q][i].id
    BY <2>2 DEF Reg
  <2>4. CASE q = p
    <3>1. A(T[q][i])
      BY <1>5, <2>3, <2>4
    <3>2. PICK x \in 2..Len(k) : k[x] = T[q][i]
      BY <1>3, <3>1
    <3> QED
      BY <1>1, <2>2, <2>4, <3>2 DEF Asignados
  <2>5. CASE q # p
    <3>1. T1[q] = T[q]
      BY <1>1, <2>5
    <3> QED
      BY <1>1, <2>2, <3>1 DEF Asignados
  <2> QED
    BY <2>4, <2>5
<1> QED
  BY <1>4, <1>5 DEF T1

LEMMA AsignadosSin ==
    ASSUME NEW T, TablaBien(T), NEW p \in DOMAIN T, NEW k, ListaBien(k), Recortada(k, T[p], 1)
    PROVE  Asignados(Con(T, p, k)) = {e \in Asignados(T) : e.pid # p}
<1> DEFINE T1 == Con(T, p, k)
<1>1. DOMAIN T1 = DOMAIN T /\ T1[p] = k /\ \A q \in DOMAIN T : q # p => T1[q] = T[q]
  BY ConEs DEF Cambia
<1> HIDE DEF T1
<1>2. Len(k) = 1
  BY DEF Recortada
<1>3. 2..Len(T1[p]) = {}
  BY <1>1, <1>2
<1>4. \A q, s : Reg(q, s).pid = q
  BY DEF Reg
<1>5. ASSUME NEW e \in Asignados(T1) PROVE e \in Asignados(T) /\ e.pid # p
  BY <1>1, <1>3, <1>4 DEF Asignados
<1>6. ASSUME NEW e \in Asignados(T), e.pid # p PROVE e \in Asignados(T1)
  BY <1>1, <1>4, <1>6 DEF Asignados
<1> QED
  BY <1>5, <1>6 DEF T1

LEMMA AsignadosCompacta ==
    ASSUME TablasBien, TamSegmento0 > 0
    PROVE  Asignados(TablaCompacta) = Asignados(tabla)
<1> DEFINE T1 == TablaCompacta
<1>1. /\ DOMAIN T1 = DOMAIN tabla
      /\ \A p \in DOMAIN tabla : DOMAIN T1[p] = DOMAIN tabla[p] /\ Len(T1[p]) = Len(tabla[p])
      /\ \A p \in DOMAIN tabla : \A i \in DOMAIN tabla[p] : T1[p][i].id = tabla[p][i].id
      /\ \A p \in DOMAIN tabla : \A i \in 2..Len(tabla[p]) : T1[p][i].tamanio = Tamanio(<<p, i>>)
  BY TablaCompactaEs
<1>2. ASSUME NEW p \in DOMAIN tabla, NEW i \in 2..Len(tabla[p])
      PROVE  Reg(p, T1[p][i]) = Reg(p, tabla[p][i])
  <2>1. i \in DOMAIN tabla[p]
    BY DEF TablasBien, TablaBien
  <2> HIDE DEF T1
  <2> QED
    BY <1>1, <2>1 DEF Reg, Tamanio
<1> HIDE DEF T1
<1>3. \A p \in DOMAIN tabla : {Reg(p, T1[p][i]) : i \in 2..Len(T1[p])} =
                                {Reg(p, tabla[p][i]) : i \in 2..Len(tabla[p])}
  BY <1>1, <1>2
<1> DEFINE F(p) == {Reg(p, T1[p][i]) : i \in 2..Len(T1[p])}
           G(p) == {Reg(p, tabla[p][i]) : i \in 2..Len(tabla[p])}
<1>4. Asignados(T1) = UNION {F(p) : p \in DOMAIN tabla}
  BY <1>1 DEF Asignados
<1>5. Asignados(tabla) = UNION {G(p) : p \in DOMAIN tabla}
  BY DEF Asignados
<1>6. \A p \in DOMAIN tabla : F(p) = G(p)
  BY <1>3
<1> HIDE DEF F, G
<1> QED
  BY <1>4, <1>5, <1>6 DEF T1

\* The free bytes of the abstract allocator are those of the holes.
LEMMA LibreEs ==
    ASSUME TablasBien
    PROVE  Abstracto!Libre = SumaHuecos(huecos)
<1> DEFINE A == AsignadoAbs
           f == [s \in A |-> s.tamanio]
           R(l) == [pid |-> l[1], id |-> tabla[l[1]][l[2]].id, tamanio |-> Tamanio(l)]
           de == [e \in A |-> CHOOSE l \in Propios : R(l) = e]
           B == [e \in A |-> Zona(de[e])]
<1>1. Abstracto!Libre = (TamMemoria - TamSegmento0) - SumFunctionOnSet(f, A)
  BY Zenon DEF Abstracto!Libre, AsignadoAbs,
        SumFunction, SumFunctionOnSet, FoldFunctionOnSet, MapThenFoldSet,
        Abstracto!SumFunction, Abstracto!SumFunctionOnSet, Abstracto!FoldFunctionOnSet,
        Abstracto!MapThenFoldSet
<1>2. \A l \in Propios : R(l) \in A
  BY DEF AsignadoAbs
<1>3. ASSUME NEW e \in A PROVE de[e] \in Propios /\ R(de[e]) = e
  BY DEF AsignadoAbs
<1>4. ASSUME NEW k \in Propios, NEW l \in Propios, R(k) = R(l) PROVE k = l
  <2>1. /\ k[1] = l[1] /\ tabla[k[1]][k[2]].id = tabla[l[1]][l[2]].id
    BY <1>4
  <2>2. /\ k = <<k[1], k[2]>> /\ l = <<l[1], l[2]>>
        /\ k[1] \in DOMAIN tabla /\ k[2] \in DOMAIN tabla[k[1]] /\ l[2] \in DOMAIN tabla[l[1]]
    BY LugarEs, PropioEs DEF TablasBien
  <2>3. ListaBien(tabla[k[1]])
    BY <2>2 DEF TablasBien, TablaBien
  <2>4. k[2] = l[2]
    BY <2>1, <2>2, <2>3 DEF ListaBien
  <2> QED
    BY <2>1, <2>2, <2>4
<1>5. \A l \in Propios : de[R(l)] = l
  <2> SUFFICES ASSUME NEW l \in Propios PROVE de[R(l)] = l
    OBVIOUS
  <2>1. de[R(l)] \in Propios /\ R(de[R(l)]) = R(l)
    BY <1>2, <1>3
  <2> HIDE DEF de, R
  <2> QED
    BY <1>4, <2>1
<1>6. \A e \in A : e.tamanio = Tamanio(de[e])
  <2>1. \A l : R(l).tamanio = Tamanio(l)
    OBVIOUS
  <2> HIDE DEF R, de
  <2> QED
    BY <1>3, <2>1
<1>7. IsFiniteSet(Propios)
  BY LugaresFinitos DEF TablasBien
<1>8. IsFiniteSet(A)
  <2> DEFINE g == [l \in Propios |-> R(l)]
  <2>1. g \in [Propios -> A] /\ \A e \in A : \E l \in Propios : g[l] = e
    <3> HIDE DEF R, de
    <3> QED
      BY <1>2, <1>3
  <2>2. g \in Surjection(Propios, A)
    BY <2>1 DEF Surjection
  <2> QED
    BY <1>7, <2>2, FS_Surjection
<1>9. \A e \in A : B[e] = Zona(de[e]) /\ f[e] = e.tamanio
  OBVIOUS
<1> HIDE DEF A, f, de, B, R
<1>10. Cajas(A, f, B)
  <2>1. ASSUME NEW x \in A, NEW y \in A, x # y PROVE B[x] \cap B[y] = {}
    <3>1. de[x] # de[y]
      BY <1>3, <2>1
    <3> QED
      BY <1>3, <1>9, <3>1, ZonasAparte
  <2>2. ASSUME NEW x \in A PROVE IsFiniteSet(B[x]) /\ f[x] = Cardinality(B[x])
    BY <1>3, <1>6, <1>9, ZonaCardinal
  <2> QED
    BY <1>8, <2>1, <2>2 DEF Cajas
<1>11. EnCajas(B, A) = Usados
  <2>1. ASSUME NEW e \in A PROVE B[e] \subseteq Usados
    BY <1>3, <1>9 DEF Usados
  <2>2. ASSUME NEW l \in Propios PROVE R(l) \in A /\ B[R(l)] = Zona(l)
    BY <1>2, <1>5, <1>9
  <2> QED
    BY <2>1, <2>2 DEF EnCajas, Usados
<1>12. SumFunctionOnSet(f, A) = Cardinality(Usados)
  <2>1. A \in SUBSET A
    OBVIOUS
  <2> QED
    BY <1>10, <1>11, <2>1, SumaDeCajas
<1> QED
  BY <1>1, <1>12, SumaHuecosEs

LEMMA AsignadoPrima ==
    ASSUME TablasBien'
    PROVE  AsignadoAbs' = Asignados(tabla')
<1>1. (TablaBien(tabla) => AsignadoAbs = Asignados(tabla))'
  BY AsignadoEs, PTL
<1> QED
  BY <1>1 DEF TablasBien

\* No request is the value that stands for none.
NadaAparte == Nada \notin Pedidos

LEMMA InicioAbstracto ==
    Init => Abstracto!Init
<1> SUFFICES ASSUME Init PROVE Abstracto!Init
  OBVIOUS
<1>1. tabla = <<>> /\ pedido = Nada /\ vivos = {}
  BY DEF Init
<1>2. TablaBien(tabla)
  BY Iniciales DEF Invariante
<1>3. Asignados(tabla) = {}
  BY <1>1 DEF Asignados
<1>4. AsignadoAbs = {}
  BY <1>2, <1>3, AsignadoEs
<1>5. PedidoAbs = Nada
  BY <1>1 DEF PedidoAbs, Atiende
<1> QED
  BY <1>1, <1>4, <1>5 DEF Abstracto!Init, AsignadoAbs, PedidoAbs

\* Every step of the memory is one of the abstract allocator, or none.
LEMMA PasoAbstracto ==
    ASSUME TamSegmento0 > 0, NadaAparte, Invariante, [Next]_vars
    PROVE  [Abstracto!Next]_(Abstracto!vars)
<1>1. TablasBien /\ PedidosBien /\ PedidoBien
  BY InvarianteEs DEF PedidosBien
<1>2. Invariante' /\ TablasBien' /\ PedidoBien'
  <2>1. Invariante'
    BY Paso
  <2> QED
    BY <2>1 DEF Invariante, TablasBien
<1>3. TablaBien(tabla) /\ TablaBien(tabla')
  BY <1>1, <1>2 DEF TablasBien
<1>4. AsignadoAbs = Asignados(tabla) /\ AsignadoAbs' = Asignados(tabla')
  BY <1>2, <1>3, AsignadoEs, AsignadoPrima
<1>5. DOMAIN tabla \subseteq 1..MaxProcesos /\ DOMAIN tabla = 1..Len(tabla) /\ Len(tabla) \in Nat
  <2>1. DOMAIN tabla = 1..Len(tabla) /\ Len(tabla) \in Nat /\ Len(tabla) <= MaxProcesos
    BY <1>3 DEF TablaBien
  <2> QED
    BY <2>1, SupuestosMemoria
<1>6. vivos \subseteq DOMAIN tabla
  BY <1>1 DEF PedidosBien
<1>7. ASSUME ~Atiende("REALIZAR_COMPACTACION") PROVE PedidoAbs = pedido
  BY <1>7 DEF PedidoAbs
<1>8. ASSUME pedido' = Nada \/ pedido'.op # "REALIZAR_COMPACTACION" PROVE PedidoAbs' = pedido'
  BY <1>8 DEF PedidoAbs, Atiende
<1>9. ASSUME AsignadoAbs' = AsignadoAbs, PedidoAbs' = PedidoAbs, vivos' = vivos
      PROVE  [Abstracto!Next]_(Abstracto!vars)
  BY <1>9 DEF Abstracto!vars, AsignadoAbs, PedidoAbs
<1>10. CASE UNCHANGED vars
  <2>1. AsignadoAbs' = AsignadoAbs /\ PedidoAbs' = PedidoAbs /\ vivos' = vivos
    BY <1>4, <1>10 DEF vars, PedidoAbs, Atiende
  <2> QED
    BY <1>9, <2>1
<1>11. CASE Kernel
  <2>1. PICK p \in vivos :
          \/ \E id \in Ids, t \in Tamanios : PideCrear(p, id, t)
          \/ \E id \in Ids : PideEliminar(p, id)
          \/ PideFinalizar(p)
    BY <1>11 DEF Kernel
  <2>2. /\ pedido = Nada /\ tabla' = tabla /\ p \in 1..MaxProcesos
    BY <1>5, <1>6, <1>11 DEF Kernel
  <2>3. PedidoAbs = Nada /\ AsignadoAbs' = AsignadoAbs
    BY <1>4, <1>7, <2>2 DEF Atiende
  <2>4. ASSUME NEW m \in Abstracto!Mensaje, m.pid = p, pedido' = m, m.op # "REALIZAR_COMPACTACION",
               vivos' = IF m.op = "FINALIZAR" THEN vivos \ {p} ELSE vivos
        PROVE  Abstracto!Next
    <3>1. PedidoAbs' = m
      BY <1>8, <2>4
    <3>2. Abstracto!Pedir(m)
      BY <2>3, <2>4, <3>1 DEF Abstracto!Pedir, AsignadoAbs, PedidoAbs
    <3> QED
      BY <3>2 DEF Abstracto!Next
  <2>5. CASE \E id \in Ids, t \in Tamanios : PideCrear(p, id, t)
    <3>1. PICK id \in Ids, t \in Tamanios : PideCrear(p, id, t)
      BY <2>5
    <3> DEFINE m == [op |-> "CREAR_SEGMENTO", pid |-> p, id |-> id, tamanio |-> t]
    <3>2. pedido' = m /\ vivos' = vivos
      BY <3>1 DEF PideCrear
    <3>3. m \in Abstracto!Mensaje /\ m.pid = p /\ m.op = "CREAR_SEGMENTO"
      BY <2>2 DEF Abstracto!Mensaje
    <3> HIDE DEF m
    <3> QED
      BY <2>4, <3>2, <3>3
  <2>6. CASE \E id \in Ids : PideEliminar(p, id)
    <3>1. PICK id \in Ids : PideEliminar(p, id)
      BY <2>6
    <3> DEFINE m == [op |-> "ELIMINAR_SEGMENTO", pid |-> p, id |-> id]
    <3>2. pedido' = m /\ vivos' = vivos
      BY <3>1 DEF PideEliminar
    <3>3. m \in Abstracto!Mensaje /\ m.pid = p /\ m.op = "ELIMINAR_SEGMENTO"
      BY <2>2 DEF Abstracto!Mensaje
    <3> HIDE DEF m
    <3> QED
      BY <2>4, <3>2, <3>3
  <2>7. CASE PideFinalizar(p)
    <3> DEFINE m == [op |-> "FINALIZAR", pid |-> p]
    <3>2. pedido' = m /\ vivos' = vivos \ {p}
      BY <2>7 DEF PideFinalizar
    <3>3. m \in Abstracto!Mensaje /\ m.pid = p /\ m.op = "FINALIZAR"
      BY <2>2 DEF Abstracto!Mensaje
    <3> HIDE DEF m
    <3> QED
      BY <2>4, <3>2, <3>3
  <2> QED
    BY <2>1, <2>5, <2>6, <2>7
<1>12. CASE InicializarEstructura
  <2>1. /\ tabla' = Append(tabla, <<Segmento0>>) /\ Len(tabla) < MaxProcesos
        /\ vivos' = vivos \cup {Len(tabla) + 1} /\ pedido' = pedido
    BY <1>12 DEF InicializarEstructura
  <2>2. AsignadoAbs' = AsignadoAbs
    BY <1>3, <1>4, <2>1, AsignadosMasUna
  <2>3. PedidoAbs' = PedidoAbs
    BY <2>1 DEF PedidoAbs, Atiende
  <2>4. Len(tabla) + 1 \in 1..MaxProcesos
    BY <1>5, <2>1, SupuestosMemoria
  <2>5. Abstracto!Abrir(Len(tabla) + 1)
    BY <2>1, <2>2, <2>3 DEF Abstracto!Abrir, AsignadoAbs, PedidoAbs
  <2> QED
    BY <2>4, <2>5 DEF Abstracto!Next
<1>13. CASE CrearSegmento
  <2> DEFINE p == pedido.pid
             t == pedido.tamanio
  <2>1. Atiende("CREAR_SEGMENTO") /\ pedido # Nada /\ pedido.op = "CREAR_SEGMENTO"
    BY <1>13 DEF CrearSegmento, Atiende
  <2>2. /\ p \in DOMAIN tabla /\ pedido.id \in Ids /\ t \in Tamanios /\ pedido.id \notin Ocupados(p)
    BY <1>1, <2>1, PedidoEs
  <2>3. PedidoAbs = pedido
    BY <1>7, <2>1 DEF Atiende
  <2>4. Abstracto!Libre = SumaHuecos(huecos)
    BY <1>1, LibreEs
  <2>5. CASE Ubicar(p, pedido.id, t)
    <3>1. PICK s \in Segms : /\ s.id = pedido.id /\ s.tamanio = t
                             /\ tabla' = Con(tabla, p, Append(tabla[p], s))
                             /\ ListaBien(Append(tabla[p], s))
      BY <2>2, <2>5, UbicarTablas
    <3>2. Asignados(tabla') = Asignados(tabla) \cup {Reg(p, s)}
      <4>1. tabla' = Con(tabla, p, Append(tabla[p], s)) /\ ListaBien(Append(tabla[p], s))
        BY <3>1
      <4> HIDE DEF p
      <4>2. Asignados(Con(tabla, p, Append(tabla[p], s))) = Asignados(tabla) \cup {Reg(p, s)}
        BY <1>3, <2>2, <4>1, AsignadosUbica, Zenon
      <4> QED
        BY <4>1, <4>2
    <3>3. AsignadoAbs' = AsignadoAbs \cup {[pid |-> p, id |-> pedido.id, tamanio |-> t]}
      BY <1>4, <3>1, <3>2 DEF Reg
    <3>4. pedido' = Nada /\ vivos' = vivos /\ t <= SumaHuecos(huecos)
      BY <2>5 DEF Ubicar, HayEspacio
    <3>5. PedidoAbs' = Nada
      BY <1>8, <3>4
    <3>6. Abstracto!Conceder
      BY <2>1, <2>3, <2>4, <3>3, <3>4, <3>5 DEF Abstracto!Conceder, AsignadoAbs, PedidoAbs
    <3> QED
      BY <3>6 DEF Abstracto!Next
  <2>6. CASE SolicitarCompactacion(t)
    <3>1. /\ tabla' = tabla /\ vivos' = vivos
          /\ pedido' = [op |-> "REALIZAR_COMPACTACION", pid |-> p, id |-> pedido.id, tamanio |-> t]
          /\ pedido = [op |-> "CREAR_SEGMENTO", pid |-> p, id |-> pedido.id, tamanio |-> t]
      <4>1. /\ \A op : [pedido EXCEPT !.op = op] =
                  [op |-> op, pid |-> p, id |-> pedido.id, tamanio |-> t]
        BY <1>1, <2>1, PedidoEs
      <4>2. pedido = [pedido EXCEPT !.op = "CREAR_SEGMENTO"]
        <5>1. pedido \in Pedidos
          BY <1>1, <2>1 DEF PedidoBien
        <5>2. pedido \in [op : {"CREAR_SEGMENTO", "REALIZAR_COMPACTACION"},
                          pid : 1..MaxProcesos, id : Ids, tamanio : Tamanios]
          BY <2>1, <5>1 DEF Pedidos
        <5> QED
          BY <2>1, <5>2
      <4> QED
        BY <2>6, <4>1, <4>2 DEF SolicitarCompactacion
    <3>2. pedido' \in Pedidos
      BY <1>5, <2>2, <3>1 DEF Pedidos
    <3>3. PedidoAbs' = [pedido' EXCEPT !.op = "CREAR_SEGMENTO"]
      <4>1. pedido' # Nada /\ pedido'.op = "REALIZAR_COMPACTACION"
        BY <3>1, <3>2 DEF NadaAparte
      <4> QED
        BY <4>1 DEF PedidoAbs, Atiende
    <3>4. PedidoAbs' = PedidoAbs
      BY <2>3, <3>1, <3>3
    <3> QED
      BY <1>4, <1>9, <3>1, <3>4
  <2>7. CASE IndiceSinIniciar(t)
    <3>1. tabla' = tabla /\ pedido' = pedido /\ vivos' = vivos
      BY <2>7 DEF IndiceSinIniciar
    <3>2. PedidoAbs' = PedidoAbs
      BY <3>1 DEF PedidoAbs, Atiende
    <3> QED
      BY <1>4, <1>9, <3>1, <3>2
  <2>8. CASE SinMemoria(p, t)
    <3>1. /\ tabla' = tabla /\ pedido' = [op |-> "FINALIZAR", pid |-> p] /\ vivos' = vivos \ {p}
          /\ ~(t <= SumaHuecos(huecos))
      BY <2>8 DEF SinMemoria, HayEspacio
    <3>2. PedidoAbs' = [op |-> "FINALIZAR", pid |-> p] /\ AsignadoAbs' = AsignadoAbs
      BY <1>4, <1>8, <3>1
    <3>3. t > SumaHuecos(huecos)
      <4>1. t \in Nat
        BY <2>2, SupuestosMemoria
      <4>2. SumaHuecos(huecos) \in Int
        <5>1. Cardinality(Usados) \in Nat
          BY UsadosFinitos, FS_CardinalityType
        <5>2. SumaHuecos(huecos) = TamMemoria - TamSegmento0 - Cardinality(Usados)
          BY <1>1, SumaHuecosEs
        <5> QED
          BY <5>1, <5>2, SupuestosMemoria
      <4> QED
        BY <3>1, <4>1, <4>2
    <3>4. Abstracto!Negar
      BY <2>1, <2>3, <2>4, <3>1, <3>2, <3>3 DEF Abstracto!Negar, AsignadoAbs, PedidoAbs
    <3> QED
      BY <3>4 DEF Abstracto!Next
  <2> QED
    BY <1>13, <2>5, <2>6, <2>7, <2>8 DEF CrearSegmento
<1>14. CASE EliminarSegmento
  <2> DEFINE p == pedido.pid
  <2>1. /\ Atiende("ELIMINAR_SEGMENTO") /\ pedido # Nada /\ pedido.op = "ELIMINAR_SEGMENTO"
        /\ pedido' = Nada /\ vivos' = vivos
    BY <1>14 DEF EliminarSegmento, Atiende
  <2>2. p \in DOMAIN tabla
    BY <1>1, <2>1, PedidoEs
  <2>3. PICK k : /\ ListaBien(k) /\ tabla' = Con(tabla, p, k)
                 /\ QuitaDe(tabla[p], pedido.id, k)
    BY <1>14, EliminarTablas
  <2>4. Asignados(tabla') = {e \in Asignados(tabla) : <<e.pid, e.id>> # <<p, pedido.id>>}
    BY <1>3, <2>2, <2>3, AsignadosQuita
  <2>5. AsignadoAbs' = {e \in AsignadoAbs : <<e.pid, e.id>> # <<p, pedido.id>>}
    BY <1>4, <2>4
  <2>6. PedidoAbs = pedido /\ PedidoAbs' = Nada
    BY <1>7, <1>8, <2>1 DEF Atiende
  <2>7. Abstracto!Liberar
    BY <2>1, <2>5, <2>6 DEF Abstracto!Liberar, AsignadoAbs, PedidoAbs
  <2> QED
    BY <2>7 DEF Abstracto!Next
<1>15. CASE EliminarProceso
  <2> DEFINE p == pedido.pid
  <2>1. /\ Atiende("FINALIZAR") /\ pedido # Nada /\ pedido.op = "FINALIZAR"
        /\ pedido' = Nada /\ vivos' = vivos
    BY <1>15 DEF EliminarProceso, Atiende
  <2>2. p \in DOMAIN tabla
    BY <1>1, <2>1, PedidoEs
  <2>3. PICK k : /\ ListaBien(k) /\ tabla' = Con(tabla, p, k) /\ Recortada(k, tabla[p], 1)
    BY <1>15, EliminarProcesoTablas
  <2>4. Asignados(tabla') = {e \in Asignados(tabla) : e.pid # p}
    BY <1>3, <2>2, <2>3, AsignadosSin
  <2>5. AsignadoAbs' = {e \in AsignadoAbs : e.pid # p}
    BY <1>4, <2>4
  <2>6. PedidoAbs = pedido /\ PedidoAbs' = Nada
    BY <1>7, <1>8, <2>1 DEF Atiende
  <2>7. Abstracto!LiberarTodo
    BY <2>1, <2>5, <2>6 DEF Abstracto!LiberarTodo, AsignadoAbs, PedidoAbs
  <2> QED
    BY <2>7 DEF Abstracto!Next
<1>16. CASE Compactar
  <2>1. /\ Atiende("REALIZAR_COMPACTACION") /\ tabla' = TablaCompacta /\ vivos' = vivos
        /\ pedido' = [pedido EXCEPT !.op = "CREAR_SEGMENTO"]
    BY <1>16 DEF Compactar
  <2>2. AsignadoAbs' = AsignadoAbs
    BY <1>1, <1>4, <2>1, AsignadosCompacta
  <2>3. PedidoAbs = pedido'
    BY <2>1 DEF PedidoAbs
  <2>4. pedido'.op = "CREAR_SEGMENTO"
    BY <1>1, <2>1, PedidoEs
  <2>5. PedidoAbs' = PedidoAbs
    BY <1>8, <2>3, <2>4
  <2> QED
    BY <1>9, <2>1, <2>2, <2>5
<1> QED
  BY <1>10, <1>11, <1>12, <1>13, <1>14, <1>15, <1>16 DEF Next, AtenderModulos

\* The allocator implements Asignador (memoria.c crear_segmento,
\* eliminar_segmento, eliminar_proceso): whatever the fragmentation, a creation
\* is refused exactly when the free bytes are too few, and a deletion or an
\* ending releases the segments it names and no other.
THEOREM ImplementaAsignadorCorrecto ==
    ASSUME TamSegmento0 > 0, NadaAparte
    PROVE  Spec => ImplementaAsignador
<1>1. Init => Abstracto!Init
  BY InicioAbstracto
<1>2. Invariante /\ [Next]_vars => [Abstracto!Next]_(Abstracto!vars)
  BY PasoAbstracto
<1> QED
  BY <1>1, <1>2, EsInvariante, PTL DEF Spec, ImplementaAsignador, Abstracto!Spec
=============================================================================
