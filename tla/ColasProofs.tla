---------------------------- MODULE ColasProofs ----------------------------
(***************************************************************************)
(* Lemmas about sequences used as queues, about the least and the greatest *)
(* of a set of numbers, and about the sums of the community modules, that  *)
(* the proofs about the kernel, the memory and the file system share.      *)
(*                                                                         *)
(* SumFunctionOnSet is a fold: a recursive function that takes a set apart *)
(* by CHOOSE. Induction over it needs the predicate as a set               *)
(* (InduccionNat), for the theorems of the library take it as an operator. *)
(***************************************************************************)
EXTENDS Integers, Sequences, FiniteSets, Functions, SequencesExt, FiniteSetTheorems,
    WellFoundedInduction, TLAPS

-----------------------------------------------------------------------------
(* Queues. *)

\* Appending a process that is not in the queue.
LEMMA Anexar ==
    ASSUME NEW S, NEW s \in Seq(S), NEW p \in S
    PROVE  /\ ToSet(Append(s, p)) = ToSet(s) \cup {p}
           /\ IsInjective(s) /\ p \notin ToSet(s) => IsInjective(Append(s, p))
<1> DEFINE t == Append(s, p)
<1>1. /\ DOMAIN t = DOMAIN s \cup {Len(s) + 1} /\ t[Len(s) + 1] = p
      /\ \A i \in DOMAIN s : t[i] = s[i]
  OBVIOUS
<1> HIDE DEF t
<1>2. ToSet(t) = ToSet(s) \cup {p}
  BY <1>1 DEF ToSet
<1>3. IsInjective(s) /\ p \notin ToSet(s) => IsInjective(t)
  BY <1>1 DEF IsInjective, ToSet
<1> QED
  BY <1>2, <1>3 DEF t

\* Taking the first process out.
LEMMA SacarPrimero ==
    ASSUME NEW S, NEW s \in Seq(S), s # <<>>, IsInjective(s)
    PROVE  /\ Head(s) \in ToSet(s) /\ Head(s) \in S
           /\ ToSet(Tail(s)) = ToSet(s) \ {Head(s)} /\ IsInjective(Tail(s))
<1> DEFINE t == Tail(s)
<1>1. 1 \in DOMAIN s /\ Head(s) = s[1] /\ s[1] \in S
  OBVIOUS
<1>2. \A i \in DOMAIN t : i \in Nat /\ i + 1 \in DOMAIN s /\ i + 1 # 1 /\ t[i] = s[i + 1]
  OBVIOUS
<1>3. \A i \in DOMAIN s : i \in Nat /\ (i # 1 => i - 1 \in DOMAIN t /\ t[i - 1] = s[i])
  OBVIOUS
<1> HIDE DEF t
<1>4. ToSet(t) \subseteq ToSet(s) \ {Head(s)}
  BY <1>1, <1>2 DEF ToSet, IsInjective
<1>5. ToSet(s) \ {Head(s)} \subseteq ToSet(t)
  BY <1>1, <1>3 DEF ToSet
<1>6. IsInjective(t)
  <2> SUFFICES ASSUME NEW i \in DOMAIN t, NEW j \in DOMAIN t, t[i] = t[j] PROVE i = j
    BY DEF IsInjective
  <2>1. i + 1 = j + 1
    BY <1>2 DEF IsInjective
  <2> QED
    BY <1>2, <2>1
<1> QED
  BY <1>1, <1>4, <1>5, <1>6 DEF t, ToSet

LEMMA Concatenar ==
    ASSUME NEW S, NEW x \in Seq(S), NEW y \in Seq(S)
    PROVE  /\ Len(x) \in Nat /\ Len(y) \in Nat /\ DOMAIN (x \o y) = 1..(Len(x) + Len(y))
           /\ x \o y \in Seq(S)
           /\ \A j \in 1..(Len(x) + Len(y)) :
                 (x \o y)[j] = IF j <= Len(x) THEN x[j] ELSE y[j - Len(x)]
  OBVIOUS

\* The elements that are left when one is taken out.
LEMMA SinUno ==
    ASSUME NEW S, NEW s \in Seq(S), NEW i \in DOMAIN s
    PROVE  /\ RemoveAt(s, i) \in Seq(S) /\ DOMAIN RemoveAt(s, i) = 1..(Len(s) - 1)
           /\ \A j \in 1..(Len(s) - 1) : RemoveAt(s, i)[j] = s[IF j < i THEN j ELSE j + 1]
<1> DEFINE t == RemoveAt(s, i)
           x == SubSeq(s, 1, i - 1)
           y == SubSeq(s, i + 1, Len(s))
<1>1. i \in 1..Len(s) /\ Len(s) \in Nat /\ DOMAIN s = 1..Len(s)
  OBVIOUS
<1>2. x \in Seq(S) /\ Len(x) = i - 1 /\ \A j \in 1..(i - 1) : x[j] = s[j]
  BY <1>1
<1>3. /\ y \in Seq(S) /\ Len(y) = Len(s) - i
      /\ \A j \in 1..(Len(s) - i) : y[j] = s[i + j]
  BY <1>1
<1>4. t = x \o y
  BY DEF RemoveAt
<1> HIDE DEF t, x, y
<1>5. /\ t \in Seq(S) /\ DOMAIN t = 1..(Len(x) + Len(y))
      /\ \A j \in 1..(Len(x) + Len(y)) : t[j] = IF j <= Len(x) THEN x[j] ELSE y[j - Len(x)]
  BY <1>2, <1>3, <1>4, Concatenar
<1>6. Len(x) + Len(y) = Len(s) - 1
  BY <1>1, <1>2, <1>3
<1>7. ASSUME NEW j \in 1..(Len(s) - 1) PROVE t[j] = s[IF j < i THEN j ELSE j + 1]
  <2>1. CASE j < i
    BY <1>1, <1>2, <1>5, <1>6, <2>1
  <2>2. CASE ~(j < i)
    <3>1. t[j] = y[j - (i - 1)] /\ j - (i - 1) \in 1..(Len(s) - i)
      BY <1>1, <1>2, <1>5, <1>6, <2>2
    <3>2. i + (j - (i - 1)) = j + 1
      BY <1>1
    <3> QED
      BY <1>3, <2>2, <3>1, <3>2
  <2> QED
    BY <2>1, <2>2
<1> QED
  BY <1>5, <1>6, <1>7 DEF t

\* Taking any process out, as the HRRN dispatch does.
LEMMA SacarUno ==
    ASSUME NEW S, NEW s \in Seq(S), NEW i \in DOMAIN s, IsInjective(s)
    PROVE  /\ s[i] \in ToSet(s) /\ s[i] \in S
           /\ ToSet(RemoveAt(s, i)) = ToSet(s) \ {s[i]} /\ IsInjective(RemoveAt(s, i))
<1> DEFINE t == RemoveAt(s, i)
<1>1. i \in 1..Len(s) /\ Len(s) \in Nat /\ DOMAIN s = 1..Len(s)
  OBVIOUS
<1>2. DOMAIN t = 1..(Len(s) - 1)
  BY SinUno
<1>3. ASSUME NEW j \in DOMAIN t PROVE t[j] = IF j < i THEN s[j] ELSE s[j + 1]
  BY <1>1, <1>2, SinUno
<1> HIDE DEF t
<1>4. ToSet(t) \subseteq ToSet(s) \ {s[i]}
  <2> SUFFICES ASSUME NEW j \in DOMAIN t PROVE t[j] \in ToSet(s) /\ t[j] # s[i]
    BY DEF ToSet
  <2>1. PICK k \in DOMAIN s : k # i /\ t[j] = s[k]
    BY <1>1, <1>2, <1>3
  <2> QED
    BY <2>1 DEF ToSet, IsInjective
<1>5. ToSet(s) \ {s[i]} \subseteq ToSet(t)
  <2> SUFFICES ASSUME NEW k \in DOMAIN s, k # i PROVE \E j \in DOMAIN t : t[j] = s[k]
    BY DEF ToSet
  <2>1. CASE k < i
    BY <1>1, <1>2, <1>3, <2>1
  <2>2. CASE k > i
    <3>1. k - 1 \in DOMAIN t /\ ~(k - 1 < i) /\ (k - 1) + 1 = k
      BY <1>1, <1>2, <2>2
    <3> QED
      BY <1>3, <3>1
  <2> QED
    BY <1>1, <2>1, <2>2
<1>6. IsInjective(t)
  <2> SUFFICES ASSUME NEW j \in DOMAIN t, NEW k \in DOMAIN t, t[j] = t[k] PROVE j = k
    BY DEF IsInjective
  <2> DEFINE a == IF j < i THEN j ELSE j + 1
             b == IF k < i THEN k ELSE k + 1
  <2>1. a \in DOMAIN s /\ b \in DOMAIN s /\ s[a] = s[b]
    BY <1>1, <1>2, <1>3
  <2>2. a = b
    BY <2>1 DEF IsInjective
  <2>3. j \in Int /\ k \in Int /\ i \in Int
    BY <1>1, <1>2
  <2> QED
    BY <2>2, <2>3
<1>7. s[i] \in ToSet(s) /\ s[i] \in S
  BY DEF ToSet
<1> QED
  BY <1>4, <1>5, <1>6, <1>7 DEF t

-----------------------------------------------------------------------------
(* The greatest and the least number of a set. *)

LEMMA MayorEs ==
    ASSUME NEW S \in SUBSET Int, NEW n \in S, \A y \in S : n >= y
    PROVE  Max(S) = n
<1> DEFINE m == Max(S)
<1>1. m \in S /\ \A y \in S : m >= y
  BY DEF Max
<1> HIDE DEF m
<1>2. m >= n /\ n >= m /\ m \in Int /\ n \in Int
  BY <1>1
<1>3. m = n
  BY <1>2
<1> QED
  BY <1>3 DEF m

LEMMA MayorExiste ==
    ASSUME NEW n \in Nat, NEW S \in SUBSET (0..n), S # {}
    PROVE  Max(S) \in S /\ \A y \in S : Max(S) >= y
<1> DEFINE T == {n - x : x \in S}
<1>1. T \subseteq Nat /\ T # {}
  <2>1. \A x \in S : n - x \in Nat
    OBVIOUS
  <2> QED
    BY <2>1
<1>2. PICK x \in T : \A y \in T : ~(<<y, x>> \in OpToRel(<, Nat))
  <2> HIDE DEF T
  <2> QED
    BY <1>1, NatLessThanWellFounded, WFMin
<1>3. \A y \in T : ~(y < x)
  <2> HIDE DEF T
  <2> QED
    BY <1>1, <1>2 DEF OpToRel
<1>4. PICK m \in S : x = n - m
  OBVIOUS
<1>5. \A y \in S : m >= y
  <2> SUFFICES ASSUME NEW y \in S PROVE m >= y
    OBVIOUS
  <2>1. ~(n - y < n - m)
    BY <1>3, <1>4
  <2> QED
    BY <2>1
<1> QED
  BY <1>5 DEF Max

LEMMA MenorExiste ==
    ASSUME NEW S \in SUBSET Nat, S # {}
    PROVE  Min(S) \in S /\ \A y \in S : Min(S) <= y
<1>1. PICK x \in S : \A y \in S : ~(<<y, x>> \in OpToRel(<, Nat))
  BY NatLessThanWellFounded, WFMin
<1>2. S \subseteq Nat
  OBVIOUS
<1>3. \A y \in S : ~(y < x)
  BY <1>1, <1>2 DEF OpToRel
<1>4. \A y \in S : x =< y
  BY <1>2, <1>3
<1>5. Min(S) \in S /\ \A y \in S : Min(S) =< y
  BY <1>4, Zenon DEF Min
<1> QED
  BY <1>5

-----------------------------------------------------------------------------
(* Sums. *)

\* Induction, with a set for the predicate.
LEMMA InduccionNat ==
    ASSUME NEW S \in SUBSET Nat, 0 \in S, \A n \in S : n + 1 \in S
    PROVE  S = Nat
<1> SUFFICES ASSUME S # Nat PROVE FALSE
  OBVIOUS
<1> DEFINE T == Nat \ S
<1>1. PICK x \in T : \A y \in T : ~(<<y, x>> \in OpToRel(<, Nat))
  BY NatLessThanWellFounded, WFMin
<1>2. \A y \in T : ~(y < x)
  BY <1>1 DEF OpToRel
<1>3. x \in Nat /\ x # 0 /\ x - 1 \in Nat
  OBVIOUS
<1>4. x - 1 \in S
  BY <1>2, <1>3
<1>5. (x - 1) + 1 \in S
  BY <1>4
<1> QED
  BY <1>3, <1>5

Elige(s) == CHOOSE x \in s : TRUE

\* g adds up f over each subset of S, as the fold does.
Suma(g, f, S) ==
    g = [s \in SUBSET S |-> IF s = {} THEN 0 ELSE f[Elige(s)] + g[s \ {Elige(s)}]]

LEMMA SumaDesplegada ==
    ASSUME NEW f, NEW S
    PROVE  SumFunctionOnSet(f, S) = (CHOOSE g : Suma(g, f, S))[S]
BY DEF SumFunctionOnSet, FoldFunctionOnSet, MapThenFoldSet, Suma, Elige

LEMMA EligeUno == \A s : s # {} => Elige(s) \in s
BY DEF Elige

\* The choice of an element out of a finite set.
LEMMA SinElegido ==
    ASSUME NEW S, IsFiniteSet(S), NEW s \in SUBSET S, s # {}
    PROVE  /\ Elige(s) \in s /\ s \ {Elige(s)} \in SUBSET S
           /\ IsFiniteSet(s) /\ Cardinality(s) \in Nat /\ Cardinality(s) # 0
           /\ Cardinality(s \ {Elige(s)}) = Cardinality(s) - 1
<1>1. IsFiniteSet(s)
  BY FS_Subset
<1>2. Elige(s) \in s
  BY EligeUno
<1> QED
  BY <1>1, <1>2, FS_RemoveElement, FS_CardinalityType, FS_EmptySet

\* The recursive definition of the fold defines a function.
LEMMA SumaExiste ==
    ASSUME NEW f, NEW S, IsFiniteSet(S)
    PROVE  \E g : Suma(g, f, S)
<1> DEFINE D(n) == {s \in SUBSET S : Cardinality(s) <= n}
           Parcial(g, n) == g = [s \in D(n) |->
                IF s = {} THEN 0 ELSE f[Elige(s)] + g[s \ {Elige(s)}]]
           P == {n \in Nat : \E g : Parcial(g, n)}
<1>1. 0 \in P
  <2> DEFINE g == [s \in D(0) |-> 0]
  <2>1. ASSUME NEW s \in D(0) PROVE s = {}
    <3> SUFFICES ASSUME s # {} PROVE FALSE
      OBVIOUS
    <3>1. Cardinality(s) \in Nat /\ Cardinality(s) # 0 /\ Cardinality(s) <= 0
      BY SinElegido
    <3> QED
      BY <3>1
  <2>2. g = [s \in D(0) |-> IF s = {} THEN 0 ELSE f[Elige(s)] + g[s \ {Elige(s)}]]
    BY <2>1
  <2> QED
    BY <2>2
<1>2. ASSUME NEW n \in P PROVE n + 1 \in P
  <2>1. PICK g : Parcial(g, n)
    OBVIOUS
  <2> DEFINE h == [s \in D(n + 1) |-> IF s = {} THEN 0 ELSE f[Elige(s)] + g[s \ {Elige(s)}]]
  <2>2. ASSUME NEW s \in D(n + 1), s # {} PROVE h[s \ {Elige(s)}] = g[s \ {Elige(s)}]
    <3> DEFINE t == s \ {Elige(s)}
    <3>1. /\ t \in SUBSET S /\ Cardinality(s) \in Nat /\ Cardinality(t) = Cardinality(s) - 1
          /\ n \in Nat /\ Cardinality(s) <= n + 1
      BY <2>2, SinElegido
    <3>2. Cardinality(t) <= n /\ Cardinality(t) <= n + 1
      BY <3>1
    <3>3. t \in D(n) /\ t \in D(n + 1)
      BY <3>1, <3>2
    <3> QED
      BY <2>1, <3>3
  <2>3. h = [s \in D(n + 1) |-> IF s = {} THEN 0 ELSE f[Elige(s)] + h[s \ {Elige(s)}]]
    BY <2>2, Zenon
  <2>4. Parcial(h, n + 1)
    BY <2>3
  <2>5. n \in Nat /\ \E x : Parcial(x, n + 1)
    BY <2>4
  <2>6. n + 1 \in Nat
    BY <2>5
  <2> HIDE DEF Parcial
  <2> QED
    BY <2>5, <2>6
<1>3. Cardinality(S) \in P
  <2>1. P = Nat
    <3> HIDE DEF P
    <3>1. P \in SUBSET Nat
      BY DEF P
    <3> QED
      BY <1>1, <1>2, <3>1, InduccionNat
  <2> QED
    BY <2>1, FS_CardinalityType
<1>4. D(Cardinality(S)) = SUBSET S
  BY FS_Subset
<1>5. PICK g : Parcial(g, Cardinality(S))
  BY <1>3
<1>6. Suma(g, f, S)
  BY <1>4, <1>5 DEF Suma
<1> QED
  BY <1>6

\* The sums over a set and over a part of it agree.
LEMMA SumaUnica ==
    ASSUME NEW f, NEW S, IsFiniteSet(S), NEW T \in SUBSET S,
           NEW g, Suma(g, f, S), NEW h, Suma(h, f, T)
    PROVE  \A s \in SUBSET T : g[s] = h[s]
<1> DEFINE P == {n \in Nat : \A s \in SUBSET T : Cardinality(s) = n => g[s] = h[s]}
<1>0. IsFiniteSet(T) /\ SUBSET T \subseteq SUBSET S
  BY FS_Subset
<1>1. \A s \in SUBSET T : s # {} =>
        g[s] = f[Elige(s)] + g[s \ {Elige(s)}] /\ h[s] = f[Elige(s)] + h[s \ {Elige(s)}]
  BY <1>0, Zenon DEF Suma
<1>2. g[{}] = 0 /\ h[{}] = 0
  BY Zenon DEF Suma
<1>3. 0 \in P
  <2>1. ASSUME NEW s \in SUBSET T, Cardinality(s) = 0 PROVE s = {}
    BY <1>0, <2>1, SinElegido
  <2> QED
    BY <1>2, <2>1
<1>4. ASSUME NEW n \in P PROVE n + 1 \in P
  <2>1. n \in Nat
    OBVIOUS
  <2>2. ASSUME NEW s \in SUBSET T, Cardinality(s) = n + 1 PROVE g[s] = h[s]
    <3> DEFINE t == s \ {Elige(s)}
    <3>0. s # {}
      <4> HIDE DEF P
      <4>1. Cardinality({}) = 0
        BY FS_EmptySet
      <4> QED
        BY <2>1, <2>2, <4>1
    <3>1. t \in SUBSET T /\ Cardinality(t) = Cardinality(s) - 1
      BY <1>0, <3>0, SinElegido
    <3>2. Cardinality(t) = n
      BY <2>1, <2>2, <3>1
    <3>3. g[t] = h[t]
      BY <3>1, <3>2
    <3> QED
      BY <1>1, <3>0, <3>3
  <2> QED
    BY <2>1, <2>2
<1>5. P = Nat
  <2> HIDE DEF P
  <2>1. P \in SUBSET Nat
    BY DEF P
  <2> QED
    BY <1>3, <1>4, <2>1, InduccionNat
<1> SUFFICES ASSUME NEW s \in SUBSET T PROVE g[s] = h[s]
  OBVIOUS
<1>6. IsFiniteSet(s) /\ Cardinality(s) \in Nat
  BY <1>0, FS_Subset, FS_CardinalityType
<1>7. Cardinality(s) \in P
  BY <1>5, <1>6
<1> QED
  BY <1>7

\* One element out of a sum, the one that the fold chooses.
LEMMA SumaSinElegido ==
    ASSUME NEW f, NEW S, IsFiniteSet(S)
    PROVE  /\ S = {} => SumFunctionOnSet(f, S) = 0
           /\ S # {} => SumFunctionOnSet(f, S) =
                            f[Elige(S)] + SumFunctionOnSet(f, S \ {Elige(S)})
<1> DEFINE g == CHOOSE x : Suma(x, f, S)
           T == S \ {Elige(S)}
           h == CHOOSE x : Suma(x, f, T)
<1>1. Suma(g, f, S)
  BY SumaExiste
<1>2. IsFiniteSet(T) /\ T \in SUBSET S
  BY FS_Subset
<1>3. Suma(h, f, T)
  BY <1>2, SumaExiste
<1> HIDE DEF g, h, T
<1>4. g[T] = h[T]
  BY <1>1, <1>2, <1>3, SumaUnica
<1>5. SumFunctionOnSet(f, S) = g[S] /\ SumFunctionOnSet(f, T) = h[T]
  BY SumaDesplegada DEF g, h
<1>6. g[S] = IF S = {} THEN 0 ELSE f[Elige(S)] + g[S \ {Elige(S)}]
  BY <1>1, Zenon DEF Suma
<1> QED
  BY <1>4, <1>5, <1>6 DEF T

\* f counts the elements of each box, and no element is in two.
Cajas(D, f, B) ==
    /\ IsFiniteSet(D)
    /\ \A x \in D : IsFiniteSet(B[x]) /\ f[x] = Cardinality(B[x])
    /\ \A x, y \in D : x # y => B[x] \cap B[y] = {}

EnCajas(B, S) == UNION {B[x] : x \in S}

\* The sum of the sizes of disjoint sets is the size of their union.
LEMMA SumaDeCajas ==
    ASSUME NEW D, NEW f, NEW B, Cajas(D, f, B), NEW S0 \in SUBSET D
    PROVE  /\ IsFiniteSet(EnCajas(B, S0))
           /\ SumFunctionOnSet(f, S0) = Cardinality(EnCajas(B, S0))
<1>a. /\ IsFiniteSet(D)
      /\ \A x \in D : IsFiniteSet(B[x]) /\ f[x] = Cardinality(B[x])
      /\ \A x, y \in D : x # y => B[x] \cap B[y] = {}
  BY DEF Cajas
<1> DEFINE U(S) == UNION {B[x] : x \in S}
           Q(S) == IsFiniteSet(U(S)) /\ SumFunctionOnSet(f, S) = Cardinality(U(S))
           P == {n \in Nat : \A S \in SUBSET D : Cardinality(S) = n => Q(S)}
<1>0. Q({})
  <2>1. U({}) = {}
    OBVIOUS
  <2> QED
    BY <2>1, SumaSinElegido, FS_EmptySet
<1>1. ASSUME NEW S \in SUBSET D, Cardinality(S) = 0 PROVE S = {}
  BY <1>a, <1>1, SinElegido
<1>2. 0 \in P
  <2> HIDE DEF Q
  <2> QED
    BY <1>0, <1>1
<1>3. ASSUME NEW n \in P PROVE n + 1 \in P
  <2>1. n \in Nat
    OBVIOUS
  <2>2. ASSUME NEW S \in SUBSET D, Cardinality(S) = n + 1 PROVE Q(S)
    <3> DEFINE e == Elige(S)
               T == S \ {e}
    <3>0. S # {}
      <4> HIDE DEF P, Q
      <4>1. Cardinality({}) = 0
        BY FS_EmptySet
      <4> QED
        BY <2>1, <2>2, <4>1
    <3>1. e \in S /\ T \in SUBSET D /\ IsFiniteSet(S) /\ Cardinality(T) = Cardinality(S) - 1
      BY <1>a, <3>0, SinElegido
    <3>2. Cardinality(T) = n
      <4> HIDE DEF T
      <4> QED
        BY <2>1, <2>2, <3>1
    <3>3. Q(T)
      BY <3>1, <3>2
    <3>4. SumFunctionOnSet(f, S) = f[e] + SumFunctionOnSet(f, T)
      BY <3>0, <3>1, SumaSinElegido
    <3>5. U(S) = B[e] \cup U(T) /\ B[e] \cap U(T) = {}
      BY <1>a, <3>1
    <3>6. IsFiniteSet(B[e]) /\ f[e] = Cardinality(B[e])
      BY <1>a, <3>1
    <3> HIDE DEF e, T, U
    <3>7. /\ IsFiniteSet(U(S)) /\ Cardinality(B[e] \cap U(T)) = 0
          /\ Cardinality(U(S)) = Cardinality(B[e]) + Cardinality(U(T)) - Cardinality(B[e] \cap U(T))
      BY <3>3, <3>5, <3>6, FS_Union, FS_EmptySet
    <3>8. Cardinality(B[e]) \in Nat /\ Cardinality(U(T)) \in Nat
      BY <3>3, <3>6, FS_CardinalityType
    <3> QED
      BY <3>3, <3>4, <3>6, <3>7, <3>8
  <2> HIDE DEF Q
  <2> QED
    BY <2>1, <2>2
<1>4. P = Nat
  <2> HIDE DEF P
  <2>1. P \in SUBSET Nat
    BY DEF P
  <2> QED
    BY <1>2, <1>3, <2>1, InduccionNat
<1>5. Cardinality(S0) \in Nat
  BY <1>a, FS_Subset, FS_CardinalityType
<1>6. Q(S0)
  <2> HIDE DEF Q
  <2> QED
    BY <1>4, <1>5
<1> QED
  BY <1>6 DEF EnCajas
=============================================================================
