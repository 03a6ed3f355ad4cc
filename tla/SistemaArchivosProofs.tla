----------------------- MODULE SistemaArchivosProofs -----------------------
(***************************************************************************)
(* Proofs about SistemaArchivos: its types, the FCB that searches find,    *)
(* and the pieces of an access.                                            *)
(*                                                                         *)
(* Base is inductive for every request, those that the code does not       *)
(* support included. TramosExactos follows from the types in any state; it *)
(* is the arithmetic of the lists of blocks and of offsets.                *)
(***************************************************************************)
EXTENDS SistemaArchivos, ColasProofs, FiniteSetTheorems, TLAPS

-----------------------------------------------------------------------------
(* Division, and sequences that are laid one after the other. *)

LEMMA Cociente ==
    ASSUME NEW a \in Int, NEW b \in Nat \ {0}
    PROVE  /\ a \div b \in Int /\ a % b \in 0..b - 1 /\ a = b * (a \div b) + (a % b)
           /\ (a >= 0 => a \div b \in Nat)
<1>1. a \div b \in Int /\ a % b \in 0..b - 1 
  OBVIOUS
<1>2. a = b * (a \div b) + (a % b)
  OBVIOUS
<1>3. a >= 0 => a \div b >= 0
  OBVIOUS
<1> QED
  BY <1>1, <1>2, <1>3

LEMMA CocienteEs ==
    ASSUME NEW a \in Int, NEW b \in Nat \ {0}, NEW q \in Int, b * q <= a, a < b * q + b
    PROVE  a \div b = q /\ a % b = a - b * q
  OBVIOUS

LEMMA SecuenciaDe ==
    ASSUME NEW S, NEW n \in Nat, NEW x, x = [k \in 1..n |-> x[k]], \A k \in 1..n : x[k] \in S
    PROVE  x \in Seq(S) /\ Len(x) = n
  OBVIOUS

Aplana(s, f, n) == f = [i \in 1..n |-> IF i = 1 THEN s[i] ELSE f[i - 1] \o s[i]]

LEMMA AplanaExiste ==
    ASSUME NEW s, NEW n \in Nat \ {0}
    PROVE  \E f : Aplana(s, f, n)
<1> DEFINE N == {m \in Nat \ {0} : ~\E f : Aplana(s, f, m)}
<1> SUFFICES ASSUME N # {} PROVE FALSE
  OBVIOUS
<1> DEFINE m == Min(N)
<1>1. m \in N /\ \A y \in N : m <= y
  BY MenorExiste
<1> HIDE DEF m
<1>2. CASE m = 1
  <2> DEFINE f == [i \in 1..1 |-> s[i]]
  <2>1. Aplana(s, f, 1)
    BY DEF Aplana
  <2> QED
    BY <1>1, <1>2, <2>1
<1>3. CASE m # 1
  <2>1. m \in Nat \ {0} /\ m - 1 \in Nat \ {0} /\ m - 1 \notin N
    BY <1>1, <1>3
  <2>2. PICK g : Aplana(s, g, m - 1)
    BY <2>1
  <2> DEFINE f == [i \in 1..m |-> IF i = m THEN g[m - 1] \o s[m] ELSE g[i]]
  <2>3. ASSUME NEW i \in 1..m PROVE f[i] = IF i = 1 THEN s[i] ELSE f[i - 1] \o s[i]
    <3>1. CASE i = m
      <4>1. f[i] = g[m - 1] \o s[m]
        BY <3>1
      <4>2. m - 1 \in 1..m /\ m - 1 # m
        BY <2>1
      <4>3. f[m - 1] = g[m - 1]
        BY <4>2
      <4> QED
        BY <1>3, <3>1, <4>1, <4>3
    <3>2. CASE i # m
      <4>1. i \in 1..(m - 1) /\ i # m
        BY <2>1, <3>2
      <4>2. g[i] = IF i = 1 THEN s[i] ELSE g[i - 1] \o s[i]
        BY <2>2, <4>1 DEF Aplana
      <4>3. f[i] = g[i]
        BY <3>2
      <4>4. i # 1 => f[i - 1] = g[i - 1]
        BY <2>1, <4>1
      <4> QED
        BY <4>2, <4>3, <4>4
    <3> QED
      BY <3>1, <3>2
  <2> DEFINE h == [i \in 1..m |-> IF i = 1 THEN s[i] ELSE f[i - 1] \o s[i]]
  <2>4. f = h
    <3>1. DOMAIN f = 1..m /\ DOMAIN h = 1..m
      OBVIOUS
    <3>2. \A i \in 1..m : h[i] = IF i = 1 THEN s[i] ELSE f[i - 1] \o s[i]
      OBVIOUS
    <3>3. f = [i \in 1..m |-> f[i]] /\ h = [i \in 1..m |-> h[i]]
      OBVIOUS
    <3> QED
      BY <2>3, <3>2, <3>3
  <2>5. Aplana(s, f, m)
    BY <2>4 DEF Aplana
  <2> QED
    BY <1>1, <2>5
<1> QED
  BY <1>2, <1>3

LEMMA AplanaDe ==
    ASSUME NEW S, NEW s \in Seq(Seq(S)), s # <<>>
    PROVE  \E f : /\ FlattenSeq(s) = f[Len(s)] /\ f[1] = s[1]
                  /\ \A i \in 2..Len(s) : f[i] = f[i - 1] \o s[i]
<1>1. Len(s) \in Nat \ {0}
  OBVIOUS
<1> DEFINE g == CHOOSE f : Aplana(s, f, Len(s))
<1>2. FlattenSeq(s) = g[Len(s)]
  BY <1>1 DEF FlattenSeq, Aplana
<1>3. Aplana(s, g, Len(s))
  BY <1>1, AplanaExiste
<1> HIDE DEF g
<1>4. \A i \in 1..Len(s) : g[i] = IF i = 1 THEN s[i] ELSE g[i - 1] \o s[i]
  BY <1>3 DEF Aplana
<1>5. 1 \in 1..Len(s) /\ \A i \in 2..Len(s) : i \in 1..Len(s) /\ i # 1
  BY <1>1
<1>6. g[1] = s[1]
  BY <1>4, <1>5
<1>7. ASSUME NEW i \in 2..Len(s) PROVE g[i] = g[i - 1] \o s[i]
  BY <1>4, <1>5
<1> QED
  BY <1>2, <1>6, <1>7

LEMMA AplanaTipo ==
    ASSUME NEW S, NEW s \in Seq(Seq(S))
    PROVE  FlattenSeq(s) \in Seq(S)
<1>1. CASE s = <<>>
  BY <1>1 DEF FlattenSeq
<1>2. CASE s # <<>>
  <2>1. PICK f : /\ FlattenSeq(s) = f[Len(s)] /\ f[1] = s[1]
                 /\ \A i \in 2..Len(s) : f[i] = f[i - 1] \o s[i]
    BY <1>2, AplanaDe
  <2> DEFINE N == {n \in 1..Len(s) : f[n] \notin Seq(S)}
  <2>2. Len(s) \in Nat \ {0} /\ \A i \in 1..Len(s) : s[i] \in Seq(S)
    BY <1>2
  <2>3. ASSUME N # {} PROVE FALSE
    <3> DEFINE m == Min(N)
    <3>1. N \in SUBSET Nat
      OBVIOUS
    <3>2. m \in N /\ \A y \in N : m <= y
      BY <2>3, <3>1, MenorExiste
    <3> HIDE DEF m
    <3>3. m \in 1..Len(s) /\ m - 1 \notin N
      BY <3>2
    <3>4. m # 1
      BY <2>1, <2>2, <3>2
    <3>5. m \in 2..Len(s) /\ m - 1 \in 1..Len(s)
      BY <3>3, <3>4
    <3>6. f[m - 1] \in Seq(S) /\ s[m] \in Seq(S)
      BY <2>2, <3>3, <3>5
    <3>7. f[m - 1] \o s[m] \in Seq(S)
      BY <3>6, Concatenar
    <3> QED
      BY <2>1, <3>2, <3>5, <3>7
  <2> QED
    BY <2>1, <2>2, <2>3
<1> QED
  BY <1>1, <1>2

\* Pieces of g, each from where the one before it ended.
Sigue(s, g, fin) ==
    \A i \in 1..Len(s) :
        /\ Len(s[i]) = fin[i] - fin[i - 1]
        /\ \A j \in 1..Len(s[i]) : s[i][j] = g[fin[i - 1] + j]

LEMMA Aplanado ==
    ASSUME NEW S, NEW s \in Seq(Seq(S)), s # <<>>, NEW g,
           NEW fin \in [0..Len(s) -> Nat], fin[0] = 0, Sigue(s, g, fin)
    PROVE  FlattenSeq(s) = [j \in 1..fin[Len(s)] |-> g[j]]
<1>1. PICK f : /\ FlattenSeq(s) = f[Len(s)] /\ f[1] = s[1]
               /\ \A i \in 2..Len(s) : f[i] = f[i - 1] \o s[i]
  BY AplanaDe
<1>2. Len(s) \in Nat \ {0} /\ \A i \in 1..Len(s) : s[i] \in Seq(S)
  OBVIOUS
<1> DEFINE P(n) == [j \in 1..fin[n] |-> g[j]]
           N == {n \in 1..Len(s) : ~(f[n] \in Seq(S) /\ f[n] = P(n))}
<1>3. ASSUME NEW x \in Seq(S), NEW k \in Nat, Len(x) = k, \A j \in 1..k : x[j] = g[j]
      PROVE  x = [j \in 1..k |-> g[j]]
  BY <1>3
<1>4. ASSUME N # {} PROVE FALSE
  <2> DEFINE m == Min(N)
  <2>1. N \in SUBSET Nat
    OBVIOUS
  <2>2. m \in N /\ \A y \in N : m <= y
    BY <1>4, <2>1, MenorExiste
  <2> HIDE DEF m
  <2>3. m \in 1..Len(s) /\ m - 1 \notin N /\ m - 1 \in 0..Len(s) /\ m \in 0..Len(s)
    <3>1. m \in 1..Len(s)
      BY <2>2
    <3>2. m \in Nat /\ m - 1 \in 0..Len(s) /\ m \in 0..Len(s)
      BY <1>2, <3>1
    <3>3. m - 1 \notin N
      <4> HIDE DEF N
      <4> QED
        BY <2>2, <3>2
    <3> QED
      BY <3>1, <3>2, <3>3
  <2>4. /\ fin[m] \in Nat /\ fin[m - 1] \in Nat /\ Len(s[m]) = fin[m] - fin[m - 1]
        /\ \A j \in 1..Len(s[m]) : s[m][j] = g[fin[m - 1] + j]
    BY <2>3 DEF Sigue
  <2>5. CASE m = 1
    <3>1. f[m] = s[m] /\ s[m] \in Seq(S) /\ Len(s[m]) = fin[m] /\ fin[m - 1] = 0
      BY <1>1, <1>2, <2>3, <2>4, <2>5
    <3>2. \A j \in 1..fin[m] : s[m][j] = g[j]
      <4>1. \A j \in 1..fin[m] : s[m][j] = g[0 + j] /\ 0 + j = j
        BY <2>4, <3>1
      <4> QED
        BY <4>1
    <3>3. s[m] = P(m)
      BY <1>3, <2>4, <3>1, <3>2
    <3> QED
      BY <2>2, <3>1, <3>3
  <2>6. CASE m # 1
    <3>1. m \in 2..Len(s) /\ m - 1 \in 1..Len(s)
      BY <2>3, <2>6
    <3>2. f[m] = f[m - 1] \o s[m] /\ f[m - 1] \in Seq(S) /\ f[m - 1] = P(m - 1) /\ s[m] \in Seq(S)
      BY <1>1, <1>2, <2>3, <3>1
    <3>3. Len(f[m - 1]) = fin[m - 1] /\ \A j \in 1..fin[m - 1] : f[m - 1][j] = g[j]
      BY <2>4, <3>2
    <3>4. /\ f[m] \in Seq(S) /\ Len(f[m]) = fin[m]
          /\ \A j \in 1..fin[m] : f[m][j] =
                IF j <= fin[m - 1] THEN f[m - 1][j] ELSE s[m][j - fin[m - 1]]
      BY <2>4, <3>2, <3>3, Concatenar
    <3>5. ASSUME NEW j \in 1..fin[m] PROVE f[m][j] = g[j]
      <4>1. CASE j <= fin[m - 1]
        <5>1. j \in 1..fin[m - 1]
          BY <2>4, <4>1
        <5>2. f[m][j] = f[m - 1][j]
          BY <3>4, <4>1
        <5> QED
          BY <3>3, <5>1, <5>2
      <4>2. CASE ~(j <= fin[m - 1])
        <5>1. j - fin[m - 1] \in 1..Len(s[m]) /\ fin[m - 1] + (j - fin[m - 1]) = j
          BY <2>4, <4>2
        <5>2. f[m][j] = s[m][j - fin[m - 1]]
          BY <3>4, <4>2
        <5> QED
          BY <2>4, <5>1, <5>2
      <4> QED
        BY <4>1, <4>2
    <3>6. f[m] = P(m)
      BY <1>3, <2>4, <3>4, <3>5
    <3> QED
      BY <2>2, <3>4, <3>6
  <2> QED
    BY <2>5, <2>6
<1>5. N = {}
  BY <1>4
<1>6. Len(s) \in 1..Len(s)
  BY <1>2
<1>7. f[Len(s)] = P(Len(s))
  BY <1>5, <1>6
<1> QED
  BY <1>1, <1>7
-----------------------------------------------------------------------------
(* get_fcb: the first entry with a name. *)

Busca(s, a) == SelectInSeq(s, LAMBDA e : e.nombre = a)

LEMMA BuscaDe ==
    ASSUME NEW S, NEW s \in Seq(S), NEW a
    PROVE  /\ Busca(s, a) \in Nat
           /\ Busca(s, a) # 0 => Busca(s, a) \in DOMAIN s /\ s[Busca(s, a)].nombre = a
           /\ \A i \in DOMAIN s : s[i].nombre = a => Busca(s, a) # 0 /\ Busca(s, a) <= i
<1> DEFINE I == {i \in 1..Len(s) : s[i].nombre = a}
<1>1. Busca(s, a) = IF I # {} THEN Min(I) ELSE 0
  BY DEF Busca, SelectInSeq
<1>2. I \in SUBSET Nat /\ DOMAIN s = 1..Len(s) /\ \A i \in DOMAIN s : i # 0
  OBVIOUS
<1>3. I # {} => Min(I) \in I /\ \A y \in I : Min(I) <= y
  BY <1>2, MenorExiste
<1>4. \A i \in I : i \in DOMAIN s /\ i \in Nat /\ i # 0 /\ s[i].nombre = a
  BY <1>2
<1>5. \A i \in DOMAIN s : s[i].nombre = a => i \in I
  BY <1>2
<1> HIDE DEF I
<1> QED
  BY <1>1, <1>3, <1>4, <1>5

LEMMA BuscaEs ==
    ASSUME NEW S, NEW s \in Seq(S), NEW a, NEW i \in DOMAIN s, s[i].nombre = a,
           \A j \in DOMAIN s : s[j].nombre = a => i <= j
    PROVE  Busca(s, a) = i
<1>1. Busca(s, a) \in DOMAIN s /\ Busca(s, a) <= i /\ i <= Busca(s, a)
  BY BuscaDe
<1>2. i \in Nat /\ Busca(s, a) \in Nat
  BY BuscaDe
<1> QED
  BY <1>1, <1>2

LEMMA BuscaNada ==
    ASSUME NEW S, NEW s \in Seq(S), NEW a, \A j \in DOMAIN s : s[j].nombre # a
    PROVE  Busca(s, a) = 0
  BY BuscaDe

LEMMA BuscaIgual ==
    ASSUME NEW S, NEW s \in Seq(S), NEW t \in Seq(S), DOMAIN s = DOMAIN t,
           \A i \in DOMAIN s : t[i].nombre = s[i].nombre, NEW a
    PROVE  Busca(t, a) = Busca(s, a)
<1>1. CASE Busca(s, a) = 0
  BY <1>1, BuscaDe, BuscaNada
<1>2. CASE Busca(s, a) # 0
  <2>1. PICK i \in DOMAIN s : i = Busca(s, a) /\ s[i].nombre = a
    BY <1>2, BuscaDe
  <2>2. \A j \in DOMAIN t : t[j].nombre = a => i <= j
    BY <2>1, BuscaDe
  <2> QED
    BY <2>1, <2>2, BuscaEs
<1> QED
  BY <1>1, <1>2

LEMMA BuscaAgrega ==
    ASSUME NEW S, NEW s \in Seq(S), NEW e \in S, NEW a
    PROVE  Busca(Append(s, e), a) = IF Busca(s, a) # 0 THEN Busca(s, a)
                                    ELSE IF e.nombre = a THEN Len(s) + 1 ELSE 0
<1> DEFINE t == Append(s, e)
<1>1. /\ t \in Seq(S) /\ DOMAIN t = DOMAIN s \cup {Len(s) + 1} /\ t[Len(s) + 1] = e
      /\ \A i \in DOMAIN s : t[i] = s[i] /\ i <= Len(s) + 1 /\ i \in Nat
      /\ Len(s) + 1 \in Nat
  OBVIOUS
<1> HIDE DEF t
<1>2. CASE Busca(s, a) # 0
  <2>1. PICK i \in DOMAIN s : i = Busca(s, a) /\ s[i].nombre = a
    BY <1>2, BuscaDe
  <2>2. \A j \in DOMAIN t : t[j].nombre = a => i <= j
    BY <1>1, <2>1, BuscaDe
  <2>3. Busca(t, a) = i
    BY <1>1, <2>1, <2>2, BuscaEs
  <2> QED
    BY <1>2, <2>1, <2>3 DEF t
<1>3. CASE Busca(s, a) = 0 /\ e.nombre = a
  <2>1. \A j \in DOMAIN s : s[j].nombre # a
    BY <1>3, BuscaDe
  <2>2. \A j \in DOMAIN t : t[j].nombre = a => Len(s) + 1 <= j
    BY <1>1, <2>1
  <2>3. Busca(t, a) = Len(s) + 1
    BY <1>1, <1>3, <2>2, BuscaEs
  <2> QED
    BY <1>3, <2>3 DEF t
<1>4. CASE Busca(s, a) = 0 /\ e.nombre # a
  <2>1. \A j \in DOMAIN s : s[j].nombre # a
    BY <1>4, BuscaDe
  <2>2. Busca(t, a) = 0
    BY <1>1, <1>4, <2>1, BuscaNada
  <2> QED
    BY <1>4, <2>2 DEF t
<1> QED
  BY <1>2, <1>3, <1>4
-----------------------------------------------------------------------------
(* Types. *)

Fcbs == [tamanio : Tamanios \cup {0}, directo : Bloques \cup {-1}, indirecto : Bloques \cup {-1}]
Entradas == [nombre : Nombres, fcb : Fcbs]

\* lista_fcb names files that exist.
Conocidos == \A i \in DOMAIN lista_fcb : lista_fcb[i].nombre \in DOMAIN fisico

Base == TipoOK /\ Conocidos /\ FcbVigente

TipoLeido ==
    /\ DOMAIN fisico \subseteq Nombres
    /\ \A a \in DOMAIN fisico : fisico[a] \in Fcbs
    /\ lista_fcb \in Seq(Entradas)
    /\ bitmap \subseteq Bloques
    /\ bytes \in [0..NBloques * TamBloque - 1 -> Int]
    /\ caido \in BOOLEAN
    /\ viejos \subseteq DOMAIN fisico

LEMMA TipoDe == (TipoOK <=> TipoLeido) /\ (TipoOK' <=> TipoLeido')
<1>1. TipoOK <=> TipoLeido
  BY DEF TipoOK, TipoLeido, Fcbs, Entradas
<1> QED
  BY <1>1, PTL

LEMMA TamNat ==
    /\ TamBloque \in Nat \ {0} /\ TamPuntero \in Nat \ {0} /\ NBloques \in Nat \ {0}
    /\ Tamanios \cup {0} \subseteq Nat
    /\ 0 \in Bloques /\ Bloques \subseteq Nat
  BY SupuestosSistemaArchivos DEF Bloques

LEMMA FcbDe ==
    ASSUME NEW f \in Fcbs
    PROVE  /\ f.tamanio \in Tamanios \cup {0} /\ f.tamanio \in Nat
           /\ f.directo \in Bloques \cup {-1} /\ f.directo \in Int
           /\ f.indirecto \in Bloques \cup {-1} /\ f.indirecto \in Int
<1>1. /\ f.tamanio \in Tamanios \cup {0}
      /\ f.directo \in Bloques \cup {-1} /\ f.indirecto \in Bloques \cup {-1}
  BY DEF Fcbs
<1>2. Bloques \cup {-1} \subseteq Int
  BY TamNat
<1> QED
  BY <1>1, <1>2, TamNat

LEMMA MaxCero ==
    ASSUME NEW x \in Int
    PROVE  Max({0, x}) = IF x >= 0 THEN x ELSE 0
  BY MayorEs

LEMMA TechoTipo == ASSUME NEW t \in Int PROVE Techo(t) \in Int /\ (t >= 0 => Techo(t) \in Nat)
<1> DEFINE x == t + TamBloque - 1
<1>1. x \in Int /\ (t >= 0 => x >= 0)
  BY TamNat
<1>2. Techo(t) = x \div TamBloque
  BY DEF Techo
<1> HIDE DEF x
<1> QED
  BY <1>1, <1>2, Cociente, TamNat

LEMMA PunteroTipo ==
    ASSUME TipoOK
    PROVE  (\A c : Byte(c) \in Int) /\ \A a, k : Puntero(a, k) \in Int
  BY TipoDe DEF TipoLeido, Byte, Puntero

LEMMA IndirectosTipo ==
    ASSUME TipoOK, NEW a, NEW desde \in Int, NEW hasta \in Int
    PROVE  LeerBloquesIndirectos(a, desde, hasta) \in Seq(Int)
<1>1. Techo(Max({0, hasta - desde})) \in Nat
  BY MaxCero, TechoTipo
<1>2. ASSUME NEW n \in Nat
      PROVE  [k \in 1..n |-> Puntero(a, desde \div TamBloque - 1 + k - 1)] \in Seq(Int)
  BY PunteroTipo
<1> QED
  BY <1>1, <1>2 DEF LeerBloquesIndirectos

LEMMA ListaTotalTipo ==
    ASSUME TipoOK, NEW a \in DOMAIN fisico
    PROVE  ListaTotal(a) \in Seq(Int)
<1>1. fisico[a].directo \in Int /\ fisico[a].tamanio \in Nat
  BY TipoDe, FcbDe DEF TipoLeido
<1>2. Techo(fisico[a].tamanio) * TamBloque \in Int /\ TamBloque \in Int
  BY <1>1, TechoTipo, TamNat
<1>3. LeerBloquesIndirectos(a, TamBloque, Techo(fisico[a].tamanio) * TamBloque) \in Seq(Int)
  BY <1>2, IndirectosTipo
<1>4. /\ <<fisico[a].directo, fisico[a].directo>> \in Seq(Int)
      /\ <<fisico[a].directo>> \in Seq(Int) /\ <<>> \in Seq(Int)
  BY <1>1
<1> QED
  BY <1>3, <1>4, Concatenar DEF ListaTotal

-----------------------------------------------------------------------------
(* Free blocks. *)

\* A finite set of numbers has its k-th.
LEMMA Ordinal ==
    ASSUME NEW S \in SUBSET Nat, IsFiniteSet(S), NEW k \in 1..Cardinality(S)
    PROVE  \E b \in S : Cardinality({c \in S : c < b}) = k - 1
<1> DEFINE Bien(j) == \E b \in S : Cardinality({c \in S : c < b}) = j - 1
           N == {j \in 1..Cardinality(S) : ~Bien(j)}
<1>1. Cardinality(S) \in Nat
  BY FS_CardinalityType
<1>2. ASSUME N # {} PROVE FALSE
  <2> DEFINE m == Min(N)
  <2>1. N \in SUBSET Nat
    BY <1>1
  <2>2. m \in N /\ \A y \in N : m <= y
    BY <1>2, <2>1, MenorExiste
  <2> HIDE DEF m
  <2>3. m \in 1..Cardinality(S) /\ m \in Nat /\ m >= 1
    BY <1>1, <2>2
  <2>4. CASE m = 1
    <3>1. S # {}
      BY <2>3, FS_EmptySet
    <3> DEFINE b == Min(S)
    <3>2. b \in S /\ \A y \in S : b <= y
      BY <3>1, MenorExiste
    <3> HIDE DEF b
    <3>3. {c \in S : c < b} = {}
      <4>1. \A c \in S : c \in Nat /\ b <= c /\ b \in Nat
        BY <3>2
      <4>2. \A c \in S : ~(c < b)
        BY <4>1
      <4> QED
        BY <4>2
    <3>4. Cardinality({c \in S : c < b}) = m - 1
      BY <2>4, <3>3, FS_EmptySet
    <3> QED
      BY <2>2, <3>2, <3>4
  <2>5. CASE m # 1
    <3>1. m - 1 \in 1..Cardinality(S)
      BY <1>1, <2>3, <2>5
    <3>2. m - 1 \notin N
      <4> HIDE DEF N
      <4> QED
        BY <2>2, <2>3
    <3>3. PICK b \in S : Cardinality({c \in S : c < b}) = (m - 1) - 1
      BY <3>1, <3>2
    <3> DEFINE A == {c \in S : c < b}
               T == {c \in S : c > b}
    <3>0. b \in Nat /\ \A c \in S : c \in Nat /\ (c < b \/ c = b \/ c > b)
      OBVIOUS
    <3>4. IsFiniteSet(A) /\ b \notin A /\ A \subseteq S
      BY FS_Subset
    <3>5. Cardinality(A \cup {b}) = m - 1
      <4>1. Cardinality(A \cup {b}) = Cardinality(A) + 1
        BY <3>4, FS_AddElement
      <4> QED
        BY <2>3, <3>3, <4>1
    <3>6. T # {}
      <4> SUFFICES ASSUME T = {} PROVE FALSE
        OBVIOUS
      <4>1. S = A \cup {b}
        BY <3>0
      <4> QED
        BY <1>1, <2>3, <3>5, <4>1
    <3>7. PICK x \in T : \A y \in T : x <= y
      BY <3>6, MenorExiste
    <3>8. {c \in S : c < x} = A \cup {b}
      <4>1. x \in S /\ x > b /\ x \in Nat
        OBVIOUS
      <4>2. \A c \in S : c > b => x <= c
        BY <3>7
      <4>3. \A c \in S : c < x <=> c < b \/ c = b
        BY <3>0, <4>1, <4>2
      <4> QED
        BY <4>3
    <3>9. x \in S /\ Cardinality({c \in S : c < x}) = m - 1
      BY <3>5, <3>8
    <3> QED
      BY <2>2, <3>9
  <2> QED
    BY <2>4, <2>5
<1>3. Bien(k)
  BY <1>2
<1> QED
  BY <1>3

LEMMA LibresFinito ==
    ASSUME TipoOK
    PROVE  /\ IsFiniteSet(Libres) /\ Cardinality(Libres) \in Nat
           /\ Libres \subseteq Bloques /\ Libres \cap bitmap = {} /\ Libres \subseteq Nat
<1>1. IsFiniteSet(Bloques)
  BY TamNat, FS_Interval DEF Bloques
<1>2. Libres \subseteq Bloques /\ Libres \cap bitmap = {}
  BY DEF Libres
<1> QED
  BY <1>1, <1>2, FS_Subset, FS_CardinalityType, TamNat

\* obtener_primer_bloque_libre gives a free block each time, all different,
\* while there are.
LEMMA LibreDe ==
    ASSUME TipoOK, NEW k \in Nat \ {0}
    PROVE  /\ k <= Cardinality(Libres) =>
                /\ PrimerBloqueLibre(k) \in Libres
                /\ Cardinality({c \in Libres : c < PrimerBloqueLibre(k)}) = k - 1
           /\ ~(k <= Cardinality(Libres)) => PrimerBloqueLibre(k) = -1
<1>1. CASE k <= Cardinality(Libres)
  <2>1. k \in 1..Cardinality(Libres)
    BY <1>1, LibresFinito
  <2>2. \E b \in Libres : Cardinality({c \in Libres : c < b}) = k - 1
    BY <2>1, LibresFinito, Ordinal
  <2>3. PrimerBloqueLibre(k) = CHOOSE b \in Libres : Cardinality({c \in Libres : c < b}) = k - 1
    BY <1>1 DEF PrimerBloqueLibre
  <2> QED
    BY <1>1, <2>2, <2>3
<1>2. CASE ~(k <= Cardinality(Libres))
  BY <1>2 DEF PrimerBloqueLibre
<1> QED
  BY <1>1, <1>2

LEMMA LibreTipo ==
    ASSUME TipoOK, NEW k \in Nat \ {0}
    PROVE  PrimerBloqueLibre(k) \in Bloques \cup {-1}
  BY LibreDe, LibresFinito

-----------------------------------------------------------------------------
(* What each action does, its types, and that lista_fcb keeps up. *)

LEMMA PrimeroBusca ==
    \A a : Primero(a) = Busca(lista_fcb, a) /\ Primero(a)' = Busca(lista_fcb', a)
  BY DEF Primero, Busca, SelectInSeq

LEMMA PrimeroDe ==
    ASSUME Base, NEW a, Primero(a) # 0
    PROVE  /\ Primero(a) \in DOMAIN lista_fcb /\ lista_fcb[Primero(a)].nombre = a
           /\ lista_fcb[Primero(a)] \in Entradas
           /\ a \in DOMAIN fisico /\ fisico[a] \in Fcbs
<1>1. lista_fcb \in Seq(Entradas) /\ Primero(a) = Busca(lista_fcb, a)
  BY TipoDe, PrimeroBusca DEF TipoLeido, Base
<1>2. Primero(a) \in DOMAIN lista_fcb /\ lista_fcb[Primero(a)].nombre = a
  BY <1>1, BuscaDe
<1>3. \A i \in DOMAIN lista_fcb : lista_fcb[i] \in Entradas
  BY <1>1
<1> QED
  BY <1>2, <1>3, TipoDe DEF TipoLeido, Base, Conocidos

\* What a search finds is the FCB file.
LEMMA FcbIgual ==
    ASSUME Base, ~caido, NEW a, Primero(a) # 0
    PROVE  lista_fcb[Primero(a)].fcb = fisico[a]
  BY PrimeroDe, TipoDe DEF TipoLeido, Base, FcbVigente

LEMMA BaseQuieta ==
    ASSUME Base, UNCHANGED <<fisico, lista_fcb>>, caido' \in BOOLEAN, caido => caido',
           bitmap' \subseteq Bloques, bytes' \in [0..NBloques * TamBloque - 1 -> Int],
           viejos' \subseteq DOMAIN fisico
    PROVE  Base'
<1>1. TipoOK'
  BY TipoDe DEF Base, TipoLeido
<1>2. \A a : Primero(a)' = Primero(a)
  BY DEF Primero, SelectInSeq
<1> QED
  BY <1>1, <1>2 DEF Base, Conocidos, FcbVigente

LEMMA EfectoModificarFcb ==
    ASSUME Base, ~caido, NEW a, Primero(a) # 0, NEW f \in Fcbs, ModificarFcb(a, f),
           caido' \in BOOLEAN,
           bitmap' \subseteq Bloques, bytes' \in [0..NBloques * TamBloque - 1 -> Int],
           viejos' = viejos
    PROVE  /\ Base' /\ DOMAIN fisico' = DOMAIN fisico /\ a \in DOMAIN fisico /\ fisico'[a] = f
           /\ \A b \in DOMAIN fisico : b # a => fisico'[b] = fisico[b]
<1>1. PICK i \in DOMAIN lista_fcb : /\ i = Primero(a) /\ lista_fcb[i] \in Entradas
                                    /\ lista_fcb[i].nombre = a
  BY PrimeroDe
<1>2. a \in DOMAIN fisico /\ lista_fcb \in Seq(Entradas) /\ \A b \in DOMAIN fisico : fisico[b] \in Fcbs
  BY PrimeroDe, TipoDe DEF Base, TipoLeido
<1> DEFINE e == [lista_fcb[i] EXCEPT !.fcb = f]
<1>3. e \in Entradas /\ e.fcb = f /\ e.nombre = a
  BY <1>1 DEF Entradas
<1>4. lista_fcb' = [lista_fcb EXCEPT ![i] = e] /\ fisico' = [fisico EXCEPT ![a] = f]
  BY <1>1 DEF ModificarFcb
<1> HIDE DEF e
<1>5. /\ lista_fcb' \in Seq(Entradas) /\ DOMAIN lista_fcb' = DOMAIN lista_fcb
      /\ lista_fcb'[i] = e /\ \A j \in DOMAIN lista_fcb : j # i => lista_fcb'[j] = lista_fcb[j]
  BY <1>1, <1>2, <1>3, <1>4
<1>6. /\ DOMAIN fisico' = DOMAIN fisico /\ fisico'[a] = f
      /\ \A b \in DOMAIN fisico : b # a => fisico'[b] = fisico[b]
  BY <1>2, <1>4
<1>7. \A j \in DOMAIN lista_fcb : lista_fcb'[j].nombre = lista_fcb[j].nombre
  BY <1>1, <1>3, <1>5
<1>8. \A b : Primero(b)' = Primero(b)
  BY <1>2, <1>5, <1>7, BuscaIgual, PrimeroBusca
<1>9. Conocidos'
  BY <1>5, <1>6, <1>7 DEF Base, Conocidos
<1>10. FcbVigente'
  <2> SUFFICES ASSUME NEW b \in Nombres, Primero(b) # 0
               PROVE  lista_fcb'[Primero(b)].fcb = fisico'[b]
    BY <1>8 DEF FcbVigente
  <2>1. CASE b = a
    BY <1>1, <1>3, <1>5, <1>6, <2>1
  <2>2. CASE b # a
    <3>1. PICK j \in DOMAIN lista_fcb : j = Primero(b) /\ lista_fcb[j].nombre = b
      BY PrimeroDe
    <3>2. lista_fcb[j].fcb = fisico[b] /\ b \in DOMAIN fisico
      BY <3>1, FcbIgual, PrimeroDe
    <3> QED
      BY <1>1, <1>5, <1>6, <2>2, <3>1, <3>2
  <2> QED
    BY <2>1, <2>2
<1>11. TipoOK'
  BY <1>2, <1>5, <1>6, TipoDe DEF Base, TipoLeido
<1> QED
  BY <1>2, <1>6, <1>9, <1>10, <1>11 DEF Base

LEMMA EfectoAgregar ==
    ASSUME Base, NEW a \in Nombres, NEW f \in Fcbs, Agregar(a, f), UNCHANGED <<bitmap, bytes, viejos, caido>>,
           DOMAIN fisico' = DOMAIN fisico \cup {a}, fisico'[a] = f,
           \A b \in DOMAIN fisico : fisico'[b] = fisico[b]
    PROVE  Base'
<1> DEFINE e == [nombre |-> a, fcb |-> f]
<1>1. e \in Entradas /\ e.fcb = f /\ e.nombre = a
  BY DEF Entradas
<1>2. lista_fcb' = Append(lista_fcb, e) /\ lista_fcb \in Seq(Entradas)
  BY TipoDe DEF Agregar, Base, TipoLeido
<1> HIDE DEF e
<1>3. /\ lista_fcb' \in Seq(Entradas) /\ DOMAIN lista_fcb' = DOMAIN lista_fcb \cup {Len(lista_fcb) + 1}
      /\ lista_fcb'[Len(lista_fcb) + 1] = e /\ \A j \in DOMAIN lista_fcb : lista_fcb'[j] = lista_fcb[j]
  BY <1>1, <1>2
<1>4. \A b : Primero(b)' = IF Primero(b) # 0 THEN Primero(b)
                           ELSE IF b = a THEN Len(lista_fcb) + 1 ELSE 0
  BY <1>1, <1>2, BuscaAgrega, PrimeroBusca
<1>5. Conocidos'
  BY <1>1, <1>3 DEF Base, Conocidos
<1>6. FcbVigente'
  <2> SUFFICES ASSUME ~caido, NEW b \in Nombres, Primero(b)' # 0
               PROVE  lista_fcb'[Primero(b)'].fcb = fisico'[b]
    BY DEF FcbVigente
  <2>1. CASE Primero(b) # 0
    <3>1. PICK j \in DOMAIN lista_fcb : j = Primero(b) /\ lista_fcb[j].nombre = b
      BY <2>1, PrimeroDe
    <3>2. lista_fcb[j].fcb = fisico[b] /\ b \in DOMAIN fisico
      BY <2>1, <3>1, FcbIgual, PrimeroDe
    <3> QED
      BY <1>3, <1>4, <2>1, <3>1, <3>2
  <2>2. CASE Primero(b) = 0
    BY <1>1, <1>3, <1>4, <2>2
  <2> QED
    BY <2>1, <2>2
<1>7. TipoOK'
  BY <1>3, TipoDe DEF Base, TipoLeido
<1> QED
  BY <1>5, <1>6, <1>7 DEF Base

LEMMA VueltasDe ==
    ASSUME NEW actual \in Int, NEW asignar \in Int
    PROVE  \E tope \in Int :
              /\ tope = IF actual <= 1 /\ asignar > 1 THEN asignar + 1 ELSE asignar
              /\ Vueltas(actual, asignar) \in Seq(Int)
              /\ Len(Vueltas(actual, asignar)) = IF tope >= actual THEN tope - actual ELSE 0
              /\ \A j \in DOMAIN Vueltas(actual, asignar) :
                    Vueltas(actual, asignar)[j] = actual + j - 1
<1> DEFINE tope == IF actual <= 1 /\ asignar > 1 THEN asignar + 1 ELSE asignar
           n == IF tope >= actual THEN tope - actual ELSE 0
<1>1. tope \in Int /\ n \in Nat
  OBVIOUS
<1>2. Max({0, tope - actual}) = n
  <2>1. tope - actual \in Int
    BY <1>1
  <2>2. Max({0, tope - actual}) = IF tope - actual >= 0 THEN tope - actual ELSE 0
    BY <2>1, MaxCero
  <2> QED
    BY <1>1, <2>2
<1>3. Vueltas(actual, asignar) = [j \in 1..Max({0, tope - actual}) |-> actual + j - 1]
  BY DEF Vueltas
<1> HIDE DEF tope, n
<1>4. Vueltas(actual, asignar) = [j \in 1..n |-> actual + j - 1]
  BY <1>2, <1>3
<1>5. /\ Vueltas(actual, asignar) \in Seq(Int) /\ Len(Vueltas(actual, asignar)) = n
      /\ \A j \in DOMAIN Vueltas(actual, asignar) : Vueltas(actual, asignar)[j] = actual + j - 1
  BY <1>1, <1>4
<1> QED
  BY <1>1, <1>5 DEF tope, n

\* The turn in which i is n, 0 if there is none.
Vuelta(v, n) == SelectInSeq(v, LAMBDA i : i = n)

LEMMA VueltaDe ==
    ASSUME NEW v \in Seq(Int), NEW n
    PROVE  /\ Vuelta(v, n) \in Nat
           /\ Vuelta(v, n) # 0 => Vuelta(v, n) \in DOMAIN v /\ v[Vuelta(v, n)] = n
           /\ \A i \in DOMAIN v : v[i] = n => Vuelta(v, n) # 0
<1> DEFINE I == {i \in 1..Len(v) : v[i] = n}
<1>1. Vuelta(v, n) = IF I # {} THEN Min(I) ELSE 0
  BY DEF Vuelta, SelectInSeq
<1>2. I \in SUBSET Nat /\ DOMAIN v = 1..Len(v) /\ \A i \in DOMAIN v : i # 0
  OBVIOUS
<1>3. I # {} => Min(I) \in I
  BY <1>2, MenorExiste
<1>4. \A i \in I : i \in DOMAIN v /\ i \in Nat /\ i # 0 /\ v[i] = n
  BY <1>2
<1>5. \A i \in DOMAIN v : v[i] = n => i \in I
  BY <1>2
<1> HIDE DEF I
<1> QED
  BY <1>1, <1>3, <1>4, <1>5

LEMMA ApuntarDe ==
    ASSUME NEW f \in Fcbs, NEW v \in Seq(Int), NEW ids,
           \A j \in DOMAIN v : ids[j] \in Bloques \cup {-1}
    PROVE  /\ Apuntar(f, v, ids) \in Fcbs
           /\ Apuntar(f, v, ids).tamanio = f.tamanio
           /\ Apuntar(f, v, ids).directo =
                IF Vuelta(v, 0) = 0 THEN f.directo ELSE ids[Vuelta(v, 0)]
           /\ Apuntar(f, v, ids).indirecto =
                IF Vuelta(v, 1) = 0 THEN f.indirecto ELSE ids[Vuelta(v, 1)]
<1> DEFINE d == IF Vuelta(v, 0) = 0 THEN f.directo ELSE ids[Vuelta(v, 0)]
           i == IF Vuelta(v, 1) = 0 THEN f.indirecto ELSE ids[Vuelta(v, 1)]
<1>1. Apuntar(f, v, ids) = [f EXCEPT !.directo = d, !.indirecto = i]
  BY DEF Apuntar, Vuelta
<1>2. d \in Bloques \cup {-1} /\ i \in Bloques \cup {-1}
  BY VueltaDe, FcbDe
<1> HIDE DEF d, i
<1>3. /\ [f EXCEPT !.directo = d, !.indirecto = i] \in Fcbs
      /\ [f EXCEPT !.directo = d, !.indirecto = i].tamanio = f.tamanio
      /\ [f EXCEPT !.directo = d, !.indirecto = i].directo = d
      /\ [f EXCEPT !.directo = d, !.indirecto = i].indirecto = i
  BY <1>2 DEF Fcbs
<1> QED
  BY <1>1, <1>3 DEF d, i

\* The blocks given out for a list of turns.
Ids(v) == [j \in DOMAIN v |-> PrimerBloqueLibre(j)]

LEMMA IdsDe ==
    ASSUME TipoOK, NEW v \in Seq(Int)
    PROVE  /\ Ids(v) \in Seq(Int) /\ DOMAIN Ids(v) = DOMAIN v /\ Len(Ids(v)) = Len(v)
           /\ \A j \in DOMAIN v : Ids(v)[j] = PrimerBloqueLibre(j) /\ Ids(v)[j] \in Bloques \cup {-1}
           /\ Len(v) <= Cardinality(Libres) => Range(Ids(v)) \subseteq Libres
<1>1. \A j \in DOMAIN v : j \in Nat \ {0} /\ j <= Len(v)
  OBVIOUS
<1>2. \A j \in DOMAIN v : PrimerBloqueLibre(j) \in Bloques \cup {-1}
  BY <1>1, LibreTipo
<1>3. \A j \in DOMAIN v : Ids(v)[j] = PrimerBloqueLibre(j) /\ Ids(v)[j] \in Bloques \cup {-1}
  BY <1>2 DEF Ids
<1>4. DOMAIN Ids(v) = DOMAIN v
  BY DEF Ids
<1>5. Bloques \cup {-1} \subseteq Int
  BY TamNat
<1>6. Ids(v) \in Seq(Int) /\ Len(Ids(v)) = Len(v)
  <2>1. DOMAIN v = 1..Len(v) /\ Len(v) \in Nat
    OBVIOUS
  <2>2. ASSUME NEW g, NEW n \in Nat, g = [j \in 1..n |-> PrimerBloqueLibre(j)],
               \A j \in 1..n : PrimerBloqueLibre(j) \in Int
        PROVE  g \in Seq(Int) /\ Len(g) = n
    BY <2>2
  <2> QED
    BY <1>2, <1>5, <2>1, <2>2 DEF Ids
<1>7. ASSUME Len(v) <= Cardinality(Libres) PROVE Range(Ids(v)) \subseteq Libres
  <2>1. Len(v) \in Nat /\ Cardinality(Libres) \in Nat
    BY LibresFinito
  <2>2. \A j \in DOMAIN v : j <= Cardinality(Libres)
    BY <1>1, <1>7, <2>1
  <2>3. \A j \in DOMAIN v : Ids(v)[j] \in Libres
    BY <1>1, <1>3, <2>2, LibreDe
  <2> QED
    BY <1>4, <2>3 DEF Range
<1> QED
  BY <1>3, <1>4, <1>6, <1>7

\* The pointers that are written are numbers.
LEMMA EscribirTipo ==
    ASSUME TipoOK, NEW lista \in Seq(Int), NEW desde \in Nat, NEW ind
    PROVE  EscribirBloquesIndirectos(lista, desde, ind) \in [0..NBloques * TamBloque - 1 -> Int]
<1> SUFFICES ASSUME NEW c \in DOMAIN bytes,
                    NEW is, is = {i \in desde..Len(lista) - 1 : ind * TamBloque + Lugar(i) = c}
             PROVE  (IF is = {} THEN bytes[c] ELSE lista[Max(is) + 1]) \in Int
  BY TipoDe DEF TipoLeido, EscribirBloquesIndirectos
<1>1. CASE is = {}
  BY <1>1, TipoDe DEF TipoLeido
<1>2. CASE is # {}
  <2>1. Len(lista) \in Nat /\ is \subseteq desde..Len(lista) - 1
    OBVIOUS
  <2>2. is \in SUBSET (0..Len(lista) - 1) /\ Len(lista) - 1 \in Nat
    BY <1>2, <2>1
  <2>3. Max(is) \in is
    BY <1>2, <2>2, MayorExiste
  <2>4. Max(is) + 1 \in DOMAIN lista
    BY <2>2, <2>3
  <2> QED
    BY <1>2, <2>4
<1> QED
  BY <1>1, <1>2

LEMMA EfectoAbrir == ASSUME Base, NEW a \in Nombres, Abrir(a) PROVE Base'
<1>1. a \in DOMAIN fisico /\ fisico[a] \in Fcbs
  BY TipoDe DEF Abrir, Base, TipoLeido
<1>2. DOMAIN fisico' = DOMAIN fisico \cup {a} /\ fisico'[a] = fisico[a]
  BY <1>1 DEF Abrir
<1> QED
  BY <1>1, <1>2, EfectoAgregar DEF Abrir

LEMMA EfectoCrear == ASSUME Base, NEW a \in Nombres, Crear(a) PROVE Base'
<1> DEFINE f == Fcb(0, 0, 0)
<1>1. f \in Fcbs
  BY TamNat DEF Fcb, Fcbs
<1>2. a \notin DOMAIN fisico /\ Agregar(a, f) /\ UNCHANGED <<bitmap, bytes, viejos, caido>>
      /\ fisico' = [b \in DOMAIN fisico \cup {a} |-> IF b = a THEN f ELSE fisico[b]]
  BY DEF Crear
<1> HIDE DEF f
<1>3. /\ DOMAIN fisico' = DOMAIN fisico \cup {a} /\ fisico'[a] = f
      /\ \A b \in DOMAIN fisico : fisico'[b] = fisico[b]
  BY <1>2
<1> QED
  BY <1>1, <1>2, <1>3, EfectoAgregar

\* The pointers, the list of blocks and the first entry to be written that
\* agrandar_archivo comes to.
Apuntado(a, v) == Apuntar(fisico[a], v, Ids(v))
Total(a, v) == ListaTotal(a) \o Ids(v)
Iniciales(v) == Cardinality({j \in DOMAIN v : v[j] \in {0, 1}})
PrimeraEntrada(a, v) == Len(ListaTotal(a)) + Iniciales(v)

LEMMA EfectoAgrandar ==
    ASSUME Base, ~caido, NEW a, Primero(a) # 0, NEW n \in Tamanios, NEW v \in Seq(Int),
           Len(v) <= Cardinality(Libres), Agrandar(a, n, v), viejos' = viejos
    PROVE  /\ Base' /\ DOMAIN fisico' = DOMAIN fisico
           /\ a \in DOMAIN fisico
           /\ bitmap' = bitmap \cup Range(Ids(v))
           /\ fisico'[a].tamanio = n
           /\ fisico'[a].directo = Apuntado(a, v).directo
           /\ fisico'[a].indirecto = Apuntado(a, v).indirecto
           /\ bytes' = IF Len(Total(a, v)) > 2
                       THEN EscribirBloquesIndirectos(Total(a, v), PrimeraEntrada(a, v),
                                                      Apuntado(a, v).indirecto)
                       ELSE bytes
           /\ \A b \in DOMAIN fisico : b # a => fisico'[b] = fisico[b]
<1> DEFINE f == Apuntar(fisico[a], v, Ids(v))
           g == [f EXCEPT !.tamanio = n]
           total == ListaTotal(a) \o Ids(v)
           desde == Len(ListaTotal(a)) + Cardinality({j \in DOMAIN v : v[j] \in {0, 1}})
<1>1. lista_fcb[Primero(a)].fcb = fisico[a] /\ fisico[a] \in Fcbs /\ a \in DOMAIN fisico
  BY FcbIgual, PrimeroDe
<1>2. TipoOK
  BY DEF Base
<1>3. f \in Fcbs
  BY <1>1, <1>2, IdsDe, ApuntarDe
<1>4. g \in Fcbs
  <2> HIDE DEF f
  <2> QED
    BY <1>3 DEF Fcbs
<1>5. /\ bitmap' = bitmap \cup Range(Ids(v)) /\ ModificarFcb(a, g) /\ caido' = caido
      /\ bytes' = IF Len(total) > 2 THEN EscribirBloquesIndirectos(total, desde, f.indirecto)
                  ELSE bytes
  BY <1>1 DEF Agrandar, Ids
<1>6. bitmap' \subseteq Bloques
  BY <1>2, <1>5, IdsDe, LibresFinito, TipoDe DEF TipoLeido
<1>7. bytes' \in [0..NBloques * TamBloque - 1 -> Int]
  <2>1. total \in Seq(Int)
    BY <1>1, <1>2, ListaTotalTipo, IdsDe, Concatenar
  <2>2. desde \in Nat
    <3>1. Len(ListaTotal(a)) \in Nat
      BY <1>1, <1>2, ListaTotalTipo
    <3>2. IsFiniteSet({j \in DOMAIN v : v[j] \in {0, 1}})
      <4>1. IsFiniteSet(DOMAIN v)
        <5>1. DOMAIN v = 1..Len(v) /\ Len(v) \in Nat
          OBVIOUS
        <5> QED
          BY <5>1, FS_Interval
      <4> QED
        BY <4>1, FS_Subset
    <3>3. Cardinality({j \in DOMAIN v : v[j] \in {0, 1}}) \in Nat
      BY <3>2, FS_CardinalityType
    <3> QED
      BY <3>1, <3>3
  <2> HIDE DEF total, desde, f
  <2>3. EscribirBloquesIndirectos(total, desde, f.indirecto) \in [0..NBloques * TamBloque - 1 -> Int]
    BY <1>2, <2>1, <2>2, EscribirTipo
  <2> QED
    BY <1>2, <1>5, <2>3, TipoDe DEF TipoLeido
<1> HIDE DEF g, total, desde
<1>8. /\ Base' /\ DOMAIN fisico' = DOMAIN fisico /\ fisico'[a] = g
      /\ \A b \in DOMAIN fisico : b # a => fisico'[b] = fisico[b]
  <2>1. caido' \in BOOLEAN
    BY <1>2, <1>5, TipoDe DEF TipoLeido
  <2> QED
    BY <1>4, <1>5, <1>6, <1>7, <2>1, EfectoModificarFcb
<1>9. g.tamanio = n /\ g.directo = f.directo /\ g.indirecto = f.indirecto
  <2> HIDE DEF f
  <2> QED
    BY <1>3 DEF g, Fcbs
<1>10. f = Apuntado(a, v) /\ total = Total(a, v) /\ desde = PrimeraEntrada(a, v)
  BY DEF f, total, desde, Apuntado, Total, PrimeraEntrada, Iniciales
<1> HIDE DEF f
<1> QED
  BY <1>1, <1>5, <1>8, <1>9, <1>10

LEMMA EfectoAgrandarSinLugar ==
    ASSUME Base, ~caido, NEW a, Primero(a) # 0, NEW v \in Seq(Int), Len(v) > Cardinality(Libres),
           AgrandarSinLugar(a, v), viejos' = viejos
    PROVE  /\ Base' /\ DOMAIN fisico' = DOMAIN fisico /\ a \in DOMAIN fisico
           /\ bitmap' = Bloques /\ bytes' = bytes
           /\ fisico'[a].tamanio = fisico[a].tamanio
           /\ \A b \in DOMAIN fisico : b # a => fisico'[b] = fisico[b]
<1> DEFINE h == SubSeq(v, 1, Cardinality(Libres) + 1)
           f == Apuntar(fisico[a], h, Ids(h))
<1>1. lista_fcb[Primero(a)].fcb = fisico[a] /\ fisico[a] \in Fcbs /\ a \in DOMAIN fisico
  BY FcbIgual, PrimeroDe
<1>2. TipoOK /\ TipoLeido
  BY TipoDe DEF Base
<1>3. h \in Seq(Int)
  <2>1. Cardinality(Libres) + 1 \in 0..Len(v)
    BY <1>2, LibresFinito
  <2> QED
    BY <2>1
<1>4. f \in Fcbs /\ f.tamanio = fisico[a].tamanio
  <2> HIDE DEF h
  <2> QED
    BY <1>1, <1>2, <1>3, IdsDe, ApuntarDe
<1>5. /\ bitmap' = Bloques /\ caido' = TRUE /\ UNCHANGED <<lista_fcb, bytes>>
      /\ fisico' = [fisico EXCEPT ![a] = f]
  BY <1>1 DEF AgrandarSinLugar, Ids
<1> HIDE DEF f
<1>6. DOMAIN fisico' = DOMAIN fisico /\ \A b \in DOMAIN fisico' : fisico'[b] \in Fcbs
  BY <1>1, <1>2, <1>4, <1>5 DEF TipoLeido
<1>7. TipoOK'
  BY <1>2, <1>5, <1>6, TipoDe DEF TipoLeido
<1>8. fisico'[a].tamanio = fisico[a].tamanio /\ \A b \in DOMAIN fisico : b # a => fisico'[b] = fisico[b]
  BY <1>1, <1>4, <1>5
<1> QED
  BY <1>1, <1>5, <1>6, <1>7, <1>8 DEF Base, Conocidos, FcbVigente

\* The blocks that the list loses.
Quitados(a, n) ==
    Range(SubSeq(ListaTotal(a), Len(ListaTotal(a)) + 1 - Quitar(fisico[a].tamanio, n),
                 Len(ListaTotal(a))))

LEMMA EfectoAchicar ==
    ASSUME Base, ~caido, NEW a, Primero(a) # 0, NEW n \in Tamanios, Achicar(a, n), viejos' = viejos
    PROVE  /\ Base' /\ DOMAIN fisico' = DOMAIN fisico /\ a \in DOMAIN fisico
           /\ bitmap' = bitmap \ Quitados(a, n) /\ bytes' = bytes
           /\ fisico'[a].tamanio = n /\ fisico'[a].directo = fisico[a].directo
           /\ ~(n <= TamBloque) /\ 0 \notin Quitados(a, n) =>
                 fisico'[a].indirecto = fisico[a].indirecto
           /\ \A b \in DOMAIN fisico : b # a => fisico'[b] = fisico[b]
<1>1. lista_fcb[Primero(a)].fcb = fisico[a] /\ fisico[a] \in Fcbs /\ a \in DOMAIN fisico
  BY FcbIgual, PrimeroDe
<1>2. TipoOK /\ TipoLeido
  BY TipoDe DEF Base
<1> DEFINE quitados == Quitados(a, n)
           x == IF n <= TamBloque /\ fisico[a].tamanio > TamBloque THEN fisico[a].indirecto ELSE 0
           y == IF x \in quitados THEN 0 ELSE fisico[a].indirecto
           g == [fisico[a] EXCEPT !.tamanio = n, !.indirecto = y]
<1>3. bitmap' = bitmap \ quitados /\ ModificarFcb(a, g) /\ UNCHANGED <<bytes, caido>>
  BY <1>1 DEF Achicar, Quitados
<1>4. /\ y \in {0, fisico[a].indirecto}
      /\ ~(n <= TamBloque) /\ 0 \notin quitados => y = fisico[a].indirecto
  OBVIOUS
<1> HIDE DEF quitados, y
<1>5. g \in Fcbs /\ g.tamanio = n /\ g.directo = fisico[a].directo /\ g.indirecto = y
  <2>1. y \in Bloques \cup {-1}
    BY <1>1, <1>4, FcbDe, TamNat
  <2> QED
    BY <1>1, <2>1 DEF Fcbs
<1> HIDE DEF g
<1>6. /\ Base' /\ DOMAIN fisico' = DOMAIN fisico /\ fisico'[a] = g
      /\ \A b \in DOMAIN fisico : b # a => fisico'[b] = fisico[b]
  BY <1>2, <1>3, <1>5, EfectoModificarFcb DEF TipoLeido
<1> QED
  BY <1>1, <1>3, <1>4, <1>5, <1>6 DEF quitados

LEMMA ListaDeBloquesTipo ==
    ASSUME TipoOK, NEW a \in DOMAIN fisico, NEW pos \in Nat, NEW cant \in Nat
    PROVE  ObtenerListaDeBloques(a, pos, cant) \in Seq(Int)
<1>1. fisico[a].directo \in Int /\ fisico[a].tamanio \in Nat
  BY TipoDe, FcbDe DEF TipoLeido
<1> DEFINE directo == pos < TamBloque
           cant_bloques == fisico[a].tamanio \div TamBloque - IF directo THEN 1 ELSE 0
           enteros == (fisico[a].tamanio \div TamBloque) * TamBloque
           fin == pos + IF cant = 0 THEN enteros ELSE cant
           uno == IF directo THEN <<fisico[a].directo>> ELSE <<>>
           otros == IF cant_bloques >= 1
                    THEN LeerBloquesIndirectos(a, IF directo THEN TamBloque ELSE pos, fin) ELSE <<>>
<1>2. ObtenerListaDeBloques(a, pos, cant) = IF ~Entra(a, pos, cant) THEN <<>> ELSE uno \o otros
  BY DEF ObtenerListaDeBloques
<1>3. fin \in Int /\ (IF directo THEN TamBloque ELSE pos) \in Int
  <2>1. fisico[a].tamanio \div TamBloque \in Int /\ TamBloque \in Int
    BY <1>1, Cociente, TamNat
  <2>2. enteros \in Int
    BY <2>1
  <2> HIDE DEF enteros
  <2> QED
    BY <2>1, <2>2
<1> HIDE DEF fin, cant_bloques, enteros
<1>4. otros \in Seq(Int)
  <2>1. LeerBloquesIndirectos(a, IF directo THEN TamBloque ELSE pos, fin) \in Seq(Int)
    BY <1>3, IndirectosTipo
  <2> QED
    BY <2>1
<1>5. uno \in Seq(Int)
  BY <1>1
<1> HIDE DEF uno, otros
<1>6. uno \o otros \in Seq(Int)
  BY <1>4, <1>5, Concatenar
<1> QED
  BY <1>2, <1>6

\* The piece of the k-th of n blocks.
DesdeTramo(pos, cant, n, k, b) ==
    b * TamBloque + IF cant < TamBloque \/ (k = 1 /\ n # 1)
                    THEN pos - (pos \div TamBloque + (k - 1)) * TamBloque ELSE 0
TamTramo(pos, cant, n, k) ==
    IF cant < TamBloque THEN cant
    ELSE IF k = n THEN pos + cant - (pos \div TamBloque + (k - 1)) * TamBloque
    ELSE IF k = 1 THEN TamBloque - (pos - (pos \div TamBloque + (k - 1)) * TamBloque)
    ELSE TamBloque

LEMMA TramosDe ==
    ASSUME TipoOK, NEW a \in DOMAIN fisico, NEW pos \in Nat, NEW cant \in Nat, NEW n, NEW bloques,
           bloques = ObtenerListaDeBloques(a, pos, cant), n = Len(bloques)
    PROVE  /\ n \in Nat /\ DOMAIN ArmarListaOffsets(a, pos, cant) = 1..n
           /\ ArmarListaOffsets(a, pos, cant) = <<>> <=> n = 0
           /\ \A k \in 1..n :
                /\ ArmarListaOffsets(a, pos, cant)[k].desde = DesdeTramo(pos, cant, n, k, bloques[k])
                /\ ArmarListaOffsets(a, pos, cant)[k].tamanio = TamTramo(pos, cant, n, k)
                /\ DesdeTramo(pos, cant, n, k, bloques[k]) \in Int
                /\ TamTramo(pos, cant, n, k) \in Int
                /\ bloques[k] \in Int
<1>1. bloques \in Seq(Int) /\ n \in Nat /\ DOMAIN bloques = 1..n
  BY ListaDeBloquesTipo
<1> DEFINE dentro(nro) == pos - (pos \div TamBloque + nro) * TamBloque
           Tramo(nro, b) ==
            IF cant < TamBloque
            THEN [desde |-> b * TamBloque + dentro(nro), tamanio |-> cant]
            ELSE IF nro + 1 = n
            THEN [desde |-> b * TamBloque, tamanio |-> Ultimo(pos, cant, nro)]
            ELSE IF nro = 0
            THEN [desde |-> b * TamBloque + dentro(0), tamanio |-> TamBloque - dentro(0)]
            ELSE [desde |-> b * TamBloque, tamanio |-> TamBloque]
           tramos == ArmarListaOffsets(a, pos, cant)
<1>2. tramos = [k \in DOMAIN bloques |-> Tramo(k - 1, bloques[k])]
  BY DEF ArmarListaOffsets
<1>3. ASSUME NEW k \in 1..n
      PROVE  /\ tramos[k].desde = DesdeTramo(pos, cant, n, k, bloques[k])
             /\ tramos[k].tamanio = TamTramo(pos, cant, n, k)
             /\ DesdeTramo(pos, cant, n, k, bloques[k]) \in Int
             /\ TamTramo(pos, cant, n, k) \in Int
             /\ bloques[k] \in Int
  <2>1. k \in Int /\ bloques[k] \in Int /\ (k - 1 + 1 = n <=> k = n) /\ (k - 1 = 0 <=> k = 1)
    BY <1>1
  <2>2. PICK d \in Int : d = dentro(k - 1) /\ (pos \div TamBloque + (k - 1)) * TamBloque \in Int
    <3>1. pos \div TamBloque \in Int /\ TamBloque \in Int
      BY Cociente, TamNat
    <3>2. dentro(k - 1) \in Int /\ (pos \div TamBloque + (k - 1)) * TamBloque \in Int
      BY <2>1, <3>1
    <3> HIDE DEF dentro
    <3> QED
      BY <3>2
  <2>3. PICK x \in Int : x = bloques[k] * TamBloque
    BY <2>1, TamNat
  <2>4. k = 1 => dentro(0) = d
    BY <2>2
  <2>5. tramos[k] = Tramo(k - 1, bloques[k])
    BY <1>1, <1>2
  <2>6. /\ DesdeTramo(pos, cant, n, k, bloques[k]) =
             x + IF cant < TamBloque \/ (k = 1 /\ n # 1) THEN d ELSE 0
        /\ TamTramo(pos, cant, n, k) =
             IF cant < TamBloque THEN cant ELSE IF k = n THEN Ultimo(pos, cant, k - 1)
             ELSE IF k = 1 THEN TamBloque - d ELSE TamBloque
    BY <2>2, <2>3 DEF DesdeTramo, TamTramo, Ultimo
  <2>7. Ultimo(pos, cant, k - 1) \in Int
    BY <2>2 DEF Ultimo
  <2>8. tramos[k] = IF cant < TamBloque THEN [desde |-> x + d, tamanio |-> cant]
                    ELSE IF k = n THEN [desde |-> x, tamanio |-> Ultimo(pos, cant, k - 1)]
                    ELSE IF k = 1 THEN [desde |-> x + d, tamanio |-> TamBloque - d]
                    ELSE [desde |-> x, tamanio |-> TamBloque]
    BY <2>1, <2>2, <2>3, <2>4, <2>5
  <2> HIDE DEF tramos, dentro, Tramo
  <2>9. PICK u \in Int : u = Ultimo(pos, cant, k - 1)
    BY <2>7
  <2> QED
    BY <2>1, <2>6, <2>8, <2>9, TamNat
<1>4. DOMAIN tramos = 1..n /\ (tramos = <<>> <=> n = 0)
  BY <1>1, <1>2
<1> QED
  BY <1>1, <1>3, <1>4

LEMMA TramosTipo ==
    ASSUME TipoOK, NEW a \in DOMAIN fisico, NEW pos \in Nat, NEW cant \in Nat,
           NEW tramos, tramos = ArmarListaOffsets(a, pos, cant)
    PROVE  \E n \in Nat : /\ DOMAIN tramos = 1..n
                         /\ \A k \in 1..n : tramos[k].desde \in Int /\ tramos[k].tamanio \in Int
<1> DEFINE s == ArmarListaOffsets(a, pos, cant)
           bloques == ObtenerListaDeBloques(a, pos, cant)
           n == Len(bloques)
<1>1. /\ n \in Nat /\ DOMAIN s = 1..n
      /\ \A k \in 1..n :
            /\ s[k].desde = DesdeTramo(pos, cant, n, k, bloques[k])
            /\ s[k].tamanio = TamTramo(pos, cant, n, k)
            /\ DesdeTramo(pos, cant, n, k, bloques[k]) \in Int
            /\ TamTramo(pos, cant, n, k) \in Int
  BY TramosDe
<1>2. tramos = s
  OBVIOUS
<1> HIDE DEF n, s
<1> QED
  BY <1>1, <1>2

LEMMA LugaresTipo ==
    ASSUME TipoOK, NEW a \in DOMAIN fisico, NEW pos \in Nat, NEW cant \in Nat
    PROVE  Lugares(ArmarListaOffsets(a, pos, cant)) \in Seq(Int)
<1> DEFINE tramos == ArmarListaOffsets(a, pos, cant)
           s == [k \in DOMAIN tramos |-> [j \in 1..tramos[k].tamanio |-> tramos[k].desde + j - 1]]
<1>1. PICK n \in Nat : /\ DOMAIN tramos = 1..n
                       /\ \A k \in 1..n : tramos[k].desde \in Int /\ tramos[k].tamanio \in Int
  BY TramosTipo
<1> HIDE DEF tramos
<1>2. ASSUME NEW x \in Int, NEW y \in Int
      PROVE  [j \in 1..y |-> x + j - 1] \in Seq(Int)
  <2> DEFINE m == IF y >= 0 THEN y ELSE 0
  <2>1. m \in Nat /\ 1..y = 1..m
    OBVIOUS
  <2> HIDE DEF m
  <2>2. [j \in 1..m |-> x + j - 1] \in Seq(Int)
    BY <2>1
  <2> QED
    BY <2>1, <2>2
<1>3. \A k \in 1..n : s[k] \in Seq(Int)
  BY <1>1, <1>2
<1>4. s \in Seq(Seq(Int))
  <2>1. s = [k \in 1..n |-> s[k]]
    BY <1>1
  <2> HIDE DEF s
  <2> QED
    BY <1>1, <1>3, <2>1
<1> HIDE DEF s
<1>5. FlattenSeq(s) \in Seq(Int)
  BY <1>4, AplanaTipo
<1> QED
  BY <1>5 DEF Lugares, s, tramos

LEMMA EfectoEscribir ==
    ASSUME Base, ~caido, NEW a, NEW pos \in Nat, NEW cant \in Nat, NEW v \in Nat,
           Escribir(a, pos, cant, v)
    PROVE  /\ Base' /\ UNCHANGED <<fisico, lista_fcb, bitmap, viejos>>
           /\ a \in DOMAIN fisico
           /\ DOMAIN bytes' = DOMAIN bytes
           /\ \A c \in DOMAIN bytes :
                 (\A k \in DOMAIN Lugares(ArmarListaOffsets(a, pos, cant)) :
                     Lugares(ArmarListaOffsets(a, pos, cant))[k] # c) => bytes'[c] = bytes[c]
           /\ \A c \in DOMAIN bytes, j \in DOMAIN Lugares(ArmarListaOffsets(a, pos, cant)) :
                 (\A k \in DOMAIN Lugares(ArmarListaOffsets(a, pos, cant)) :
                     Lugares(ArmarListaOffsets(a, pos, cant))[k] = c <=> k = j) => bytes'[c] = v + pos + j - 1
           /\ leido' = IF Lugares(ArmarListaOffsets(a, pos, cant)) = <<>> THEN leido ELSE Nada
<1>1. /\ a \in DOMAIN fisico /\ TipoOK /\ TipoLeido
      /\ UNCHANGED <<fisico, lista_fcb, bitmap, viejos, caido>>
  BY PrimeroDe, TipoDe DEF Escribir, Acceder, Base
<1> DEFINE lugares == Lugares(ArmarListaOffsets(a, pos, cant))
           Ultimos(c) == {k \in DOMAIN lugares : lugares[k] = c}
<1>2. bytes' = [c \in DOMAIN bytes |->
                    IF Ultimos(c) = {} THEN bytes[c] ELSE v + pos + Max(Ultimos(c)) - 1]
  BY DEF Escribir
<1>3. lugares \in Seq(Int)
  BY <1>1, LugaresTipo
<1> HIDE DEF lugares
<1>4. ASSUME NEW c \in DOMAIN bytes
      PROVE  bytes'[c] \in Int
  <2>1. CASE Ultimos(c) = {}
    BY <1>1, <1>2, <2>1 DEF TipoLeido
  <2>2. CASE Ultimos(c) # {}
    <3>1. Len(lugares) \in Nat /\ Ultimos(c) \in SUBSET (0..Len(lugares))
      BY <1>3
    <3>2. Max(Ultimos(c)) \in 0..Len(lugares)
      BY <2>2, <3>1, MayorExiste
    <3> HIDE DEF Ultimos
    <3>3. bytes'[c] = v + pos + Max(Ultimos(c)) - 1
      BY <1>2, <2>2
    <3> QED
      BY <3>1, <3>2, <3>3
  <2> QED
    BY <2>1, <2>2
<1>5. ASSUME NEW c \in DOMAIN bytes, \A k \in DOMAIN lugares : lugares[k] # c
      PROVE  bytes'[c] = bytes[c]
  <2>1. Ultimos(c) = {}
    BY <1>5
  <2> HIDE DEF Ultimos
  <2> QED
    BY <1>2, <2>1
<1>6. bytes' \in [0..NBloques * TamBloque - 1 -> Int] /\ DOMAIN bytes' = DOMAIN bytes
  <2> HIDE DEF Ultimos
  <2> QED
    BY <1>1, <1>2, <1>4 DEF TipoLeido
<1>7. Base'
  BY <1>1, <1>6, BaseQuieta DEF TipoLeido
<1>8. ASSUME NEW c \in DOMAIN bytes, NEW j \in DOMAIN lugares,
             \A k \in DOMAIN lugares : lugares[k] = c <=> k = j
      PROVE  bytes'[c] = v + pos + j - 1
  <2>1. Ultimos(c) = {j} /\ j \in Int
    BY <1>3, <1>8
  <2> HIDE DEF Ultimos
  <2>2. Max({j}) = j
    BY <2>1, MayorEs
  <2>3. bytes'[c] = v + pos + Max({j}) - 1
    BY <1>2, <2>1
  <2> QED
    BY <2>2, <2>3
<1>9. leido' = IF lugares = <<>> THEN leido ELSE Nada
  BY DEF Escribir, lugares
<1> HIDE DEF Ultimos
<1> QED
  BY <1>1, <1>5, <1>6, <1>7, <1>8, <1>9 DEF lugares

LEMMA EfectoLeer ==
    ASSUME Base, ~caido, NEW a, NEW pos, NEW cant, Leer(a, pos, cant)
    PROVE  Base' /\ UNCHANGED <<fisico, lista_fcb, bitmap, bytes, viejos>>
<1>1. UNCHANGED <<fisico, lista_fcb, bitmap, bytes, viejos>> /\ caido' \in {TRUE, caido}
  BY DEF Leer, Acceder
<1>2. TipoLeido
  BY TipoDe DEF Base
<1> QED
  BY <1>1, <1>2, BaseQuieta DEF TipoLeido

LEMMA EfectoReiniciar == ASSUME Base, Reiniciar PROVE Base'
<1>1. TipoLeido
  BY TipoDe DEF Base
<1>2. lista_fcb' = <<>> /\ \A a : Primero(a)' = 0
  <2>1. lista_fcb' = <<>> /\ <<>> \in Seq(Int) /\ DOMAIN <<>> = {}
    BY DEF Reiniciar
  <2>2. \A a : Busca(<<>>, a) = 0
    BY <2>1, BuscaNada
  <2> QED
    BY <2>1, <2>2, PrimeroBusca
<1>3. TipoOK'
  <2>1. lista_fcb' \in Seq(Entradas)
    BY <1>2
  <2>2. UNCHANGED <<fisico, bytes>> /\ caido' = FALSE /\ bitmap' \subseteq bitmap
        /\ viejos' \subseteq DOMAIN fisico
    BY DEF Reiniciar
  <2>3. TipoLeido'
    BY <1>1, <2>1, <2>2 DEF TipoLeido
  <2> QED
    BY <2>3, TipoDe
<1> QED
  BY <1>2, <1>3 DEF Base, Conocidos, FcbVigente

-----------------------------------------------------------------------------
(* The type invariant, and get_fcb. *)

LEMMA TamanioPedido ==
    ASSUME Base, NEW a, Primero(a) # 0, NEW n \in Nat
    PROVE  /\ Vueltas(Techo(lista_fcb[Primero(a)].fcb.tamanio),
                      Techo(n - lista_fcb[Primero(a)].fcb.tamanio)) \in Seq(Int)
<1>1. lista_fcb[Primero(a)].fcb \in Fcbs
  BY PrimeroDe DEF Entradas
<1>2. lista_fcb[Primero(a)].fcb.tamanio \in Nat
  BY <1>1, FcbDe
<1>3. /\ Techo(lista_fcb[Primero(a)].fcb.tamanio) \in Int
      /\ Techo(n - lista_fcb[Primero(a)].fcb.tamanio) \in Int
  BY <1>2, TechoTipo
<1> QED
  BY <1>3, VueltasDe

LEMMA EfectoModificarTamanio ==
    ASSUME Base, ~caido, NEW a, NEW n \in Tamanios, ModificarTamanio(a, n)
    PROVE  Base'
<1> DEFINE t == lista_fcb[Primero(a)].fcb.tamanio
           v == Vueltas(Techo(t), Techo(n - t))
<1>1. /\ Primero(a) # 0 /\ UNCHANGED viejos
      /\ \/ Len(v) <= Cardinality(Libres) /\ Agrandar(a, n, v)
         \/ Len(v) > Cardinality(Libres) /\ AgrandarSinLugar(a, v)
         \/ Achicar(a, n)
         \/ UNCHANGED <<fisico, lista_fcb, bitmap, bytes, leido, caido>>
  BY DEF ModificarTamanio
<1>2. v \in Seq(Int)
  BY <1>1, TamanioPedido, TamNat
<1> HIDE DEF v
<1>3. CASE Len(v) <= Cardinality(Libres) /\ Agrandar(a, n, v)
  BY <1>1, <1>2, <1>3, EfectoAgrandar
<1>4. CASE Len(v) > Cardinality(Libres) /\ AgrandarSinLugar(a, v)
  BY <1>1, <1>2, <1>4, EfectoAgrandarSinLugar
<1>5. CASE Achicar(a, n)
  BY <1>1, <1>5, EfectoAchicar
<1>6. CASE UNCHANGED <<fisico, lista_fcb, bitmap, bytes, leido, caido>>
  <2>1. TipoLeido
    BY TipoDe DEF Base
  <2> QED
    BY <1>1, <1>6, <2>1, BaseQuieta DEF TipoLeido
<1> QED
  BY <1>1, <1>3, <1>4, <1>5, <1>6

LEMMA BaseInicial == Init => Base
<1> SUFFICES ASSUME Init PROVE Base
  OBVIOUS
<1>1. DOMAIN fisico = {} /\ lista_fcb = <<>> /\ bitmap = {} /\ caido = FALSE /\ viejos = {}
      /\ bytes = [c \in 0..NBloques * TamBloque - 1 |-> 0]
  BY DEF Init
<1>2. \A a : Primero(a) = 0
  <2>1. <<>> \in Seq(Int) /\ DOMAIN <<>> = {}
    OBVIOUS
  <2>2. \A a : Busca(<<>>, a) = 0
    BY <2>1, BuscaNada
  <2> QED
    BY <1>1, <2>2, PrimeroBusca
<1>3. TipoOK
  <2>1. lista_fcb \in Seq(Entradas) /\ bytes \in [0..NBloques * TamBloque - 1 -> Int]
    BY <1>1
  <2> QED
    BY <1>1, <2>1, TipoDe DEF TipoLeido
<1>4. DOMAIN lista_fcb = {}
  BY <1>1
<1> QED
  BY <1>2, <1>3, <1>4 DEF Base, Conocidos, FcbVigente

\* The requests of Next, with what they carry.
LEMMA Pedidos ==
    ASSUME Next
    PROVE  \/ Reiniciar
           \/ ~caido /\ \E a \in Nombres : Abrir(a)
           \/ ~caido /\ \E a \in Nombres : Crear(a)
           \/ ~caido /\ \E a \in Nombres, n \in Tamanios : ModificarTamanio(a, n)
           \/ ~caido /\ \E a \in Nombres, pos \in Nat, cant \in Nat \ {0} : Leer(a, pos, cant)
           \/ ~caido /\ \E a \in Nombres, pos \in Nat, cant \in Nat \ {0}, v \in Nat :
                           Escribir(a, pos, cant, v)
<1>1. ASSUME NEW acceso \in Accesos PROVE acceso[1] \in Nat /\ acceso[2] \in Nat \ {0}
  BY SupuestosSistemaArchivos
<1>2. Valores \subseteq Nat
  BY SupuestosSistemaArchivos
<1>3. CASE Reiniciar
  BY <1>3
<1>4. CASE AtenderKernel
  <2>1. ~caido
    BY <1>4 DEF AtenderKernel
  <2>2. PICK a \in Nombres :
          \/ Abrir(a)
          \/ Crear(a)
          \/ \E n \in Tamanios : ModificarTamanio(a, n)
          \/ \E acceso \in Accesos :
              \/ Leer(a, acceso[1], acceso[2])
              \/ \E v \in Valores : Escribir(a, acceso[1], acceso[2], v)
    BY <1>4 DEF AtenderKernel
  <2>3. CASE Abrir(a) \/ Crear(a) \/ \E n \in Tamanios : ModificarTamanio(a, n)
    BY <2>1, <2>3
  <2>4. ASSUME NEW acceso \in Accesos, Leer(a, acceso[1], acceso[2])
        PROVE  \E b \in Nombres, pos \in Nat, cant \in Nat \ {0} : Leer(b, pos, cant)
    BY <1>1, <2>4
  <2>5. ASSUME NEW acceso \in Accesos, NEW v \in Valores, Escribir(a, acceso[1], acceso[2], v)
        PROVE  \E b \in Nombres, pos \in Nat, cant \in Nat \ {0}, w \in Nat :
                  Escribir(b, pos, cant, w)
    BY <1>1, <1>2, <2>5
  <2> QED
    BY <2>1, <2>2, <2>3, <2>4, <2>5
<1> QED
  BY <1>3, <1>4 DEF Next

LEMMA BaseInductiva == Base /\ [Next]_vars => Base'
<1> SUFFICES ASSUME Base, [Next]_vars PROVE Base'
  OBVIOUS
<1>1. CASE UNCHANGED vars
  <2>1. TipoLeido
    BY TipoDe DEF Base
  <2> QED
    BY <1>1, <2>1, BaseQuieta DEF vars, TipoLeido
<1>2. CASE Next
  <2>1. CASE Reiniciar
    BY <2>1, EfectoReiniciar
  <2>2. ASSUME NEW a \in Nombres, Abrir(a) PROVE Base'
    BY <2>2, EfectoAbrir
  <2>3. ASSUME NEW a \in Nombres, Crear(a) PROVE Base'
    BY <2>3, EfectoCrear
  <2>4. ASSUME ~caido, NEW a \in Nombres, NEW n \in Tamanios, ModificarTamanio(a, n) PROVE Base'
    BY <2>4, EfectoModificarTamanio
  <2>5. ASSUME ~caido, NEW a, NEW pos \in Nat, NEW cant \in Nat \ {0}, Leer(a, pos, cant)
        PROVE  Base'
    BY <2>5, EfectoLeer
  <2>6. ASSUME ~caido, NEW a, NEW pos \in Nat, NEW cant \in Nat \ {0}, NEW v \in Nat,
               Escribir(a, pos, cant, v)
        PROVE  Base'
    BY <2>6, EfectoEscribir
  <2> QED
    BY <1>2, <2>1, <2>2, <2>3, <2>4, <2>5, <2>6, Pedidos
<1> QED
  BY <1>1, <1>2

\* Types: the pointers that the loop of agrandar_archivo (fileSystem.c:613)
\* sets are numbers of blocks, or -1 when it found none, and the pieces it
\* writes with stay integers, whatever the sizes, accesses and starts.
THEOREM TipoSistemaCorrecto == Spec => []TipoOK
<1>1. Base => TipoOK
  BY DEF Base
<1> QED
  BY <1>1, BaseInicial, BaseInductiva, PTL DEF Spec

\* get_fcb (fileSystem.c:798) finds the FCB that is in the file, for any
\* number of openings of any file and truncations between them.
THEOREM FcbVigenteCorrecto == Spec => []FcbVigente
<1>1. Base => FcbVigente
  BY DEF Base
<1> QED
  BY <1>1, BaseInicial, BaseInductiva, PTL DEF Spec

-----------------------------------------------------------------------------
(* The pieces of an access. *)

LEMMA TechoDe ==
    ASSUME NEW x \in Int
    PROVE  Techo(x) \in Int /\ TamBloque * Techo(x) - TamBloque < x /\ x <= TamBloque * Techo(x)
<1> DEFINE y == x + TamBloque - 1
           q == y \div TamBloque
           r == y % TamBloque
<1>1. y \in Int /\ TamBloque \in Nat \ {0}
  BY TamNat
<1>2. q \in Int /\ r \in 0..TamBloque - 1 /\ y = TamBloque * q + r
  <2> HIDE DEF y
  <2> QED
    BY <1>1, Cociente
<1>3. Techo(x) = q
  BY DEF Techo
<1> HIDE DEF q, r
<1>4. PICK p \in Int : p = TamBloque * q
  BY <1>1, <1>2
<1>5. p - TamBloque < x /\ x <= p
  BY <1>1, <1>2, <1>4
<1> QED
  BY <1>2, <1>3, <1>4, <1>5

LEMMA TechoEs ==
    ASSUME NEW x \in Int, NEW q \in Int, TamBloque * q - TamBloque < x, x <= TamBloque * q
    PROVE  Techo(x) = q
<1> DEFINE y == x + TamBloque - 1
<1>1. y \in Int /\ TamBloque \in Nat \ {0} /\ TamBloque * q \in Int
  BY TamNat
<1>2. TamBloque * q <= y /\ y < TamBloque * q + TamBloque
  BY <1>1
<1>3. Techo(x) = y \div TamBloque
  BY DEF Techo
<1> HIDE DEF y
<1> QED
  BY <1>1, <1>2, <1>3, CocienteEs

LEMMA CocienteBloque ==
    ASSUME NEW x \in Nat
    PROVE  \E c \in Int : /\ c = x \div TamBloque /\ c >= 0
                         /\ TamBloque * c <= x /\ x < TamBloque * c + TamBloque
<1> DEFINE c == x \div TamBloque
           r == x % TamBloque
<1>1. c \in Nat /\ r \in 0..TamBloque - 1 /\ x = TamBloque * c + r /\ TamBloque \in Nat \ {0}
  <2>1. x \in Int /\ x >= 0 /\ TamBloque \in Nat \ {0}
    BY TamNat
  <2>2. /\ c \in Int /\ r \in 0..TamBloque - 1 /\ x = TamBloque * c + r
        /\ (x >= 0 => c \in Nat)
    BY <2>1, Cociente
  <2> HIDE DEF c, r
  <2> QED
    BY <2>1, <2>2
<1>2. c = x \div TamBloque
  OBVIOUS
<1> HIDE DEF c, r
<1> QED
  BY <1>1, <1>2

\* The block of a file where the bytes from TamBloque * q are.
BloqueDe(a, q) == IF q = 0 THEN fisico[a].directo ELSE Puntero(a, q - 1)

LEMMA LugarEs ==
    ASSUME NEW a, NEW q \in Nat, NEW r \in 0..TamBloque - 1, NEW i \in Nat, i = TamBloque * q + r
    PROVE  LugarDe(a, i) = BloqueDe(a, q) * TamBloque + r
<1>1. PICK p \in Int : p = TamBloque * q
  BY TamNat
<1>2. p <= i /\ i < p + TamBloque
  BY <1>1, TamNat
<1>3. i \div TamBloque = q /\ i % TamBloque = i - p
  BY <1>1, <1>2, CocienteEs, TamNat
<1>4. i - p = r
  BY <1>1, TamNat
<1>5. i < TamBloque <=> q = 0
  <2>1. q # 0 => p >= TamBloque
    BY <1>1, TamNat
  <2>2. q = 0 => p = 0
    BY <1>1, TamNat
  <2> QED
    BY <1>2, <2>1, <2>2, TamNat
<1> QED
  BY <1>3, <1>4, <1>5 DEF LugarDe, BloqueDe

Parte(x) == x \div TamBloque

LEMMA IndirectosDe ==
    ASSUME TipoOK, NEW a, NEW desde \in Nat, NEW hasta \in Int,
           NEW x \in Int, x = IF hasta >= desde THEN hasta - desde ELSE 0,
           NEW n \in Nat, n = Techo(x)
    PROVE  /\ LeerBloquesIndirectos(a, desde, hasta) \in Seq(Int)
           /\ Len(LeerBloquesIndirectos(a, desde, hasta)) = n
<1>1. Max({0, hasta - desde}) = x
  <2>1. hasta - desde \in Int /\ (hasta - desde >= 0 <=> hasta >= desde)
    OBVIOUS
  <2>2. Max({0, hasta - desde}) = IF hasta - desde >= 0 THEN hasta - desde ELSE 0
    BY <2>1, MaxCero
  <2> QED
    BY <2>1, <2>2
<1>2. LeerBloquesIndirectos(a, desde, hasta)
        = [k \in 1..n |-> Puntero(a, desde \div TamBloque - 1 + k - 1)]
  BY <1>1 DEF LeerBloquesIndirectos
<1>3. LeerBloquesIndirectos(a, desde, hasta) \in Seq(Int)
  BY IndirectosTipo
<1> QED
  BY <1>2, <1>3

LEMMA IndirectosLee ==
    ASSUME TipoOK, NEW a, NEW desde \in Nat, NEW hasta \in Int,
           NEW s \in Int, s = Parte(desde), NEW k \in 1..Len(LeerBloquesIndirectos(a, desde, hasta))
    PROVE  LeerBloquesIndirectos(a, desde, hasta)[k] = Puntero(a, s - 1 + k - 1)
<1> DEFINE m == Techo(Max({0, hasta - desde}))
<1>1. LeerBloquesIndirectos(a, desde, hasta) = [j \in 1..m |-> Puntero(a, s - 1 + j - 1)]
  BY DEF LeerBloquesIndirectos, Parte
<1>2. LeerBloquesIndirectos(a, desde, hasta) \in Seq(Int)
  BY IndirectosTipo
<1> HIDE DEF m
<1>3. DOMAIN LeerBloquesIndirectos(a, desde, hasta) = 1..m
  BY <1>1
<1>4. ASSUME NEW l \in Seq(Int), NEW i \in 1..Len(l) PROVE i \in DOMAIN l
  OBVIOUS
<1>5. k \in DOMAIN LeerBloquesIndirectos(a, desde, hasta)
  BY <1>2, <1>4
<1>6. k \in 1..m
  BY <1>3, <1>5
<1> QED
  BY <1>1, <1>6

\* obtener_lista_de_bloques gives the blocks of the access, in order.
LEMMA BloquesExactos ==
    ASSUME TipoOK, NEW a \in DOMAIN fisico, NEW pos \in Nat, NEW cant \in Nat \ {0},
           Entra(a, pos, cant), AccesoSano(fisico[a].tamanio, pos, cant),
           NEW q \in Nat, q = pos \div TamBloque,
           NEW d \in 0..TamBloque - 1, pos = TamBloque * q + d,
           NEW n \in Int, n = Techo(d + cant)
    PROVE  /\ ObtenerListaDeBloques(a, pos, cant) \in Seq(Int)
           /\ Len(ObtenerListaDeBloques(a, pos, cant)) = n
           /\ \A k \in 1..n : ObtenerListaDeBloques(a, pos, cant)[k] = BloqueDe(a, q + k - 1)
           /\ n \in Nat \ {0} /\ TamBloque * n - TamBloque < d + cant /\ d + cant <= TamBloque * n
           /\ cant < TamBloque => n = 1
<1> DEFINE t == fisico[a].tamanio
           directo == pos < TamBloque
           cant_bloques == t \div TamBloque - IF directo THEN 1 ELSE 0
           uno == IF directo THEN <<fisico[a].directo>> ELSE <<>>
           desde == IF directo THEN TamBloque ELSE pos
           otros == IF cant_bloques >= 1 THEN LeerBloquesIndirectos(a, desde, pos + cant) ELSE <<>>
<1>1. t \in Nat /\ pos + cant <= t /\ TamBloque \in Nat \ {0} /\ d \in Nat /\ d < TamBloque
  BY TipoDe, FcbDe, TamNat DEF TipoLeido, Entra
<1>2. ObtenerListaDeBloques(a, pos, cant) = uno \o otros
  BY DEF ObtenerListaDeBloques
<1>3. pos % TamBloque = d
  <2>1. PICK p \in Int : p = TamBloque * q
    BY <1>1
  <2>2. p <= pos /\ pos < p + TamBloque /\ pos - p = d
    BY <1>1, <2>1
  <2>3. TamBloque * q <= pos /\ pos < TamBloque * q + TamBloque
    BY <2>1, <2>2
  <2>4. pos % TamBloque = pos - TamBloque * q
    <3>1. pos \in Int /\ TamBloque \in Nat \ {0} /\ q \in Int
      BY <1>1
    <3> QED
      BY <2>3, <3>1, CocienteEs
  <2> QED
    BY <2>1, <2>2, <2>4
<1>4. /\ cant < TamBloque => d + cant <= TamBloque
      /\ cant >= TamBloque => pos < TamBloque \/ Techo(d + cant) = Techo(cant)
      /\ pos < TamBloque /\ TamBloque < pos + cant => 2 * TamBloque <= t
  BY <1>1, <1>3 DEF AccesoSano
<1>5. /\ TamBloque * n - TamBloque < d + cant /\ d + cant <= TamBloque * n
      /\ TamBloque * n \in Int
  BY <1>1, TechoDe
<1>6. n \in Nat \ {0}
  <2>1. TamBloque * n > 0
    BY <1>1, <1>5
  <2> QED
    BY <1>1, <2>1
<1>7. ASSUME d + cant <= TamBloque PROVE n = 1
  BY <1>1, <1>7, TechoEs
<1>8. cant < TamBloque => n = 1
  BY <1>4, <1>7
<1>9. fisico[a].directo \in Int
  BY TipoDe, FcbDe DEF TipoLeido
<1>10. ASSUME directo
       PROVE  /\ uno \o otros \in Seq(Int) /\ Len(uno \o otros) = n
              /\ \A k \in 1..n : (uno \o otros)[k] = BloqueDe(a, q + k - 1)
  <2>1. q = 0 /\ d = pos
    <3>1. q # 0 => TamBloque * q >= TamBloque
      BY <1>1
    <3>2. q = 0
      BY <1>1, <1>10, <3>1
    <3> QED
      BY <1>1, <3>2
  <2>2. n - 1 \in Nat
    BY <1>6
  <2>3. n - 1 = Techo(IF pos + cant >= TamBloque THEN (pos + cant) - TamBloque ELSE 0)
    <3>1. CASE pos + cant >= TamBloque
      <4>1. TamBloque * (n - 1) = TamBloque * n - TamBloque
        BY <1>1
      <4> QED
        BY <1>1, <1>5, <2>1, <2>2, <3>1, <4>1, TechoEs
    <3>2. CASE ~(pos + cant >= TamBloque)
      <4>1. n = 1
        BY <1>1, <1>7, <2>1, <3>2
      <4>2. Techo(0) = 0
        BY <1>1, TechoEs
      <4> QED
        BY <3>2, <4>1, <4>2
    <3> QED
      BY <3>1, <3>2
  <2> DEFINE lbi == LeerBloquesIndirectos(a, TamBloque, pos + cant)
  <2>4. /\ lbi \in Seq(Int) /\ Len(lbi) = n - 1
        /\ \A k \in 1..(n - 1) : lbi[k] = Puntero(a, 1 - 1 + k - 1)
    <3>1. PICK h \in Int : h = pos + cant
      OBVIOUS
    <3>2. PICK x \in Int : x = IF h >= TamBloque THEN h - TamBloque ELSE 0
      <4>1. (IF h >= TamBloque THEN h - TamBloque ELSE 0) \in Int
        BY <1>1
      <4> QED
        BY <4>1
    <3>3. PICK m \in Nat : m = n - 1
      BY <2>2
    <3>4. m = Techo(x)
      BY <2>3, <3>1, <3>2, <3>3
    <3>5. PICK s \in Int : TamBloque \in Nat /\ s = Parte(TamBloque) /\ s = 1
      <4>1. TamBloque * 1 <= TamBloque /\ TamBloque < TamBloque * 1 + TamBloque
        BY <1>1
      <4>2. Parte(TamBloque) = 1
        BY <1>1, <4>1, CocienteEs DEF Parte
      <4> QED
        BY <1>1, <4>2
    <3>6. /\ LeerBloquesIndirectos(a, TamBloque, h) \in Seq(Int)
          /\ Len(LeerBloquesIndirectos(a, TamBloque, h)) = m
          /\ \A k \in 1..m : LeerBloquesIndirectos(a, TamBloque, h)[k] = Puntero(a, s - 1 + k - 1)
      <4>1. /\ LeerBloquesIndirectos(a, TamBloque, h) \in Seq(Int)
            /\ Len(LeerBloquesIndirectos(a, TamBloque, h)) = m
        BY <3>2, <3>4, <3>5, IndirectosDe
      <4>2. s = Parte(TamBloque) /\ TamBloque \in Nat
        BY <3>5
      <4>3. ASSUME NEW k \in 1..m
            PROVE  LeerBloquesIndirectos(a, TamBloque, h)[k] = Puntero(a, s - 1 + k - 1)
        <5>1. k \in 1..Len(LeerBloquesIndirectos(a, TamBloque, h))
          BY <4>1
        <5> QED
          BY <4>2, <5>1, IndirectosLee
      <4> QED
        BY <4>1, <4>3, Zenon
    <3> QED
      BY <3>1, <3>3, <3>5, <3>6
  <2>6. otros = lbi
    <3>1. CASE cant_bloques >= 1
      BY <1>10, <3>1
    <3>2. CASE ~(cant_bloques >= 1)
      <4>1. PICK c \in Int : c = t \div TamBloque /\ t < TamBloque * c + TamBloque
        BY <1>1, CocienteBloque
      <4>2. ~(c >= 2)
        BY <1>10, <3>2, <4>1
      <4>3. TamBloque * c <= TamBloque * 1
        BY <1>1, <4>2
      <4>4. ~(2 * TamBloque <= t)
        BY <1>1, <4>1, <4>3
      <4>5. ~(TamBloque < pos + cant)
        BY <1>4, <1>10, <4>4
      <4>6. d + cant <= TamBloque
        BY <1>1, <2>1, <4>5
      <4>7. n = 1
        BY <1>7, <4>6
      <4>8. Len(lbi) = 0
        BY <2>4, <4>7
      <4> HIDE DEF lbi
      <4>9. lbi = <<>>
        BY <2>4, <4>8
      <4> QED
        BY <3>2, <4>9
    <3> QED
      BY <3>1, <3>2
  <2> HIDE DEF lbi, otros, cant_bloques, t
  <2>7. uno = <<fisico[a].directo>> /\ uno \in Seq(Int) /\ Len(uno) = 1 /\ uno[1] = fisico[a].directo
    BY <1>9, <1>10
  <2> HIDE DEF uno
  <2>8. /\ uno \o lbi \in Seq(Int) /\ Len(uno \o lbi) = n
        /\ \A k \in 1..n : (uno \o lbi)[k] = IF k <= 1 THEN uno[k] ELSE lbi[k - 1]
    BY <1>6, <2>4, <2>7, Concatenar
  <2>9. ASSUME NEW k \in 1..n PROVE (uno \o lbi)[k] = BloqueDe(a, q + k - 1)
    <3>1. CASE k = 1
      BY <2>1, <2>7, <2>8, <3>1 DEF BloqueDe
    <3>2. CASE k # 1
      <4>1. /\ k - 1 \in 1..(n - 1) /\ ~(k <= 1) /\ q + k - 1 # 0
            /\ 1 - 1 + (k - 1) - 1 = (q + k - 1) - 1
        BY <1>6, <2>1, <3>2
      <4>2. lbi[k - 1] = Puntero(a, 1 - 1 + (k - 1) - 1)
        BY <2>4, <4>1
      <4>3. lbi[k - 1] = Puntero(a, (q + k - 1) - 1)
        BY <4>1, <4>2
      <4> QED
        BY <2>8, <4>1, <4>3 DEF BloqueDe
    <3> QED
      BY <3>1, <3>2
  <2> QED
    BY <2>6, <2>8, <2>9
<1>11. ASSUME ~directo
       PROVE  /\ uno \o otros \in Seq(Int) /\ Len(uno \o otros) = n
              /\ \A k \in 1..n : (uno \o otros)[k] = BloqueDe(a, q + k - 1)
  <2>1. q >= 1
    <3>1. q = 0 => TamBloque * q = 0
      BY <1>1
    <3> QED
      BY <1>1, <1>11, <3>1
  <2>2. n = Techo(IF pos + cant >= pos THEN (pos + cant) - pos ELSE 0)
    <3>1. CASE cant < TamBloque
      <4>1. Techo(cant) = 1
        BY <1>1, <3>1, TechoEs
      <4> QED
        BY <1>1, <1>8, <3>1, <4>1
    <3>2. CASE ~(cant < TamBloque)
      <4>1. cant >= TamBloque
        BY <1>1, <3>2
      <4> QED
        BY <1>1, <1>4, <1>11, <4>1
    <3> QED
      BY <3>1, <3>2
  <2> DEFINE lbi == LeerBloquesIndirectos(a, pos, pos + cant)
  <2>3. /\ lbi \in Seq(Int) /\ Len(lbi) = n
        /\ \A k \in 1..n : lbi[k] = Puntero(a, q - 1 + k - 1)
    <3>1. PICK h \in Int : h = pos + cant
      OBVIOUS
    <3>2. PICK x \in Int : x = IF h >= pos THEN h - pos ELSE 0
      OBVIOUS
    <3>3. n = Techo(x) /\ n \in Nat
      BY <1>6, <2>2, <3>1, <3>2
    <3>4. /\ LeerBloquesIndirectos(a, pos, h) \in Seq(Int)
          /\ Len(LeerBloquesIndirectos(a, pos, h)) = n
          /\ \A k \in 1..n : LeerBloquesIndirectos(a, pos, h)[k] = Puntero(a, q - 1 + k - 1)
      <4>1. q \in Int /\ q = Parte(pos)
        BY DEF Parte
      <4>2. /\ LeerBloquesIndirectos(a, pos, h) \in Seq(Int)
            /\ Len(LeerBloquesIndirectos(a, pos, h)) = n
        BY <3>2, <3>3, IndirectosDe
      <4>3. ASSUME NEW k \in 1..n
            PROVE  LeerBloquesIndirectos(a, pos, h)[k] = Puntero(a, q - 1 + k - 1)
        <5>1. k \in 1..Len(LeerBloquesIndirectos(a, pos, h))
          BY <4>2
        <5> QED
          BY <4>1, <5>1, IndirectosLee
      <4> QED
        BY <4>2, <4>3, Zenon
    <3> QED
      BY <3>1, <3>4
  <2>4. cant_bloques >= 1
    <3>1. PICK c \in Int : c = t \div TamBloque /\ t < TamBloque * c + TamBloque
      BY <1>1, CocienteBloque
    <3>2. t > TamBloque
      BY <1>1, <1>11
    <3>3. c <= 0 => TamBloque * c <= TamBloque * 0
      BY <1>1
    <3>4. c >= 1
      BY <1>1, <3>1, <3>2, <3>3
    <3> QED
      BY <1>11, <3>1, <3>4
  <2>5. otros = lbi /\ uno = <<>>
    BY <1>11, <2>4
  <2> HIDE DEF lbi, otros, uno, t
  <2>6. uno \o otros = lbi
    BY <2>3, <2>5
  <2>7. ASSUME NEW k \in 1..n PROVE lbi[k] = BloqueDe(a, q + k - 1)
    <3>1. q - 1 + k - 1 = (q + k - 1) - 1 /\ q + k - 1 # 0
      BY <1>6, <2>1
    <3> QED
      BY <2>3, <3>1 DEF BloqueDe
  <2> QED
    BY <2>3, <2>6, <2>7
<1> HIDE DEF uno, otros
<1> QED
  BY <1>2, <1>5, <1>6, <1>8, <1>10, <1>11

\* The piece of the k-th of n blocks: p is where its block starts, counted
\* from the first one, and w where the last one ends.
Situado(T, d, cant, n, k, p, w) ==
    /\ T \in Nat \ {0} /\ d \in Nat /\ d < T /\ cant \in Nat \ {0}
    /\ n \in Nat /\ k \in Nat /\ 1 <= k /\ k <= n /\ p \in Int /\ w \in Int
    /\ w - T < d + cant /\ d + cant <= w /\ (cant < T => n = 1)
    /\ (k = n => w = p + T) /\ (k < n => p + T + T <= w)
    /\ (k = 1 => p = 0) /\ (k # 1 => p >= T)

LEMMA Corte ==
    ASSUME NEW T, NEW d, NEW cant, NEW n, NEW k, NEW p, NEW w, Situado(T, d, cant, n, k, p, w)
    PROVE  \E f \in Nat, h \in Nat, y \in Nat, r \in Nat :
              /\ f = IF k = 1 THEN 0 ELSE p - d
              /\ h = IF k = n THEN cant ELSE p + T - d
              /\ y = IF cant < T THEN cant ELSE IF k = n THEN d + cant - p
                     ELSE IF k = 1 THEN T - (d - p) ELSE T
              /\ r = IF k = 1 THEN d ELSE 0
              /\ r = IF cant < T \/ (k = 1 /\ n # 1) THEN d - p ELSE 0
              /\ y = h - f /\ d + f = p + r /\ r + y <= T /\ h <= cant
<1> USE DEF Situado
<1>1. CASE k = 1 /\ n = 1
  <2>1. p = 0 /\ w = T /\ (cant < T \/ (cant = T /\ d = 0)) /\ d + cant <= T
    BY <1>1
  <2> QED
    BY <1>1, <2>1
<1>2. CASE k = 1 /\ n # 1
  <2>1. p = 0 /\ T - d \in Nat /\ cant >= T /\ k < n
    BY <1>2
  <2>2. PICK z \in Nat : z = T - d
    BY <2>1
  <2>3. z <= cant /\ z = p + T - d /\ z = T - (d - p) /\ d = d - p /\ d + 0 = p + d /\ d + z <= T
        /\ ~(cant < T) /\ z = z - 0
    BY <2>1, <2>2
  <2> WITNESS 0 \in Nat, z \in Nat, z \in Nat, d \in Nat
  <2> QED
    BY <1>2, <2>3
<1>3. CASE k # 1 /\ k = n
  <2>1. p - d \in Nat /\ d + cant - p \in Nat /\ cant >= T
    BY <1>3
  <2> QED
    BY <1>3, <2>1
<1>4. CASE k # 1 /\ k # n
  <2>1. p - d \in Nat /\ p + T - d \in Nat /\ cant >= T /\ k < n
    BY <1>4
  <2> QED
    BY <1>4, <2>1
<1> QED
  BY <1>1, <1>2, <1>3, <1>4

LEMMA Cortes ==
    ASSUME NEW T \in Nat \ {0}, NEW q \in Nat, NEW n \in Nat, NEW k \in 1..n
    PROVE  \E p \in Int, u \in Int, w \in Int :
              /\ p = T * (k - 1) /\ T * k = p + T
              /\ u = T * q /\ T * (q + k - 1) = u + p /\ (q + (k - 1)) * T = u + p
              /\ w = T * n
              /\ (k = n => w = p + T) /\ (k < n => p + T + T <= w)
              /\ (k = 1 => p = 0) /\ (k # 1 => p >= T)
<1>1. k \in Int /\ k >= 1 /\ k <= n /\ n \in Int
  OBVIOUS
<1>2. /\ T * (k - 1) \in Int /\ T * q \in Int /\ T * n \in Int
      /\ T * k = T * (k - 1) + T
      /\ T * (q + k - 1) = T * q + T * (k - 1)
      /\ (q + (k - 1)) * T = T * q + T * (k - 1)
  BY <1>1
<1>3. k = n => T * n = T * (k - 1) + T
  BY <1>2
<1>4. k < n => T * (k - 1) + T + T <= T * n
  <2>1. ASSUME k < n PROVE T * (k + 1) <= T * n
    BY <1>1, <2>1
  <2>2. T * (k + 1) = T * k + T
    BY <1>1
  <2> QED
    BY <1>2, <2>1, <2>2
<1>5. k = 1 => T * (k - 1) = 0
  OBVIOUS
<1>6. k # 1 => T * (k - 1) >= T
  <2>1. ASSUME k # 1 PROVE T * (k - 1) >= T * 1
    BY <1>1, <2>1
  <2> QED
    BY <2>1
<1> QED
  BY <1>2, <1>3, <1>4, <1>5, <1>6

Prod(x, y) == x * y

\* An access of cant bytes from pos, which is d bytes into block q, in n blocks
\* of T bytes.
Medidas(T, q, d, pos, cant, n) ==
    /\ T \in Nat \ {0} /\ q \in Nat /\ d \in Nat /\ d < T
    /\ pos \in Nat /\ pos = T * q + d /\ cant \in Nat \ {0}
    /\ n \in Nat \ {0} /\ T * n - T < d + cant /\ d + cant <= T * n
    /\ (cant < T => n = 1)

\* Bytes into its block at which the k-th piece starts, its length, and the
\* bytes of the first k.
Resto(T, q, pos, cant, n, k) ==
    IF cant < T \/ (k = 1 /\ n # 1) THEN pos - (q + (k - 1)) * T ELSE 0
Largo(T, q, pos, cant, n, k) ==
    IF cant < T THEN cant
    ELSE IF k = n THEN pos + cant - (q + (k - 1)) * T
    ELSE IF k = 1 THEN T - (pos - (q + (k - 1)) * T) ELSE T
Fin(T, d, cant, n, k) == IF k = 0 THEN 0 ELSE IF k = n THEN cant ELSE T * k - d

\* Where the k-th piece is, and what it holds.
EsCorte(T, q, d, pos, cant, n, k) ==
    \E f \in Nat, h \in Nat, y \in Nat, r \in Nat, m \in Nat, c \in Int :
        /\ f = Fin(T, d, cant, n, k - 1) /\ h = Fin(T, d, cant, n, k) /\ y = h - f
        /\ y = Largo(T, q, pos, cant, n, k) /\ r = Resto(T, q, pos, cant, n, k)
        /\ m = q + k - 1 /\ c = Prod(T, m) /\ pos + f = c + r /\ r + y <= T /\ h <= cant

LEMMA CorteDe ==
    ASSUME NEW T, NEW q, NEW d, NEW pos, NEW cant, NEW n, Medidas(T, q, d, pos, cant, n),
           NEW k \in 1..n
    PROVE  EsCorte(T, q, d, pos, cant, n, k)
<1>0. /\ T \in Nat \ {0} /\ q \in Nat /\ d \in Nat /\ d < T /\ pos \in Nat /\ cant \in Nat \ {0}
      /\ n \in Nat /\ (cant < T => n = 1)
  BY DEF Medidas
<1>1. n \in Nat /\ k \in Nat /\ 1 <= k /\ k <= n
      /\ (k - 1 = 0 <=> k = 1) /\ k - 1 # n /\ k # 0 /\ q + k - 1 \in Nat
  BY <1>0
<1>2. PICK p \in Int, u \in Int, w \in Int :
         /\ p = T * (k - 1) /\ T * k = p + T
         /\ u = T * q /\ T * (q + k - 1) = u + p /\ (q + (k - 1)) * T = u + p
         /\ w = T * n
         /\ (k = n => w = p + T) /\ (k < n => p + T + T <= w)
         /\ (k = 1 => p = 0) /\ (k # 1 => p >= T)
  BY <1>0, <1>1, Cortes
<1>3. w - T < d + cant /\ d + cant <= w /\ pos = u + d
  BY <1>2 DEF Medidas
<1>4. PICK f \in Nat, h \in Nat, y \in Nat, r \in Nat :
              /\ f = IF k = 1 THEN 0 ELSE p - d
              /\ h = IF k = n THEN cant ELSE p + T - d
              /\ y = IF cant < T THEN cant ELSE IF k = n THEN d + cant - p
                     ELSE IF k = 1 THEN T - (d - p) ELSE T
              /\ r = IF k = 1 THEN d ELSE 0
              /\ r = IF cant < T \/ (k = 1 /\ n # 1) THEN d - p ELSE 0
              /\ y = h - f /\ d + f = p + r /\ r + y <= T /\ h <= cant
  <2>1. Situado(T, d, cant, n, k, p, w)
    BY <1>0, <1>1, <1>2, <1>3 DEF Situado
  <2> QED
    BY <2>1, Corte
<1>5. f = Fin(T, d, cant, n, k - 1)
  BY <1>1, <1>2, <1>4 DEF Fin
<1>6. h = Fin(T, d, cant, n, k)
  <2>1. Fin(T, d, cant, n, k) = IF k = n THEN cant ELSE T * k - d
    BY <1>1 DEF Fin
  <2>2. T * k = p + T
    BY <1>2
  <2>3. h = IF k = n THEN cant ELSE (p + T) - d
    BY <1>0, <1>1, <1>4
  <2> QED
    BY <2>1, <2>2, <2>3
<1>7. pos - (u + p) = d - p /\ pos + cant - (u + p) = d + cant - p
  BY <1>0, <1>3
<1>8. y = Largo(T, q, pos, cant, n, k)
  BY <1>2, <1>4, <1>7 DEF Largo
<1>9. r = Resto(T, q, pos, cant, n, k)
  BY <1>2, <1>4, <1>7 DEF Resto
<1>10. PICK m \in Nat, c \in Int : m = q + k - 1 /\ c = Prod(T, m) /\ c = u + p
  BY <1>0, <1>1, <1>2 DEF Prod
<1>11. pos + f = c + r
  BY <1>0, <1>3, <1>4, <1>10
<1> QED
  BY <1>4, <1>5, <1>6, <1>8, <1>9, <1>10, <1>11 DEF EsCorte

\* L gives the place of each byte, from the block B of its part of T bytes.
Coloca(T, B, L) ==
    \A m \in Nat, z \in Nat, i \in Nat : z < T /\ i = Prod(T, m) + z => L[i] = Prod(B[m], T) + z

\* Pieces cut so, laid one after the other, are the places from pos on.
Cortado(T, q, pos, cant, n, B, desde, tamanio) ==
    \A k \in 1..n : /\ desde[k] = Prod(B[q + k - 1], T) + Resto(T, q, pos, cant, n, k)
                   /\ tamanio[k] = Largo(T, q, pos, cant, n, k)

Pegados(n, desde, tamanio) ==
    FlattenSeq([k \in 1..n |-> [j \in 1..tamanio[k] |-> desde[k] + j - 1]])
Seguidos(L, pos, cant) == [j \in 1..cant |-> L[pos + j - 1]]

Trozado(T, q, d, pos, cant, n, B, L, desde, tamanio) ==
    /\ Medidas(T, q, d, pos, cant, n) /\ B \in [Nat -> Int] /\ L \in [Nat -> Int]
    /\ Coloca(T, B, L) /\ Cortado(T, q, pos, cant, n, B, desde, tamanio)

LEMMA Piezas ==
    ASSUME NEW T, NEW q, NEW d, NEW pos, NEW cant, NEW n, NEW B, NEW L, NEW desde, NEW tamanio,
           Trozado(T, q, d, pos, cant, n, B, L, desde, tamanio)
    PROVE  Pegados(n, desde, tamanio) = Seguidos(L, pos, cant)
<1> DEFINE s == [k \in 1..n |-> [j \in 1..tamanio[k] |-> desde[k] + j - 1]]
           g == [j \in 1..cant |-> L[pos + j - 1]]
           fin == [k \in 0..n |-> Fin(T, d, cant, n, k)]
<1> SUFFICES ASSUME Medidas(T, q, d, pos, cant, n), B \in [Nat -> Int], L \in [Nat -> Int],
                    Coloca(T, B, L), Cortado(T, q, pos, cant, n, B, desde, tamanio)
             PROVE  Pegados(n, desde, tamanio) = Seguidos(L, pos, cant)
  BY DEF Trozado
<1>1. /\ T \in Nat /\ pos \in Nat /\ cant \in Nat /\ n \in Nat /\ n # 0
      /\ fin[0] = 0 /\ fin[n] = cant
  <2>1. /\ T \in Nat /\ pos \in Nat /\ cant \in Nat /\ n \in Nat /\ n # 0
    BY DEF Medidas
  <2>2. 0 \in 0..n /\ n \in 0..n
    BY <2>1
  <2>3. fin[0] = Fin(T, d, cant, n, 0) /\ fin[n] = Fin(T, d, cant, n, n)
    BY <2>2
  <2> QED
    BY <2>1, <2>3 DEF Fin
<1>2. ASSUME NEW k \in 1..n
      PROVE  \E f \in Nat, h \in Nat, y \in Nat, r \in Nat, m \in Nat, c \in Int, x \in Int :
                /\ f = fin[k - 1] /\ h = fin[k] /\ y = h - f /\ y = tamanio[k]
                /\ m = q + k - 1 /\ x = Prod(B[m], T) /\ desde[k] = x + r
                /\ c = Prod(T, m) /\ pos + f = c + r /\ r + y <= T /\ h <= cant
  <2>1. PICK f \in Nat, h \in Nat, y \in Nat, r \in Nat, m \in Nat, c \in Int :
              /\ f = Fin(T, d, cant, n, k - 1) /\ h = Fin(T, d, cant, n, k) /\ y = h - f
              /\ y = Largo(T, q, pos, cant, n, k) /\ r = Resto(T, q, pos, cant, n, k)
              /\ m = q + k - 1 /\ c = Prod(T, m) /\ pos + f = c + r /\ r + y <= T /\ h <= cant
    <3>1. EsCorte(T, q, d, pos, cant, n, k)
      BY CorteDe
    <3> QED
      BY <3>1 DEF EsCorte
  <2>2. k \in 0..n /\ k - 1 \in 0..n
    BY <1>1
  <2>3. f = fin[k - 1] /\ h = fin[k]
    BY <2>1, <2>2
  <2>4. PICK x \in Int : x = Prod(B[m], T)
    <3>1. B[m] * T \in Int
      BY <1>1
    <3> QED
      BY <3>1 DEF Prod
  <2>5. desde[k] = x + r /\ y = tamanio[k]
    BY <2>1, <2>4 DEF Cortado
  <2> HIDE DEF fin
  <2> QED
    BY <2>1, <2>3, <2>4, <2>5
<1> HIDE DEF g, fin
<1>3. ASSUME NEW k \in 1..n
      PROVE  /\ s[k] \in Seq(Int) /\ Len(s[k]) = tamanio[k] /\ tamanio[k] \in Nat
             /\ \A j \in 1..Len(s[k]) : s[k][j] = desde[k] + j - 1
  <2>1. PICK x \in Int, y \in Nat : x = desde[k] /\ y = tamanio[k]
    <3>1. PICK f \in Nat, h \in Nat, y \in Nat, r \in Nat, m \in Nat, c \in Int, x \in Int :
                /\ f = fin[k - 1] /\ h = fin[k] /\ y = h - f /\ y = tamanio[k]
                /\ m = q + k - 1 /\ x = Prod(B[m], T) /\ desde[k] = x + r
                /\ c = Prod(T, m) /\ pos + f = c + r /\ r + y <= T /\ h <= cant
      BY <1>2
    <3>2. x + r \in Int
      OBVIOUS
    <3> QED
      BY <3>1, <3>2
  <2>2. s[k] = [j \in 1..y |-> x + j - 1]
    BY <2>1
  <2>3. PICK l : l = s[k]
    OBVIOUS
  <2> HIDE DEF s
  <2>4. l \in Seq(Int) /\ Len(l) = y /\ \A j \in 1..y : l[j] = x + j - 1
    BY <2>2, <2>3
  <2> QED
    BY <2>1, <2>3, <2>4
<1>4. s \in Seq(Seq(Int)) /\ Len(s) = n /\ s # <<>>
  <2>1. s = [k \in 1..n |-> s[k]] /\ \A k \in 1..n : s[k] \in Seq(Int)
    BY <1>3
  <2> HIDE DEF s
  <2>2. s \in Seq(Seq(Int)) /\ Len(s) = n
    BY <1>1, <2>1, SecuenciaDe
  <2> QED
    BY <1>1, <2>2
<1> HIDE DEF s
<1>5. fin \in [0..n -> Nat]
  <2>1. ASSUME NEW k \in 0..n PROVE fin[k] \in Nat
    <3>1. k = 0 \/ k \in 1..n
      BY <1>1
    <3> QED
      BY <1>1, <1>2, <3>1
  <2>2. fin = [k \in 0..n |-> fin[k]]
    BY DEF fin
  <2> QED
    BY <2>1, <2>2
<1>6. ASSUME NEW k \in 1..n
      PROVE  /\ Len(s[k]) = fin[k] - fin[k - 1]
             /\ \A j \in 1..Len(s[k]) : s[k][j] = g[fin[k - 1] + j]
  <2>1. PICK f \in Nat, h \in Nat, y \in Nat, r \in Nat, m \in Nat, c \in Int, x \in Int :
                /\ f = fin[k - 1] /\ h = fin[k] /\ y = h - f /\ y = tamanio[k]
                /\ m = q + k - 1 /\ x = Prod(B[m], T) /\ desde[k] = x + r
                /\ c = Prod(T, m) /\ pos + f = c + r /\ r + y <= T /\ h <= cant
    BY <1>2
  <2>2. Len(s[k]) = y /\ \A j \in 1..y : s[k][j] = (x + r) + j - 1
    BY <1>3, <2>1
  <2>3. ASSUME NEW j \in 1..y PROVE s[k][j] = g[f + j]
    <3>1. f + j \in 1..cant
      BY <1>1, <2>1
    <3>2. g[f + j] = L[pos + (f + j) - 1]
      BY <3>1 DEF g
    <3>3. PICK i \in Nat, z \in Nat : i = pos + (f + j) - 1 /\ z = r + j - 1 /\ z < T /\ i = c + z
      <4>1. /\ pos + (f + j) - 1 \in Nat /\ r + j - 1 \in Nat /\ r + j - 1 < T
            /\ pos + (f + j) - 1 = c + (r + j - 1)
        BY <1>1, <2>1
      <4> QED
        BY <4>1
    <3>4. L[i] = x + z
      BY <2>1, <3>3 DEF Coloca
    <3>5. (x + r) + j - 1 = x + z
      BY <3>3
    <3> QED
      BY <2>2, <3>2, <3>3, <3>4, <3>5
  <2> QED
    BY <2>1, <2>2, <2>3
<1>7. FlattenSeq(s) = [j \in 1..cant |-> g[j]]
  <2>1. fin \in [0..Len(s) -> Nat] /\ fin[Len(s)] = cant /\ fin[0] = 0
    BY <1>1, <1>4, <1>5
  <2>2. Sigue(s, g, fin)
    BY <1>4, <1>6 DEF Sigue
  <2>3. FlattenSeq(s) = [j \in 1..fin[Len(s)] |-> g[j]]
    BY <1>4, <2>1, <2>2, Aplanado
  <2> QED
    BY <2>1, <2>3
<1>8. FlattenSeq(s) = g
  BY <1>7 DEF g
<1> QED
  BY <1>8 DEF s, g, Pegados, Seguidos

\* armar_lista_offsets cuts an access where its bytes are.
LEMMA TramosBien ==
    ASSUME TipoOK, NEW a \in DOMAIN fisico, NEW pos \in Nat, NEW cant \in Nat \ {0},
           Entra(a, pos, cant), AccesoSano(fisico[a].tamanio, pos, cant)
    PROVE  Lugares(ArmarListaOffsets(a, pos, cant)) = [j \in 1..cant |-> LugarDe(a, pos + j - 1)]
<1>1. TamBloque \in Nat \ {0}
  BY TamNat
<1>2. PICK q \in Nat : /\ q = pos \div TamBloque /\ TamBloque * q \in Int
                       /\ TamBloque * q <= pos /\ pos < TamBloque * q + TamBloque
  BY <1>1, CocienteBloque
<1>3. PICK d \in 0..TamBloque - 1 : pos = TamBloque * q + d
  <2>1. pos - TamBloque * q \in 0..TamBloque - 1 /\ pos = TamBloque * q + (pos - TamBloque * q)
    BY <1>1, <1>2
  <2> QED
    BY <2>1
<1>4. PICK n \in Int : n = Techo(d + cant)
  BY <1>1, TechoDe
<1>5. PICK bloques \in Seq(Int) :
        /\ bloques = ObtenerListaDeBloques(a, pos, cant) /\ Len(bloques) = n
        /\ \A k \in 1..n : bloques[k] = BloqueDe(a, q + k - 1)
        /\ n \in Nat \ {0} /\ TamBloque * n - TamBloque < d + cant /\ d + cant <= TamBloque * n
        /\ (cant < TamBloque => n = 1)
  BY <1>2, <1>3, <1>4, BloquesExactos
<1>6. Medidas(TamBloque, q, d, pos, cant, n)
  BY <1>1, <1>3, <1>5 DEF Medidas
<1> DEFINE B == [m \in Nat |-> BloqueDe(a, m)]
           L == [i \in Nat |-> LugarDe(a, i)]
           tramos == ArmarListaOffsets(a, pos, cant)
           desde == [k \in 1..n |-> tramos[k].desde]
           tamanio == [k \in 1..n |-> tramos[k].tamanio]
<1>7. B \in [Nat -> Int] /\ L \in [Nat -> Int]
  <2>1. \A m : BloqueDe(a, m) \in Int
    BY PunteroTipo, TipoDe, FcbDe DEF BloqueDe, TipoLeido
  <2>2. ASSUME NEW i \in Nat PROVE LugarDe(a, i) \in Int
    <3>1. i % TamBloque \in Int
      BY <1>1, Cociente
    <3>2. fisico[a].directo \in Int /\ \A k : Puntero(a, k) \in Int
      BY PunteroTipo, TipoDe, FcbDe DEF TipoLeido
    <3> QED
      BY <1>1, <3>1, <3>2 DEF LugarDe
  <2> QED
    BY <2>1, <2>2
<1>8. Coloca(TamBloque, B, L)
  <2> SUFFICES ASSUME NEW m \in Nat, NEW z \in Nat, NEW i \in Nat,
                      z < TamBloque, i = TamBloque * m + z
               PROVE  L[i] = B[m] * TamBloque + z
    BY DEF Coloca, Prod
  <2>1. z \in 0..TamBloque - 1
    BY <1>1
  <2>2. LugarDe(a, i) = BloqueDe(a, m) * TamBloque + z
    BY <2>1, LugarEs
  <2> QED
    BY <2>2
<1>9. /\ DOMAIN tramos = 1..n
      /\ \A k \in 1..n : /\ desde[k] = Prod(B[q + k - 1], TamBloque) + Resto(TamBloque, q, pos, cant, n, k)
                         /\ tamanio[k] = Largo(TamBloque, q, pos, cant, n, k)
  <2>1. n = Len(bloques) /\ bloques = ObtenerListaDeBloques(a, pos, cant) /\ n \in Nat
    BY <1>5
  <2>2. /\ DOMAIN tramos = 1..n
        /\ \A k \in 1..n : /\ tramos[k].desde = DesdeTramo(pos, cant, n, k, bloques[k])
                           /\ tramos[k].tamanio = TamTramo(pos, cant, n, k)
    BY <2>1, TramosDe
  <2>3. ASSUME NEW k \in 1..n PROVE bloques[k] = B[q + k - 1]
    <3>1. q + k - 1 \in Nat
      BY <2>1
    <3> QED
      BY <1>5, <3>1
  <2> HIDE DEF tramos, B
  <2>4. ASSUME NEW k \in 1..n
        PROVE  /\ DesdeTramo(pos, cant, n, k, bloques[k])
                    = Prod(B[q + k - 1], TamBloque) + Resto(TamBloque, q, pos, cant, n, k)
               /\ TamTramo(pos, cant, n, k) = Largo(TamBloque, q, pos, cant, n, k)
    <3>1. bloques[k] = B[q + k - 1] /\ q = pos \div TamBloque
      BY <1>2, <2>3
    <3> QED
      BY <3>1, Zenon DEF DesdeTramo, TamTramo, Prod, Resto, Largo
  <2> QED
    BY <2>2, <2>4
<1> HIDE DEF B, L
<1>10. Pegados(n, desde, tamanio) = Seguidos(L, pos, cant)
  <2> HIDE DEF desde, tamanio, tramos
  <2>1. Cortado(TamBloque, q, pos, cant, n, B, desde, tamanio)
    BY <1>9 DEF Cortado
  <2>2. Trozado(TamBloque, q, d, pos, cant, n, B, L, desde, tamanio)
    BY <1>6, <1>7, <1>8, <2>1 DEF Trozado
  <2> QED
    BY <2>2, Piezas
<1>11. Lugares(tramos) = Pegados(n, desde, tamanio)
  <2>1. [k \in DOMAIN tramos |-> [j \in 1..tramos[k].tamanio |-> tramos[k].desde + j - 1]]
          = [k \in 1..n |-> [j \in 1..tamanio[k] |-> desde[k] + j - 1]]
    <3> HIDE DEF tramos
    <3> QED
      BY <1>9
  <2> QED
    BY <2>1 DEF Lugares, Pegados
<1>12. Seguidos(L, pos, cant) = [j \in 1..cant |-> LugarDe(a, pos + j - 1)]
  <2>1. \A j \in 1..cant : pos + j - 1 \in Nat
    OBVIOUS
  <2> QED
    BY <2>1 DEF L, Seguidos
<1> QED
  BY <1>10, <1>11, <1>12 DEF tramos

\* An access is cut into the places of its bytes, for every block size, file
\* size and access that AccesoSano admits (fileSystem.c:830-920).
THEOREM TramosExactosCorrecto == Spec => []TramosExactos
<1>1. Base => TramosExactos
  <2> SUFFICES ASSUME Base, NEW a \in DOMAIN fisico \ viejos,
                      NEW acceso \in (0..TamanioMaximo) \X (1..TamanioMaximo),
                      Entra(a, acceso[1], acceso[2]),
                      AccesoSano(fisico[a].tamanio, acceso[1], acceso[2])
               PROVE  Lugares(ArmarListaOffsets(a, acceso[1], acceso[2]))
                        = [j \in 1..acceso[2] |-> LugarDe(a, acceso[1] + j - 1)]
    BY DEF TramosExactos
  <2>1. acceso[1] \in Nat /\ acceso[2] \in Nat \ {0}
    OBVIOUS
  <2> QED
    BY <2>1, TramosBien DEF Base
<1> QED
  BY <1>1, BaseInicial, BaseInductiva, PTL DEF Spec
=============================================================================
