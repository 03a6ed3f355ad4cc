--------------------------- MODULE BloquesProofs ---------------------------
(***************************************************************************)
(* The blocks of the files of SistemaArchivos.                             *)
(*                                                                         *)
(* A block is taken for one file only. That a file's blocks are its own is *)
(* inductive with two facts more: no file outgrows the pointers of one     *)
(* block, so escribir_bloques_indirectos stays in the block it was given,  *)
(* and block 0 is nobody's but as a first block, so that the 0 for "no     *)
(* indirect block" of achicar_archivo is never a block it frees.           *)
(*                                                                         *)
(* From that and the pieces of an access the file system implements Disco: *)
(* bytes in different places, or in blocks that a request leaves alone,    *)
(* stay.                                                                   *)
(***************************************************************************)
EXTENDS SistemaArchivosProofs

-----------------------------------------------------------------------------
(* The blocks of a file. *)

\* Files created or emptied since the last start.
Nuevos == DOMAIN fisico \ viejos

\* Pointers in a block, data blocks of a file, and blocks with that of its
\* pointers.
Punteros == TamBloque \div TamPuntero
Partes(a) == Techo(fisico[a].tamanio)
Cuantos(a) == IF Partes(a) > 1 THEN Partes(a) + 1 ELSE Partes(a)

\* The block of data first, that of pointers second.
Bloque(a, k) ==
    IF k = 1 THEN fisico[a].directo ELSE IF k = 2 THEN fisico[a].indirecto ELSE Puntero(a, k - 3)

Sano(a) ==
    /\ Partes(a) <= Punteros + 1
    /\ \A k \in 1..Cuantos(a) : Bloque(a, k) \in bitmap /\ (k # 1 => Bloque(a, k) # 0)
    /\ \A k, l \in 1..Cuantos(a) : Bloque(a, k) = Bloque(a, l) => k = l

Ajenos(a, b) == \A k \in 1..Cuantos(a), l \in 1..Cuantos(b) : Bloque(a, k) # Bloque(b, l)

\* The inductive invariant.
Propiedad == \A a \in Nuevos : Sano(a) /\ \A b \in Nuevos : a # b => Ajenos(a, b)

\* A step leaves a file its blocks.
Igual(b) ==
    /\ Cuantos(b)' = Cuantos(b) /\ Partes(b)' = Partes(b)
    /\ \A k \in 1..Cuantos(b) : Bloque(b, k)' = Bloque(b, k) /\ Bloque(b, k) \in bitmap'

LEMMA PunterosDe ==
    /\ Punteros \in Nat /\ Punteros >= 0
    /\ \A k \in Nat : k < Punteros => k * TamPuntero \in 0..TamBloque - 1
<1>1. TamBloque \in Nat \ {0} /\ TamPuntero \in Nat \ {0} /\ TamBloque % TamPuntero = 0
  BY SupuestosSistemaArchivos
<1>2. Punteros \in Nat /\ TamBloque = TamPuntero * Punteros
  <2>1. TamBloque >= 0 /\ TamBloque \in Int
    BY <1>1
  <2>2. /\ TamBloque \div TamPuntero \in Int /\ (TamBloque >= 0 => TamBloque \div TamPuntero \in Nat)
        /\ TamBloque = TamPuntero * (TamBloque \div TamPuntero) + (TamBloque % TamPuntero)
    BY <1>1, <2>1, Cociente
  <2>3. PICK c \in Nat : c = TamBloque \div TamPuntero
    BY <2>1, <2>2
  <2>4. TamBloque = TamPuntero * c + 0
    BY <1>1, <2>2, <2>3
  <2>5. TamPuntero * c \in Int
    BY <1>1
  <2> QED
    BY <2>3, <2>4, <2>5 DEF Punteros
<1>3. ASSUME NEW k \in Nat, k < Punteros PROVE k * TamPuntero \in 0..TamBloque - 1
  <2>1. PICK x \in Nat : x = k * TamPuntero /\ (k + 1) * TamPuntero = x + TamPuntero
    BY <1>1
  <2>2. (k + 1) * TamPuntero <= TamPuntero * Punteros
    <3>1. k + 1 <= Punteros
      BY <1>2, <1>3
    <3> QED
      BY <1>1, <1>2, <3>1
  <2> QED
    BY <1>1, <1>2, <2>1, <2>2
<1> QED
  BY <1>2, <1>3

\* Places in different blocks are different.
LEMMA Direcciones ==
    ASSUME NEW x \in Int, NEW y \in Int, NEW r \in 0..TamBloque - 1, NEW s \in 0..TamBloque - 1,
           x * TamBloque + r = y * TamBloque + s
    PROVE  x = y /\ r = s
<1>1. PICK u \in Int, w \in Int : u = x * TamBloque /\ w = y * TamBloque
  BY TamNat
<1>2. u + r = w + s /\ TamBloque \in Nat
  BY <1>1, TamNat
<1>3. ~(x < y)
  <2> SUFFICES ASSUME x + 1 <= y PROVE FALSE
    OBVIOUS
  <2>1. (x + 1) * TamBloque <= w
    BY <1>1, TamNat
  <2>2. (x + 1) * TamBloque = u + TamBloque
    BY <1>1, TamNat
  <2> QED
    BY <1>2, <2>1, <2>2
<1>4. ~(y < x)
  <2> SUFFICES ASSUME y + 1 <= x PROVE FALSE
    OBVIOUS
  <2>1. (y + 1) * TamBloque <= u
    BY <1>1, TamNat
  <2>2. (y + 1) * TamBloque = w + TamBloque
    BY <1>1, TamNat
  <2> QED
    BY <1>2, <2>1, <2>2
<1>5. x = y
  BY <1>3, <1>4
<1> QED
  BY <1>1, <1>2, <1>5

LEMMA EnElDisco ==
    ASSUME NEW x \in Bloques, NEW r \in 0..TamBloque - 1
    PROVE  x * TamBloque + r \in 0..NBloques * TamBloque - 1
<1>1. x \in Nat /\ x + 1 <= NBloques /\ NBloques \in Nat /\ TamBloque \in Nat
  BY TamNat DEF Bloques
<1>2. PICK u \in Nat, w \in Nat : u = x * TamBloque /\ w = NBloques * TamBloque
  BY <1>1
<1>3. u + TamBloque <= w
  <2>1. (x + 1) * TamBloque <= w
    BY <1>1, <1>2
  <2>2. (x + 1) * TamBloque = u + TamBloque
    BY <1>1, <1>2
  <2> QED
    BY <2>1, <2>2
<1> QED
  BY <1>1, <1>2, <1>3

LEMMA PartesDe ==
    ASSUME TipoOK, NEW a \in DOMAIN fisico
    PROVE  /\ Partes(a) \in Nat /\ Cuantos(a) \in Nat /\ fisico[a].tamanio \in Nat
           /\ fisico[a].directo \in Int /\ fisico[a].indirecto \in Int
           /\ \A k \in 3..Cuantos(a) : k - 3 \in 0..Partes(a) - 2
           /\ fisico[a].tamanio = 0 => Partes(a) = 0 /\ Cuantos(a) = 0
<1>1. /\ fisico[a].tamanio \in Nat
      /\ fisico[a].directo \in Int /\ fisico[a].indirecto \in Int
  BY TipoDe, FcbDe DEF TipoLeido
<1>2. Partes(a) \in Nat
  BY <1>1, TechoTipo DEF Partes
<1>3. Techo(0) = 0
  BY TechoEs, TamNat
<1> QED
  BY <1>1, <1>2, <1>3 DEF Cuantos, Partes

LEMMA IgualDe ==
    ASSUME TipoOK, NEW b \in DOMAIN fisico, fisico'[b] = fisico[b],
           \A k \in 1..Cuantos(b) : Bloque(b, k) \in bitmap',
           \A k \in 0..Partes(b) - 2 : Puntero(b, k)' = Puntero(b, k)
    PROVE  Igual(b)
<1>1. Partes(b)' = Partes(b) /\ Cuantos(b)' = Cuantos(b)
  BY DEF Partes, Cuantos, Techo
<1>2. ASSUME NEW k \in 1..Cuantos(b) PROVE Bloque(b, k)' = Bloque(b, k)
  <2>1. k = 1 \/ k = 2 \/ k \in 3..Cuantos(b)
    BY PartesDe
  <2>2. CASE k = 1 \/ k = 2
    BY <2>2 DEF Bloque
  <2>3. CASE k \in 3..Cuantos(b)
    <3>1. k - 3 \in 0..Partes(b) - 2 /\ k # 1 /\ k # 2
      BY <2>3, PartesDe
    <3>2. Bloque(b, k) = Puntero(b, k - 3) /\ Bloque(b, k)' = Puntero(b, k - 3)'
      BY <3>1 DEF Bloque
    <3> QED
      BY <3>1, <3>2
  <2> QED
    BY <2>1, <2>2, <2>3
<1> QED
  BY <1>1, <1>2 DEF Igual

LEMMA PunteroQuieto ==
    ASSUME NEW b, NEW k, fisico'[b] = fisico[b], bytes' = bytes
    PROVE  Puntero(b, k)' = Puntero(b, k)
  BY DEF Puntero, Byte

\* A step that leaves the blocks of every file but one, whose blocks are then
\* its own.
LEMMA PasoDe ==
    ASSUME Propiedad, NEW a,
           \A b \in Nuevos' : b # a => b \in Nuevos /\ Igual(b),
           a \in Nuevos' =>
              /\ Sano(a)'
              /\ \A b \in Nuevos : b # a =>
                    \A k \in 1..Cuantos(a)', l \in 1..Cuantos(b) : Bloque(a, k)' # Bloque(b, l)
    PROVE  Propiedad'
<1>1. ASSUME NEW b \in Nuevos', b # a PROVE Sano(b)'
  <2>1. Sano(b) /\ Igual(b)
    BY <1>1 DEF Propiedad
  <2> QED
    BY <2>1 DEF Sano, Igual
<1>2. ASSUME NEW b \in Nuevos', NEW c \in Nuevos', b # c PROVE Ajenos(b, c)'
  <2>1. CASE b # a /\ c # a
    <3>1. Ajenos(b, c) /\ Igual(b) /\ Igual(c)
      BY <1>2, <2>1 DEF Propiedad
    <3> QED
      BY <3>1 DEF Ajenos, Igual
  <2>2. CASE b = a
    <3>1. Igual(c) /\ c \in Nuevos /\ c # a
      BY <1>2, <2>2
    <3>2. \A k \in 1..Cuantos(a)', l \in 1..Cuantos(c) : Bloque(a, k)' # Bloque(c, l)
      BY <2>2, <3>1
    <3> QED
      BY <2>2, <3>1, <3>2 DEF Ajenos, Igual
  <2>3. CASE c = a
    <3>1. Igual(b) /\ b \in Nuevos /\ b # a
      BY <1>2, <2>3
    <3>2. \A k \in 1..Cuantos(a)', l \in 1..Cuantos(b) : Bloque(a, k)' # Bloque(b, l)
      BY <2>3, <3>1
    <3> QED
      BY <2>3, <3>1, <3>2 DEF Ajenos, Igual
  <2> QED
    BY <2>1, <2>2, <2>3
<1>3. \A b \in Nuevos' : Sano(b)'
  BY <1>1
<1> QED
  BY <1>2, <1>3 DEF Propiedad

\* A step that leaves every file its blocks.
LEMMA PasoIgual ==
    ASSUME Propiedad, \A b \in Nuevos' : b \in Nuevos /\ Igual(b)
    PROVE  Propiedad'
<1>1. ASSUME NEW b \in Nuevos' PROVE Sano(b)'
  <2>1. Sano(b) /\ Igual(b)
    BY DEF Propiedad
  <2> QED
    BY <2>1 DEF Sano, Igual
<1>2. ASSUME NEW b \in Nuevos', NEW c \in Nuevos', b # c PROVE Ajenos(b, c)'
  <2>1. Ajenos(b, c) /\ Igual(b) /\ Igual(c)
    BY <1>2 DEF Propiedad
  <2> QED
    BY <2>1 DEF Ajenos, Igual
<1> QED
  BY <1>1, <1>2 DEF Propiedad

\* An empty file has no blocks.
LEMMA VacioDe ==
    ASSUME TipoOK, NEW a \in DOMAIN fisico, fisico[a].tamanio = 0
    PROVE  Partes(a) = 0 /\ Cuantos(a) = 0 /\ Sano(a)
<1>1. Partes(a) = 0 /\ Cuantos(a) = 0
  BY PartesDe
<1>2. 0 <= Punteros + 1 /\ 1..0 = {}
  BY PunterosDe
<1> QED
  BY <1>1, <1>2 DEF Sano

SinBloques ==
    \A b \in DOMAIN fisico : fisico[b].tamanio = 0 => Cuantos(b) = 0 /\ Sano(b)

LEMMA VacioSigue == TipoOK' => SinBloques'
<1>1. TipoOK => SinBloques
  BY VacioDe DEF SinBloques
<1> QED
  BY <1>1, PTL

-----------------------------------------------------------------------------
(* The steps. *)

\* Requests that change no FCB, bitmap or pointer.
LEMMA PropiedadQuieta ==
    ASSUME Base, Propiedad, UNCHANGED <<fisico, bitmap, bytes, viejos>>
    PROVE  Propiedad'
<1>1. \A b \in Nuevos' : b \in Nuevos /\ b \in DOMAIN fisico
  BY DEF Nuevos
<1>2. ASSUME NEW b \in Nuevos' PROVE Igual(b)
  <2>1. b \in DOMAIN fisico /\ fisico'[b] = fisico[b]
        /\ \A k \in 1..Cuantos(b) : Bloque(b, k) \in bitmap'
    BY <1>1 DEF Propiedad, Sano
  <2>2. \A k : Puntero(b, k)' = Puntero(b, k)
    BY PunteroQuieto
  <2> QED
    BY <2>1, <2>2, IgualDe DEF Base
<1> QED
  BY <1>1, <1>2, PasoIgual

LEMMA PropiedadCrear ==
    ASSUME Base, Base', Propiedad, NEW a \in Nombres, Crear(a)
    PROVE  Propiedad'
<1>1. /\ a \notin DOMAIN fisico /\ UNCHANGED <<bitmap, bytes, viejos>>
      /\ DOMAIN fisico' = DOMAIN fisico \cup {a} /\ fisico'[a] = Fcb(0, 0, 0)
      /\ \A b \in DOMAIN fisico : fisico'[b] = fisico[b]
  BY DEF Crear
<1>2. \A b \in Nuevos' : b # a => b \in Nuevos /\ b \in DOMAIN fisico
  BY <1>1 DEF Nuevos
<1>3. ASSUME NEW b \in Nuevos', b # a PROVE Igual(b)
  <2>1. b \in DOMAIN fisico /\ fisico'[b] = fisico[b]
        /\ \A k \in 1..Cuantos(b) : Bloque(b, k) \in bitmap'
    BY <1>1, <1>2, <1>3 DEF Propiedad, Sano
  <2>2. \A k : Puntero(b, k)' = Puntero(b, k)
    BY <1>1, <2>1, PunteroQuieto
  <2> QED
    BY <1>1, <2>1, <2>2, IgualDe DEF Base
<1>4. Cuantos(a)' = 0 /\ Sano(a)'
  BY <1>1, VacioSigue DEF Base, Fcb, SinBloques
<1>5. \A k \in 1..Cuantos(a)' : FALSE
  BY <1>4
<1> QED
  BY <1>2, <1>3, <1>4, <1>5, PasoDe

LEMMA PropiedadReiniciar ==
    ASSUME Base, Base', Reiniciar
    PROVE  Propiedad'
<1>1. fisico' = fisico /\ viejos' = {a \in DOMAIN fisico : fisico[a].tamanio > 0}
  BY DEF Reiniciar
<1>2. ASSUME NEW a \in Nuevos' PROVE Cuantos(a)' = 0 /\ Sano(a)'
  <2>1. a \in DOMAIN fisico' /\ ~(fisico[a].tamanio > 0) /\ a \in DOMAIN fisico
    BY <1>1 DEF Nuevos
  <2>2. fisico[a].tamanio \in Nat
    BY <2>1, PartesDe DEF Base
  <2>3. fisico'[a].tamanio = 0
    BY <1>1, <2>1, <2>2
  <2> QED
    BY <2>1, <2>3, VacioSigue DEF Base, SinBloques
<1>3. ASSUME NEW a \in Nuevos', NEW b \in Nuevos' PROVE Ajenos(a, b)'
  <2>1. \A k \in 1..Cuantos(a)' : FALSE
    BY <1>2
  <2> QED
    BY <2>1 DEF Ajenos
<1> QED
  BY <1>2, <1>3 DEF Propiedad

-----------------------------------------------------------------------------
(* achicar_archivo. *)

\* The list that a truncation starts from: the blocks of the file, with the
\* direct one again in the place of the indirect one.
LEMMA ListaTotalDe ==
    ASSUME TipoOK, NEW a \in DOMAIN fisico
    PROVE  /\ ListaTotal(a) \in Seq(Int) /\ Len(ListaTotal(a)) = Cuantos(a)
           /\ \A k \in 1..Cuantos(a) :
                 ListaTotal(a)[k] = IF k = 2 THEN Bloque(a, 1) ELSE Bloque(a, k)
<1>1. /\ Partes(a) \in Nat /\ fisico[a].tamanio \in Nat /\ fisico[a].directo \in Int
      /\ (fisico[a].tamanio = 0 => Partes(a) = 0 /\ Cuantos(a) = 0)
  BY PartesDe
<1>2. TamBloque \in Nat \ {0}
  BY TamNat
<1>3. CASE fisico[a].tamanio = 0
  <2>1. ListaTotal(a) = <<>> /\ 1..0 = {}
    BY <1>3 DEF ListaTotal
  <2> QED
    BY <1>1, <1>3, <2>1
<1>4. CASE fisico[a].tamanio # 0
  <2>1. fisico[a].tamanio <= TamBloque * Partes(a)
    <3>1. fisico[a].tamanio \in Int
      BY <1>1
    <3> QED
      BY <3>1, TechoDe DEF Partes
  <2>2. Partes(a) # 0
    BY <1>1, <1>2, <1>4, <2>1
  <2>3. CASE Partes(a) = 1
    <3>1. ListaTotal(a) = <<fisico[a].directo>> /\ Cuantos(a) = 1
      BY <1>4, <2>3 DEF ListaTotal, Partes, Cuantos
    <3>2. \A k \in 1..1 : k = 1
      OBVIOUS
    <3> QED
      BY <1>1, <3>1, <3>2 DEF Bloque
  <2>4. CASE Partes(a) # 1
    <3>1. Partes(a) - 1 \in Nat /\ Partes(a) > 1 /\ Cuantos(a) = Partes(a) + 1
      BY <1>1, <2>2, <2>4 DEF Cuantos
    <3>2. PICK m \in Nat, h \in Int, x \in Int, n \in Nat :
            /\ m = Partes(a) /\ h = m * TamBloque /\ x = h - TamBloque /\ n = m - 1
            /\ x = TamBloque * n /\ x >= 0
      <4>1. PICK h \in Int : h = Partes(a) * TamBloque
        BY <1>1, <1>2
      <4>2. h - TamBloque = TamBloque * (Partes(a) - 1)
        BY <1>1, <1>2, <4>1
      <4>3. TamBloque * (Partes(a) - 1) >= 0
        BY <1>2, <3>1
      <4> QED
        BY <1>1, <1>2, <3>1, <4>1, <4>2, <4>3
    <3>3. n = Techo(x)
      <4>1. TamBloque * n - TamBloque < x /\ x <= TamBloque * n
        BY <1>2, <3>2
      <4> QED
        BY <3>2, <4>1, TechoEs
    <3>4. PICK s \in Int : s = Parte(TamBloque) /\ s = 1
      <4>1. TamBloque * 1 <= TamBloque /\ TamBloque < TamBloque * 1 + TamBloque
        BY <1>2
      <4>2. Parte(TamBloque) = 1
        BY <1>2, <4>1, CocienteEs DEF Parte
      <4> QED
        BY <4>2
    <3> DEFINE lbi == LeerBloquesIndirectos(a, TamBloque, h)
    <3>5. lbi \in Seq(Int) /\ Len(lbi) = n
      <4>1. x = IF h >= TamBloque THEN h - TamBloque ELSE 0
        BY <1>2, <3>2
      <4>2. TamBloque \in Nat
        BY <1>2
      <4> QED
        BY <3>2, <3>3, <4>1, <4>2, IndirectosDe
    <3>6. \A k \in 1..Len(lbi) : lbi[k] = Puntero(a, s - 1 + k - 1)
      <4>1. TamBloque \in Nat
        BY <1>2
      <4> QED
        BY <3>4, <4>1, IndirectosLee
    <3>7. ListaTotal(a) = <<fisico[a].directo, fisico[a].directo>> \o lbi
      BY <1>4, <2>4, <3>2 DEF ListaTotal, Partes
    <3> HIDE DEF lbi
    <3> DEFINE dos == <<fisico[a].directo, fisico[a].directo>>
    <3>8. dos \in Seq(Int) /\ Len(dos) = 2 /\ dos[1] = fisico[a].directo /\ dos[2] = fisico[a].directo
      BY <1>1
    <3> HIDE DEF dos
    <3>9. /\ ListaTotal(a) \in Seq(Int)
          /\ DOMAIN ListaTotal(a) = 1..(2 + n)
          /\ \A k \in 1..(2 + n) : ListaTotal(a)[k] = IF k <= 2 THEN dos[k] ELSE lbi[k - 2]
      BY <3>5, <3>7, <3>8, Concatenar DEF dos
    <3>10. Len(ListaTotal(a)) = Cuantos(a) /\ 2 + n = Cuantos(a)
      BY <3>1, <3>2, <3>9
    <3>11. ASSUME NEW k \in 1..Cuantos(a)
           PROVE  ListaTotal(a)[k] = IF k = 2 THEN Bloque(a, 1) ELSE Bloque(a, k)
      <4>1. CASE k = 1 \/ k = 2
        BY <3>8, <3>9, <3>10, <4>1 DEF Bloque
      <4>2. CASE k # 1 /\ k # 2
        <5>1. ~(k <= 2) /\ k - 2 \in 1..n /\ s - 1 + (k - 2) - 1 = k - 3
          BY <3>2, <3>4, <3>10, <4>2
        <5>2. ListaTotal(a)[k] = lbi[k - 2] /\ lbi[k - 2] = Puntero(a, s - 1 + (k - 2) - 1)
          BY <3>5, <3>6, <3>9, <3>10, <5>1
        <5> QED
          BY <4>2, <5>1, <5>2 DEF Bloque
      <4> QED
        BY <4>1, <4>2
    <3> QED
      BY <3>9, <3>10, <3>11
  <2> QED
    BY <2>3, <2>4
<1> QED
  BY <1>3, <1>4

\* What a list loses from a place on.
LEMMA DesdeUnLugar ==
    ASSUME NEW S, NEW s \in Seq(S), NEW i \in 1..Len(s) + 1
    PROVE  Range(SubSeq(s, i, Len(s))) = {s[k] : k \in i..Len(s)}
<1> DEFINE t == SubSeq(s, i, Len(s))
<1>1. /\ t \in Seq(S) /\ DOMAIN t = 1..(Len(s) - i + 1) /\ Len(s) \in Nat
      /\ \A j \in 1..(Len(s) - i + 1) : t[j] = s[i + j - 1]
  OBVIOUS
<1> HIDE DEF t
<1>2. ASSUME NEW k \in i..Len(s) PROVE \E j \in DOMAIN t : t[j] = s[k]
  <2>1. k - i + 1 \in 1..(Len(s) - i + 1) /\ i + (k - i + 1) - 1 = k
    BY <1>1
  <2> QED
    BY <1>1, <2>1
<1>3. ASSUME NEW j \in DOMAIN t PROVE \E k \in i..Len(s) : t[j] = s[k]
  <2>1. i + j - 1 \in i..Len(s)
    BY <1>1
  <2> QED
    BY <1>1, <2>1
<1>4. Range(t) = {s[k] : k \in i..Len(s)}
  BY <1>2, <1>3 DEF Range
<1> QED
  BY <1>4 DEF t

\* The pieces of arithmetic that truncations need.
LEMMA TechoUno ==
    ASSUME NEW t \in Nat
    PROVE  /\ Techo(t) \in Nat /\ (Techo(t) > 1 <=> t > TamBloque) /\ (t > 0 => Techo(t) >= 1)
           /\ Techo(0) = 0
<1>1. TamBloque \in Nat \ {0}
  BY TamNat
<1>2. t \in Int /\ Techo(0) = 0
  <2>1. TamBloque * 0 - TamBloque < 0 /\ 0 <= TamBloque * 0
    BY <1>1
  <2> QED
    BY <2>1, TechoEs
<1>3. PICK q \in Int : q = Techo(t) /\ q >= 0
  BY <1>2, TechoTipo
<1>4. TamBloque * q - TamBloque < t /\ t <= TamBloque * q
  BY <1>2, <1>3, TechoDe
<1>5. PICK p \in Int : p = TamBloque * q
  BY <1>1, <1>3
<1>6. (q >= 2 => p >= 2 * TamBloque) /\ (q = 1 => p = TamBloque) /\ (q = 0 => p = 0)
  <2>1. ASSUME q >= 2 PROVE p >= 2 * TamBloque
    <3>1. TamBloque * q >= TamBloque * 2
      BY <1>1, <1>3, <2>1
    <3> QED
      BY <1>1, <1>5, <3>1
  <2> QED
    BY <1>1, <1>5, <2>1
<1>7. q = 0 \/ q = 1 \/ q >= 2
  BY <1>3
<1> QED
  BY <1>1, <1>2, <1>3, <1>4, <1>5, <1>6, <1>7

LEMMA TechoCrece ==
    ASSUME NEW s \in Nat, NEW t \in Nat, s <= t
    PROVE  Techo(s) <= Techo(t)
<1>1. TamBloque \in Nat \ {0}
  BY TamNat
<1>2. PICK q \in Int, r \in Int : q = Techo(s) /\ r = Techo(t)
  BY TechoTipo
<1>3. TamBloque * q - TamBloque < s /\ t <= TamBloque * r
  BY <1>2, TechoDe
<1>4. ASSUME r + 1 <= q PROVE FALSE
  <2>1. PICK u \in Int, w \in Int : u = TamBloque * q /\ w = TamBloque * r
    BY <1>1
  <2>2. TamBloque * (r + 1) <= u
    BY <1>1, <1>2, <1>4, <2>1
  <2>3. TamBloque * (r + 1) = w + TamBloque
    BY <1>1, <1>2, <2>1
  <2> QED
    BY <1>1, <1>3, <2>1, <2>2, <2>3
<1> QED
  BY <1>2, <1>4

\* What achicar_archivo frees: the entries from i on.
LEMMA QuitadosDe ==
    ASSUME TipoOK, NEW a \in DOMAIN fisico, NEW n \in Nat, n < fisico[a].tamanio,
           \/ n = 0
           \/ TamBloque < n /\ Techo(fisico[a].tamanio - n) = Partes(a) - Techo(n)
    PROVE  \E i \in 1..Cuantos(a) + 1 :
              /\ Quitados(a, n) = {ListaTotal(a)[k] : k \in i..Cuantos(a)}
              /\ n # 0 => i = Techo(n) + 2 /\ Partes(a) > 1 /\ Techo(n) > 1 /\ Techo(n) <= Partes(a)
<1>1. PICK t \in Nat, m \in Nat, c \in Nat :
        t = fisico[a].tamanio /\ m = Partes(a) /\ c = Cuantos(a) /\ m = Techo(t)
  BY PartesDe DEF Partes
<1>2. TamBloque \in Nat \ {0} /\ (m > 1 <=> t > TamBloque) /\ c = IF m > 1 THEN m + 1 ELSE m
  BY <1>1, TechoUno, TamNat DEF Cuantos
<1>3. PICK r \in Nat : r = Techo(n)
  BY TechoUno
<1>4. PICK i \in 1..c + 1 : /\ Quitar(t, n) = c + 1 - i
                            /\ n # 0 => i = r + 2 /\ m > 1 /\ r > 1 /\ r <= m
  <2>1. CASE n = 0
    <3>1. t - n = t /\ n <= TamBloque
      BY <1>2, <2>1
    <3>2. Quitar(t, n) = m + IF t > TamBloque THEN 1 ELSE 0
      BY <1>1, <3>1 DEF Quitar
    <3>3. 1 \in 1..c + 1 /\ Quitar(t, n) = c + 1 - 1
      BY <1>1, <1>2, <3>2
    <3> QED
      BY <2>1, <3>3
  <2>2. CASE n # 0
    <3>1. TamBloque < n /\ Techo(t - n) = m - r /\ n < t
      BY <1>1, <1>3, <2>2
    <3>2. r > 1 /\ r <= m
      <4>1. n <= t
        BY <1>1, <3>1
      <4> QED
        BY <1>1, <1>2, <1>3, <3>1, <4>1, TechoUno, TechoCrece
    <3>3. Quitar(t, n) = m - r + 0
      BY <1>2, <3>1 DEF Quitar
    <3>4. r + 2 \in 1..c + 1 /\ Quitar(t, n) = c + 1 - (r + 2) /\ m > 1
      BY <1>1, <1>2, <1>3, <3>2, <3>3
    <3> QED
      BY <3>2, <3>4
  <2> QED
    BY <2>1, <2>2
<1>5. PICK l \in Seq(Int) : l = ListaTotal(a) /\ Len(l) = c
  BY <1>1, ListaTotalDe
<1>6. Len(l) + 1 - Quitar(t, n) = i /\ i \in 1..Len(l) + 1
  BY <1>4, <1>5
<1>7. Quitados(a, n) = Range(SubSeq(l, i, Len(l)))
  BY <1>1, <1>5, <1>6 DEF Quitados
<1>8. Quitados(a, n) = {l[k] : k \in i..Len(l)}
  BY <1>6, <1>7, DesdeUnLugar
<1>9. Quitados(a, n) = {ListaTotal(a)[k] : k \in i..Cuantos(a)}
  BY <1>1, <1>5, <1>8
<1> QED
  BY <1>1, <1>3, <1>4, <1>9

LEMMA PropiedadAchicar ==
    ASSUME Base, Base', Propiedad, ~caido, NEW a, Primero(a) # 0, NEW n \in Tamanios,
           Achicar(a, n), viejos' = viejos, a \notin viejos, n < fisico[a].tamanio,
           TruncadoSano(fisico[a].tamanio, n)
    PROVE  /\ Propiedad'
           /\ n # 0 => fisico'[a].indirecto = fisico[a].indirecto
<1>1. /\ DOMAIN fisico' = DOMAIN fisico /\ a \in DOMAIN fisico
      /\ bitmap' = bitmap \ Quitados(a, n) /\ bytes' = bytes
      /\ fisico'[a].tamanio = n /\ fisico'[a].directo = fisico[a].directo
      /\ ~(n <= TamBloque) /\ 0 \notin Quitados(a, n) => fisico'[a].indirecto = fisico[a].indirecto
      /\ \A b \in DOMAIN fisico : b # a => fisico'[b] = fisico[b]
  BY EfectoAchicar
<1>2. TipoOK /\ TamBloque \in Nat \ {0} /\ n \in Nat
  BY TamNat DEF Base
<1>3. PICK m \in Nat, c \in Nat, r \in Nat :
        m = Partes(a) /\ c = Cuantos(a) /\ r = Techo(n) /\ c = IF m > 1 THEN m + 1 ELSE m
  BY <1>1, <1>2, PartesDe, TechoUno DEF Cuantos
<1>4. a \in Nuevos /\ Sano(a)
  BY <1>1 DEF Nuevos, Propiedad
<1>5. PICK i \in 1..c + 1 :
        /\ Quitados(a, n) = {ListaTotal(a)[k] : k \in i..c}
        /\ n # 0 => i = r + 2 /\ m > 1 /\ r > 1 /\ r <= m
  <2>1. \/ n = 0
        \/ TamBloque < n /\ Techo(fisico[a].tamanio - n) = Partes(a) - Techo(n)
    <3>1. PICK t \in Nat : t = fisico[a].tamanio
      BY <1>1, <1>2, PartesDe
    <3>2. t # 0 /\ ~(t <= n) /\ TruncadoSano(t, n)
      BY <1>2, <3>1
    <3> QED
      BY <3>1, <3>2 DEF TruncadoSano, Partes
  <2> QED
    BY <1>1, <1>2, <1>3, <2>1, QuitadosDe
<1>6. ASSUME NEW k \in i..c
      PROVE  /\ k \in 1..c /\ ListaTotal(a)[k] \in {Bloque(a, j) : j \in 1..c}
             /\ n # 0 => ListaTotal(a)[k] = Bloque(a, k) /\ k # 1
  <2>1. k \in 1..c /\ 1 \in 1..c /\ (n # 0 => k # 2 /\ k # 1)
    BY <1>3, <1>5
  <2>2. ListaTotal(a)[k] = IF k = 2 THEN Bloque(a, 1) ELSE Bloque(a, k)
    BY <1>1, <1>2, <1>3, <2>1, ListaTotalDe
  <2> QED
    BY <2>1, <2>2
<1>7. ASSUME NEW b \in Nuevos', b # a PROVE b \in Nuevos /\ Igual(b)
  <2>1. b \in Nuevos /\ b \in DOMAIN fisico /\ fisico'[b] = fisico[b] /\ Sano(b) /\ Ajenos(b, a)
    BY <1>1, <1>4, <1>7 DEF Nuevos, Propiedad
  <2>2. ASSUME NEW k \in 1..Cuantos(b) PROVE Bloque(b, k) \in bitmap'
    <3>1. Bloque(b, k) \in bitmap /\ \A j \in 1..c : Bloque(b, k) # Bloque(a, j)
      BY <1>3, <2>1 DEF Sano, Ajenos
    <3>2. Bloque(b, k) \notin Quitados(a, n)
      BY <1>5, <1>6, <3>1
    <3> QED
      BY <1>1, <3>1, <3>2
  <2>3. \A k : Puntero(b, k)' = Puntero(b, k)
    BY <1>1, <2>1, PunteroQuieto
  <2> QED
    BY <1>2, <2>1, <2>2, <2>3, IgualDe
<1>8. CASE n = 0
  <2>1. Cuantos(a)' = 0 /\ Sano(a)'
    BY <1>1, <1>8, VacioSigue DEF Base, SinBloques
  <2>2. \A k \in 1..Cuantos(a)' : FALSE
    BY <2>1
  <2> QED
    BY <1>7, <1>8, <2>1, <2>2, PasoDe
<1>9. CASE n # 0
  <2>1. i = r + 2 /\ m > 1 /\ r > 1 /\ r <= m
    BY <1>5, <1>9
  <2>2. 0 \notin Quitados(a, n)
    BY <1>3, <1>4, <1>5, <1>6, <1>9 DEF Sano
  <2>3. ~(n <= TamBloque)
    BY <1>2, <1>3, <2>1, TechoUno
  <2>4. fisico'[a].indirecto = fisico[a].indirecto
    BY <1>1, <2>2, <2>3
  <2>5. Partes(a)' = r /\ Cuantos(a)' = r + 1
    <3>1. Partes(a)' = r
      BY <1>1, <1>3 DEF Partes, Techo
    <3> QED
      BY <2>1, <3>1 DEF Cuantos
  <2>6. ASSUME NEW k \in 1..r + 1
        PROVE  k \in 1..c /\ Bloque(a, k)' = Bloque(a, k) /\ Bloque(a, k) \in bitmap'
    <3>1. k \in 1..c /\ k \notin i..c
      BY <1>3, <2>1
    <3>2. Bloque(a, k)' = Bloque(a, k)
      BY <1>1, <2>4 DEF Bloque, Puntero, Byte
    <3>3. Bloque(a, k) \in bitmap
      BY <1>3, <1>4, <3>1 DEF Sano
    <3>4. ASSUME Bloque(a, k) \in Quitados(a, n) PROVE FALSE
      <4>1. PICK j \in i..c : Bloque(a, k) = Bloque(a, j) /\ j \in 1..c
        BY <1>5, <1>6, <1>9, <3>4
      <4>2. j = k
        BY <1>3, <1>4, <3>1, <4>1 DEF Sano
      <4> QED
        BY <3>1, <4>1, <4>2
    <3> QED
      BY <1>1, <3>1, <3>2, <3>3, <3>4
  <2>7. Sano(a)'
    <3>1. r <= Punteros + 1
      BY <1>3, <1>4, <2>1, PunterosDe DEF Sano
    <3>2. \A k \in 1..r + 1 : Bloque(a, k)' \in bitmap' /\ (k # 1 => Bloque(a, k)' # 0)
      BY <1>3, <1>4, <2>6 DEF Sano
    <3>3. \A k, l \in 1..r + 1 : Bloque(a, k)' = Bloque(a, l)' => k = l
      BY <1>3, <1>4, <2>6 DEF Sano
    <3>4. Punteros' = Punteros
      BY DEF Punteros
    <3> QED
      BY <2>5, <3>1, <3>2, <3>3, <3>4 DEF Sano
  <2>8. ASSUME NEW b \in Nuevos, b # a
        PROVE  \A k \in 1..Cuantos(a)', l \in 1..Cuantos(b) : Bloque(a, k)' # Bloque(b, l)
    <3>1. Ajenos(a, b)
      BY <1>4, <2>8 DEF Propiedad
    <3> QED
      BY <1>3, <2>5, <2>6, <3>1 DEF Ajenos
  <2> QED
    BY <1>7, <2>4, <2>7, <2>8, PasoDe
<1> QED
  BY <1>8, <1>9

-----------------------------------------------------------------------------
(* agrandar_archivo. *)

\* Nothing is written from the end of the list on.
LEMMA EscribirNada ==
    ASSUME TipoOK, NEW lista \in Seq(Int), NEW desde \in Nat, desde >= Len(lista), NEW ind
    PROVE  EscribirBloquesIndirectos(lista, desde, ind) = bytes
<1>1. desde..Len(lista) - 1 = {}
  OBVIOUS
<1>2. \A c : {i \in desde..Len(lista) - 1 : ind * TamBloque + Lugar(i) = c} = {}
  BY <1>1
<1>3. EscribirBloquesIndirectos(lista, desde, ind) = [c \in DOMAIN bytes |-> bytes[c]]
  BY <1>2 DEF EscribirBloquesIndirectos
<1> QED
  BY <1>3, TipoDe DEF TipoLeido

\* A file that keeps its number of blocks needs no turn of the loop.
LEMMA SinVueltas ==
    ASSUME NEW t \in Nat, NEW n \in Nat, 0 < t, t < n, Techo(n) = Techo(t)
    PROVE  Vueltas(Techo(t), Techo(n - t)) = <<>>
<1>1. TamBloque \in Nat \ {0}
  BY TamNat
<1>2. PICK m \in Nat : m = Techo(t) /\ m >= 1
  BY TechoUno
<1>3. TamBloque * m - TamBloque < t /\ n <= TamBloque * m
  BY <1>2, TechoDe
<1>4. PICK p \in Int : p = TamBloque * m
  BY <1>1, <1>2
<1>5. Techo(n - t) = 1
  <2>1. TamBloque * 1 = TamBloque /\ n - t \in Int
    BY <1>1
  <2>2. TamBloque * 1 - TamBloque < n - t /\ n - t <= TamBloque * 1
    BY <1>1, <1>3, <1>4, <2>1
  <2> QED
    BY <2>1, <2>2, TechoEs
<1>6. PICK u \in Int : u = 1
  OBVIOUS
<1>7. PICK tope \in Int :
        /\ tope = IF m <= 1 /\ u > 1 THEN u + 1 ELSE u
        /\ Vueltas(m, u) \in Seq(Int)
        /\ Len(Vueltas(m, u)) = IF tope >= m THEN tope - m ELSE 0
        /\ \A j \in DOMAIN Vueltas(m, u) : Vueltas(m, u)[j] = m + j - 1
  <2>1. m \in Int /\ u \in Int
    BY <1>2
  <2> QED
    BY <2>1, VueltasDe, Zenon
<1>8. Len(Vueltas(m, u)) = 0
  BY <1>2, <1>6, <1>7
<1>9. Vueltas(m, u) = <<>>
  <2>1. ASSUME NEW v \in Seq(Int), Len(v) = 0 PROVE v = <<>>
    BY <2>1
  <2> QED
    BY <1>7, <1>8, <2>1
<1> QED
  BY <1>2, <1>5, <1>6, <1>9

LEMMA ApuntadoDe ==
    ASSUME TipoOK, NEW a \in DOMAIN fisico, NEW v \in Seq(Int)
    PROVE  /\ Apuntado(a, v).directo =
                IF Vuelta(v, 0) = 0 THEN fisico[a].directo ELSE Ids(v)[Vuelta(v, 0)]
           /\ Apuntado(a, v).indirecto =
                IF Vuelta(v, 1) = 0 THEN fisico[a].indirecto ELSE Ids(v)[Vuelta(v, 1)]
<1>1. PICK ids : ids = Ids(v) /\ \A j \in DOMAIN v : ids[j] \in Bloques \cup {-1}
  <2>1. \A j \in DOMAIN v : Ids(v)[j] \in Bloques \cup {-1}
    BY IdsDe
  <2> QED
    BY <2>1, Zenon
<1>2. PICK f \in Fcbs : f = fisico[a]
  BY TipoDe DEF TipoLeido
<1>3. Apuntado(a, v) = Apuntar(f, v, ids)
  BY <1>1, <1>2 DEF Apuntado
<1>4. /\ Apuntar(f, v, ids).directo = IF Vuelta(v, 0) = 0 THEN f.directo ELSE ids[Vuelta(v, 0)]
      /\ Apuntar(f, v, ids).indirecto = IF Vuelta(v, 1) = 0 THEN f.indirecto ELSE ids[Vuelta(v, 1)]
  BY <1>1, <1>2, ApuntarDe
<1> QED
  BY <1>1, <1>2, <1>3, <1>4

LEMMA PropiedadMismos ==
    ASSUME Base, Base', Propiedad, ~caido, NEW a, Primero(a) # 0, NEW n \in Tamanios,
           NEW v \in Seq(Int), Len(v) = 0, Agrandar(a, n, v), viejos' = viejos, a \notin viejos,
           Techo(n) = Techo(fisico[a].tamanio)
    PROVE  /\ Propiedad' /\ bytes' = bytes
           /\ fisico'[a].directo = fisico[a].directo /\ fisico'[a].indirecto = fisico[a].indirecto
<1>1. TipoOK /\ a \in DOMAIN fisico /\ fisico[a] \in Fcbs /\ n \in Nat
  BY PrimeroDe, TamNat DEF Base
<1>2. DOMAIN v = {} /\ Len(v) <= Cardinality(Libres)
  BY <1>1, LibresFinito
<1>3. /\ DOMAIN fisico' = DOMAIN fisico
      /\ bitmap' = bitmap \cup Range(Ids(v))
      /\ fisico'[a].tamanio = n
      /\ fisico'[a].directo = Apuntado(a, v).directo
      /\ fisico'[a].indirecto = Apuntado(a, v).indirecto
      /\ bytes' = IF Len(Total(a, v)) > 2
                  THEN EscribirBloquesIndirectos(Total(a, v), PrimeraEntrada(a, v),
                                                 Apuntado(a, v).indirecto)
                  ELSE bytes
      /\ \A b \in DOMAIN fisico : b # a => fisico'[b] = fisico[b]
  BY <1>2, EfectoAgrandar
<1>4. Apuntado(a, v).directo = fisico[a].directo /\ Apuntado(a, v).indirecto = fisico[a].indirecto
  <2>1. Vuelta(v, 0) = 0 /\ Vuelta(v, 1) = 0
    BY <1>2, VueltaDe
  <2> QED
    BY <1>1, <2>1, ApuntadoDe
<1>5. Ids(v) \in Seq(Int) /\ Len(Ids(v)) = 0 /\ Range(Ids(v)) = {}
  <2>1. Ids(v) \in Seq(Int) /\ Len(Ids(v)) = 0 /\ DOMAIN Ids(v) = {}
    BY <1>1, <1>2, IdsDe
  <2> QED
    BY <2>1 DEF Range
<1>6. ListaTotal(a) \in Seq(Int) /\ Len(ListaTotal(a)) \in Nat
  BY <1>1, ListaTotalTipo
<1>7. Total(a, v) \in Seq(Int) /\ Len(Total(a, v)) = Len(ListaTotal(a))
  BY <1>5, <1>6, Concatenar DEF Total
<1>8. PrimeraEntrada(a, v) = Len(ListaTotal(a))
  <2>1. {j \in DOMAIN v : v[j] \in {0, 1}} = {}
    BY <1>2
  <2> QED
    BY <1>6, <2>1, FS_EmptySet DEF PrimeraEntrada, Iniciales
<1>9. bytes' = bytes /\ bitmap' = bitmap
  <2>1. EscribirBloquesIndirectos(Total(a, v), PrimeraEntrada(a, v), Apuntado(a, v).indirecto) = bytes
    BY <1>1, <1>6, <1>7, <1>8, EscribirNada
  <2> QED
    BY <1>3, <1>5, <2>1
<1>10. /\ fisico'[a].tamanio = n /\ fisico'[a].directo = fisico[a].directo
       /\ fisico'[a].indirecto = fisico[a].indirecto
  BY <1>3, <1>4
<1>11. ASSUME NEW b \in Nuevos' PROVE b \in Nuevos /\ Igual(b)
  <2>1. b \in Nuevos /\ b \in DOMAIN fisico /\ Sano(b)
    BY <1>3, <1>11 DEF Nuevos, Propiedad
  <2>2. CASE b = a
    <3>1. Partes(a)' = Partes(a) /\ Cuantos(a)' = Cuantos(a)
      BY <1>10 DEF Partes, Cuantos, Techo
    <3>2. \A k : Bloque(a, k)' = Bloque(a, k)
      BY <1>9, <1>10 DEF Bloque, Puntero, Byte
    <3> QED
      BY <1>9, <2>1, <2>2, <3>1, <3>2 DEF Igual, Sano
  <2>3. CASE b # a
    <3>1. fisico'[b] = fisico[b] /\ \A k \in 1..Cuantos(b) : Bloque(b, k) \in bitmap'
      BY <1>3, <1>9, <2>1, <2>3 DEF Sano
    <3>2. \A k : Puntero(b, k)' = Puntero(b, k)
      BY <1>9, <3>1, PunteroQuieto
    <3> QED
      BY <1>1, <2>1, <3>1, <3>2, IgualDe
  <2> QED
    BY <2>2, <2>3
<1> QED
  BY <1>9, <1>10, <1>11, PasoIgual

\* The turns for a file that is empty.
LEMMA VueltasPrimeras ==
    ASSUME NEW m \in Nat \ {0}, NEW v, v = Vueltas(0, m)
    PROVE  /\ v \in Seq(Int) /\ Len(v) = IF m > 1 THEN m + 1 ELSE m
           /\ Vuelta(v, 0) = 1 /\ Vuelta(v, 1) = IF m > 1 THEN 2 ELSE 0
           /\ m > 1 => Iniciales(v) = 2
<1>1. PICK tope \in Int :
        /\ tope = IF 0 <= 1 /\ m > 1 THEN m + 1 ELSE m
        /\ Vueltas(0, m) \in Seq(Int)
        /\ Len(Vueltas(0, m)) = IF tope >= 0 THEN tope - 0 ELSE 0
        /\ \A j \in DOMAIN Vueltas(0, m) : Vueltas(0, m)[j] = 0 + j - 1
  <2>1. 0 \in Int /\ m \in Int
    OBVIOUS
  <2> QED
    BY <2>1, VueltasDe, Zenon
<1>2. PICK o \in Nat \ {0} : o = IF m > 1 THEN m + 1 ELSE m
  OBVIOUS
<1>3. v \in Seq(Int) /\ Len(v) = o /\ DOMAIN v = 1..o
  <2>1. tope = o
    BY <1>1, <1>2
  <2> QED
    BY <1>1, <1>2, <2>1
<1>4. \A j \in 1..o : v[j] = j - 1
  BY <1>1, <1>3
<1>5. Vuelta(v, 0) = 1
  <2>1. 1 \in DOMAIN v /\ v[1] = 0
    BY <1>2, <1>3, <1>4
  <2>2. Vuelta(v, 0) \in DOMAIN v /\ v[Vuelta(v, 0)] = 0
    BY <1>3, <2>1, VueltaDe
  <2> QED
    BY <1>3, <1>4, <2>2
<1>6. Vuelta(v, 1) = IF m > 1 THEN 2 ELSE 0
  <2>1. CASE m > 1
    <3>1. 2 \in DOMAIN v /\ v[2] = 1
      BY <1>2, <1>3, <1>4, <2>1
    <3>2. Vuelta(v, 1) \in DOMAIN v /\ v[Vuelta(v, 1)] = 1
      BY <1>3, <3>1, VueltaDe
    <3> QED
      BY <1>3, <1>4, <2>1, <3>2
  <2>2. CASE ~(m > 1)
    <3>1. \A j \in DOMAIN v : v[j] # 1
      BY <1>2, <1>3, <1>4, <2>2
    <3> QED
      BY <1>3, <2>2, <3>1, VueltaDe
  <2> QED
    BY <2>1, <2>2
<1>7. ASSUME m > 1 PROVE Iniciales(v) = 2
  <2>1. o >= 2
    BY <1>2, <1>7
  <2>2. {j \in DOMAIN v : v[j] \in {0, 1}} = 1..2
    <3>1. \A j \in 1..o : v[j] \in {0, 1} <=> j \in 1..2
      BY <1>4
    <3>2. 1..2 \subseteq 1..o
      BY <2>1
    <3> QED
      BY <1>3, <3>1, <3>2
  <2>3. Cardinality(1..2) = 2
    <3>1. 1..2 = {1} \cup {2} /\ 2 \notin {1}
      OBVIOUS
    <3>2. IsFiniteSet({1}) /\ Cardinality({1}) = 1
      BY FS_Singleton
    <3>3. Cardinality({1} \cup {2}) = 1 + 1
      BY <3>1, <3>2, FS_AddElement
    <3> QED
      BY <3>1, <3>3
  <2> QED
    BY <2>2, <2>3 DEF Iniciales
<1> QED
  BY <1>2, <1>3, <1>5, <1>6, <1>7

\* The blocks that the turns take are free and different, and but for the
\* first none is block 0.
LEMMA IdsLibres ==
    ASSUME TipoOK, NEW v \in Seq(Int), Len(v) <= Cardinality(Libres)
    PROVE  /\ \A j \in DOMAIN v : /\ Ids(v)[j] \in Libres /\ Ids(v)[j] \in Bloques
                                  /\ Ids(v)[j] \notin bitmap /\ (j # 1 => Ids(v)[j] # 0)
           /\ \A j, k \in DOMAIN v : Ids(v)[j] = Ids(v)[k] => j = k
<1> DEFINE Antes(x) == Cardinality({c \in Libres : c < x})
<1>1. ASSUME NEW j \in DOMAIN v
      PROVE  /\ j \in Nat \ {0} /\ Ids(v)[j] \in Libres
             /\ Antes(Ids(v)[j]) = j - 1
  <2>1. j \in Nat \ {0} /\ j <= Len(v) /\ Len(v) \in Nat /\ Cardinality(Libres) \in Nat
    BY LibresFinito
  <2>2. j <= Cardinality(Libres) /\ Ids(v)[j] = PrimerBloqueLibre(j)
    BY <2>1, IdsDe
  <2> QED
    BY <2>1, <2>2, LibreDe
<1>2. ASSUME NEW j \in DOMAIN v, Ids(v)[j] = 0 PROVE j = 1
  <2>1. {c \in Libres : c < 0} = {}
    BY LibresFinito
  <2>2. Antes(0) = 0
    BY <2>1, FS_EmptySet
  <2> HIDE DEF Antes
  <2>3. j - 1 = 0 /\ j \in Nat
    BY <1>1, <1>2, <2>2
  <2> QED
    BY <2>3
<1>3. ASSUME NEW j \in DOMAIN v, NEW k \in DOMAIN v, Ids(v)[j] = Ids(v)[k] PROVE j = k
  <2> HIDE DEF Antes
  <2>1. j - 1 = k - 1 /\ j \in Nat /\ k \in Nat
    BY <1>1, <1>3
  <2> QED
    BY <2>1
<1>4. Libres \subseteq Bloques /\ \A x \in Libres : x \notin bitmap
  BY DEF Libres
<1> QED
  BY <1>1, <1>2, <1>3, <1>4

\* escribir_bloques_indirectos puts the list, from its third entry, in the
\* block of pointers, and touches no other block.
LEMMA EscribirEn ==
    ASSUME TipoOK, NEW lista \in Seq(Int), NEW ind \in Bloques, Len(lista) <= Punteros + 2,
           NEW e, e = EscribirBloquesIndirectos(lista, 2, ind)
    PROVE  /\ \A k \in Nat : k + 3 <= Len(lista) =>
                 /\ ind * TamBloque + k * TamPuntero \in DOMAIN e
                 /\ e[ind * TamBloque + k * TamPuntero] = lista[k + 3]
           /\ DOMAIN e = DOMAIN bytes
           /\ \A x \in Bloques, r \in 0..TamBloque - 1 : x # ind =>
                 /\ x * TamBloque + r \in DOMAIN bytes
                 /\ e[x * TamBloque + r] = bytes[x * TamBloque + r]
<1>1. /\ TamBloque \in Nat \ {0} /\ TamPuntero \in Nat \ {0} /\ Punteros \in Nat
      /\ Len(lista) \in Nat /\ Bloques \subseteq Int
      /\ DOMAIN bytes = 0..NBloques * TamBloque - 1
  BY TamNat, PunterosDe, TipoDe DEF TipoLeido
<1> DEFINE En(c) == {i \in 2..Len(lista) - 1 : ind * TamBloque + Lugar(i) = c}
<1>2. /\ DOMAIN e = DOMAIN bytes
      /\ \A c \in DOMAIN bytes : e[c] = IF En(c) = {} THEN bytes[c] ELSE lista[Max(En(c)) + 1]
  BY DEF EscribirBloquesIndirectos
<1>3. ASSUME NEW i \in 2..Len(lista) - 1
      PROVE  /\ i - 2 \in Nat /\ i - 2 < Punteros /\ Lugar(i) = (i - 2) * TamPuntero
             /\ Lugar(i) \in 0..TamBloque - 1
  <2>1. i - 2 \in Nat /\ i - 2 < Punteros
    BY <1>1
  <2> QED
    BY <2>1, PunterosDe DEF Lugar
<1>4. ASSUME NEW k \in Nat, k + 3 <= Len(lista)
      PROVE  /\ ind * TamBloque + k * TamPuntero \in DOMAIN e
             /\ e[ind * TamBloque + k * TamPuntero] = lista[k + 3]
  <2>1. k < Punteros /\ k + 2 \in 2..Len(lista) - 1 /\ (k + 2) - 2 = k
    BY <1>1, <1>4
  <2>2. k * TamPuntero \in 0..TamBloque - 1 /\ Lugar(k + 2) = k * TamPuntero
    BY <2>1, PunterosDe DEF Lugar
  <2>3. PICK c \in DOMAIN bytes : c = ind * TamBloque + k * TamPuntero
    BY <1>1, <2>2, EnElDisco
  <2>4. k + 2 \in En(c)
    BY <2>1, <2>2, <2>3
  <2>5. ASSUME NEW i \in En(c) PROVE i = k + 2
    <3>1. i \in 2..Len(lista) - 1 /\ ind * TamBloque + Lugar(i) = ind * TamBloque + k * TamPuntero
      BY <2>3
    <3>2. ind \in Int /\ Lugar(i) \in 0..TamBloque - 1
      BY <1>1, <1>3, <3>1
    <3>3. Lugar(i) = k * TamPuntero
      BY <2>2, <3>1, <3>2, Direcciones
    <3>4. PICK h \in Nat : h = i - 2 /\ h * TamPuntero = k * TamPuntero
      BY <1>3, <3>1, <3>3
    <3>5. h = k
      BY <1>1, <3>4
    <3> QED
      BY <3>1, <3>4, <3>5
  <2>6. En(c) = {k + 2}
    BY <2>4, <2>5
  <2>7. En(c) \in SUBSET (0..Len(lista) - 1) /\ En(c) # {} /\ Len(lista) - 1 \in Nat
    BY <1>1, <2>1, <2>6
  <2>8. Max(En(c)) = k + 2
    <3>1. Max(En(c)) \in En(c)
      BY <2>7, MayorExiste
    <3> QED
      BY <2>6, <3>1
  <2> HIDE DEF En
  <2>9. e[c] = lista[Max(En(c)) + 1]
    BY <1>2, <2>7
  <2>10. Max(En(c)) + 1 = k + 3
    BY <2>8
  <2> QED
    BY <1>2, <2>3, <2>9, <2>10
<1>5. ASSUME NEW x \in Bloques, NEW r \in 0..TamBloque - 1, x # ind
      PROVE  /\ x * TamBloque + r \in DOMAIN bytes
             /\ e[x * TamBloque + r] = bytes[x * TamBloque + r]
  <2>1. PICK c \in DOMAIN bytes : c = x * TamBloque + r
    BY <1>1, EnElDisco
  <2>2. ASSUME NEW i \in 2..Len(lista) - 1, ind * TamBloque + Lugar(i) = c PROVE FALSE
    <3>1. ind \in Int /\ x \in Int /\ Lugar(i) \in 0..TamBloque - 1
      BY <1>1, <1>3
    <3>2. ind * TamBloque + Lugar(i) = x * TamBloque + r
      BY <2>1, <2>2
    <3> QED
      BY <1>5, <3>1, <3>2, Direcciones
  <2>3. En(c) = {}
    BY <2>2
  <2> HIDE DEF En
  <2>4. e[c] = bytes[c]
    BY <1>2, <2>3
  <2> QED
    BY <2>1, <2>4
<1> QED
  BY <1>2, <1>4, <1>5

\* Sizes up to the maximum need the pointers of one block.
LEMMA TechoMaximo ==
    ASSUME NEW n \in Nat, n <= TamanioMaximo
    PROVE  Techo(n) <= Punteros + 1
<1>1. TamBloque \in Nat \ {0} /\ Punteros \in Nat
  BY TamNat, PunterosDe
<1>2. PICK q \in Nat, k \in Nat : q = Techo(n) /\ k = Punteros + 1
  BY <1>1, TechoUno
<1>3. n <= k * TamBloque
  BY <1>2 DEF TamanioMaximo, Punteros
<1>4. TamBloque * q - TamBloque < n
  BY <1>2, TechoDe
<1>5. ASSUME k + 1 <= q PROVE FALSE
  <2>1. PICK u \in Int, w \in Int : u = TamBloque * q /\ w = k * TamBloque
    BY <1>1
  <2>2. (k + 1) * TamBloque <= u
    BY <1>1, <1>2, <1>5, <2>1
  <2>3. (k + 1) * TamBloque = w + TamBloque
    BY <1>1, <1>2, <2>1
  <2> QED
    BY <1>1, <1>3, <1>4, <2>1, <2>2, <2>3
<1> QED
  BY <1>2, <1>5

\* An empty file that grows takes blocks that are free.
LEMMA PropiedadPrimera ==
    ASSUME Base, Base', Propiedad, ~caido, NEW a, Primero(a) # 0, NEW n \in Tamanios, 0 < n,
           n <= TamanioMaximo, fisico[a].tamanio = 0,
           NEW v, v = Vueltas(0, Techo(n)), Len(v) <= Cardinality(Libres),
           Agrandar(a, n, v), viejos' = viejos, a \notin viejos
    PROVE  /\ Propiedad' /\ \A b \in Nuevos' : b # a => b \in Nuevos /\ Igual(b)
           /\ DOMAIN bytes' = DOMAIN bytes
           /\ \A x \in bitmap, r \in 0..TamBloque - 1 :
                 /\ x * TamBloque + r \in DOMAIN bytes
                 /\ bytes'[x * TamBloque + r] = bytes[x * TamBloque + r]
<1>1. TipoOK /\ a \in DOMAIN fisico /\ n \in Nat /\ Punteros \in Nat
  BY PrimeroDe, TamNat, PunterosDe DEF Base
<1>2. PICK m \in Nat \ {0} : m = Techo(n) /\ m <= Punteros + 1
  BY <1>1, TechoUno, TechoMaximo
<1>3. PICK o \in Nat \ {0} : o = IF m > 1 THEN m + 1 ELSE m
  OBVIOUS
<1>4. /\ v \in Seq(Int) /\ Len(v) = o
      /\ Vuelta(v, 0) = 1 /\ Vuelta(v, 1) = IF m > 1 THEN 2 ELSE 0
      /\ m > 1 => Iniciales(v) = 2
  BY <1>2, <1>3, VueltasPrimeras
<1>5. PICK ids \in Seq(Int) :
        /\ ids = Ids(v) /\ DOMAIN ids = 1..o /\ Len(ids) = o
        /\ \A j \in 1..o : /\ ids[j] \in Bloques /\ ids[j] \notin bitmap /\ (j # 1 => ids[j] # 0)
        /\ \A j, k \in 1..o : ids[j] = ids[k] => j = k
  <2>1. Ids(v) \in Seq(Int) /\ DOMAIN Ids(v) = DOMAIN v /\ Len(Ids(v)) = Len(v) /\ DOMAIN v = 1..o
    BY <1>1, <1>4, IdsDe
  <2>2. /\ \A j \in DOMAIN v : /\ Ids(v)[j] \in Bloques
                               /\ Ids(v)[j] \notin bitmap /\ (j # 1 => Ids(v)[j] # 0)
        /\ \A j, k \in DOMAIN v : Ids(v)[j] = Ids(v)[k] => j = k
    BY <1>1, <1>4, IdsLibres
  <2> QED
    BY <1>4, <2>1, <2>2
<1>6. /\ DOMAIN fisico' = DOMAIN fisico
      /\ bitmap' = bitmap \cup Range(ids)
      /\ fisico'[a].tamanio = n
      /\ fisico'[a].directo = Apuntado(a, v).directo
      /\ fisico'[a].indirecto = Apuntado(a, v).indirecto
      /\ bytes' = IF Len(Total(a, v)) > 2
                  THEN EscribirBloquesIndirectos(Total(a, v), PrimeraEntrada(a, v),
                                                 Apuntado(a, v).indirecto)
                  ELSE bytes
      /\ \A b \in DOMAIN fisico : b # a => fisico'[b] = fisico[b]
  BY <1>4, <1>5, EfectoAgrandar
<1>7. fisico'[a].directo = ids[1] /\ (m > 1 => fisico'[a].indirecto = ids[2])
  <2>1. Apuntado(a, v).directo = ids[1] /\ (m > 1 => Apuntado(a, v).indirecto = ids[2])
    BY <1>1, <1>4, <1>5, ApuntadoDe
  <2> QED
    BY <1>6, <2>1
<1>8. Partes(a)' = m /\ Cuantos(a)' = o
  <2>1. Partes(a)' = m
    BY <1>2, <1>6 DEF Partes, Techo
  <2> QED
    BY <1>3, <2>1 DEF Cuantos
<1>9. PICK total \in Seq(Int) :
        total = Total(a, v) /\ Len(total) = o /\ \A j \in 1..o : total[j] = ids[j]
  <2>1. ListaTotal(a) \in Seq(Int) /\ Len(ListaTotal(a)) = 0
    BY <1>1, ListaTotalDe, PartesDe
  <2>2. PICK x \in Seq(Int) : x = ListaTotal(a) /\ Len(x) = 0
    BY <2>1
  <2>3. /\ DOMAIN (x \o ids) = 1..(Len(x) + Len(ids)) /\ x \o ids \in Seq(Int)
        /\ \A j \in 1..(Len(x) + Len(ids)) :
              (x \o ids)[j] = IF j <= Len(x) THEN x[j] ELSE ids[j - Len(x)]
    BY Concatenar
  <2>4. Total(a, v) = x \o ids
    BY <1>5, <2>2 DEF Total
  <2>5. Len(x \o ids) = o /\ \A j \in 1..o : (x \o ids)[j] = ids[j]
    BY <1>5, <2>2, <2>3
  <2> QED
    BY <2>3, <2>4, <2>5
<1>10. m > 1 => o > 2 /\ bytes' = EscribirBloquesIndirectos(total, 2, ids[2])
  <2> SUFFICES ASSUME m > 1 PROVE o > 2 /\ bytes' = EscribirBloquesIndirectos(total, 2, ids[2])
    OBVIOUS
  <2>1. o > 2
    BY <1>3
  <2>2. PrimeraEntrada(a, v) = 2
    <3>1. Len(ListaTotal(a)) = 0
      BY <1>1, ListaTotalDe, PartesDe
    <3> QED
      BY <1>4, <3>1 DEF PrimeraEntrada
  <2>3. Apuntado(a, v).indirecto = ids[2]
    BY <1>6, <1>7
  <2> QED
    BY <1>6, <1>9, <2>1, <2>2, <2>3
<1>11. ~(m > 1) => o = 1 /\ bytes' = bytes
  BY <1>3, <1>6, <1>9
<1>12. m > 1 =>
         /\ \A k \in Nat : k + 3 <= o =>
               /\ ids[2] * TamBloque + k * TamPuntero \in DOMAIN bytes'
               /\ bytes'[ids[2] * TamBloque + k * TamPuntero] = ids[k + 3]
         /\ DOMAIN bytes' = DOMAIN bytes
         /\ \A x \in Bloques, r \in 0..TamBloque - 1 : x # ids[2] =>
               /\ x * TamBloque + r \in DOMAIN bytes
               /\ bytes'[x * TamBloque + r] = bytes[x * TamBloque + r]
  <2> SUFFICES ASSUME m > 1
               PROVE  /\ \A k \in Nat : k + 3 <= o =>
                            /\ ids[2] * TamBloque + k * TamPuntero \in DOMAIN bytes'
                            /\ bytes'[ids[2] * TamBloque + k * TamPuntero] = ids[k + 3]
                      /\ DOMAIN bytes' = DOMAIN bytes
                      /\ \A x \in Bloques, r \in 0..TamBloque - 1 : x # ids[2] =>
                            /\ x * TamBloque + r \in DOMAIN bytes
                            /\ bytes'[x * TamBloque + r] = bytes[x * TamBloque + r]
    OBVIOUS
  <2>1. PICK ind \in Bloques : ind = ids[2]
    <3>1. 2 \in 1..o
      BY <1>10
    <3>2. ids[2] \in Bloques
      BY <1>5, <3>1
    <3> QED
      BY <3>2, Zenon
  <2>2. Len(total) <= Punteros + 2 /\ bytes' = EscribirBloquesIndirectos(total, 2, ind)
    BY <1>1, <1>2, <1>3, <1>9, <1>10, <2>1
  <2>3. /\ \A k \in Nat : k + 3 <= Len(total) =>
             /\ ind * TamBloque + k * TamPuntero \in DOMAIN bytes'
             /\ bytes'[ind * TamBloque + k * TamPuntero] = total[k + 3]
        /\ DOMAIN bytes' = DOMAIN bytes
        /\ \A x \in Bloques, r \in 0..TamBloque - 1 : x # ind =>
             /\ x * TamBloque + r \in DOMAIN bytes
             /\ bytes'[x * TamBloque + r] = bytes[x * TamBloque + r]
    BY <1>1, <2>2, EscribirEn
  <2>4. \A k \in Nat : k + 3 <= o => k + 3 \in 1..o
    OBVIOUS
  <2> QED
    BY <1>9, <2>1, <2>3, <2>4
<1>13. ASSUME NEW k \in 1..o PROVE Bloque(a, k)' = ids[k]
  <2>1. CASE k = 1
    BY <1>7, <2>1 DEF Bloque
  <2>2. CASE k = 2
    BY <1>3, <1>7, <2>2 DEF Bloque
  <2>3. CASE k # 1 /\ k # 2
    <3>1. PICK j \in Nat : j = k - 3 /\ j + 3 = k /\ j + 3 <= o
      BY <2>3
    <3>2. m > 1
      BY <1>11, <2>3
    <3>3. Bloque(a, k)' = Puntero(a, j)'
      BY <2>3, <3>1 DEF Bloque
    <3>4. Puntero(a, j)' = bytes'[ids[2] * TamBloque + j * TamPuntero]
      BY <1>7, <1>12, <3>1, <3>2 DEF Puntero, Byte
    <3> QED
      BY <1>12, <3>1, <3>2, <3>3, <3>4
  <2> QED
    BY <2>1, <2>2, <2>3
<1>14. Range(ids) = {ids[k] : k \in 1..o}
  BY <1>5 DEF Range
<1>15. Sano(a)'
  <2>1. \A k \in 1..o : Bloque(a, k)' \in bitmap' /\ (k # 1 => Bloque(a, k)' # 0)
    BY <1>5, <1>6, <1>13, <1>14
  <2>2. ASSUME NEW k \in 1..o, NEW l \in 1..o, Bloque(a, k)' = Bloque(a, l)' PROVE k = l
    <3>1. ids[k] = ids[l]
      BY <1>13, <2>2
    <3> QED
      BY <1>5, <3>1
  <2>3. Punteros' = Punteros
    BY DEF Punteros
  <2>4. \A k, l \in 1..o : Bloque(a, k)' = Bloque(a, l)' => k = l
    BY <2>2, Zenon
  <2> QED
    BY <1>2, <1>8, <2>1, <2>3, <2>4 DEF Sano
<1>16. ASSUME NEW b \in Nuevos', b # a PROVE b \in Nuevos /\ Igual(b)
  <2>1. b \in Nuevos /\ b \in DOMAIN fisico /\ fisico'[b] = fisico[b] /\ Sano(b)
    BY <1>6, <1>16 DEF Nuevos, Propiedad
  <2>2. \A k \in 1..Cuantos(b) : Bloque(b, k) \in bitmap'
    BY <1>6, <2>1 DEF Sano
  <2>3. ASSUME NEW k \in 0..Partes(b) - 2 PROVE Puntero(b, k)' = Puntero(b, k)
    <3>1. CASE m > 1
      <4>1. Partes(b) \in Nat /\ Partes(b) > 1 /\ Cuantos(b) = Partes(b) + 1
        BY <1>1, <2>1, PartesDe DEF Cuantos
      <4>2. k \in Nat /\ k < Punteros
        BY <1>1, <2>1, <4>1 DEF Sano
      <4>3. fisico[b].indirecto \in bitmap
        <5>1. 2 \in 1..Cuantos(b) /\ Bloque(b, 2) = fisico[b].indirecto
          BY <4>1 DEF Bloque
        <5> QED
          BY <2>1, <5>1 DEF Sano
      <4>4. PICK x \in Bloques : x = fisico[b].indirecto /\ x # ids[2]
        <5>1. fisico[b].indirecto \in Bloques
          BY <1>1, <4>3, TipoDe DEF TipoLeido
        <5>2. 2 \in 1..o
          BY <1>10, <3>1
        <5>3. ids[2] \notin bitmap
          BY <1>5, <5>2
        <5>4. fisico[b].indirecto # ids[2]
          BY <4>3, <5>3
        <5> QED
          BY <5>1, <5>4, Zenon
      <4>5. /\ x * TamBloque + k * TamPuntero \in DOMAIN bytes'
            /\ x * TamBloque + k * TamPuntero \in DOMAIN bytes
            /\ bytes'[x * TamBloque + k * TamPuntero] = bytes[x * TamBloque + k * TamPuntero]
        <5>1. k * TamPuntero \in 0..TamBloque - 1
          BY <4>2, PunterosDe
        <5> QED
          BY <1>12, <3>1, <4>4, <5>1
      <4> QED
        BY <2>1, <4>4, <4>5 DEF Puntero, Byte
    <3>2. CASE ~(m > 1)
      BY <1>11, <2>1, <3>2, PunteroQuieto
    <3> QED
      BY <3>1, <3>2
  <2> QED
    BY <1>1, <2>1, <2>2, <2>3, IgualDe
<1>17. ASSUME NEW b \in Nuevos, b # a
       PROVE  \A k \in 1..Cuantos(a)', l \in 1..Cuantos(b) : Bloque(a, k)' # Bloque(b, l)
  <2>1. Sano(b)
    BY DEF Propiedad
  <2> QED
    BY <1>5, <1>8, <1>13, <2>1 DEF Sano
<1>18. DOMAIN bytes' = DOMAIN bytes
  BY <1>11, <1>12
<1>19. ASSUME NEW x \in bitmap, NEW r \in 0..TamBloque - 1
       PROVE  /\ x * TamBloque + r \in DOMAIN bytes
              /\ bytes'[x * TamBloque + r] = bytes[x * TamBloque + r]
  <2>1. x \in Bloques
    BY <1>1, TipoDe DEF TipoLeido
  <2>2. CASE m > 1
    <3>1. 2 \in 1..o
      BY <1>10, <2>2
    <3>2. x # ids[2]
      BY <1>5, <3>1
    <3> QED
      BY <1>12, <2>1, <2>2, <3>2
  <2>3. CASE ~(m > 1)
    <3>1. x * TamBloque + r \in DOMAIN bytes
      BY <1>1, <2>1, EnElDisco, TipoDe DEF TipoLeido
    <3> QED
      BY <1>11, <2>3, <3>1
  <2> QED
    BY <2>2, <2>3
<1>20. Propiedad'
  BY <1>15, <1>16, <1>17, PasoDe
<1> QED
  BY <1>16, <1>18, <1>19, <1>20

\* With too few free blocks the program falls, and an empty file stays empty.
LEMMA PropiedadSinLugar ==
    ASSUME Base, Base', Propiedad, ~caido, NEW a, Primero(a) # 0, fisico[a].tamanio = 0,
           NEW v \in Seq(Int), Len(v) > Cardinality(Libres), AgrandarSinLugar(a, v), viejos' = viejos
    PROVE  Propiedad'
<1>1. /\ DOMAIN fisico' = DOMAIN fisico /\ a \in DOMAIN fisico
      /\ bitmap' = Bloques /\ bytes' = bytes /\ fisico'[a].tamanio = 0
      /\ \A b \in DOMAIN fisico : b # a => fisico'[b] = fisico[b]
  BY EfectoAgrandarSinLugar
<1>2. Cuantos(a)' = 0 /\ Sano(a)'
  BY <1>1, VacioSigue DEF Base, SinBloques
<1>3. ASSUME NEW b \in Nuevos', b # a PROVE b \in Nuevos /\ Igual(b)
  <2>1. b \in Nuevos /\ b \in DOMAIN fisico /\ fisico'[b] = fisico[b] /\ Sano(b)
    BY <1>1, <1>3 DEF Nuevos, Propiedad
  <2>2. \A k \in 1..Cuantos(b) : Bloque(b, k) \in bitmap'
    BY <1>1, <2>1, TipoDe DEF Sano, Base, TipoLeido
  <2>3. \A k : Puntero(b, k)' = Puntero(b, k)
    BY <1>1, <2>1, PunteroQuieto
  <2> QED
    BY <2>1, <2>2, <2>3, IgualDe DEF Base
<1>4. \A k \in 1..Cuantos(a)' : FALSE
  BY <1>2
<1> QED
  BY <1>2, <1>3, <1>4, PasoDe

\* The truncations of careful programs: what they do, and from where.
LEMMA TruncadosDe ==
    ASSUME Cuidadosos, Base, ~caido, NEW a, NEW n \in Tamanios, ModificarTamanio(a, n)
    PROVE  /\ Primero(a) # 0 /\ viejos' = viejos /\ a \notin viejos /\ a \in DOMAIN fisico
           /\ TruncadoSano(fisico[a].tamanio, n)
           /\ \E v \in Seq(Int) :
                 \/ n < fisico[a].tamanio /\ Achicar(a, n)
                 \/ UNCHANGED <<fisico, lista_fcb, bitmap, bytes, leido, caido>>
                 \/ /\ fisico[a].tamanio = 0 /\ 0 < n /\ n <= TamanioMaximo
                    /\ v = Vueltas(0, Techo(n)) /\ Len(v) <= Cardinality(Libres) /\ Agrandar(a, n, v)
                 \/ /\ fisico[a].tamanio = 0 /\ Len(v) > Cardinality(Libres) /\ AgrandarSinLugar(a, v)
                 \/ /\ fisico[a].tamanio < n /\ Techo(n) = Techo(fisico[a].tamanio)
                    /\ Len(v) = 0 /\ Agrandar(a, n, v)
<1>1. Primero(a) # 0 /\ viejos' = viejos
  BY DEF ModificarTamanio
<1>2. a \in DOMAIN fisico /\ lista_fcb[Primero(a)].fcb = fisico[a] /\ TipoOK /\ n \in Nat
  BY <1>1, FcbIgual, PrimeroDe, TamNat DEF Base
<1>3. PICK t \in Nat : t = fisico[a].tamanio /\ t = lista_fcb[Primero(a)].fcb.tamanio
  BY <1>2, PartesDe
<1>4. PICK v : v = Vueltas(Techo(t), Techo(n - t))
  OBVIOUS
<1>5. v \in Seq(Int)
  BY <1>1, <1>2, <1>3, <1>4, TamanioPedido
<1>6. /\ a \notin viejos /\ TruncadoSano(t, n)
      /\ \/ t < n /\ Len(v) <= Cardinality(Libres) /\ Agrandar(a, n, v)
         \/ t < n /\ Len(v) > Cardinality(Libres) /\ AgrandarSinLugar(a, v)
         \/ t > n /\ Achicar(a, n)
         \/ t = n /\ UNCHANGED <<fisico, lista_fcb, bitmap, bytes, leido, caido>>
  BY <1>3, <1>4 DEF ModificarTamanio
<1>7. CASE t > n /\ Achicar(a, n)
  <2>1. n < fisico[a].tamanio
    BY <1>2, <1>3, <1>7
  <2> QED
    BY <1>1, <1>2, <1>3, <1>5, <1>6, <1>7, <2>1
<1>8. CASE UNCHANGED <<fisico, lista_fcb, bitmap, bytes, leido, caido>>
  BY <1>1, <1>2, <1>3, <1>5, <1>6, <1>8
<1>9. CASE t < n /\ t = 0
  <2>1. Techo(t) = 0 /\ n - t = n /\ 0 < n
    BY <1>2, <1>9, TechoUno
  <2>2. v = Vueltas(0, Techo(n))
    BY <1>4, <2>1
  <2>3. n <= TamanioMaximo
    <3>1. CASE t <= n /\ Techo(n) = Techo(t)
      BY <1>2, <2>1, <3>1, TechoUno
    <3>2. CASE ~(t <= n /\ Techo(n) = Techo(t))
      BY <1>2, <1>3, <1>6, <1>9, <3>2 DEF TruncadoSano
    <3> QED
      BY <3>1, <3>2
  <2>4. CASE Len(v) <= Cardinality(Libres) /\ Agrandar(a, n, v)
    BY <1>1, <1>2, <1>3, <1>5, <1>6, <1>9, <2>1, <2>2, <2>3, <2>4
  <2>5. CASE Len(v) > Cardinality(Libres) /\ AgrandarSinLugar(a, v)
    BY <1>1, <1>2, <1>3, <1>5, <1>6, <1>9, <2>5
  <2> QED
    BY <1>6, <1>7, <1>8, <2>4, <2>5
<1>10. CASE t < n /\ t # 0
  <2>1. Techo(n) = Techo(t)
    BY <1>2, <1>3, <1>6, <1>10 DEF TruncadoSano
  <2>2. Len(v) = 0
    BY <1>2, <1>4, <1>10, <2>1, SinVueltas
  <2>3. ~(Len(v) > Cardinality(Libres))
    BY <1>2, <2>2, LibresFinito
  <2>4. CASE Agrandar(a, n, v)
    BY <1>1, <1>2, <1>3, <1>5, <1>6, <1>10, <2>1, <2>2, <2>4
  <2> QED
    BY <1>6, <1>7, <1>8, <2>3, <2>4
<1> QED
  BY <1>6, <1>7, <1>8, <1>9, <1>10

LEMMA PropiedadModificarTamanio ==
    ASSUME Cuidadosos, Base, Base', Propiedad, ~caido, NEW a, NEW n \in Tamanios,
           ModificarTamanio(a, n)
    PROVE  Propiedad'
<1>1. /\ Primero(a) # 0 /\ viejos' = viejos /\ a \notin viejos /\ a \in DOMAIN fisico
      /\ TruncadoSano(fisico[a].tamanio, n)
  BY TruncadosDe
<1>2. CASE n < fisico[a].tamanio /\ Achicar(a, n)
  BY <1>1, <1>2, PropiedadAchicar
<1>3. CASE UNCHANGED <<fisico, lista_fcb, bitmap, bytes, leido, caido>>
  BY <1>1, <1>3, PropiedadQuieta
<1>4. ASSUME NEW v \in Seq(Int), fisico[a].tamanio = 0, 0 < n, n <= TamanioMaximo,
             v = Vueltas(0, Techo(n)), Len(v) <= Cardinality(Libres), Agrandar(a, n, v)
      PROVE  Propiedad'
  BY <1>1, <1>4, PropiedadPrimera
<1>5. ASSUME NEW v \in Seq(Int), fisico[a].tamanio = 0, Len(v) > Cardinality(Libres),
             AgrandarSinLugar(a, v)
      PROVE  Propiedad'
  BY <1>1, <1>5, PropiedadSinLugar
<1>6. ASSUME NEW v \in Seq(Int), Techo(n) = Techo(fisico[a].tamanio), Len(v) = 0, Agrandar(a, n, v)
      PROVE  Propiedad'
  BY <1>1, <1>6, PropiedadMismos
<1> QED
  BY <1>2, <1>3, <1>4, <1>5, <1>6, TruncadosDe

-----------------------------------------------------------------------------
(* escribir_datos. *)

\* An access of no file, or beyond its end, has no piece.
LEMMA SinTramos ==
    ASSUME TipoOK, NEW a \in DOMAIN fisico, NEW pos \in Nat, NEW cant \in Nat, ~Entra(a, pos, cant)
    PROVE  DOMAIN Lugares(ArmarListaOffsets(a, pos, cant)) = {}
<1>1. ObtenerListaDeBloques(a, pos, cant) = <<>>
  BY DEF ObtenerListaDeBloques
<1>2. Len(ObtenerListaDeBloques(a, pos, cant)) = 0
  BY <1>1
<1>3. PICK tramos : tramos = ArmarListaOffsets(a, pos, cant) /\ tramos = <<>>
  BY <1>2, TramosDe
<1> DEFINE s == [k \in DOMAIN tramos |-> [j \in 1..tramos[k].tamanio |-> tramos[k].desde + j - 1]]
<1>4. s = <<>>
  BY <1>3
<1> HIDE DEF s
<1>5. FlattenSeq(s) = <<>>
  BY <1>4 DEF FlattenSeq
<1>6. Lugares(tramos) = <<>>
  BY <1>5 DEF Lugares, s
<1> QED
  BY <1>3, <1>6

\* A byte of a file lies in one of its blocks of data, at its place.
LEMMA LugarDato ==
    ASSUME TipoOK, NEW a \in DOMAIN fisico, NEW i \in Nat, i < fisico[a].tamanio
    PROVE  \E k \in 1..Cuantos(a), q \in Nat, r \in 0..TamBloque - 1 :
              /\ k # 2 /\ q = (IF k = 1 THEN 0 ELSE k - 2) /\ i = TamBloque * q + r
              /\ LugarDe(a, i) = Bloque(a, k) * TamBloque + r
<1>1. PICK t \in Nat, m \in Nat : t = fisico[a].tamanio /\ m = Partes(a) /\ m = Techo(t)
  BY PartesDe DEF Partes
<1>2. i < t
  BY <1>1
<1>3. TamBloque \in Nat \ {0}
  BY TamNat
<1>4. PICK q \in Int : q >= 0 /\ TamBloque * q <= i /\ i < TamBloque * q + TamBloque
  BY CocienteBloque
<1>5. PICK p \in Int : p = TamBloque * q
  BY <1>3
<1>6. PICK r \in 0..TamBloque - 1 : i = TamBloque * q + r
  <2>1. i - p \in 0..TamBloque - 1 /\ i = p + (i - p)
    BY <1>3, <1>4, <1>5
  <2> QED
    BY <1>5, <2>1
<1>7. q < m
  <2> SUFFICES ASSUME m <= q PROVE FALSE
    BY <1>1, <1>4
  <2>1. t <= TamBloque * m
    BY <1>1, TechoDe
  <2>2. TamBloque * m <= p /\ TamBloque * m \in Int
    BY <1>1, <1>3, <1>4, <1>5
  <2> QED
    BY <1>1, <1>2, <1>4, <1>5, <2>1, <2>2
<1>8. LugarDe(a, i) = BloqueDe(a, q) * TamBloque + r
  BY <1>4, <1>6, LugarEs
<1>9. PICK k \in 1..Cuantos(a) :
         k # 2 /\ q = (IF k = 1 THEN 0 ELSE k - 2) /\ BloqueDe(a, q) = Bloque(a, k)
  <2>1. CASE q = 0
    <3>1. 1 \in 1..Cuantos(a) /\ BloqueDe(a, q) = Bloque(a, 1)
      BY <1>1, <1>7, <2>1 DEF Cuantos, BloqueDe, Bloque
    <3> QED
      BY <2>1, <3>1
  <2>2. CASE q # 0
    <3>1. q + 2 \in 1..Cuantos(a) /\ q + 2 # 2 /\ q + 2 # 1 /\ (q + 2) - 3 = q - 1
      BY <1>1, <1>4, <1>7, <2>2 DEF Cuantos
    <3>2. BloqueDe(a, q) = Bloque(a, q + 2)
      BY <2>2, <3>1 DEF BloqueDe, Bloque
    <3>3. q = (IF q + 2 = 1 THEN 0 ELSE (q + 2) - 2)
      BY <1>4
    <3> QED
      BY <3>1, <3>2, <3>3
  <2> QED
    BY <2>1, <2>2
<1> QED
  BY <1>4, <1>6, <1>8, <1>9

\* The places of an access lie in the blocks of data of the file.
LEMMA LugaresDatos ==
    ASSUME TipoOK, NEW a \in DOMAIN fisico, NEW pos \in Nat, NEW cant \in Nat \ {0},
           AccesoSano(fisico[a].tamanio, pos, cant), NEW lugares,
           lugares = Lugares(ArmarListaOffsets(a, pos, cant)), NEW l \in DOMAIN lugares
    PROVE  \E k \in 1..Cuantos(a), r \in 0..TamBloque - 1 :
              k # 2 /\ lugares[l] = Bloque(a, k) * TamBloque + r
<1>1. Entra(a, pos, cant)
  BY SinTramos
<1>2. lugares = [j \in 1..cant |-> LugarDe(a, pos + j - 1)]
  BY <1>1, TramosBien
<1>3. PICK i \in Nat : i = pos + l - 1 /\ i < pos + cant /\ lugares[l] = LugarDe(a, i)
  BY <1>2
<1>4. i < fisico[a].tamanio
  <2>1. pos + cant <= fisico[a].tamanio /\ fisico[a].tamanio \in Nat
    BY <1>1, PartesDe DEF Entra
  <2> QED
    BY <1>3, <2>1
<1>5. PICK k \in 1..Cuantos(a), q \in Nat, r \in 0..TamBloque - 1 :
         /\ k # 2 /\ q = (IF k = 1 THEN 0 ELSE k - 2) /\ i = TamBloque * q + r
         /\ LugarDe(a, i) = Bloque(a, k) * TamBloque + r
  BY <1>4, LugarDato
<1> QED
  BY <1>3, <1>5

LEMMA PropiedadEscribir ==
    ASSUME Cuidadosos, Base, Propiedad, ~caido, NEW a, NEW pos \in Nat, NEW cant \in Nat \ {0},
           NEW v \in Nat, Escribir(a, pos, cant, v)
    PROVE  Propiedad' /\ \A b \in Nuevos : Igual(b)
<1> DEFINE lugares == Lugares(ArmarListaOffsets(a, pos, cant))
<1>1. /\ UNCHANGED <<fisico, bitmap, viejos>> /\ a \in DOMAIN fisico /\ DOMAIN bytes' = DOMAIN bytes
      /\ \A c \in DOMAIN bytes :
            (\A l \in DOMAIN lugares : lugares[l] # c) => bytes'[c] = bytes[c]
  BY EfectoEscribir
<1>2. a \notin viejos /\ AccesoSano(fisico[a].tamanio, pos, cant)
  BY DEF Escribir, Acceder
<1>3. TipoOK /\ a \in Nuevos /\ Sano(a) /\ bitmap \subseteq Bloques
  BY <1>1, <1>2, TipoDe DEF Base, Nuevos, Propiedad, TipoLeido
<1>4. ASSUME NEW l \in DOMAIN lugares
      PROVE  \E k \in 1..Cuantos(a), r \in 0..TamBloque - 1 :
                k # 2 /\ lugares[l] = Bloque(a, k) * TamBloque + r
  BY <1>1, <1>2, <1>3, LugaresDatos
<1> HIDE DEF lugares
<1>5. ASSUME NEW b \in Nuevos' PROVE b \in Nuevos /\ Igual(b)
  <2>1. b \in Nuevos /\ b \in DOMAIN fisico /\ fisico'[b] = fisico[b] /\ Sano(b)
    BY <1>1 DEF Nuevos, Propiedad
  <2>2. ASSUME NEW k \in 0..Partes(b) - 2 PROVE Puntero(b, k)' = Puntero(b, k)
    <3>1. Partes(b) \in Nat /\ 2 \in 1..Cuantos(b) /\ k \in Nat /\ k < Punteros
      BY <1>3, <2>1, PartesDe, PunterosDe DEF Cuantos, Sano
    <3>2. PICK x \in Bloques : x = fisico[b].indirecto /\ x = Bloque(b, 2)
      <4>1. Bloque(b, 2) = fisico[b].indirecto
        BY DEF Bloque
      <4> QED
        BY <1>3, <2>1, <3>1, <4>1 DEF Sano
    <3>3. k * TamPuntero \in 0..TamBloque - 1
      BY <3>1, PunterosDe
    <3>4. PICK c \in DOMAIN bytes : c = x * TamBloque + k * TamPuntero
      BY <1>3, <3>3, EnElDisco, TipoDe DEF TipoLeido
    <3>5. ASSUME NEW l \in DOMAIN lugares PROVE lugares[l] # c
      <4>1. PICK j \in 1..Cuantos(a), r \in 0..TamBloque - 1 :
              j # 2 /\ lugares[l] = Bloque(a, j) * TamBloque + r
        BY <1>4
      <4>2. Bloque(a, j) \in Bloques
        BY <1>3 DEF Sano
      <4>3. Bloque(a, j) # x
        <5>1. CASE a = b
          BY <2>1, <3>1, <3>2, <4>1, <5>1 DEF Sano
        <5>2. CASE a # b
          BY <1>3, <2>1, <3>1, <3>2, <5>2 DEF Propiedad, Ajenos
        <5> QED
          BY <5>1, <5>2
      <4>4. PICK y \in Int : y = Bloque(a, j)
        <5>1. Bloques \subseteq Int
          BY TamNat
        <5> QED
          BY <4>2, <5>1
      <4>5. x \in Int
        BY TamNat
      <4>6. y * TamBloque + r # x * TamBloque + k * TamPuntero
        BY <3>3, <4>3, <4>4, <4>5, Direcciones
      <4> QED
        BY <3>4, <4>1, <4>4, <4>6
    <3>6. bytes'[c] = bytes[c] /\ c \in DOMAIN bytes'
      BY <1>1, <3>5
    <3>7. Puntero(b, k)' = bytes'[c] /\ Puntero(b, k) = bytes[c]
      BY <2>1, <3>2, <3>4, <3>6 DEF Puntero, Byte
    <3> QED
      BY <3>6, <3>7
  <2>3. \A k \in 1..Cuantos(b) : Bloque(b, k) \in bitmap'
    BY <1>1, <2>1 DEF Sano
  <2> QED
    BY <1>3, <2>1, <2>2, <2>3, IgualDe
<1>6. Propiedad'
  BY <1>5, PasoIgual
<1>7. Nuevos' = Nuevos
  BY <1>1 DEF Nuevos
<1> QED
  BY <1>5, <1>6, <1>7

-----------------------------------------------------------------------------
(* The invariant. *)

LEMMA PropiedadInicial == Init => Propiedad
<1>1. Init => DOMAIN fisico = {}
  BY DEF Init
<1> QED
  BY <1>1 DEF Propiedad, Nuevos

LEMMA PropiedadInductiva ==
    Cuidadosos => (Base /\ Base' /\ Propiedad /\ [Next]_vars => Propiedad')
<1> SUFFICES ASSUME Cuidadosos, Base, Base', Propiedad, [Next]_vars PROVE Propiedad'
  OBVIOUS
<1>1. CASE UNCHANGED vars
  BY <1>1, PropiedadQuieta DEF vars
<1>2. CASE Next
  <2>1. CASE Reiniciar
    BY <2>1, PropiedadReiniciar
  <2>2. ASSUME NEW a \in Nombres, Abrir(a) PROVE Propiedad'
    <3>1. UNCHANGED <<fisico, bitmap, bytes, viejos>>
      BY <2>2 DEF Abrir
    <3> QED
      BY <3>1, PropiedadQuieta
  <2>3. ASSUME NEW a \in Nombres, Crear(a) PROVE Propiedad'
    BY <2>3, PropiedadCrear
  <2>4. ASSUME ~caido, NEW a \in Nombres, NEW n \in Tamanios, ModificarTamanio(a, n)
        PROVE  Propiedad'
    BY <2>4, PropiedadModificarTamanio
  <2>5. ASSUME ~caido, NEW a, NEW pos \in Nat, NEW cant \in Nat \ {0}, Leer(a, pos, cant)
        PROVE  Propiedad'
    <3>1. UNCHANGED <<fisico, bitmap, bytes, viejos>>
      BY <2>5, EfectoLeer
    <3> QED
      BY <3>1, PropiedadQuieta
  <2>6. ASSUME ~caido, NEW a, NEW pos \in Nat, NEW cant \in Nat \ {0}, NEW v \in Nat,
               Escribir(a, pos, cant, v)
        PROVE  Propiedad'
    BY <2>6, PropiedadEscribir
  <2> QED
    BY <1>2, <2>1, <2>2, <2>3, <2>4, <2>5, <2>6, Pedidos
<1> QED
  BY <1>1, <1>2

\* Propios lists the blocks of a file.
LEMMA PropiosDe ==
    ASSUME TipoOK, NEW a \in DOMAIN fisico
    PROVE  /\ DOMAIN Propios(a) = 1..Cuantos(a)
           /\ \A k \in 1..Cuantos(a) : Propios(a)[k] = Bloque(a, k)
<1>1. PICK n \in Nat, d \in Int, i \in Int :
        n = Partes(a) /\ d = fisico[a].directo /\ i = fisico[a].indirecto
  BY PartesDe
<1>2. CASE n = 0
  <2>1. Propios(a) = <<>> \o <<>> /\ 1..0 = {}
    BY <1>1, <1>2 DEF Propios, Partes
  <2>2. Cuantos(a) = 0 /\ <<>> \o <<>> = <<>> /\ DOMAIN <<>> = {}
    BY <1>1, <1>2 DEF Cuantos
  <2> QED
    BY <2>1, <2>2
<1>3. CASE n = 1
  <2>1. Propios(a) = <<d>> \o <<>>
    BY <1>1, <1>3 DEF Propios, Partes
  <2>2. Cuantos(a) = 1 /\ <<d>> \o <<>> = <<d>>
    BY <1>1, <1>3 DEF Cuantos
  <2>3. DOMAIN <<d>> = 1..1 /\ \A k \in 1..1 : k = 1
    OBVIOUS
  <2> QED
    BY <1>1, <2>1, <2>2, <2>3 DEF Bloque
<1>4. CASE n > 1
  <2>1. PICK s \in Seq(Int) :
          s = [k \in 1..n - 1 |-> Puntero(a, k - 1)] /\ Len(s) = n - 1
    <3>1. n - 1 \in Nat
      BY <1>4
    <3>2. \A k \in 1..n - 1 : Puntero(a, k - 1) \in Int
      BY PunteroTipo
    <3>3. PICK e : e = [k \in 1..n - 1 |-> Puntero(a, k - 1)]
      OBVIOUS
    <3>4. e = [k \in 1..n - 1 |-> e[k]] /\ \A k \in 1..n - 1 : e[k] \in Int
      BY <3>2, <3>3
    <3>5. e \in Seq(Int) /\ Len(e) = n - 1
      BY <3>1, <3>4, SecuenciaDe
    <3> QED
      BY <3>3, <3>5
  <2>2. PICK x \in Seq(Int), y \in Seq(Int) :
          x = <<d>> /\ y = <<i>> /\ Len(x) = 1 /\ Len(y) = 1 /\ x[1] = d /\ y[1] = i
    <3>1. <<d>> \in Seq(Int) /\ Len(<<d>>) = 1 /\ <<d>>[1] = d
      OBVIOUS
    <3>2. <<i>> \in Seq(Int) /\ Len(<<i>>) = 1 /\ <<i>>[1] = i
      OBVIOUS
    <3> QED
      BY <3>1, <3>2, Zenon
  <2>3. PICK z \in Seq(Int) : /\ z = y \o s /\ Len(z) = n
                              /\ \A k \in 1..n : z[k] = IF k <= 1 THEN y[k] ELSE s[k - 1]
    <3>1. /\ y \o s \in Seq(Int) /\ DOMAIN (y \o s) = 1..(Len(y) + Len(s))
          /\ \A k \in 1..(Len(y) + Len(s)) :
                (y \o s)[k] = IF k <= Len(y) THEN y[k] ELSE s[k - Len(y)]
      BY Concatenar
    <3>2. Len(y) + Len(s) = n
      <4>1. Len(y) = 1 /\ Len(s) = n - 1
        BY <2>1, <2>2, Zenon
      <4>2. n \in Int
        OBVIOUS
      <4> QED
        BY <4>1, <4>2
    <3>3. Len(y \o s) = n
      BY <3>1, <3>2
    <3> QED
      BY <2>2, <3>1, <3>2, <3>3
  <2>4. /\ DOMAIN (x \o z) = 1..(n + 1)
        /\ \A k \in 1..(n + 1) : (x \o z)[k] = IF k <= 1 THEN x[k] ELSE z[k - 1]
    <3>1. /\ DOMAIN (x \o z) = 1..(Len(x) + Len(z))
          /\ \A k \in 1..(Len(x) + Len(z)) :
                (x \o z)[k] = IF k <= Len(x) THEN x[k] ELSE z[k - Len(x)]
      BY Concatenar
    <3>2. Len(x) + Len(z) = n + 1
      BY <2>2, <2>3
    <3> QED
      BY <2>2, <3>1, <3>2
  <2>5. Propios(a) = x \o z
    BY <1>1, <1>4, <2>1, <2>2, <2>3 DEF Propios, Partes
  <2>6. Cuantos(a) = n + 1
    BY <1>1, <1>4 DEF Cuantos
  <2>7. ASSUME NEW k \in 1..n + 1 PROVE (x \o z)[k] = Bloque(a, k)
    <3>1. CASE k = 1
      BY <1>1, <2>2, <2>4, <3>1 DEF Bloque
    <3>2. CASE k = 2
      BY <1>1, <1>4, <2>2, <2>3, <2>4, <3>2 DEF Bloque
    <3>3. CASE k # 1 /\ k # 2
      <4>1. k - 1 \in 1..n /\ ~(k <= 1) /\ ~(k - 1 <= 1) /\ (k - 1) - 1 \in 1..n - 1
            /\ ((k - 1) - 1) - 1 = k - 3
        BY <3>3
      <4>2. (x \o z)[k] = s[(k - 1) - 1]
        BY <2>3, <2>4, <4>1
      <4>3. s[(k - 1) - 1] = Puntero(a, k - 3)
        BY <2>1, <4>1
      <4> QED
        BY <3>3, <4>2, <4>3 DEF Bloque
    <3> QED
      BY <3>1, <3>2, <3>3
  <2> QED
    BY <2>4, <2>5, <2>6, <2>7
<1> QED
  BY <1>1, <1>2, <1>3, <1>4

\* The blocks of a file are its own (fileSystem.c:613-669, 1327-1359,
\* 256-284), for any number and size of blocks, files and truncations, while
\* programs stay within what the code supports: a block that is taken is free,
\* one that is freed is nobody else's, and what is written in a file never
\* reaches a block of pointers.
THEOREM BloquesPropiosCorrecto ==
    ASSUME Cuidadosos
    PROVE  Spec => []BloquesPropios
<1>1. Base /\ Propiedad => BloquesPropios
  <2> SUFFICES ASSUME Base, Propiedad, NEW a \in Nuevos
               PROVE  /\ IsInjective(Propios(a))
                      /\ Range(Propios(a)) \subseteq bitmap
                      /\ \A b \in Nuevos : a # b => Range(Propios(a)) \cap Range(Propios(b)) = {}
    BY DEF BloquesPropios, Nuevos
  <2>1. ASSUME NEW b \in Nuevos
        PROVE  /\ DOMAIN Propios(b) = 1..Cuantos(b)
               /\ \A k \in 1..Cuantos(b) : Propios(b)[k] = Bloque(b, k)
               /\ Range(Propios(b)) = {Bloque(b, k) : k \in 1..Cuantos(b)}
    <3>1. /\ DOMAIN Propios(b) = 1..Cuantos(b)
          /\ \A k \in 1..Cuantos(b) : Propios(b)[k] = Bloque(b, k)
      BY PropiosDe DEF Nuevos, Base
    <3> QED
      BY <3>1 DEF Range
  <2>2. Sano(a)
    BY DEF Propiedad
  <2>3. IsInjective(Propios(a))
    <3> SUFFICES ASSUME NEW k \in DOMAIN Propios(a), NEW l \in DOMAIN Propios(a),
                        Propios(a)[k] = Propios(a)[l]
                 PROVE  k = l
      BY DEF IsInjective
    <3>1. k \in 1..Cuantos(a) /\ l \in 1..Cuantos(a)
      BY <2>1
    <3>2. Propios(a)[k] = Bloque(a, k) /\ Propios(a)[l] = Bloque(a, l)
      BY <2>1, <3>1
    <3>3. Bloque(a, k) = Bloque(a, l)
      BY <3>2
    <3> QED
      BY <2>2, <3>1, <3>3 DEF Sano
  <2>4. Range(Propios(a)) \subseteq bitmap
    BY <2>1, <2>2 DEF Sano
  <2>5. ASSUME NEW b \in Nuevos, a # b PROVE Range(Propios(a)) \cap Range(Propios(b)) = {}
    <3>1. Ajenos(a, b)
      BY <2>5 DEF Propiedad
    <3> QED
      BY <2>1, <3>1 DEF Ajenos
  <2> QED
    BY <2>3, <2>4, <2>5
<1>2. Base /\ Propiedad /\ [Next]_vars => Base' /\ Propiedad'
  BY BaseInductiva, PropiedadInductiva
<1>3. Init => Base /\ Propiedad
  BY BaseInicial, PropiedadInicial
<1> QED
  BY <1>1, <1>2, <1>3, PTL DEF Spec

-----------------------------------------------------------------------------
(* The bytes of a file, and Disco. *)

Dato(a, i) == Byte(LugarDe(a, i))
Contenido(a) == [i \in 0..fisico[a].tamanio - 1 |-> Dato(a, i)]
Contenidos == [a \in DOMAIN fisico |-> Contenido(a)]

LEMMA BitmapDe == ASSUME Base PROVE bitmap \subseteq Bloques /\ bitmap \subseteq Int
<1>1. bitmap \subseteq Bloques
  BY TipoDe DEF Base, TipoLeido
<1>2. Bloques \subseteq Int
  BY TamNat
<1> QED
  BY <1>1, <1>2

\* The bytes of a file are in its blocks, which are of the disk.
LEMMA LugarPropio ==
    ASSUME Base, NEW a \in DOMAIN fisico, Sano(a), NEW i \in Nat, i < fisico[a].tamanio
    PROVE  \E x \in bitmap, r \in 0..TamBloque - 1 :
              /\ LugarDe(a, i) = x * TamBloque + r
              /\ x * TamBloque + r \in DOMAIN bytes
<1>1. PICK k \in 1..Cuantos(a), q \in Nat, r \in 0..TamBloque - 1 :
         /\ k # 2 /\ q = (IF k = 1 THEN 0 ELSE k - 2) /\ i = TamBloque * q + r
         /\ LugarDe(a, i) = Bloque(a, k) * TamBloque + r
  BY LugarDato DEF Base
<1>2. PICK x \in bitmap : x = Bloque(a, k)
  BY DEF Sano
<1>3. TipoLeido
  BY TipoDe DEF Base
<1>4. x * TamBloque + r \in 0..NBloques * TamBloque - 1
  BY <1>3, EnElDisco DEF TipoLeido
<1> QED
  BY <1>1, <1>2, <1>3, <1>4 DEF TipoLeido

\* Two bytes of a file are in two places.
LEMMA LugarInyectivo ==
    ASSUME Base, NEW a \in DOMAIN fisico, Sano(a),
           NEW i \in Nat, i < fisico[a].tamanio, NEW j \in Nat, j < fisico[a].tamanio,
           LugarDe(a, i) = LugarDe(a, j)
    PROVE  i = j
<1>1. PICK k \in 1..Cuantos(a), q \in Nat, r \in 0..TamBloque - 1 :
         /\ k # 2 /\ q = (IF k = 1 THEN 0 ELSE k - 2) /\ i = TamBloque * q + r
         /\ LugarDe(a, i) = Bloque(a, k) * TamBloque + r
  BY LugarDato DEF Base
<1>2. PICK l \in 1..Cuantos(a), p \in Nat, s \in 0..TamBloque - 1 :
         /\ l # 2 /\ p = (IF l = 1 THEN 0 ELSE l - 2) /\ j = TamBloque * p + s
         /\ LugarDe(a, j) = Bloque(a, l) * TamBloque + s
  BY LugarDato DEF Base
<1>3. bitmap \subseteq Int
  BY BitmapDe
<1>4. PICK x \in Int, y \in Int : x = Bloque(a, k) /\ y = Bloque(a, l)
  BY <1>3 DEF Sano
<1>5. x = y /\ r = s
  <2>1. x * TamBloque + r = y * TamBloque + s
    BY <1>1, <1>2, <1>4
  <2> QED
    BY <2>1, Direcciones
<1>6. k = l
  BY <1>4, <1>5 DEF Sano
<1>7. q = p
  BY <1>1, <1>2, <1>6
<1> QED
  BY <1>1, <1>2, <1>5, <1>7

\* The bytes of two files are in different places.
LEMMA LugarAjeno ==
    ASSUME Base, Propiedad, NEW a \in Nuevos, NEW b \in Nuevos, a # b,
           NEW i \in Nat, i < fisico[a].tamanio, NEW j \in Nat, j < fisico[b].tamanio
    PROVE  LugarDe(a, i) # LugarDe(b, j)
<1> SUFFICES ASSUME LugarDe(a, i) = LugarDe(b, j) PROVE FALSE
  OBVIOUS
<1>0. a \in DOMAIN fisico /\ b \in DOMAIN fisico /\ Sano(a) /\ Sano(b) /\ Ajenos(a, b)
  BY DEF Nuevos, Propiedad
<1>1. PICK k \in 1..Cuantos(a), q \in Nat, r \in 0..TamBloque - 1 :
         /\ k # 2 /\ q = (IF k = 1 THEN 0 ELSE k - 2) /\ i = TamBloque * q + r
         /\ LugarDe(a, i) = Bloque(a, k) * TamBloque + r
  BY <1>0, LugarDato DEF Base
<1>2. PICK l \in 1..Cuantos(b), p \in Nat, s \in 0..TamBloque - 1 :
         /\ l # 2 /\ p = (IF l = 1 THEN 0 ELSE l - 2) /\ j = TamBloque * p + s
         /\ LugarDe(b, j) = Bloque(b, l) * TamBloque + s
  BY <1>0, LugarDato DEF Base
<1>3. bitmap \subseteq Int
  BY BitmapDe
<1>4. PICK x \in Int, y \in Int : x = Bloque(a, k) /\ y = Bloque(b, l)
  BY <1>0, <1>3 DEF Sano
<1>5. x = y
  <2>1. x * TamBloque + r = y * TamBloque + s
    BY <1>1, <1>2, <1>4
  <2> QED
    BY <2>1, Direcciones
<1> QED
  BY <1>0, <1>4, <1>5 DEF Ajenos

\* With the same pointers a byte stays where it was.
LEMMA LugarSigue ==
    ASSUME NEW b, fisico'[b].directo = fisico[b].directo, NEW i,
           ~(i < TamBloque) =>
              Puntero(b, i \div TamBloque - 1)' = Puntero(b, i \div TamBloque - 1)
    PROVE  LugarDe(b, i)' = LugarDe(b, i)
  BY DEF LugarDe

\* A file whose pointers a step leaves alone, when it leaves alone all bytes.
LEMMA DatoQuieto ==
    ASSUME bytes' = bytes, NEW b, fisico'[b].directo = fisico[b].directo,
           fisico'[b].indirecto = fisico[b].indirecto, NEW i
    PROVE  Dato(b, i)' = Dato(b, i)
<1>1. \A k : Puntero(b, k)' = Puntero(b, k)
  BY DEF Puntero, Byte
<1>2. LugarDe(b, i)' = LugarDe(b, i)
  BY <1>1, LugarSigue
<1> QED
  BY <1>2 DEF Dato, Byte

\* Where the step leaves it its blocks, a byte stays where it was.
LEMMA LugarIgual ==
    ASSUME Base, NEW b \in DOMAIN fisico, Igual(b), NEW i \in Nat, i < fisico[b].tamanio
    PROVE  LugarDe(b, i)' = LugarDe(b, i)
<1>1. PICK k \in 1..Cuantos(b), q \in Nat, r \in 0..TamBloque - 1 :
         /\ k # 2 /\ q = (IF k = 1 THEN 0 ELSE k - 2) /\ i = TamBloque * q + r
         /\ LugarDe(b, i) = Bloque(b, k) * TamBloque + r
  BY LugarDato DEF Base
<1>2. Cuantos(b) \in Nat
  BY PartesDe DEF Base
<1>3. 1 \in 1..Cuantos(b)
  BY <1>1, <1>2
<1>4. fisico'[b].directo = fisico[b].directo
  <2>1. Bloque(b, 1)' = Bloque(b, 1)
    BY <1>3 DEF Igual
  <2> QED
    BY <2>1 DEF Bloque
<1>5. i \div TamBloque = q
  <2>1. TamBloque * q <= i /\ i < TamBloque * q + TamBloque /\ TamBloque \in Nat \ {0}
    BY <1>1, TamNat
  <2>2. i \in Int /\ q \in Int
    OBVIOUS
  <2> QED
    BY <2>1, <2>2, CocienteEs
<1>6. ASSUME ~(i < TamBloque) PROVE Puntero(b, q - 1)' = Puntero(b, q - 1)
  <2>1. k # 1
    <3> SUFFICES ASSUME k = 1 PROVE FALSE
      OBVIOUS
    <3>1. TamBloque * 0 = 0 /\ TamBloque \in Nat
      BY TamNat
    <3>2. q = 0
      BY <1>1
    <3>3. i = r
      BY <1>1, <3>1, <3>2
    <3> QED
      BY <1>6, <3>1, <3>3
  <2>2. k - 3 = q - 1 /\ k # 2
    BY <1>1, <2>1
  <2>3. Bloque(b, k)' = Bloque(b, k)
    BY DEF Igual
  <2> QED
    BY <2>1, <2>2, <2>3 DEF Bloque
<1> QED
  BY <1>4, <1>5, <1>6, LugarSigue

\* What Disco says of the files, from what each holds.
ContenidosBien ==
    /\ DOMAIN Contenidos = DOMAIN fisico
    /\ \A a \in DOMAIN fisico :
          /\ Contenidos[a] = Contenido(a) /\ DOMAIN Contenido(a) = 0..fisico[a].tamanio - 1
          /\ \A i \in 0..fisico[a].tamanio - 1 : Contenido(a)[i] = Dato(a, i)

LEMMA ContenidosSiempre == ContenidosBien /\ ContenidosBien'
<1>1. ContenidosBien
  BY DEF ContenidosBien, Contenidos, Contenido
<1> QED
  BY <1>1, PTL

LEMMA ContenidoIgual ==
    ASSUME NEW b, fisico'[b].tamanio = fisico[b].tamanio,
           \A i \in 0..fisico[b].tamanio - 1 : Dato(b, i)' = Dato(b, i)
    PROVE  Contenido(b)' = Contenido(b)
  BY DEF Contenido

\* Steps that change neither sizes nor what files with bytes hold.
LEMMA ContenidosQuietos ==
    ASSUME DOMAIN fisico' = DOMAIN fisico, bytes' = bytes,
           \A b \in DOMAIN fisico :
              /\ fisico'[b].tamanio = fisico[b].tamanio
              /\ fisico[b].tamanio # 0 => /\ fisico'[b].directo = fisico[b].directo
                                          /\ fisico'[b].indirecto = fisico[b].indirecto
    PROVE  Contenidos' = Contenidos
<1>1. ASSUME NEW b \in DOMAIN fisico PROVE Contenido(b)' = Contenido(b)
  <2>1. CASE fisico[b].tamanio = 0
    <3>1. \A i \in 0..fisico[b].tamanio - 1 : FALSE
      BY <2>1
    <3> QED
      BY <3>1, ContenidoIgual
  <2>2. CASE fisico[b].tamanio # 0
    <3>1. \A i : Dato(b, i)' = Dato(b, i)
      BY <2>2, DatoQuieto
    <3> QED
      BY <3>1, ContenidoIgual
  <2> QED
    BY <2>1, <2>2
<1> QED
  BY <1>1 DEF Contenidos

LEMMA DiscoCrear ==
    ASSUME Base, NEW a \in Nombres, Crear(a)
    PROVE  Promesa!Crear(a)
<1>1. /\ a \notin DOMAIN fisico /\ bytes' = bytes /\ viejos' = viejos /\ leido' = Nada
      /\ DOMAIN fisico' = DOMAIN fisico \cup {a} /\ fisico'[a] = Fcb(0, 0, 0)
      /\ \A b \in DOMAIN fisico : fisico'[b] = fisico[b]
  BY DEF Crear
<1>2. ASSUME NEW b \in DOMAIN fisico PROVE Contenidos'[b] = Contenidos[b]
  <2>1. \A i : Dato(b, i)' = Dato(b, i)
    BY <1>1, DatoQuieto
  <2>2. Contenido(b)' = Contenido(b)
    BY <1>1, <2>1, ContenidoIgual
  <2> QED
    BY <1>1, <2>2, ContenidosSiempre DEF ContenidosBien
<1>3. DOMAIN Contenidos = DOMAIN fisico /\ DOMAIN Contenidos' = DOMAIN fisico'
  BY ContenidosSiempre DEF ContenidosBien
<1>4. DOMAIN Contenidos'[a] = {}
  <2>1. fisico'[a].tamanio = 0
    BY <1>1 DEF Fcb
  <2>2. 0..0 - 1 = {}
    OBVIOUS
  <2> QED
    BY <1>1, <2>1, <2>2, ContenidosSiempre DEF ContenidosBien
<1>5. PICK c, d : c = Contenidos /\ d = Contenidos'
  OBVIOUS
<1>6. /\ a \notin DOMAIN c /\ DOMAIN d = DOMAIN c \cup {a} /\ DOMAIN d[a] = {}
      /\ \A b \in DOMAIN c \ (viejos \cup {a}) : d[b] = c[b]
  BY <1>1, <1>2, <1>3, <1>4, <1>5
<1> QED
  BY <1>1, <1>5, <1>6 DEF Promesa!Crear, Promesa!Archivos, Promesa!Intactos, Contenidos, Contenido, Dato

LEMMA DiscoTruncar ==
    ASSUME Base, NEW a \in DOMAIN fisico \ viejos, NEW n \in Tamanios,
           DOMAIN fisico' = DOMAIN fisico, fisico'[a].tamanio = n, leido' = Nada, viejos' = viejos,
           \A i \in Nat : i < n /\ i < fisico[a].tamanio => Dato(a, i)' = Dato(a, i),
           \A b \in Nuevos : b # a => Contenido(b)' = Contenido(b)
    PROVE  Promesa!Truncar(a, n)
<1>1. n \in Nat /\ fisico[a].tamanio \in Nat
  BY TamNat, PartesDe DEF Base
<1>2. PICK c, d : c = Contenidos /\ d = Contenidos'
  OBVIOUS
<1>3. /\ DOMAIN c = DOMAIN fisico /\ DOMAIN d = DOMAIN c
      /\ c[a] = Contenido(a) /\ DOMAIN c[a] = 0..fisico[a].tamanio - 1
      /\ d[a] = Contenido(a)' /\ DOMAIN d[a] = 0..n - 1
  BY <1>2, ContenidosSiempre DEF ContenidosBien
<1>4. ASSUME NEW i \in DOMAIN c[a] \cap DOMAIN d[a] PROVE d[a][i] = c[a][i]
  <2>1. i \in Nat /\ i < n /\ i < fisico[a].tamanio
    BY <1>1, <1>3
  <2>2. c[a][i] = Dato(a, i)
    BY <1>3, ContenidosSiempre DEF ContenidosBien
  <2>3. d[a][i] = Dato(a, i)'
    BY <1>3, ContenidosSiempre DEF ContenidosBien
  <2> QED
    BY <2>1, <2>2, <2>3
<1>5. ASSUME NEW b \in DOMAIN c \ (viejos \cup {a}) PROVE d[b] = c[b]
  <2>1. b \in DOMAIN fisico /\ b \in Nuevos /\ b # a
    BY <1>3 DEF Nuevos
  <2>2. c[b] = Contenido(b) /\ d[b] = Contenido(b)'
    BY <1>2, <2>1, ContenidosSiempre DEF ContenidosBien
  <2> QED
    BY <2>1, <2>2
<1> QED
  BY <1>2, <1>3, <1>4, <1>5
     DEF Promesa!Truncar, Promesa!Archivos, Promesa!Intactos, Contenidos, Contenido, Dato

\* A step that leaves all bytes and the FCBs of the others.
LEMMA DemasQuietos ==
    ASSUME bytes' = bytes, NEW a, \A b \in DOMAIN fisico : b # a => fisico'[b] = fisico[b]
    PROVE  \A b \in Nuevos : b # a => Contenido(b)' = Contenido(b)
<1> SUFFICES ASSUME NEW b \in Nuevos, b # a PROVE Contenido(b)' = Contenido(b)
  OBVIOUS
<1>1. fisico'[b] = fisico[b]
  BY DEF Nuevos
<1>2. \A i : Dato(b, i)' = Dato(b, i)
  BY <1>1, DatoQuieto
<1> QED
  BY <1>1, <1>2, ContenidoIgual

LEMMA DiscoModificarTamanio ==
    ASSUME Cuidadosos, Base, Base', Propiedad, ~caido, NEW a, NEW n \in Tamanios,
           ModificarTamanio(a, n)
    PROVE  Promesa!Truncar(a, n) \/ UNCHANGED <<Contenidos, leido, viejos>>
<1>1. /\ Primero(a) # 0 /\ viejos' = viejos /\ a \notin viejos /\ a \in DOMAIN fisico
      /\ TruncadoSano(fisico[a].tamanio, n) /\ n \in Nat /\ a \in DOMAIN fisico \ viejos
  BY TruncadosDe, TamNat
<1>2. ASSUME n < fisico[a].tamanio, Achicar(a, n)
      PROVE  Promesa!Truncar(a, n)
  <2>1. /\ DOMAIN fisico' = DOMAIN fisico /\ bytes' = bytes /\ fisico'[a].tamanio = n
        /\ fisico'[a].directo = fisico[a].directo
        /\ \A b \in DOMAIN fisico : b # a => fisico'[b] = fisico[b]
    BY <1>1, <1>2, EfectoAchicar
  <2>2. n # 0 => fisico'[a].indirecto = fisico[a].indirecto
    BY <1>1, <1>2, PropiedadAchicar
  <2>3. leido' = Nada
    BY <1>2 DEF Achicar
  <2>4. ASSUME NEW i \in Nat, i < n PROVE Dato(a, i)' = Dato(a, i)
    <3>1. n # 0
      BY <2>4
    <3> QED
      BY <2>1, <2>2, <3>1, DatoQuieto
  <2>5. \A b \in Nuevos : b # a => Contenido(b)' = Contenido(b)
    BY <2>1, DemasQuietos
  <2> QED
    BY <1>1, <2>1, <2>3, <2>4, <2>5, DiscoTruncar
<1>3. ASSUME UNCHANGED <<fisico, lista_fcb, bitmap, bytes, leido, caido>>
      PROVE  UNCHANGED <<Contenidos, leido, viejos>>
  BY <1>1, <1>3, ContenidosQuietos
<1>4. ASSUME NEW v \in Seq(Int), fisico[a].tamanio = 0, 0 < n, n <= TamanioMaximo,
             v = Vueltas(0, Techo(n)), Len(v) <= Cardinality(Libres), Agrandar(a, n, v)
      PROVE  Promesa!Truncar(a, n)
  <2>1. /\ \A b \in Nuevos' : b # a => b \in Nuevos /\ Igual(b)
        /\ \A x \in bitmap, r \in 0..TamBloque - 1 :
              /\ x * TamBloque + r \in DOMAIN bytes
              /\ bytes'[x * TamBloque + r] = bytes[x * TamBloque + r]
        /\ DOMAIN bytes' = DOMAIN bytes
    BY <1>1, <1>4, PropiedadPrimera
  <2>2. /\ DOMAIN fisico' = DOMAIN fisico /\ fisico'[a].tamanio = n
        /\ \A b \in DOMAIN fisico : b # a => fisico'[b] = fisico[b]
    BY <1>1, <1>4, EfectoAgrandar
  <2>3. leido' = Nada
    BY <1>4 DEF Agrandar
  <2>4. ASSUME NEW b \in Nuevos, b # a PROVE Contenido(b)' = Contenido(b)
    <3>1. b \in Nuevos' /\ b \in DOMAIN fisico /\ Igual(b) /\ Sano(b) /\ fisico'[b] = fisico[b]
          /\ fisico[b].tamanio \in Nat
      BY <1>1, <2>1, <2>2, <2>4, PartesDe DEF Nuevos, Propiedad, Base
    <3>2. ASSUME NEW i \in 0..fisico[b].tamanio - 1 PROVE Dato(b, i)' = Dato(b, i)
      <4>1. i \in Nat /\ i < fisico[b].tamanio
        BY <3>1
      <4>2. LugarDe(b, i)' = LugarDe(b, i)
        BY <3>1, <4>1, LugarIgual
      <4>3. PICK x \in bitmap, r \in 0..TamBloque - 1 : LugarDe(b, i) = x * TamBloque + r
        BY <3>1, <4>1, LugarPropio
      <4>4. LugarDe(b, i) \in DOMAIN bytes /\ bytes'[LugarDe(b, i)] = bytes[LugarDe(b, i)]
        BY <2>1, <4>3
      <4> QED
        BY <2>1, <4>2, <4>4 DEF Dato, Byte
    <3> QED
      BY <3>1, <3>2, ContenidoIgual
  <2>5. \A i \in Nat : ~(i < fisico[a].tamanio)
    BY <1>4
  <2> QED
    BY <1>1, <2>2, <2>3, <2>4, <2>5, DiscoTruncar
<1>5. ASSUME NEW v \in Seq(Int), fisico[a].tamanio = 0, Len(v) > Cardinality(Libres),
             AgrandarSinLugar(a, v)
      PROVE  UNCHANGED <<Contenidos, leido, viejos>>
  <2>1. /\ DOMAIN fisico' = DOMAIN fisico /\ bytes' = bytes
        /\ fisico'[a].tamanio = fisico[a].tamanio
        /\ \A b \in DOMAIN fisico : b # a => fisico'[b] = fisico[b]
    BY <1>1, <1>5, EfectoAgrandarSinLugar
  <2>2. Contenidos' = Contenidos
    BY <1>5, <2>1, ContenidosQuietos
  <2>3. leido' = leido
    BY <1>5 DEF AgrandarSinLugar
  <2> QED
    BY <1>1, <2>2, <2>3
<1>6. ASSUME NEW v \in Seq(Int), Techo(n) = Techo(fisico[a].tamanio), Len(v) = 0, Agrandar(a, n, v)
      PROVE  Promesa!Truncar(a, n)
  <2>1. Len(v) <= Cardinality(Libres)
    BY <1>6, LibresFinito DEF Base
  <2>2. /\ DOMAIN fisico' = DOMAIN fisico /\ fisico'[a].tamanio = n
        /\ \A b \in DOMAIN fisico : b # a => fisico'[b] = fisico[b]
    BY <1>1, <1>6, <2>1, EfectoAgrandar
  <2>3. bytes' = bytes /\ fisico'[a].directo = fisico[a].directo
        /\ fisico'[a].indirecto = fisico[a].indirecto
    BY <1>1, <1>6, PropiedadMismos
  <2>4. leido' = Nada
    BY <1>6 DEF Agrandar
  <2>5. \A i : Dato(a, i)' = Dato(a, i)
    BY <2>3, DatoQuieto
  <2>6. \A b \in Nuevos : b # a => Contenido(b)' = Contenido(b)
    BY <2>2, <2>3, DemasQuietos
  <2> QED
    BY <1>1, <2>2, <2>4, <2>5, <2>6, DiscoTruncar
<1> QED
  BY <1>2, <1>3, <1>4, <1>5, <1>6, TruncadosDe

LEMMA DiscoEscribir ==
    ASSUME Cuidadosos, Base, Propiedad, ~caido, NEW a, NEW pos \in Nat, NEW cant \in Nat \ {0},
           NEW v \in Nat, Escribir(a, pos, cant, v)
    PROVE  Promesa!Escribir(a, pos, cant, v) \/ UNCHANGED <<Contenidos, leido, viejos>>
<1> DEFINE lugares == Lugares(ArmarListaOffsets(a, pos, cant))
<1>1. /\ UNCHANGED <<fisico, lista_fcb, bitmap, viejos>> /\ a \in DOMAIN fisico
      /\ DOMAIN bytes' = DOMAIN bytes
      /\ \A c \in DOMAIN bytes :
            (\A k \in DOMAIN lugares : lugares[k] # c) => bytes'[c] = bytes[c]
      /\ \A c \in DOMAIN bytes, j \in DOMAIN lugares :
            (\A k \in DOMAIN lugares : lugares[k] = c <=> k = j) => bytes'[c] = v + pos + j - 1
      /\ leido' = IF lugares = <<>> THEN leido ELSE Nada
  BY EfectoEscribir
<1>2. /\ a \notin viejos /\ AccesoSano(fisico[a].tamanio, pos, cant) /\ TipoOK /\ a \in Nuevos
      /\ Sano(a) /\ fisico[a].tamanio \in Nat
  BY <1>1, PartesDe DEF Escribir, Acceder, Base, Nuevos, Propiedad
<1>3. lugares \in Seq(Int)
  BY <1>1, <1>2, LugaresTipo
<1>4. ASSUME ~Entra(a, pos, cant) PROVE UNCHANGED <<Contenidos, leido, viejos>>
  <2>1. DOMAIN lugares = {}
    BY <1>1, <1>2, <1>4, SinTramos
  <2> HIDE DEF lugares
  <2>2. lugares = <<>>
    BY <1>3, <2>1
  <2>3. \A c \in DOMAIN bytes : bytes'[c] = bytes[c]
    BY <1>1, <2>1
  <2>4. bytes' = bytes
    <3>1. TipoLeido /\ TipoLeido'
      BY <1>1, TipoDe, EfectoEscribir DEF Base
    <3>2. bytes = [c \in DOMAIN bytes |-> bytes[c]] /\ bytes' = [c \in DOMAIN bytes' |-> bytes'[c]]
      BY <3>1 DEF TipoLeido
    <3> QED
      BY <1>1, <2>3, <3>2
  <2>5. Contenidos' = Contenidos
    BY <1>1, <2>4, ContenidosQuietos
  <2> QED
    BY <1>1, <2>2, <2>5
<1>5. ASSUME Entra(a, pos, cant) PROVE Promesa!Escribir(a, pos, cant, v)
  <2>1. lugares = [j \in 1..cant |-> LugarDe(a, pos + j - 1)]
    BY <1>1, <1>2, <1>5, TramosBien
  <2>2. pos + cant <= fisico[a].tamanio
    BY <1>5 DEF Entra
  <2> HIDE DEF lugares
  <2>3. DOMAIN lugares = 1..cant /\ \A j \in 1..cant : lugares[j] = LugarDe(a, pos + j - 1)
    BY <2>1
  <2>4. leido' = Nada
    <3>1. 1 \in DOMAIN lugares
      BY <2>3
    <3> QED
      BY <1>1, <3>1
  <2>5. \A b \in Nuevos : Igual(b) /\ b \in DOMAIN fisico /\ Sano(b)
    BY PropiedadEscribir DEF Nuevos, Propiedad
  <2>6. ASSUME NEW b \in Nuevos, NEW i \in Nat, i < fisico[b].tamanio
        PROVE  /\ LugarDe(b, i)' = LugarDe(b, i) /\ LugarDe(b, i) \in DOMAIN bytes
               /\ Dato(b, i) = bytes[LugarDe(b, i)] /\ Dato(b, i)' = bytes'[LugarDe(b, i)]
    <3>1. LugarDe(b, i)' = LugarDe(b, i)
      BY <2>5, <2>6, LugarIgual
    <3>2. LugarDe(b, i) \in DOMAIN bytes
      BY <2>5, <2>6, LugarPropio
    <3> QED
      BY <1>1, <3>1, <3>2 DEF Dato, Byte
  <2>7. ASSUME NEW b \in Nuevos, b # a PROVE Contenido(b)' = Contenido(b)
    <3>1. fisico[b].tamanio \in Nat /\ fisico'[b] = fisico[b]
      BY <1>1, <1>2, <2>5, PartesDe
    <3>2. ASSUME NEW i \in 0..fisico[b].tamanio - 1 PROVE Dato(b, i)' = Dato(b, i)
      <4>1. i \in Nat /\ i < fisico[b].tamanio
        BY <3>1
      <4>2. ASSUME NEW j \in DOMAIN lugares PROVE lugares[j] # LugarDe(b, i)
        <5>1. pos + j - 1 \in Nat /\ pos + j - 1 < fisico[a].tamanio
          BY <1>2, <2>2, <2>3
        <5>2. LugarDe(a, pos + j - 1) # LugarDe(b, i)
          BY <1>2, <2>7, <4>1, <5>1, LugarAjeno
        <5> QED
          BY <2>3, <5>2
      <4> QED
        BY <1>1, <2>6, <4>1, <4>2
    <3> QED
      BY <3>1, <3>2, ContenidoIgual
  <2>8. ASSUME NEW i \in Nat, i < fisico[a].tamanio
        PROVE  Dato(a, i)' = IF i \in pos..pos + cant - 1 THEN v + i ELSE Dato(a, i)
    <3>1. ASSUME NEW j \in DOMAIN lugares PROVE lugares[j] = LugarDe(a, i) => i = pos + j - 1
      <4>1. pos + j - 1 \in Nat /\ pos + j - 1 < fisico[a].tamanio
        BY <1>2, <2>2, <2>3
      <4> QED
        BY <1>1, <1>2, <2>3, <2>8, <4>1, LugarInyectivo
    <3>2. CASE i \in pos..pos + cant - 1
      <4>1. PICK j \in 1..cant : j = i - pos + 1
        BY <3>2
      <4>2. i = pos + j - 1 /\ v + pos + j - 1 = v + i
        BY <4>1
      <4>3. ASSUME NEW k \in DOMAIN lugares PROVE lugares[k] = LugarDe(a, i) <=> k = j
        <5>1. k \in Nat /\ (i = pos + k - 1 => k = j)
          BY <2>3, <4>1
        <5> QED
          BY <2>3, <3>1, <4>2, <5>1
      <4>4. bytes'[LugarDe(a, i)] = v + pos + j - 1
        BY <1>1, <1>2, <2>3, <2>6, <2>8, <4>3
      <4> QED
        BY <1>2, <2>6, <2>8, <3>2, <4>2, <4>4
    <3>3. CASE i \notin pos..pos + cant - 1
      <4>1. ASSUME NEW j \in DOMAIN lugares PROVE lugares[j] # LugarDe(a, i)
        <5>1. i # pos + j - 1
          BY <2>3, <3>3
        <5> QED
          BY <3>1, <5>1
      <4> QED
        BY <1>1, <1>2, <2>6, <2>8, <3>3, <4>1
    <3> QED
      BY <3>2, <3>3
  <2>9. PICK c, d : c = Contenidos /\ d = Contenidos'
    OBVIOUS
  <2>10. /\ DOMAIN c = DOMAIN fisico /\ DOMAIN d = DOMAIN c
         /\ c[a] = Contenido(a) /\ DOMAIN c[a] = 0..fisico[a].tamanio - 1
         /\ d[a] = Contenido(a)' /\ DOMAIN d[a] = DOMAIN c[a]
    BY <1>1, <2>9, ContenidosSiempre DEF ContenidosBien
  <2>11. d[a] = [i \in DOMAIN c[a] |-> IF i \in pos..pos + cant - 1 THEN v + i ELSE c[a][i]]
    <3>1. d[a] = [i \in DOMAIN c[a] |-> d[a][i]]
      BY <1>1, <2>10 DEF Contenido
    <3>2. ASSUME NEW i \in DOMAIN c[a]
          PROVE  d[a][i] = IF i \in pos..pos + cant - 1 THEN v + i ELSE c[a][i]
      <4>1. i \in Nat /\ i < fisico[a].tamanio /\ i \in 0..fisico[a].tamanio - 1
        BY <1>2, <2>10
      <4>2. c[a][i] = Dato(a, i) /\ d[a][i] = Dato(a, i)'
        BY <1>1, <2>10, <4>1, ContenidosSiempre DEF ContenidosBien
      <4> QED
        BY <2>8, <4>1, <4>2
    <3> QED
      BY <3>1, <3>2
  <2>12. ASSUME NEW b \in DOMAIN c \ (viejos \cup {a}) PROVE d[b] = c[b]
    <3>1. b \in DOMAIN fisico /\ b \in Nuevos /\ b # a
      BY <2>10 DEF Nuevos
    <3>2. c[b] = Contenido(b) /\ d[b] = Contenido(b)'
      BY <1>1, <2>9, <3>1, ContenidosSiempre DEF ContenidosBien
    <3> QED
      BY <2>7, <3>1, <3>2
  <2>13. 0..pos + cant - 1 \subseteq DOMAIN c[a] /\ a \in DOMAIN c \ viejos
    BY <1>1, <1>2, <2>2, <2>10
  <2> QED
    BY <1>1, <2>4, <2>9, <2>10, <2>11, <2>12, <2>13
       DEF Promesa!Escribir, Promesa!Archivos, Promesa!Intactos, Contenidos, Contenido, Dato
<1> QED
  BY <1>4, <1>5

\* A row of one piece is that piece.
LEMMA AplanaUno ==
    ASSUME NEW S, NEW s \in Seq(Seq(S)), Len(s) = 1
    PROVE  FlattenSeq(s) = s[1]
<1>1. s # <<>>
  OBVIOUS
<1> QED
  BY <1>1, AplanaDe

\* What leer_datos delivers of an access in one piece.
LEMMA LeidoUno ==
    ASSUME Base, NEW a \in DOMAIN fisico, NEW pos \in Nat, NEW cant \in Nat \ {0},
           AccesoSano(fisico[a].tamanio, pos, cant), Entra(a, pos, cant),
           NEW tramos, tramos = ArmarListaOffsets(a, pos, cant), Len(tramos) = 1
    PROVE  LeerDatos(tramos, pos, cant) = [i \in pos..pos + cant - 1 |-> Dato(a, i)]
<1>1. cant \in Nat /\ TipoOK
  BY DEF Base
<1>2. PICK n \in Nat : /\ DOMAIN tramos = 1..n
                       /\ \A k \in 1..n : tramos[k].desde \in Int /\ tramos[k].tamanio \in Int
  BY <1>1, TramosTipo
<1>3. n = 1
  BY <1>2
<1>4. PICK d \in Int, t \in Int : d = tramos[1].desde /\ t = tramos[1].tamanio
  BY <1>2, <1>3
<1> DEFINE s == [k \in DOMAIN tramos |-> [j \in 1..tramos[k].tamanio |-> tramos[k].desde + j - 1]]
           p == [j \in 1..t |-> d + j - 1]
<1>5. p \in Seq(Int)
  OBVIOUS
<1>6. s = [k \in 1..1 |-> p]
  BY <1>2, <1>3, <1>4
<1> HIDE DEF p, s
<1>7. s \in Seq(Seq(Int)) /\ Len(s) = 1 /\ s[1] = p
  <2>1. s[1] = p /\ s = [k \in 1..1 |-> s[k]] /\ \A k \in 1..1 : s[k] \in Seq(Int)
    BY <1>5, <1>6
  <2>2. s \in Seq(Seq(Int)) /\ Len(s) = 1
    BY <2>1, SecuenciaDe
  <2> QED
    BY <2>1, <2>2
<1>8. Lugares(tramos) = p
  BY <1>7, AplanaUno DEF Lugares, s
<1>9. p = [j \in 1..cant |-> LugarDe(a, pos + j - 1)]
  BY <1>8, TramosBien DEF Base
<1>10. 1..t = 1..cant
  <2>1. DOMAIN p = 1..t /\ DOMAIN p = 1..cant
    BY <1>9 DEF p
  <2> QED
    BY <2>1
<1>11. t = cant
  BY <1>4, <1>10
<1>12. ASSUME NEW i \in pos..pos + cant - 1
       PROVE  LeerDatos(tramos, pos, cant)[i] = Dato(a, i)
  <2>1. PICK j \in 1..cant : j = i - pos + 1
    OBVIOUS
  <2>2. i = pos + j - 1 /\ i - pos < t /\ d + i - pos = d + j - 1
    BY <1>11, <2>1
  <2>3. p[j] = d + j - 1
    BY <1>11 DEF p
  <2>4. p[j] = LugarDe(a, i)
    BY <1>9, <2>2
  <2> QED
    BY <1>4, <2>2, <2>3, <2>4 DEF LeerDatos, Dato
<1> QED
  BY <1>12 DEF LeerDatos

LEMMA DiscoLeer ==
    ASSUME Cuidadosos, Base, ~caido, NEW a, NEW pos \in Nat, NEW cant \in Nat \ {0},
           Leer(a, pos, cant)
    PROVE  Promesa!Leer(a, pos, cant) \/ UNCHANGED <<Contenidos, leido, viejos>>
<1>1. UNCHANGED <<fisico, lista_fcb, bitmap, bytes, viejos>>
  BY EfectoLeer
<1>2. /\ a \in DOMAIN fisico /\ AccesoSano(fisico[a].tamanio, pos, cant)
      /\ fisico[a].tamanio \in Nat
  BY PrimeroDe, PartesDe DEF Leer, Acceder, Base
<1>3. Contenidos' = Contenidos
  BY <1>1, ContenidosQuietos
<1>4. PICK tramos : tramos = ArmarListaOffsets(a, pos, cant)
  OBVIOUS
<1>5. CASE tramos = <<>>
  <2>1. leido' = leido
    BY <1>4, <1>5 DEF Leer
  <2> QED
    BY <1>1, <1>3, <2>1
<1>6. CASE tramos # <<>>
  <2>1. Len(tramos) = 1 /\ leido' = LeerDatos(tramos, pos, cant)
    BY <1>4, <1>6 DEF Leer
  <2>2. Entra(a, pos, cant)
    <3> SUFFICES ASSUME ~Entra(a, pos, cant) PROVE FALSE
      OBVIOUS
    <3>1. ObtenerListaDeBloques(a, pos, cant) = <<>>
      BY DEF ObtenerListaDeBloques
    <3>2. Len(ObtenerListaDeBloques(a, pos, cant)) = 0
      BY <3>1
    <3> QED
      BY <1>2, <1>4, <1>6, <3>2, TramosDe DEF Base
  <2>3. leido' = [i \in pos..pos + cant - 1 |-> Dato(a, i)]
    BY <1>2, <1>4, <2>1, <2>2, LeidoUno
  <2>4. pos + cant <= fisico[a].tamanio
    BY <2>2 DEF Entra
  <2>5. PICK c : c = Contenidos
    OBVIOUS
  <2>6. /\ DOMAIN c = DOMAIN fisico /\ c[a] = Contenido(a)
        /\ DOMAIN c[a] = 0..fisico[a].tamanio - 1
    BY <1>2, <2>5, ContenidosSiempre DEF ContenidosBien
  <2>7. \A i \in pos..pos + cant - 1 : i \in 0..fisico[a].tamanio - 1
    BY <1>2, <2>4
  <2>8. \A i \in pos..pos + cant - 1 : c[a][i] = Dato(a, i)
    BY <1>2, <2>6, <2>7, ContenidosSiempre DEF ContenidosBien
  <2>9. leido' = [i \in pos..pos + cant - 1 |-> c[a][i]]
    BY <2>3, <2>8
  <2>10. 0..pos + cant - 1 \subseteq DOMAIN c[a] /\ a \in DOMAIN c
    BY <1>2, <2>4, <2>6
  <2> QED
    BY <1>1, <1>3, <2>5, <2>9, <2>10 DEF Promesa!Leer, Promesa!Archivos, Contenidos, Contenido, Dato
<1> QED
  BY <1>5, <1>6

LEMMA DiscoReiniciar ==
    ASSUME Base, Reiniciar
    PROVE  Promesa!Reiniciar
<1>1. /\ UNCHANGED <<fisico, bytes>> /\ leido' = Nada
      /\ viejos' = {a \in DOMAIN fisico : fisico[a].tamanio > 0}
  BY DEF Reiniciar
<1>2. Contenidos' = Contenidos
  BY <1>1, ContenidosQuietos
<1>3. PICK c : c = Contenidos
  OBVIOUS
<1>4. DOMAIN c = DOMAIN fisico
  BY <1>3, ContenidosSiempre DEF ContenidosBien
<1>5. ASSUME NEW a \in DOMAIN fisico PROVE DOMAIN c[a] # {} <=> fisico[a].tamanio > 0
  <2>1. DOMAIN c[a] = 0..fisico[a].tamanio - 1 /\ fisico[a].tamanio \in Nat
    BY <1>3, PartesDe, ContenidosSiempre DEF ContenidosBien, Base
  <2> QED
    BY <2>1
<1>6. viejos' = {a \in DOMAIN c : DOMAIN c[a] # {}}
  BY <1>1, <1>4, <1>5
<1> QED
  BY <1>1, <1>2, <1>3, <1>6 DEF Promesa!Reiniciar, Promesa!Archivos, Contenidos, Contenido, Dato

LEMMA DiscoInicial == Init => Promesa!Init
<1> SUFFICES ASSUME Init PROVE Promesa!Init
  OBVIOUS
<1>1. DOMAIN fisico = {} /\ leido = Nada /\ viejos = {}
  BY DEF Init
<1>2. Contenidos = [a \in {} |-> {}]
  BY <1>1 DEF Contenidos
<1> QED
  BY <1>1, <1>2 DEF Promesa!Init, Contenidos, Contenido, Dato

LEMMA DiscoPaso ==
    ASSUME Cuidadosos, Base, Base', Propiedad, [Next]_vars
    PROVE  [Promesa!Next]_(Promesa!vars)
<1>1. Promesa!Next \/ UNCHANGED <<Contenidos, leido, viejos>>
  <2>1. CASE UNCHANGED vars
    <3>1. UNCHANGED <<fisico, bytes, leido, viejos>>
      BY <2>1 DEF vars
    <3> QED
      BY <3>1, ContenidosQuietos
  <2>2. CASE Reiniciar
    BY <2>2, DiscoReiniciar DEF Promesa!Next
  <2>3. CASE AtenderKernel
    <3>1. ~caido
      BY <2>3 DEF AtenderKernel
    <3>2. ASSUME NEW a \in Nombres, Abrir(a) PROVE UNCHANGED <<Contenidos, leido, viejos>>
      <4>1. UNCHANGED <<fisico, bytes, leido, viejos>>
        BY <3>2 DEF Abrir
      <4> QED
        BY <4>1, ContenidosQuietos
    <3>3. ASSUME NEW a \in Nombres, Crear(a) PROVE Promesa!Next
      <4>1. Promesa!Crear(a)
        BY <3>3, DiscoCrear
      <4> QED
        BY <4>1 DEF Promesa!Next
    <3>4. ASSUME NEW a \in Nombres, NEW n \in Tamanios, ModificarTamanio(a, n)
          PROVE  Promesa!Next \/ UNCHANGED <<Contenidos, leido, viejos>>
      <4>1. Promesa!Truncar(a, n) \/ UNCHANGED <<Contenidos, leido, viejos>>
        BY <3>1, <3>4, DiscoModificarTamanio
      <4> QED
        BY <4>1 DEF Promesa!Next
    <3>5. ASSUME NEW acceso \in Accesos PROVE acceso[1] \in Nat /\ acceso[2] \in Nat \ {0}
      BY SupuestosSistemaArchivos
    <3>6. ASSUME NEW a \in Nombres, NEW acceso \in Accesos, Leer(a, acceso[1], acceso[2])
          PROVE  Promesa!Next \/ UNCHANGED <<Contenidos, leido, viejos>>
      <4>1. Promesa!Leer(a, acceso[1], acceso[2]) \/ UNCHANGED <<Contenidos, leido, viejos>>
        BY <3>1, <3>5, <3>6, DiscoLeer
      <4> QED
        BY <4>1 DEF Promesa!Next
    <3>7. ASSUME NEW a \in Nombres, NEW acceso \in Accesos, NEW v \in Valores,
                 Escribir(a, acceso[1], acceso[2], v)
          PROVE  Promesa!Next \/ UNCHANGED <<Contenidos, leido, viejos>>
      <4>1. v \in Nat
        BY SupuestosSistemaArchivos
      <4>2. \/ Promesa!Escribir(a, acceso[1], acceso[2], v)
            \/ UNCHANGED <<Contenidos, leido, viejos>>
        BY <3>1, <3>5, <3>7, <4>1, DiscoEscribir
      <4> QED
        BY <4>2 DEF Promesa!Next
    <3> QED
      BY <2>3, <3>2, <3>3, <3>4, <3>6, <3>7 DEF AtenderKernel
  <2> QED
    BY <2>1, <2>2, <2>3 DEF Next
<1> QED
  BY <1>1 DEF Promesa!vars, Contenidos, Contenido, Dato

\* The file system keeps the promise of Disco, for any number and size of
\* blocks, files, truncations, accesses and starts, while programs stay within
\* what the code supports: a file holds the bytes that were written in it last,
\* wherever truncations took its blocks from and whatever was created,
\* truncated and written in others (fileSystem.c:613-694, 830-944, 1327-1359).
THEOREM ImplementaDiscoCorrecto ==
    ASSUME Cuidadosos
    PROVE  Spec => ImplementaDisco
<1>1. Init => Base /\ Propiedad /\ Promesa!Init
  BY BaseInicial, PropiedadInicial, DiscoInicial
<1>2. Base /\ Propiedad /\ [Next]_vars => Base' /\ Propiedad'
  BY BaseInductiva, PropiedadInductiva
<1>3. Base /\ Base' /\ Propiedad /\ [Next]_vars => [Promesa!Next]_(Promesa!vars)
  BY DiscoPaso
<1> QED
  BY <1>1, <1>2, <1>3, PTL DEF Spec, ImplementaDisco, Promesa!Spec
=============================================================================
