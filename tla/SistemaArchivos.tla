-------------------------- MODULE SistemaArchivos --------------------------
(***************************************************************************)
(* The file system of fileSystem/src/fileSystem.c: the FCB files, the      *)
(* list lista_fcb of the FCBs opened since it started, the bitmap and the  *)
(* blocks. The first block of a file hangs from its direct pointer, the    *)
(* others from the pointers in the block of its indirect pointer.          *)
(*                                                                         *)
(* atender_kernel serves one request at a time, so a request is one step.  *)
(* Bytes and pointers are integers; byte i of what a program writes in a   *)
(* file is v + i, so that no two positions look alike. The program that    *)
(* makes a request has opened the file, as `Archivos` has it.              *)
(***************************************************************************)
EXTENDS Integers, Sequences, SequencesExt, FiniteSets, FiniteSetsExt

CONSTANTS
    NBloques,               \* BLOCK_COUNT of the superblock
    TamBloque,              \* BLOCK_SIZE
    TamPuntero,             \* sizeof(uint32_t), TAMANIO_DE_PUNTERO
    Nombres,                \* file names
    Tamanios,               \* arguments of F_TRUNCATE
    Accesos,                \* <<position, bytes>> of F_READ and F_WRITE
    Valores,                \* what F_WRITE writes
    MaxFcbs,                \* bound: openings since the last start
    MaxCambios,             \* bound: truncations, writes and starts in a behaviour
    Cuidadosos,             \* programs stay within what the code supports
    Nada

ASSUME SupuestosSistemaArchivos ==
    /\ NBloques \in Nat \ {0} /\ NBloques % 8 = 0
    /\ TamPuntero \in Nat \ {0} /\ TamBloque \in Nat \ {0} /\ TamBloque % TamPuntero = 0
    /\ Tamanios \subseteq Nat
    /\ Accesos \subseteq Nat \X (Nat \ {0})
    /\ Valores \subseteq Nat
    /\ MaxFcbs \in Nat /\ MaxCambios \in Nat
    /\ Cuidadosos \in BOOLEAN

VARIABLES
    fisico,                 \* the FCB files: [files that exist -> Fcb]
    lista_fcb,              \* sequence of [nombre, fcb], one per opening
    bitmap,                 \* blocks whose bit is set
    bytes,                  \* memoria_file_system: [0..NBloques * TamBloque - 1 -> Int]
    leido,                  \* bytes the last F_READ delivered to the memory, or Nada
    caido,                  \* the program has ended by a signal
    viejos,                 \* history: files with bytes when it was last started
    cambios                 \* truncations, writes and starts so far

vars == <<fisico, lista_fcb, bitmap, bytes, leido, caido, viejos, cambios>>

Fcb(t, d, i) == [tamanio |-> t, directo |-> d, indirecto |-> i]
Bloques == 0..NBloques - 1

\* The first start: no FCB file yet, and the file of the bitmap is all zeros.
Init ==
    /\ fisico = [a \in {} |-> Fcb(0, 0, 0)]
    /\ lista_fcb = <<>>
    /\ bitmap = {}
    /\ bytes = [c \in 0..NBloques * TamBloque - 1 |-> 0]
    /\ leido = Nada
    /\ caido = FALSE
    /\ viejos = {}
    /\ cambios = 0

\* Bounds the behaviours.
Cambia == cambios < MaxCambios /\ cambios' = cambios + 1

-----------------------------------------------------------------------------
(* Sizes in blocks, and what lies where *)

Techo(t) == (t + TamBloque - 1) \div TamBloque

TamanioMaximo == (TamBloque \div TamPuntero + 1) * TamBloque

\* What is beyond the mapped file is taken to read as 0.
Byte(c) == IF c \in DOMAIN bytes THEN bytes[c] ELSE 0

\* The k-th pointer of the indirect block of a file.
Puntero(a, k) == Byte(fisico[a].indirecto * TamBloque + k * TamPuntero)

\* leer_bloques_indirectos: the blocks of the bytes from `desde`, one for
\* each block size before `hasta`.
LeerBloquesIndirectos(a, desde, hasta) ==
    [k \in 1..Techo(Max({0, hasta - desde})) |-> Puntero(a, desde \div TamBloque - 1 + k - 1)]

\* obtener_lista_total_de_bloques: the direct block, the indirect one (the
\* code reads PUNTERO_DIRECTO for it) and those it points to.
ListaTotal(a) ==
    LET f == fisico[a]
    IN  IF f.tamanio = 0 THEN <<>>
        ELSE IF Techo(f.tamanio) = 1 THEN <<f.directo>>
        ELSE <<f.directo, f.directo>>
             \o LeerBloquesIndirectos(a, TamBloque, Techo(f.tamanio) * TamBloque)

\* get_fcb: the first FCB of lista_fcb with the name.
Primero(a) == SelectInSeq(lista_fcb, LAMBDA e : e.nombre = a)

\* Mutant: the FCB of the last opening.
ModificarFcbUltimo(a, f) ==
    /\ fisico' = [fisico EXCEPT ![a] = f]
    /\ lista_fcb' = [lista_fcb EXCEPT ![SelectLastInSeq(lista_fcb, LAMBDA e : e.nombre = a)].fcb = f]

\* modificar_fcb: the FCB, in lista_fcb and in its file.
ModificarFcb(a, f) ==
    /\ fisico' = [fisico EXCEPT ![a] = f]
    /\ lista_fcb' = [lista_fcb EXCEPT ![Primero(a)].fcb = f]

-----------------------------------------------------------------------------
(* ABRIR_ARCHIVO and CREAR_ARCHIVO *)

Agregar(a, f) ==
    /\ Len(lista_fcb) < MaxFcbs
    /\ lista_fcb' = Append(lista_fcb, [nombre |-> a, fcb |-> f])

\* buscar_archivo_fcb: a file that exists is entered once more.
Abrir(a) ==
    /\ a \in DOMAIN fisico
    /\ Agregar(a, fisico[a])
    /\ UNCHANGED <<fisico, bitmap, bytes, leido, viejos, caido, cambios>>

\* crear_archivo_fcb; the kernel asks for it when ABRIR_ARCHIVO finds none.
Crear(a) ==
    /\ a \notin DOMAIN fisico
    /\ Agregar(a, Fcb(0, 0, 0))
    /\ fisico' = [b \in DOMAIN fisico \cup {a} |-> IF b = a THEN Fcb(0, 0, 0) ELSE fisico[b]]
    /\ leido' = Nada
    /\ UNCHANGED <<bitmap, bytes, viejos, caido, cambios>>

-----------------------------------------------------------------------------
(* MODIFICAR_TAMANIO *)

Libres == Bloques \ bitmap

\* Mutant: blocks are numbered from 1.
LibreDesdeUno(k) ==
    IF k <= Cardinality(Libres)
    THEN 1 + CHOOSE b \in Libres : Cardinality({c \in Libres : c < b}) = k - 1
    ELSE -1

\* obtener_primer_bloque_libre, when k - 1 blocks have been taken before: the
\* lowest that is free, -1 when none is.
PrimerBloqueLibre(k) ==
    IF k <= Cardinality(Libres)
    THEN CHOOSE b \in Libres : Cardinality({c \in Libres : c < b}) = k - 1
    ELSE -1

\* agrandar_archivo, the loop: the values of i in order. cant_bloques_a_asignar
\* counts the blocks of the difference and grows by one when i is 1.
Vueltas(actual, asignar) ==
    LET tope == IF actual <= 1 /\ asignar > 1 THEN asignar + 1 ELSE asignar
    IN  [j \in 1..Max({0, tope - actual}) |-> actual + j - 1]

\* Mutant: the pointers of the indirect block start one place later.
LugarCorrido(i) == (i - 1) * TamPuntero

\* escribir_bloques_indirectos: the entry i of the list of blocks goes here.
Lugar(i) == (i - 2) * TamPuntero

EscribirBloquesIndirectos(lista, desde, ind) ==
    [c \in DOMAIN bytes |->
        LET is == {i \in desde..Len(lista) - 1 : ind * TamBloque + Lugar(i) = c}
        IN  IF is = {} THEN bytes[c] ELSE lista[Max(is) + 1]]

\* The pointers that the turns of the loop set.
Apuntar(f, vueltas, ids) ==
    LET j0 == SelectInSeq(vueltas, LAMBDA i : i = 0)
        j1 == SelectInSeq(vueltas, LAMBDA i : i = 1)
    IN  [f EXCEPT !.directo = IF j0 = 0 THEN @ ELSE ids[j0],
                  !.indirecto = IF j1 = 0 THEN @ ELSE ids[j1]]

\* agrandar_archivo with free blocks for every turn.
Agrandar(a, n, vueltas) ==
    LET lista == ListaTotal(a)
        ids == [j \in DOMAIN vueltas |-> PrimerBloqueLibre(j)]
        f == Apuntar(lista_fcb[Primero(a)].fcb, vueltas, ids)
        total == lista \o ids
        desde == Len(lista) + Cardinality({j \in DOMAIN vueltas : vueltas[j] \in {0, 1}})
    IN  /\ bitmap' = bitmap \cup Range(ids)
        /\ ModificarFcb(a, [f EXCEPT !.tamanio = n])
        /\ bytes' = IF Len(total) > 2 THEN EscribirBloquesIndirectos(total, desde, f.indirecto)
                    ELSE bytes
        /\ leido' = Nada
        /\ UNCHANGED caido

\* agrandar_archivo when the bitmap fills up: obtener_primer_bloque_libre
\* gives -1, which goes to the FCB file when it is for a pointer, and setting
\* its bit ends the program. The blocks of earlier turns stay taken.
AgrandarSinLugar(a, vueltas) ==
    LET hechas == SubSeq(vueltas, 1, Cardinality(Libres) + 1)
        ids == [j \in DOMAIN hechas |-> PrimerBloqueLibre(j)]
    IN  /\ bitmap' = Bloques
        /\ fisico' = [fisico EXCEPT ![a] = Apuntar(lista_fcb[Primero(a)].fcb, hechas, ids)]
        /\ caido' = TRUE
        /\ UNCHANGED <<lista_fcb, bytes, leido>>

\* Mutant: a file of two blocks is taken to need no indirect block.
QuitarMalLimite(t, n) ==
    Techo(t - n) + IF n <= 2 * TamBloque /\ t > TamBloque THEN 1 ELSE 0

\* achicar_archivo: entries removed from the end of the list.
Quitar(t, n) ==
    Techo(t - n) + IF n <= TamBloque /\ t > TamBloque THEN 1 ELSE 0

Achicar(a, n) ==
    LET f == lista_fcb[Primero(a)].fcb
        lista == ListaTotal(a)
        quitados == Range(SubSeq(lista, Len(lista) + 1 - Quitar(f.tamanio, n), Len(lista)))
        indirecto == IF n <= TamBloque /\ f.tamanio > TamBloque THEN f.indirecto ELSE 0
    IN  /\ bitmap' = bitmap \ quitados
        /\ ModificarFcb(a, [f EXCEPT !.tamanio = n,
                                     !.indirecto = IF indirecto \in quitados THEN 0 ELSE @])
        /\ leido' = Nada
        /\ UNCHANGED <<bytes, caido>>

\* The truncations the code carries out right: an empty file that grows to
\* the maximum at most, a file that keeps its number of blocks when it grows,
\* and one that shrinks to nothing or by as many blocks as bytes suggest.
TruncadoSano(t, n) ==
    \/ t = 0 /\ n <= TamanioMaximo
    \/ t <= n /\ Techo(n) = Techo(t)
    \/ n = 0
    \/ TamBloque < n /\ n < t /\ Techo(t - n) = Techo(t) - Techo(n)

ModificarTamanio(a, n) ==
    /\ Cambia
    /\ Primero(a) # 0
    /\ LET t == lista_fcb[Primero(a)].fcb.tamanio
           vueltas == Vueltas(Techo(t), Techo(n - t))
       IN  /\ Cuidadosos => a \notin viejos /\ TruncadoSano(t, n)
           /\ \/ t < n /\ Len(vueltas) <= Cardinality(Libres) /\ Agrandar(a, n, vueltas)
              \/ t < n /\ Len(vueltas) > Cardinality(Libres) /\ AgrandarSinLugar(a, vueltas)
              \/ t > n /\ Achicar(a, n)
              \/ t = n /\ UNCHANGED <<fisico, lista_fcb, bitmap, bytes, leido, caido>>
    /\ UNCHANGED viejos

-----------------------------------------------------------------------------
(* LEER_ARCHIVO and ESCRIBIR_ARCHIVO *)

Entra(a, pos, cant) == fisico[a].tamanio # 0 /\ pos + cant <= fisico[a].tamanio

\* obtener_lista_de_bloques: nothing for an empty file or an access that ends
\* after it; blocks are counted by the size divided downwards.
ObtenerListaDeBloques(a, pos, cant) ==
    LET directo == pos < TamBloque
        cant_bloques == fisico[a].tamanio \div TamBloque - IF directo THEN 1 ELSE 0
        enteros == (fisico[a].tamanio \div TamBloque) * TamBloque
        fin == pos + IF cant = 0 THEN enteros ELSE cant
    IN  IF ~Entra(a, pos, cant) THEN <<>>
        ELSE (IF directo THEN <<fisico[a].directo>> ELSE <<>>)
             \o (IF cant_bloques >= 1
                 THEN LeerBloquesIndirectos(a, IF directo THEN TamBloque ELSE pos, fin) ELSE <<>>)

\* Mutant: the last piece is a whole block.
UltimoEntero(pos, cant, nro) == TamBloque

\* The piece of the last block ends where the access does.
Ultimo(pos, cant, nro) == pos + cant - (pos \div TamBloque + nro) * TamBloque

\* armar_lista_offsets: [desde, tamanio] for every block of the access.
ArmarListaOffsets(a, pos, cant) ==
    LET bloques == ObtenerListaDeBloques(a, pos, cant)
        dentro(nro) == pos - (pos \div TamBloque + nro) * TamBloque
        Tramo(nro, b) ==
            IF cant < TamBloque
            THEN [desde |-> b * TamBloque + dentro(nro), tamanio |-> cant]
            ELSE IF nro + 1 = Len(bloques)
            THEN [desde |-> b * TamBloque, tamanio |-> Ultimo(pos, cant, nro)]
            ELSE IF nro = 0
            THEN [desde |-> b * TamBloque + dentro(0), tamanio |-> TamBloque - dentro(0)]
            ELSE [desde |-> b * TamBloque, tamanio |-> TamBloque]
    IN  [k \in DOMAIN bloques |-> Tramo(k - 1, bloques[k])]

\* The places of the bytes of an access, in order.
Lugares(tramos) ==
    FlattenSeq([k \in DOMAIN tramos |->
        [j \in 1..tramos[k].tamanio |-> tramos[k].desde + j - 1]])

\* Where byte i of a file should be.
LugarDe(a, i) ==
    LET b == IF i < TamBloque THEN fisico[a].directo ELSE Puntero(a, i \div TamBloque - 1)
    IN  b * TamBloque + (i % TamBloque)

\* The accesses whose pieces come out right: shorter than a block and within
\* one; or as long as a block and, but in the first one, at the start of it
\* or with as many blocks as bytes suggest. Out of the first block into a
\* second that is not full, never.
AccesoSano(t, pos, cant) ==
    LET dentro == pos % TamBloque
    IN  /\ IF cant < TamBloque THEN dentro + cant <= TamBloque
           ELSE pos < TamBloque \/ Techo(dentro + cant) = Techo(cant)
        /\ pos < TamBloque /\ TamBloque < pos + cant => 2 * TamBloque <= t

Acceder(a, pos, cant) ==
    /\ Primero(a) # 0
    /\ Cuidadosos => AccesoSano(fisico[a].tamanio, pos, cant)
    /\ UNCHANGED <<fisico, lista_fcb, bitmap, viejos>>

\* leer_datos: what follows the first piece is copied from memory already
\* freed. Basura is whatever that holds.
Basura == -2

LeerDatos(tramos, pos, cant) ==
    [i \in pos..pos + cant - 1 |->
        IF i - pos < tramos[1].tamanio THEN Byte(tramos[1].desde + i - pos) ELSE Basura]

\* With no piece list_get gives NULL, which is dereferenced.
Leer(a, pos, cant) ==
    /\ Acceder(a, pos, cant)
    /\ LET tramos == ArmarListaOffsets(a, pos, cant)
       IN  \/ /\ tramos = <<>>
              /\ caido' = TRUE
              /\ UNCHANGED leido
           \/ /\ tramos # <<>>
              /\ Cuidadosos => Len(tramos) = 1
              /\ leido' = LeerDatos(tramos, pos, cant)
              /\ UNCHANGED caido
    /\ UNCHANGED <<bytes, cambios>>

\* escribir_datos: with no piece it writes nothing and answers alike.
Escribir(a, pos, cant, v) ==
    /\ Cambia
    /\ Acceder(a, pos, cant)
    /\ Cuidadosos => a \notin viejos
    /\ LET lugares == Lugares(ArmarListaOffsets(a, pos, cant))
           Ultimos(c) == {k \in DOMAIN lugares : lugares[k] = c}
       IN  /\ bytes' = [c \in DOMAIN bytes |->
                            IF Ultimos(c) = {} THEN bytes[c] ELSE v + pos + Max(Ultimos(c)) - 1]
           /\ leido' = IF lugares = <<>> THEN leido ELSE Nada
    /\ UNCHANGED caido

-----------------------------------------------------------------------------
(* Start *)

\* crear_bitmap clears the bits 0 to bitmap->size, which counts bytes.
Limpiados == {b \in Bloques : b <= NBloques \div 8}

\* The operator starts the program again, after it ended by itself or with
\* the kernel: what is in files stays, lista_fcb starts empty.
Reiniciar ==
    /\ Cambia
    /\ lista_fcb' = <<>>
    /\ bitmap' = bitmap \ Limpiados
    /\ leido' = Nada
    /\ caido' = FALSE
    /\ viejos' = {a \in DOMAIN fisico : fisico[a].tamanio > 0}
    /\ UNCHANGED <<fisico, bytes>>

-----------------------------------------------------------------------------
AtenderKernel ==
    /\ ~caido
    /\ \E a \in Nombres :
        \/ Abrir(a)
        \/ Crear(a)
        \/ \E n \in Tamanios : ModificarTamanio(a, n)
        \/ \E acceso \in Accesos :
            \/ Leer(a, acceso[1], acceso[2])
            \/ \E v \in Valores : Escribir(a, acceso[1], acceso[2], v)

Next == AtenderKernel \/ Reiniciar

Spec == Init /\ [][Next]_vars

-----------------------------------------------------------------------------
(* Properties *)

\* Types: pointers are block numbers, or -1 after the bitmap filled up.
TipoOK ==
    LET Fcbs == [tamanio : Tamanios \cup {0}, directo : Bloques \cup {-1},
                 indirecto : Bloques \cup {-1}]
    IN  /\ DOMAIN fisico \subseteq Nombres
        /\ \A a \in DOMAIN fisico : fisico[a] \in Fcbs
        /\ lista_fcb \in Seq([nombre : Nombres, fcb : Fcbs])
        /\ bitmap \subseteq Bloques
        /\ bytes \in [0..NBloques * TamBloque - 1 -> Int]
        /\ caido \in BOOLEAN
        /\ viejos \subseteq DOMAIN fisico

\* The FCB that searches find, the first of its name, has the size and the
\* pointers of the FCB file, from which the blocks are read: openings that
\* enter it again (fileSystem.c:798) and truncations in between do not
\* separate them, until the program falls.
FcbVigente ==
    caido \/ \A a \in Nombres : Primero(a) # 0 => lista_fcb[Primero(a)].fcb = fisico[a]

\* The blocks a file of its size needs: data blocks and the one of pointers.
Propios(a) ==
    LET n == Techo(fisico[a].tamanio)
    IN  (IF n = 0 THEN <<>> ELSE <<fisico[a].directo>>)
        \o (IF n > 1 THEN <<fisico[a].indirecto>> \o [k \in 1..n - 1 |-> Puntero(a, k - 1)] ELSE <<>>)

\* A file truncated to a size has that many blocks, all different, marked in
\* the bitmap and in no other file, whatever was created, truncated, written
\* and started again before (fileSystem.c:613-669, 1327-1359, 256-284).
BloquesPropios ==
    \A a \in DOMAIN fisico \ viejos :
        /\ IsInjective(Propios(a))
        /\ Range(Propios(a)) \subseteq bitmap
        /\ \A b \in DOMAIN fisico \ viejos :
            a # b => Range(Propios(a)) \cap Range(Propios(b)) = {}

\* An access is cut into pieces that are the places of its bytes, in order:
\* none twice, none left out, none of the next block (fileSystem.c:830-920).
TramosExactos ==
    \A a \in DOMAIN fisico \ viejos, acceso \in (0..TamanioMaximo) \X (1..TamanioMaximo) :
        LET pos == acceso[1]
            cant == acceso[2]
        IN  Entra(a, pos, cant) /\ AccesoSano(fisico[a].tamanio, pos, cant) =>
                Lugares(ArmarListaOffsets(a, pos, cant))
                    = [j \in 1..cant |-> LugarDe(a, pos + j - 1)]

\* The bytes of Disco are those found through the pointers.
Promesa == INSTANCE Disco WITH
    contenido <- [a \in DOMAIN fisico |->
                    [i \in 0..fisico[a].tamanio - 1 |-> Byte(LugarDe(a, i))]]

\* The file system implements Disco: a file keeps its bytes while others are
\* created, truncated and written over freed blocks, and a read delivers them.
ImplementaDisco == Promesa!Spec
=============================================================================
