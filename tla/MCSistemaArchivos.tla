------------------------- MODULE MCSistemaArchivos -------------------------
(***************************************************************************)
(* Values of SistemaArchivos's constants for TLC.                          *)
(***************************************************************************)
EXTENDS SistemaArchivos, TLC

Simetria == Permutations(Nombres)

\* FS_1 writes over the end of a block from the start of one, FS_3 reads from
\* the start of the file; and one byte of the third block.
AccesosBase == {<<0, 2>>, <<2, 3>>, <<4, 1>>}
=============================================================================
