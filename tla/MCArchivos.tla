----------------------------- MODULE MCArchivos -----------------------------
(***************************************************************************)
(* Values of Archivos's constants for TLC: shortened scripts FS_1, FS_3 of *)
(* consola/, which share the file "Videogames", and one that opens a file  *)
(* three times.                                                            *)
(***************************************************************************)
EXTENDS Archivos

F(o, a) == [op |-> o, arch |-> a, pos |-> 0]
Seek(a, n) == [op |-> "F_SEEK", arch |-> a, pos |-> n]
Exit == F("EXIT", "Videogames")
Yield == F("YIELD", "Videogames")

LargoNombres == [a \in Nombres |-> IF a = "Consoles" THEN 8 ELSE 10]

ProgramasFs ==
    {\* FS_1
     <<F("F_OPEN", "Consoles"), Seek("Consoles", 1), F("F_WRITE", "Consoles"),
       F("F_CLOSE", "Consoles"),
       F("F_OPEN", "Videogames"), F("F_TRUNCATE", "Videogames"), F("F_READ", "Videogames"),
       F("F_CLOSE", "Videogames"), Exit>>,
     \* FS_3
     <<F("F_OPEN", "Videogames"), Yield, Seek("Videogames", 1), F("F_WRITE", "Videogames"),
       F("F_CLOSE", "Videogames"), Exit>>,
     <<F("F_OPEN", "Consoles"), Seek("Consoles", 1), F("F_CLOSE", "Consoles"), Yield,
       F("F_OPEN", "Consoles"), Seek("Consoles", 0), F("F_WRITE", "Consoles"),
       F("F_CLOSE", "Consoles"),
       F("F_OPEN", "Consoles"), F("F_CLOSE", "Consoles"), Exit>>}
=============================================================================
