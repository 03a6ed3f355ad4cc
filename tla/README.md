# Verification of the "Esta es la vencida" kernel, CPU, memory and file system

TLA+ models, TLC runs and TLAPS proofs for the five programs of this
repository, which together simulate an operating system: processes written in a
small assembler are scheduled on one CPU, share segmented memory, resources and
files, and end.

Section 1 is the inventory of the system, 2 the plan, 3 the modules, 4 the runs,
5 the proofs, 6 what is left out. All paths are relative to the repository.

## 1. Inventory

### 1.1 The programs and how they talk

    consola --- script ---> kernel <--- PCB, syscalls ---> cpu
                              |  \                          |
               segment        |   \ PCB with a file         | reads and writes
               requests       v    v operation              v of user memory
                           memoria <----- fileSystem   memoria

Everything is TCP. A connection delivers whole messages in order in these
models (the exceptions are hazards, see 6). A PCB travels by value over sockets
and by pointer within the kernel.

| Program | State | Operations |
|---|---|---|
| `kernel` (`kernel/src/kernel.c`, 1345 lines) | `cola_new`, `cola_ready_fifo`; semaphores `sem_nuevo`, `sem_ready`, `sem_multiprogramacion`, `sem_habilitar_exec`, `mutex_compresion`; per resource `instancias`, `cola_recurso`, `sem_recurso`; `lista_archivos_abiertos`; `tabla_general` and `hayQueActualizar` | threads `atender_consolas` (one per console), `de_new_a_ready`, `de_ready_a_ejecutar`, `atender_cpu`, `atender_fileSystem`, `iniciar_recurso` (one per resource), `iniciar_archivo` (one per open file), `ejecutar_IO` (one per IO) |
| `cpu` (`cpu/src/cpu.c`, 933) | the PCB it runs, `band_ejecutar`, registers | fetch, decode, `execute` of each instruction, a blocking exchange per syscall, address translation |
| `memoria` (`memoria/src/memoria.c`, 925) | `tabla_huecos_libres`, `tabla_general`, the bytes | one handler per request under `mutex_modulos`: open, create, delete, end, compact, read, write |
| `fileSystem` (`fileSystem/src/fileSystem.c`, 1366) | FCB files, `lista_fcb`, bitmap, blocks | open, create, truncate, read, write, one at a time |
| `consola` (`consola/src/consola.c`, 229) | nothing but its socket | parse a script, send it, wait for the end |
| `compartido` (861) | - | serialisation of PCBs and packets, sockets, logs |

### 1.2 What is hard, and what makes each part correct

- **Scheduler** (kernel). Up to ten threads hand PCBs to one another through two
  unprotected-test queues and five semaphores. Correct means: a PCB is in one
  place; no wake-up is lost; the token `sem_habilitar_exec` admits one process
  at a time; the multiprogramming slots are conserved; processes follow
  NEW/READY/EXEC/BLOCK/EXIT; each ends.
- **CPU protocol**. Three kernel threads write to the socket of the CPU with no
  lock, and the CPU takes the next message for the answer to its last syscall.
- **Resources**. `ejecutar_signal` tests a queue that another thread pops later.
- **Compaction**. `mutex_compresion` keeps it apart from file operations, which
  use physical addresses; the thread that waits for it is the one that serves the
  CPU.
- **Allocator** (memoria). Three placement algorithms, coalescing, compaction
  and refusal have to agree to the last byte on what is free; the compaction
  copies in place.
- **Open files** (kernel, fileSystem). A file is a lock handed over by a thread;
  the pointer of each process travels in its PCB.
- **Segment tables** (kernel, cpu, memoria). A table exists in the memory, in the
  PCB wherever it is, and in the kernel's `tabla_general` since a compaction;
  the CPU translates with the copy it has, and the file system uses an address
  translated before its process was blocked. Correct means: every address leads
  to the byte the program means, and a segment keeps its bytes while others are
  created, moved and deleted.
- **Blocks** (fileSystem). FCBs in a list and in files, a bitmap, direct and
  indirect pointers, truncation by difference of sizes, accesses cut at block
  ends, and a bitmap that does not survive a start while blocks do. Correct
  means: no block in two files, none used that is free, and a file keeps what
  was written.

Failure: nothing is retried and nothing times out; a closed connection ends the
kernel (`kernel.c:550-558`) and a console that dies takes the kernel with it.
The only persistent state is that of the file system.

The full list of hazards, each at its line and with the properties that watch
it, is in `PROJECT.json`.

## 2. Plan

| # | Module | Subject | State |
|---|---|---|---|
| 1 | `CicloDeVida` | abstract: five states, one CPU, bounded degree | done |
| 2 | `Planificador` | kernel threads, CPU, resources, compaction exchange | done |
| 3 | `ColasProofs`, `PlanificadorProofs`, `CicloProofs` | proofs about `Planificador`: the token, its refinement of `CicloDeVida`, the accounts of slots and resources | done |
| 4 | `Asignador` | abstract: bytes granted and released, no addresses | done |
| 5 | `Memoria` | holes, placement, coalescing, compaction | done |
| 6 | `Archivos` | open files, pointers, catalogue | done |
| 7 | `Disco` | abstract: a file is a sequence of bytes | done |
| 8 | `SistemaArchivos` | bitmap, FCBs, `agrandar_archivo`, `achicar_archivo`, offsets, reads, writes, starts | done |
| 9 | `Segmentos` | abstract: a segment is a sequence of bytes | done |
| 10 | `TablasSegmentos` | the copies of the segment tables, address translation, the bytes; composes with `Memoria` | done |
| 11 | `ArchivosProofs` | the lock of a file, the position of an access | done |
| 12 | `SistemaArchivosProofs` | types, the FCB in force, the pieces of an access | done |
| 13 | `BloquesProofs` | the blocks of a file are its own, and with them its bytes: the refinement of `Disco` | done |
| 14 | `MemoriaProofs` | the partition of memory, compaction, the refinement of `Asignador` | done |
| 15 | `TablasProofs` | addresses and the copies they come from, the refinement of `Segmentos` | done |

`AltaProcesos` (consoles: `pid++`, answers of memoria read by two threads),
`Serializacion` (framing of `desempaquetar`) and `Registros` (register widths)
were planned and are not written; section 6 says why. Of `Serializacion`, the
size of the buffer is in `Archivos` (`BufferAlcanza`).

## 3. Modules

### 3.1 Planificador

State: the two queues, every semaphore, `instancias`/`cola_recurso`/`sem_recurso`
per resource, one record `[pc, pcb]` per thread, the CPU, the sockets as
sequences, and per process its program, `program_counter`, the reason it ended
and whether memory holds its table.

A thread is split where another can come between: at each `sem_wait`, queue
operation, `sem_post` and message. So `agregar_a_cola_ready` is two steps,
"queued" and "posted" (stage `avisa`), and `quitar_de_cola_ready` another. The
`mutex_cola_new` and `mutex_cola_ready` are not variables: they make one
operation on these queues atomic, which a step is. `cola_recurso` has no mutex
(`atender_cpu` pushes at 900, the waker pops at 865), nor has `cola_archivo`
(1260, 1283), and the tests for an empty queue (704, 742, 758, 950, 1294) are
made without one: that each is a step too is an assumption (section 6).

| Actions | Code |
|---|---|
| `ConsolaEncola`, `ConsolaAvisa` | `atender_consolas`, `crear_pcb`, `agregar_a_cola_new` |
| `NewDespierta` .. `NewAvisa` | `de_new_a_ready` |
| `ReadyDespierta` .. `ReadyEnvia` | `de_ready_a_ejecutar_fifo`, `_hrrn` |
| `AtenderDesalojado` .. `AtenderEliminarSegmento` | the cases of `atender_cpu` |
| `CreacionExitosa` .. `FinCompactacion` | `analizar_resultado` |
| `FsDesbloqueado` .. `FsAvisa` | `atender_fileSystem` DESBLOQUEADO |
| `RecursoDespierta` .. `RecursoAvisa` | `iniciar_recurso` |
| `IOEncola`, `IOAvisa` | `ejecutar_IO` |
| `CpuRecibe` .. `CpuInesperado` | `ejecutar_pcb`, `execute` |

HRRN picks by elapsed times, so it is any ready process. The answer of memoria
to a creation (granted, compaction, refused) is any of the three, though the
creation after a compaction is not answered with another one: that is what
`TablasSegmentos` checks of the memory (`RespuestaLlega`). F_READ stands for F_WRITE and F_TRUNCATE,
whose handlers are the same here. `caido` records that a waker popped an empty
queue and dereferenced NULL; nothing happens after it.

`CicloDeVida` is what it implements. The mapping `EstadoDe` gives a process the
state of the place its PCB is in.

### 3.2 Memoria and Asignador

`huecos` is `tabla_huecos_libres`, `tabla[pid]` a segment list. A handler is one
step, because it runs under `mutex_modulos`. `list_sort` leaves the order of
equal bases open, so a sort is any of its results (`Ordenaciones`).
`CombinarHuecosLibres` (holes that follow one another in the list are a run,
`Tramo`) and `BaseCompacta` say what the loops compute rather than how.

- BEST and WORST leave the index uninitialised when no hole fits
  (`memoria.c:454`, `481`). `SolicitarCompactacion` is the outcome of a negative
  value; any other sets `corrupta`, after which the model stops. What is checked
  of those two algorithms is therefore conditional on the value being negative;
  with FIRST there is no condition.
- Programs ask for fresh ids, never for segment 0 and for positive sizes, like
  every script under `consola/`. The code checks none of that.
- An exact fit leaves a hole of size 0. Since it has the base of its neighbour,
  two adjacent holes may stay unjoined when the sort puts it between them. TLC
  shows it; no space is lost, for `hay_espacio` counts bytes and the compaction
  joins all (`ImplementaAsignador`).

`Asignador` is what the kernel relies on: a set of granted segments with no
addresses; a creation is refused exactly when the free bytes are too few.

### 3.3 Archivos

`lista` is `lista_archivos_abiertos`, with the queue and the semaphore of each
entry; `abiertos[p]` is `pcb->archivos_abiertos`. While a process waits for the
answer to F_OPEN the CPU waits too, so an instruction and its handler are one
step unless the file system answers. The scheduler is reduced to a ready set: the
single CPU it relies on is `UnSoloEnEjecucion` of `Planificador`.

- F_CLOSE removes no entry of `archivos_abiertos`, F_OPEN adds one and F_SEEK
  moves the first, so a process that opens again and does not seek keeps its old
  pointer. The programs seek after opening again; `PosicionVigente` is claimed for
  those (`PosicionaAlReabrir`, section 5).
- Programs close once what they open and nothing else, and open one file at a
  time. The code checks no ownership.
- `cerrar_archivo` uses memory it has freed, and so do the replies to F_CLOSE and
  F_SEEK, which serialise the freed name (291, 303). The model takes it to keep its
  contents, and the thread of a freed entry to sleep on.
- `cola_archivo` has no mutex (1260, 1283); one operation on it is a step.

- F_CLOSE removes no entry of `archivos_abiertos`, and `serializar_pcb` sizes its
  buffer for the last entry only (`serializacion.c:71`). `Escrito` and `Reservado`
  count the bytes of the entries against what is left for them: six integers and
  12 bytes more than the fixed fields need.

### 3.4 SistemaArchivos and Disco

`fisico` is the directory of FCB files, `lista_fcb` the list that F_OPEN extends
each time, `bytes` the mapped file, `bitmap` the set bits. A request is one step:
`atender_kernel` serves the kernel alone and answers before it reads again.

| Actions | Code |
|---|---|
| `Abrir`, `Crear` | `buscar_archivo_fcb`, `crear_archivo_fcb` |
| `Agrandar`, `AgrandarSinLugar`, `Achicar` | `agrandar_archivo`, `achicar_archivo` |
| `Leer`, `Escribir` | LEER_ARCHIVO, ESCRIBIR_ARCHIVO with `armar_lista_offsets` |
| `Reiniciar` | `main`, `crear_bitmap` |

`caido` records that the program ended by a signal: -1 used as a block number, or
a read with no piece. A disk has at least a byte of bitmap (`NBloques` > 0): the
program does not start on an empty one, whose `mmap` fails.

The code is right for some requests and not for others. `Cuidadosos` says that
programs keep to the former, which `TruncadoSano` and `AccesoSano` state; FS_1,
the script with file operations, does (256 and 64 bytes from an empty file in
blocks of 64, then 80 bytes at 128 and 16 at 0). What they leave out, found while
stating them:

- a file with blocks that grows by as many or fewer gets none (run `FsError`);
- one that shrinks by other than whole blocks may lose a block it still needs
  (`ceil` of the difference, 1333);
- from two or more blocks to at most one but not to 0, the list holds the direct
  block where the indirect one should be (1316), so the direct block is the one
  freed; to 0, the block of pointers stays set in the bitmap for ever;
- an access that starts inside a block and ends in the next with fewer bytes
  than a block overruns the first, and with more it may miss its last block, for
  blocks are counted by bytes (909); one that starts in the first block of a file
  whose second is not full finds only the first, `cant_bloques` being rounded
  down (881);
- a read over several blocks copies memory it has freed (445); a read past the
  end dereferences NULL (427), a write past the end does nothing and answers the
  same.

At a start the bits of the first blocks are cleared, one more than the bitmap
has bytes, not all (277); these blocks of files from before are given again.
`viejos` are those files: nothing is claimed of them, and programs do not
truncate or write them. `Disco` is what a
program expects of a disk: a file keeps its bytes, a truncation keeps the
prefix, a read delivers what is there.

### 3.5 TablasSegmentos and Segmentos

`TablasSegmentos` instantiates `Memoria` and adds the copies: `copia[p]`, the
table in the PCB of p (one variable for the PCB wherever it is, because it
travels by value and is in one place: `PcbUnico`), and `tabla_general`. `cpu` is
the process in EXEC. `operacion` is the file operation that holds
`mutex_compresion`, with the address translated when it was asked for.

| Actions | Code |
|---|---|
| `Despachar` | `actualizar_de_la_tabla_general` in the dispatcher |
| `Pedir`, `ResponderCrear`, `ResponderEliminar`, `Compactar` | CREATE_SEGMENT, DELETE_SEGMENT, `analizar_resultado` with `Memoria`'s handlers |
| `Acceder` | MOV_OUT (and MOV_IN, which changes nothing), F_READ, F_WRITE with `obtener_direccion_fisica` |
| `FsTermina` | the file system's access to the memory |

- The answer to a deletion is kept in a local of `execute` (552), so the PCB keeps
  the deleted segment. Programs do not use it (`NoEliminado`); the code would
  translate its address.
- F_READ and F_WRITE do not look at a failed translation (381). Programs name
  addresses they have.
- `CopiarSegmentos` is the loop of `compactar_tabla_general`, one `memcpy` per
  segment in the order of the bases, each on what the one before left.
- The bytes `memcpy` moves in a compaction may overlap their destination
  (`memoria.c:699`), which C leaves undefined; they are taken to arrive.

`Segmentos` is what a program expects of memory: a segment keeps its bytes until
it is deleted, wherever it lies.

## 4. Runs

All were finished by TLC with two workers in under four minutes. Deadlock is not
checked (`CHECK_DEADLOCK FALSE`) because every model stops legitimately: all
programs end, processes wait for one another on resources as the DEADLOCK
scripts intend, or a bound is reached. That nobody stops who should not is what the liveness
properties say.

| Run | Question | Bounds | Properties |
|---|---|---|---|
| `PlanBase` | do the threads keep PCBs, token, slots, protocol and compaction straight? | 3 processes, degree 2, FIFO; programs with a file operation or a creation | `UnSoloEnEjecucion`, `PcbUnico`, `SlotsConservados`, `ProtocoloCpu`, `ExclusionCompactacion`, `ImplementaCiclo` |
| `PlanRecursos` | do WAIT, SIGNAL and the wakers agree, are those they queue announced, and do bad endings break types? | 3 processes, degree 3, HRRN, one resource with one instance and an unknown one | `TipoOK`, `ContabilidadRecursos`, `SinDespertarPerdido` |
| `PlanVida` | does every process end? | 2 processes, programs with every kind of call | `TodoProcesoTermina` |
| `PlanError1` | WAIT of an unknown resource | 2 processes | `FinalizadoNoEjecuta`, **violated** |
| `PlanError2` | SIGNAL of an unknown resource | 2 processes, degree 1 | `FinalizadoSaleDeMemoria`, **violated** |
| `MemBase` | is memory partitioned through everything? | 5 bytes, segment 0 of 1, 2 processes, ids 1-2, sizes 1-2, the three algorithms | `TipoOK`, `Particion`, `CompactarNoPisa`, `ImplementaAsignador` |
| `MemError` | does BEST choose the best hole? | 10 bytes, sizes 1-3, one process | `BestElige`, **violated** |
| `ArchBase` | is an open file a lock, and handed over? does the PCB fit its buffer? | 3 processes, 2 files, positions 0-1, any initial catalogue, names of 8 and 10 characters, up to 3 openings | `TipoOK`, `ExclusionArchivo`, `ListaCorrecta`, `PosicionVigente`, `BufferAlcanza`, `TodoAbreAlFinal` |
| `FsBase` | do files keep their blocks and bytes? | 8 blocks of 2 bytes, pointers of 1, 2 files, sizes 0-6, 2 openings since a start, 6 truncations, writes and starts | `TipoOK`, `FcbVigente`, `BloquesPropios`, `TramosExactos`, `ImplementaDisco` |
| `FsError` | and with any truncation? | the same, `Cuidadosos` false | `BloquesPropios`, **violated** |
| `SegBase` | do addresses lead to the right bytes, and segments keep them? | 4 bytes, segment 0 of 1, 2 processes, 4 creations of 1 or 2 bytes, accesses of 1 or 2 bytes in segments 2 and 3, FIRST | `TipoOK`, `TraduccionCorrecta`, `DireccionPendiente`, `SoloFaltanPosteriores`, `ImplementaSegmentos`, `RespuestaLlega` |
| `SegError` | does the process in EXEC find all its segments? | the same | `ContextoActualizado`, **violated** |

Why the bounds are enough. A hand-over involves the process that leaves, the one
that comes and one that waits: three processes, of which one can wait for a slot
at degree 2. Programs are the shortest that reach each handler; interleaving is
among threads, so longer ones add repetition. In memory, two processes with two
segments each fragment 4 bytes so that the free bytes suffice and no hole does,
with segments of both processes to move, in base order different from the order
of the tables. For BEST to fail three holes that fit are needed, with sizes in
falling order, hence the 10 bytes. Two files and three processes let one queue
while another is being created and a third is handed over. `MaxProcesos` bounds
the processes opened in a behaviour of `Memoria`. Three data blocks, the direct
one and two behind the indirect one, with the block of pointers take half of a
disk of 8, so two files fill it and, with a block of pointers that was left set,
the second one does not fit; a bitmap of one
byte makes a start clear the blocks 0 and 1 only. `MaxFcbs` and `MaxCambios` bound openings
and changes in `SistemaArchivos`: two changes build a file, a third frees it, a
fourth takes its blocks for the other, and two remain for writes and a start. In
`TablasSegmentos` the four creations of a behaviour suffice for a table that is
stale: two that leave a gap when the first goes, one that compacts, one after it.
Accesses to segment 0, which all share and nothing moves, are left out of the
run. No other counter is unbounded.
`PlanBase`, `PlanRecursos`, `FsBase` and `FsError` use symmetry and check
safety only.

Fairness. Each kernel thread and each program is a pthread or a process that the
OS keeps running, so its next step has weak fairness, while the kernel is up
(`caido` false). In `Planificador` the ready queue is explicit and weak fairness
is all that is assumed. In `Archivos` it is a set, and `Despachar` of each process
has strong fairness: `cola_ready_fifo` is first in, first out, so a process that
is ready each time the CPU frees itself comes to its turn. `TablasSegmentos` has weak
fairness of the memory's handler and of the file system, which answer what is in
their sockets; programs and kernel may stay silent.

What is found:

1. `kernel.c:922`: WAIT of an unknown resource logs "El recurso no existe, el
   proceso finaliza", tells the console, and answers CONTINUAR: the process goes
   on, and as the token is posted too, alongside another one. Its slot and
   memory stay taken if it does not end.
2. `kernel.c:966`: SIGNAL of an unknown resource does stop the process, but its
   memory and its slot are never released.
3. `memoria.c:463`: BEST takes the first later hole that is smaller than the
   first that fits, not the smallest (WORST likewise at `memoria.c:490`).
4. `fileSystem.c:628`: a file that has blocks and grows by as many or fewer gets
   none, while its size is recorded: it then reads and writes blocks that are not
   its own.
5. `kernel.c:1217`: after the first compaction every dispatch puts the table of
   that compaction in the PCB. A segment created since, the one that asked for
   the compaction included, is missing from it, and the process that uses it ends
   with SEG_FAULT. `SoloFaltanPosteriores` says that nothing else is missing, and
   `TraduccionCorrecta` that no address found is wrong.

Every property has a mutant: an operator in the module, commented "Mutant:",
which is the definition with a plausible bug. They show the property bites. No
specification uses them.

## 5. Proofs

The theorems hold for all values of the constants that satisfy the `ASSUME` of
the module they are about: any number of processes, files, resources and
instances, any degree, programs, disk and block size, either algorithm. Eight
modules hold them; a proof module states its invariant at the top, has a lemma
per action (or per group of actions that move the same thing) and ends with the
theorems. `ColasProofs` has the lemmas about sequences used as queues that the
others share, and about sums.

Assumptions beyond the modules' own are hypotheses of a theorem, never `ASSUME`s:

| Hypothesis | Says | Without it |
|---|---|---|
| `RecursosConfigurados` | a WAIT names a configured resource | finding 1: two processes run |
| `SenalesConfiguradas` | so does a SIGNAL | finding 2: slots are lost |
| `UnaInstanciaOMenos` | a resource has one instance or none, as in every kernel*.config | with two, a second SIGNAL may find the queue not yet popped and post for a process that is being woken already (`kernel.c:950`): the waker then pops NULL (864) |
| `DevuelveLoSuyo` | a program signals a resource only after a WAIT of it not yet signalled, and waits for it only if it has no such WAIT | two SIGNALs of others do the same |
| `CierraLoSuyo` | before an F_CLOSE of a file the last F_OPEN or F_CLOSE of it in the program is an F_OPEN | the kernel passes the file on at any F_CLOSE of it (`kernel.c:1297`) |
| `Cuidadosos` | a constant of `SistemaArchivos`: programs truncate, read and write as `TruncadoSano` and `AccesoSano` say, read one block at a time, and leave files of before the last start alone | the code counts blocks wrong at block ends (3.4) |
| `TamSegmento0` > 0 (5.2, 5.3) | memoria.config has 128 | segment 0 would be as low as the first segment that a process creates, and the list of a compaction, sorted by base, would not begin with the segments 0 |
| `NadaAparte`, `Aparte` | no request is the value that stands for none, and no pid the one for an idle CPU | the model would lose it |
| `AbreDeAUno` | a program opens a file after closing the one before | a process that waits for a file has others open; the invariant does not follow those |
| `PosicionaAlReabrir` | a program opens a file before it reads or writes it, and seeks if it opens it again after it sought | the access goes to the position of the earlier opening (3.3), or to that of an uninitialised pointer (`kernel.c:1330`) |

### 5.1 The scheduler

- `TipoCorrecto`: `Spec => []TipoOK`. Inductive alone: it ties the stage of each
  thread to having a PCB in hand, so no handler reads one it does not have.
- `SinDespertarPerdidoCorrecto`: `Spec => []SinDespertarPerdido`. Inductive with
  `TipoOK`: whoever queues a PCB is left at the stage that posts, and the
  schedulers go back to their semaphore only after seeing an empty queue.
- `ColaAvisadaCorrecta`: `Spec => []ColaAvisada`, that the processes in the queue
  of a resource are no more than the posts to come plus the instances it owes. It
  is the half of `ContabilidadRecursos` that holds for any number of instances
  and any programs.
- `ContabilidadRecursosCorrecta`, `NoCaeKernelCorrecto` (`RecursosConfigurados`,
  `UnaInstanciaOMenos`, `DevuelveLoSuyo`): the equality, and that no waker pops an
  empty queue. It is not inductive: whether a SIGNAL finds a post pending depends
  on who sends it. `Cuentas` says who: `Tienen(r)` are the processes whose last
  WAIT or SIGNAL of r that the kernel has served is a WAIT (one behind the program
  counter while the call is in the socket). They are as many as instances have
  been taken, and the queued are among them. So when a process signals the only
  instance, it is one of `Tienen(r)` and not queued, the debt is the others, and
  all of them are queued without a post: the one it sends has somebody to wake.
  The DEADLOCK scripts use resources so. MEMORIA and FS use those of no
  instances as turns, which a process signals without holding them: the theorem
  is not about them.
- `UnSoloCorrecto`: `RecursosConfigurados` gives `[]UnSoloEnEjecucion`, which is
  not inductive: it does not say where the token is while nobody runs. `Ficha`
  does: the unit of `sem_habilitar_exec` is free, or with the dispatcher that has
  a PCB to send, or a message to the CPU after which it executes, or the CPU, or
  a message from it, or `atender_cpu` at a stage that has not posted; exactly one
  of them (`FichaUnica`), one message at most in each direction, and the CPU
  waits only for an answer that exists.
- `MutexCompactacionCorrecto` (without hypothesis) and `ExclusionCorrecta`: the
  unit of `mutex_compresion` is free, with a file operation, or with the
  compaction. TLC finds `ExclusionCompactacion` true of programs with
  unconfigured resources too; the hypothesis is what the proof needs, which
  tells the file operation from the compaction by the token.
- `ProtocoloCpuCorrecto`: every message that the CPU reads is one its `recv` is
  for. `Protocolo` adds to the token that what is in the socket suits the state of
  the CPU and that a CPU that waits has its call in the socket, in a handler, or
  an answer to read.
- `PcbUnicoCorrecto`: `Unicidad`. `PcbUnico` says that a PCB is in one place, but a
  step needs to know which: `PlazaUnica` says that the memberships in ten sets of
  places add up to 1 for a process that was submitted and has not ended, 0 for
  others, and `ColasSinRepetir` and `RecursosSinRepetir` that no queue has it
  twice. Each action takes a process out of one set and puts it in another.
- `ImplementaCicloCorrecto`: the refinement of `CicloDeVida`, a step simulation.
  `Unicidad` gives each process the state of its place (`Clasificados`); every
  action is an arrow of the diagram for one process or a stutter, and the bound on
  admissions is the account of the slots, `Slots`.
- `SlotsCorrecto`, `SlotsConservadosCorrecto`: that account, first with the slots
  that a SIGNAL of an unknown resource takes away for ever, then without, from
  `SenalesConfiguradas` (`SinFugas`).
- `FinalizadoNoEjecutaCorrecto`: a process logged as finished executes nothing
  more. Run `PlanError1` violates it with a program outside
  `RecursosConfigurados`; the theorem says that nothing else does.

### 5.2 Memory

All for any memory, sizes, processes and algorithm, with `TamSegmento0` > 0.

- `ParticionCorrecta`: `Spec => []Particion`. `Invariante` says it without
  cardinalities and without the order of the lists: the table of holes and the
  segment lists are well typed (`Segms`, `Huecos`: inside the memory, after
  segment 0), the ids of a process are distinct, and each byte after segment 0 is
  of exactly one hole and no segment or of exactly one segment and no hole
  (`Reparto`). Nothing in it is about adjacency, so holes of size 0 and neighbours
  that a pass of `combinar_huecos_libres` leaves unjoined (3.2) need no case.
  Its steps: a sort and a joining keep the bytes of every hole (`Conserva`:
  `OrdenarConserva`, by induction on the recursive function of `Ordenaciones`, and
  `CombinarConserva`, from the runs of `Tramo`); a segment that is placed takes the
  front of its hole (`UbicarReparto`); one that is freed becomes a hole
  (`LiberarReparto`, and `TrasBien`, by induction, for the loop of
  `eliminar_proceso`).
- `CompactarNoPisaCorrecto`: the segments that move are all but the segments 0
  (`MovidosEs`), and `BaseCompacta` puts a segment at its rank: as many bytes
  after segment 0 as there are used bytes before it (`BaseCompactaEs`, where the
  sum of sizes becomes the cardinality of a union of disjoint sets, `SumaDeCajas`
  of `ColasProofs`). A rank is never above the byte (`RangoAcotado`), and keeps
  the order, so segments go down and end before the old place of the next.
- `TipoMemoriaCorrecto`: `Spec => []TipoOK`, part of `Invariante`.
- `ImplementaAsignadorCorrecto` (`NadaAparte`): the refinement of `Asignador`, a step
  simulation. What is granted is a set that each handler changes by one segment
  or by one process's (`AsignadosUbica`, `AsignadosQuita`, `AsignadosSin`) and a
  compaction not at all (`AsignadosCompacta`); the lengths of the holes, which
  `hay_espacio` adds up, are the free bytes of `Asignador` (`LibreEs`), so a refusal
  is one there as well.

### 5.3 Segment tables

All for any memory, sizes, processes, programs and addresses, with
`TamSegmento0` > 0 and `Aparte`. The memory of `TablasSegmentos` is an instance of
`Memoria`, and the proofs about it come as a whole (`MP`, an instance of
`MemoriaProofs`): `PasoMemoria` shows each step of the composition to be one of
`Memoria` (theorem `EsMemoria`), so `Invariante` of 5.2 holds here too. The lemmas
`Igual...` say that the two instances are the same definitions.

- `TraduccionCorrectaSiempre`, `DireccionPendienteCorrecta`,
  `SoloFaltanPosterioresCorrecto`, `TipoTablasCorrecto`: what the runs check of
  addresses. No copy of a table need be equal to the table: after a deletion it
  has a segment more, after a dispatch the segments created since the last
  compaction are missing. `Copias` is the invariant. `Vigente` says that a copy and
  the table agree on every id that both have: of the copy in the CPU always but
  between a request and its answer (`EnCpu`), and of what the next dispatch would
  give to each process that lives (`AlDia`), which is also complete before the
  first compaction. An id that came back after a deletion would find the old
  segment in a copy, so `Frescos` bounds the ids in every table and copy by the
  number of creations. `Pedidor` says that the request under way is of the process
  in EXEC, or is the end of one that has ended: the answer therefore updates the
  right PCB. `Pendiente` is the address that the file system holds, which only a
  compaction could make wrong, and that waits for it (`CopiasCompactar`).
- `ImplementaSegmentosCorrecto`: the refinement of `Segmentos`, a step simulation.
  `ReflejaEs` says which contents the tables and the bytes stand for, `ReflejaIgual`
  that they are the same if each segment has the same bytes, wherever it lies.
  A write is within one segment, and the others have no byte in common with it
  (`PropiosSeparados`, from `Reparto`). For a compaction, `Copiadas` is the
  invariant of its loop: after n copies the first n segments by base are
  in their new places and the others still in their old ones, as
  `CompactarNoPisa` has it for one step; segment 0 is touched by none
  (`CopiarUno`, `CopiarTodos`). That the loop visits each segment once, by base, is
  `OrdenEs`.

### 5.4 Open files

- `TipoArchivosCorrecto`, `UnaEntradaCorrecta` (without hypothesis): types, and no
  file has two entries in `lista_archivos_abiertos`. The reason is in `Apertura`: a
  file that the file system is opening is not in the list and its process holds
  the CPU, so nobody else asks for it; two messages of the kind would break it
  (`Solo`). `Mutex` relates `mutex_compresion` to the operations on their way.
- `ExclusionArchivoCorrecta`, `NoCaeCorrecto` (`CierraLoSuyo`): no two processes
  have a file open, and the thread of a file that is woken finds a process in its
  queue. `Bloqueo` says of every file that it is owned by one, or being passed on
  to the first of its queue (`Turno`), and that a process is in one place
  (`Plaza`).
- `ListaBienLlevada` (`CierraLoSuyo`, `AbreDeAUno`): `[]ListaCorrecta`. The other
  direction: a file in the list has an owner or a post on its way (`Duenio`), for
  which one has to know that who waits for a file wants no other.
- `PosicionVigenteCorrecta` (`CierraLoSuyo`, `PosicionaAlReabrir`):
  `[]PosicionVigente`. The property reads the program and the handlers the list of
  the process, of which F_SEEK moves the first entry. The invariant `Punteros` ties
  the two, without hypothesis: what a program has executed decides whether the file
  is in the list, or being opened, and where the first entry points (`Fiel`,
  `Deja`). With `PosicionaAlReabrir` that is the position asked for when it reads
  or writes (`DejaPedida`). Until the file system has taken the message its process
  stays off the CPU (`Plaza`, hence `CierraLoSuyo`), so the position stays in force.

### 5.5 The file system

The first three have no hypothesis: they hold for the requests that the code does
not support as well (`TramosExactos` says in itself which accesses it is about).

- `TipoSistemaCorrecto`: pointers are block numbers, or -1 once the bitmap filled
  up, and what is read through them are integers, for any request.
- `FcbVigenteCorrecto`: the FCB that `get_fcb` finds is the one in the file.
  Inductive with the types and `Conocidos` (the list names files that exist): an
  opening enters the file's FCB behind the others, and `modificar_fcb` changes the
  first of the name and the file alike.
- `TramosExactosCorrecto`: the pieces of an access are the places of its bytes, for
  every block and pointer size. It is no induction over steps but arithmetic:
  `BloquesExactos` finds that the list of blocks has the block of each part of the
  access (the quotients that `obtener_lista_de_bloques` rounds up and down agree
  when `AccesoSano` holds), `CorteDe` where each piece starts and ends, and
  `Aplanado` that pieces which follow one another make up the whole.
- `BloquesPropiosCorrecto` (`Cuidadosos`): `[]BloquesPropios`. The invariant
  `Propiedad` adds two facts. No file has more pointers than fit in a block, so
  `escribir_bloques_indirectos` stays within the block it was given (`EscribirEn`),
  which was free, and no other file's pointers move. And block 0 is only ever a
  first block: the loop takes free blocks from the lowest (`IdsLibres`), so the 0
  that `achicar_archivo` has for "no indirect block" is never among the blocks it
  frees. A write goes to data blocks only (`LugaresDatos`, from `TramosBien`), so
  it changes nobody's pointers. The steps are the cases of `TruncadoSano`:
  `PropiedadPrimera`, `PropiedadMismos`, `PropiedadAchicar`, and
  `PropiedadSinLugar` for the bitmap that fills up.
- `ImplementaDiscoCorrecto` (`Cuidadosos`): `Spec => ImplementaDisco`, a step
  simulation with `Propiedad`. Two bytes of one file are in two places
  (`LugarInyectivo`), bytes of two files too (`LugarAjeno`), because their blocks
  differ and a place has one block and one offset (`Direcciones`). So a write
  changes the bytes it names and no others (`DiscoEscribir`, with
  `TramosExactos` for which places it writes), and a truncation, which writes
  pointers in a block that was free, changes none that a file holds
  (`DiscoModificarTamanio`). A read delivers what the file holds
  (`DiscoLeer`). A truncation that falls for lack of blocks, a write past the end
  and a read with no piece are stutters.

### 5.6 What stays with TLC

- Liveness, and all that needs fairness or ENABLED: TLAPS 1.4.5 does not do it.
- `ContabilidadRecursos` for programs that signal what they do not hold is
  neither proved nor in a run: it depends on how the scripts take turns.
- `BufferAlcanza`: it holds for as many openings as the scripts do, a bound that
  nothing in the code gives (`pcb->archivos_abiertos` only grows), so there is no
  statement for all values to prove.

Induction over data is done with sets: the theorems of the library take the
predicate as an operator, which the provers cannot instantiate, so `InduccionNat`
of `ColasProofs` states induction for a subset of the naturals, from a theorem
about well-founded relations that takes none. With it the recursive functions of
`Memoria` and the folds behind its sums are shown to exist and to satisfy their
equation (`PrimerosExiste`, `TrasExiste`, `SumaExiste`, `SumaUnica`).

## 6. Not modelled

- `pid++` among console threads (`kernel.c:610`) and the socket to memoria that they
  share with `atender_cpu` (620). The models take distinct pids and an answer for
  each request, which is so while consoles start one after the other and outside
  a creation or deletion. When one thread reads the other's answer, its bytes are
  taken for another message; what follows has no bounded set of outcomes.
- The race of `list_sort` without a mutex in HRRN (`kernel.c:762`): undefined
  behaviour, likewise.
- The byte layout of messages and a short `recv` in `desempaquetar`
  (`serializacion.c:379`): the stream loses its message boundaries for good, and
  the models' channels deliver whole messages.
- What registers hold, and the byte that `insertar` copies too many
  (`cpu.c:618`): no instruction branches on a register. Values in memory and in
  files are kept apart by position, not by register.
- Two threads at once in a queue without a mutex, `cola_recurso`
  (`kernel.c:900`, 865) or `cola_archivo` (1260, 1283): undefined behaviour,
  likewise. The models take each operation as atomic.
- Use of freed memory, which the models take to keep its contents: the entry and
  the name of a file in `cerrar_archivo` (`kernel.c:1296`, 1302), the name of a
  resource in a PCB that is queued for it (930), the name of a file in
  `actualizar_puntero` (1316), a buffer of the file system (`fileSystem.c:445`).
- Parsing, configuration, logs, sleeps: text and I/O.
- A crash of a program other than the file system: the kernel exits, nothing
  recovers.
