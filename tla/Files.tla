-------------------------------- MODULE Files --------------------------------
(***************************************************************************)
(* Open files: the per-process descriptor tables and the global file table *)
(* (src/filesystem/fd/fd.c), vfs_open, vfs_read, vfs_write and vfs_lseek   *)
(* (src/filesystem/vfs/vfs.c), the drivers behind them (tarfs, fb0, the    *)
(* standard streams) and the system calls of src/syscalls/fs/fs.c.         *)
(*                                                                         *)
(* A vnode is a model value with the operations its driver provides; data  *)
(* is left out, offsets and sizes are kept.  File objects are heap blocks: *)
(* a freed one is reused.  Calls are atomic (Sched!AllocatorExclusion).    *)
(***************************************************************************)
EXTENDS Integers, Sequences, FiniteSets

CONSTANTS Procs,        \* processes
          Tar, Fb,      \* a file of the tar archive, and /dev/fb0
          Stdin, Stdout, Stderr,
          Dir,          \* a directory
          Extent,       \* size of each vnode's data
          Openable,     \* the vnodes user code opens
          Closable,     \* the descriptors user code closes
          Sizes,        \* byte counts user code passes to read and write
          Seeks,        \* offsets user code passes to lseek
          BASE_FILE_LIST_SIZE, BASE_FD_LIST_SIZE,
          Failures,     \* which allocation of an open may return NULL
          MaxFiles      \* bound on the files open at a time

Std == {Stdin, Stdout, Stderr}
Vnodes == {Tar, Fb, Dir} \cup Std
Readable == {Tar, Fb}                    \* vnodes whose ops->read is not NULL
Writable == {Fb, Stdout, Stderr}         \* vnodes whose ops->write is not NULL

ASSUME SizeAssumption == /\ Extent \in [Vnodes -> Nat]
                         /\ \A v \in Std : Extent[v] = 0
                         /\ Openable \subseteq Vnodes /\ Closable \subseteq Nat
                         /\ Sizes \subseteq Nat \ {0} /\ Seeks \subseteq Int
ASSUME TableAssumption == /\ BASE_FILE_LIST_SIZE \in Nat \ {0}
                          /\ BASE_FD_LIST_SIZE \in Nat \ {0} /\ MaxFiles \in Nat
ASSUME FailureAssumption ==
  Failures \subseteq {"none", "file", "file table", "fd", "fd table"}

VARIABLES size,       \* vnode->size
          files,      \* the file_t objects in use: id -> record
          table,      \* global_file_table: object ids, 0 for NULL
          fds,        \* process->fds: global table indices, 0 for NULL
          started,    \* the processes process_create has set up
          panicked,   \* the kernel called through a NULL pointer, or panic()
          closing     \* history: the descriptors the last call was asked to close

vars == <<size, files, table, fds, started, panicked, closing>>

Free(seq) == {i \in 1..Len(seq) : seq[i] = 0}

\* of_extend_table, process_fd_extend.
Doubled(seq) == seq \o [i \in 1..Len(seq) |-> 0]

Slot(seq) == IF Free(seq) = {} THEN Len(seq) + 1
             ELSE CHOOSE i \in Free(seq) : \A j \in Free(seq) : i <= j

\* The slot search of of_open and process_fd_open.
Placed(seq, x) == [(IF Free(seq) = {} THEN Doubled(seq) ELSE seq) EXCEPT ![Slot(seq)] = x]

\* kmalloc of a file_t: the lowest object not in use.
FreshFile(fs) == CHOOSE i \in 1..(MaxFiles + 1) :
                   i \notin DOMAIN fs /\ \A j \in 1..(i - 1) : j \in DOMAIN fs

\* The tables as a value, so that several opens compose into one step.
State == [files |-> files, table |-> table, fds |-> fds]

Released(fs, id) == [i \in DOMAIN fs \ {id} |-> fs[i]]

\* Mutant: the slot of a file that is freed keeps pointing to it.
of_close_dangling(st, idx) == [st EXCEPT !.files = Released(@, st.table[idx])]

of_close(st, idx) ==
  LET id == st.table[idx] IN
  IF st.files[id].refcount > 1 THEN [st EXCEPT !.files[id].refcount = @ - 1]
  ELSE [st EXCEPT !.files = Released(@, id), !.table[idx] = 0]

\* of_open after vfs_open found the vnode.
of_open(st, vnode) ==
  LET id == FreshFile(st.files)
      file == [vnode |-> vnode, offset |-> 0, refcount |-> 1]
  IN [st EXCEPT !.files = [i \in DOMAIN @ \cup {id} |-> IF i = id THEN file ELSE @[i]],
                !.table = Placed(@, id)]

\* Mutant: a failed open does not give the file back.
process_fd_open_leaks(st, p, vnode, failure) ==
  IF failure \in {"file", "file table"} THEN st
  ELSE IF failure = "fd" \/ failure = "fd table" THEN of_open(st, vnode)
  ELSE [of_open(st, vnode) EXCEPT !.fds[p] = Placed(@, Slot(st.table))]

\* process_fd_open: a failure while extending a table needs a full table.
process_fd_open(st, p, vnode, failure) ==
  LET opened == of_open(st, vnode)
      idx == Slot(st.table)
  IN IF failure = "file" \/ (failure = "file table" /\ Free(st.table) = {}) THEN st
     ELSE IF failure = "fd" \/ (failure = "fd table" /\ Free(st.fds[p]) = {})
          THEN of_close(opened, idx)
     ELSE [opened EXCEPT !.fds[p] = Placed(@, idx)]

Become(st) == files' = st.files /\ table' = st.table /\ fds' = st.fds

\* process_unpack_fd, as the set of at most one file.
process_unpack_fd(p, fd) ==
  {table[fds[p][fd]] : i \in {j \in 1..Len(fds[p]) : j = fd /\ fds[p][j] # 0}}
-----------------------------------------------------------------------------
Init == /\ size = Extent /\ files = <<>> /\ panicked = FALSE
        /\ table = [i \in 1..BASE_FILE_LIST_SIZE |-> 0]    \* fd_init
        /\ fds = [p \in Procs |-> <<>>] /\ started = {} /\ closing = {}

\* process_create: process_fd_init and process_fd_base.
ProcessFds(p) ==
  LET st == [State EXCEPT !.fds[p] = [i \in 1..BASE_FD_LIST_SIZE |-> 0]] IN
  /\ ~panicked /\ p \notin started
  /\ Cardinality(DOMAIN files) + 3 <= MaxFiles
  /\ Become(process_fd_open(
              process_fd_open(
                process_fd_open(st, p, Stdin, "none"), p, Stdout, "none"), p, Stderr, "none"))
  /\ started' = started \cup {p} /\ closing' = {}
  /\ UNCHANGED <<size, panicked>>

\* do_sys_open of a path vfs_find_vnode resolves; any other path changes nothing.
do_sys_open(p, vnode, trunc, failure) ==
  /\ ~panicked /\ p \in started
  /\ Cardinality(DOMAIN files) < MaxFiles
  /\ Become(process_fd_open(State, p, vnode, failure))
  /\ size' = IF trunc /\ failure # "file" THEN [size EXCEPT ![vnode] = 0] ELSE size
  /\ closing' = {}
  /\ UNCHANGED <<started, panicked>>

\* Mutant: the descriptor that is cleared is the one after it, where there is one.
do_sys_close_next(p, fd) ==
  /\ ~panicked /\ p \in started
  /\ fds[p][fd] # 0
  /\ LET i == IF fd < Len(fds[p]) THEN fd + 1 ELSE fd IN
     /\ fds[p][i] # 0
     /\ Become([of_close(State, fds[p][i]) EXCEPT !.fds[p][i] = 0])
  /\ closing' = {<<p, fd>>}
  /\ UNCHANGED <<size, started, panicked>>

\* do_sys_close and process_fd_close.
do_sys_close(p, fd) ==
  /\ ~panicked /\ p \in started
  /\ fds[p][fd] # 0
  /\ Become([of_close(State, fds[p][fd]) EXCEPT !.fds[p][fd] = 0])
  /\ closing' = {<<p, fd>>}
  /\ UNCHANGED <<size, started, panicked>>

\* A NULL function pointer, or the NULL ops of a directory.
CallNull == /\ panicked' = TRUE /\ closing' = {}
            /\ UNCHANGED <<size, files, table, fds, started>>

SetOffset(id, offset) ==
  /\ files' = [files EXCEPT ![id].offset = offset] /\ closing' = {}
  /\ UNCHANGED <<size, table, fds, started, panicked>>

\* Mutant: fb_read and fb_write do not stop at the end.
TransferredAll(offset, n, end) == n

\* tar_read, fb_read, fb_write: the bytes transferred.
Transferred(offset, n, end) ==
  IF offset >= end THEN 0 ELSE IF offset + n > end THEN end - offset ELSE n

\* do_sys_read and vfs_read; tar_read stops at vnode->size, fb_read at fb->size.
do_sys_read(p, fd, n) ==
  /\ ~panicked /\ p \in started
  /\ \E id \in process_unpack_fd(p, fd) :
       LET f == files[id]
           end == IF f.vnode = Fb THEN Extent[Fb] ELSE size[f.vnode]
       IN IF f.vnode \in Readable
          THEN SetOffset(id, f.offset + Transferred(f.offset, n, end))
          ELSE CallNull

\* do_sys_write and vfs_write; std_write returns 0.
do_sys_write(p, fd, n) ==
  /\ ~panicked /\ p \in started
  /\ \E id \in process_unpack_fd(p, fd) :
       LET f == files[id] IN
       IF f.vnode \in Writable
       THEN SetOffset(id, f.offset + (IF f.vnode = Fb
                                      THEN Transferred(f.offset, n, Extent[Fb]) ELSE 0))
       ELSE CallNull

Clamped(offset, end) == IF offset < 0 THEN 0 ELSE IF offset > end THEN end ELSE offset

\* do_sys_lseek and vfs_lseek; an unknown whence panics.
do_sys_lseek(p, fd, offset, whence) ==
  /\ ~panicked /\ p \in started
  /\ \E id \in process_unpack_fd(p, fd) :
       LET f == files[id]
           from == CASE whence = "SET" -> 0 [] whence = "CUR" -> f.offset
                     [] whence = "END" -> size[f.vnode] [] OTHER -> 0
       IN IF whence \in {"SET", "CUR", "END"}
          THEN SetOffset(id, Clamped(from + offset, size[f.vnode]))
          ELSE CallNull

Next ==
  \E p \in Procs :
    \/ ProcessFds(p)
    \/ \E v \in Openable, trunc \in BOOLEAN, failure \in Failures : do_sys_open(p, v, trunc, failure)
    \/ \E fd \in 1..Len(fds[p]) :
         \/ fd \in Closable /\ do_sys_close(p, fd)
         \/ \E n \in Sizes : do_sys_read(p, fd, n) \/ do_sys_write(p, fd, n)
         \/ \E o \in Seeks, w \in {"SET", "CUR", "END", "other"} : do_sys_lseek(p, fd, o, w)

Spec == Init /\ [][Next]_vars
-----------------------------------------------------------------------------
Descriptors == UNION {{p} \X (1..Len(fds[p])) : p \in Procs}
Refs(idx) == {d \in Descriptors : fds[d[1]][d[2]] = idx}

\* Every open descriptor leads to a live file object: no descriptor names an
\* empty slot, no slot a freed object, and no object is in two slots.
NoDangling ==
  /\ \A p \in Procs : \A i \in 1..Len(fds[p]) : fds[p][i] # 0 => table[fds[p][i]] # 0
  /\ \A i, j \in 1..Len(table) :
       table[i] # 0 => table[i] \in DOMAIN files /\ (i # j => table[i] # table[j])

\* A file object is in use exactly as long as a descriptor leads to it, and its
\* refcount is the number of those, also after an open that failed half way.
RefcountsExact ==
  /\ \A i \in 1..Len(table) : table[i] # 0 => files[table[i]].refcount = Cardinality(Refs(i))
  /\ DOMAIN files = {table[i] : i \in {j \in 1..Len(table) : table[j] # 0}}

\* No offset lies beyond the data of its file, also when another open truncated
\* the vnode in between.
OffsetInRange == \A i \in DOMAIN files : files[i].offset <= Extent[files[i].vnode]

Open == {d \in Descriptors : fds[d[1]][d[2]] # 0}
FileOf(d) == table[fds[d[1]][d[2]]]

KeepsFiles ==
  /\ Open \ Open' = closing'
  /\ \A d \in Open \cap Open' : /\ FileOf(d)' = FileOf(d)
                                /\ FileOf(d) \in DOMAIN files'
                                /\ files'[FileOf(d)].vnode = files[FileOf(d)].vnode

\* The descriptors that a call takes away are exactly those it was asked to close,
\* by process and number: no other open, close, failed open or table growth drops
\* one or exchanges the file behind it.
FdStable == [][KeepsFiles]_vars
-----------------------------------------------------------------------------
\* The inductive invariant, of the tables as values: f of files, t of the global
\* table and d of the descriptor tables.

\* What a table holds at i; it holds nothing where it does not reach.
Entry(seq, i) == IF i \in 1..Len(seq) THEN seq[i] ELSE 0

File == [vnode : Vnodes, offset : Nat, refcount : {1}]

Types(f, t, d) ==
  /\ f \in [DOMAIN f -> File] /\ IsFiniteSet(DOMAIN f) /\ DOMAIN f \subseteq Nat \ {0}
  /\ t \in Seq(Nat) /\ Len(t) > 0
  /\ d \in [Procs -> Seq(Nat)]

\* Slots of the global table and file objects correspond one to one.
Slots(f, t) ==
  /\ \A i \in Nat : Entry(t, i) # 0 => Entry(t, i) \in DOMAIN f
  /\ \A i, j \in Nat : Entry(t, i) # 0 /\ Entry(t, i) = Entry(t, j) => i = j
  /\ \A x \in DOMAIN f : \E i \in Nat : Entry(t, i) = x

\* So do descriptors and slots: of_open alone raises a refcount, so every file is
\* behind one descriptor, and its refcount is 1.
Links(t, d) ==
  /\ \A p \in Procs, i \in Nat : Entry(d[p], i) # 0 => Entry(t, Entry(d[p], i)) # 0
  /\ \A p, q \in Procs, i, j \in Nat :
       Entry(d[p], i) # 0 /\ Entry(d[p], i) = Entry(d[q], j) => p = q /\ i = j
  /\ \A k \in Nat : Entry(t, k) # 0 => \E p \in Procs, i \in Nat : Entry(d[p], i) = k

Sound(f, t, d) == Types(f, t, d) /\ Slots(f, t) /\ Links(t, d)

SizesSound == /\ size \in [Vnodes -> Nat]
              /\ \A v \in Vnodes : size[v] <= Extent[v]

\* Only process_create's step gives a process a table.
StartedSound == \A p \in Procs : IF p \in started THEN Len(fds[p]) > 0 ELSE fds[p] = <<>>

IInv == Sound(files, table, fds) /\ SizesSound /\ OffsetInRange /\ StartedSound
=============================================================================
