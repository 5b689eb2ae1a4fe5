# TecnicoFS in TLA+

TecnicoFS is a small in-memory file system. `src/parte-2` holds a library
(`fs/state.c`, `fs/operations.c`) whose calls may come from several threads, a
server (`fs/tfs_server.c`) that offers the library to client processes over
named pipes, and the client library (`client/tecnicofs_client_api.c`).
`src/parte-1` holds an earlier library with finer locks and larger files. This
directory holds a model of the system, the instances that TLC checks, and
theorems that TLAPS checks.

## Inventory

| Component | State | Operations | What makes it correct |
|---|---|---|---|
| tables, `parte-2/fs/state.c` | `inode_table`, `freeinode_ts`, `fs_data`, `free_blocks`, root directory, `open_file_table`, `free_open_file_entries`, `open_files_count`, `open_flag` | allocate and free i-nodes, blocks, entries; find and add directory entries | blocks and i-nodes have one owner, directory entries are unique, the count covers the open entries |
| operations, `parte-2/fs/operations.c` | `single_global_lock`, where each thread is | `tfs_init`, `tfs_open`, `tfs_close`, `tfs_read`, `tfs_write`, `tfs_destroy_after_all_closed` | files are sequences of bytes, handles keep their file, a destroy waits for the last close, calls return |
| receptor, `main` of `tfs_server.c` | position in its loop, `next_session_id` | dispatch, refuse a mount, reopen the pipe at EOF, leave the loop | every request reaches its session once |
| workers, `thread_handler` and `case_*` | `sessions[]`, their locks and conditions, `shutting_down`, `shutdown_called`, `shutting_down_lock` | execute a request, answer | one answer per request, to the client that asked; one shutdown, answered |
| clients, `tecnicofs_client_api.c` | session id, two pipes, the call in progress | `tfs_mount`, `tfs_unmount`, `tfs_open`, `tfs_close`, `tfs_read`, `tfs_write`, `tfs_shutdown_after_all_closed` | every call reads its own answer and returns |
| earlier library, `parte-1/fs` | the same tables, a lock for each i-node, entry, block and directory slot, direct and indirect blocks | the same calls and `tfs_copy_to_external_fs` | no deadlock, no lock kept, no torn write, block arithmetic right at every boundary |
| tests, Makefiles | | | |

**Interaction.** Threads share the library's tables under two mutexes:
`single_global_lock` around each call, and `open_files_mutex` with
`open_files_cond` around `open_flag`, `open_files_count` and the claims of open
file entries. Clients write requests to the one pipe of the server; the
receptor copies each into the buffer of its session and signals the session's
worker, which calls the library and writes the answer to the client's own pipe.

**What is hard.** The check of `open_flag` comes before the lock it protects; a
destroyer sleeps while opens and closes go on; `tfs_init` may follow a destroy;
an i-node keeps the number of a block it has given back; tables run out in
every order. In the server: signals that find nobody waiting, spurious wakeups,
two writes for one read, end-of-file when the last client leaves, a lock that
`continue` releases without holding it, several ways in which the process ends
while clients still wait. `PROJECT.json` lists each hazard at its line.

## Modules

| Module | Models |
|---|---|
| `TfsState` | the tables and what the functions of `state.c` do to them; no locks |
| `TfsOperations` | the calls of `operations.c` by any number of threads, at the granularity of the two mutexes |
| `TfsFiles` | the abstract library: names, byte sequences, positions; no i-nodes, blocks, locks, counts |
| `TfsCorrectness` | the library's properties, and the refinement of `TfsFiles` |
| `TfsOperationsProofs`, `TfsTablesProofs`, `TfsFilesProofs` | theorems about `TfsOperations`: calls and open files; directory, blocks and offsets; the refinement of `TfsFiles` |
| `TfsServer` | clients, pipes, receptor and workers, over an instance of `TfsFiles` |
| `TfsServerCorrectness` | the server's properties |
| `TfsServerProofs` | theorems about `TfsServer` |
| `FineState` | the tables of `parte-1/fs/state.c`, blocks of several files in one array, the arithmetic of `tfs_write`, `tfs_read` and truncation |
| `FineOperations` | the calls of `parte-1/fs/operations.c` by any number of threads, at the granularity of its locks |
| `FineFiles` | the abstract earlier library: files as byte sequences, writes in pieces that nothing interrupts |
| `FineCorrectness` | the properties of the earlier library, and the refinement of `FineFiles` |
| `FineOperationsProofs`, `FineBlocksProofs`, `FineReadsProofs`, `FineFilesProofs` | theorems about `FineOperations`: locks, handles, the count; lemmas about block numbers; the directory, the blocks and what `tfs_read` returns; the refinement of `FineFiles` |
| `MCTfs`, `MCTfsServer`, `MCFine` | values of constants for TLC |

The server is composed with `TfsFiles`, whose threads are its workers, and not
with `TfsOperations`: the library is checked to implement `TfsFiles`, so the
server needs only what `TfsFiles` says. (`TfsFiles` says nothing of liveness:
two shutdowns at once would leave one worker waiting in the library, because
the last close signals one waiter only.)

### The library

The variables have the code's names. `pc[t]` says where a call is between two
steps (`open`, `add`, `remove`, `wait`, `woken`), `arg[t]` holds its arguments
and locals. `open_files_mutex` is released in each step that takes it, so
its sections are steps; `single_global_lock` is a variable because an open and
a close hold it over two steps. A `tfs_open` is `OpenCheck` (line 121), then
`OpenExisting`, `OpenCreate` or `OpenFails` (the body under the global lock, up
to the choice of a free entry), then `AddEntry`. A `tfs_close` is `CloseStart`
and `RemoveEntry`. A `tfs_destroy_after_all_closed` is `DestroyEnter`, a wait
in `pthread_cond_wait`, and `DestroyRecheck` (the `while` loop) after a signal
or `SpuriousWakeup`. `Read` and `Write` are one step each. Reads, writes and
closes that fail at once change nothing and are left out.

Data: a name is a member of `Names`, and `Stored` says under which name an
entry is later found (names may be cut, or lose a first character that is not
`/`); a byte is a member of `Bytes`; sizes are those of the constants, and
`SIZE_T` is the number of values of a `size_t`, modulo which `to_read` is
computed. The contents of the root directory's block are `root_dir`.

Callers: any thread calls anything at any time, with two exceptions. A handle
is read or written only while it is open, and, unless `SharedTrunc`, a file is
not opened with `TFS_O_TRUNC` while it is open elsewhere (the run
`shared_trunc` shows why). `tfs_init` is called again when no call is running.

### The earlier library

`fs_data` is one array of cells, as in the code: a copy or an initialisation
that runs past the end of a block reaches the next one. A cell holds a byte, or
one part of an int of an indirect block (`INT_SIZE` cells hold the same
number). Cells never written read as 0. Cells of a caller's data, or pieces of
`int`s that are not aligned, read as whatever `IntOf` says, which may be -1, the
number of any block or `Garbage` (no block's number): the constant stands for
what the callers happen to write. The contents of block 0 are `root_dir`, so a
copy to block 0 leaves any entries there (`RootDirAfter`). `Stored` maps a name
to the one its entry is found under, since `state.c:353-354` keep 39 characters
and line 392 compares 40. `Piece`, `EndBlock`, `BlocksToFree` are the code's
expressions, the wrong remainder of `operations.c:66` included.

`pc[t]` and `arg[t]` say where each call is; the comment above `NoArg` lists the
places. A lock is a variable when it is held over two steps: `open_file_lock`,
the lock of each i-node and of each open file entry. The scans of
`inode_create`, `data_block_alloc` and `add_to_open_file_table` look at one
element per step, and a write makes one step per block, one per allocation and
one for the labelling of a new indirect block, which runs under no lock of a
block. Reads and truncations are one step, since they hold the file's lock.
`tfs_copy_to_external_fs` is its calls of `tfs_open`, `tfs_read` and
`tfs_close`, with every way out that leaves its handle open.

A failing pthread call ends the process (`LockFails`, `StateDestroy`,
`DestroyMutex`): a lock the thread holds already, a mutex that was destroyed,
the destruction of a mutex that a thread holds. `Ended` is the rest that
follows, so that a deadlock is only one of a process that still runs.
`tfs_destroy_after_all_closed` destroys `open_file_lock` and `open_files_mutex`
in two steps; an open that comes in between succeeds, or ends the process, and
one that holds `open_file_lock` at that moment ends it as well. glibc's
destruction of an rwlock does nothing, and `data_blocks_locks[-1]`, which a failing truncation
locks, is zeroed memory that behaves as a free lock.

Callers keep to a discipline, each point of which the code needs: a handle is
used while it is open; it is closed once (with `SharedClose`, two closes at once
make `open_files_count` fall below the open entries); a file is
truncated only while it is not open (otherwise `to_read` wraps around, as in
`shared_trunc`) and, unless `HalfTrunc`, only when the truncation does not stop
half-way (`TruncFails`: a size from which `BlocksToFree` takes a block too many,
or the indirect block of a file that has none). The code tests neither, and a
file of one whole block is enough for the second: `fine_half_trunc` shows what
comes of it. And, unless `Unaligned`, whole blocks
are written only at the start of a block, because the last piece would
otherwise run over the block's end (line 236).

### The server

`cpc[c]`, `rpc` and `wpc[s]` say where a client, the receptor and a worker are;
the comments above each group of actions list the places. A request is a
record; `server_pipe` and `client_pipe[c]` are sequences, read in order.
`rx_open` says whether anybody reads the server's pipe: a client that writes
when nobody does is killed by SIGPIPE. A client holds its own pipe open for
writing, so an empty pipe makes it wait also when the server is gone.

Lock sections of the server that other threads cannot tell apart are one step.
The section under `shutting_down_lock` in `thread_handler` takes two
(`WorkerTest`, then `WorkerEnter` or `RefuseShutdown`), because
`UnlockUnheld`, the top of main's loop after a `continue`, may open it to a
second worker. `case_shutdown` is four steps (wait, set, answer, exit). `ServerEnds`
is `exit` or the end of `main`. `CaseUnmountUnlink` may or may not find the
name, since `session->pipename` points to a local of a function that returned.

## Runs

| Run | Instance | Result |
|---|---|---|
| `destroy` | 3 threads, 1 destroyer, 2 handles, 2 i-nodes, no free block, 2 calls of `tfs_init`; fairness | 21 276 states; the count covers the open entries, a destroy ends only when none is open, opens return, the destroyer is woken, refinement of `TfsFiles` |
| `files` | 2 threads, 3 names, 4 i-nodes, 3 blocks of 2 bytes, 2 slots, 2 handles | 924 415 states (up to symmetry); types, directory, blocks, offsets, handles, refinement of `TfsFiles` |
| `shared_trunc` | 2 threads, truncation of open files | violated: a read past the end of the file |
| `server` | 2 clients, 3 mounts of which the last is refused, 3 sessions, 2 handles, every request | about 2.6 million states (up to symmetry); see below |
| `server_returns` | 2 clients, 3 sessions, open, close, shutdown; fairness | 56 112 states; calls return |
| `server_eof` | the same, reads at the end of the file | violated: `tfs_read` never returns |
| `fine_files` | 1 thread, 2 files of 2 direct blocks of 4 bytes and 2 indirect ones, 6 blocks, writes of 0 and 6 bytes, reads of those and a block, append, truncations that do not stop half-way | 455 509 states (up to symmetry); types and sizes, blocks have one use, reads return what was written, refinement of `FineFiles` |
| `fine_threads` | 2 threads, 3 names, 3 i-nodes, 2 handles, 4 blocks, files of 1 direct and 1 indirect block | 232 158 states (up to symmetry); one file per name, no torn write, a file changes only in a step of the thread that has its lock, no lock kept, handles keep their file, refinement of `FineFiles` |
| `fine_half_trunc` | `fine_files` with truncations that stop half-way | violated: a file has a size without blocks, its reads fail |
| `fine_returns` | 2 threads, one that destroys and one that copies, 1 block, 1 directory slot, 2 calls of `tfs_init`; fairness | 188 888 states; the count covers the open entries, calls return, the destroyer is woken and destroys when nothing is open |
| `fine_overflow` | 2 threads, a block of 5 bytes, an initialisation of 6 | violated: a file changes while nobody has its lock |
| `fine_zero_write` | 2 threads, writes of length 0; fairness | violated: an open never returns |

The run `server` shows that a request of a waiting client is in exactly one
place (the server's pipe, an unanswered session, the client's pipe), which
excludes requests lost, executed twice or overwritten in the buffer; that each
answer meets the call it belongs to; that sessions and handles of clients
never mix; that at most one shutdown runs; and that its client is answered
before the process ends. Three exceptions are written into these properties
because the code has them: a refused mount is nowhere, and after one the
receptor does not keep to its lock (`Refused`); and a failing `case_mount` ends
the server at any time (`MountFailed`).

Of the violations, `fine_half_trunc` is the one that the other runs of the
earlier library depend on: `tfs_open` takes `TFS_O_TRUNC` for any file, and for
one whose truncation meets a block number of -1 it returns -1 after it has freed
blocks, with the size unchanged (`operations.c:65-76`). Reads of such a file
fail, and an append continues from its old size. The passing runs and the theorems
that say what reads return, or that files are byte sequences, therefore exclude
these opens by name (`HalfTrunc = FALSE`); those about locks, handles, counts,
the directory and the ownership of blocks do not.

More things that TLC finds in these models, and for which no run is kept:

* An open of `parte-2` that tested `open_flag` before the destroyer cleared it
  gets its handle afterwards (`operations.c:123-127`): an invariant that no entry
  is taken while `open_flag` is 0 fails with one thread and one destroyer.
* `tfs_init` frees the entries of files that are open, by such an open or
  because nothing was closed, and keeps `open_files_count` (`state.c:158`): no
  destroy would return after it.
* With two threads in `tfs_destroy_after_all_closed` of `parte-2` the second is
  never woken (`state.c:413` signals one): `Destroyers = {t2, t3}`.
* The server exits with requests in its pipe (`tfs_server.c:313`), and their
  clients, which hold their own pipes open, wait for ever.
* After a refused mount the receptor releases `shutting_down_lock` without
  holding it (`tfs_server.c:66`). With three clients, two shutdowns then run at
  once and `OneShutdown` fails; `ShutdownOnce` is stated up to that point.
* A client whose mount is refused waits for ever, because
  `handle_too_many_clients` looks for its pipe's name before main has read it
  (`tfs_server.c:431`).
* Nothing bounds the index into an indirect block in `parte-1`
  (`operations.c:203`): a file that is written past the last `int` takes bytes
  of the next block for a block number. With an `IntOf` that maps them to the
  number 1, an invariant that no size exceeds `MaxSize` fails.
* A file whose name is longer than 39 characters is created under another name
  (`state.c:292-293`, and 40 characters are compared in line 325; `parte-1` does
  the same), so that each open with `TFS_O_CREAT` creates one more: take a
  `Stored` that maps one name to another.

One point matters for the choice of the instances of the earlier library. The
initialisation of an indirect block writes `BLOCK_SIZE - MAX_DIRECT_BLOCKS` ints
whatever their size: with the code's constants 4056 bytes in a block of 1024.
The passing runs take sizes for which the loop fills the block exactly, so that
they show what else could be wrong; `fine_overflow` takes one cell more and
shows the damage.

**Bounds.** Two threads meet in every pair of places of two calls; the third
thread of `destroy` lets two files be opened and closed around one sleeping
destroyer, and makes threads outnumber handles. Each table is small enough to
run out: i-nodes in `destroy` and directory slots, blocks and handles in
`files`, where the lengths 1 and 3 stay inside and cross a block of 2 bytes.
Two inits give one restart. The passing runs of the earlier library take
names that are stored as they are (`ShortNames`) and callers whose bytes never
make up a block number (`NoNumbers`); the theorems hold for any `IntOf`. Two clients are what interference between sessions
needs; three mounts are one more than the receptor grants with three sessions,
and leave room for a client that mounts again. One file of one byte is enough
for the server, which does not look at contents. In the earlier library a file
of `fine_files` fills both kinds of blocks, all ints of an indirect block, and
the whole device, so that two files compete for the last blocks; lengths and
offsets fall inside, on and across the ends of blocks. In `fine_threads` two
writers of two files, or of one, meet in every step of a write that allocates a
direct, an indirect and an indirectly named block. `MaxInits` and `MaxMounts`
are the only bounds on behaviours.

**Fairness.** A thread inside a call goes on (weak fairness), and one that asks
for a contended mutex again and again free gets it (strong fairness: of
`single_global_lock` for opens, of `shutting_down_lock` in the server, of every
lock of the earlier library). No
caller has to call anything: `DestroyReturns` and `ShutdownReturns` assume that
the files are closed for good, `CallsReturn` assumes nothing of other clients.
Spurious wakeups happen and are never relied on. The server runs are checked
without deadlock checking: clients stop when they like, and the process ends.
All runs of the two libraries check for deadlock.

## Proofs

Each theorem holds for all values of the constants that satisfy the assumptions
of the modules, plus the assumption named with it.

### The library

`TfsOperationsProofs`, from the assumptions of `TfsState` and `TfsOperations`
(positive sizes, a `size_t` of more than two blocks, `Stored` a function on
`Names`, the flags among the three known ones):

* `TypeCorrect`: `Spec => []TypeOK`
* `CountCovers`: `Spec => []OpenCountCovers`
* `DestroySafe`: `Spec => DestroyOnlyWhenNoneOpen`
* `HandleSafe`: `Spec => HandleKeepsFile`

The inductive invariant is `Inv == TypeOK /\ CallsOK /\ OpenCountCovers`.
`TypeOK` bounds sizes but not offsets, so that it is inductive also for callers
that truncate open files. `OpenCountCovers` alone is not inductive: it needs
that the entry an open is about to take is still free, and the one a close is
about to free still taken, or the count and the table would part. `CallsOK`
says so: whoever is in `add` or `remove` holds the global lock, the entry is as
it was chosen, and an open carries a name. It also gives `HandleSafe`. Each
action has a lemma that keeps `Inv`; facts on the cardinality of the taken
entries (one more, one less, none) are lemmas of their own over the library's
`FiniteSetTheorems`. `DestroySafe` follows because a count of 0 that covers a
finite set leaves it empty.

`TfsTablesProofs` builds on that invariant:

* `BlocksSafe`: `Spec => []BlocksOwned`
* `DirectorySafe`: `Spec => []DirectoryConsistent`, if every name is stored as
  it is (otherwise two entries may have one name, see Runs)
* `OffsetsSafe`: `Spec => []OffsetWithinSize`, if moreover no file is truncated
  while it is open elsewhere (`~SharedTrunc`; see `shared_trunc`)

`LinksInv` adds to `Inv` that whatever leads to an i-node (a directory entry, an
open entry, an open about to claim one) leads to one that is taken and is not
the root directory's. `BlocksOwned` needs that: a write through an entry whose
i-node is free would take a block that no file owns, and a truncation would
free another file's. `OffsetInv` adds three more things about opens under way:
the offset about to be set is inside the file, the file was found under the
name, and an open that will truncate is the only one of its name, with no
handle of the file open. The last is kept because two names never lead to one
i-node, so it rests on `DirectoryConsistent`.

`TfsFilesProofs` proves the refinement, under the same two conditions:

* `LibraryImplementsFiles`: `Spec => ImplementsTfsFiles`

Each action has a lemma that says which step of `TfsFiles` it is, or that it is
none. An open is three steps in both: the count (`OpenCheck` is `Admit`), the
file (`OpenExisting` is `OpenOld`, `OpenCreate` is `OpenNew`), and the handle
(`AddEntry` is `HandOut`); an open that fails on the way is `OpenNone`. A close
counts at `RemoveEntry`. `Read` and `Write` are one step each, and `tfs_init`
is a restart. What makes the lemmas true is the invariants above:
`OffsetWithinSize`, because both `TfsFiles` and the code read from an offset,
but only the code could have one past the end; `BlocksOwned`, because a write
changes the one block of its file, and no other file's bytes may be in it; and
`DirectoryConsistent`, because the mapping takes the file of a name to be the
one that the directory leads to. Without the conditions the refinement is false:
`shared_trunc` shows a file whose handle is past its end.

### The earlier library

`FineOperationsProofs`, from the assumptions of `FineState` and
`FineOperations`:

* `LocksSafe`: `Spec => []LocksReturned`, if no write has length 0
  (`0 \notin Lens`), since that one returns with both its locks
* `HandleSafe`: `Spec => HandleKeepsFile`
* `CountCovers`: `Spec => []OpenCountCovers`, if no handle is closed by two
  threads at once (`~SharedClose`), since then each takes one from the count
* `DestroySafe`: `Spec => DestroyOnlyWhenNoneOpen`, under the same condition

One invariant for all of them would be slow to prove: a step of a write moves
the locks and leaves the directory alone. So each theorem has its own
invariant, over the common `Shape` (`pc` is a function to the known places,
`arg` a function to records), and each action a lemma for each invariant it can
disturb.

* `LocksInv` adds to `LocksReturned` the types of the locks, and that a write
  which waits for the file's lock has something to write: with nothing to write
  it would take the lock and return, since the unlocking is in the loop's body.
* `DirInv`, for `DirectorySafe` below, says that only the holder of `open_file_lock` is in `found`,
  `create` or `link`, that the name it looked up is still free, and that the
  i-node it claimed is taken and has no name. The lookup, the claim and the new
  entry are steps apart, and the theorem is that the lock holds them together.
* `HandleInv` adds that the entry of every call on a handle is taken, and that a
  closing or copying thread is the only one that uses its handle, so that the
  entry a close counts is one that is open.
* `EntryShape` only says that the open file table is one of records. Offsets
  are not typed in these invariants: `tfs_read` computes them in a loop, and
  nothing here depends on it.

`FineBlocksProofs` holds the lemmas about block numbers. `TypesInv` types the
tables and locals (with no bound on sizes: `TypeOK` has one, which `TypesSafe`
proves). `NumbersInv` adds that block 0, the root directory's, is taken; that an
indirect block which is not being labelled holds nothing but labels, so that no
caller's bytes are read as a block number; and `Owned`, which says `BlocksOwned`
of places, a direct block, the indirect block or an `int` of it, where the
property counts members of a set. A write to the blocks cannot make a use: it
goes to a data block, whose cells are read as numbers by nobody, and only
`AllocScan` stores a block number, of a block that was free. That the cells of
data blocks stay apart from those of numbers is proved, not assumed; it needs
the hypotheses that follow.

`FineReadsProofs` is about the directory, the blocks and what `tfs_read`
returns. `Careful` collects what is asked of callers and constants: a write of
whole blocks starts at the start of a block (`~Unaligned`), no handle is closed
by two threads at once (`~SharedClose`), names are stored as they are
(`NamesWhole`), no `int` lies across two blocks (`IntsAligned`) and the loop that
labels an indirect block reaches the end of the block (`LabelsCover`). The last
two hold for the blocks of 1024 bytes, ten direct blocks and four-byte `int`s of
`config.h`, for which the loop goes far past the end; that case is covered too.
`WritesWithin` is a condition on behaviours: no write goes past the last `int`
of an indirect block (the code does not test it, see Runs).

* `DirectorySafe`: `Spec /\ []WritesWithin => []DirectoryConsistent`, if
  `Careful`
* `BlocksSafe`: `Spec /\ []WritesWithin => []BlocksOwned`, if `Careful`
* `ReadsBackSafe`: `Spec /\ []WritesWithin => [](FilesDirect => ReadsBack)`, if
  `Careful` and no truncation stops half-way (`~HalfTrunc`, see
  `fine_half_trunc`). `FilesDirect` says that the files at hand fit in their
  direct blocks. For longer ones it is not true with the code's constants: the
  labelling of one file's indirect block overwrites the `int`s of another's, and
  then the size reaches blocks that are not there.
* `CompleteReadsBack`: `ReadsBack`, in every state where each block that a
  file's size reaches is there. This is about the loop of `tfs_read` alone: its
  rounds, the piece it takes of each block, and the offset and length it keeps.
  It holds for indirect blocks as well.

The directory and the blocks need each other: a copy that reached block 0 would
be one to the directory, and a file that two names lead to would own its blocks
twice. So the three properties share the invariant `FilesInv`, of `SizesInv`
(with `DirInv`), `NumbersInv` and `HeldInv` (a thread in `tfs_write` has its
file's lock).

The loop of `tfs_read` is a recursive function on the blocks. The library's
induction theorems cannot be used, so the proofs take the least natural outside
a set, which exists because `<` is well founded (`LeastOutside`): once to show
that the function exists (`RunExists`), and once for what each round has done
(`ReadingComplete`).

`SizesInv` says why the blocks are there: a file's size reaches only direct
blocks that are set (`Filled`); an open entry's offset is within the size of a
file that the directory leads to (`EntryFits`); a call on a handle holds the
entry's lock for writing and works on the entry's file (`HasEntry`); and a write
is in the block where its offset is (`Cursor`), which needs `~Unaligned`, since
otherwise the code counts a block too few and overruns the last. Truncation is why the
invariant is long: a thread that is about to truncate found the file with no
handle on it and nobody about to get one (`Unopened`), and, if `~HalfTrunc`, has
blocks to free that are there (`Truncates`). That blocks are there for every
size (`Filled`) is claimed only then.

`FineFilesProofs` puts these invariants together, for `Disciplined` callers
(`Careful /\ ~HalfTrunc`):

* `FilesRefined`: `Spec /\ []WritesDirect => ImplementsFineFiles`
* `ChangesLocked`: `Spec /\ []WritesDirect => ChangedUnderLock`
* `TypesSafe`: `Spec /\ []WritesDirect => []TypeOK`

`WritesDirect` says that every write is at a direct block of its file. It is a
condition on behaviours, and one on constants would not do instead: with those
of `config.h` the first write that is given an indirect block labels bytes of
other files, and the first two properties fail (`fine_overflow`). For sizes where the
loop stops at the end of the block, TLC checks the three with indirect
blocks too.

`CareInv` adds to `FilesInv` that a thread in the loop of `tfs_write` has
something left to write (`Lengths`), that it asks only for a direct block that is not there (`Wanted`),
and that a file being created is empty (`Made`). The mapping takes the bytes of
a file from its blocks, so most of the proof is about two operators: what
`ContentOf` an i-node is after a piece was copied to one of its blocks
(`ContentWritten`: the bytes under the piece change, the file grows to its end),
and after something was done to blocks it does not reach (`ContentKept`). The
first needs that the block is used once in the file, the second that it is used
by no other, which is `Owned`. A write is not torn because `FineFiles` lets no
call open, read or begin to write a file in the middle of a write: `NotBusy`
derives from `Held` that an i-node whose lock is free has no such write.
Each action then has a lemma that names its step of `FineFiles`; the scans, the
first halves of calls, allocations and destroys are none. `ChangesLocked`
follows from the same lemmas: the steps of `FineFiles` that change a file are
a piece of a write, whose thread has the lock, and the opens that empty it.
`TypesSafe` adds `BoundsInv`: no size exceeds what the direct blocks hold, nor
does an offset, which is at most the size of an open entry's file. I-nodes and
entries that are free keep old sizes and offsets, so the invariant is about all
of them, and `SizesChanged` and `OffsetsChanged` say that a step changes only
those in use.

### The server

`TfsServerProofs`, from the assumption of `TfsServer` (there is a session, no
more mounts than sessions, i-numbers and handles are naturals, the operations
are among the six known ones):

* `ServerTypes`: `Spec => []TypeOK`; the files, positions and opens of the
  abstract library included
* `RequestsOnce`: `Spec => []RequestInOnePlace`
* `AnswersMatch`: `Spec => []AnswersMatchCalls`
* `SessionsStayApart`: `Spec => []SessionsApart`
* `ShutdownOnce`: `Spec => [](Refused \/ OneShutdown)`; `ShutdownOnceWithSpare`:
  `Spec => []OneShutdown`, if there are more sessions than mounts. Without a
  condition it is false: see Runs
* `ShutdownIsAnswered`: `Spec => []ShutdownAnswered`

All rest on one invariant, `ServerInv` (theorem `ServerInvariant`), because the
properties need each other: that a worker answers the call its client is in
follows from the client having made one call only, which follows from the
answer being the only one. Its parts:

* `FilesInv` types the abstract library and says that the handle of an open
  under way is spare.
* `WorkersInv` ties each worker's place to its session: the lock is held where
  the code holds it, and a worker that waits has no request.
* `OwnersInv` and `CallsInv` say whose a session is: `tx` is the client of the
  buffer, except while its mount is executed; a mounted client's session is its
  own.
* `QueueInv`, `PendingInv`, `StagesInv` and `PipesInv` follow a request through
  its three places: at most one request of a client is in the server's pipe or
  in a session, with no answer in its pipe; a client's pipe holds at most the
  answer and the data of its read. `NoneLost` is the converse: a client that
  waits has its request or answer somewhere.
* `MountsInv` counts: sessions given and mounts asked for are at most the
  mounts made, from which `ShutdownOnceWithSpare` follows.
* `HandlesInv` says that the handles of clients are open and disjoint, those
  counted in whose answer is still in the pipe (`Owns`).
* `LockInv` says that, until a mount is refused, a worker between the test of
  `shutting_down` and its effect holds `shutting_down_lock`, and that the
  receptor's unlocking of a lock it does not hold meets no worker there.

The model has some thirty actions, but few ways to disturb a request: a step is
`Quiet`, or sends, takes, answers, reads or refuses a request, or kills a client
(`StepKinds`). Each kind has one lemma that keeps the parts about requests,
whatever action it came from; types, workers, files and the lock have lemmas of
their own.

### Only model-checked

In the earlier library, for files with indirect blocks: the bound on sizes in
`TypeOK`, `ReadsBack`, the refinement of `FineFiles` and `ChangedUnderLock`. They are
true only where the labelling of an indirect block stays inside it, which with
the constants of `config.h` it does not. Nothing is proved of the earlier
library when bytes are written past the last `int` of an indirect block, or
names are cut, except the theorems of `FineOperationsProofs`, which hold then
too. And liveness, which the prover cannot treat.

## Not modelled

`tfs_destroy` of `parte-2`, after which no call may be made; failing or short
reads and writes on pipes, malformed requests, failing `malloc`; clients that
crash; two clients with one pipe name; the layout of messages; delays; what the
host file system does with a copy.

## Plan

1. Done: both libraries, their abstract specifications and refinements, the
   first theorems; the server over the abstract library.
2. Next: callers that use closed handles; clients that crash.
3. Proofs: the refinement of `FineFiles` with indirect blocks, for sizes where
   their labelling stops at the end of the block.
