# deSTAbilizer: TLA+ specifications and proofs

deSTAbilizer is a command line tool for the firmware and configuration files
of a family of VoIP routers: it edits NVRAM variables in a saved configuration
(`--cfg`), checks one (`--ckconf`) and splits a firmware image into its modules
(`--dump`).  Beside its own source (`src/src`) the repository carries the
squashfs 3.4 tools patched for the router's file system
(`src/ext/squashfs3.4_payton`), of which `mksquashfs` and `unsquashfs` are
multi-threaded programs.

This directory holds the TLA+ modules for the parts listed below, TLC
configurations that check them on small instances, and TLAPS proofs of the
main results for all instances.  Paths are relative to the directory above.

## Inventory

| Part | State | Operations | What makes it correct |
|---|---|---|---|
| NVRAM editor (`config_codec.c`: `_nvram_set`) | the section's bytes, its length field, its CRC | set a key: found equal, in place, moved to the end, appended, full | a set key is read back; no other key changes; every entry stays inside the buffer and under the CRC |
| Configuration codec (`checkfile`, `fixfile`, `encode`, `decode`, `verify_crc`) | the 32 KB buffer; header CRC, file CRC, NVRAM CRC | check, decode, encode, fix | decode undoes encode; a fixed file passes the check |
| Configuration tool (`ops.c`: `opCfg`, `opCkConf`) | files on disk, the process's buffer | read, check, decode, set, encode, fix, write | what an edit writes is accepted; a rejected file changes nothing; the same content gives the same bytes |
| Firmware reader (`desta.c`) | position in the image, two descriptors, output files | header check, module loop, digest, dump | every module verified; each module's bytes end in its own files |
| Argument parser (`arg_parser.c`, `opts.c`, `main.c`) | global options, mode bits | parse a word and its operands, defaults, dispatch | the options in force are those given; an invalid line does nothing |
| mksquashfs queues (`queue_*`) | ring buffers with mutex and two conditions | put, get | bounded FIFO, no lost wakeup |
| mksquashfs caches (`cache_*`) | free list, hash chains, reference counts | lookup, get, rehash, put | a block in use is never reused; no stale hit |
| mksquashfs write pipeline (reader, deflators, fragment deflators, writer, main) | queues, sequence numbers, `bytes`, fragment table, pending fragments | read, compress, reorder, write, lock and unlock fragments | blocks are written in order; no two writes overlap; the run ends |
| mksquashfs duplicates (`duplicate`, `pre_duplicate*`, `write_file_*_dup`) | checksums, block lists | compare with earlier files, roll back | two files share blocks only when equal |
| mksquashfs append and recovery (`main`, `restorefs`, `sighandler`, `write_recovery_data`, `read_recovery_data`) | super block, saved tables, recovery file, `interrupted`, the descriptor's offset | save, zero the magic, append, interrupt, restore, fail, die, recover | an append leaves the old or the new file system, or a recovery file that brings the old one back |
| mksquashfs source scan (`dir_scan1`, `scan1_*_readdir`, `lookup_inode`, excludes) | `dir_info` and `dir_ent` of each directory, `inode_info`, exclude trees | scan, name, exclude, number | what is stored is what the command line names, each file once |
| mksquashfs file reader (`reader_scan`, `reader_read_file`) | place in the files, size read for | read, stat again, start again, give up | main takes for a file the blocks of that file, of one reading |
| mksquashfs inodes, directories, tables (`dir_scan2`, `create_inode`, `add_dir`, `write_dir`, `generic_write_table`, uids) | inode and directory caches and tables, lookup table | add, store, index | tables lead to what was added, by address, name and number |
| read_fs (`read_fs.c`) | tables read back for append | read | an append, and a restore, start from what was written |
| unsquashfs (`unsquashfs.c`) | caches, queues, writer, created inodes, the disk | create, link, get, read, inflate, write, put | files are whole or gone; a buffer is used again only when filled and put back; it ends |
| sort lists (`sort.c`) | priorities | read lines, sort, write | reader and main agree on the order |
| Vendored kernel and LZMA patches, scripts, man pages | - | - | not part of the programs above |

How they interact: `main` fills the globals of `opts.c` through
`arg_parser.c` and calls one operation after another.  `opCfg` reads a file
whole, passes the buffer through the codec and the NVRAM editor and writes it
whole; the only state between runs is the files.  Inside mksquashfs the reader
thread passes blocks by queue to the deflators, these to the main thread, which
restores the order and hands blocks to the writer thread; fragments go through
deflators of their own and share the output position `bytes` with the main
thread under `fragment_mutex`; caches bound the memory and so join all threads.

What is hard here.  In the tool: sizes computed from mixed bases over several
edits, a buffer that its own check changes, three CRCs of which one covers
another, options that combine over runs, `errno` as the exit status.  In
mksquashfs: bounded queues and caches that can wait on each other, results that
arrive out of order, a flag read under a lock and used after it, positions that
move while a lock is meant to hold them, files that change while they are read,
two threads that must agree on an order without speaking of it, state saved in
eleven places and put back by a signal handler, tables written over by what is
appended.

## Modules

| Module | Models | Composes with |
|---|---|---|
| `NvramLayout` | `_nvram_set` as operators on the section's bytes | used by `NvramSession` |
| `NvramSession`, `MCNvramSession` | a history of edits of one section | implements `NvramStore` |
| `NvramStore` | the abstract specification of the editor: a map | |
| `CfgTool`, `MCCfgTool` | `opCfg` and `opCkConf`, step by step, over files | takes `_nvram_set` as a function `SetNvram` |
| `CfgToolProofs` | theorems about `CfgTool` | |
| `Firmware`, `MCFirmware` | `opDump`, `prepare_output_dir`, `check_firmware` | |
| `FirmwareProofs` | theorems about `Firmware` | |
| `Queue`, `MCQueue` | `queue_put`, `queue_get` with mutex and conditions | implements `Fifo` |
| `Fifo` | the abstract specification of a queue | |
| `QueueProofs` | theorems about `Queue` | |
| `Fragments`, `MCFragments` | the output position and who moves it: main thread, fragment deflators, writer | queues as `Fifo`'s sequences |
| `FragmentsProofs` | theorems about `Fragments` | |
| `Pipeline`, `MCPipeline` | who waits for whom: reader, deflators, main thread, fragment deflators, writer, three caches | queues as sequences, caches as counters |
| `PipelineProofs` | theorems about `Pipeline` | |
| `BufferCache` | `cache_lookup`, `cache_get`, `cache_rehash`, `cache_block_put` as operators | used by `DuplicateSearch` |
| `DuplicateSearch`, `MCDuplicateSearch` | what `duplicate` and `get_fragment` find in two caches and on the destination, beside deflators and writer | `BufferCache`; position and lock as in `Fragments` |
| `DuplicateSearchProofs` | theorems about `DuplicateSearch` | |
| `SparseFile` | `write_block` and the end of a file with holes, as operators on a file | used by `Unsquash` |
| `Excludes` | both kinds of excludes, as operators on sets of paths | used by `SourceScan` |
| `Metadata` | inode and directory tables, as operators on rows of cells | used by `ReadBack`, `SourceScan` |
| `ReadBack` | what unsquashfs and `read_fs.c` read from the tables | used by `MakeTree` |
| `SourceScan` | the first pass over the sources, sort files, the order of reading | used by `MakeTree` |
| `MakeTree`, `MCMakeTree` | runs of mksquashfs from the source scan to the tables: reader, main, changing files, append and restore | `SourceScan`, `Metadata`, `ReadBack`; the threads between reader and main as one queue in order |
| `Append`, `MCAppend` | the destination, recovery file, signals, errors and crashes of an append | implements `AtomicFs`; tables as units |
| `AppendProofs` | theorems about `Append` | |
| `AtomicFs` | the abstract specification of an append: one file system after another | |
| `Unsquash`, `MCUnsquash` | the main thread, reader, deflators and writer of unsquashfs around its two caches | `SparseFile`; queues as sequences |
| `UnsquashProofs` | theorems about `Unsquash` | |

Every action is one critical section of the code, or one step between two
calls that block.  Definitions keep the names of the code where they can
(`fragments_outstanding` is `outstanding`, `frag_locked_list` is `pending`).  Definitions next to a modelled one that change it slightly
(`AssignInPlace` beside `Assign`) are the faults of that spot which the
properties are known to catch; nothing else uses them.

### NVRAM editor

`NvramLayout` has the section from `NVRAM_KEYSTORE_OFF` on as a sequence of
characters without its trailing NULs (`mem`) and the length field (`len`).
`FindKey` is the loop of lines 89 to 102, with `strncmp` over the length of the
key; `MoveToEnd` the memmove of lines 104 to 114, with the three sizes as the
code computes them; `InsertOnEnd` the label `insertonend`, with the search for
the empty string, the room check, and the null copy of the branch that says it
copies the old value back (the outcome `crash`).  `NvramSession` repeats
`nvram_set`, each time on what the last edit left.  Its CRC is the region it
covers, so that two regions have one CRC only when they are equal.

`Nvram.cfg` checks histories of up to five edits of four keys in a buffer with
room for any three of their entries and not for all four: every path but the
move is taken, the full buffer included.  No key is a prefix of another and all
values have one length.  Then the section implements a map (`RefinesStore`), the
entries stay inside the buffer and under the CRC (parts of `Consistent`), and no
edit is refused.
`NvramResize.cfg` takes the conditions away: with values of several lengths an
edit in the real 32 KB buffer can leave its own key where no reader finds it
(`SetThenGet`), because the tail moves by the length of the wrong entry.

### Configuration tool

`CfgTool` runs the tool any number of times in any way over a set of files.  An
image is what the checks tell apart: version, header, header CRC, file CRC, and
a body with its content, NVRAM CRC and the number of times it is encoded, modulo
four, as `encode` rotates by two and complements.  The CRC functions and the
effect of an edit are arbitrary functions.  `CheckFile` leaves in the buffer
what `checkfile` does (`Checked`: the file CRC in the place of the header's),
`FixFile` is `fixfile`, and `WriteFile` may stop half way (`Torn`), over the
input too.  `tmp[3]` in `checkfile` is never assigned: the check passes when it
is 0, and the process dies otherwise.

`CfgTool.cfg` checks two files, one header, two contents, two edits and CRCs of
three values, so that they collide; the runs are unbounded.

### Firmware reader

`Firmware` reads the image as a stream of units (table entries, headers, blocks)
and writes them to files by descriptor number: `Free` gives the lowest one, as
`creat` does, so that the reuse of 4 and 5, on which `currentDumpFd` and its
static variable depend, is there.  `createDumpFd` is called with the pointer of
the round before, or with one that is not set (`Junk`).  The digest is right or
wrong; one that is right may have a 0 at byte 12, where the loop over blocks
stops.  A write may be lost, since its result is ignored.

`Firmware.cfg` runs all pairs of six kinds of modules, and images of one and
three.  One fails in `check_fmhdr`, as 392 bytes are read as for two modules.
`DumpKept` says that no byte that was written is written over, where no two
headers have one name: a dump that reports success can still lack a module, as the
file gets the name of the module before.

### Queues

`Queue` is the ring with `readp` and `writep`, the two conditions with their
wait sets, and `pthread_cond_signal`, which wakes at most one thread; a thread
may also wake by itself, and one that is woken competes for the mutex with those
that come first.  `Queue.cfg`: three putters, two getters, two slots, two items
from each putter.  Two kinds of threads on both sides of a queue that is smaller
than each side is where a lost wakeup would show.

### Output position and fragments

`Fragments` has `bytes`, `fragments_locked`, `fragments_outstanding`,
`frag_locked_list`, `fragment_table` and the destination.  Blocks and fragments
are one unit long: what matters is who gets which place, and in which order the
places are written.  The main thread's steps follow `write_file`: `NextFile`
reads a file (`SmallFile`, `BlocksFile` with `lock_fragments` and `thresh`),
`WriteBlock` one block, then `Unique`, `Duplicate` with its roll back, flush and
`ftruncate`, or `ReadError` and, when the file changed size, `Again`.
`unlock_fragments` releases the mutex for each put, and so is three actions.
A fragment deflator's `Place` is its first critical section and `AddPending` or
`PutPlaced` what it does after it.  `LastFragment`, `Drain`, `Flushed` and `Exit`
are the end of `main`.

`Fragments.cfg`: two fragment deflators, three reads of files (the repeated ones
included) of two blocks or none, each with or without a tail, two write buffers,
so that a possible duplicate is held as a whole or in part, on a file and on a
block device.  Two deflators are enough for two fragments to race for a place
while a third waits; three reads for a roll back between two files.  `Placement`
is what all this is for: no two units in one place, and a file's blocks in a row.
`EndsUnlessLate` names the one way in which main waits for ever at its end.

### Pipeline

`Pipeline` numbers what the reader reads, lets the deflators finish in any order
and has `get_file_buffer` restore it with `block_hash`.  A buffer is in exactly
one place (`BuffersAccounted`, part of `Consistent`), which is what makes it come back.  `Pipeline.cfg`
has three sources (tails before, between and after files with blocks, and
possible duplicates), two deflators of each kind and four write buffers.

Mksquashfs can hang here in two ways besides the one at its end.  A
deflator takes a block before it has a write buffer (`mksquashfs.c:2094`); others
can use up the buffers for later blocks, which the main thread keeps in
`block_hash` until the block comes that never gets a buffer.  Or all write buffers
are with early blocks and pending fragments, and the main thread waits for a
fragment buffer, all of which are with fragment deflators that wait for a write
buffer.  Both are `Hoarded`, and `EndsUnlessHoarded` says that there is no other.

### Buffer cache and duplicate search

`BufferCache` has a cache's buffers with their use counts, the free list, oldest
first, and one hash chain, newest first: buffers of equal index are in one chain
of the code's table, and only their order matters.  `DuplicateSearch` uses it for
`writer_buffer` and `fragment_buffer`.  A block's buffer gets its position as
index (`cache_rehash`) before it is written and keeps it after its last use, so
that lookups find it until it is used again; a duplicate leaves such buffers for
positions that the next file gets too.  `LookupBlock` to `PutFragment` are what
`duplicate` and `get_fragment` do to the caches; whether data is equal is a free
choice when the file is read.  A lookup that finds nothing changes nothing, and
reads the destination: `BlockFound` and `FragmentFound` say of every block and
fragment, in every state, that it would find the right data.  When the file is a
duplicate (`Duplicate`) its blocks are put back one by one (`PutHeld`), between the
steps of the other threads, and then the position goes back (`RollBack`).

`Duplicates.cfg`: three files of six kinds, small ones and others of up to two
blocks and a tail, two buffers in each cache, two lookups, one fragment deflator,
both kinds of destination.  With two
buffers every buffer is used again within a few steps, found while it waits for
the writer, while it is written, and when it is free.  `get_fragment` never puts
back the write buffer it reads a fragment with; `StopsOnlyHeldUp` has what comes of it.

### Extraction

`Unsquash` is `dir_scan` over one directory: `Link`, `Special` and `Open` are the
branches of `create_inode`, which takes an inode as created whether or not that
worked; `GetHit`, `GetNew` and `GetSleep` are `cache_get`; `Give` sends the writer
a piece, which it may have long before the reader has read it.  The flags
`wait_free` and `wait_pending` are sets of caches, and who set one sleeps until
it is cleared; only the main thread waits for a free buffer and only the writer
for a pending one.  `Read`, `Inflate` and `Abort` end in `cache_block_ready` or in
`abort`.  The writer's steps are the parts of its loop between two waits.  Files
on the disk have their bytes, so that holes and old contents matter; `SparseFile`
has the two ways of `write_block` to make a hole, and the `int` the hole is added
up in.  A call to the system may fail, at most `MaxFailures` of them: `open`, `link`,
`symlink`, `mknod`, the `unlink` before one of these (`EntryFails`: the old file may
stay or be gone) and that of a file that failed, a read and a write.  `refused` has the
paths that this happened to, `unread` the blocks and `unwritten` the files.

`Unsquash.cfg`: four images, with blocks that two files share, more blocks than
buffers, a fragment with parts of two files, links to a file that is still being
written and to a device, holes in the middle and at the end, and one whose holes do
not fit into the integers of the run (`HalfInt` is 8).  There are two buffers and
one, so that each is found free, in use and pending, and taken for another
block; `to_writer` has room for three, less than a file; up to two calls fail, which is one
failure while another is dealt with.  The directory is new, or every path of a
file has an old and longer one; the file system seeks past the end of files or not.

### From the sources to the tables

`MakeTree` runs mksquashfs several times on one destination.  `ReadOld` is the
command line and `read_filesystem`; `Start` saves the old state (`SavedState`,
with `Begin` for the rest) and is `dir_scan` up to the message to the reader;
`Refuse` is a run that ends before it writes.  Then reader and main are on their
own: `ReaderNext` to `ReaderGone` are `reader_read_file`, one step between two
calls, with the reading again of a file that has another size than the scan saw;
main is `NextSorted` (`sort_files_and_write`), `WriteFile`, which takes one buffer
at a time for the file it is at, and `ScanOld`, `ScanWritten`, `ScanNew` and
`ScanEnd`, the loop of `dir_scan2`, whose recursion is `stack`.  `Finish` writes
the tables; `Interrupted` is the second signal, which has the same code write
`saved`.  A buffer carries which block of which file it is, so that a mistake
about order shows as foreign data.

`Metadata` has the tables in cells: a record of n cells is n pairs, and a reader
that starts anywhere but at a record sees so.  The compressor is a count of
different records: a block can shrink or not, which is all `mangle2` asks, and
addresses of stored blocks differ from positions as they do in the program.
`AddDir` is `add_dir` with its four reasons for a new header, `PlaceDirectory`
the loop of `write_dir` that fills the index in.  `ReadBack` walks from the root
as unsquashfs does, by addresses only; for an append it has what `read_fs.c`
makes of the same tables.  `SourceScan` is the first pass: names and their
numbers, hard links, the two numberings of directories and of other files, the
sort files.  `Excludes` has a tree of patterns as the set of its paths.

Every run of mksquashfs leaves an image, and `TreeRead`, `NumbersAgree`,
`FilesWhole` and `IndexLeads` read it back: all four compare it with `promise`,
the set of paths and nodes that the command lines ask for, which `Promised` states without
the scan's recursion over excludes and directories.  `InStep` says of every state
on the way that main takes what the reader meant.

`MakeTree.cfg` has six histories of one to three commands over sixteen files of every type:
appends to the root and with `-root-becomes`, several sources with one
name or without, hard links inside and across directories, files and directories
that cannot be opened, sort files of both styles, both kinds of excludes, an
empty root.  The limits are small enough to be passed:
`MetadataSize` 8 where most records have two to four cells, so that directories
and inodes cross blocks; `EntryLimit` 4 and `Span` 3 (256 and 32767 in the
code), so that runs end for each reason; names up to `NameLen` 3.  `Uids`,
`Guids` and `CountLimit` are 4, more than the files have: where they are passed the
code wraps (see below).  Files have up to two blocks of two bytes,
`MaxChanges` 2 lets a file change while it is read again.  The model checks for
deadlock and states no fairness: no action repeats for ever, so that every run
ends in `Terminated`.
`TreeBoundary.cfg` has a root directory that ends at the end of a block, and an
append that makes it a directory.

### Append and recovery

`Append` has the destination as a row of units, the super block first, and says of each which append
wrote it.  `main`'s steps are `CreateRecovery` to `Unlink`.  The magic number is
zero from `Zero` on.  `Seek` and `Write` are the two halves of `write_bytes`, and so
are `WriterSeek` and `WriterWrite`: the offset belongs to the descriptor, and
only `pos_mutex` keeps them apart.  `Restore` is `restorefs`, entered by the
second interrupt or by a fatal error: threads stop where they are, the writer
between seek and write too; main goes on without the mutex.  `Crash` may come anywhere, also in a
recovery, and `Recover` may be given any recovery file that still exists, that of an
earlier append too.

The abstract specification is `AtomicFs`: one file system after another, each
readable or not at the moment.  `AtomicFsSpec` maps an append to it, `state` being
the number in the super block and `whole` that all that the super block speaks of is in
its place.  `Recoverable`
adds what the abstract specification leaves open, that what is not readable
can be brought back.  The promise ends (`given_up`) where the code gives none: a
crash or fatal error without a recovery file, and an interrupt that comes late (see
below).  Weak fairness is on main, the writer and a recovery; nobody need interrupt.

`Append.cfg`: tables of two units, which is the least of which half can be
written; two data blocks, so that the old tables are overwritten in part and
as a whole; two appends, so that there is a recovery file of an earlier one.

## Runs

| Run | Expected | What it asks |
|---|---|---|
| `nvram` | pass | do edits implement a map, inside the buffer and under the CRC |
| `nvram_resize` | violation | is a value of another length read back |
| `cfg_tool` | pass | is every edited file accepted and canonical, whatever runs came before |
| `firmware` | pass | does success mean verified and kept; do files and descriptors stay apart |
| `queue` | pass | does the ring implement a FIFO without lost wakeups |
| `fragments` | pass | do places stay apart and is everything placed written |
| `pipeline` | pass | are order and buffers kept, and who can block whom |
| `duplicates` | pass | do lookups find what was written, with the right use counts |
| `unsquash` | pass | is every file whole or gone, whatever fails, and does it end |
| `tree` | pass | does what is read back agree with what the command lines asked for, file changes, appends and restores included |
| `tree_boundary` | violation | does a root that becomes a directory keep its entries |
| `append` | pass | is there always one whole file system, or a way back to it |

`CHECK_DEADLOCK FALSE` stands where the program ends, where a bound stops the
model, or where a hang of the code is what a property is about.

Invariants that only say of shared counts and tables that they agree are named
parts of one `Consistent` in each module.

Fairness.  Each thread of mksquashfs and unsquashfs is weakly fair, as the system schedules all
of them and mutexes are held for a bounded time.  A thread woken from
`pthread_cond_wait` may lose the mutex any number of times to others, but as the
items and slots it waits for are used up the others wait in turn.  The file tool
and the reader of firmware are sequential and have no liveness property.  In
`DuplicateSearch` no behaviour is infinite, so that `StopsOnlyHeldUp`, an
invariant, says what a liveness property would.

## Proofs

`CfgToolProofs`, for all files, contents, CRC functions and edit functions that
satisfy the three assumptions of `CfgTool`: `TypeCorrect`, `EditedFilesAccepted`,
`EditedFilesEqual`, `CheckedRunsWrite`, `EditIsApplied`.  `EditedAccepted` is not
inductive: nothing in it speaks of the buffer of a run under way.  The inductive
invariant adds `SourceOk` (after the check the input still is an accepted file),
`InBuffer` (after each step the buffer is that step's function of the input),
`Progress` (the step implies the options of the command) and `EditedCanonical`
(a file made by an edit is `Canonical`: header and content determine it).
Acceptance and equality then follow from `Canonical` alone.

`QueueProofs`, for every capacity and all finite sets of threads: `TypeCorrect`,
`WakeupsKept` (`NoLostWakeup` is inductive together with the type invariant; the
step turns on `SignalFacts`, that a signal takes one thread out of a wait set
that is not empty, and `CountStep`, how the number of items changes) and
`RingImplementsFifo` (a put appends and a get takes the head, `PutAppends` and
`GetTakesHead`, of the sequence that the ring holds across its wrap).

The proof modules for the other components have the same plan: the types, the
named parts of the inductive invariant with what each is for, lemmas about the
operators, for each part a lemma that every step keeps it, and the theorems last.
TLC checked each inductive invariant on the component's run before it was proved.

`AppendProofs`, for tables and data of every size and any number of appends:
`InductiveInvariant`, `AlwaysRecoverable`, `RecoveryWorks` and `AppendIsAtomic`, the
refinement of `AtomicFs`.  `Recoverable` says nothing of an append under way.  The
invariant says for each stage of main what is on the destination: before the magic
number goes everything is as it was (`WhenEarly`); then there is a whole recovery
file if one is kept (`Saved`), the super block is the old one but for the magic
(`WhenLate`), the blocks sent and no longer queued are in their places
(`WhenAppending`), and the tables are written up to what is left (`WhenWriting`), in
an append, a restore and a recovery alike.  All of it holds until the promise is
given up, and `given_up` never goes back.  For the refinement only one step may
change the number in the super block: the last `Write` of an append that is not restoring, from a
state that cannot be read to one that can (`Committing`).  Every other step
damages, repairs, gives up or is a stutter of `AtomicFs`.

`FragmentsProofs`, for every finite set of fragment deflators, all sizes and any
number of reads: `FragmentsConsistent`, `NoPlaceTwice` and `NothingLost`.  A
roll back takes the position back, so that `Placement` needs to know what lies
behind it: `Apart` keeps all that has its place for good before the start of the
file in hand (`Base`), since nothing takes a place between `lock_fragments` and the
end of the file (`Blocks`).  `OnWay` follows each unit through the writer's
queue: it is the last of the queue for its place, or is on the disk and the
queue has nothing for its place, or a thread is about to put it.

`PipelineProofs`, for every source, any number of threads and buffers:
`OrderAlwaysKept` and `AlwaysConsistent`.  `Once` has each number that was given out
and not used in one place; the three `...Counted` count each cache's buffers by who has
them, among them the numbers in `block_hash`; `Room` has what main holds of a possible
duplicate as a function of the block it is at and of `thresh`, which is why the rest of
the file still fits.  That an item is followed by the next of its
file is an induction over the files of the source, by least counterexample.

`FirmwareProofs`, for images of any modules: `SuccessVerified`, `AlwaysConsistent`
and `AlwaysDumpKept`.  The checks of the header let no image pass but those of two
modules (`ReadHeader` says why), so that the stream is three known parts.
`Progress` has what of it was read at each step; `Descriptors` has numbers 4 and 5
in every round; `InFiles` and `Kept1` have what the round's and the last
round's files hold.

`UnsquashProofs`, for every image, number of deflators and buffers, size of the
queue and choice of what fails: `AlwaysConsistent`, `AlwaysExitSettled` and
`AlwaysCompleteFiles`.  The first part of the invariant is about order: `InOrder`
reads the writer's queue as each file followed by its pieces, by a stage for each
place of the queue, from what the writer still takes to what main still sends.
`Counts` and `Pending` count the use of a buffer and who fills it, which makes
the buffer of a piece keep the piece's block (`Owned`) until the writer puts it
back.  `Firsts` and `Settled` have every path that was taken on its way or settled
by what happened to it or to the first path of its inode; `Blamed` has a reason for every failure.
`CompleteFiles` needs a second invariant on top (`FilesKept`): a buffer that
is neither pending nor failed has its block's data (`Filled`), only holes have no
buffer (`Matched`), files are sent once and in order (`Rising`), and no file changes after its
attributes (`Kept`).  Its core is `Written`: what is on the disk and the hole
that is owed are together the data of the pieces done.  Holes and data up to a
piece are recursive functions of the number of pieces; `Unroll` shows that such a
function exists, by induction (`NatInd`), and `DataWhole` that it is the flattening the property
speaks of.

`DuplicateSearchProofs`, for any number of buffers, deflators, files and lookups:
`AlwaysConsistent`, `AlwaysBlockFound` and `AlwaysFragmentFound`. A step of a cache
moves a buffer in the free list and in the hash, and `Consistent` relates both to the
use counts, these to seven places that a buffer can be in. `Counts` has the use counts
as sums over those places; the lemmas `WriterMoves` and `FragMoves` say what one use
more, less or elsewhere does to them. `CacheTypes` has the lists, and lemmas for
`Get`, `Put`, `Rehash` and `Lookup` say that these keep `CacheOK` when their buffer is
one that `NextFree` gives, is in use, or was found. That a buffer which is put back is
in use follows from the counts, as `HandTypes`, `MainTypes` and `HeldBlocks` say who
can have one at each step of main. `Numbered` has the number of each fragment under
way as its buffer's index, so that an entry of `fragment_table` is of a fragment that
exists.

What a lookup finds needs a second invariant on top of it (`PlacesInvariant`), as a
position can have several buffers: that of a file rolled back stays in the cache, and
its data on the destination, when the next file takes the same place.  `Wanted` is
what a lookup may ask for, each with its place (`Apart`: no two at one place).
`Good` says of each that the newest buffer of its index in the hash has its data, and
that one of four things is so: the last message to the writer for the place has that
buffer (`Sent`), main holds it (`Kept`), a deflator is about to send it (`Placed`), or
the data is on the destination, nothing for the place is on its way, and every older
buffer of the index is free and comes before the newest in the free list (`Written`).
The order in the free list is what makes this inductive: without it the newest buffer
could be reused first, and the next lookup would find an older one.  `Places` ties
the lock, `bytes` and the start of the file in hand to main's plan, so that what is
rolled back was taken by nobody else; `Holds` and `Labels` give each buffer sent or
held the index of its place.

`FragInv` does the same for fragments: each closed one is in exactly one of main's
queue, a deflator's hand, the list put off and `fragment_table`, has one buffer at
most in each cache, and its data there unless it was read before it was written
(`spoiled`).  While a fragment waits for its deflator or is compressed, its own
buffer is in use and is what a lookup finds, so nobody reads a write buffer that is
not filled yet.  `Reads` says that main reads no fragment which a buffer of the
fragment cache has: only main gives those their numbers, so what `get_fragment` did
not find is still not there when it gets a buffer for it.

The proofs use the assumptions that the modules state about their constants and no
others.  Those of `Pipeline`, `Fragments`, `DuplicateSearch` and `Unsquash` say that
there are finitely many threads and buffers, which are arrays in the code.

Only model-checked:

- all liveness (`AllDelivered`, `EndsUnlessLate`, `EndsUnlessHoarded`,
  `EndsUnlessFatal`, `Ends`), which needs fairness, and `StopsOnlyHeldUp` of
  `DuplicateSearch`, which needs `ENABLED`: both are out of the provers' reach;
- `MakeTree`, whose scan, tables and reading back are recursive operators: the
  provers can show nothing of those;
- `NvramSession`, whose search through the section is a recursive function over
  addresses without a bound, and whose properties hold on conditions only (keys of which
  none is a prefix of another, values of one length).

## What was seen on the way

Two disagreements between the code and what is said of it have a run above
(`nvram_resize`, `tree_boundary`).  These have none; most are in the models, and
they are why some properties have conditions.

In the tool:

- `strncmp(ptr, key, strlen(key))` (`config_codec.c:95`) takes a stored key of
  which the given one is a prefix.  `Nvram.cfg` has no such keys.
- An edit that does not fit copies through null pointers
  (`config_codec.c:141`): `crash` in `NvramLayout`.
- A new key that comes when the section is full to its last byte is dropped, and the edit
  counts as done (`config_codec.c:129`, `146`): `dropped` in `NvramLayout`.
  The buffer of `Nvram.cfg` cannot be filled so.
- `checkfile` leaves the file CRC in the header CRC's place
  (`config_codec.c:197`), so that a dump without an edit is rejected by
  `--ckconf`; a file written with `--no-encode` is too, since nothing is fixed
  (`ops.c:75`).  `made` tells such files from edited ones.
- A new output directory is not entered, since `errno` is `opendir`'s
  (`util.c:138`): `PrepareOutputDir`.
- The table of magics is indexed with the wrong factor (`desta.c:129`): the
  magic of every type above 1 is rejected.
- The dump of a module is named after the header of the module before
  (`desta.c:243`), so that two modules can get one file: `DumpKept`.
- A failed check exits with `errno`, which is 0 or left over (`main.c:17`).

In mksquashfs, from reading to writing:

- A fragment that joins the pending ones after the last unlock is waited for
  for ever (`mksquashfs.c:2139`): `EndsUnlessLate`.
- `get_fragment` never puts back the write buffer it reads with
  (`mksquashfs.c:1432`): part of `HeldUp`.
- A fragment counts as done before the writer has it (`mksquashfs.c:2136`): main
  can flush and exit first.  `Settled` calls it on its way.
- Fragments put off hold their write buffers until the end of a file that
  needs one (`mksquashfs.c:2123`): part of `Hoarded` and `HeldUp`.
- A fragment that is put off has no entry in the table yet, but `get_fragment`
  reads it once the fragment's own buffer was used again (`mksquashfs.c:1437`):
  `spoiled`.
- Blocks that came too early can have all write buffers (`mksquashfs.c:2094`):
  `Hoarded`.
- An append that saves a root directory whose last block is full saves nothing of
  it: the count of what exceeds the blocks is 0 (`mksquashfs.c:4020`).
  `tree_boundary`.
- An empty root has no directory table: `squashfs_opendir` does not find its
  block, and an append to it is refused (`read_fs.c:593`).  `TreeRead` leaves it out.
- 256 uids are written as 0 in a field of 8 bits (`mksquashfs.c:4154`).
- A source `/`, or one that ends above its start, has no name and is skipped
  (`mksquashfs.c:2643`); a single source directory that cannot be opened leaves the
  root inode unset (`mksquashfs.c:2869`).
- `-wildcards` patterns are matched with the name after it was changed
  (`mksquashfs.c:2948`).

In appends and recovery:

- After a fatal error main has the writer parked and waits for it for ever
  (`mksquashfs.c:4139`): `EndsUnlessFatal`.
- A second interrupt that comes after the reader has ended neither restores nor
  ends: main goes on, but no longer waits for the writer and no longer takes
  `pos_mutex` (`mksquashfs.c:4130`).  One that comes after the super block was filled
  restores the tables but keeps the new root (`mksquashfs.c:4110`).  Both are
  `given_up`.
- A recovery writes the super block before the tables (`mksquashfs.c:3553`); as
  its file stays, it can be done again (`RecoverWorks`).  Nothing is synced, so that
  after a loss of power the order of the writes, which `Append` keeps, is not sure.
- A big-endian image on a little-endian machine is compared with the recovery
  file in the other order (`mksquashfs.c:3529`); `Append` has one order.

In unsquashfs:

- Holes of 2 GiB and more overflow an `int` (`unsquashfs.c:2295`): the blocks
  after one are written to the wrong place.  `CompleteFiles` leaves such files out.
- A file whose writing fails is unlinked, but a link made to it before stays, to a
  part of its data (`unsquashfs.c:2335`); an inode that could not be created counts
  as created, and with `-force` its other paths are linked to what was there before
  (`unsquashfs.c:1325`).  `ExitSettled` asks such links nothing.
- A link that fails is reported and passed over (`unsquashfs.c:1245`): `dir_scan` does
  not look at what `create_inode` returns, and unsquashfs exits as if all was well
  (`unsquashfs.c:2099`).  The same goes for a failed file that the writer cannot unlink
  (`unsquashfs.c:2339`), of which a part stays.  `ExitSettled` excuses these paths,
  and links to a file of which a part stays.
- A block that cannot be decompressed ends unsquashfs with `abort`
  (`unsquashfs.c:2362`), where the comment after it has it marked as an error.
- A read that ends early counts as a whole block (`unsquashfs.c:664`).

## Assumptions of the models

- The NVRAM CRC of an encoded body never matches (`NvramOk`).
- All files have the same size (`opCfg` works on the whole 32 KB file); a file
  that is shorter than its header says is rejected, or the CRC reads past it.
- Memory behind what was read is NUL.
- Caches are not larger than the queues behind them, so that no put of a buffer
  waits; `Queue` has the waiting.
- In `Pipeline` a possible duplicate has no tail, as without
  `-always-use-fragments`, and no read fails (`Fragments` has failures).
- In `DuplicateSearch` a tail fills a fragment, and the main thread takes a
  block's buffer when it comes to the block.
- Blocks of zeros, which have no place, are not modelled in mksquashfs.
- In `MakeTree` every file has one device and inode, a pattern is the set of the
  names it matches, source directories do not change, and blocks on their way to
  main keep their order (`Pipeline`, `Queue`); the queue has room for
  `ReaderBuffers` buffers, which the reader asks for before it reads.
- In `Append` a write is done whole or not at all, in the order of the calls, and
  the writer's queue has room for the blocks of an append.
- In `Unsquash` a read that does not fail reads a whole block, every old file has
  one name, only regular files have data, and setting attributes does not fail.
- `malloc` succeeds.

## Not modelled

- The argument parser (`arg_parser.c`, `opts.c`): a table of words and
  operands without state between calls; its result, the combination of options, is an
  input of `CfgTool` and `Firmware`.
- The configuration codec on bytes: `CfgTool` has what `encode`, `decode` and the
  CRCs do to an image, not how.
- The glue to the compressors: whether a block shrinks is a choice or a count.
- Byte orders, and file systems of version 1 and 2 in unsquashfs: the tables
  are those of version 3 in the machine's order.
- The statistics, the progress bar, scripts, man pages and kernel patches: no
  state that another part reads.

`PROJECT.json` has the list by component.

## Plan

Of the invariants only those of `MakeTree` and `NvramSession` have no proof.  `MakeTree`
is built from recursive operators and stays with TLC; `NvramSession` is next, with its
conditions as hypotheses, once its search is stated without recursion.
