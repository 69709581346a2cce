------------------------------- MODULE Fragments -------------------------------
(***************************************************************************)
(* Where mksquashfs writes: the output position `bytes`, which the main    *)
(* thread moves for the blocks of files and the fragment deflators for     *)
(* fragments, lock_fragments and unlock_fragments which give it to the     *)
(* main thread for a file, the roll back of a file that turns out to be a  *)
(* duplicate or unreadable, and the writer thread.  Every block and        *)
(* fragment is one unit long.  The buffers that the queues carry come from *)
(* caches no larger than the queues, so that a put never waits; Pipeline   *)
(* has the waiting for buffers.  A stretch under fragment_mutex is one     *)
(* action.                                                                 *)
(***************************************************************************)
EXTENDS Integers, Sequences, FiniteSets, SequencesExt

CONSTANTS FragDeflators,   \* the fragment deflator threads
          Sizes,           \* how many blocks a file may have
          MaxReads,        \* bound: reads of files, the repeated ones included
          PerFragment,     \* how many tails fill a fragment
          WriterBuffers,   \* writer_buffer_size
          Destinations     \* the destinations to check: block devices (TRUE) or files

ASSUME FragmentsAssumption ==
  /\ IsFiniteSet(FragDeflators)
  /\ Sizes \cup {MaxReads, PerFragment, WriterBuffers} \subseteq Nat \ {0}
  /\ Destinations \subseteq BOOLEAN

VARIABLES
  block_device,
  pc,          \* the main thread's next step
  after,       \* what follows the unlock
  hand,        \* the fragment that unlock_fragments is about to put, or -1
  file,        \* the file in hand: its number, size, tail, path and first block
  block,       \* its next block
  blockPos,    \* the positions of its blocks (history)
  committed,   \* the blocks of the files that have an inode, with their positions (history)
  fill,        \* tails in the open fragment
  fragments,   \* fragments so far, the open one's number
  fragTable,   \* fragment_table's start_blocks, of those assigned
  bytes,       \* the output position
  locked,      \* fragments_locked
  pending,     \* frag_locked_list
  outstanding, \* fragments_outstanding
  toFrag, toWriter, fromWriter,
  deflator,    \* per fragment deflator: its step and fragment
  disk         \* the destination: position to what was written there
vars == <<block_device, pc, after, hand, file, block, blockPos, committed, fill, fragments, fragTable, bytes,
          locked, pending, outstanding, toFrag, toWriter, fromWriter, deflator, disk>>
fragVars == <<fill, fragments, toFrag>>
sharedVars == <<fragTable, bytes, outstanding>>
mainVars == <<pc, after, hand>>
fileVars == <<file, block, blockPos, committed>>

FragUnit(n) == <<"fragment", n>>
BlockUnit(f, b) == <<"block", f.number, b>>
Flush == <<"flush">>        \* the NULL of queue_put(to_writer, NULL)
Buffer(unit, pos) == <<"buffer", unit, pos>>
Idle == [step |-> "idle", frag |-> -1]
NoFile == [number |-> 0, size |-> 0, tail |-> FALSE, dup |-> FALSE, start |-> 0, thresh |-> 0]

Init ==
  /\ block_device \in Destinations
  /\ pc = "next" /\ after = "next" /\ hand = -1 /\ file = NoFile /\ block = 0 /\ blockPos = <<>> /\ committed = {}
  /\ fill = 0 /\ fragments = 0 /\ fragTable = <<>> /\ bytes = 0
  /\ locked = FALSE /\ pending = <<>> /\ outstanding = 0
  /\ toFrag = <<>> /\ toWriter = <<>> /\ fromWriter = FALSE
  /\ deflator = [d \in FragDeflators |-> Idle]
  /\ disk = <<>>

With(f, x, y) == [z \in DOMAIN f \cup {x} |-> IF z = x THEN y ELSE f[z]]

-----------------------------------------------------------------------------
(* Fragments.                                                              *)

\* write_fragment: the open fragment goes to the deflators.
WriteFragmentUncounted ==
  /\ outstanding' = outstanding
  /\ toFrag' = Append(toFrag, fragments)
  /\ fragments' = fragments + 1
WriteFragment ==
  /\ outstanding' = outstanding + 1
  /\ toFrag' = Append(toFrag, fragments)
  /\ fragments' = fragments + 1

\* get_and_fill_fragment.
FillFragment ==
  IF fill = PerFragment THEN WriteFragment /\ fill' = 1
  ELSE fill' = fill + 1 /\ UNCHANGED <<outstanding, toFrag, fragments>>

\* What frag_deflator and unlock_fragments both do to give a fragment its place.
AssignUncounted(f) == /\ fragTable' = With(fragTable, f, bytes)
                      /\ bytes' = bytes + 1
                      /\ UNCHANGED outstanding
AssignInPlace(f) == /\ fragTable' = With(fragTable, f, bytes)
                    /\ outstanding' = outstanding - 1
                    /\ UNCHANGED bytes
Assign(f) == /\ fragTable' = With(fragTable, f, bytes)
             /\ bytes' = bytes + 1
             /\ outstanding' = outstanding - 1

\* frag_deflator, one action for each stretch between two points where another
\* thread can act.
Compress(d) ==
  /\ deflator[d].step = "idle" /\ toFrag # <<>>
  /\ deflator' = [deflator EXCEPT ![d] = [step |-> "compressed", frag |-> Head(toFrag)]]
  /\ toFrag' = Tail(toFrag)
  /\ UNCHANGED <<mainVars, fileVars, fill, fragments, sharedVars, locked, pending, toWriter, fromWriter, disk>>

MustDeferNever == FALSE
MustDefer == locked

Place(d) ==
  /\ deflator[d].step = "compressed"
  /\ IF MustDefer
     THEN deflator' = [deflator EXCEPT ![d].step = "deferred"] /\ UNCHANGED sharedVars
     ELSE deflator' = [deflator EXCEPT ![d].step = "placed"] /\ Assign(deflator[d].frag)
  /\ UNCHANGED <<mainVars, fileVars, fragVars, locked, pending, toWriter, fromWriter, disk>>

AddPending(d) ==
  /\ deflator[d].step = "deferred"
  /\ pending' = Append(pending, deflator[d].frag)
  /\ deflator' = [deflator EXCEPT ![d] = Idle]
  /\ UNCHANGED <<mainVars, fileVars, fragVars, sharedVars, locked, toWriter, fromWriter, disk>>

PutPlaced(d) ==
  /\ deflator[d].step = "placed"
  /\ toWriter' = Append(toWriter, Buffer(FragUnit(deflator[d].frag), fragTable[deflator[d].frag]))
  /\ deflator' = [deflator EXCEPT ![d] = Idle]
  /\ UNCHANGED <<mainVars, fileVars, fragVars, sharedVars, locked, pending, fromWriter, disk>>

\* writer: write a buffer where it belongs, or answer a flush.
Write ==
  /\ toWriter # <<>>
  /\ toWriter' = Tail(toWriter)
  /\ LET head == Head(toWriter)
     IN  IF head = Flush THEN fromWriter' = TRUE /\ UNCHANGED disk
         ELSE disk' = With(disk, head[3], head[2]) /\ UNCHANGED fromWriter
  /\ UNCHANGED <<mainVars, fileVars, fragVars, sharedVars, locked, pending, deflator>>

-----------------------------------------------------------------------------
(* The main thread, file by file.                                          *)

\* write_file_frag: a file that is all tail.
SmallFile ==
  /\ file' = [NoFile EXCEPT !.number = file.number + 1]
  /\ pc' = "next"
  /\ FillFragment
  /\ UNCHANGED <<after, hand, block, blockPos, committed, fragTable, bytes, locked, pending, toWriter,
                 fromWriter, deflator, disk>>

\* Which blocks a possible duplicate gives to the writer before it is compared.
Thresh(size) == IF size > WriterBuffers - outstanding THEN size - (WriterBuffers - outstanding) ELSE 0

\* The start of write_file_blocks and, for a possible duplicate, of
\* write_file_blocks_dup: lock_fragments, then note the position.
BlocksFile ==
  \E size \in Sizes, tail \in BOOLEAN, dup \in BOOLEAN :
    /\ file' = [number |-> file.number + 1, size |-> size, tail |-> tail, dup |-> dup,
                start |-> bytes, thresh |-> IF dup THEN Thresh(size) ELSE size]
    /\ block' = 0 /\ blockPos' = <<>>
    /\ locked' = TRUE
    /\ pc' = "blocks"
    /\ UNCHANGED <<after, hand, committed, fragVars, sharedVars, pending, toWriter, fromWriter,
                   deflator, disk>>

\* write_file: a file is numbered by the reads so far.
ReadFile == file.number < MaxReads /\ (SmallFile \/ BlocksFile)
NextFile == pc = "next" /\ ReadFile

\* After a failed read: the file is read again with the size it has now, or left
\* empty.
Again == /\ pc = "again"
         /\ \/ ReadFile
            \/ /\ pc' = "next"
               /\ UNCHANGED <<after, hand, fileVars, fragVars, sharedVars, locked, pending, toWriter,
                              fromWriter, deflator, disk>>

\* A block takes the next position.  A possible duplicate holds those from
\* thresh on.
WriteBlock ==
  /\ pc = "blocks" /\ block < file.size
  /\ blockPos' = Append(blockPos, bytes)
  /\ bytes' = bytes + 1
  /\ toWriter' = IF block < file.thresh THEN Append(toWriter, Buffer(BlockUnit(file, block), bytes))
                 ELSE toWriter
  /\ block' = block + 1
  /\ UNCHANGED <<mainVars, file, committed, fragVars, fragTable, outstanding, locked, pending,
                 fromWriter, deflator, disk>>

BlocksDone == pc = "blocks" /\ block = file.size

\* create_inode: the file's blocks are in the file system.
Commit == committed' = committed \cup {<<blockPos[b + 1], BlockUnit(file, b)>> : b \in 0 .. file.size - 1}

\* The end of write_file_blocks: unlock, then the tail goes to a fragment.
EndBlocks ==
  /\ BlocksDone /\ ~file.dup
  /\ Commit
  /\ pc' = "unlock" /\ after' = IF file.tail THEN "fill" ELSE "next"
  /\ UNCHANGED <<hand, file, block, blockPos, fragVars, sharedVars, locked, pending, toWriter,
                 fromWriter, deflator, disk>>

Fill == /\ pc = "fill"
        /\ FillFragment
        /\ pc' = "next"
        /\ UNCHANGED <<after, hand, fileVars, fragTable, bytes, locked, pending, toWriter, fromWriter,
                       deflator, disk>>

\* No duplicate after all: the blocks held go to the writer, and the tail to a
\* fragment while fragments are locked.
FirstHeld == file.thresh

Unique ==
  /\ BlocksDone /\ file.dup
  /\ Commit
  /\ toWriter' = toWriter \o [k \in 1 .. file.size - FirstHeld |->
                     LET b == FirstHeld + k - 1 IN Buffer(BlockUnit(file, b), blockPos[b + 1])]
  /\ IF file.tail THEN FillFragment ELSE UNCHANGED <<fill, outstanding, toFrag, fragments>>
  /\ pc' = "unlock" /\ after' = "next"
  /\ UNCHANGED <<hand, file, block, blockPos, fragTable, bytes, locked, pending, fromWriter, deflator,
                 disk>>

\* A duplicate, or a block that could not be read: the position goes back, and
\* what the writer was given is flushed and cut off.
MustFlush == file.thresh # 0 /\ ~block_device

RollBack ==
  /\ bytes' = file.start
  /\ toWriter' = IF MustFlush THEN Append(toWriter, Flush) ELSE toWriter
  /\ pc' = IF MustFlush THEN "truncate" ELSE "unlock"
  /\ UNCHANGED <<hand, fileVars, fragVars, fragTable, outstanding, locked, pending, fromWriter,
                 deflator, disk>>

Duplicate == BlocksDone /\ file.dup /\ RollBack /\ after' = "next"

\* The first block was read before; the last read is that of the tail.
ReadError == /\ pc = "blocks" /\ block > 0 /\ (block = file.size => file.tail)
             /\ RollBack /\ after' = "again"

\* ftruncate at the position, once the writer has answered.
CutShort(n) == n - 1
Cut(n) == n

Truncate ==
  /\ pc = "truncate" /\ fromWriter
  /\ fromWriter' = FALSE
  /\ disk' = [p \in {q \in DOMAIN disk : q < Cut(bytes)} |-> disk[p]]
  /\ pc' = "unlock"
  /\ UNCHANGED <<after, hand, fileVars, fragVars, sharedVars, locked, pending, toWriter, deflator>>

\* unlock_fragments: the pending fragments get their places one by one, the
\* mutex released for each put.
UnlockPlace ==
  /\ pc = "unlock" /\ pending # <<>>
  /\ Assign(Head(pending))
  /\ hand' = Head(pending)
  /\ pending' = Tail(pending)
  /\ pc' = "unlockput"
  /\ UNCHANGED <<after, fileVars, fragVars, locked, toWriter, fromWriter, deflator, disk>>

UnlockPut ==
  /\ pc = "unlockput"
  /\ toWriter' = Append(toWriter, Buffer(FragUnit(hand), fragTable[hand]))
  /\ hand' = -1
  /\ pc' = "unlock"
  /\ UNCHANGED <<after, fileVars, fragVars, sharedVars, locked, pending, fromWriter, deflator, disk>>

UnlockDone ==
  /\ pc = "unlock" /\ pending = <<>>
  /\ locked' = FALSE
  /\ pc' = after
  /\ UNCHANGED <<after, hand, fileVars, fragVars, sharedVars, pending, toWriter, fromWriter, deflator,
                 disk>>

-----------------------------------------------------------------------------
(* The end of main.                                                        *)

LastFragment ==
  /\ pc = "next"
  /\ IF fill > 0 THEN WriteFragment /\ fill' = 0 ELSE UNCHANGED <<fragVars, outstanding>>
  /\ pc' = "unlock" /\ after' = "drain"
  /\ UNCHANGED <<hand, fileVars, fragTable, bytes, locked, pending, toWriter, fromWriter, deflator, disk>>

\* The main thread yields until no fragment is outstanding, then flushes.
Drain ==
  /\ pc = "drain" /\ outstanding = 0
  /\ toWriter' = Append(toWriter, Flush)
  /\ pc' = "flush"
  /\ UNCHANGED <<after, hand, fileVars, fragVars, sharedVars, locked, pending, fromWriter, deflator, disk>>

\* The tables and the superblock are written, and the process ends with all its
\* threads.
Flushed == /\ pc = "flush" /\ fromWriter
           /\ fromWriter' = FALSE
           /\ pc' = "tables"
           /\ UNCHANGED <<after, hand, fileVars, fragVars, sharedVars, locked, pending, toWriter,
                          deflator, disk>>
Exit == /\ pc = "tables"
        /\ pc' = "exited"
        /\ UNCHANGED <<after, hand, fileVars, fragVars, sharedVars, locked, pending, toWriter,
                       fromWriter, deflator, disk>>

Main == /\ UNCHANGED block_device
        /\ \/ NextFile \/ Again \/ WriteBlock \/ EndBlocks \/ Fill \/ Unique \/ Duplicate \/ ReadError
           \/ Truncate \/ UnlockPlace \/ UnlockPut \/ UnlockDone
           \/ LastFragment \/ Drain \/ Flushed \/ Exit
Running == pc # "exited" /\ UNCHANGED block_device
FragDeflator(d) == Running /\ (Compress(d) \/ Place(d) \/ AddPending(d) \/ PutPlaced(d))
Writer == Running /\ Write

Next == Main \/ (\E d \in FragDeflators : FragDeflator(d)) \/ Writer

\* The scheduler runs every thread.
Fairness == WF_vars(Main) /\ WF_vars(Writer) /\ \A d \in FragDeflators : WF_vars(FragDeflator(d))
Spec == Init /\ [][Next]_vars /\ Fairness

-----------------------------------------------------------------------------
TypeOK ==
  /\ pc \in {"next", "again", "blocks", "truncate", "unlock", "unlockput", "fill", "drain", "flush",
             "tables", "exited"}
  /\ after \in {"next", "again", "fill", "drain"}
  /\ block \in Nat /\ fill \in 0 .. PerFragment
  /\ locked \in BOOLEAN /\ fromWriter \in BOOLEAN
  /\ bytes \in Nat /\ outstanding \in Nat
  /\ DOMAIN fragTable \subseteq 0 .. fragments - 1

\* The units that a reader of the file system will look for, with their places:
\* the fragments that have one, and the blocks of every file with an inode and
\* of the one in hand.
InHand == IF pc = "blocks" THEN {<<blockPos[b], BlockUnit(file, b - 1)>> : b \in 1 .. block} ELSE {}
PlacedFragments == {<<fragTable[f], FragUnit(f)>> : f \in DOMAIN fragTable}
Live == PlacedFragments \cup committed \cup InHand

\* Threads that move one output position, and a position that moves back, never
\* give a place to two units, nor leave one where the next file will be written.
NoOverlap == /\ \A u, v \in Live : u[1] = v[1] => u = v
             /\ \A u \in Live : u[1] < bytes

\* An inode has the place of its first block only: nothing comes between the
\* blocks of a file, while the fragment deflators run on.
FileContiguous == pc = "blocks" => /\ bytes = file.start + block
                                   /\ \A b \in 1 .. block : blockPos[b] = file.start + b - 1

\* What the inodes and the fragment table say is where a reader will look for it.
Placement == NoOverlap /\ FileContiguous

\* Every unit with a place is on its way there or is there: no roll back,
\* truncation or late write of a rolled back block destroys it.
OnItsWay(u) ==
  \/ Buffer(u[2], u[1]) \in ToSet(toWriter)
  \/ \E d \in FragDeflators : deflator[d].step = "placed" /\ u[2] = FragUnit(deflator[d].frag)
  \/ hand # -1 /\ u[2] = FragUnit(hand)
  \/ u \in InHand
Written(u) == u[1] \in DOMAIN disk /\ disk[u[1]] = u[2]
Settled == \A u \in Live : OnItsWay(u) \/ Written(u)

\* fragments_outstanding, which bounds thresh and which the end of main waits
\* for, counts the fragments that have no place.
Deferred == {d \in FragDeflators : deflator[d].step \in {"compressed", "deferred"}}
OutstandingCounted == outstanding = Len(toFrag) + Cardinality(Deferred) + Len(pending)

\* The counts and tables that the threads share agree with what they hold.
Consistent == TypeOK /\ OutstandingCounted

\* The program ends, unless a fragment joined the pending ones after the last
\* unlock, and once the last has begun that is the only way.
EndsUnlessLate == <>(pc = "exited" \/ (pc = "drain" /\ pending # <<>>))
=============================================================================
