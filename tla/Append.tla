--------------------------------- MODULE Append ---------------------------------
(***************************************************************************)
(* An append to a file system that exists.  The new data goes where the    *)
(* old tables are, so from the first block on the old file system is only  *)
(* in memory and in the recovery file; the magic number is zero until the  *)
(* super block is written at the end.  The second interrupt goes back to   *)
(* the old tables.  mksquashfs may also stop at any point, and be run      *)
(* again with -recover.                                                    *)
(*                                                                         *)
(* The destination is a row of units: the super block at 0, the data, and  *)
(* after the data the tables.  Two threads write it, main and the writer,  *)
(* with one file offset between them.                                      *)
(***************************************************************************)
EXTENDS Integers, Sequences, SequencesExt, FiniteSets

CONSTANTS Tables,        \* units of the tables of a file system
          MaxBlocks,     \* bound: data blocks of an append
          MaxRuns        \* bound: appends

ASSUME AppendAssumption == Tables \in Nat \ {0} /\ MaxBlocks \in Nat /\ MaxRuns \in Nat

VARIABLES disk,          \* the destination
          files,         \* the recovery files
          runs,          \* appends so far: a run's number stands for its file system
          main,          \* the main thread, with its copy of the super block
          reader,        \* thread[0] is set
          queue,         \* to_writer
          writer,        \* "idle", "seeked" or "parked"
          offset,        \* of the destination's descriptor
          given_up       \* a late interrupt, or an end without a recovery file

threads == <<reader, queue, writer, offset>>
vars == <<disk, files, runs, main, reader, queue, writer, offset, given_up>>

Places == 0 .. MaxRuns * MaxBlocks + Tables + 1
Nothing == [kind |-> "nothing"]

\* The units of a file system's tables, from the end of its data on.
TableUnits(id, data) == [k \in 1 .. Tables |-> <<Len(data) + k, [kind |-> "table", id |-> id, part |-> k]>>]

\* A super block: id stands for all that it says about the tables, root for
\* root_inode and inodes.
Super(id, root, data) == [kind |-> "super", magic |-> TRUE, id |-> id, root |-> root, data |-> data]

\* The file system that the destination's super block describes is there.
Readable ==
  LET s == disk[0]
  IN  /\ s.kind = "super" /\ s.magic /\ s.root = s.id
      /\ \A k \in DOMAIN s.data : disk[k] = s.data[k]
      /\ \A u \in ToSet(TableUnits(s.id, s.data)) : disk[u[1]] = u[2]

Idle == [pc |-> "idle"]

Init ==
  /\ disk = [p \in Places |-> CASE p = 0 -> Super(0, 0, <<>>)
                             [] p \in 1 .. Tables -> TableUnits(0, <<>>)[p][2]
                             [] OTHER -> Nothing]
  /\ files = {} /\ runs = 0 /\ main = Idle /\ given_up = FALSE
  /\ reader = FALSE /\ queue = <<>> /\ writer = "idle" /\ offset = 0

-----------------------------------------------------------------------------
(* main *)

\* read_super refuses a destination without the magic number.  d is the number of
\* blocks that the sources will need, keep that -no-recovery is not given.
Start ==
  /\ main.pc = "idle" /\ Readable /\ runs < MaxRuns
  /\ runs' = runs + 1
  /\ \E d \in 0 .. MaxBlocks, keep \in BOOLEAN :
       main' = [pc |-> IF keep THEN "create" ELSE "zero", keep |-> keep, old |-> disk[0], root |-> disk[0].root,
                blocks |-> d, sent |-> 0, interrupted |-> 0, restoring |-> FALSE, fatal |-> FALSE,
                todo |-> <<>>, seeked |-> FALSE, locked |-> FALSE]
  /\ reader' = TRUE /\ queue' = <<>> /\ writer' = "idle"
  /\ UNCHANGED <<disk, files, offset, given_up>>

\* write_recovery_data: the file is there before all is in it.
CreateRecovery ==
  /\ main.pc = "create"
  /\ files' = files \cup {[of |-> runs, super |-> main.old, whole |-> FALSE]}
  /\ main' = [main EXCEPT !.pc = "save"]
  /\ UNCHANGED <<disk, runs, threads, given_up>>

Mine == {f \in files : f.of = runs}
SaveRecovery ==
  /\ main.pc = "save"
  /\ files' = (files \ Mine) \cup {[f EXCEPT !.whole = TRUE] : f \in Mine}
  /\ main' = [main EXCEPT !.pc = "zero"]
  /\ UNCHANGED <<disk, runs, threads, given_up>>

\* The magic number is written over.
Zero ==
  /\ main.pc = "zero"
  /\ disk' = [disk EXCEPT ![0].magic = FALSE]
  /\ main' = [main EXCEPT !.pc = "append"]
  /\ UNCHANGED <<files, runs, threads, given_up>>

\* dir_scan: a block goes to the writer.
Block(k) == <<Len(main.old.data) + k, [kind |-> "data", id |-> runs, part |-> k]>>
GiveBlock ==
  /\ main.pc = "append" /\ main.sent < main.blocks
  /\ queue' = Append(queue, Block(main.sent + 1))
  /\ main' = [main EXCEPT !.sent = @ + 1]
  /\ UNCHANGED <<disk, files, runs, reader, writer, offset, given_up>>

\* dir_scan returned: the new root is in main's super block.
FillSuper ==
  /\ main.pc = "append" /\ main.sent = main.blocks
  /\ main' = [main EXCEPT !.pc = "restore_filesystem", !.root = runs]
  /\ UNCHANGED <<disk, files, runs, threads, given_up>>

\* Whether main waits for the writer, and how it takes pos_mutex.
UninterruptedAlways == TRUE
Uninterrupted == main.interrupted < 2

\* What is left to write: the tables, and then the super block.
NewData == main.old.data \o [k \in 1 .. main.blocks |-> Block(k)[2]]
SuperFirst ==
  IF main.restoring THEN <<<<0, Super(main.old.id, main.root, main.old.data)>>>> \o TableUnits(main.old.id, main.old.data)
  ELSE <<<<0, Super(runs, main.root, NewData)>>>> \o TableUnits(runs, NewData)
Output ==
  IF main.restoring THEN Append(TableUnits(main.old.id, main.old.data), <<0, Super(main.old.id, main.root, main.old.data)>>)
  ELSE Append(TableUnits(runs, NewData), <<0, Super(runs, main.root, NewData)>>)

\* restore_filesystem: main waits for the writer, unless it was interrupted before.
Wait ==
  /\ main.pc = "restore_filesystem" /\ Uninterrupted
  /\ main' = [main EXCEPT !.pc = "wait"]
  /\ UNCHANGED <<disk, files, runs, threads, given_up>>

\* The writer answers when it has written all.
Answered == queue = <<>> /\ writer = "idle"
Drained ==
  /\ (main.pc = "wait" /\ Answered) \/ (main.pc = "restore_filesystem" /\ ~Uninterrupted)
  /\ main' = [main EXCEPT !.pc = "write", !.todo = Output]
  /\ UNCHANGED <<disk, files, runs, threads, given_up>>

\* write_bytes: the seek, and the write with what pos_mutex protects.
Seek ==
  /\ main.pc = "write" /\ ~main.seeked /\ main.todo # <<>>
  /\ Uninterrupted => writer = "idle"
  /\ offset' = Head(main.todo)[1]
  /\ main' = [main EXCEPT !.seeked = TRUE, !.locked = @ \/ Uninterrupted]
  /\ UNCHANGED <<disk, files, runs, reader, queue, writer, given_up>>

Write ==
  /\ main.pc = "write" /\ main.seeked
  /\ disk' = [disk EXCEPT ![offset] = Head(main.todo)[2]]
  /\ offset' = offset + 1
  /\ main' = [main EXCEPT !.seeked = FALSE, !.locked = @ /\ ~Uninterrupted, !.todo = Tail(@)]
  /\ UNCHANGED <<files, runs, reader, queue, writer, given_up>>

\* The recovery file is unlinked, and mksquashfs ends with all its threads.
End ==
  /\ main' = Idle
  /\ reader' = FALSE /\ queue' = <<>> /\ writer' = "idle"
Unlink ==
  /\ main.pc = "write" /\ main.todo = <<>>
  /\ files' = files \ Mine
  /\ End
  /\ UNCHANGED <<disk, runs, offset, given_up>>

-----------------------------------------------------------------------------
(* the other threads *)

ReaderEnds ==
  /\ reader /\ main.pc \in {"append", "restore_filesystem", "wait", "write"}
  /\ reader' = FALSE
  /\ UNCHANGED <<disk, files, runs, main, queue, writer, offset, given_up>>

WriterSeek ==
  /\ writer = "idle" /\ queue # <<>> /\ ~main.locked
  /\ writer' = "seeked" /\ offset' = Head(queue)[1]
  /\ UNCHANGED <<disk, files, runs, main, reader, queue, given_up>>

WriterWrite ==
  /\ writer = "seeked"
  /\ writer' = "idle" /\ queue' = Tail(queue)
  /\ disk' = [disk EXCEPT ![offset] = Head(queue)[2]] /\ offset' = offset + 1
  /\ UNCHANGED <<files, runs, main, reader, given_up>>

-----------------------------------------------------------------------------
(* signals and errors *)

Handled == {"zero", "append", "restore_filesystem", "wait", "write"}

\* restorefs with the reader's thread: all threads are parked where they are, and
\* main goes to restore_filesystem with the old tables.  It is late when main has
\* filled its super block, which is not put back.
Restore(m) ==
  /\ main' = [m EXCEPT !.pc = "restore_filesystem", !.restoring = TRUE, !.todo = <<>>, !.seeked = FALSE]
  /\ reader' = FALSE /\ writer' = "parked"
  /\ given_up' = (given_up \/ m.root # m.old.root)

FirstInterrupt ==
  /\ main.pc \in Handled /\ main.interrupted = 0
  /\ main' = [main EXCEPT !.interrupted = 1]
  /\ UNCHANGED <<disk, files, runs, threads, given_up>>

SecondInterrupt ==
  /\ main.pc \in Handled /\ main.interrupted = 1 /\ reader
  /\ Restore([main EXCEPT !.interrupted = 2])
  /\ UNCHANGED <<disk, files, runs, queue, offset>>

\* The second interrupt when the reader has ended: restorefs returns, and main goes on
\* and does not wait for the writer any more.
LateInterrupt ==
  /\ main.pc \in Handled /\ main.interrupted = 1 /\ ~reader
  /\ main' = [main EXCEPT !.interrupted = 2]
  /\ given_up' = (given_up \/ main.pc \in {"append", "restore_filesystem"})
  /\ UNCHANGED <<disk, files, runs, threads>>

\* BAD_ERROR in main, and an error of the writer that main hears of.
FatalError ==
  /\ main.pc \in Handled /\ ~main.fatal
  /\ IF reader THEN Restore([main EXCEPT !.fatal = TRUE]) /\ UNCHANGED queue
     ELSE End /\ given_up' = (given_up \/ (~main.keep /\ ~Readable))
  /\ UNCHANGED <<disk, files, runs, offset>>

\* mksquashfs stops: killed, or an error before the magic number is gone.
Crash ==
  /\ main.pc # "idle"
  /\ End
  /\ given_up' = (given_up \/ (main.pc # "recover" /\ ~main.keep /\ ~Readable))
  /\ UNCHANGED <<disk, files, runs, offset>>

-----------------------------------------------------------------------------
(* mksquashfs -recover *)

\* The super block in the file is that of the destination, but for the magic number.
MatchesAny(f) == f.whole /\ disk[0].kind = "super"
Matches(f) == f.whole /\ disk[0].kind = "super" /\ f.super = [disk[0] EXCEPT !.magic = TRUE]

\* read_recovery_data; any other file is refused.
Recover ==
  /\ main.pc = "idle"
  /\ \E f \in files :
       /\ Matches(f)
       /\ main' = [pc |-> "recover", locked |-> FALSE,
                   todo |-> <<<<0, f.super>>>> \o TableUnits(f.super.id, f.super.data)]
  /\ UNCHANGED <<disk, files, runs, threads, given_up>>

RecoverWrite ==
  /\ main.pc = "recover" /\ main.todo # <<>>
  /\ disk' = [disk EXCEPT ![Head(main.todo)[1]] = Head(main.todo)[2]]
  /\ main' = [main EXCEPT !.todo = Tail(@)]
  /\ UNCHANGED <<files, runs, threads, given_up>>

RecoverEnd ==
  /\ main.pc = "recover" /\ main.todo = <<>>
  /\ main' = Idle
  /\ UNCHANGED <<disk, files, runs, threads, given_up>>

-----------------------------------------------------------------------------

Main == CreateRecovery \/ SaveRecovery \/ Zero \/ GiveBlock \/ FillSuper \/ Wait \/ Drained \/ Seek \/ Write \/ Unlink
Writer == WriterSeek \/ WriterWrite
Signals == FirstInterrupt \/ SecondInterrupt \/ LateInterrupt
Recovery == Recover \/ RecoverWrite \/ RecoverEnd

\* Nobody runs mksquashfs again.
Stopped == main.pc = "idle" /\ UNCHANGED vars

Next == Start \/ Main \/ ReaderEnds \/ Writer \/ Signals \/ FatalError \/ Crash \/ Recovery \/ Stopped

\* Threads that can go on do; nobody need interrupt, crash or recover.
Spec == Init /\ [][Next]_vars /\ WF_vars(Main) /\ WF_vars(Writer) /\ WF_vars(RecoverWrite \/ RecoverEnd)

-----------------------------------------------------------------------------
(* Properties *)

\* When mksquashfs has ended, however it did, the file system can be read, or there
\* is a recovery file that -recover will take (unless -no-recovery was given).
Recoverable == main.pc = "idle" /\ ~given_up => Readable \/ \E f \in files : Matches(f)

\* An append changes the file system from one whole state to the next, whatever the
\* threads, the interrupts and the crashes do, unless an interrupt comes late.
StateOnDisk == IF disk[0].kind = "super" THEN disk[0].id ELSE 0
RefinesAtomicFs == INSTANCE AtomicFs WITH state <- StateOnDisk, whole <- Readable
AtomicFsSpec == RefinesAtomicFs!Spec

\* A recovery that goes to its end leaves a file system that can be read, also when it
\* stopped half way before, and when its file is that of an earlier append.
RecoverWorks == [][RecoverEnd /\ ~given_up => Readable]_vars

\* An append ends, interrupted or not; only after a fatal error main waits for the
\* writer that it parked.
EndsUnlessFatal == main.pc # "idle" ~> main.pc = "idle" \/ (main.pc # "recover" /\ main.fatal)
=============================================================================
