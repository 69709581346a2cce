------------------------------- MODULE Unsquash -------------------------------
(***************************************************************************)
(* unsquashfs extracting one directory: the main thread (dir_scan) creates *)
(* files and links and sends the writer what to write; blocks and          *)
(* fragments go through two caches, whose buffers a reader fills and       *)
(* deflators decompress while the writer already has them in its queue.    *)
(*                                                                         *)
(* Of the image, an entry is its inode, whether it is a regular file or    *)
(* something without data (device, fifo, symlink), and the pieces of its   *)
(* data: a hole, a data block, or part of a fragment.  Entry k has path k, *)
(* and the file created there is file k.  The directory is new, or, with   *)
(* -force, has files of those names: without it dir_scan's mkdir fails.    *)
(***************************************************************************)
EXTENDS SparseFile, FiniteSets, SequencesExt

CONSTANTS Deflators,
          DataBuffers, FragmentBuffers,   \* of data_cache and fragment_cache
          WriterQueue,                    \* the size of to_writer: 1000
          Images,                         \* the images to check: sequences of entries
          Compressed,                     \* the blocks that are stored compressed
          Existing,                       \* which paths may exist before: a set of sets
          OldData,                        \* what files of before have
          MaxFailures,                    \* bound: calls of the system that fail in a run
          None                            \* no block, no buffer

Kinds == {"data", "fragment"}
Buffers == DataBuffers \cup FragmentBuffers
Pieces == [kind : Kinds \cup {"hole"}, block : STRING, offset : Nat, size : Nat \ {0}]

Entries == [inode : Nat, file : BOOLEAN, pieces : Seq(Pieces)]

ASSUME UnsquashAssumption ==
  /\ DataBuffers \cap FragmentBuffers = {} /\ None \notin Buffers \cup STRING
  /\ DataBuffers # {} /\ FragmentBuffers # {} /\ IsFiniteSet(Buffers) /\ IsFiniteSet(Deflators)
  /\ WriterQueue \in Nat \ {0} /\ MaxFailures \in Nat
  /\ \A i \in Images : i \in Seq(Entries)
                         /\ \A k \in DOMAIN i : i[k].file \/ i[k].pieces = <<>>

VARIABLES
  image,
  pc, at, rest, buffer,     \* main: its step, entry, the pieces to send, the buffer in hand
  created,                  \* created_inode: per inode the path it has, 0 for none
  cache, free,              \* what each buffer holds; the free list of each cache
  waitFree, waitPending,    \* the caches whose flag is set: main or the writer sleeps on it
  toReader, toDeflate, toWriter, fromWriter,
  reader, deflator,         \* the buffer each has in hand
  writer, out,              \* the writer's step and locals, and the file it writes
  names, content, complete, \* per path the file it names, 0 for none; data; files with attributes
  refused, unread, unwritten   \* what failed: paths to make or unlink, blocks, files (history)
vars == <<image, pc, at, rest, buffer, created, cache, free, waitFree, waitPending, toReader,
          toDeflate, toWriter, fromWriter, reader, deflator, writer, out, names, content, complete,
          refused, unread, unwritten>>
scanVars == <<image, at, rest, buffer, created>>
cacheVars == <<cache, free, waitFree, waitPending>>
diskVars == <<names, content, complete>>
failVars == <<refused, unread, unwritten>>

Paths == DOMAIN image
Entry == image[at]
First(k) == CHOOSE f \in Paths : /\ image[f].inode = image[k].inode
                                 /\ \A j \in Paths : image[j].inode = image[f].inode => f <= j

\* A buffer's content where a block's byte at an offset should be.
Byte(data, n) == <<data, n>>
Bytes(piece, data) ==
  [n \in 1 .. piece.size |-> IF piece.kind = "hole" THEN Zero ELSE Byte(data, piece.offset + n)]
Data(k) == FlattenSeq([n \in DOMAIN image[k].pieces |->
                         Bytes(image[k].pieces[n], image[k].pieces[n].block)])

KindOf(b) == IF b \in DataBuffers THEN "data" ELSE "fragment"
Empty == [block |-> None, used |-> 0, pending |-> FALSE, error |-> FALSE, data |-> "nothing"]
Idle == [step |-> "idle", path |-> 0, left |-> 0, hole |-> 0, failed |-> FALSE, piece |-> None,
         buffer |-> None]
Opened(data, f) == [content |-> data, pos |-> 0, broken |-> f.broken, past |-> f.past]

Failures == Cardinality(refused) + Cardinality(unread) + Cardinality(unwritten)
CanFail == Failures < MaxFailures
Running == pc \notin {"exited", "aborted"}

Init ==
  /\ image \in Images
  /\ pc = "next" /\ at = 1 /\ rest = <<>> /\ buffer = None
  /\ created = [i \in {image[k].inode : k \in Paths} |-> 0]
  /\ cache = [b \in Buffers |-> Empty] /\ free = [k \in Kinds |-> <<>>]
  /\ waitFree = {} /\ waitPending = {}
  /\ toReader = <<>> /\ toDeflate = <<>> /\ toWriter = <<>> /\ fromWriter = FALSE
  /\ reader = None /\ deflator = [d \in Deflators |-> None]
  /\ writer = Idle
  /\ out \in [content : {<<>>}, pos : {0}, broken : {FALSE}, past : BOOLEAN]
  /\ \E old \in Existing :
        /\ names = [k \in Paths |-> IF k \in old THEN k ELSE 0]
        /\ content = [k \in Paths |-> IF k \in old THEN OldData ELSE <<>>]
  /\ complete = {} /\ refused = {} /\ unread = {} /\ unwritten = {}

-----------------------------------------------------------------------------
(* The caches.                                                             *)

Holding(piece) == {b \in Buffers : KindOf(b) = piece.kind /\ cache[b].block = piece.block}
Unused(kind) == {b \in Buffers : KindOf(b) = kind /\ cache[b].block = None}

\* cache_get that finds the block in b.
HitStillFree(b) == cache' = [cache EXCEPT ![b].used = @ + 1] /\ UNCHANGED free
Hit(b) ==
  /\ cache' = [cache EXCEPT ![b].used = @ + 1]
  /\ free' = [free EXCEPT ![KindOf(b)] = RemoveFirst(@, b)]

\* cache_get that takes b for a block: one never used, else the first free one.
Take(b, block) ==
  /\ cache' = [cache EXCEPT ![b].block = block, ![b].used = 1, ![b].error = FALSE,
                            ![b].pending = TRUE]
  /\ free' = [free EXCEPT ![KindOf(b)] = RemoveFirst(@, b)]

\* cache_block_ready, with what the buffer holds; it wakes who waits for it.
Ready(b, data, error) ==
  /\ cache' = [cache EXCEPT ![b].pending = FALSE, ![b].error = error, ![b].data = data]
  /\ waitPending' = waitPending \ {KindOf(b)}
  /\ UNCHANGED <<free, waitFree>>

\* cache_block_put; the last use wakes who waits for a free buffer.
PutBackAsleep(b) ==
  /\ cache' = [cache EXCEPT ![b].used = @ - 1]
  /\ free' = IF cache[b].used = 1 THEN [free EXCEPT ![KindOf(b)] = Append(@, b)] ELSE free
  /\ UNCHANGED <<waitFree, waitPending>>
PutBackTwice(b) ==
  /\ cache' = [cache EXCEPT ![b].used = @ - 2]
  /\ free' = IF cache[b].used = 1 THEN [free EXCEPT ![KindOf(b)] = Append(@, b)] ELSE free
  /\ UNCHANGED <<waitFree, waitPending>>
PutBack(b) ==
  /\ cache' = [cache EXCEPT ![b].used = @ - 1]
  /\ IF cache[b].used = 1
     THEN /\ free' = [free EXCEPT ![KindOf(b)] = Append(@, b)]
          /\ waitFree' = waitFree \ {KindOf(b)}
     ELSE UNCHANGED <<free, waitFree>>
  /\ UNCHANGED waitPending

-----------------------------------------------------------------------------
(* The main thread: dir_scan, create_inode, write_file.                    *)

More == at <= Len(image)
NextEntry == pc' = "next" /\ at' = at + 1

\* The entry cannot be made; the path's old file is unlinked before, or is not.
EntryFails ==
  /\ CanFail
  /\ refused' = refused \cup {at}
  /\ \E n \in {0, names[at]} : names' = [names EXCEPT ![at] = n]

\* An inode that was created has its other paths linked to the first, if that
\* is still there and the link does not fail.
LinkOverOld(path) ==
  /\ names' = [names EXCEPT ![at] = IF @ = 0 THEN names[path] ELSE @]
  /\ UNCHANGED refused
LinkTo(path) == names' = [names EXCEPT ![at] = names[path]] /\ UNCHANGED refused
Link ==
  /\ pc = "next" /\ More /\ created[Entry.inode] # 0
  /\ LinkTo(created[Entry.inode]) \/ EntryFails
  /\ NextEntry
  /\ UNCHANGED <<image, rest, buffer, created, cacheVars, toReader, toDeflate, toWriter, fromWriter,
                 reader, deflator, writer, out, content, complete, unread, unwritten>>

\* create_inode takes an inode as created whether or not that worked.
Created == created' = [created EXCEPT ![Entry.inode] = at]

\* mknod, symlink; some are skipped or fail.
Special ==
  /\ pc = "next" /\ More /\ created[Entry.inode] = 0 /\ ~Entry.file
  /\ \/ /\ names' = [names EXCEPT ![at] = at]
        /\ content' = [content EXCEPT ![at] = <<>>]
        /\ complete' = complete \cup {at}
        /\ UNCHANGED refused
     \/ EntryFails /\ UNCHANGED <<content, complete>>
  /\ Created /\ NextEntry
  /\ UNCHANGED <<image, rest, buffer, cacheVars, toReader, toDeflate, toWriter, fromWriter, reader,
                 deflator, writer, out, unread, unwritten>>

\* write_file until the file is in the writer's queue; that the file is there a
\* little before there is room in the queue nobody can see.
OpenKeepsOld == UNCHANGED content
OpenFile == content' = [content EXCEPT ![at] = <<>>]
Open ==
  /\ pc = "next" /\ More /\ created[Entry.inode] = 0 /\ Entry.file /\ Len(toWriter) < WriterQueue
  /\ names' = [names EXCEPT ![at] = at]
  /\ OpenFile
  /\ toWriter' = Append(toWriter, [type |-> "file", path |-> at])
  /\ rest' = Entry.pieces
  /\ Created
  /\ IF Entry.pieces = <<>> THEN NextEntry ELSE pc' = "get" /\ UNCHANGED at
  /\ UNCHANGED <<image, buffer, cacheVars, toReader, toDeflate, fromWriter, reader, deflator, writer,
                 out, complete, failVars>>

OpenFails ==
  /\ pc = "next" /\ More /\ created[Entry.inode] = 0 /\ Entry.file /\ CanFail
  /\ refused' = refused \cup {at}
  /\ Created /\ NextEntry
  /\ UNCHANGED <<image, rest, buffer, cacheVars, toReader, toDeflate, toWriter, fromWriter, reader,
                 deflator, writer, out, diskVars, unread, unwritten>>

\* cache_get: the block is there, a buffer is taken and goes to the reader, or
\* the main thread sleeps.
Getting == pc = "get" /\ buffer = None /\ Head(rest).kind # "hole" /\ Head(rest).kind \notin waitFree
GetHit(b) ==
  /\ Getting /\ b \in Holding(Head(rest))
  /\ Hit(b)
  /\ buffer' = b /\ pc' = "give"
  /\ UNCHANGED <<image, at, rest, created, waitFree, waitPending, toReader, toDeflate, toWriter,
                 fromWriter, reader, deflator, writer, out, diskVars, failVars>>

GetNew ==
  LET kind == Head(rest).kind
      b == IF Unused(kind) # {} THEN CHOOSE u \in Unused(kind) : TRUE ELSE Head(free[kind])
  IN  /\ Getting /\ Holding(Head(rest)) = {} /\ (Unused(kind) # {} \/ free[kind] # <<>>)
      /\ Take(b, Head(rest).block)
      /\ buffer' = b /\ pc' = "read"
      /\ UNCHANGED <<image, at, rest, created, waitFree, waitPending, toReader, toDeflate, toWriter,
                     fromWriter, reader, deflator, writer, out, diskVars, failVars>>

GetSleep ==
  /\ Getting /\ Holding(Head(rest)) = {}
  /\ Unused(Head(rest).kind) = {} /\ free[Head(rest).kind] = <<>>
  /\ waitFree' = waitFree \cup {Head(rest).kind}
  /\ UNCHANGED <<scanVars, pc, cache, free, waitPending, toReader, toDeflate, toWriter, fromWriter,
                 reader, deflator, writer, out, diskVars, failVars>>

PutToReader ==
  /\ pc = "read" /\ Len(toReader) < Cardinality(Buffers)
  /\ toReader' = Append(toReader, buffer)
  /\ pc' = "give"
  /\ UNCHANGED <<scanVars, cacheVars, toDeflate, toWriter, fromWriter, reader, deflator, writer, out,
                 diskVars, failVars>>

\* The piece goes to the writer.
Give ==
  /\ pc = "give" \/ (pc = "get" /\ Head(rest).kind = "hole")
  /\ Len(toWriter) < WriterQueue
  /\ toWriter' = Append(toWriter, [type |-> "piece", piece |-> Head(rest), buffer |-> buffer])
  /\ buffer' = None
  /\ rest' = Tail(rest)
  /\ IF Len(rest) = 1 THEN NextEntry ELSE pc' = "get" /\ UNCHANGED at
  /\ UNCHANGED <<image, created, cacheVars, toReader, toDeflate, fromWriter, reader, deflator, writer,
                 out, diskVars, failVars>>

\* The end of main: it waits until the writer has done what it was given.
LastStepUnwaited == "exited"
LastStep == "last"
SendEnd ==
  /\ pc = "next" /\ ~More /\ Len(toWriter) < WriterQueue
  /\ toWriter' = Append(toWriter, [type |-> "end"])
  /\ pc' = LastStep
  /\ UNCHANGED <<scanVars, cacheVars, toReader, toDeflate, fromWriter, reader, deflator, writer, out,
                 diskVars, failVars>>

Exit ==
  /\ pc = "last" /\ fromWriter
  /\ fromWriter' = FALSE
  /\ pc' = "exited"
  /\ UNCHANGED <<scanVars, cacheVars, toReader, toDeflate, toWriter, reader, deflator, writer, out,
                 diskVars, failVars>>

-----------------------------------------------------------------------------
(* reader and deflator.                                                    *)

ReaderTake ==
  /\ reader = None /\ toReader # <<>>
  /\ reader' = Head(toReader)
  /\ toReader' = Tail(toReader)
  /\ UNCHANGED <<scanVars, pc, cacheVars, toDeflate, toWriter, fromWriter, deflator, writer, out,
                 diskVars, failVars>>

\* A compressed block goes on to the deflators; a plain one is ready, and one
\* that cannot be read is ready with an error.
Read ==
  LET block == cache[reader].block
  IN  /\ reader # None
      /\ \/ /\ block \in Compressed /\ Len(toDeflate) < Cardinality(Buffers)
            /\ toDeflate' = Append(toDeflate, reader)
            /\ cache' = [cache EXCEPT ![reader].data = "compressed"]
            /\ UNCHANGED <<free, waitFree, waitPending, unread>>
         \/ /\ block \notin Compressed
            /\ Ready(reader, block, FALSE)
            /\ UNCHANGED <<toDeflate, unread>>
         \/ /\ CanFail
            /\ unread' = unread \cup {block}
            /\ Ready(reader, cache[reader].data, TRUE)
            /\ UNCHANGED toDeflate
      /\ reader' = None
      /\ UNCHANGED <<scanVars, pc, toReader, toWriter, fromWriter, deflator, writer, out, diskVars,
                     refused, unwritten>>

DeflatorTake(d) ==
  /\ deflator[d] = None /\ toDeflate # <<>>
  /\ deflator' = [deflator EXCEPT ![d] = Head(toDeflate)]
  /\ toDeflate' = Tail(toDeflate)
  /\ UNCHANGED <<scanVars, pc, cacheVars, toReader, toWriter, fromWriter, reader, writer, out,
                 diskVars, failVars>>

Inflate(d) ==
  /\ deflator[d] # None
  /\ Ready(deflator[d], cache[deflator[d]].block, FALSE)
  /\ deflator' = [deflator EXCEPT ![d] = None]
  /\ UNCHANGED <<scanVars, pc, toReader, toDeflate, toWriter, fromWriter, reader, writer, out,
                 diskVars, failVars>>

\* A block that cannot be decompressed ends the program.
Abort(d) ==
  /\ deflator[d] # None /\ CanFail
  /\ pc' = "aborted"
  /\ UNCHANGED <<scanVars, cacheVars, toReader, toDeflate, toWriter, fromWriter, reader, deflator,
                 writer, out, diskVars, failVars>>

-----------------------------------------------------------------------------
(* writer.                                                                 *)

WriterFile ==
  /\ writer.step = "idle" /\ toWriter # <<>> /\ Head(toWriter).type = "file"
  /\ writer' = [Idle EXCEPT !.step = "file", !.path = Head(toWriter).path,
                            !.left = Len(image[Head(toWriter).path].pieces)]
  /\ out' = Opened(content[Head(toWriter).path], out)
  /\ toWriter' = Tail(toWriter)
  /\ UNCHANGED <<scanVars, pc, cacheVars, toReader, toDeflate, fromWriter, reader, deflator, diskVars,
                 failVars>>

WriterEnd ==
  /\ writer.step = "idle" /\ toWriter # <<>> /\ Head(toWriter).type = "end" /\ ~fromWriter
  /\ fromWriter' = TRUE
  /\ toWriter' = Tail(toWriter)
  /\ UNCHANGED <<scanVars, pc, cacheVars, toReader, toDeflate, reader, deflator, writer, out, diskVars,
                 failVars>>

\* Holes add up.
WriterTake ==
  /\ writer.step = "file" /\ writer.left > 0 /\ toWriter # <<>>
  /\ LET it == Head(toWriter)
     IN  writer' = IF it.buffer = None
                   THEN [writer EXCEPT !.left = @ - 1, !.hole = Int32(@ + it.piece.size)]
                   ELSE [writer EXCEPT !.step = "block", !.piece = it.piece, !.buffer = it.buffer]
  /\ toWriter' = Tail(toWriter)
  /\ UNCHANGED <<scanVars, pc, cacheVars, toReader, toDeflate, fromWriter, reader, deflator, out,
                 diskVars, failVars>>

\* cache_block_wait.
Awake == KindOf(writer.buffer) \notin waitPending
MustWaitUnlessFailed == cache[writer.buffer].pending /\ ~writer.failed
MustWait == cache[writer.buffer].pending
WriterSleep ==
  /\ writer.step = "block" /\ Awake /\ MustWait
  /\ waitPending' = waitPending \cup {KindOf(writer.buffer)}
  /\ UNCHANGED <<scanVars, pc, cache, free, waitFree, toReader, toDeflate, toWriter, fromWriter,
                 reader, deflator, writer, out, diskVars, failVars>>

\* The block is written, unless something failed or fails now, and put back.
AfterBlockHole(failed) ==
  [writer EXCEPT !.step = "file", !.left = @ - 1, !.failed = failed, !.piece = None, !.buffer = None]
AfterBlock(failed) ==
  [writer EXCEPT !.step = "file", !.left = @ - 1, !.hole = 0, !.failed = failed, !.piece = None,
                 !.buffer = None]
WriterBlock ==
  LET b == cache[writer.buffer]
      written == WriteBlock(out, Bytes(writer.piece, b.data), writer.hole)
  IN  /\ writer.step = "block" /\ Awake /\ ~MustWait
      /\ \/ /\ writer.failed \/ b.error
            /\ writer' = AfterBlock(TRUE)
            /\ UNCHANGED <<out, content, unwritten>>
         \/ /\ ~writer.failed /\ ~b.error
            /\ writer' = AfterBlock(FALSE)
            /\ out' = written
            /\ content' = [content EXCEPT ![writer.path] = written.content]
            /\ UNCHANGED unwritten
         \/ /\ ~writer.failed /\ ~b.error /\ CanFail
            /\ writer' = AfterBlock(TRUE)
            /\ out' = [out EXCEPT !.broken = written.broken]
            /\ unwritten' = unwritten \cup {writer.path}
            /\ UNCHANGED content
      /\ PutBack(writer.buffer)
      /\ UNCHANGED <<scanVars, pc, toReader, toDeflate, toWriter, fromWriter, reader, deflator, names,
                     complete, refused, unread>>

\* After the last piece: the hole that may be left, then the attributes, or the
\* file is unlinked, unless that fails too: what was written of it stays.
WriterClose ==
  LET hole == writer.hole # 0 /\ ~writer.failed
      ended == IF hole THEN EndHole(out, writer.hole, Len(Data(writer.path))) ELSE out
  IN  /\ writer.step = "file" /\ writer.left = 0
      /\ \/ /\ ~writer.failed
            /\ content' = [content EXCEPT ![writer.path] = ended.content]
            /\ complete' = complete \cup {writer.path}
            /\ UNCHANGED <<names, refused, unwritten>>
         \/ /\ writer.failed \/ (hole /\ CanFail)
            /\ unwritten' = IF hole THEN unwritten \cup {writer.path} ELSE unwritten
            /\ \/ names' = [names EXCEPT ![writer.path] = 0] /\ UNCHANGED refused
               \/ /\ Failures + (IF hole THEN 1 ELSE 0) < MaxFailures
                  /\ refused' = refused \cup {writer.path}
                  /\ UNCHANGED names
            /\ UNCHANGED <<content, complete>>
      /\ out' = Opened(<<>>, ended)
      /\ writer' = Idle
      /\ UNCHANGED <<scanVars, pc, cacheVars, toReader, toDeflate, toWriter, fromWriter, reader,
                     deflator, unread>>

Main == \/ Link \/ Special \/ Open \/ OpenFails
        \/ (\E b \in Buffers : GetHit(b)) \/ GetNew \/ GetSleep \/ PutToReader \/ Give
        \/ SendEnd \/ Exit
Reader == Running /\ (ReaderTake \/ Read)
Deflator(d) == Running /\ (DeflatorTake(d) \/ Inflate(d) \/ Abort(d))
Writer == Running /\ (WriterFile \/ WriterEnd \/ WriterTake \/ WriterSleep \/ WriterBlock \/ WriterClose)

Next == Main \/ Reader \/ Writer \/ \E d \in Deflators : Deflator(d)

\* The scheduler runs every thread.
Fairness == /\ WF_vars(Main) /\ WF_vars(Reader) /\ WF_vars(Writer)
            /\ \A d \in Deflators : WF_vars(Deflator(d))
Spec == Init /\ [][Next]_vars /\ Fairness

-----------------------------------------------------------------------------
\* Types; no queue to the reader or the deflators is ever full, so that none of
\* them waits to put a buffer.
InHand == [Deflators -> Buffers \cup {None}]
TypeOK ==
  /\ pc \in {"next", "get", "read", "give", "last", "exited", "aborted"}
  /\ at \in 1 .. Len(image) + 1
  /\ \A b \in Buffers : cache[b].used \in 0 .. WriterQueue + 2
  /\ waitFree \subseteq Kinds /\ waitPending \subseteq Kinds
  /\ Len(toReader) <= Cardinality(Buffers) /\ Len(toDeflate) <= Cardinality(Buffers)
  /\ Len(toWriter) <= WriterQueue
  /\ reader \in Buffers \cup {None} /\ deflator \in InHand
  /\ writer.hole \in -HalfInt .. HalfInt - 1
  /\ \A k \in Paths : names[k] \in Paths \cup {0}

\* A buffer's use count is the number of pieces on their way to the writer or
\* with it that have the buffer, and it is free once it has held a block and
\* nobody uses it: no block in use is taken for another, and none is lost.
Given(b) == Cardinality({n \in DOMAIN toWriter : toWriter[n].type = "piece" /\ toWriter[n].buffer = b})
UseCounts ==
  \A b \in Buffers :
    /\ cache[b].used = Given(b) + (IF buffer = b THEN 1 ELSE 0) + (IF writer.buffer = b THEN 1 ELSE 0)
    /\ Cardinality({n \in DOMAIN free[KindOf(b)] : free[KindOf(b)][n] = b})
         = (IF cache[b].used = 0 /\ cache[b].block # None THEN 1 ELSE 0)

\* A buffer is pending exactly while it is to be read or decompressed, by one
\* thread at a time, and then it is in use: no thread fills a buffer that was
\* put back and perhaps taken again.
Filling(b) ==
  (IF pc = "read" /\ buffer = b THEN 1 ELSE 0) + (IF reader = b THEN 1 ELSE 0)
  + Cardinality({n \in DOMAIN toReader : toReader[n] = b})
  + Cardinality({n \in DOMAIN toDeflate : toDeflate[n] = b})
  + Cardinality({d \in Deflators : deflator[d] = b})
PendingUsed ==
  Running => \A b \in Buffers : /\ Filling(b) = (IF cache[b].pending THEN 1 ELSE 0)
                                /\ cache[b].pending => cache[b].used > 0

\* The two caches are consistent, with their threads and queues.
Consistent == TypeOK /\ UseCounts /\ PendingUsed

\* A file that was given its attributes has the data of the image, whatever was
\* in the cache and on the disk before and wherever its holes are, if these fit
\* into an int.
HolesUpTo(pieces) ==
  LET upTo[n \in 0 .. Len(pieces)] ==
        IF n = 0 THEN 0 ELSE upTo[n - 1] + (IF pieces[n].kind = "hole" THEN pieces[n].size ELSE 0)
  IN  upTo
HoleSize(k) == HolesUpTo(image[k].pieces)[Len(image[k].pieces)]
CompleteFiles == \A k \in complete : HoleSize(k) < HalfInt => content[k] = Data(k)

\* When unsquashfs exits, every path has its file, with its attributes, unless the
\* system refused to make, link or unlink that path or the file's first one, or to
\* read one of the file's blocks or write it: then the first path is gone.  A
\* failure costs no other file anything, and no path that it is not about.
Failed(k) == \/ k \in unwritten
             \/ \E n \in DOMAIN image[k].pieces : image[k].pieces[n].block \in unread
ExitSettled ==
  pc = "exited" => \A k \in Paths : LET f == First(k)
                                    IN  \/ {k, f} \cap refused # {}
                                        \/ f \in complete /\ names[k] = f
                                        \/ Failed(f) /\ names[f] = 0

\* unsquashfs ends, whatever fails.
Ends == <>~Running
=============================================================================
