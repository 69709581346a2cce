-------------------------------- MODULE Pipeline --------------------------------
(***************************************************************************)
(* How mksquashfs moves file data: the reader cuts files into numbered     *)
(* blocks, the deflators compress them in any order, the main thread takes *)
(* them in the order of their numbers, the fragment deflators compress     *)
(* full fragments, the writer writes.  Three caches of buffers bound the   *)
(* memory: a thread that needs a buffer waits for one.  Fragments has the  *)
(* positions of what is written; here it is who waits for whom.            *)
(*                                                                         *)
(* Of the source, a file is its number of blocks, whether a tail is left   *)
(* for a fragment, and whether an earlier file has its size, so that it    *)
(* may be a duplicate.  Such files have no tail, as without                *)
(* -always-use-fragments, so that get_fragment is not called.              *)
(***************************************************************************)
EXTENDS Integers, Sequences, FiniteSets, SequencesExt

CONSTANTS Deflators, FragDeflators,                    \* as many of each as processors
          ReaderBuffers, WriterBuffers, FragmentBuffers,  \* the sizes of the caches
          PerFragment,                                 \* how many tails fill a fragment
          Sources                                      \* the sources to check: sequences of files

FileKinds == [blocks : Nat, tail : BOOLEAN, dup : BOOLEAN]

ASSUME PipelineAssumption ==
  /\ IsFiniteSet(Deflators) /\ IsFiniteSet(FragDeflators)
  /\ {ReaderBuffers, WriterBuffers, FragmentBuffers, PerFragment} \subseteq Nat \ {0}
  /\ \A s \in Sources : /\ s \in Seq(FileKinds)
                        /\ \A f \in ToSet(s) : (f.dup => ~f.tail) /\ (f.blocks = 0 => f.tail)

VARIABLES
  source,
  next,        \* the reader's next sequence number
  reading,     \* the reader has a buffer and is about to put it
  fromReader, fromDeflate,
  deflator,    \* per deflator: its step and sequence number
  sequence,    \* get_file_buffer's next number
  blockHash,   \* block_hash: buffers that came too early
  pc, after,   \* the main thread's next step, and what follows an unlock
  thresh,      \* of the file in hand
  held,        \* buffers of a possible duplicate
  done,        \* the sequence numbers in the order the main thread used them (history)
  fill,        \* tails in the open fragment
  locked, pending, outstanding,
  toFrag,      \* fragments in to_frag
  fragDeflator,
  toWriter, fromWriter,
  readerUsed, writerUsed, fragmentUsed   \* buffers in use, of each cache
vars == <<source, next, reading, fromReader, fromDeflate, deflator, sequence, blockHash, pc, after,
          thresh, held, done, fill, locked, pending, outstanding, toFrag, fragDeflator, toWriter,
          fromWriter, readerUsed, writerUsed, fragmentUsed>>
readerVars == <<source, next, reading, fromReader>>
orderVars == <<sequence, blockHash, done>>
mainVars == <<pc, after, thresh, held>>
fragVars == <<fill, locked, pending, outstanding, toFrag>>
writeVars == <<toWriter, fromWriter>>

\* What the reader sends, by sequence number from 0: blocks and tails.
Stream ==
  LET OfFile(f) == [k \in 1 .. f.blocks + (IF f.tail THEN 1 ELSE 0) |->
                      [file |-> f, block |-> k - 1, tail |-> k > f.blocks]]
  IN  FlattenSeq([k \in 1 .. Len(source) |-> OfFile(source[k])])
Total == Len(Stream)
Item(n) == Stream[n + 1]

Idle == [step |-> "idle", seq |-> -1]

Init ==
  /\ source \in Sources
  /\ next = 0 /\ reading = FALSE /\ fromReader = <<>> /\ fromDeflate = <<>>
  /\ deflator = [d \in Deflators |-> Idle]
  /\ sequence = 0 /\ blockHash = {} /\ done = <<>>
  /\ pc = "take" /\ after = "take" /\ thresh = 0 /\ held = 0
  /\ fill = 0 /\ locked = FALSE /\ pending = 0 /\ outstanding = 0 /\ toFrag = 0
  /\ fragDeflator = [d \in FragDeflators |-> "idle"]
  /\ toWriter = <<>> /\ fromWriter = FALSE
  /\ readerUsed = 0 /\ writerUsed = 0 /\ fragmentUsed = 0

-----------------------------------------------------------------------------
(* The reader: reader_read_file for each file.                             *)

ReaderGet ==
  /\ ~reading /\ next < Total /\ readerUsed < ReaderBuffers
  /\ readerUsed' = readerUsed + 1
  /\ reading' = TRUE
  /\ UNCHANGED <<source, next, fromReader, fromDeflate, deflator, orderVars, mainVars, fragVars,
                 fragDeflator, writeVars, writerUsed, fragmentUsed>>

\* Tails pass the deflators by.
ReaderPut ==
  /\ reading
  /\ IF Item(next).tail
     THEN /\ Len(fromDeflate) < ReaderBuffers
          /\ fromDeflate' = Append(fromDeflate, next)
          /\ UNCHANGED fromReader
     ELSE /\ Len(fromReader) < ReaderBuffers
          /\ fromReader' = Append(fromReader, next)
          /\ UNCHANGED fromDeflate
  /\ next' = next + 1
  /\ reading' = FALSE
  /\ UNCHANGED <<source, deflator, orderVars, mainVars, fragVars, fragDeflator, writeVars,
                 readerUsed, writerUsed, fragmentUsed>>

-----------------------------------------------------------------------------
(* deflator.                                                               *)

DeflatorTake(d) ==
  /\ deflator[d].step = "idle" /\ fromReader # <<>>
  /\ deflator' = [deflator EXCEPT ![d] = [step |-> "taken", seq |-> Head(fromReader)]]
  /\ fromReader' = Tail(fromReader)
  /\ UNCHANGED <<source, next, reading, fromDeflate, orderVars, mainVars, fragVars, fragDeflator,
                 writeVars, readerUsed, writerUsed, fragmentUsed>>

\* cache_get, then compress and give the reader's buffer back.
PutBackNot(used) == used
PutBackTwice(used) == used - 2
PutBack(used) == used - 1

Deflate(d) ==
  /\ deflator[d].step = "taken" /\ writerUsed < WriterBuffers
  /\ writerUsed' = writerUsed + 1
  /\ readerUsed' = PutBack(readerUsed)
  /\ deflator' = [deflator EXCEPT ![d].step = "deflated"]
  /\ UNCHANGED <<readerVars, fromDeflate, orderVars, mainVars, fragVars, fragDeflator, writeVars,
                 fragmentUsed>>

DeflatorPut(d) ==
  /\ deflator[d].step = "deflated" /\ Len(fromDeflate) < ReaderBuffers
  /\ fromDeflate' = Append(fromDeflate, deflator[d].seq)
  /\ deflator' = [deflator EXCEPT ![d] = Idle]
  /\ UNCHANGED <<readerVars, orderVars, mainVars, fragVars, fragDeflator, writeVars, readerUsed,
                 writerUsed, fragmentUsed>>

-----------------------------------------------------------------------------
(* The main thread: get_file_buffer.                                       *)

InOrderNot(n) == TRUE
InOrder(n) == n = sequence

\* A buffer that comes too early goes to the hash.
PushBuffer ==
  /\ pc = "take" /\ sequence \notin blockHash /\ fromDeflate # <<>> /\ ~InOrder(Head(fromDeflate))
  /\ blockHash' = blockHash \cup {Head(fromDeflate)}
  /\ fromDeflate' = Tail(fromDeflate)
  /\ UNCHANGED <<readerVars, deflator, sequence, done, mainVars, fragVars, fragDeflator, writeVars,
                 readerUsed, writerUsed, fragmentUsed>>

\* The buffer n is next.
Got(n) ==
  /\ pc = "take"
  /\ \/ /\ sequence \in blockHash /\ n = sequence
        /\ blockHash' = blockHash \ {n}
        /\ UNCHANGED fromDeflate
     \/ /\ sequence \notin blockHash /\ fromDeflate # <<>>
        /\ n = Head(fromDeflate) /\ InOrder(n)
        /\ fromDeflate' = Tail(fromDeflate)
        /\ UNCHANGED blockHash
  /\ sequence' = sequence + 1
  /\ done' = Append(done, n)
  /\ UNCHANGED <<readerVars, deflator, toFrag, fragDeflator, readerUsed, fragmentUsed>>

-----------------------------------------------------------------------------
(* The main thread: write_file and what it calls.                          *)

LastOfFile(it) == it.block + 1 = it.file.blocks + (IF it.file.tail THEN 1 ELSE 0)

\* After a file's last block.
FileEnd(it) == CASE it.file.dup -> "compare" [] OTHER -> "unlock"

\* How many blocks a possible duplicate gives to the writer before it is
\* compared: the rest fits into what the fragments outstanding leave.
ThreshOfAll(file) == 0
Thresh(file) ==
  IF ~file.dup THEN file.blocks
  ELSE IF file.blocks > WriterBuffers - outstanding THEN file.blocks - (WriterBuffers - outstanding)
  ELSE 0

\* write_file_blocks and write_file_blocks_dup, a block at a time; the first
\* locks the fragments.
TakeBlock(n) ==
  LET it == Item(n)
      th == IF it.block = 0 THEN Thresh(it.file) ELSE thresh
  IN  /\ Got(n) /\ ~it.tail
      /\ thresh' = th
      /\ locked' = TRUE
      /\ IF it.block < th THEN toWriter' = Append(toWriter, "buffer") /\ UNCHANGED held
                          ELSE held' = held + 1 /\ UNCHANGED toWriter
      /\ pc' = IF LastOfFile(it) THEN FileEnd(it) ELSE "take"
      /\ after' = "take"
      /\ UNCHANGED <<fill, pending, outstanding, fromWriter, writerUsed>>

\* The tail of a file with blocks is read before the unlock and goes to a
\* fragment after it; a file that is all tail goes there at once.
TakeTail(n) ==
  /\ Got(n) /\ Item(n).tail
  /\ pc' = IF Item(n).file.blocks > 0 THEN "unlock" ELSE "fill"
  /\ after' = IF Item(n).file.blocks > 0 THEN "fill" ELSE "take"
  /\ UNCHANGED <<thresh, held, fill, locked, pending, outstanding, writeVars, writerUsed>>

\* duplicate says no: the buffers held go to the writer.
Unique ==
  /\ pc = "compare"
  /\ toWriter' = toWriter \o [k \in 1 .. held |-> "buffer"]
  /\ held' = 0
  /\ pc' = "unlock"
  /\ UNCHANGED <<readerVars, fromDeflate, deflator, orderVars, after, thresh, fragVars, fragDeflator,
                 fromWriter, readerUsed, writerUsed, fragmentUsed>>

\* duplicate says yes: they are given back, and what was written is flushed.
Duplicate ==
  /\ pc = "compare"
  /\ writerUsed' = writerUsed - held
  /\ held' = 0
  /\ toWriter' = IF thresh > 0 THEN Append(toWriter, "flush") ELSE toWriter
  /\ pc' = IF thresh > 0 THEN "flush" ELSE "unlock"
  /\ UNCHANGED <<readerVars, fromDeflate, deflator, orderVars, after, thresh, fragVars, fragDeflator,
                 fromWriter, readerUsed, fragmentUsed>>

Flushed ==
  /\ pc \in {"flush", "lastflush"} /\ fromWriter
  /\ fromWriter' = FALSE
  /\ pc' = IF pc = "flush" THEN "unlock" ELSE "exited"
  /\ UNCHANGED <<readerVars, fromDeflate, deflator, orderVars, after, thresh, held, fragVars,
                 fragDeflator, toWriter, readerUsed, writerUsed, fragmentUsed>>

\* unlock_fragments.
UnlockPending ==
  /\ pc = "unlock" /\ pending > 0
  /\ pending' = pending - 1
  /\ outstanding' = outstanding - 1
  /\ toWriter' = Append(toWriter, "buffer")
  /\ UNCHANGED <<readerVars, fromDeflate, deflator, orderVars, mainVars, fill, locked, toFrag,
                 fragDeflator, fromWriter, readerUsed, writerUsed, fragmentUsed>>

Unlock ==
  /\ pc = "unlock" /\ pending = 0
  /\ locked' = FALSE
  /\ pc' = after
  /\ UNCHANGED <<readerVars, fromDeflate, deflator, orderVars, after, thresh, held, fill, pending,
                 outstanding, toFrag, fragDeflator, writeVars, readerUsed, writerUsed, fragmentUsed>>

\* write_fragment.
WriteFragment ==
  /\ toFrag' = toFrag + 1
  /\ outstanding' = outstanding + 1
  /\ fill' = 0
  /\ UNCHANGED <<readerVars, fromDeflate, deflator, orderVars, thresh, held, locked, pending,
                 fragDeflator, writeVars, readerUsed, writerUsed, fragmentUsed>>

\* get_and_fill_fragment: write a full fragment, open one when there is none,
\* copy the tail and give its buffer back.
FillFull == pc = "fill" /\ fill = PerFragment /\ WriteFragment /\ UNCHANGED <<pc, after>>

Fill ==
  /\ pc = "fill" /\ fill < PerFragment
  /\ IF fill = 0 THEN fragmentUsed < FragmentBuffers /\ fragmentUsed' = fragmentUsed + 1
                 ELSE UNCHANGED fragmentUsed
  /\ fill' = fill + 1
  /\ readerUsed' = PutBack(readerUsed)
  /\ pc' = "take"
  /\ UNCHANGED <<readerVars, fromDeflate, deflator, orderVars, after, thresh, held, locked, pending,
                 outstanding, toFrag, fragDeflator, writeVars, writerUsed>>

\* The end of main: the last fragment, an unlock, the wait for the fragments
\* outstanding and a flush.
LastFragment ==
  /\ pc = "take" /\ sequence = Total
  /\ IF fill > 0 THEN WriteFragment
     ELSE UNCHANGED <<readerVars, fromDeflate, deflator, orderVars, thresh, held, fragVars,
                      fragDeflator, writeVars, readerUsed, writerUsed, fragmentUsed>>
  /\ pc' = "unlock" /\ after' = "drain"

Drain ==
  /\ pc = "drain" /\ outstanding = 0
  /\ toWriter' = Append(toWriter, "flush")
  /\ pc' = "lastflush"
  /\ UNCHANGED <<readerVars, fromDeflate, deflator, orderVars, after, thresh, held, fragVars,
                 fragDeflator, fromWriter, readerUsed, writerUsed, fragmentUsed>>

-----------------------------------------------------------------------------
(* frag_deflator and writer.                                               *)

FragDeflatorTake(d) ==
  /\ fragDeflator[d] = "idle" /\ toFrag > 0
  /\ toFrag' = toFrag - 1
  /\ fragDeflator' = [fragDeflator EXCEPT ![d] = "taken"]
  /\ UNCHANGED <<readerVars, fromDeflate, deflator, orderVars, mainVars, fill, locked, pending,
                 outstanding, writeVars, readerUsed, writerUsed, fragmentUsed>>

FragDeflate(d) ==
  /\ fragDeflator[d] = "taken" /\ writerUsed < WriterBuffers
  /\ writerUsed' = writerUsed + 1
  /\ fragDeflator' = [fragDeflator EXCEPT ![d] = "deflated"]
  /\ UNCHANGED <<readerVars, fromDeflate, deflator, orderVars, mainVars, fragVars, writeVars,
                 readerUsed, fragmentUsed>>

\* Under the mutex: the fragment gets its place, or it must be put off.
FragPlace(d) ==
  /\ fragDeflator[d] = "deflated"
  /\ outstanding' = IF locked THEN outstanding ELSE outstanding - 1
  /\ fragDeflator' = [fragDeflator EXCEPT ![d] = IF locked THEN "deferred" ELSE "placed"]
  /\ UNCHANGED <<readerVars, fromDeflate, deflator, orderVars, mainVars, fill, locked, pending, toFrag,
                 writeVars, readerUsed, writerUsed, fragmentUsed>>

\* Then the buffer goes to the writer, or to the pending ones, and the
\* fragment's is given back.
FragEnd(d) ==
  /\ \/ /\ fragDeflator[d] = "placed"
        /\ toWriter' = Append(toWriter, "buffer") /\ UNCHANGED pending
     \/ /\ fragDeflator[d] = "deferred"
        /\ pending' = pending + 1 /\ UNCHANGED toWriter
  /\ fragDeflator' = [fragDeflator EXCEPT ![d] = "idle"]
  /\ fragmentUsed' = PutBack(fragmentUsed)
  /\ UNCHANGED <<readerVars, fromDeflate, deflator, orderVars, mainVars, fill, locked, outstanding,
                 toFrag, fromWriter, readerUsed, writerUsed>>

Write ==
  /\ toWriter # <<>>
  /\ toWriter' = Tail(toWriter)
  /\ IF Head(toWriter) = "flush" THEN fromWriter' = TRUE /\ UNCHANGED writerUsed
     ELSE writerUsed' = PutBack(writerUsed) /\ UNCHANGED fromWriter
  /\ UNCHANGED <<readerVars, fromDeflate, deflator, orderVars, mainVars, fragVars, fragDeflator,
                 readerUsed, fragmentUsed>>

Running == pc # "exited"
Reader == Running /\ (ReaderGet \/ ReaderPut)
Deflator(d) == Running /\ (DeflatorTake(d) \/ Deflate(d) \/ DeflatorPut(d))
FragDeflator(d) == Running /\ (FragDeflatorTake(d) \/ FragDeflate(d) \/ FragPlace(d) \/ FragEnd(d))
Writer == Running /\ Write
Main == \/ PushBuffer \/ (\E n \in 0 .. Total - 1 : TakeBlock(n) \/ TakeTail(n))
        \/ Unique \/ Duplicate \/ Flushed \/ UnlockPending \/ Unlock
        \/ FillFull \/ Fill \/ LastFragment \/ Drain

Next == \/ Reader \/ Main \/ Writer
        \/ \E d \in Deflators : Deflator(d)
        \/ \E d \in FragDeflators : FragDeflator(d)

\* The scheduler runs every thread, and who waits for a buffer alone gets it
\* when it stays free.
Fairness == /\ WF_vars(Reader) /\ WF_vars(Main) /\ WF_vars(Writer)
            /\ \A d \in Deflators : WF_vars(Deflator(d))
            /\ \A d \in FragDeflators : WF_vars(FragDeflator(d))
Spec == Init /\ [][Next]_vars /\ Fairness

-----------------------------------------------------------------------------
TypeOK ==
  /\ next \in 0 .. Total /\ sequence \in 0 .. Total
  /\ pc \in {"take", "fill", "compare", "flush", "unlock", "drain", "lastflush", "exited"}
  /\ after \in {"take", "fill", "drain"}
  /\ fill \in 0 .. PerFragment
  /\ outstanding \in Nat /\ pending \in Nat /\ toFrag \in Nat /\ held \in Nat
  /\ Len(fromReader) <= ReaderBuffers /\ Len(fromDeflate) <= ReaderBuffers
  /\ readerUsed \in 0 .. ReaderBuffers
  /\ writerUsed \in 0 .. WriterBuffers
  /\ fragmentUsed \in 0 .. FragmentBuffers

\* Whatever order the deflators finish in, the main thread uses the blocks and
\* tails of the source in the order of the source, none twice and none left out.
OrderKept == done = [k \in 1 .. Len(done) |-> k - 1] /\ (pc = "exited" => Len(done) = Total)

\* Every buffer in use is in one thread's hands, one queue, the hash or the
\* pending list: none is lost to the cache, none given back twice.
Count(seq, P(_)) == Cardinality({k \in DOMAIN seq : P(seq[k])})
IsTail(n) == Item(n).tail
IsBlock(n) == ~Item(n).tail
AtStep(step) == Cardinality({d \in Deflators : deflator[d].step = step})
BuffersAccounted ==
  /\ readerUsed = (IF reading THEN 1 ELSE 0) + Len(fromReader) + AtStep("taken")
                  + Count(fromDeflate, IsTail) + Cardinality({n \in blockHash : IsTail(n)})
                  + (IF pc = "fill" \/ (pc = "unlock" /\ after = "fill") THEN 1 ELSE 0)
  /\ writerUsed = AtStep("deflated") + held + pending
                  + Count(fromDeflate, IsBlock) + Cardinality({n \in blockHash : IsBlock(n)})
                  + Cardinality({k \in DOMAIN toWriter : toWriter[k] = "buffer"})
                  + Cardinality({d \in FragDeflators : fragDeflator[d] \notin {"idle", "taken"}})
  /\ fragmentUsed = (IF fill > 0 THEN 1 ELSE 0) + toFrag
                    + Cardinality({d \in FragDeflators : fragDeflator[d] # "idle"})

\* While the main thread holds the blocks of a possible duplicate and waits for
\* the next, that block and the fragments outstanding find room in the cache.
RoomForNext == (pc = "take" /\ held > 0) => held + outstanding < WriterBuffers

\* The buffers of the three caches are accounted for, and enough are left.
Consistent == TypeOK /\ BuffersAccounted /\ RoomForNext

\* mksquashfs ends, however its threads are scheduled, in all but two cases: a
\* fragment joined the pending ones after they had been unlocked, or all write
\* buffers are with blocks that the main thread has not come to and with fragments
\* put off.  Nobody waits for a buffer, a queue or the lock in any other state.
Late == ~locked /\ pending > 0
Hoarded == WriterBuffers = pending + AtStep("deflated") + Count(fromDeflate, IsBlock)
                           + Cardinality({n \in blockHash : IsBlock(n)})
EndsUnlessHoarded == <>(pc = "exited" \/ Late) \/ <>[]Hoarded
=============================================================================
