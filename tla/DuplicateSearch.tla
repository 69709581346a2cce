---------------------------- MODULE DuplicateSearch ----------------------------
(***************************************************************************)
(* How mksquashfs looks for a file's data among what it wrote before: in   *)
(* the buffers of the writer's and the fragment cache, where lookups find  *)
(* what was written, is being written, or still waits, and on the          *)
(* destination when no buffer has it.  Meanwhile the fragment deflators    *)
(* and the writer use the same buffers, and files that turn out to be      *)
(* duplicates leave buffers behind for positions that are written again.   *)
(*                                                                         *)
(* Fragments has the output position and its lock, here as there: a block  *)
(* or fragment is one unit long, and here a tail fills a fragment.  A      *)
(* block's buffer is taken from the cache when the main thread comes to    *)
(* the block; Pipeline has the deflators that take it before.  Whether two *)
(* files have equal data is a free choice.                                 *)
(***************************************************************************)
EXTENDS FiniteSets, BufferCache

CONSTANTS FragDeflators,     \* the fragment deflator threads
          WriterBuffers,     \* the buffers of writer_buffer
          FragmentBuffers,   \* and of fragment_buffer
          MaxFiles,          \* bound: files in the source
          Kinds,             \* the files to check: blocks, a tail, an earlier file of its size
          MaxSearches,       \* bound: lookups, over all files
          Destinations       \* the destinations to check: block devices (TRUE) or files

ASSUME DuplicateSearchAssumption ==
  /\ {MaxFiles, MaxSearches} \subseteq Nat
  /\ \A k \in Kinds : /\ k \in [size : Nat, tail : BOOLEAN, dup : BOOLEAN]
                      /\ k.size = 0 => k.tail
  /\ Destinations \subseteq BOOLEAN
  /\ IsFiniteSet(FragDeflators) /\ IsFiniteSet(WriterBuffers)
  /\ None \notin WriterBuffers \cup FragmentBuffers \cup Nat \cup ({"position", "frag"} \X Nat)

VARIABLES
  block_device,
  writerCache, fragmentCache,
  todo,        \* what the main thread does next, up to the next file
  file,        \* the file in hand: its number, size, tail, path, first position and thresh
  blocks,      \* its blocks so far: the buffer of each, or None
  committed,   \* the blocks of the files that have an inode, with their positions (history)
  open,        \* fragment_data: the open fragment's buffer, or None
  fragments,
  fragTable,   \* fragment_table's start_blocks, of those assigned
  bytes, locked,
  pending,     \* frag_locked_list: buffers
  toFrag, toWriter, fromWriter,
  deflator,    \* per fragment deflator: its step and its two buffers
  writing,     \* the buffer that the writer has written, or None
  disk,
  searches,    \* lookups so far
  pins, got,   \* the buffers that the main thread looks at: of blocks, and of a fragment or None
  leaked,      \* per write buffer: uses that nobody will put back (history)
  spoiled      \* fragments read before they had a place (history)
vars == <<block_device, writerCache, fragmentCache, todo, file, blocks, committed, open, fragments,
          fragTable, bytes, locked, pending, toFrag, toWriter, fromWriter, deflator, writing, disk,
          searches, pins, got, leaked, spoiled>>
fileVars == <<file, blocks, committed>>
fragVars == <<open, fragments, toFrag>>
placeVars == <<fragTable, bytes>>
writeVars == <<writing, disk>>
searchVars == <<searches, pins, got, leaked, spoiled>>

FragUnit(f) == <<"fragment", f>>
BlockUnit(f, b) == <<"block", f.number, b>>
AtPosition(p) == <<"position", p>>   \* the index of a block's buffer
FragIndexPlain(f) == <<"position", f>>
FragIndex(f) == <<"frag", f>>        \* f + FRAG_INDEX, of a compressed fragment's
FragNumber(b) == fragmentCache.buf[b].index
Flush == <<"flush">>
Idle == [step |-> "idle", from |-> None, to |-> None]
NoFile == [number |-> 0, size |-> 0, tail |-> FALSE, dup |-> FALSE, start |-> 0, thresh |-> 0]
With(f, x, y) == [z \in DOMAIN f \cup {x} |-> IF z = x THEN y ELSE f[z]]

Init ==
  /\ block_device \in Destinations
  /\ writerCache = EmptyCache(WriterBuffers) /\ fragmentCache = EmptyCache(FragmentBuffers)
  /\ todo = <<>> /\ file = NoFile /\ blocks = <<>> /\ committed = {}
  /\ open = None /\ fragments = 0 /\ fragTable = <<>> /\ bytes = 0
  /\ locked = FALSE /\ pending = <<>>
  /\ toFrag = <<>> /\ toWriter = <<>> /\ fromWriter = FALSE
  /\ deflator = [d \in FragDeflators |-> Idle]
  /\ writing = None /\ disk = <<>>
  /\ searches = 0 /\ pins = <<>> /\ got = None
  /\ leaked = [b \in WriterBuffers |-> 0] /\ spoiled = {}

At(step) == todo # <<>> /\ Head(todo) = step
Then(steps) == todo' = steps \o Tail(todo)

\* fragments_outstanding.
Outstanding == Len(toFrag) + Len(pending)
               + Cardinality({d \in FragDeflators : deflator[d].step \in {"taken", "compressed", "deferred"}})

-----------------------------------------------------------------------------
(* frag_deflator and writer.                                               *)

Now(d, step, from, to) == deflator' = [deflator EXCEPT ![d] = [step |-> step, from |-> from, to |-> to]]

FragTake(d) ==
  /\ deflator[d].step = "idle" /\ toFrag # <<>>
  /\ Now(d, "taken", Head(toFrag), None)
  /\ toFrag' = Tail(toFrag)
  /\ UNCHANGED <<writerCache, fragmentCache, todo, fileVars, open, fragments, placeVars, locked,
                 pending, toWriter, fromWriter, writeVars, searchVars>>

\* Lookups find the write buffer before the data is in it; but they find the
\* fragment's own buffer first, which is in use.
FragCompress(d) ==
  /\ deflator[d].step = "taken" /\ CanGet(writerCache)
  /\ LET from == deflator[d].from
         to   == NextFree(writerCache)
     IN  /\ writerCache' = Get(writerCache, to, FragIndex(FragNumber(from)), fragmentCache.buf[from].data)
         /\ Now(d, "compressed", from, to)
  /\ UNCHANGED <<fragmentCache, todo, fileVars, fragVars, placeVars, locked, pending, toWriter,
                 fromWriter, writeVars, searchVars>>

\* The place of the fragment in the write buffer b, and the buffer to the writer.
FragOf(b) == writerCache.buf[b].index[2]
Assign(b) == /\ fragTable' = With(fragTable, FragOf(b), bytes)
             /\ bytes' = bytes + 1

FragPlace(d) ==
  /\ deflator[d].step = "compressed"
  /\ IF locked
     THEN Now(d, "deferred", deflator[d].from, deflator[d].to) /\ UNCHANGED placeVars
     ELSE Now(d, "placed", deflator[d].from, deflator[d].to) /\ Assign(deflator[d].to)
  /\ UNCHANGED <<writerCache, fragmentCache, todo, fileVars, fragVars, locked, pending, toWriter,
                 fromWriter, writeVars, searchVars>>

FragHandOver(d) ==
  /\ LET b == deflator[d].to
     IN  \/ /\ deflator[d].step = "placed"
            /\ toWriter' = Append(toWriter, <<b, fragTable[FragOf(b)]>>)
            /\ UNCHANGED pending
         \/ /\ deflator[d].step = "deferred"
            /\ pending' = Append(pending, b)
            /\ UNCHANGED toWriter
  /\ Now(d, "done", deflator[d].from, None)
  /\ UNCHANGED <<writerCache, fragmentCache, todo, fileVars, fragVars, placeVars, locked, fromWriter,
                 writeVars, searchVars>>

FragPutBack(d) ==
  /\ deflator[d].step = "done"
  /\ fragmentCache' = Put(fragmentCache, deflator[d].from)
  /\ deflator' = [deflator EXCEPT ![d] = Idle]
  /\ UNCHANGED <<writerCache, todo, fileVars, fragVars, placeVars, locked, pending, toWriter,
                 fromWriter, writeVars, searchVars>>

Write ==
  /\ writing = None /\ toWriter # <<>>
  /\ toWriter' = Tail(toWriter)
  /\ LET head == Head(toWriter)
     IN  IF head = Flush THEN fromWriter' = TRUE /\ UNCHANGED writeVars
         ELSE /\ disk' = With(disk, head[2], writerCache.buf[head[1]].data)
              /\ writing' = head[1]
              /\ UNCHANGED fromWriter
  /\ UNCHANGED <<writerCache, fragmentCache, todo, fileVars, fragVars, placeVars, locked, pending,
                 deflator, searchVars>>

WriterPutBack ==
  /\ writing # None
  /\ writerCache' = Put(writerCache, writing)
  /\ writing' = None
  /\ UNCHANGED <<fragmentCache, todo, fileVars, fragVars, placeVars, locked, pending, toWriter,
                 fromWriter, deflator, disk, searchVars>>

-----------------------------------------------------------------------------
(* The main thread: a file's blocks.                                       *)

\* write_file_frag.
SmallFile(kind) ==
  /\ kind.size = 0
  /\ file' = [NoFile EXCEPT !.number = file.number + 1, !.tail = TRUE, !.dup = kind.dup]
  /\ todo' = IF kind.dup THEN <<"search">> ELSE <<"fill">>
  /\ UNCHANGED locked

Thresh(size) ==
  LET room == Cardinality(WriterBuffers) - Outstanding
  IN  IF size > room THEN size - room ELSE 0

\* write_file_blocks and write_file_blocks_dup.
BlocksFile(kind) ==
  /\ kind.size > 0
  /\ file' = [number |-> file.number + 1, size |-> kind.size, tail |-> kind.tail, dup |-> kind.dup,
              start |-> bytes, thresh |-> IF kind.dup THEN Thresh(kind.size) ELSE kind.size]
  /\ todo' = <<"blocks">>
  /\ locked' = TRUE

NextFile ==
  /\ todo = <<>> /\ file.number < MaxFiles
  /\ \E kind \in Kinds : SmallFile(kind) \/ BlocksFile(kind)
  /\ blocks' = <<>>
  /\ UNCHANGED <<writerCache, fragmentCache, committed, fragVars, placeVars, pending, toWriter,
                 fromWriter, deflator, writeVars, searchVars>>

WriteBlock ==
  /\ At("blocks") /\ Len(blocks) < file.size /\ CanGet(writerCache)
  /\ LET b == NextFree(writerCache)
     IN  /\ writerCache' = Rehash(Get(writerCache, b, None, BlockUnit(file, Len(blocks))),
                                  b, AtPosition(bytes))
         /\ IF Len(blocks) < file.thresh
            THEN blocks' = Append(blocks, None) /\ toWriter' = Append(toWriter, <<b, bytes>>)
            ELSE blocks' = Append(blocks, b) /\ UNCHANGED toWriter
  /\ bytes' = bytes + 1
  /\ UNCHANGED <<fragmentCache, todo, file, committed, fragVars, fragTable, locked, pending,
                 fromWriter, deflator, writeVars, searchVars>>

\* The blocks of the file in hand, until it turns out to be a duplicate.
Units == {<<file.start + k, BlockUnit(file, k)>> : k \in 0 .. (IF At("putback") THEN 0 ELSE Len(blocks)) - 1}
Fill == IF file.tail THEN <<"fill">> ELSE <<>>

\* After the last block: a possible duplicate is compared, another has its inode.
EndBlocks ==
  /\ At("blocks") /\ Len(blocks) = file.size
  /\ IF file.dup THEN Then(<<"search">>) /\ UNCHANGED committed
     ELSE Then(<<"unlock">> \o Fill) /\ committed' = committed \cup Units
  /\ UNCHANGED <<writerCache, fragmentCache, file, blocks, fragVars, placeVars, locked, pending,
                 toWriter, fromWriter, deflator, writeVars, searchVars>>

-----------------------------------------------------------------------------
(* The main thread: duplicate.                                             *)

Looking == At("search") /\ pins = <<>> /\ got = None

\* A lookup of a block, of an earlier file or of this one, that finds a buffer;
\* one that finds none reads the destination and changes nothing.  Two blocks are
\* compared, or one is added to a checksum while a fragment is looked at.
LookupBlock ==
  /\ At("search") /\ file.size > 0 /\ searches < MaxSearches
  /\ IF got = None THEN Len(pins) < 2 ELSE pins = <<>>
  /\ \E u \in committed \cup Units :
       /\ Found(writerCache, AtPosition(u[1]))
       /\ LET b == Find(writerCache, AtPosition(u[1]))
          IN  pins' = Append(pins, b) /\ writerCache' = Lookup(writerCache, b)
  /\ searches' = searches + 1
  /\ UNCHANGED <<fragmentCache, todo, fileVars, fragVars, placeVars, locked, pending, toWriter,
                 fromWriter, deflator, writeVars, got, leaked, spoiled>>

PutBlock ==
  /\ pins # <<>> /\ At("search")
  /\ writerCache' = Put(writerCache, Head(pins))
  /\ pins' = Tail(pins)
  /\ UNCHANGED <<fragmentCache, todo, fileVars, fragVars, placeVars, locked, pending, toWriter,
                 fromWriter, deflator, writeVars, searches, got, leaked, spoiled>>

\* get_fragment: the fragment's buffer is found, or a compressed one is looked
\* for, which nobody puts back, and a buffer to read it into.
GetFragment(f) ==
  /\ Looking /\ file.tail /\ searches < MaxSearches
  /\ searches' = searches + 1
  /\ IF Found(fragmentCache, f)
     THEN /\ got' = Find(fragmentCache, f)
          /\ fragmentCache' = Lookup(fragmentCache, got')
          /\ UNCHANGED <<todo, writerCache, leaked>>
     ELSE /\ todo' = <<"read", f>> \o todo
          /\ IF Found(writerCache, FragIndex(f))
             THEN LET b == Find(writerCache, FragIndex(f))
                  IN  writerCache' = Lookup(writerCache, b) /\ leaked' = [leaked EXCEPT ![b] = @ + 1]
             ELSE UNCHANGED <<writerCache, leaked>>
          /\ UNCHANGED <<got, fragmentCache>>
  /\ UNCHANGED <<fileVars, fragVars, placeVars, locked, pending, toWriter, fromWriter, deflator,
                 writeVars, pins, spoiled>>

\* What is read: the compressed buffer's data, or the destination's, provided
\* that the fragment's entry in the table is filled in.
Garbage == <<"garbage">>
DataOf(f) ==
  CASE f \notin DOMAIN fragTable -> Garbage
    [] f \in DOMAIN fragTable /\ Found(writerCache, FragIndex(f)) ->
         writerCache.buf[Find(writerCache, FragIndex(f))].data
    [] OTHER -> IF fragTable[f] \in DOMAIN disk THEN disk[fragTable[f]] ELSE Garbage

ReadFragment ==
  /\ At("read") /\ CanGet(fragmentCache)
  /\ LET f == todo[2]
     IN  /\ got' = NextFree(fragmentCache)
         /\ fragmentCache' = Get(fragmentCache, got', f, DataOf(f))
         /\ spoiled' = IF f \in DOMAIN fragTable THEN spoiled ELSE spoiled \cup {f}
  /\ todo' = Tail(Tail(todo))
  /\ UNCHANGED <<writerCache, fileVars, fragVars, placeVars, locked, pending, toWriter, fromWriter,
                 deflator, writeVars, searches, pins, leaked>>

PutFragment ==
  /\ got # None /\ pins = <<>> /\ At("search")
  /\ fragmentCache' = Put(fragmentCache, got)
  /\ got' = None
  /\ UNCHANGED <<writerCache, todo, fileVars, fragVars, placeVars, locked, pending, toWriter,
                 fromWriter, deflator, writeVars, searches, pins, leaked, spoiled>>

Held == SubSeq(blocks, file.thresh + 1, Len(blocks))
Unlock == IF file.size > 0 THEN <<"unlock">> ELSE <<>>

\* No duplicate: the blocks held go to the writer, the tail to a fragment.
Unique ==
  /\ Looking
  /\ committed' = committed \cup Units
  /\ toWriter' = toWriter \o [k \in 1 .. Len(Held) |-> <<Held[k], file.start + file.thresh + k - 1>>]
  /\ blocks' = <<>>
  /\ Then(Fill \o Unlock)
  /\ UNCHANGED <<writerCache, fragmentCache, file, fragVars, placeVars, locked, pending, fromWriter,
                 deflator, writeVars, searchVars>>

\* A duplicate: the blocks held are put back, one by one, and the position goes back.
Duplicate ==
  /\ Looking
  /\ Then(<<"putback">>)
  /\ UNCHANGED <<writerCache, fragmentCache, fileVars, fragVars, placeVars, locked, pending, toWriter,
                 fromWriter, deflator, writeVars, searchVars>>

PutHeld ==
  /\ At("putback")
  /\ \E k \in 1 .. Len(blocks) :
       /\ blocks[k] # None /\ \A j \in 1 .. k - 1 : blocks[j] = None
       /\ writerCache' = Put(writerCache, blocks[k])
       /\ blocks' = [blocks EXCEPT ![k] = None]
  /\ UNCHANGED <<fragmentCache, todo, file, committed, fragVars, placeVars, locked, pending, toWriter,
                 fromWriter, deflator, writeVars, searchVars>>

MustFlush == file.thresh # 0 /\ ~block_device

RollBack ==
  /\ At("putback") /\ \A k \in 1 .. Len(blocks) : blocks[k] = None
  /\ blocks' = <<>>
  /\ bytes' = IF file.size > 0 THEN file.start ELSE bytes
  /\ toWriter' = IF MustFlush THEN Append(toWriter, Flush) ELSE toWriter
  /\ Then((IF MustFlush THEN <<"truncate">> ELSE <<>>) \o Unlock)
  /\ UNCHANGED <<writerCache, fragmentCache, file, committed, fragVars, fragTable, locked, pending,
                 fromWriter, deflator, writeVars, searchVars>>

Truncate ==
  /\ At("truncate") /\ fromWriter
  /\ fromWriter' = FALSE
  /\ disk' = [p \in {q \in DOMAIN disk : q < bytes} |-> disk[p]]
  /\ Then(<<>>)
  /\ UNCHANGED <<writerCache, fragmentCache, fileVars, fragVars, placeVars, locked, pending, toWriter,
                 deflator, writing, searchVars>>

-----------------------------------------------------------------------------
(* The main thread: fragments.                                             *)

\* write_fragment.
CloseFragment ==
  /\ toFrag' = Append(toFrag, open)
  /\ fragments' = fragments + 1
  /\ open' = None
  /\ UNCHANGED <<writerCache, fragmentCache, fileVars, placeVars, locked, pending, toWriter,
                 fromWriter, deflator, writeVars, searchVars>>

\* get_and_fill_fragment.
FillFull == At("fill") /\ open # None /\ CloseFragment /\ UNCHANGED todo

FillFragment ==
  /\ At("fill") /\ open = None /\ CanGet(fragmentCache)
  /\ open' = NextFree(fragmentCache)
  /\ fragmentCache' = Get(fragmentCache, open', fragments, FragUnit(fragments))
  /\ Then(<<>>)
  /\ UNCHANGED <<writerCache, fileVars, fragments, toFrag, placeVars, locked, pending, toWriter,
                 fromWriter, deflator, writeVars, searchVars>>

\* unlock_fragments.
UnlockPending ==
  /\ At("unlock") /\ pending # <<>>
  /\ Assign(Head(pending))
  /\ toWriter' = Append(toWriter, <<Head(pending), bytes>>)
  /\ pending' = Tail(pending)
  /\ UNCHANGED <<writerCache, fragmentCache, todo, fileVars, fragVars, locked, fromWriter, deflator,
                 writeVars, searchVars>>

UnlockDone ==
  /\ At("unlock") /\ pending = <<>>
  /\ locked' = FALSE
  /\ Then(<<>>)
  /\ UNCHANGED <<writerCache, fragmentCache, fileVars, fragVars, placeVars, pending, toWriter,
                 fromWriter, deflator, writeVars, searchVars>>

\* The end of main, up to the wait for the fragments outstanding.
LastFragment ==
  /\ todo = <<>>
  /\ todo' = <<"unlock", "drain">>
  /\ IF open # None THEN CloseFragment
     ELSE UNCHANGED <<writerCache, fragmentCache, fileVars, fragVars, placeVars, locked, pending,
                      toWriter, fromWriter, deflator, writeVars, searchVars>>

Drain ==
  /\ At("drain") /\ Outstanding = 0
  /\ todo' = <<"drained">>
  /\ UNCHANGED <<writerCache, fragmentCache, fileVars, fragVars, placeVars, locked, pending, toWriter,
                 fromWriter, deflator, writeVars, searchVars>>

Main == /\ UNCHANGED block_device
        /\ \/ NextFile \/ WriteBlock \/ EndBlocks \/ LookupBlock \/ PutBlock
           \/ (\E f \in 0 .. fragments - (IF open = None THEN 1 ELSE 0) : GetFragment(f))
           \/ ReadFragment \/ PutFragment \/ Unique \/ Duplicate \/ PutHeld \/ RollBack \/ Truncate
           \/ FillFull \/ FillFragment \/ UnlockPending \/ UnlockDone \/ LastFragment \/ Drain
FragDeflator(d) == /\ UNCHANGED block_device
                   /\ FragTake(d) \/ FragCompress(d) \/ FragPlace(d) \/ FragHandOver(d) \/ FragPutBack(d)
Writer == UNCHANGED block_device /\ (Write \/ WriterPutBack)

Next == Main \/ (\E d \in FragDeflators : FragDeflator(d)) \/ Writer

Spec == Init /\ [][Next]_vars

-----------------------------------------------------------------------------
\* The free list has the buffers that are kept and not in use, the hash those
\* that are kept, each once.
CacheOK(cache) ==
  /\ IsInjective(cache.hash) /\ IsInjective(cache.free)
  /\ ToSet(cache.hash) = {b \in DOMAIN cache.buf : cache.buf[b].index # None}
  /\ ToSet(cache.free) = {b \in ToSet(cache.hash) : cache.buf[b].used = 0}

TypeOK ==
  /\ CacheOK(writerCache) /\ CacheOK(fragmentCache)
  /\ file.number \in 0 .. MaxFiles /\ Len(blocks) <= file.size /\ searches \in 0 .. MaxSearches
  /\ bytes \in Nat /\ DOMAIN fragTable \subseteq 0 .. fragments - 1

\* A buffer's use count is the number of threads, queues and lists that have it,
\* and of the lookups of get_fragment that put nothing back: no other use is lost,
\* and no buffer is free while somebody has it.
Is(e, S) == IF e \in S THEN 1 ELSE 0
CountIn(s, S) == Cardinality({k \in 1 .. Len(s) : s[k] \in S})
UseCounts ==
  /\ \A b \in WriterBuffers : writerCache.buf[b].used =
       leaked[b] + CountIn(pins, {b}) + Is(writing, {b}) + CountIn(blocks, {b})
       + CountIn(toWriter, {b} \X Nat) + CountIn(pending, {b})
       + Cardinality({d \in FragDeflators : deflator[d].to = b})
  /\ \A b \in FragmentBuffers : fragmentCache.buf[b].used =
       Is(open, {b}) + Is(got, {b}) + CountIn(toFrag, {b})
       + Cardinality({d \in FragDeflators : deflator[d].from = b})

\* Both caches are consistent: their lists, and who uses what.
Consistent == TypeOK /\ UseCounts

\* A block of this or an earlier file is found where the comparison looks for it,
\* in a buffer or on the destination: never the block of a file that was rolled
\* back and left its buffer, or its data, at the same position.
BlockFound ==
  \A u \in committed \cup Units :
    IF Found(writerCache, AtPosition(u[1]))
    THEN writerCache.buf[Find(writerCache, AtPosition(u[1]))].data = u[2]
    ELSE u[1] \in DOMAIN disk /\ disk[u[1]] = u[2]

\* So is a fragment, whichever of its two buffers have been used for something
\* else, unless it is one that is put off or was read when it was.
FragmentFound ==
  \A f \in 0 .. fragments - 1 :
    LET putOff == f \notin DOMAIN fragTable
        data   == IF Found(fragmentCache, f) THEN fragmentCache.buf[Find(fragmentCache, f)].data
                  ELSE DataOf(f)
    IN  \/ data = FragUnit(f)
        \/ f \in spoiled
        \/ putOff /\ ~Found(fragmentCache, f) /\ \E k \in DOMAIN pending : FragOf(pending[k]) = f

\* The threads stop only at the end, for a fragment put off after the last
\* unlock, or when every write buffer is held by a fragment that is put off, by a
\* block that is compared, or by nobody who would put it back.  No step can be
\* undone and every counter is bounded, so that all runs stop.
HeldUp == \A b \in WriterBuffers : leaked[b] > 0 \/ b \in ToSet(pending) \cup ToSet(blocks)
StopsOnlyHeldUp == ENABLED Next \/ At("drained") \/ (At("drain") /\ pending # <<>>) \/ HeldUp
=============================================================================
