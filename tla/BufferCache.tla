------------------------------ MODULE BufferCache ------------------------------
(***************************************************************************)
(* The buffer cache of mksquashfs, as operators on a cache                 *)
(*     [buf  |-> per buffer: its use count, index and data,                *)
(*      hash |-> the buffers that a lookup can find, the newest first,     *)
(*      free |-> the buffers to use again, the oldest first].              *)
(* A buffer whose index is None is not a "keep" buffer.  One that is not   *)
(* used and not kept is not allocated: max_buffers is the number of them   *)
(* all.  The 65536 chains of the hash table are one, as buffers of equal   *)
(* index are in one chain.  Every operator runs under the cache's mutex.   *)
(***************************************************************************)
EXTENDS Integers, Sequences, SequencesExt

CONSTANT None      \* no buffer, no index, no data

Unallocated == [used |-> 0, index |-> None, data |-> None]
EmptyCache(buffers) == [buf |-> [b \in buffers |-> Unallocated], hash |-> <<>>, free |-> <<>>]

Allocated(cache, b) == cache.buf[b].used > 0 \/ cache.buf[b].index # None

\* The buffer that cache_lookup finds for an index: the newest.
Matches(cache, index) == {k \in 1 .. Len(cache.hash) : cache.buf[cache.hash[k]].index = index}
Found(cache, index) == Matches(cache, index) # {}
Find(cache, index) == cache.hash[Min(Matches(cache, index))]

\* cache_lookup that finds b: one more use, and b is not to be used again.
LookupUncounted(cache, b) == [cache EXCEPT !.free = RemoveFirst(@, b)]
LookupOnFreeList(cache, b) == [cache EXCEPT !.buf[b].used = @ + 1]
Lookup(cache, b) == [cache EXCEPT !.buf[b].used = @ + 1, !.free = RemoveFirst(@, b)]

\* cache_get takes the oldest of the free list, else a new buffer, else waits.
CanGet(cache) == cache.free # <<>> \/ \E b \in DOMAIN cache.buf : ~Allocated(cache, b)
NextFree(cache) ==
  IF cache.free # <<>> THEN Head(cache.free)
  ELSE CHOOSE b \in DOMAIN cache.buf : ~Allocated(cache, b)

\* cache_get that takes b, and the data its caller puts there.
Get(cache, b, index, data) ==
  LET others == RemoveFirst(cache.hash, b)
  IN  [buf  |-> [cache.buf EXCEPT ![b] = [used |-> 1, index |-> index, data |-> data]],
       hash |-> IF index = None THEN others ELSE <<b>> \o others,
       free |-> RemoveFirst(cache.free, b)]

\* cache_rehash: b is found under the index from now on.
Rehash(cache, b, index) ==
  [cache EXCEPT !.buf[b].index = index, !.hash = <<b>> \o RemoveFirst(@, b)]

\* cache_block_put: the last use of a "keep" buffer puts it at the end of the
\* free list, where lookups still find it; another is freed.
PutNotFree(cache, b) == [cache EXCEPT !.buf[b].used = IF @ > 1 THEN @ - 1 ELSE @]
PutFirst(cache, b) ==
  IF cache.buf[b].used > 1 THEN [cache EXCEPT !.buf[b].used = @ - 1]
  ELSE IF cache.buf[b].index # None
       THEN [cache EXCEPT !.buf[b].used = 0, !.free = <<b>> \o @]
       ELSE [cache EXCEPT !.buf[b] = Unallocated]
Put(cache, b) ==
  IF cache.buf[b].used > 1 THEN [cache EXCEPT !.buf[b].used = @ - 1]
  ELSE IF cache.buf[b].index # None
       THEN [cache EXCEPT !.buf[b].used = 0, !.free = Append(@, b)]
       ELSE [cache EXCEPT !.buf[b] = Unallocated]
=============================================================================
