------------------------- MODULE DuplicateSearchProofs -------------------------
(***************************************************************************)
(* Proofs about DuplicateSearch for all numbers of buffers, deflators,     *)
(* files and lookups: that the lists and use counts of both caches agree   *)
(* with who has the buffers (Consistent), and that a lookup finds the data *)
(* of the block or fragment it is for, in a buffer or on the destination   *)
(* (BlockFound, FragmentFound).                                            *)
(***************************************************************************)
EXTENDS DuplicateSearch, FiniteSetTheorems, SequenceTheorems, WellFoundedInduction, TLAPS

-----------------------------------------------------------------------------
(* The inductive invariant.                                                *)

\* What the buffers hold, and what a cache is.
Datas == {None, Garbage} \cup ({"fragment"} \X Nat) \cup ({"block"} \X Nat \X Nat)
Positions == {"position"} \X Nat
FragKeys == {"frag"} \X Nat
WriterIndexes == Positions \cup FragKeys
Caches(B, I) == [buf : [B -> [used : Nat, index : I \cup {None}, data : Datas]], hash : Seq(B), free : Seq(B)]
CacheTypes ==
  /\ writerCache \in Caches(WriterBuffers, WriterIndexes) /\ CacheOK(writerCache)
  /\ fragmentCache \in Caches(FragmentBuffers, Nat) /\ CacheOK(fragmentCache)

\* What the threads and the queues have.
Deflators == [step : {"idle"}, from : {None}, to : {None}]
             \cup [step : {"taken", "done"}, from : FragmentBuffers, to : {None}]
             \cup [step : {"compressed", "deferred", "placed"}, from : FragmentBuffers, to : WriterBuffers]
Messages == {Flush} \cup (WriterBuffers \X Nat)
HandTypes ==
  /\ blocks \in Seq(WriterBuffers \cup {None}) /\ pins \in Seq(WriterBuffers)
  /\ pending \in Seq(WriterBuffers) /\ toFrag \in Seq(FragmentBuffers) /\ toWriter \in Seq(Messages)
  /\ writing \in WriterBuffers \cup {None} /\ {open, got} \subseteq FragmentBuffers \cup {None}
  /\ leaked \in [WriterBuffers -> Nat] /\ deflator \in [FragDeflators -> Deflators]

Steps == {"search", "fill", "blocks", "unlock", "putback", "truncate", "drain", "drained"}
Todo(t) == \/ t \in Seq(Steps)
           \/ \E f \in Nat, rest \in Seq(Steps) : t = <<"read", f>> \o rest /\ rest # <<>> /\ Head(rest) = "search"
Files == [number : 0 .. MaxFiles, size : Nat, tail : BOOLEAN, dup : BOOLEAN, start : Nat, thresh : Nat]
Table(t, n) == t \in [DOMAIN t -> Nat] /\ DOMAIN t \subseteq 0 .. n - 1
MainTypes ==
  /\ Todo(todo) /\ file \in Files /\ bytes \in Nat /\ searches \in 0 .. MaxSearches
  /\ fragments \in Nat /\ Table(fragTable, fragments) /\ disk \in [DOMAIN disk -> Datas]

\* The main thread holds a file's blocks from thresh on, until it knows whether the
\* file is a duplicate; of any other file it holds none.  It reads a fragment into a
\* buffer when it has none to look at.
HeldBlocks ==
  /\ Len(blocks) <= file.size
  /\ ~At("putback") => \A k \in 1 .. Len(blocks) : blocks[k] = None <=> k <= file.thresh
  /\ ~file.dup => file.thresh = file.size
  /\ file.dup /\ blocks # <<>> => At("blocks") \/ At("search") \/ At("read") \/ At("putback")
  /\ At("read") => got = None

\* A fragment's buffers have its number as index.
Numbers(w, f, de, pe, tf, o, n, t) ==
  /\ \A d \in FragDeflators : /\ de[d].from # None => f[de[d].from].index \in 0 .. n - 1
                              /\ de[d].to # None => w[de[d].to].index \in {"frag"} \X (0 .. n - 1)
                              /\ de[d].step = "placed" => w[de[d].to].index[2] \in DOMAIN t
  /\ \A k \in 1 .. Len(pe) : w[pe[k]].index \in {"frag"} \X (0 .. n - 1)
  /\ \A k \in 1 .. Len(tf) : f[tf[k]].index \in 0 .. n - 1
  /\ o # None => f[o].index = n
Numbered == Numbers(writerCache.buf, fragmentCache.buf, deflator, pending, toFrag, open, fragments, fragTable)

\* UseCounts, as a sum over those who have the buffer.
Holding(de, b) == Cardinality({d \in FragDeflators : de[d].to = b})
Taking(de, b) == Cardinality({d \in FragDeflators : de[d].from = b})
Sum7(l, p, w, bl, tw, pe, h) == l + p + w + bl + tw + pe + h
WriterUses(l, p, w, bl, tw, pe, de, b) ==
  Sum7(l[b], CountIn(p, {b}), Is(w, {b}), CountIn(bl, {b}), CountIn(tw, {b} \X Nat), CountIn(pe, {b}), Holding(de, b))
Sum4(o, g, tf, h) == o + g + tf + h
FragUses(o, g, tf, de, b) == Sum4(Is(o, {b}), Is(g, {b}), CountIn(tf, {b}), Taking(de, b))
WriterCounts == \A b \in WriterBuffers :
  writerCache.buf[b].used = WriterUses(leaked, pins, writing, blocks, toWriter, pending, deflator, b)
FragCounts == \A b \in FragmentBuffers : fragmentCache.buf[b].used = FragUses(open, got, toFrag, deflator, b)
Counts == WriterCounts /\ FragCounts

IInv == CacheTypes /\ HandTypes /\ MainTypes /\ HeldBlocks /\ Numbered /\ Counts

-----------------------------------------------------------------------------
(* Sequences.                                                              *)

LEMMA TailFacts ==
  ASSUME NEW S, NEW s \in Seq(S), s # <<>>
  PROVE  /\ Head(s) = s[1] /\ s[1] \in S /\ 1 \in 1 .. Len(s)
         /\ Tail(s) \in Seq(S) /\ Len(Tail(s)) = Len(s) - 1
         /\ \A k \in 1 .. Len(Tail(s)) : k + 1 \in 1 .. Len(s) /\ Tail(s)[k] = s[k + 1]
OBVIOUS

LEMMA CountType ==
  ASSUME NEW T, NEW s \in Seq(T), NEW S
  PROVE  IsFiniteSet({k \in 1 .. Len(s) : s[k] \in S}) /\ CountIn(s, S) \in Nat
<1>1. Len(s) \in Nat /\ IsFiniteSet(1 .. Len(s))
  BY FS_Interval
<1>2. IsFiniteSet({k \in 1 .. Len(s) : s[k] \in S})
  BY <1>1, FS_Subset
<1> QED BY <1>2, FS_CardinalityType DEF CountIn

\* One more element, at the end or at the head, is counted when it is of the set.
LEMMA CountAppend ==
  ASSUME NEW T, NEW s \in Seq(T), NEW e \in T, NEW S
  PROVE  CountIn(Append(s, e), S) = CountIn(s, S) + Is(e, S)
<1> DEFINE A == {k \in 1 .. Len(s) : s[k] \in S}
           B == {k \in 1 .. Len(Append(s, e)) : Append(s, e)[k] \in S}
<1>1. Len(s) \in Nat /\ Len(Append(s, e)) = Len(s) + 1 /\ Append(s, e)[Len(s) + 1] = e
      /\ \A k \in 1 .. Len(s) : Append(s, e)[k] = s[k]
  OBVIOUS
<1>2. IsFiniteSet(A) /\ Len(s) + 1 \notin A
  <2>1. IsFiniteSet(A)
    BY CountType
  <2>2. Len(s) + 1 \notin A
    BY <1>1
  <2> QED BY <2>1, <2>2
<1>3. CASE e \in S
  <2>1. B = A \cup {Len(s) + 1}
    BY <1>1, <1>3
  <2> HIDE DEF A, B
  <2>2. Cardinality(B) = Cardinality(A) + 1
    BY <1>2, <2>1, FS_AddElement
  <2>3. CountIn(Append(s, e), S) = Cardinality(B) /\ CountIn(s, S) = Cardinality(A)
    BY DEF CountIn, A, B
  <2> QED BY <1>3, <2>2, <2>3 DEF Is
<1>4. CASE e \notin S
  <2>1. B = A
    BY <1>1, <1>4
  <2>2. Cardinality(A) \in Nat
    BY CountType DEF CountIn
  <2> HIDE DEF A, B
  <2>3. CountIn(Append(s, e), S) = Cardinality(B) /\ CountIn(s, S) = Cardinality(A)
    BY DEF CountIn, A, B
  <2>4. Is(e, S) = 0
    BY <1>4 DEF Is
  <2>5. Cardinality(B) = Cardinality(A)
    BY <2>1, Zenon
  <2> QED BY <2>2, <2>3, <2>4, <2>5
<1> QED BY <1>3, <1>4

LEMMA CountTail ==
  ASSUME NEW T, NEW s \in Seq(T), s # <<>>, NEW S
  PROVE  /\ CountIn(s, S) = CountIn(Tail(s), S) + Is(Head(s), S)
         /\ CountIn(Tail(s), S) \in Nat
<1> DEFINE A == {k \in 1 .. Len(Tail(s)) : Tail(s)[k] \in S}
           B == {k \in 1 .. Len(s) : s[k] \in S /\ k # 1}
           C == {k \in 1 .. Len(s) : s[k] \in S}
           f == [k \in A |-> k + 1]
<1>1. /\ Head(s) = s[1] /\ 1 \in 1 .. Len(s) /\ Len(s) \in Nat
      /\ Tail(s) \in Seq(T) /\ Len(Tail(s)) = Len(s) - 1
      /\ \A k \in 1 .. Len(Tail(s)) : k + 1 \in 1 .. Len(s) /\ Tail(s)[k] = s[k + 1]
  BY TailFacts
<1>2. IsFiniteSet(A) /\ IsFiniteSet(C)
  BY <1>1, CountType
<1>3. f \in [A -> B]
  BY <1>1
<1>4. \A j, k \in A : f[j] = f[k] => j = k
  BY <1>1
<1>5. \A b \in B : b - 1 \in A /\ f[b - 1] = b
  <2> TAKE b \in B
  <2>1. b - 1 \in 1 .. Len(Tail(s)) /\ (b - 1) + 1 = b /\ s[b] \in S
    BY <1>1
  <2>2. Tail(s)[b - 1] = s[b]
    BY <1>1, <2>1, Zenon
  <2> QED BY <2>1, <2>2
<1> HIDE DEF f
<1>6. f \in Bijection(A, B)
  <2>1. f \in Injection(A, B)
    BY <1>3, <1>4 DEF Injection, IsInjective
  <2>2. \A b \in B : \E a \in A : f[a] = b
    BY <1>5, Zenon
  <2> QED BY <1>3, <2>1, <2>2 DEF Bijection, Surjection
<1>7. C \ {1} = B /\ (1 \in C <=> Head(s) \in S)
  BY <1>1
<1> HIDE DEF A, B, C
<1>8. Cardinality(A) = Cardinality(B)
  BY <1>2, <1>6, FS_Bijection DEF ExistsBijection
<1>9. Cardinality(C \ {1}) = IF 1 \in C THEN Cardinality(C) - 1 ELSE Cardinality(C)
  BY <1>2, FS_RemoveElement
<1>10. Cardinality(C) \in Nat /\ Cardinality(A) \in Nat
  BY <1>2, FS_CardinalityType
<1>11. CountIn(s, S) = Cardinality(C) /\ CountIn(Tail(s), S) = Cardinality(A)
  BY DEF CountIn, A, C
<1>12. Cardinality(C) = Cardinality(A) + (IF Head(s) \in S THEN 1 ELSE 0)
  <2>1. Cardinality(A) = IF 1 \in C THEN Cardinality(C) - 1 ELSE Cardinality(C)
    BY <1>7, <1>8, <1>9, Zenon
  <2>2. 1 \in C <=> Head(s) \in S
    BY <1>7
  <2> QED BY <1>10, <2>1, <2>2
<1> QED BY <1>10, <1>11, <1>12 DEF Is

LEMMA CountConcat ==
  ASSUME NEW T, NEW s \in Seq(T), NEW t \in Seq(T), NEW S
  PROVE  CountIn(s \o t, S) = CountIn(s, S) + CountIn(t, S)
<1> DEFINE m == Len(s)
           n == Len(t)
           r == s \o t
           A == {k \in 1 .. m : s[k] \in S}
           B == {k \in 1 .. n : t[k] \in S}
           C == {k \in 1 .. m + n : r[k] \in S}
           D == {k \in m + 1 .. m + n : r[k] \in S}
           f == [k \in B |-> m + k]
<1>1. m \in Nat /\ n \in Nat
  OBVIOUS
<1>2. Len(r) = m + n /\ (\A k \in 1 .. m : r[k] = s[k]) /\ \A k \in 1 .. n : r[m + k] = t[k]
  <2>1. s \in Seq(T) /\ t \in Seq(T)
    OBVIOUS
  <2> QED BY <2>1, SMTT(20)
<1>3. IsFiniteSet(A) /\ IsFiniteSet(B)
  BY CountType
<1>4. CountIn(r, S) = Cardinality(C) /\ CountIn(s, S) = Cardinality(A) /\ CountIn(t, S) = Cardinality(B)
  BY <1>2 DEF CountIn
<1> HIDE DEF r, m, n
<1>5. f \in [B -> D] /\ \A j, k \in B : f[j] = f[k] => j = k
  BY <1>1, <1>2
<1>6. ASSUME NEW d \in D PROVE d - m \in B /\ f[d - m] = d
  <2>1. d - m \in 1 .. n /\ m + (d - m) = d
    BY <1>1
  <2>2. t[d - m] = r[d]
    BY <1>2, <2>1, Zenon
  <2> QED BY <2>1, <2>2
<1> HIDE DEF f
<1>7. f \in Bijection(B, D)
  <2>1. f \in Injection(B, D)
    BY <1>5 DEF Injection, IsInjective
  <2>2. \A d \in D : \E b \in B : f[b] = d
    BY <1>6, Zenon
  <2> QED BY <1>5, <2>1, <2>2 DEF Bijection, Surjection
<1>8. C = A \cup D /\ A \cap D = {}
  <2>1. \A k \in 1 .. m + n : k \in 1 .. m \/ k \in m + 1 .. m + n
    BY <1>1
  <2>2. \A k \in 1 .. m : k \in 1 .. m + n /\ k \notin m + 1 .. m + n
    BY <1>1
  <2>3. \A k \in m + 1 .. m + n : k \in 1 .. m + n
    BY <1>1
  <2> QED BY <1>2, <2>1, <2>2, <2>3
<1> HIDE DEF A, B, C, D
<1>9. IsFiniteSet(D) /\ Cardinality(D) = Cardinality(B)
  <2>1. ExistsBijection(B, D)
    BY <1>7 DEF ExistsBijection
  <2> QED BY <1>3, <2>1, FS_Bijection
<1>10. Cardinality(C) = Cardinality(A) + Cardinality(D) - Cardinality({})
  BY <1>3, <1>8, <1>9, FS_Union
<1>11. Cardinality({}) = 0 /\ Cardinality(A) \in Nat /\ Cardinality(B) \in Nat
  BY <1>3, FS_EmptySet, FS_CardinalityType
<1>12. Cardinality(C) = Cardinality(A) + Cardinality(B)
  BY <1>9, <1>10, <1>11
<1> QED BY <1>4, <1>12 DEF r

LEMMA CountSome ==
  ASSUME NEW T, NEW s \in Seq(T), NEW e
  PROVE  CountIn(s, {e}) > 0 <=> \E k \in 1 .. Len(s) : s[k] = e
<1> DEFINE A == {k \in 1 .. Len(s) : s[k] \in {e}}
<1>1. IsFiniteSet(A) /\ Cardinality(A) \in Nat
  BY CountType DEF CountIn
<1>2. Cardinality(A) = 0 <=> A = {}
  BY <1>1, FS_EmptySet
<1>3. A = {} <=> ~ \E k \in 1 .. Len(s) : s[k] = e
  OBVIOUS
<1> QED BY <1>1, <1>2, <1>3 DEF CountIn

\* A set of naturals has a least element.
LEMMA NatLeast ==
  ASSUME NEW T \in SUBSET Nat, T # {}
  PROVE  \E n \in T : \A m \in T : n <= m
<1> DEFINE R == OpToRel(<, Nat)
<1>1. IsWellFoundedOn(R, Nat)
  BY NatLessThanWellFounded
<1>2. \A x, y \in Nat : <<x, y>> \in R <=> x < y
  BY DEF OpToRel
<1> HIDE DEF R
<1>3. PICK n \in T : \A m \in T : ~(<<m, n>> \in R)
  BY <1>1, WFMin
<1>4. \A m \in T : n <= m
  <2> TAKE m \in T
  <2>1. ~(m < n)
    BY <1>2, <1>3, Zenon
  <2> QED BY <2>1
<1> QED BY <1>4, Zenon

\* RemoveFirst takes out the first e, if there is one; what is behind it moves up.
Removed(s, e, i, r) ==
  /\ i \in 1 .. Len(s) /\ s[i] = e /\ Len(r) = Len(s) - 1
  /\ \A k \in 1 .. Len(s) - 1 : r[k] = s[IF k < i THEN k ELSE k + 1]
LEMMA RemoveFacts ==
  ASSUME NEW T, NEW s \in Seq(T), NEW e
  PROVE  /\ RemoveFirst(s, e) \in Seq(T)
         /\ IF \E k \in 1 .. Len(s) : s[k] = e
            THEN \E i : Removed(s, e, i, RemoveFirst(s, e)) ELSE RemoveFirst(s, e) = s
<1>1. CASE ~ \E k \in 1 .. Len(s) : s[k] = e
  <2>1. RemoveFirst(s, e) = s
    BY <1>1 DEF RemoveFirst
  <2> QED BY <1>1, <2>1
<1>2. CASE \E k \in 1 .. Len(s) : s[k] = e
  <2> DEFINE I == {k \in 1 .. Len(s) : s[k] = e}
             i == Min(I)
             p == SubSeq(s, 1, i - 1)
             q == SubSeq(s, i + 1, Len(s))
  <2>1. i \in 1 .. Len(s) /\ s[i] = e
    <3>1. I \in SUBSET Nat /\ I # {}
      BY <1>2
    <3> HIDE DEF I
    <3>2. \E n \in I : \A m \in I : n <= m
      BY <3>1, NatLeast
    <3>3. Min(I) \in I
      BY <3>2 DEF Min
    <3> QED BY <3>3 DEF I
  <2>2. RemoveFirst(s, e) = p \o q
    <3>1. I # {}
      BY <1>2
    <3>2. SelectInSeq(s, LAMBDA v : v = e) = i
      BY <3>1 DEF SelectInSeq
    <3> HIDE DEF i
    <3> QED BY <1>2, <3>2 DEF RemoveFirst, RemoveAt
  <2> HIDE DEF i
  <2>3. /\ p \in Seq(T) /\ Len(p) = i - 1 /\ \A k \in 1 .. i - 1 : p[k] = s[k]
        /\ q \in Seq(T) /\ Len(q) = Len(s) - i /\ \A k \in 1 .. Len(s) - i : q[k] = s[i + k]
    <3>1. i \in Nat /\ Len(s) \in Nat /\ 1 <= i /\ i <= Len(s)
      BY <2>1
    <3>2. \A k \in 1 .. i - 1 : k \in 1 .. Len(s)
      BY <3>1
    <3>3. p = [k \in 1 .. i - 1 |-> s[k]] /\ p \in Seq(T) /\ Len(p) = i - 1
      BY <3>1
    <3>4. q \in Seq(T) /\ Len(q) = Len(s) - i
      BY <3>1
    <3>5. \A k \in 1 .. Len(s) - i : q[k] = s[i + k]
      BY <3>1
    <3> QED BY <3>3, <3>4, <3>5
  <2> HIDE DEF p, q
  <2>4. PICK r, n : r = p \o q /\ n = Len(s)
    OBVIOUS
  <2>5. r \in Seq(T) /\ Len(r) = n - 1 /\ n \in Nat /\ i \in 1 .. n
        /\ (\A k \in 1 .. i - 1 : r[k] = p[k]) /\ \A k \in 1 .. n - i : r[i - 1 + k] = q[k]
    <3>1. /\ r \in Seq(T) /\ Len(r) = Len(p) + Len(q)
          /\ (\A k \in 1 .. Len(p) : r[k] = p[k]) /\ \A k \in 1 .. Len(q) : r[Len(p) + k] = q[k]
      <4>1. p \in Seq(T) /\ q \in Seq(T)
        BY <2>3
      <4> QED BY <2>4, <4>1, SMTT(20)
    <3> QED BY <2>1, <2>3, <2>4, <3>1
  <2>6. ASSUME NEW k \in 1 .. n - 1 PROVE r[k] = s[IF k < i THEN k ELSE k + 1]
    <3>1. CASE k < i
      <4>1. k \in 1 .. i - 1
        BY <2>5, <3>1
      <4> QED BY <2>3, <2>5, <3>1, <4>1
    <3>2. CASE ~(k < i)
      <4>1. k - i + 1 \in 1 .. n - i /\ i - 1 + (k - i + 1) = k /\ i + (k - i + 1) = k + 1
        BY <2>5, <3>2
      <4>2. r[i - 1 + (k - i + 1)] = q[k - i + 1] /\ q[k - i + 1] = s[i + (k - i + 1)]
        BY <2>3, <2>4, <2>5, <4>1, Zenon
      <4> QED BY <3>2, <4>1, <4>2
    <3> QED BY <3>1, <3>2
  <2>7. Removed(s, e, i, r)
    BY <2>1, <2>4, <2>5, <2>6 DEF Removed
  <2> QED BY <1>2, <2>2, <2>4, <2>5, <2>7, Zenon
<1> QED BY <1>1, <1>2

\* Of a list that has each element once, the others stay, each once.
Distinct(s) == \A j, k \in 1 .. Len(s) : s[j] = s[k] => j = k
LEMMA RemoveDistinct ==
  ASSUME NEW T, NEW s \in Seq(T), NEW e, Distinct(s)
  PROVE  /\ RemoveFirst(s, e) \in Seq(T) /\ Distinct(RemoveFirst(s, e))
         /\ ToSet(RemoveFirst(s, e)) = ToSet(s) \ {e}
<1>1. CASE ~ \E k \in 1 .. Len(s) : s[k] = e
  <2>1. RemoveFirst(s, e) = s /\ e \notin ToSet(s)
    BY <1>1, RemoveFacts DEF ToSet
  <2> QED BY <2>1
<1>2. CASE \E k \in 1 .. Len(s) : s[k] = e
  <2>1. PICK r : r = RemoveFirst(s, e) /\ r \in Seq(T)
    BY RemoveFacts
  <2>2. PICK i : Removed(s, e, i, r)
    BY <1>2, <2>1, RemoveFacts
  <2>3. PICK n \in Nat : n = Len(s) /\ Len(r) = n - 1 /\ i \in 1 .. n /\ s[i] = e
    BY <2>2 DEF Removed
  <2>4. \A k \in 1 .. n - 1 : r[k] = s[IF k < i THEN k ELSE k + 1] /\ (IF k < i THEN k ELSE k + 1) \in 1 .. n
    BY <2>2, <2>3 DEF Removed
  <2>5. Distinct(r)
    <3>1. \A j, k \in 1 .. n - 1 : r[j] = r[k] => j = k
      <4> SUFFICES ASSUME NEW j \in 1 .. n - 1, NEW k \in 1 .. n - 1, r[j] = r[k] PROVE j = k
        OBVIOUS
      <4>1. (IF j < i THEN j ELSE j + 1) = (IF k < i THEN k ELSE k + 1)
        BY <2>3, <2>4 DEF Distinct
      <4> QED BY <2>3, <4>1
    <3> QED BY <2>3, <3>1 DEF Distinct
  <2>6. ASSUME NEW x PROVE x \in ToSet(r) <=> x \in ToSet(s) /\ x # e
    <3>1. ASSUME x \in ToSet(r) PROVE x \in ToSet(s) /\ x # e
      <4>1. PICK k \in 1 .. n - 1 : r[k] = x
        BY <2>3, <3>1 DEF ToSet
      <4>2. PICK m \in 1 .. n : m = (IF k < i THEN k ELSE k + 1) /\ s[m] = x
        BY <2>4, <4>1
      <4>3. m # i
        BY <2>3, <4>2
      <4>4. s[m] # s[i]
        BY <2>3, <4>3 DEF Distinct
      <4> QED BY <2>3, <4>2, <4>4 DEF ToSet
    <3>2. ASSUME x \in ToSet(s), x # e PROVE x \in ToSet(r)
      <4>1. PICK m \in 1 .. n : s[m] = x
        BY <2>3, <3>2 DEF ToSet
      <4>2. m # i
        BY <2>3, <3>2, <4>1
      <4>3. PICK k \in 1 .. n - 1 : k = IF m < i THEN m ELSE m - 1
        BY <2>3, <4>2
      <4>4. (IF k < i THEN k ELSE k + 1) = m
        BY <2>3, <4>2, <4>3
      <4>5. r[k] = x
        BY <2>4, <4>1, <4>4
      <4> QED BY <2>3, <4>5 DEF ToSet
    <3> QED BY <3>1, <3>2
  <2> QED BY <2>1, <2>5, <2>6
<1> QED BY <1>1, <1>2

LEMMA ToSetFacts ==
  ASSUME NEW T, NEW s \in Seq(T), NEW e \in T
  PROVE  /\ \A x : /\ x \in ToSet(Append(s, e)) <=> x \in ToSet(s) \/ x = e
                   /\ x \in ToSet(<<e>> \o s) <=> x \in ToSet(s) \/ x = e
         /\ Distinct(s) /\ e \notin ToSet(s) => Distinct(Append(s, e)) /\ Distinct(<<e>> \o s)
<1>1. PICK n \in Nat : n = Len(s)
  OBVIOUS
<1>2. PICK a : a = Append(s, e)
  OBVIOUS
<1>3. Len(a) = n + 1 /\ a[n + 1] = e /\ \A k \in 1 .. n : a[k] = s[k]
  BY <1>1, <1>2
<1>4. PICK c : c = <<e>> \o s
  OBVIOUS
<1>5. Len(c) = n + 1 /\ c[1] = e /\ \A k \in 1 .. n : c[k + 1] = s[k]
  <2>1. <<e>> \in Seq(T) /\ Len(<<e>>) = 1 /\ <<e>>[1] = e
    OBVIOUS
  <2>2. PICK d : d = <<e>> /\ d \in Seq(T) /\ Len(d) = 1 /\ d[1] = e
    BY <2>1
  <2>3. /\ Len(d \o s) = Len(d) + Len(s) /\ (\A k \in 1 .. Len(d) : (d \o s)[k] = d[k])
        /\ \A k \in 1 .. Len(s) : (d \o s)[Len(d) + k] = s[k]
    BY <2>2, SMTT(20)
  <2>4. \A k \in 1 .. n : c[1 + k] = s[k]
    BY <1>1, <1>4, <2>2, <2>3
  <2>5. Len(c) = n + 1 /\ c[1] = e
    BY <1>1, <1>4, <2>2, <2>3
  <2>6. \A k \in 1 .. n : k + 1 = 1 + k
    OBVIOUS
  <2> QED BY <2>4, <2>5, <2>6
<1>6. ToSet(s) = {s[k] : k \in 1 .. n} /\ ToSet(a) = {a[k] : k \in 1 .. n + 1} /\ ToSet(c) = {c[k] : k \in 1 .. n + 1}
  <2>1. s \in Seq(T) /\ a \in Seq(T) /\ c \in Seq(T)
    BY <1>2, <1>4
  <2>2. DOMAIN s = 1 .. n /\ DOMAIN a = 1 .. n + 1 /\ DOMAIN c = 1 .. n + 1
    BY <1>1, <1>3, <1>5, <2>1
  <2> QED BY <2>2 DEF ToSet
<1>7. ToSet(a) = ToSet(s) \cup {e}
  <2>1. \A k \in 1 .. n + 1 : k \in 1 .. n \/ k = n + 1
    BY <1>1
  <2>2. n + 1 \in 1 .. n + 1 /\ \A k \in 1 .. n : k \in 1 .. n + 1
    BY <1>1
  <2> QED BY <1>3, <1>6, <2>1, <2>2
<1>8. ToSet(c) = ToSet(s) \cup {e}
  <2>1. \A k \in 1 .. n + 1 : k = 1 \/ (k - 1 \in 1 .. n /\ (k - 1) + 1 = k)
    BY <1>1
  <2>2. 1 \in 1 .. n + 1 /\ \A k \in 1 .. n : k + 1 \in 1 .. n + 1
    BY <1>1
  <2>3. \A k \in 1 .. n + 1 : c[k] \in ToSet(s) \cup {e}
    <3> TAKE k \in 1 .. n + 1
    <3>1. CASE k = 1
      BY <1>5, <3>1
    <3>2. CASE k - 1 \in 1 .. n /\ (k - 1) + 1 = k
      <4>1. c[(k - 1) + 1] = s[k - 1]
        BY <1>5, <3>2, Zenon
      <4> QED BY <1>6, <3>2, <4>1
    <3> QED BY <2>1, <3>1, <3>2
  <2>4. \A k \in 1 .. n : s[k] \in ToSet(c)
    BY <1>5, <1>6, <2>2
  <2>5. e \in ToSet(c)
    BY <1>5, <1>6, <2>2
  <2> QED BY <1>6, <2>3, <2>4, <2>5
<1>9. ASSUME Distinct(s), e \notin ToSet(s) PROVE Distinct(a) /\ Distinct(c)
  <2>1. \A k \in 1 .. n : s[k] # e
    BY <1>6, <1>9
  <2>2. ASSUME NEW j \in 1 .. n + 1, NEW k \in 1 .. n + 1, a[j] = a[k] PROVE j = k
    BY <1>1, <1>3, <1>9, <2>1, <2>2 DEF Distinct
  <2>3. ASSUME NEW j \in 1 .. n + 1, NEW k \in 1 .. n + 1, c[j] = c[k] PROVE j = k
    <3>1. \A m \in 1 .. n + 1 : m = 1 \/ (m - 1 \in 1 .. n /\ c[m] = s[m - 1])
      <4> TAKE m \in 1 .. n + 1
      <4>1. m = 1 \/ (m - 1 \in 1 .. n /\ (m - 1) + 1 = m)
        BY <1>1
      <4>2. m - 1 \in 1 .. n => c[(m - 1) + 1] = s[m - 1]
        BY <1>5, Zenon
      <4> QED BY <4>1, <4>2
    <3>2. (j = 1 <=> k = 1)
      BY <1>5, <2>1, <2>3, <3>1
    <3>3. j # 1 => j - 1 = k - 1
      BY <1>1, <1>9, <2>3, <3>1, <3>2 DEF Distinct
    <3> QED BY <3>2, <3>3
  <2> QED BY <1>3, <1>5, <2>2, <2>3 DEF Distinct
<1> QED BY <1>2, <1>4, <1>7, <1>8, <1>9

LEMMA AppendSet ==
  ASSUME NEW T, NEW s \in Seq(T), NEW e \in T, NEW r, r = Append(s, e)
  PROVE  ToSet(r) = ToSet(s) \cup {e}
BY ToSetFacts

LEMMA PrependSet ==
  ASSUME NEW T, NEW s \in Seq(T), NEW e \in T, NEW r, r = <<e>> \o s
  PROVE  ToSet(r) = ToSet(s) \cup {e}
BY ToSetFacts

LEMMA AppendDistinct ==
  ASSUME NEW T, NEW s \in Seq(T), NEW e \in T, Distinct(s), e \notin ToSet(s), NEW r, r = Append(s, e)
  PROVE  r \in Seq(T) /\ Distinct(r) /\ ToSet(r) = ToSet(s) \cup {e}
<1>1. r \in Seq(T)
  OBVIOUS
<1>2. Distinct(r)
  BY ToSetFacts
<1>3. ToSet(r) = ToSet(s) \cup {e}
  BY AppendSet, Zenon
<1> QED BY <1>1, <1>2, <1>3

LEMMA PrependDistinct ==
  ASSUME NEW T, NEW s \in Seq(T), NEW e \in T, Distinct(s), e \notin ToSet(s), NEW r, r = <<e>> \o s
  PROVE  r \in Seq(T) /\ Distinct(r) /\ ToSet(r) = ToSet(s) \cup {e}
<1>1. r \in Seq(T)
  OBVIOUS
<1>2. Distinct(r)
  BY ToSetFacts
<1>3. ToSet(r) = ToSet(s) \cup {e}
  BY PrependSet, Zenon
<1> QED BY <1>1, <1>2, <1>3

-----------------------------------------------------------------------------
(* A cache's operations.                                                   *)

LEMMA DistinctIs ==
  ASSUME NEW T, NEW s \in Seq(T)
  PROVE  IsInjective(s) <=> Distinct(s)
<1>1. DOMAIN s = 1 .. Len(s)
  OBVIOUS
<1> QED BY <1>1 DEF IsInjective, Distinct

LEMMA CacheIs ==
  ASSUME NEW B, NEW I, NEW c \in Caches(B, I)
  PROVE  /\ c = [buf |-> c.buf, hash |-> c.hash, free |-> c.free]
         /\ c.buf \in [B -> [used : Nat, index : I \cup {None}, data : Datas]] /\ c.hash \in Seq(B) /\ c.free \in Seq(B)
         /\ CacheOK(c) <=> /\ Distinct(c.hash) /\ Distinct(c.free)
                           /\ \A b \in B : /\ b \in ToSet(c.hash) <=> c.buf[b].index # None
                                           /\ b \in ToSet(c.free) <=> c.buf[b].index # None /\ c.buf[b].used = 0
<1>1. /\ c = [buf |-> c.buf, hash |-> c.hash, free |-> c.free]
      /\ c.buf \in [B -> [used : Nat, index : I \cup {None}, data : Datas]] /\ c.hash \in Seq(B) /\ c.free \in Seq(B)
  BY DEF Caches
<1>2. IsInjective(c.hash) <=> Distinct(c.hash)
  BY <1>1, DistinctIs
<1>3. IsInjective(c.free) <=> Distinct(c.free)
  BY <1>1, DistinctIs
<1>4. ToSet(c.hash) \subseteq B /\ ToSet(c.free) \subseteq B /\ DOMAIN c.buf = B
  BY <1>1 DEF ToSet
<1>5. CASE CacheOK(c)
  BY <1>1, <1>2, <1>3, <1>4, <1>5 DEF CacheOK
<1>6. ASSUME /\ Distinct(c.hash) /\ Distinct(c.free)
             /\ \A b \in B : /\ b \in ToSet(c.hash) <=> c.buf[b].index # None
                             /\ b \in ToSet(c.free) <=> c.buf[b].index # None /\ c.buf[b].used = 0
      PROVE CacheOK(c)
  <2>1. ToSet(c.hash) = {b \in B : c.buf[b].index # None}
    BY <1>4, <1>6
  <2>2. ToSet(c.free) = {b \in ToSet(c.hash) : c.buf[b].used = 0}
    BY <1>4, <1>6
  <2> QED BY <1>2, <1>3, <1>4, <1>6, <2>1, <2>2 DEF CacheOK
<1> QED BY <1>1, <1>5, <1>6

\* A buffer that nobody uses and that has left the lists has its new index and data, and
\* is the newest of the hash.
Fresh(c, b, i, x) ==
  [buf  |-> [c.buf EXCEPT ![b] = [used |-> 1, index |-> i, data |-> x]],
   hash |-> <<b>> \o RemoveFirst(c.hash, b), free |-> RemoveFirst(c.free, b)]
LEMMA FreshFacts ==
  ASSUME NEW B, NEW I, None \notin I, NEW c \in Caches(B, I), CacheOK(c), NEW b \in B, NEW i \in I, NEW x \in Datas
  PROVE  Fresh(c, b, i, x) \in Caches(B, I) /\ CacheOK(Fresh(c, b, i, x))
<1>1. /\ c.buf \in [B -> [used : Nat, index : I \cup {None}, data : Datas]] /\ c.hash \in Seq(B) /\ c.free \in Seq(B)
      /\ Distinct(c.hash) /\ Distinct(c.free)
      /\ \A a \in B : /\ a \in ToSet(c.hash) <=> c.buf[a].index # None
                      /\ a \in ToSet(c.free) <=> c.buf[a].index # None /\ c.buf[a].used = 0
  BY CacheIs
<1>2. PICK h : h = RemoveFirst(c.hash, b) /\ h \in Seq(B) /\ Distinct(h) /\ ToSet(h) = ToSet(c.hash) \ {b}
  BY <1>1, RemoveDistinct
<1>3. PICK f : f = RemoveFirst(c.free, b) /\ f \in Seq(B) /\ Distinct(f) /\ ToSet(f) = ToSet(c.free) \ {b}
  BY <1>1, RemoveDistinct
<1>4. PICK g : g = <<b>> \o h
  OBVIOUS
<1>5. g \in Seq(B) /\ Distinct(g) /\ ToSet(g) = ToSet(c.hash) \cup {b}
  <2>1. g \in Seq(B)
    BY <1>2, <1>4
  <2>2. b \notin ToSet(h)
    BY <1>2
  <2>3. ToSet(g) = ToSet(h) \cup {b} /\ Distinct(g)
    <3>1. h \in Seq(B) /\ Distinct(h)
      BY <1>2
    <3>2. \A r : r = <<b>> \o h => ToSet(r) = ToSet(h) \cup {b}
      BY <3>1, PrependSet, Zenon
    <3>3. \A r : r = <<b>> \o h => Distinct(r)
      BY <2>2, <3>1, PrependDistinct, Zenon
    <3> QED BY <1>4, <3>2, <3>3, Zenon
  <2> QED BY <1>2, <2>1, <2>3
<1>6. PICK u : u = [c.buf EXCEPT ![b] = [used |-> 1, index |-> i, data |-> x]]
  OBVIOUS
<1>7. /\ u \in [B -> [used : Nat, index : I \cup {None}, data : Datas]]
      /\ u[b].used = 1 /\ u[b].index = i /\ \A a \in B : a # b => u[a] = c.buf[a]
  BY <1>1, <1>6
<1>8. PICK n : n = [buf |-> u, hash |-> g, free |-> f]
  OBVIOUS
<1>9. n \in Caches(B, I)
  BY <1>3, <1>5, <1>7, <1>8 DEF Caches
<1>10. n.buf = u /\ n.hash = g /\ n.free = f
  BY <1>8
<1>11. \A a \in B : /\ a \in ToSet(g) <=> u[a].index # None
                    /\ a \in ToSet(f) <=> u[a].index # None /\ u[a].used = 0
  BY <1>1, <1>3, <1>5, <1>7
<1>12. CacheOK(n)
  BY <1>3, <1>5, <1>9, <1>10, <1>11, CacheIs
<1> QED BY <1>2, <1>3, <1>4, <1>6, <1>8, <1>9, <1>12 DEF Fresh

LEMMA GetFacts ==
  ASSUME NEW B, NEW I, None \notin I, NEW c \in Caches(B, I), CacheOK(c), NEW b \in B, NEW i \in I, NEW x \in Datas
  PROVE  Get(c, b, i, x) = Fresh(c, b, i, x)
BY DEF Get, Fresh

\* The main thread's use of cache_get and cache_rehash.
LEMMA GetRehash ==
  ASSUME NEW B, NEW I, None \notin I, NEW c \in Caches(B, I), CacheOK(c), NEW b \in B, NEW i \in I, NEW x \in Datas
  PROVE  Rehash(Get(c, b, None, x), b, i) = Fresh(c, b, i, x)
<1>1. c.buf \in [B -> [used : Nat, index : I \cup {None}, data : Datas]] /\ c.hash \in Seq(B) /\ Distinct(c.hash)
  BY CacheIs
<1>2. PICK h : h = RemoveFirst(c.hash, b) /\ h \in Seq(B) /\ Distinct(h) /\ ToSet(h) = ToSet(c.hash) \ {b}
  BY <1>1, RemoveDistinct
<1>3. RemoveFirst(h, b) = h
  <2>1. b \notin ToSet(h) /\ DOMAIN h = 1 .. Len(h)
    BY <1>2
  <2>2. ~ \E k \in 1 .. Len(h) : h[k] = b
    BY <2>1 DEF ToSet
  <2> QED BY <2>2 DEF RemoveFirst
<1>4. PICK g : g = Get(c, b, None, x)
  OBVIOUS
<1>5. g = [buf |-> [c.buf EXCEPT ![b] = [used |-> 1, index |-> None, data |-> x]], hash |-> h, free |-> RemoveFirst(c.free, b)]
  BY <1>2, <1>4 DEF Get
<1>6. g.buf = [c.buf EXCEPT ![b] = [used |-> 1, index |-> None, data |-> x]] /\ g.hash = h /\ g.free = RemoveFirst(c.free, b)
  BY <1>5
<1>7. PICK u : u = g.buf
  OBVIOUS
<1>8. PICK v : v = [u EXCEPT ![b].index = i]
  OBVIOUS
<1>9. v = [c.buf EXCEPT ![b] = [used |-> 1, index |-> i, data |-> x]]
  <2>1. /\ u = [a \in B |-> IF a = b THEN [used |-> 1, index |-> None, data |-> x] ELSE c.buf[a]]
    BY <1>1, <1>6, <1>7
  <2>2. u[b] = [used |-> 1, index |-> None, data |-> x] /\ DOMAIN u = B
    BY <2>1
  <2>3. [u[b] EXCEPT !.index = i] = [used |-> 1, index |-> i, data |-> x]
    BY <2>2
  <2>4. v = [a \in B |-> IF a = b THEN [u[b] EXCEPT !.index = i] ELSE u[a]]
    BY <1>8, <2>2
  <2>5. v = [a \in B |-> IF a = b THEN [used |-> 1, index |-> i, data |-> x] ELSE c.buf[a]]
    BY <2>1, <2>3, <2>4
  <2> QED BY <1>1, <2>5
<1>10. Rehash(g, b, i) = [buf |-> v, hash |-> <<b>> \o RemoveFirst(g.hash, b), free |-> g.free]
  <2>1. g = [buf |-> u, hash |-> h, free |-> RemoveFirst(c.free, b)]
    BY <1>5, <1>6, <1>7
  <2>2. PICK r : r = <<b>> \o RemoveFirst(g.hash, b)
    OBVIOUS
  <2>3. PICK d : d = [g EXCEPT !.buf = v]
    OBVIOUS
  <2>4. d = [buf |-> v, hash |-> h, free |-> g.free]
    BY <2>1, <2>3
  <2>5. Rehash(g, b, i) = [d EXCEPT !.hash = r]
    BY <1>7, <1>8, <2>1, <2>2, <2>3, Zenon DEF Rehash
  <2> QED BY <2>2, <2>4, <2>5
<1>11. Rehash(g, b, i) = [buf |-> v, hash |-> <<b>> \o h, free |-> RemoveFirst(c.free, b)]
  BY <1>3, <1>6, <1>10
<1> QED BY <1>2, <1>4, <1>9, <1>11 DEF Fresh

\* What one more or one less use of b leaves as it was.
SameBut(c, r, b, used) ==
  \A a \in DOMAIN c.buf : /\ r.buf[a].index = c.buf[a].index
                          /\ r.buf[a].used = IF a = b THEN used ELSE c.buf[a].used
Buffers(B, I) == [B -> [used : Nat, index : I \cup {None}, data : Datas]]

LEMMA LookupFacts ==
  ASSUME NEW B, NEW I, None \notin I, NEW c \in Caches(B, I), CacheOK(c), NEW b \in B, c.buf[b].index # None
  PROVE  /\ Lookup(c, b) \in Caches(B, I) /\ CacheOK(Lookup(c, b))
         /\ SameBut(c, Lookup(c, b), b, c.buf[b].used + 1)
<1>1. /\ c.buf \in Buffers(B, I) /\ c.hash \in Seq(B) /\ c.free \in Seq(B)
      /\ Distinct(c.hash) /\ Distinct(c.free) /\ c = [buf |-> c.buf, hash |-> c.hash, free |-> c.free]
      /\ \A a \in B : /\ a \in ToSet(c.hash) <=> c.buf[a].index # None
                      /\ a \in ToSet(c.free) <=> c.buf[a].index # None /\ c.buf[a].used = 0
  BY CacheIs DEF Buffers
<1>2. PICK f : f = RemoveFirst(c.free, b) /\ f \in Seq(B) /\ Distinct(f) /\ ToSet(f) = ToSet(c.free) \ {b}
  BY <1>1, RemoveDistinct
<1>31. PICK n : n = c.buf[b].used + 1
  OBVIOUS
<1>32. PICK v : v = [c.buf[b] EXCEPT !.used = n]
  OBVIOUS
<1>3. PICK u : u = [c.buf EXCEPT ![b] = v]
  OBVIOUS
<1>4. u \in Buffers(B, I) /\ \A a \in B : /\ u[a].index = c.buf[a].index
                                          /\ u[a].used = IF a = b THEN c.buf[b].used + 1 ELSE c.buf[a].used
  <2>1. n \in Nat
    BY <1>1, <1>31 DEF Buffers
  <2>2. v.used = n /\ v.index = c.buf[b].index /\ v \in [used : Nat, index : I \cup {None}, data : Datas]
    BY <1>1, <1>32, <2>1 DEF Buffers
  <2> QED BY <1>1, <1>31, <1>3, <2>2 DEF Buffers
<1>5. PICK r : r = [buf |-> u, hash |-> c.hash, free |-> f]
  OBVIOUS
<1>6. r.buf = u /\ r.hash = c.hash /\ r.free = f
  BY <1>5
<1>7. r \in Caches(B, I)
  BY <1>1, <1>2, <1>4, <1>5 DEF Caches, Buffers
<1>8. \A a \in B : /\ a \in ToSet(c.hash) <=> u[a].index # None
                   /\ a \in ToSet(f) <=> u[a].index # None /\ u[a].used = 0
  <2>1. c.buf[b].used + 1 # 0
    BY <1>1 DEF Buffers
  <2> QED BY <1>1, <1>2, <1>4, <2>1
<1>9. CacheOK(r)
  BY <1>1, <1>2, <1>6, <1>7, <1>8, CacheIs
<1>10. Lookup(c, b) = r
  <2>1. PICK d : d = [c EXCEPT !.buf = u]
    OBVIOUS
  <2>2. d = [buf |-> u, hash |-> c.hash, free |-> c.free]
    BY <1>1, <2>1
  <2>3. Lookup(c, b) = [d EXCEPT !.free = f]
    <3>1. d.free = c.free
      BY <2>2
    <3> QED BY <1>2, <1>31, <1>32, <1>3, <2>1, <3>1, Zenon DEF Lookup
  <2> QED BY <1>5, <2>2, <2>3
<1>11. SameBut(c, r, b, c.buf[b].used + 1)
  <2>1. DOMAIN c.buf = B
    BY <1>1 DEF Buffers
  <2> QED BY <1>4, <1>6, <2>1 DEF SameBut
<1> QED BY <1>7, <1>9, <1>10, <1>11

LEMMA PutFacts ==
  ASSUME NEW B, NEW I, None \notin I, NEW c \in Caches(B, I), CacheOK(c), NEW b \in B, c.buf[b].used > 0
  PROVE  /\ Put(c, b) \in Caches(B, I) /\ CacheOK(Put(c, b))
         /\ SameBut(c, Put(c, b), b, c.buf[b].used - 1)
<1>1. /\ c.buf \in Buffers(B, I) /\ c.hash \in Seq(B) /\ c.free \in Seq(B) /\ c.buf[b].used \in Nat
      /\ Distinct(c.hash) /\ Distinct(c.free) /\ c = [buf |-> c.buf, hash |-> c.hash, free |-> c.free]
      /\ \A a \in B : /\ a \in ToSet(c.hash) <=> c.buf[a].index # None
                      /\ a \in ToSet(c.free) <=> c.buf[a].index # None /\ c.buf[a].used = 0
  BY CacheIs DEF Buffers
<1>2. PICK u, f : /\ Put(c, b) = [buf |-> u, hash |-> c.hash, free |-> f]
                  /\ u \in Buffers(B, I)
                  /\ \A a \in B : /\ u[a].index = c.buf[a].index
                                  /\ u[a].used = IF a = b THEN c.buf[b].used - 1 ELSE c.buf[a].used
                  /\ f \in Seq(B) /\ Distinct(f)
                  /\ \A a \in B : a \in ToSet(f) <=> u[a].index # None /\ u[a].used = 0
  <2>1. CASE c.buf[b].used > 1
    <3>0. PICK n : n = c.buf[b].used - 1
      OBVIOUS
    <3>7. PICK v : v = [c.buf[b] EXCEPT !.used = n]
      OBVIOUS
    <3>1. PICK u : u = [c.buf EXCEPT ![b] = v]
      OBVIOUS
    <3>2. u \in Buffers(B, I) /\ \A a \in B : /\ u[a].index = c.buf[a].index
                                              /\ u[a].used = IF a = b THEN c.buf[b].used - 1 ELSE c.buf[a].used
      <4>1. n \in Nat
        BY <1>1, <2>1, <3>0
      <4>2. v.used = n /\ v.index = c.buf[b].index /\ v \in [used : Nat, index : I \cup {None}, data : Datas]
        BY <1>1, <3>7, <4>1 DEF Buffers
      <4> QED BY <1>1, <3>0, <3>1, <4>2 DEF Buffers
    <3>3. Put(c, b) = [c EXCEPT !.buf = u]
      BY <2>1, <3>0, <3>7, <3>1, Zenon DEF Put
    <3>4. Put(c, b) = [buf |-> u, hash |-> c.hash, free |-> c.free]
      BY <1>1, <3>3
    <3>5. ~(c.buf[b].used = 0) /\ ~(c.buf[b].used - 1 = 0)
      BY <1>1, <2>1
    <3>8. PICK f : f = c.free
      OBVIOUS
    <3>9. Put(c, b) = [buf |-> u, hash |-> c.hash, free |-> f] /\ f \in Seq(B) /\ Distinct(f)
      BY <1>1, <3>4, <3>8, Zenon
    <3>10. \A a \in B : a \in ToSet(f) <=> u[a].index # None /\ u[a].used = 0
      BY <1>1, <3>2, <3>5, <3>8
    <3> QED BY <3>2, <3>9, <3>10, Zenon
  <2>2. CASE ~(c.buf[b].used > 1) /\ c.buf[b].index # None
    <3>0. PICK v : v = [c.buf[b] EXCEPT !.used = 0]
      OBVIOUS
    <3>1. PICK u : u = [c.buf EXCEPT ![b] = v]
      OBVIOUS
    <3>2. c.buf[b].used = 1 /\ c.buf[b].used - 1 = 0
      BY <1>1, <2>2
    <3>3. u \in Buffers(B, I) /\ \A a \in B : /\ u[a].index = c.buf[a].index
                                              /\ u[a].used = IF a = b THEN c.buf[b].used - 1 ELSE c.buf[a].used
      <4>1. v.used = 0 /\ v.index = c.buf[b].index /\ v \in [used : Nat, index : I \cup {None}, data : Datas]
        BY <1>1, <3>0 DEF Buffers
      <4> QED BY <1>1, <3>1, <3>2, <4>1 DEF Buffers
    <3>4. PICK f : f = Append(c.free, b)
      OBVIOUS
    <3>41. f \in Seq(B)
      BY <1>1, <3>4
    <3>5. ToSet(f) = ToSet(c.free) \cup {b} /\ Distinct(f)
      <4>1. b \notin ToSet(c.free)
        BY <1>1, <3>2
      <4>2. PICK s : s = c.free
        OBVIOUS
      <4>3. s \in Seq(B) /\ Distinct(s) /\ b \notin ToSet(s) /\ f = Append(s, b)
        BY <1>1, <3>4, <4>1, <4>2
      <4>4. ToSet(f) = ToSet(s) \cup {b} /\ Distinct(f)
        <5>1. s \in Seq(B) /\ Distinct(s) /\ b \notin ToSet(s)
          BY <4>3
        <5>2. \A r : r = Append(s, b) => ToSet(r) = ToSet(s) \cup {b}
          BY <5>1, AppendSet, Zenon
        <5>3. \A r : r = Append(s, b) => Distinct(r)
          BY <5>1, AppendDistinct, Zenon
        <5> QED BY <4>3, <5>2, <5>3, Zenon
      <4> QED BY <4>2, <4>4
    <3>6. PICK d : d = [c EXCEPT !.buf = u]
      OBVIOUS
    <3>7. d = [buf |-> u, hash |-> c.hash, free |-> c.free]
      BY <1>1, <3>6
    <3>8. Put(c, b) = [d EXCEPT !.free = f]
      <4>1. d.free = c.free
        BY <3>7
      <4> QED BY <2>2, <3>0, <3>1, <3>4, <3>6, <4>1, Zenon DEF Put
    <3>9. Put(c, b) = [buf |-> u, hash |-> c.hash, free |-> f]
      BY <3>7, <3>8
    <3>10. \A a \in B : a \in ToSet(f) <=> u[a].index # None /\ u[a].used = 0
      BY <1>1, <2>2, <3>2, <3>3, <3>5
    <3> QED BY <3>3, <3>41, <3>5, <3>9, <3>10, Zenon
  <2>3. CASE ~(c.buf[b].used > 1) /\ c.buf[b].index = None
    <3>1. PICK u : u = [c.buf EXCEPT ![b] = Unallocated]
      OBVIOUS
    <3>2. c.buf[b].used - 1 = 0
      BY <1>1, <2>3
    <3>3. u \in Buffers(B, I) /\ \A a \in B : /\ u[a].index = c.buf[a].index
                                              /\ u[a].used = IF a = b THEN c.buf[b].used - 1 ELSE c.buf[a].used
      BY <1>1, <2>3, <3>1, <3>2 DEF Buffers, Unallocated, Datas
    <3>4. Put(c, b) = [c EXCEPT !.buf = u]
      BY <2>3, <3>1, Zenon DEF Put
    <3>5. Put(c, b) = [buf |-> u, hash |-> c.hash, free |-> c.free]
      BY <1>1, <3>4
    <3>6. \A a \in B : a \in ToSet(c.free) <=> u[a].index # None /\ u[a].used = 0
      BY <1>1, <2>3, <3>3
    <3>7. c.free \in Seq(B) /\ Distinct(c.free)
      BY <1>1
    <3> QED BY <3>3, <3>5, <3>6, <3>7, Zenon
  <2> QED BY <2>1, <2>2, <2>3
<1>3. PICK n : n = Put(c, b)
  OBVIOUS
<1>4. n.buf = u /\ n.hash = c.hash /\ n.free = f
  BY <1>2, <1>3
<1>5. n \in Caches(B, I)
  BY <1>1, <1>2, <1>3 DEF Caches, Buffers
<1>6. \A a \in B : /\ a \in ToSet(c.hash) <=> u[a].index # None
                   /\ a \in ToSet(f) <=> u[a].index # None /\ u[a].used = 0
  BY <1>1, <1>2
<1>7. CacheOK(n)
  <2>1. /\ Distinct(n.hash) /\ Distinct(n.free)
        /\ \A a \in B : /\ a \in ToSet(n.hash) <=> n.buf[a].index # None
                        /\ a \in ToSet(n.free) <=> n.buf[a].index # None /\ n.buf[a].used = 0
    <3>1. Distinct(c.hash) /\ Distinct(f)
      BY <1>1, <1>2
    <3> QED BY <1>4, <1>6, <3>1, Zenon
  <2> QED BY <1>5, <2>1, CacheIs
<1>8. SameBut(c, n, b, c.buf[b].used - 1)
  <2>1. DOMAIN c.buf = B
    BY <1>1 DEF Buffers
  <2> QED BY <1>2, <1>4, <2>1 DEF SameBut
<1> QED BY <1>3, <1>5, <1>7, <1>8

\* cache_get takes a buffer that nobody uses; cache_lookup finds one of the index.
LEMMA NextFreeFacts ==
  ASSUME NEW B, NEW I, NEW c \in Caches(B, I), CacheOK(c), CanGet(c)
  PROVE  NextFree(c) \in B /\ c.buf[NextFree(c)].used = 0
<1>1. /\ c.buf \in Buffers(B, I) /\ c.free \in Seq(B)
      /\ \A a \in B : a \in ToSet(c.free) <=> c.buf[a].index # None /\ c.buf[a].used = 0
  BY CacheIs DEF Buffers
<1>2. CASE c.free # <<>>
  <2>1. PICK s : s = c.free
    OBVIOUS
  <2>2. Head(s) = s[1] /\ s[1] \in B /\ 1 \in DOMAIN s
    BY <1>1, <1>2, <2>1
  <2>3. Head(s) \in ToSet(s)
    BY <2>2 DEF ToSet
  <2>4. NextFree(c) = Head(s)
    BY <1>2, <2>1 DEF NextFree
  <2> QED BY <1>1, <2>1, <2>2, <2>3, <2>4
<1>3. CASE c.free = <<>>
  <2>1. \E b \in DOMAIN c.buf : ~Allocated(c, b)
    BY <1>3 DEF CanGet
  <2>2. NextFree(c) \in DOMAIN c.buf /\ ~Allocated(c, NextFree(c))
    BY <1>3, <2>1 DEF NextFree
  <2>3. NextFree(c) \in B /\ c.buf[NextFree(c)].used \in Nat
    BY <1>1, <2>2 DEF Buffers
  <2> QED BY <2>2, <2>3 DEF Allocated
<1> QED BY <1>2, <1>3

LEMMA FindFacts ==
  ASSUME NEW B, NEW I, NEW c \in Caches(B, I), CacheOK(c), NEW i, Found(c, i)
  PROVE  Find(c, i) \in B /\ c.buf[Find(c, i)].index = i /\ i # None
<1>1. c.hash \in Seq(B) /\ \A a \in B : a \in ToSet(c.hash) <=> c.buf[a].index # None
  BY CacheIs
<1>2. PICK M : M = Matches(c, i)
  OBVIOUS
<1>21. M \in SUBSET Nat /\ M # {}
  BY <1>1, <1>2 DEF Matches, Found
<1>3. \E n \in M : \A m \in M : n <= m
  BY <1>21, NatLeast
<1>4. PICK k : k = Min(M) /\ k \in M
  BY <1>3 DEF Min
<1>5. k \in 1 .. Len(c.hash) /\ c.buf[c.hash[k]].index = i
  BY <1>2, <1>4 DEF Matches
<1>6. c.hash[k] \in B /\ c.hash[k] \in ToSet(c.hash)
  BY <1>1, <1>5 DEF ToSet
<1> QED BY <1>1, <1>2, <1>4, <1>5, <1>6 DEF Find

-----------------------------------------------------------------------------
(* Who has a buffer.                                                       *)

\* A suffix, when what is before it does not count.
LEMMA CountSuffix ==
  ASSUME NEW T, NEW s \in Seq(T), NEW S, NEW n \in Nat, \A k \in 1 .. Len(s) : k <= n => s[k] \notin S
  PROVE  CountIn(SubSeq(s, n + 1, Len(s)), S) = CountIn(s, S)
<1> DEFINE m == Len(s)
           A == {k \in 1 .. m - n : s[n + k] \in S}
           C == {k \in 1 .. m : s[k] \in S}
           f == [k \in A |-> n + k]
<1>1. m \in Nat
  OBVIOUS
<1>2. CountIn(s, S) = Cardinality(C)
  BY DEF CountIn
<1>3. CountIn(SubSeq(s, n + 1, m), S) = Cardinality(A)
  <2>1. PICK r : r = SubSeq(s, n + 1, m)
    OBVIOUS
  <2>2. CASE n < m
    <3>1. Len(r) = m - n /\ \A k \in 1 .. m - n : r[k] = s[n + k]
      BY <1>1, <2>1, <2>2
    <3> HIDE DEF m
    <3>2. {k \in 1 .. Len(r) : r[k] \in S} = A
      BY <3>1
    <3> QED BY <2>1, <3>2 DEF CountIn
  <2>3. CASE ~(n < m)
    <3>1. Len(r) = 0
      BY <1>1, <2>1, <2>3
    <3> HIDE DEF m
    <3>2. {k \in 1 .. Len(r) : r[k] \in S} = {} /\ A = {}
      BY <1>1, <2>3, <3>1
    <3> QED BY <2>1, <3>2 DEF CountIn
  <2> QED BY <2>2, <2>3
<1>4. \A k \in 1 .. m : k <= n => s[k] \notin S
  OBVIOUS
<1> HIDE DEF m
<1>5. f \in [A -> C] /\ \A j, k \in A : f[j] = f[k] => j = k
  BY <1>1
<1>6. ASSUME NEW c \in C PROVE c - n \in A /\ f[c - n] = c
  <2>1. c \in 1 .. m /\ s[c] \in S /\ ~(c <= n)
    BY <1>4
  <2>2. c - n \in 1 .. m - n /\ n + (c - n) = c
    BY <1>1, <2>1
  <2>3. s[n + (c - n)] \in S
    BY <2>1, <2>2, Zenon
  <2> QED BY <2>2, <2>3
<1> HIDE DEF f
<1>7. f \in Bijection(A, C)
  <2>1. f \in Injection(A, C)
    BY <1>5 DEF Injection, IsInjective
  <2>2. \A c \in C : \E a \in A : f[a] = c
    BY <1>6, Zenon
  <2> QED BY <1>5, <2>1, <2>2 DEF Bijection, Surjection
<1>8. IsFiniteSet(A)
  <2>1. IsFiniteSet(1 .. m - n)
    BY <1>1, FS_Interval
  <2> QED BY <2>1, FS_Subset
<1> HIDE DEF A, C
<1>9. Cardinality(A) = Cardinality(C)
  BY <1>7, <1>8, FS_Bijection DEF ExistsBijection
<1> QED BY <1>2, <1>3, <1>9 DEF m

\* One of the blocks is put back.
LEMMA CountExcept ==
  ASSUME NEW T, NEW s \in Seq(T), NEW k \in 1 .. Len(s), NEW e \in T, NEW S, e \notin S
  PROVE  CountIn(s, S) = CountIn([s EXCEPT ![k] = e], S) + Is(s[k], S)
<1> DEFINE A == {j \in 1 .. Len(s) : s[j] \in S}
           B == {j \in 1 .. Len(s) : [s EXCEPT ![k] = e][j] \in S}
<1>1. /\ Len([s EXCEPT ![k] = e]) = Len(s)
      /\ \A j \in 1 .. Len(s) : [s EXCEPT ![k] = e][j] = IF j = k THEN e ELSE s[j]
  OBVIOUS
<1>2. B = A \ {k} /\ (k \in A <=> s[k] \in S)
  BY <1>1
<1>3. CountIn(s, S) = Cardinality(A) /\ CountIn([s EXCEPT ![k] = e], S) = Cardinality(B)
  BY <1>1 DEF CountIn
<1>4. IsFiniteSet(A)
  BY CountType
<1> HIDE DEF A, B
<1>5. Cardinality(A \ {k}) = (IF k \in A THEN Cardinality(A) - 1 ELSE Cardinality(A)) /\ Cardinality(A) \in Nat
  BY <1>4, FS_RemoveElement, FS_CardinalityType
<1> QED BY <1>2, <1>3, <1>5 DEF Is

LEMMA CountEmpty ==
  ASSUME NEW S
  PROVE  CountIn(<<>>, S) = 0
<1>1. {k \in 1 .. Len(<<>>) : <<>>[k] \in S} = {}
  OBVIOUS
<1> QED BY <1>1, FS_EmptySet DEF CountIn

LEMMA CountNone ==
  ASSUME NEW T, NEW s \in Seq(T), NEW S, \A k \in 1 .. Len(s) : s[k] \notin S
  PROVE  CountIn(s, S) = 0
<1>1. {k \in 1 .. Len(s) : s[k] \in S} = {}
  OBVIOUS
<1> QED BY <1>1, FS_EmptySet DEF CountIn

\* The deflators that have b, as one of them changes its state.
LEMMA OneOfThem ==
  ASSUME NEW F, NEW G, NEW x, IsFiniteSet(F), IsFiniteSet(G), F \ {x} = G \ {x}
  PROVE  /\ Cardinality(F) + Is(x, G) = Cardinality(G) + Is(x, F)
         /\ Cardinality(F) \in Nat /\ Cardinality(G) \in Nat
<1>1. Cardinality(F \ {x}) = (IF x \in F THEN Cardinality(F) - 1 ELSE Cardinality(F)) /\ Cardinality(F) \in Nat
  BY FS_RemoveElement, FS_CardinalityType
<1>2. Cardinality(G \ {x}) = (IF x \in G THEN Cardinality(G) - 1 ELSE Cardinality(G)) /\ Cardinality(G) \in Nat
  BY FS_RemoveElement, FS_CardinalityType
<1>3. Cardinality(F \ {x}) = Cardinality(G \ {x})
  BY Zenon
<1> QED BY <1>1, <1>2, <1>3 DEF Is

LEMMA OneDeflator ==
  ASSUME NEW de \in [FragDeflators -> Deflators], NEW x \in FragDeflators, NEW r \in Deflators, NEW b
  PROVE  /\ [de EXCEPT ![x] = r] \in [FragDeflators -> Deflators]
         /\ Holding([de EXCEPT ![x] = r], b) + Is(de[x].to, {b}) = Holding(de, b) + Is(r.to, {b})
         /\ Taking([de EXCEPT ![x] = r], b) + Is(de[x].from, {b}) = Taking(de, b) + Is(r.from, {b})
         /\ Holding([de EXCEPT ![x] = r], b) \in Nat /\ Taking([de EXCEPT ![x] = r], b) \in Nat
<1>1. PICK n : n = [de EXCEPT ![x] = r]
  OBVIOUS
<1>2. n \in [FragDeflators -> Deflators] /\ n[x] = r /\ \A d \in FragDeflators : d # x => n[d] = de[d]
  BY <1>1
<1>3. IsFiniteSet(FragDeflators)
  BY DuplicateSearchAssumption
<1> DEFINE F == {d \in FragDeflators : n[d].to = b}
           G == {d \in FragDeflators : de[d].to = b}
           P == {d \in FragDeflators : n[d].from = b}
           Q == {d \in FragDeflators : de[d].from = b}
<1>4. IsFiniteSet(F) /\ IsFiniteSet(G) /\ IsFiniteSet(P) /\ IsFiniteSet(Q)
  BY <1>3, FS_Subset
<1>5. F \ {x} = G \ {x} /\ P \ {x} = Q \ {x}
  BY <1>2
<1>6. Is(x, F) = Is(r.to, {b}) /\ Is(x, G) = Is(de[x].to, {b}) /\ Is(x, P) = Is(r.from, {b}) /\ Is(x, Q) = Is(de[x].from, {b})
  BY <1>2 DEF Is
<1>7. Holding(n, b) = Cardinality(F) /\ Holding(de, b) = Cardinality(G) /\ Taking(n, b) = Cardinality(P) /\ Taking(de, b) = Cardinality(Q)
  BY DEF Holding, Taking
<1> HIDE DEF F, G, P, Q
<1>8. Holding(n, b) + Is(x, G) = Holding(de, b) + Is(x, F) /\ Holding(n, b) \in Nat /\ Holding(de, b) \in Nat
  BY <1>4, <1>5, <1>7, OneOfThem
<1>9. Taking(n, b) + Is(x, Q) = Taking(de, b) + Is(x, P) /\ Taking(n, b) \in Nat /\ Taking(de, b) \in Nat
  BY <1>4, <1>5, <1>7, OneOfThem
<1> QED BY <1>1, <1>2, <1>6, <1>8, <1>9

LEMMA UsesTypes ==
  ASSUME HandTypes, NEW b
  PROVE  /\ b \in WriterBuffers => leaked[b] \in Nat
         /\ CountIn(pins, {b}) \in Nat /\ Is(writing, {b}) \in Nat /\ CountIn(blocks, {b}) \in Nat
         /\ CountIn(toWriter, {b} \X Nat) \in Nat /\ CountIn(pending, {b}) \in Nat /\ Holding(deflator, b) \in Nat
         /\ Is(open, {b}) \in Nat /\ Is(got, {b}) \in Nat /\ CountIn(toFrag, {b}) \in Nat /\ Taking(deflator, b) \in Nat
<1>1. /\ CountIn(pins, {b}) \in Nat /\ CountIn(blocks, {b}) \in Nat /\ CountIn(toWriter, {b} \X Nat) \in Nat
      /\ CountIn(pending, {b}) \in Nat /\ CountIn(toFrag, {b}) \in Nat
  BY CountType DEF HandTypes
<1>2. Holding(deflator, b) \in Nat /\ Taking(deflator, b) \in Nat
  <2>1. IsFiniteSet(FragDeflators)
    BY DuplicateSearchAssumption
  <2> QED BY <2>1, FS_Subset, FS_CardinalityType DEF Holding, Taking
<1>3. Is(writing, {b}) \in Nat /\ Is(open, {b}) \in Nat /\ Is(got, {b}) \in Nat
  BY DEF Is
<1> QED BY <1>1, <1>2, <1>3 DEF HandTypes

LEMMA UsesAre == UseCounts <=> Counts
BY DEF UseCounts, Counts, WriterCounts, FragCounts, WriterUses, FragUses, Sum7, Sum4, Holding, Taking

\* One more or less of x uses, and x that pass from one to another.
Facts7(u, l, p, w, bl, tw, pe, h, x) ==
  /\ l \in Nat /\ p \in Nat /\ w \in Nat /\ bl \in Nat /\ tw \in Nat /\ pe \in Nat /\ h \in Nat /\ u \in Nat
  /\ u = Sum7(l, p, w, bl, tw, pe, h) /\ (u = 0 => pe = 0 /\ h = 0)
  /\ (x <= h \/ x <= w \/ x <= p \/ x <= bl => x <= u)
  /\ u + x = Sum7(l, p, w, bl, tw, pe, h + x) /\ u + x = Sum7(l, p + x, w, bl, tw, pe, h)
  /\ u + x = Sum7(l, p, w, bl + x, tw, pe, h) /\ u + x = Sum7(l, p, w, bl, tw + x, pe, h)
  /\ u + x = Sum7(l + x, p, w, bl, tw, pe, h)
  /\ u - x = Sum7(l, p, w - x, bl, tw, pe, h) /\ u - x = Sum7(l, p - x, w, bl, tw, pe, h)
  /\ u - x = Sum7(l, p, w, bl - x, tw, pe, h)
  /\ u = Sum7(l, p, w, bl, tw + x, pe, h - x) /\ u = Sum7(l, p, w, bl, tw, pe + x, h - x)
  /\ u = Sum7(l, p, w + x, bl, tw - x, pe, h) /\ u = Sum7(l, p, w, bl - x, tw + x, pe, h)
  /\ u = Sum7(l, p, w, bl, tw + x, pe - x, h)
Facts4(u, o, g, tf, h, x) ==
  /\ o \in Nat /\ g \in Nat /\ tf \in Nat /\ h \in Nat /\ u \in Nat
  /\ u = Sum4(o, g, tf, h) /\ (u = 0 => o = 0 /\ g = 0 /\ tf = 0 /\ h = 0) /\ (x <= h \/ x <= g => x <= u)
  /\ u + x = Sum4(o + x, g, tf, h) /\ u + x = Sum4(o, g + x, tf, h)
  /\ u - x = Sum4(o, g - x, tf, h) /\ u - x = Sum4(o, g, tf, h - x)
  /\ u = Sum4(o - x, g, tf + x, h) /\ u = Sum4(o, g, tf - x, h + x)

LEMMA WriterMoves ==
  ASSUME HandTypes, Counts, NEW b \in WriterBuffers, NEW x \in Nat
  PROVE  Facts7(writerCache.buf[b].used, leaked[b], CountIn(pins, {b}), Is(writing, {b}), CountIn(blocks, {b}),
                CountIn(toWriter, {b} \X Nat), CountIn(pending, {b}), Holding(deflator, b), x)
<1>1. /\ leaked[b] \in Nat /\ CountIn(pins, {b}) \in Nat /\ Is(writing, {b}) \in Nat /\ CountIn(blocks, {b}) \in Nat
      /\ CountIn(toWriter, {b} \X Nat) \in Nat /\ CountIn(pending, {b}) \in Nat /\ Holding(deflator, b) \in Nat
  BY UsesTypes, Zenon
<1>2. writerCache.buf[b].used = Sum7(leaked[b], CountIn(pins, {b}), Is(writing, {b}), CountIn(blocks, {b}),
                                     CountIn(toWriter, {b} \X Nat), CountIn(pending, {b}), Holding(deflator, b))
  BY Zenon DEF Counts, WriterCounts, WriterUses
<1>3. PICK l, p, w, bl \in Nat : l = leaked[b] /\ p = CountIn(pins, {b}) /\ w = Is(writing, {b}) /\ bl = CountIn(blocks, {b})
  BY <1>1, Zenon
<1>4. PICK tw, pe, h \in Nat : tw = CountIn(toWriter, {b} \X Nat) /\ pe = CountIn(pending, {b}) /\ h = Holding(deflator, b)
  BY <1>1, Zenon
<1>5. Facts7(Sum7(l, p, w, bl, tw, pe, h), l, p, w, bl, tw, pe, h, x)
  BY DEF Facts7, Sum7
<1> QED BY <1>2, <1>3, <1>4, <1>5, Zenon

LEMMA FragMoves ==
  ASSUME HandTypes, Counts, NEW b \in FragmentBuffers, NEW x \in Nat
  PROVE  Facts4(fragmentCache.buf[b].used, Is(open, {b}), Is(got, {b}), CountIn(toFrag, {b}), Taking(deflator, b), x)
<1>1. Is(open, {b}) \in Nat /\ Is(got, {b}) \in Nat /\ CountIn(toFrag, {b}) \in Nat /\ Taking(deflator, b) \in Nat
  BY UsesTypes, Zenon
<1>2. fragmentCache.buf[b].used = Sum4(Is(open, {b}), Is(got, {b}), CountIn(toFrag, {b}), Taking(deflator, b))
  BY Zenon DEF Counts, FragCounts, FragUses
<1>3. PICK o, g, tf, h \in Nat : o = Is(open, {b}) /\ g = Is(got, {b}) /\ tf = CountIn(toFrag, {b}) /\ h = Taking(deflator, b)
  BY <1>1, Zenon
<1>4. Facts4(Sum4(o, g, tf, h), o, g, tf, h, x)
  BY DEF Facts4, Sum4
<1> QED BY <1>2, <1>3, <1>4, Zenon

\* Nobody has a buffer that is not used.
LEMMA Unused ==
  ASSUME HandTypes, Counts, NEW b
  PROVE  /\ b \in WriterBuffers /\ writerCache.buf[b].used = 0 =>
              (\A d \in FragDeflators : deflator[d].to # b) /\ \A k \in 1 .. Len(pending) : pending[k] # b
         /\ b \in FragmentBuffers /\ fragmentCache.buf[b].used = 0 =>
              /\ \A d \in FragDeflators : deflator[d].from # b
              /\ (\A k \in 1 .. Len(toFrag) : toFrag[k] # b) /\ open # b /\ got # b
<1>1. ASSUME NEW A, A \subseteq FragDeflators, Cardinality(A) = 0 PROVE A = {}
  <2>1. IsFiniteSet(A)
    BY <1>1, FS_Subset, DuplicateSearchAssumption
  <2> QED BY <1>1, <2>1, FS_EmptySet
<1>2. ASSUME b \in WriterBuffers, writerCache.buf[b].used = 0
      PROVE  (\A d \in FragDeflators : deflator[d].to # b) /\ \A k \in 1 .. Len(pending) : pending[k] # b
  <2>2. CountIn(pending, {b}) = 0 /\ Holding(deflator, b) = 0
    BY <1>2, 0 \in Nat, WriterMoves, Zenon DEF Facts7
  <2>3. {d \in FragDeflators : deflator[d].to = b} = {}
    BY <1>1, <2>2 DEF Holding
  <2>4. ~ \E k \in 1 .. Len(pending) : pending[k] = b
    <3>1. pending \in Seq(WriterBuffers) /\ ~(CountIn(pending, {b}) > 0)
      BY <2>2 DEF HandTypes
    <3> QED BY <3>1, CountSome
  <2> QED BY <2>3, <2>4
<1>3. ASSUME b \in FragmentBuffers, fragmentCache.buf[b].used = 0
      PROVE  /\ \A d \in FragDeflators : deflator[d].from # b
             /\ (\A k \in 1 .. Len(toFrag) : toFrag[k] # b) /\ open # b /\ got # b
  <2>2. CountIn(toFrag, {b}) = 0 /\ Taking(deflator, b) = 0 /\ Is(open, {b}) = 0 /\ Is(got, {b}) = 0
    BY <1>3, 0 \in Nat, FragMoves, Zenon DEF Facts4
  <2>3. {d \in FragDeflators : deflator[d].from = b} = {}
    BY <1>1, <2>2 DEF Taking
  <2>4. ~ \E k \in 1 .. Len(toFrag) : toFrag[k] = b
    <3>1. toFrag \in Seq(FragmentBuffers) /\ ~(CountIn(toFrag, {b}) > 0)
      BY <2>2 DEF HandTypes
    <3> QED BY <3>1, CountSome
  <2> QED BY <2>2, <2>3, <2>4 DEF Is
<1> QED BY <1>2, <1>3

\* What is used stays in the hands of the same, with the same number.
LEMMA NumbersKept ==
  ASSUME NEW w, NEW f, NEW de, NEW pe, NEW tf, NEW o, NEW n \in Nat, NEW t, Numbers(w, f, de, pe, tf, o, n, t),
         de \in [FragDeflators -> Deflators], pe \in Seq(WriterBuffers), tf \in Seq(FragmentBuffers),
         o \in FragmentBuffers \cup {None}, NEW w2, NEW f2,
         \A b \in WriterBuffers : \/ w2[b].index = w[b].index
                                  \/ (\A d \in FragDeflators : de[d].to # b) /\ \A k \in 1 .. Len(pe) : pe[k] # b,
         \A b \in FragmentBuffers : \/ f2[b].index = f[b].index
                                    \/ /\ \A d \in FragDeflators : de[d].from # b
                                       /\ (\A k \in 1 .. Len(tf) : tf[k] # b) /\ o # b
  PROVE  Numbers(w2, f2, de, pe, tf, o, n, t)
<1>1. ASSUME NEW d \in FragDeflators
      PROVE  /\ de[d].from # None => de[d].from \in FragmentBuffers
             /\ de[d].to # None => de[d].to \in WriterBuffers
             /\ de[d].step = "placed" => de[d].to \in WriterBuffers
  BY DEF Deflators
<1>2. \A d \in FragDeflators : /\ de[d].from # None => f2[de[d].from].index \in 0 .. n - 1
                               /\ de[d].to # None => w2[de[d].to].index \in {"frag"} \X (0 .. n - 1)
                               /\ de[d].step = "placed" => w2[de[d].to].index[2] \in DOMAIN t
  BY <1>1, Zenon DEF Numbers
<1>3. \A k \in 1 .. Len(pe) : w2[pe[k]].index \in {"frag"} \X (0 .. n - 1)
  <2>1. \A k \in 1 .. Len(pe) : pe[k] \in WriterBuffers
    OBVIOUS
  <2> QED BY <2>1, Zenon DEF Numbers
<1>4. \A k \in 1 .. Len(tf) : f2[tf[k]].index \in 0 .. n - 1
  <2>1. \A k \in 1 .. Len(tf) : tf[k] \in FragmentBuffers
    OBVIOUS
  <2> QED BY <2>1, Zenon DEF Numbers
<1>5. o # None => f2[o].index = n
  BY DEF Numbers
<1> QED BY <1>2, <1>3, <1>4, <1>5 DEF Numbers

-----------------------------------------------------------------------------
(* A step of a cache, and what the invariant says of it.                   *)

\* Buffer a has n more uses, the others as many; whose indexes in use are the same.
WriterCacheIs(c) == c \in Caches(WriterBuffers, WriterIndexes) /\ CacheOK(c)
                    /\ Numbers(c.buf, fragmentCache.buf, deflator, pending, toFrag, open, fragments, fragTable)
FragCacheIs(c) == c \in Caches(FragmentBuffers, Nat) /\ CacheOK(c)
                  /\ Numbers(writerCache.buf, c.buf, deflator, pending, toFrag, open, fragments, fragTable)

LEMMA NoneIsNone == None \notin WriterIndexes /\ None \notin Nat /\ None \notin WriterBuffers /\ None \notin FragmentBuffers
BY DuplicateSearchAssumption DEF WriterIndexes, Positions, FragKeys

LEMMA SameIndexes ==
  ASSUME IInv
  PROVE  /\ \A c \in Caches(WriterBuffers, WriterIndexes) :
              (CacheOK(c) /\ \A b \in WriterBuffers : \/ c.buf[b].index = writerCache.buf[b].index
                                                     \/ writerCache.buf[b].used = 0) => WriterCacheIs(c)
         /\ \A c \in Caches(FragmentBuffers, Nat) :
              (CacheOK(c) /\ \A b \in FragmentBuffers : \/ c.buf[b].index = fragmentCache.buf[b].index
                                                       \/ fragmentCache.buf[b].used = 0) => FragCacheIs(c)
<1>1. /\ Numbers(writerCache.buf, fragmentCache.buf, deflator, pending, toFrag, open, fragments, fragTable)
      /\ fragments \in Nat /\ deflator \in [FragDeflators -> Deflators] /\ pending \in Seq(WriterBuffers)
      /\ toFrag \in Seq(FragmentBuffers) /\ open \in FragmentBuffers \cup {None}
  BY DEF IInv, Numbered, HandTypes, MainTypes
<1>2. HandTypes /\ Counts
  BY DEF IInv
<1>3. /\ \A b \in WriterBuffers : writerCache.buf[b].used = 0 =>
           (\A d \in FragDeflators : deflator[d].to # b) /\ \A k \in 1 .. Len(pending) : pending[k] # b
      /\ \A b \in FragmentBuffers : fragmentCache.buf[b].used = 0 =>
           /\ \A d \in FragDeflators : deflator[d].from # b
           /\ (\A k \in 1 .. Len(toFrag) : toFrag[k] # b) /\ open # b
  BY <1>2, Unused, Zenon
<1>4. ASSUME NEW c \in Caches(WriterBuffers, WriterIndexes), CacheOK(c),
             \A b \in WriterBuffers : c.buf[b].index = writerCache.buf[b].index \/ writerCache.buf[b].used = 0
      PROVE  WriterCacheIs(c)
  <2>1. Numbers(c.buf, fragmentCache.buf, deflator, pending, toFrag, open, fragments, fragTable)
    <3>1. \A b \in WriterBuffers : \/ c.buf[b].index = writerCache.buf[b].index
                                   \/ (\A d \in FragDeflators : deflator[d].to # b) /\ \A k \in 1 .. Len(pending) : pending[k] # b
      BY <1>3, <1>4, Zenon
    <3> QED BY <1>1, <3>1, NumbersKept
  <2> QED BY <1>4, <2>1 DEF WriterCacheIs
<1>5. ASSUME NEW c \in Caches(FragmentBuffers, Nat), CacheOK(c),
             \A b \in FragmentBuffers : c.buf[b].index = fragmentCache.buf[b].index \/ fragmentCache.buf[b].used = 0
      PROVE  FragCacheIs(c)
  <2>1. Numbers(writerCache.buf, c.buf, deflator, pending, toFrag, open, fragments, fragTable)
    <3>1. \A b \in FragmentBuffers : \/ c.buf[b].index = fragmentCache.buf[b].index
                                     \/ /\ \A d \in FragDeflators : deflator[d].from # b
                                        /\ (\A k \in 1 .. Len(toFrag) : toFrag[k] # b) /\ open # b
      BY <1>3, <1>5, Zenon
    <3> QED BY <1>1, <3>1, NumbersKept
  <2> QED BY <1>5, <2>1 DEF FragCacheIs
<1> QED BY <1>4, <1>5

LEMMA PutsBack ==
  ASSUME IInv
  PROVE  /\ \A e \in WriterBuffers : writerCache.buf[e].used > 0 =>
              /\ WriterCacheIs(Put(writerCache, e))
              /\ \A b \in WriterBuffers : Put(writerCache, e).buf[b].used = writerCache.buf[b].used - Is(e, {b})
         /\ \A e \in FragmentBuffers : fragmentCache.buf[e].used > 0 =>
              /\ FragCacheIs(Put(fragmentCache, e))
              /\ \A b \in FragmentBuffers : Put(fragmentCache, e).buf[b].used = fragmentCache.buf[b].used - Is(e, {b})
<1>1. /\ writerCache \in Caches(WriterBuffers, WriterIndexes) /\ CacheOK(writerCache)
      /\ fragmentCache \in Caches(FragmentBuffers, Nat) /\ CacheOK(fragmentCache)
  BY DEF IInv, CacheTypes
<1>2. /\ DOMAIN writerCache.buf = WriterBuffers /\ \A b \in WriterBuffers : writerCache.buf[b].used \in Nat
      /\ DOMAIN fragmentCache.buf = FragmentBuffers /\ \A b \in FragmentBuffers : fragmentCache.buf[b].used \in Nat
  BY <1>1 DEF Caches
<1>3. ASSUME NEW e \in WriterBuffers, writerCache.buf[e].used > 0
      PROVE  /\ WriterCacheIs(Put(writerCache, e))
             /\ \A b \in WriterBuffers : Put(writerCache, e).buf[b].used = writerCache.buf[b].used - Is(e, {b})
  <2>1. PICK c : c = Put(writerCache, e)
    OBVIOUS
  <2>2. c \in Caches(WriterBuffers, WriterIndexes) /\ CacheOK(c) /\ SameBut(writerCache, c, e, writerCache.buf[e].used - 1)
    BY <1>1, <1>3, <2>1, PutFacts, NoneIsNone, Zenon
  <2>3. \A b \in WriterBuffers : c.buf[b].index = writerCache.buf[b].index /\ c.buf[b].used = writerCache.buf[b].used - Is(e, {b})
    BY <1>2, <2>2 DEF SameBut, Is
  <2>4. WriterCacheIs(c)
    BY <2>2, <2>3, SameIndexes, Zenon
  <2> QED BY <2>1, <2>3, <2>4, Zenon
<1>4. ASSUME NEW e \in FragmentBuffers, fragmentCache.buf[e].used > 0
      PROVE  /\ FragCacheIs(Put(fragmentCache, e))
             /\ \A b \in FragmentBuffers : Put(fragmentCache, e).buf[b].used = fragmentCache.buf[b].used - Is(e, {b})
  <2>1. PICK c : c = Put(fragmentCache, e)
    OBVIOUS
  <2>2. c \in Caches(FragmentBuffers, Nat) /\ CacheOK(c) /\ SameBut(fragmentCache, c, e, fragmentCache.buf[e].used - 1)
    BY <1>1, <1>4, <2>1, PutFacts, NoneIsNone, Zenon
  <2>3. \A b \in FragmentBuffers : c.buf[b].index = fragmentCache.buf[b].index /\ c.buf[b].used = fragmentCache.buf[b].used - Is(e, {b})
    BY <1>2, <2>2 DEF SameBut, Is
  <2>4. FragCacheIs(c)
    BY <2>2, <2>3, SameIndexes, Zenon
  <2> QED BY <2>1, <2>3, <2>4, Zenon
<1> QED BY <1>3, <1>4

LEMMA LooksUp ==
  ASSUME IInv
  PROVE  /\ \A i : Found(writerCache, i) =>
              /\ Find(writerCache, i) \in WriterBuffers
              /\ WriterCacheIs(Lookup(writerCache, Find(writerCache, i)))
              /\ \A b \in WriterBuffers : Lookup(writerCache, Find(writerCache, i)).buf[b].used
                                            = writerCache.buf[b].used + Is(Find(writerCache, i), {b})
         /\ \A i : Found(fragmentCache, i) =>
              /\ Find(fragmentCache, i) \in FragmentBuffers
              /\ FragCacheIs(Lookup(fragmentCache, Find(fragmentCache, i)))
              /\ \A b \in FragmentBuffers : Lookup(fragmentCache, Find(fragmentCache, i)).buf[b].used
                                              = fragmentCache.buf[b].used + Is(Find(fragmentCache, i), {b})
<1>1. /\ writerCache \in Caches(WriterBuffers, WriterIndexes) /\ CacheOK(writerCache)
      /\ fragmentCache \in Caches(FragmentBuffers, Nat) /\ CacheOK(fragmentCache)
  BY DEF IInv, CacheTypes
<1>2. /\ DOMAIN writerCache.buf = WriterBuffers /\ \A b \in WriterBuffers : writerCache.buf[b].used \in Nat
      /\ DOMAIN fragmentCache.buf = FragmentBuffers /\ \A b \in FragmentBuffers : fragmentCache.buf[b].used \in Nat
  BY <1>1 DEF Caches
<1>3. ASSUME NEW i, Found(writerCache, i)
      PROVE  /\ Find(writerCache, i) \in WriterBuffers
             /\ WriterCacheIs(Lookup(writerCache, Find(writerCache, i)))
             /\ \A b \in WriterBuffers : Lookup(writerCache, Find(writerCache, i)).buf[b].used
                                           = writerCache.buf[b].used + Is(Find(writerCache, i), {b})
  <2>1. PICK e : e = Find(writerCache, i)
    OBVIOUS
  <2>2. e \in WriterBuffers /\ writerCache.buf[e].index # None
    <3>1. Find(writerCache, i) \in WriterBuffers /\ writerCache.buf[Find(writerCache, i)].index = i /\ i # None
      BY <1>1, <1>3, FindFacts
    <3> QED BY <2>1, <3>1, Zenon
  <2>3. PICK c : c = Lookup(writerCache, e)
    OBVIOUS
  <2>4. c \in Caches(WriterBuffers, WriterIndexes) /\ CacheOK(c) /\ SameBut(writerCache, c, e, writerCache.buf[e].used + 1)
    BY <1>1, <2>2, <2>3, LookupFacts, NoneIsNone, Zenon
  <2>5. \A b \in WriterBuffers : c.buf[b].index = writerCache.buf[b].index /\ c.buf[b].used = writerCache.buf[b].used + Is(e, {b})
    BY <1>2, <2>4 DEF SameBut, Is
  <2>6. WriterCacheIs(c)
    BY <2>4, <2>5, SameIndexes, Zenon
  <2> QED BY <2>1, <2>2, <2>3, <2>5, <2>6, Zenon
<1>4. ASSUME NEW i, Found(fragmentCache, i)
      PROVE  /\ Find(fragmentCache, i) \in FragmentBuffers
             /\ FragCacheIs(Lookup(fragmentCache, Find(fragmentCache, i)))
             /\ \A b \in FragmentBuffers : Lookup(fragmentCache, Find(fragmentCache, i)).buf[b].used
                                             = fragmentCache.buf[b].used + Is(Find(fragmentCache, i), {b})
  <2>1. PICK e : e = Find(fragmentCache, i)
    OBVIOUS
  <2>2. e \in FragmentBuffers /\ fragmentCache.buf[e].index # None
    <3>1. Find(fragmentCache, i) \in FragmentBuffers /\ fragmentCache.buf[Find(fragmentCache, i)].index = i /\ i # None
      BY <1>1, <1>4, FindFacts
    <3> QED BY <2>1, <3>1, Zenon
  <2>3. PICK c : c = Lookup(fragmentCache, e)
    OBVIOUS
  <2>4. c \in Caches(FragmentBuffers, Nat) /\ CacheOK(c) /\ SameBut(fragmentCache, c, e, fragmentCache.buf[e].used + 1)
    BY <1>1, <2>2, <2>3, LookupFacts, NoneIsNone, Zenon
  <2>5. \A b \in FragmentBuffers : c.buf[b].index = fragmentCache.buf[b].index /\ c.buf[b].used = fragmentCache.buf[b].used + Is(e, {b})
    BY <1>2, <2>4 DEF SameBut, Is
  <2>6. FragCacheIs(c)
    BY <2>4, <2>5, SameIndexes, Zenon
  <2> QED BY <2>1, <2>2, <2>3, <2>5, <2>6, Zenon
<1> QED BY <1>3, <1>4

\* Who takes a buffer has the only use of it.
WriterTaken(c, e, i) == /\ WriterCacheIs(c) /\ c.buf[e].index = i
                        /\ \A b \in WriterBuffers : c.buf[b].used = writerCache.buf[b].used + Is(e, {b})
FragTaken(c, e, i) == /\ FragCacheIs(c) /\ c.buf[e].index = i
                      /\ \A b \in FragmentBuffers : c.buf[b].used = fragmentCache.buf[b].used + Is(e, {b})
LEMMA Takes ==
  ASSUME IInv
  PROVE  /\ CanGet(writerCache) => NextFree(writerCache) \in WriterBuffers
              /\ \A i \in WriterIndexes, x \in Datas :
                   WriterTaken(Fresh(writerCache, NextFree(writerCache), i, x), NextFree(writerCache), i)
         /\ CanGet(fragmentCache) => NextFree(fragmentCache) \in FragmentBuffers
              /\ \A i \in Nat, x \in Datas :
                   FragTaken(Fresh(fragmentCache, NextFree(fragmentCache), i, x), NextFree(fragmentCache), i)
<1>1. /\ writerCache \in Caches(WriterBuffers, WriterIndexes) /\ CacheOK(writerCache)
      /\ fragmentCache \in Caches(FragmentBuffers, Nat) /\ CacheOK(fragmentCache)
  BY DEF IInv, CacheTypes
<1>2. /\ writerCache.buf \in Buffers(WriterBuffers, WriterIndexes) /\ fragmentCache.buf \in Buffers(FragmentBuffers, Nat)
      /\ \A b \in WriterBuffers : writerCache.buf[b].used \in Nat
      /\ \A b \in FragmentBuffers : fragmentCache.buf[b].used \in Nat
  BY <1>1 DEF Caches, Buffers
<1>3. ASSUME CanGet(writerCache)
      PROVE  NextFree(writerCache) \in WriterBuffers
              /\ \A i \in WriterIndexes, x \in Datas :
                   WriterTaken(Fresh(writerCache, NextFree(writerCache), i, x), NextFree(writerCache), i)
  <2>1. PICK e : e = NextFree(writerCache)
    OBVIOUS
  <2>2. e \in WriterBuffers /\ writerCache.buf[e].used = 0
    BY <1>1, <1>3, <2>1, NextFreeFacts, Zenon
  <2>3. ASSUME NEW i \in WriterIndexes, NEW x \in Datas, NEW c, c = Fresh(writerCache, e, i, x)
        PROVE  WriterTaken(c, e, i)
    <3>1. c \in Caches(WriterBuffers, WriterIndexes) /\ CacheOK(c)
      BY <1>1, <2>2, <2>3, FreshFacts, NoneIsNone, Zenon
    <3>2. c.buf = [writerCache.buf EXCEPT ![e] = [used |-> 1, index |-> i, data |-> x]]
      BY <2>3 DEF Fresh
    <3>3. c.buf[e].index = i /\ c.buf[e].used = 1 /\ \A b \in WriterBuffers : b # e => c.buf[b] = writerCache.buf[b]
      BY <1>2, <2>2, <3>2 DEF Buffers
    <3>4. WriterCacheIs(c)
      <4>1. \A b \in WriterBuffers : c.buf[b].index = writerCache.buf[b].index \/ writerCache.buf[b].used = 0
        BY <2>2, <3>3, Zenon
      <4> QED BY <3>1, <4>1, SameIndexes, Zenon
    <3>5. \A b \in WriterBuffers : c.buf[b].used = writerCache.buf[b].used + Is(e, {b})
      BY <1>2, <2>2, <3>3 DEF Is
    <3> QED BY <3>3, <3>4, <3>5 DEF WriterTaken
  <2> QED BY <2>1, <2>2, <2>3, Zenon
<1>4. ASSUME CanGet(fragmentCache)
      PROVE  NextFree(fragmentCache) \in FragmentBuffers
              /\ \A i \in Nat, x \in Datas :
                   FragTaken(Fresh(fragmentCache, NextFree(fragmentCache), i, x), NextFree(fragmentCache), i)
  <2>1. PICK e : e = NextFree(fragmentCache)
    OBVIOUS
  <2>2. e \in FragmentBuffers /\ fragmentCache.buf[e].used = 0
    BY <1>1, <1>4, <2>1, NextFreeFacts, Zenon
  <2>3. ASSUME NEW i \in Nat, NEW x \in Datas, NEW c, c = Fresh(fragmentCache, e, i, x)
        PROVE  FragTaken(c, e, i)
    <3>1. c \in Caches(FragmentBuffers, Nat) /\ CacheOK(c)
      BY <1>1, <2>2, <2>3, FreshFacts, NoneIsNone, Zenon
    <3>2. c.buf = [fragmentCache.buf EXCEPT ![e] = [used |-> 1, index |-> i, data |-> x]]
      BY <2>3 DEF Fresh
    <3>3. c.buf[e].index = i /\ c.buf[e].used = 1 /\ \A b \in FragmentBuffers : b # e => c.buf[b] = fragmentCache.buf[b]
      BY <1>2, <2>2, <3>2 DEF Buffers
    <3>4. FragCacheIs(c)
      <4>1. \A b \in FragmentBuffers : c.buf[b].index = fragmentCache.buf[b].index \/ fragmentCache.buf[b].used = 0
        BY <2>2, <3>3, Zenon
      <4> QED BY <3>1, <4>1, SameIndexes, Zenon
    <3>5. \A b \in FragmentBuffers : c.buf[b].used = fragmentCache.buf[b].used + Is(e, {b})
      BY <1>2, <2>2, <3>3 DEF Is
    <3> QED BY <3>3, <3>4, <3>5 DEF FragTaken
  <2> QED BY <2>1, <2>2, <2>3, Zenon
<1> QED BY <1>3, <1>4

-----------------------------------------------------------------------------
(* The invariant holds at the start, and every step keeps it.              *)

\* Of the main thread's steps, the next and those behind it.
LEMMA TodoFacts ==
  ASSUME NEW t, Todo(t), t # <<>>
  PROVE  /\ Head(t) \in Steps => t \in Seq(Steps) /\ Tail(t) \in Seq(Steps)
         /\ Head(t) = "read" => /\ t[2] \in Nat /\ Tail(Tail(t)) \in Seq(Steps)
                                /\ Tail(Tail(t)) # <<>> /\ Head(Tail(Tail(t))) = "search"
<1>1. "read" \notin Steps
  BY DEF Steps
<1>2. CASE t \in Seq(Steps)
  <2>1. Head(t) \in Steps /\ Tail(t) \in Seq(Steps)
    BY <1>2
  <2> QED BY <1>1, <1>2, <2>1
<1>3. ASSUME NEW f \in Nat, NEW rest \in Seq(Steps), t = <<"read", f>> \o rest, rest # <<>>, Head(rest) = "search"
      PROVE  Head(t) = "read" /\ t[2] = f /\ Tail(Tail(t)) = rest
  <2> DEFINE U == Steps \cup {"read"} \cup Nat
  <2>1. PICK p : p = <<"read", f>>
    OBVIOUS
  <2>2. p \in Seq(U) /\ Len(p) = 2 /\ p[1] = "read" /\ p[2] = f
    BY <2>1
  <2>3. rest \in Seq(U)
    BY <1>3
  <2> HIDE DEF U
  <2>4. PICK n \in Nat : n = Len(rest)
    BY <2>3
  <2>5. /\ t \in Seq(U) /\ Len(t) = Len(p) + Len(rest)
        /\ (\A k \in 1 .. Len(p) : t[k] = p[k]) /\ \A k \in 1 .. Len(rest) : t[Len(p) + k] = rest[k]
    BY <1>3, <2>1, <2>2, <2>3, SMTT(20)
  <2>6. Len(t) = n + 2 /\ t[1] = "read" /\ t[2] = f /\ \A k \in 1 .. n : t[2 + k] = rest[k]
    BY <2>2, <2>4, <2>5
  <2>7. PICK a : a = Tail(t)
    OBVIOUS
  <2>8. a \in Seq(U) /\ Len(a) = n + 1 /\ \A k \in 1 .. n + 1 : a[k] = t[k + 1]
    BY <2>5, <2>6, <2>7
  <2>9. PICK c : c = Tail(a)
    OBVIOUS
  <2>10. c \in Seq(U) /\ Len(c) = n /\ \A k \in 1 .. n : c[k] = a[k + 1]
    BY <2>8, <2>9
  <2>11. \A k \in 1 .. n : c[k] = rest[k]
    <3> TAKE k \in 1 .. n
    <3>1. k + 1 \in 1 .. n + 1 /\ (k + 1) + 1 = 2 + k
      OBVIOUS
    <3>2. c[k] = a[k + 1] /\ a[k + 1] = t[(k + 1) + 1] /\ t[2 + k] = rest[k]
      BY <2>6, <2>8, <2>10, <3>1
    <3> QED BY <3>1, <3>2
  <2>12. c = rest
    BY <2>3, <2>4, <2>10, <2>11
  <2> QED BY <2>5, <2>6, <2>7, <2>9, <2>12
<1> QED BY <1>1, <1>2, <1>3 DEF Todo

LEMMA InitInv == Init => IInv
<1> SUFFICES ASSUME Init PROVE IInv
  OBVIOUS
<1>1. ASSUME NEW B, NEW I PROVE EmptyCache(B) \in Caches(B, I) /\ CacheOK(EmptyCache(B)) /\ \A b \in B : EmptyCache(B).buf[b].used = 0
  <2>1. PICK c : c = EmptyCache(B)
    OBVIOUS
  <2>2. c \in Caches(B, I)
    BY <2>1 DEF Caches, EmptyCache, Unallocated, Datas
  <2>3. c.hash = <<>> /\ c.free = <<>> /\ (\A b \in B : c.buf[b].used = 0 /\ c.buf[b].index = None)
    BY <2>1 DEF EmptyCache, Unallocated
  <2>4. Distinct(<<>>) /\ ToSet(<<>>) = {}
    BY DEF Distinct, ToSet
  <2>5. CacheOK(c)
    BY <2>2, <2>3, <2>4, CacheIs
  <2> QED BY <2>1, <2>2, <2>3, <2>5
<1>2. CacheTypes
  BY <1>1 DEF Init, CacheTypes
<1>3. HandTypes
  BY DEF Init, HandTypes, Idle, Deflators
<1>4. MainTypes
  <2>1. file \in Files /\ searches \in 0 .. MaxSearches
    BY DuplicateSearchAssumption DEF Init, NoFile, Files
  <2>2. Todo(todo)
    BY DEF Init, Todo
  <2> QED BY <2>1, <2>2 DEF Init, MainTypes, Table
<1>5. HeldBlocks
  BY DEF Init, HeldBlocks, NoFile
<1>6. Numbered
  BY DEF Init, Numbered, Numbers, Idle
<1>7. Counts
  <2>1. \A b : b # None => Holding(deflator, b) = 0
    <3> SUFFICES ASSUME NEW b, b # None PROVE Holding(deflator, b) = 0
      OBVIOUS
    <3>1. {d \in FragDeflators : deflator[d].to = b} = {}
      BY DEF Init, Idle
    <3> QED BY <3>1, FS_EmptySet DEF Holding
  <2>2. \A b : b # None => Taking(deflator, b) = 0
    <3> SUFFICES ASSUME NEW b, b # None PROVE Taking(deflator, b) = 0
      OBVIOUS
    <3>1. {d \in FragDeflators : deflator[d].from = b} = {}
      BY DEF Init, Idle
    <3> QED BY <3>1, FS_EmptySet DEF Taking
  <2>3. WriterCounts
    <3> SUFFICES ASSUME NEW b \in WriterBuffers
                 PROVE  writerCache.buf[b].used = WriterUses(leaked, pins, writing, blocks, toWriter, pending, deflator, b)
      BY DEF WriterCounts
    <3>1. writerCache.buf[b].used = 0 /\ leaked[b] = 0 /\ b # None
      BY <1>1, NoneIsNone DEF Init
    <3>2. CountIn(pins, {b}) = 0 /\ CountIn(blocks, {b}) = 0 /\ CountIn(toWriter, {b} \X Nat) = 0 /\ CountIn(pending, {b}) = 0
      BY CountEmpty, Zenon DEF Init
    <3>3. Is(writing, {b}) = 0
      BY <3>1 DEF Init, Is
    <3>4. Holding(deflator, b) = 0
      BY <2>1, <3>1
    <3>5. Sum7(0, 0, 0, 0, 0, 0, 0) = 0
      BY DEF Sum7
    <3> QED BY <3>1, <3>2, <3>3, <3>4, <3>5, Zenon DEF WriterUses
  <2>4. FragCounts
    <3> SUFFICES ASSUME NEW b \in FragmentBuffers PROVE fragmentCache.buf[b].used = FragUses(open, got, toFrag, deflator, b)
      BY DEF FragCounts
    <3>1. fragmentCache.buf[b].used = 0 /\ b # None
      BY <1>1, NoneIsNone DEF Init
    <3>2. CountIn(toFrag, {b}) = 0
      BY CountEmpty, Zenon DEF Init
    <3>3. Is(open, {b}) = 0 /\ Is(got, {b}) = 0
      BY <3>1 DEF Init, Is
    <3>4. Taking(deflator, b) = 0
      BY <2>2, <3>1
    <3>5. Sum4(0, 0, 0, 0) = 0
      BY DEF Sum4
    <3> QED BY <3>1, <3>2, <3>3, <3>4, <3>5, Zenon DEF FragUses
  <2> QED BY <2>3, <2>4 DEF Counts
<1> QED BY <1>2, <1>3, <1>4, <1>5, <1>6, <1>7 DEF IInv

\* What a step does to the counts: b has x less uses, or more, in u and in one term.
LEMMA PutBlockKeeps == IInv /\ PutBlock => IInv'
<1> SUFFICES ASSUME IInv, PutBlock PROVE IInv'
  OBVIOUS
<1>1. PICK e \in WriterBuffers : e = Head(pins) /\ pins \in Seq(WriterBuffers) /\ pins # <<>>
  BY TailFacts DEF IInv, HandTypes, PutBlock
<1>2. \A b \in WriterBuffers : CountIn(pins', {b}) = CountIn(pins, {b}) - Is(e, {b}) /\ CountIn(pins', {b}) \in Nat
  <2> TAKE b \in WriterBuffers
  <2>1. CountIn(pins, {b}) = CountIn(pins', {b}) + Is(e, {b}) /\ CountIn(pins', {b}) \in Nat
    BY <1>1, CountTail DEF PutBlock
  <2> QED BY <2>1 DEF Is
<1>3. writerCache.buf[e].used > 0
  <2>1. Is(e, {e}) = 1
    BY DEF Is
  <2>2. 1 <= CountIn(pins, {e})
    <3>1. CountIn(pins, {e}) = CountIn(pins', {e}) + Is(e, {e}) /\ CountIn(pins', {e}) \in Nat
      BY <1>1, CountTail DEF PutBlock
    <3> QED BY <2>1, <3>1
  <2>3. 1 <= writerCache.buf[e].used /\ writerCache.buf[e].used \in Nat
    BY <2>2, 1 \in Nat, WriterMoves, Zenon DEF Facts7, IInv
  <2> QED BY <2>3
<1>4. WriterCacheIs(writerCache') /\ \A b \in WriterBuffers : writerCache'.buf[b].used = writerCache.buf[b].used - Is(e, {b})
  BY <1>1, <1>3, PutsBack, Zenon DEF PutBlock
<1>5. CacheTypes' /\ Numbered'
  BY <1>4 DEF IInv, PutBlock, CacheTypes, Numbered, WriterCacheIs, fragVars, placeVars
<1>6. HandTypes'
  BY <1>1, TailFacts DEF IInv, PutBlock, HandTypes, fileVars, fragVars, writeVars
<1>7. MainTypes' /\ HeldBlocks'
  BY DEF IInv, PutBlock, MainTypes, HeldBlocks, At, fileVars, fragVars, placeVars, writeVars
<1>8. WriterCounts'
  <2> SUFFICES ASSUME NEW b \in WriterBuffers
               PROVE  writerCache'.buf[b].used = WriterUses(leaked', pins', writing', blocks', toWriter', pending', deflator', b)
    BY DEF WriterCounts
  <2>1. Is(e, {b}) \in Nat
    BY DEF Is
  <2>2. writerCache.buf[b].used - Is(e, {b})
          = Sum7(leaked[b], CountIn(pins, {b}) - Is(e, {b}), Is(writing, {b}), CountIn(blocks, {b}),
                 CountIn(toWriter, {b} \X Nat), CountIn(pending, {b}), Holding(deflator, b))
    BY <2>1, WriterMoves, Zenon DEF IInv, Facts7
  <2>3. leaked' = leaked /\ writing' = writing /\ blocks' = blocks /\ toWriter' = toWriter /\ pending' = pending /\ deflator' = deflator
    BY DEF PutBlock, fileVars, writeVars
  <2> QED BY <1>2, <1>4, <2>2, <2>3, Zenon DEF WriterUses
<1>9. FragCounts'
  BY DEF IInv, Counts, FragCounts, PutBlock, fragVars
<1> QED BY <1>5, <1>6, <1>7, <1>8, <1>9 DEF IInv, Counts

LEMMA LookupBlockKeeps == IInv /\ LookupBlock => IInv'
<1> SUFFICES ASSUME IInv, LookupBlock PROVE IInv'
  OBVIOUS
<1>1. PICK i : Found(writerCache, i) /\ pins' = Append(pins, Find(writerCache, i)) /\ writerCache' = Lookup(writerCache, Find(writerCache, i))
  BY Zenon DEF LookupBlock
<1>2. PICK e : e = Find(writerCache, i)
  OBVIOUS
<1>3. /\ e \in WriterBuffers /\ WriterCacheIs(writerCache') /\ pins' = Append(pins, e)
      /\ \A b \in WriterBuffers : writerCache'.buf[b].used = writerCache.buf[b].used + Is(e, {b})
  BY <1>1, <1>2, LooksUp, Zenon
<1>4. pins \in Seq(WriterBuffers)
  BY DEF IInv, HandTypes
<1>5. CacheTypes' /\ Numbered'
  BY <1>3 DEF IInv, LookupBlock, CacheTypes, Numbered, WriterCacheIs, fragVars, placeVars
<1>6. HandTypes'
  BY <1>3 DEF IInv, LookupBlock, HandTypes, fileVars, fragVars, writeVars
<1>7. MainTypes' /\ HeldBlocks'
  <2>1. MainTypes /\ searches < MaxSearches /\ searches' = searches + 1 /\ UNCHANGED <<todo, fileVars, fragVars, placeVars, disk>>
    BY DEF IInv, LookupBlock, writeVars
  <2>2. searches' \in 0 .. MaxSearches
    BY <2>1, DuplicateSearchAssumption DEF MainTypes
  <2> QED BY <2>1, <2>2 DEF IInv, LookupBlock, MainTypes, HeldBlocks, At, fileVars, fragVars, placeVars, writeVars
<1>8. WriterCounts'
  <2> SUFFICES ASSUME NEW b \in WriterBuffers
               PROVE  writerCache'.buf[b].used = WriterUses(leaked', pins', writing', blocks', toWriter', pending', deflator', b)
    BY DEF WriterCounts
  <2>1. Is(e, {b}) \in Nat /\ CountIn(pins', {b}) = CountIn(pins, {b}) + Is(e, {b})
    BY <1>3, <1>4, CountAppend DEF Is
  <2>2. writerCache.buf[b].used + Is(e, {b})
          = Sum7(leaked[b], CountIn(pins, {b}) + Is(e, {b}), Is(writing, {b}), CountIn(blocks, {b}),
                 CountIn(toWriter, {b} \X Nat), CountIn(pending, {b}), Holding(deflator, b))
    BY <2>1, WriterMoves, Zenon DEF IInv, Counts, Facts7
  <2>3. leaked' = leaked /\ writing' = writing /\ blocks' = blocks /\ toWriter' = toWriter /\ pending' = pending /\ deflator' = deflator
    BY DEF LookupBlock, fileVars, writeVars
  <2> QED BY <1>3, <2>1, <2>2, <2>3, Zenon DEF WriterUses
<1>9. FragCounts'
  BY DEF IInv, Counts, FragCounts, LookupBlock, fragVars
<1> QED BY <1>5, <1>6, <1>7, <1>8, <1>9 DEF IInv, Counts

LEMMA WriterPutBackKeeps == IInv /\ WriterPutBack => IInv'
<1> SUFFICES ASSUME IInv, WriterPutBack PROVE IInv'
  OBVIOUS
<1>1. PICK e \in WriterBuffers : e = writing
  BY DEF IInv, HandTypes, WriterPutBack
<1>2. \A b \in WriterBuffers : Is(writing, {b}) = Is(e, {b}) /\ Is(writing', {b}) = Is(writing, {b}) - Is(e, {b})
  BY <1>1, NoneIsNone DEF WriterPutBack, Is
<1>3. writerCache.buf[e].used > 0
  <2>1. 1 <= Is(writing, {e})
    BY <1>1 DEF Is
  <2>2. 1 <= writerCache.buf[e].used /\ writerCache.buf[e].used \in Nat
    BY <2>1, 1 \in Nat, WriterMoves, Zenon DEF Facts7, IInv
  <2> QED BY <2>2
<1>4. WriterCacheIs(writerCache') /\ \A b \in WriterBuffers : writerCache'.buf[b].used = writerCache.buf[b].used - Is(e, {b})
  BY <1>1, <1>3, PutsBack, Zenon DEF WriterPutBack
<1>5. CacheTypes' /\ Numbered'
  BY <1>4 DEF IInv, WriterPutBack, CacheTypes, Numbered, WriterCacheIs, fragVars, placeVars
<1>6. HandTypes'
  BY DEF IInv, WriterPutBack, HandTypes, fileVars, fragVars, searchVars
<1>7. MainTypes' /\ HeldBlocks'
  BY DEF IInv, WriterPutBack, MainTypes, HeldBlocks, At, fileVars, fragVars, placeVars, searchVars
<1>8. WriterCounts'
  <2> SUFFICES ASSUME NEW b \in WriterBuffers
               PROVE  writerCache'.buf[b].used = WriterUses(leaked', pins', writing', blocks', toWriter', pending', deflator', b)
    BY DEF WriterCounts
  <2>1. Is(e, {b}) \in Nat
    BY DEF Is
  <2>2. writerCache.buf[b].used - Is(e, {b})
          = Sum7(leaked[b], CountIn(pins, {b}), Is(writing, {b}) - Is(e, {b}), CountIn(blocks, {b}),
                 CountIn(toWriter, {b} \X Nat), CountIn(pending, {b}), Holding(deflator, b))
    BY <2>1, WriterMoves, Zenon DEF IInv, Counts, Facts7
  <2>3. leaked' = leaked /\ pins' = pins /\ blocks' = blocks /\ toWriter' = toWriter /\ pending' = pending /\ deflator' = deflator
    BY DEF WriterPutBack, fileVars, searchVars
  <2> QED BY <1>2, <1>4, <2>2, <2>3, Zenon DEF WriterUses
<1>9. FragCounts'
  BY DEF IInv, Counts, FragCounts, WriterPutBack, fragVars, searchVars
<1> QED BY <1>5, <1>6, <1>7, <1>8, <1>9 DEF IInv, Counts

LEMMA PutFragmentKeeps == IInv /\ PutFragment => IInv'
<1> SUFFICES ASSUME IInv, PutFragment PROVE IInv'
  OBVIOUS
<1>1. PICK e \in FragmentBuffers : e = got
  BY DEF IInv, HandTypes, PutFragment
<1>2. \A b \in FragmentBuffers : Is(got, {b}) = Is(e, {b}) /\ Is(got', {b}) = Is(got, {b}) - Is(e, {b})
  BY <1>1, NoneIsNone DEF PutFragment, Is
<1>3. fragmentCache.buf[e].used > 0
  <2>1. 1 <= Is(got, {e})
    BY <1>1 DEF Is
  <2>2. 1 <= fragmentCache.buf[e].used /\ fragmentCache.buf[e].used \in Nat
    BY <2>1, 1 \in Nat, FragMoves, Zenon DEF Facts4, IInv
  <2> QED BY <2>2
<1>4. FragCacheIs(fragmentCache') /\ \A b \in FragmentBuffers : fragmentCache'.buf[b].used = fragmentCache.buf[b].used - Is(e, {b})
  BY <1>1, <1>3, PutsBack, Zenon DEF PutFragment
<1>5. CacheTypes' /\ Numbered'
  BY <1>4 DEF IInv, PutFragment, CacheTypes, Numbered, FragCacheIs, fragVars, placeVars
<1>6. HandTypes'
  BY DEF IInv, PutFragment, HandTypes, fileVars, fragVars, writeVars
<1>7. MainTypes' /\ HeldBlocks'
  BY DEF IInv, PutFragment, MainTypes, HeldBlocks, At, fileVars, fragVars, placeVars, writeVars
<1>8. FragCounts'
  <2> SUFFICES ASSUME NEW b \in FragmentBuffers PROVE fragmentCache'.buf[b].used = FragUses(open', got', toFrag', deflator', b)
    BY DEF FragCounts
  <2>1. Is(e, {b}) \in Nat
    BY DEF Is
  <2>2. fragmentCache.buf[b].used - Is(e, {b}) = Sum4(Is(open, {b}), Is(got, {b}) - Is(e, {b}), CountIn(toFrag, {b}), Taking(deflator, b))
    BY <2>1, FragMoves, Zenon DEF IInv, Counts, Facts4
  <2>3. open' = open /\ toFrag' = toFrag /\ deflator' = deflator
    BY DEF PutFragment, fragVars
  <2> QED BY <1>2, <1>4, <2>2, <2>3, Zenon DEF FragUses
<1>9. WriterCounts'
  BY DEF IInv, Counts, WriterCounts, PutFragment, fileVars, writeVars
<1> QED BY <1>5, <1>6, <1>7, <1>8, <1>9 DEF IInv, Counts

\* A deflator's state, and what of the invariant its step leaves to show.
LEMMA DeflatorIs ==
  ASSUME HandTypes, NEW x \in FragDeflators
  PROVE  /\ deflator[x] \in Deflators
         /\ deflator[x].step = "idle" => deflator[x].from = None /\ deflator[x].to = None
         /\ deflator[x].step \in {"taken", "done"} => deflator[x].from \in FragmentBuffers /\ deflator[x].to = None
         /\ deflator[x].step \in {"compressed", "deferred", "placed"} =>
              deflator[x].from \in FragmentBuffers /\ deflator[x].to \in WriterBuffers
<1>1. PICK r \in Deflators : r = deflator[x]
  BY DEF HandTypes
<1>2. /\ r.step = "idle" => r.from = None /\ r.to = None
      /\ r.step \in {"taken", "done"} => r.from \in FragmentBuffers /\ r.to = None
      /\ r.step \in {"compressed", "deferred", "placed"} => r.from \in FragmentBuffers /\ r.to \in WriterBuffers
  BY DEF Deflators
<1> QED BY <1>1, <1>2, Zenon

LEMMA NumbersDeflator ==
  ASSUME NEW w, NEW f, NEW de \in [FragDeflators -> Deflators], NEW pe, NEW tf, NEW o, NEW n, NEW t,
         Numbers(w, f, de, pe, tf, o, n, t), NEW x \in FragDeflators, NEW r,
         r.from # None => f[r.from].index \in 0 .. n - 1,
         r.to # None => w[r.to].index \in {"frag"} \X (0 .. n - 1),
         r.step = "placed" => w[r.to].index[2] \in DOMAIN t, NEW d2, d2 = [de EXCEPT ![x] = r]
  PROVE  Numbers(w, f, d2, pe, tf, o, n, t)
<1>1. d2[x] = r /\ \A d \in FragDeflators : d # x => d2[d] = de[d]
  OBVIOUS
<1>2. ASSUME NEW d \in FragDeflators
      PROVE  /\ d2[d].from # None => f[d2[d].from].index \in 0 .. n - 1
             /\ d2[d].to # None => w[d2[d].to].index \in {"frag"} \X (0 .. n - 1)
             /\ d2[d].step = "placed" => w[d2[d].to].index[2] \in DOMAIN t
  BY <1>1, Zenon DEF Numbers
<1> QED BY <1>2, Zenon DEF Numbers

Moved(n, de, had, to, was, from) ==
  /\ n \in [FragDeflators -> Deflators]
  /\ \A b : /\ Holding(n, b) + Is(had, {b}) = Holding(de, b) + Is(to, {b})
            /\ Taking(n, b) + Is(was, {b}) = Taking(de, b) + Is(from, {b})
            /\ Holding(n, b) \in Nat /\ Taking(n, b) \in Nat /\ Holding(de, b) \in Nat /\ Taking(de, b) \in Nat
            /\ Is(had, {b}) \in Nat /\ Is(was, {b}) \in Nat /\ Is(to, {b}) \in Nat /\ Is(from, {b}) \in Nat
LEMMA DeflatorNow ==
  ASSUME HandTypes, NEW x \in FragDeflators, NEW step, NEW from, NEW to, Now(x, step, from, to),
         [step |-> step, from |-> from, to |-> to] \in Deflators
  PROVE  Moved(deflator', deflator, deflator[x].to, to, deflator[x].from, from)
<1>1. PICK r \in Deflators : r = [step |-> step, from |-> from, to |-> to]
  OBVIOUS
<1>2. r.from = from /\ r.to = to /\ deflator' = [deflator EXCEPT ![x] = r]
  BY <1>1 DEF Now
<1>3. deflator \in [FragDeflators -> Deflators]
  BY DEF HandTypes
<1>4. ASSUME NEW b
      PROVE  /\ [deflator EXCEPT ![x] = r] \in [FragDeflators -> Deflators]
             /\ Holding([deflator EXCEPT ![x] = r], b) + Is(deflator[x].to, {b}) = Holding(deflator, b) + Is(r.to, {b})
             /\ Taking([deflator EXCEPT ![x] = r], b) + Is(deflator[x].from, {b}) = Taking(deflator, b) + Is(r.from, {b})
             /\ Holding([deflator EXCEPT ![x] = r], b) \in Nat /\ Taking([deflator EXCEPT ![x] = r], b) \in Nat
  BY <1>3, OneDeflator
<1>5. \A b : Holding(deflator, b) \in Nat /\ Taking(deflator, b) \in Nat
  BY UsesTypes, Zenon
<1>6. \A e, b : Is(e, {b}) \in Nat
  BY DEF Is
<1> QED BY <1>2, <1>4, <1>5, <1>6 DEF Moved

LEMMA FragTakeKeeps == ASSUME IInv, NEW x \in FragDeflators, FragTake(x) PROVE IInv'
<1>1. PICK e \in FragmentBuffers : e = Head(toFrag) /\ toFrag \in Seq(FragmentBuffers) /\ toFrag # <<>>
  BY TailFacts DEF IInv, HandTypes, FragTake
<1>2. /\ None = deflator[x].from /\ None = deflator[x].to /\ Now(x, "taken", e, None)
      /\ [step |-> "taken", from |-> e, to |-> None] \in Deflators
  BY <1>1, DeflatorIs DEF IInv, FragTake, Deflators
<1>3. deflator \in [FragDeflators -> Deflators] /\ HandTypes
  BY DEF IInv, HandTypes
<1>4. Moved(deflator', deflator, None, None, None, e)
  BY <1>2, <1>3, DeflatorNow, Zenon
<1>5. /\ toFrag' \in Seq(FragmentBuffers)
      /\ \A b : CountIn(toFrag, {b}) = CountIn(toFrag', {b}) + Is(e, {b}) /\ CountIn(toFrag', {b}) \in Nat
  BY <1>1, CountTail, TailFacts DEF FragTake
<1>6. CacheTypes'
  BY DEF IInv, CacheTypes, FragTake
<1>7. HandTypes'
  BY <1>4, <1>5 DEF Moved, IInv, FragTake, HandTypes, fileVars, writeVars, searchVars
<1>8. MainTypes' /\ HeldBlocks'
  BY DEF IInv, FragTake, MainTypes, HeldBlocks, At, fileVars, placeVars, writeVars, searchVars
<1>9. Numbered'
  <2>1. fragmentCache.buf[e].index \in 0 .. fragments - 1
    BY <1>1, TailFacts DEF IInv, Numbered, Numbers
  <2>2. Numbers(writerCache.buf, fragmentCache.buf, deflator, pending, toFrag', open, fragments, fragTable)
    <3>1. \A k \in 1 .. Len(toFrag') : \E j \in 1 .. Len(toFrag) : toFrag'[k] = toFrag[j]
      BY <1>1, TailFacts DEF FragTake
    <3>2. \A k \in 1 .. Len(toFrag') : fragmentCache.buf[toFrag'[k]].index \in 0 .. fragments - 1
      BY <3>1, Zenon DEF IInv, Numbered, Numbers
    <3> QED BY <3>2, Zenon DEF IInv, Numbered, Numbers
  <2>3. PICK r : r = [step |-> "taken", from |-> e, to |-> None]
    OBVIOUS
  <2>4. r.from = e /\ r.to = None /\ r.step # "placed" /\ deflator' = [deflator EXCEPT ![x] = r]
    BY <1>2, <2>3 DEF Now
  <2>5. Numbers(writerCache.buf, fragmentCache.buf, deflator', pending, toFrag', open, fragments, fragTable)
    BY <1>3, <2>1, <2>2, <2>4, NumbersDeflator
  <2> QED BY <2>5, Zenon DEF FragTake, Numbered, placeVars
<1>10. FragCounts'
  <2> SUFFICES ASSUME NEW b \in FragmentBuffers PROVE fragmentCache'.buf[b].used = FragUses(open', got', toFrag', deflator', b)
    BY DEF FragCounts
  <2>1. Is(e, {b}) \in Nat /\ Is(None, {b}) = 0
    BY NoneIsNone DEF Is
  <2>2. fragmentCache.buf[b].used = Sum4(Is(open, {b}), Is(got, {b}), CountIn(toFrag, {b}) - Is(e, {b}), Taking(deflator, b) + Is(e, {b}))
        /\ CountIn(toFrag, {b}) \in Nat /\ Taking(deflator, b) \in Nat
    BY <2>1, FragMoves, Zenon DEF IInv, Counts, Facts4
  <2>3. open' = open /\ got' = got /\ fragmentCache' = fragmentCache
    BY DEF FragTake, searchVars
  <2>4. CountIn(toFrag', {b}) = CountIn(toFrag, {b}) - Is(e, {b}) /\ Taking(deflator', b) = Taking(deflator, b) + Is(e, {b})
    <3>1. /\ Taking(deflator', b) + Is(None, {b}) = Taking(deflator, b) + Is(e, {b}) /\ Taking(deflator', b) \in Nat
          /\ CountIn(toFrag, {b}) = CountIn(toFrag', {b}) + Is(e, {b}) /\ CountIn(toFrag', {b}) \in Nat
      BY <1>4, <1>5, Zenon DEF Moved
    <3> QED BY <2>1, <2>2, <3>1
  <2> QED BY <2>2, <2>3, <2>4, Zenon DEF FragUses
<1>11. WriterCounts'
  <2>1. \A b \in WriterBuffers : Holding(deflator', b) = Holding(deflator, b)
    <3> TAKE b \in WriterBuffers
    <3>1. /\ Holding(deflator', b) + Is(None, {b}) = Holding(deflator, b) + Is(None, {b})
          /\ Holding(deflator', b) \in Nat /\ Holding(deflator, b) \in Nat /\ Is(None, {b}) \in Nat
      BY <1>4, Zenon DEF Moved
    <3> QED BY <3>1
  <2>2. /\ leaked' = leaked /\ writing' = writing /\ blocks' = blocks /\ toWriter' = toWriter /\ pending' = pending
        /\ pins' = pins /\ writerCache' = writerCache
    BY DEF FragTake, fileVars, searchVars, writeVars
  <2> QED BY <2>1, <2>2, Zenon DEF IInv, Counts, WriterCounts, WriterUses
<1> QED BY <1>6, <1>7, <1>8, <1>9, <1>10, <1>11 DEF IInv, Counts

\* A buffer that is taken from a cache, of a fragment or of a block.
LEMMA Gets ==
  ASSUME IInv
  PROVE  /\ \A i \in WriterIndexes, y \in Datas : CanGet(writerCache) =>
              /\ NextFree(writerCache) \in WriterBuffers
              /\ WriterTaken(Get(writerCache, NextFree(writerCache), i, y), NextFree(writerCache), i)
              /\ WriterTaken(Rehash(Get(writerCache, NextFree(writerCache), None, y), NextFree(writerCache), i),
                             NextFree(writerCache), i)
         /\ \A i \in Nat, y \in Datas : CanGet(fragmentCache) =>
              /\ NextFree(fragmentCache) \in FragmentBuffers
              /\ FragTaken(Get(fragmentCache, NextFree(fragmentCache), i, y), NextFree(fragmentCache), i)
<1>1. /\ writerCache \in Caches(WriterBuffers, WriterIndexes) /\ CacheOK(writerCache)
      /\ fragmentCache \in Caches(FragmentBuffers, Nat) /\ CacheOK(fragmentCache)
  BY DEF IInv, CacheTypes
<1>2. ASSUME NEW i \in WriterIndexes, NEW y \in Datas, CanGet(writerCache)
      PROVE  /\ NextFree(writerCache) \in WriterBuffers
             /\ WriterTaken(Get(writerCache, NextFree(writerCache), i, y), NextFree(writerCache), i)
             /\ WriterTaken(Rehash(Get(writerCache, NextFree(writerCache), None, y), NextFree(writerCache), i),
                            NextFree(writerCache), i)
  <2>1. PICK e : e = NextFree(writerCache)
    OBVIOUS
  <2>2. e \in WriterBuffers /\ WriterTaken(Fresh(writerCache, e, i, y), e, i)
    BY <1>2, <2>1, Takes, Zenon
  <2>3. Get(writerCache, e, i, y) = Fresh(writerCache, e, i, y)
    BY <1>1, <2>2, GetFacts, NoneIsNone
  <2>4. Rehash(Get(writerCache, e, None, y), e, i) = Fresh(writerCache, e, i, y)
    BY <1>1, <2>2, GetRehash, NoneIsNone
  <2> QED BY <2>1, <2>2, <2>3, <2>4, Zenon
<1>3. ASSUME NEW i \in Nat, NEW y \in Datas, CanGet(fragmentCache)
      PROVE  /\ NextFree(fragmentCache) \in FragmentBuffers
             /\ FragTaken(Get(fragmentCache, NextFree(fragmentCache), i, y), NextFree(fragmentCache), i)
  <2>1. PICK e : e = NextFree(fragmentCache)
    OBVIOUS
  <2>2. e \in FragmentBuffers /\ FragTaken(Fresh(fragmentCache, e, i, y), e, i)
    BY <1>3, <2>1, Takes, Zenon
  <2>3. Get(fragmentCache, e, i, y) = Fresh(fragmentCache, e, i, y)
    BY <1>1, <2>2, GetFacts, NoneIsNone
  <2> QED BY <2>1, <2>2, <2>3, Zenon
<1> QED BY <1>2, <1>3, Zenon

LEMMA FragCompressKeeps == ASSUME IInv, NEW x \in FragDeflators, FragCompress(x) PROVE IInv'
<1>1. /\ deflator \in [FragDeflators -> Deflators] /\ HandTypes
      /\ Numbers(writerCache.buf, fragmentCache.buf, deflator, pending, toFrag, open, fragments, fragTable)
      /\ fragmentCache \in Caches(FragmentBuffers, Nat) /\ fragments \in Nat
  BY DEF IInv, HandTypes, Numbered, CacheTypes, MainTypes
<1>2. PICK g \in FragmentBuffers : g = deflator[x].from
  BY <1>1, DeflatorIs DEF FragCompress
<1>3. None = deflator[x].to
  BY <1>1, DeflatorIs DEF FragCompress
<1>4. PICK n \in 0 .. fragments - 1 : n = fragmentCache.buf[g].index
  BY <1>1, <1>2, NoneIsNone, Zenon DEF Numbers
<1>5. PICK i : i = FragIndex(n)
  OBVIOUS
<1>6. i \in WriterIndexes /\ i \in {"frag"} \X (0 .. fragments - 1)
  BY <1>1, <1>4, <1>5 DEF FragIndex, WriterIndexes, FragKeys
<1>7. fragmentCache.buf[g].data \in Datas
  BY <1>1 DEF Caches
<1>8. PICK e : e = NextFree(writerCache)
  OBVIOUS
<1>9. /\ CanGet(writerCache) /\ Now(x, "compressed", g, e)
      /\ writerCache' = Get(writerCache, e, i, fragmentCache.buf[g].data)
  BY <1>2, <1>4, <1>5, <1>8, Zenon DEF FragCompress, FragNumber
<1>10. e \in WriterBuffers /\ WriterTaken(writerCache', e, i)
  BY <1>6, <1>7, <1>8, <1>9, Gets, Zenon
<1>11. WriterCacheIs(writerCache') /\ writerCache'.buf[e].index = i
       /\ \A b \in WriterBuffers : writerCache'.buf[b].used = writerCache.buf[b].used + Is(e, {b})
  BY <1>10 DEF WriterTaken
<1>12. PICK r \in Deflators : r = [step |-> "compressed", from |-> g, to |-> e]
  BY <1>10 DEF Deflators
<1>13. Moved(deflator', deflator, None, e, g, g)
  BY <1>1, <1>2, <1>3, <1>9, <1>12, DeflatorNow, Zenon
<1>14. CacheTypes'
  BY <1>11 DEF IInv, CacheTypes, FragCompress, WriterCacheIs
<1>15. HandTypes'
  BY <1>13 DEF Moved, IInv, FragCompress, HandTypes, fileVars, writeVars, searchVars, fragVars
<1>16. MainTypes' /\ HeldBlocks'
  BY DEF IInv, FragCompress, MainTypes, HeldBlocks, At, fileVars, fragVars, placeVars, writeVars, searchVars
<1>17. Numbered'
  <2>1. r.from = g /\ r.to = e /\ r.step # "placed" /\ deflator' = [deflator EXCEPT ![x] = r]
    BY <1>9, <1>12 DEF Now
  <2>2. Numbers(writerCache'.buf, fragmentCache.buf, deflator, pending, toFrag, open, fragments, fragTable)
    BY <1>11 DEF WriterCacheIs
  <2>3. fragmentCache.buf[r.from].index \in 0 .. fragments - 1 /\ writerCache'.buf[r.to].index \in {"frag"} \X (0 .. fragments - 1)
    BY <1>4, <1>6, <1>11, <2>1, Zenon
  <2>4. Numbers(writerCache'.buf, fragmentCache.buf, deflator', pending, toFrag, open, fragments, fragTable)
    BY <1>1, <2>1, <2>2, <2>3, NumbersDeflator
  <2> QED BY <2>4, Zenon DEF FragCompress, Numbered, placeVars, fragVars
<1>18. WriterCounts'
  <2> SUFFICES ASSUME NEW b \in WriterBuffers
               PROVE  writerCache'.buf[b].used = WriterUses(leaked', pins', writing', blocks', toWriter', pending', deflator', b)
    BY DEF WriterCounts
  <2>1. Is(e, {b}) \in Nat /\ Is(None, {b}) = 0
    BY NoneIsNone DEF Is
  <2>2. writerCache.buf[b].used + Is(e, {b})
          = Sum7(leaked[b], CountIn(pins, {b}), Is(writing, {b}), CountIn(blocks, {b}),
                 CountIn(toWriter, {b} \X Nat), CountIn(pending, {b}), Holding(deflator, b) + Is(e, {b}))
    BY <2>1, WriterMoves, Zenon DEF IInv, Counts, Facts7
  <2>3. /\ leaked' = leaked /\ writing' = writing /\ blocks' = blocks /\ toWriter' = toWriter /\ pending' = pending
        /\ pins' = pins
    BY DEF FragCompress, fileVars, searchVars, writeVars
  <2>4. /\ Holding(deflator', b) + Is(None, {b}) = Holding(deflator, b) + Is(e, {b}) /\ Holding(deflator', b) \in Nat
        /\ Holding(deflator, b) \in Nat
    BY <1>13, Zenon DEF Moved
  <2>5. Holding(deflator', b) = Holding(deflator, b) + Is(e, {b})
    BY <2>1, <2>4
  <2> QED BY <1>11, <2>2, <2>3, <2>5, Zenon DEF WriterUses
<1>19. FragCounts'
  <2>1. \A b \in FragmentBuffers : Taking(deflator', b) = Taking(deflator, b)
    <3> TAKE b \in FragmentBuffers
    <3>1. /\ Taking(deflator', b) + Is(g, {b}) = Taking(deflator, b) + Is(g, {b})
          /\ Taking(deflator', b) \in Nat /\ Taking(deflator, b) \in Nat /\ Is(g, {b}) \in Nat
      BY <1>13, Zenon DEF Moved
    <3> QED BY <3>1
  <2>2. open' = open /\ got' = got /\ toFrag' = toFrag /\ fragmentCache' = fragmentCache
    BY DEF FragCompress, fragVars, searchVars
  <2> QED BY <2>1, <2>2, Zenon DEF IInv, Counts, FragCounts, FragUses
<1> QED BY <1>14, <1>15, <1>16, <1>17, <1>18, <1>19 DEF IInv, Counts

LEMMA NumbersTable ==
  ASSUME NEW w, NEW f, NEW de, NEW pe, NEW tf, NEW o, NEW n, NEW t, NEW t2, DOMAIN t \subseteq DOMAIN t2,
         Numbers(w, f, de, pe, tf, o, n, t)
  PROVE  Numbers(w, f, de, pe, tf, o, n, t2)
BY Zenon DEF Numbers

\* A fragment that is given its place.
LEMMA Assigns ==
  ASSUME MainTypes, NEW e, writerCache.buf[e].index \in {"frag"} \X (0 .. fragments - 1), Assign(e)
  PROVE  /\ FragOf(e) \in 0 .. fragments - 1 /\ bytes' \in Nat /\ Table(fragTable', fragments)
         /\ DOMAIN fragTable \subseteq DOMAIN fragTable' /\ FragOf(e) \in DOMAIN fragTable'
<1>1. FragOf(e) \in 0 .. fragments - 1
  BY DEF FragOf
<1>2. bytes \in Nat /\ fragTable \in [DOMAIN fragTable -> Nat] /\ DOMAIN fragTable \subseteq 0 .. fragments - 1
  BY DEF MainTypes, Table
<1>3. PICK n : n = FragOf(e)
  OBVIOUS
<1>4. fragTable' = With(fragTable, n, bytes) /\ bytes' = bytes + 1
  BY <1>3 DEF Assign
<1>5. fragTable' \in [DOMAIN fragTable' -> Nat] /\ DOMAIN fragTable' = DOMAIN fragTable \cup {n}
  BY <1>2, <1>4 DEF With
<1> QED BY <1>1, <1>2, <1>3, <1>4, <1>5 DEF Table

LEMMA FragPlaceKeeps == ASSUME IInv, NEW x \in FragDeflators, FragPlace(x) PROVE IInv'
<1>1. /\ deflator \in [FragDeflators -> Deflators] /\ HandTypes /\ MainTypes
      /\ Numbers(writerCache.buf, fragmentCache.buf, deflator, pending, toFrag, open, fragments, fragTable)
  BY DEF IInv, HandTypes, Numbered
<1>2. PICK g \in FragmentBuffers : g = deflator[x].from
  BY <1>1, DeflatorIs DEF FragPlace
<1>3. PICK e \in WriterBuffers : e = deflator[x].to
  BY <1>1, DeflatorIs DEF FragPlace
<1>4. fragmentCache.buf[g].index \in 0 .. fragments - 1 /\ writerCache.buf[e].index \in {"frag"} \X (0 .. fragments - 1)
  BY <1>1, <1>2, <1>3, NoneIsNone, Zenon DEF Numbers
<1>5. PICK step \in {"deferred", "placed"} : /\ Now(x, step, g, e)
                                             /\ step = "deferred" => UNCHANGED placeVars
                                             /\ step = "placed" => Assign(e)
  BY <1>2, <1>3 DEF FragPlace
<1>6. /\ bytes' \in Nat /\ Table(fragTable', fragments) /\ DOMAIN fragTable \subseteq DOMAIN fragTable'
      /\ step = "placed" => FragOf(e) \in DOMAIN fragTable'
  <2>1. CASE step = "deferred"
    BY <1>1, <1>5, <2>1 DEF placeVars, MainTypes
  <2>2. CASE step = "placed"
    BY <1>1, <1>4, <1>5, <2>2, Assigns
  <2> QED BY <2>1, <2>2
<1>7. PICK r \in Deflators : r = [step |-> step, from |-> g, to |-> e]
  BY DEF Deflators
<1>8. Moved(deflator', deflator, e, e, g, g)
  BY <1>1, <1>2, <1>3, <1>5, <1>7, DeflatorNow, Zenon
<1>9. CacheTypes'
  BY DEF IInv, CacheTypes, FragPlace
<1>10. HandTypes'
  BY <1>8 DEF Moved, IInv, FragPlace, HandTypes, fileVars, writeVars, searchVars, fragVars
<1>11. MainTypes' /\ HeldBlocks'
  BY <1>6 DEF IInv, FragPlace, MainTypes, HeldBlocks, At, fileVars, fragVars, writeVars, searchVars
<1>12. Numbered'
  <2>1. r.from = g /\ r.to = e /\ r.step = step /\ deflator' = [deflator EXCEPT ![x] = r]
    BY <1>5, <1>7 DEF Now
  <2>2. Numbers(writerCache.buf, fragmentCache.buf, deflator, pending, toFrag, open, fragments, fragTable')
    BY <1>1, <1>6, NumbersTable, Zenon
  <2>3. /\ fragmentCache.buf[r.from].index \in 0 .. fragments - 1 /\ writerCache.buf[r.to].index \in {"frag"} \X (0 .. fragments - 1)
        /\ r.step = "placed" => writerCache.buf[r.to].index[2] \in DOMAIN fragTable'
    BY <1>4, <1>6, <2>1, Zenon DEF FragOf
  <2>4. Numbers(writerCache.buf, fragmentCache.buf, deflator', pending, toFrag, open, fragments, fragTable')
    BY <1>1, <2>1, <2>2, <2>3, NumbersDeflator
  <2> QED BY <2>4, Zenon DEF FragPlace, Numbered, fragVars
<1>13. Counts'
  <2>1. ASSUME NEW b PROVE Holding(deflator', b) = Holding(deflator, b) /\ Taking(deflator', b) = Taking(deflator, b)
    <3>1. /\ Taking(deflator', b) + Is(g, {b}) = Taking(deflator, b) + Is(g, {b})
          /\ Taking(deflator', b) \in Nat /\ Taking(deflator, b) \in Nat /\ Is(g, {b}) \in Nat
          /\ Holding(deflator', b) + Is(e, {b}) = Holding(deflator, b) + Is(e, {b})
          /\ Holding(deflator', b) \in Nat /\ Holding(deflator, b) \in Nat /\ Is(e, {b}) \in Nat
      BY <1>8, Zenon DEF Moved
    <3> QED BY <3>1
  <2>2. /\ open' = open /\ got' = got /\ toFrag' = toFrag /\ fragmentCache' = fragmentCache
        /\ leaked' = leaked /\ writing' = writing /\ blocks' = blocks /\ toWriter' = toWriter /\ pending' = pending
        /\ pins' = pins /\ writerCache' = writerCache
    BY DEF FragPlace, fragVars, searchVars, fileVars, writeVars
  <2>3. WriterCounts'
    BY <2>1, <2>2, Zenon DEF IInv, Counts, WriterCounts, WriterUses
  <2>4. FragCounts'
    BY <2>1, <2>2, Zenon DEF IInv, Counts, FragCounts, FragUses
  <2> QED BY <2>3, <2>4 DEF Counts
<1> QED BY <1>9, <1>10, <1>11, <1>12, <1>13 DEF IInv

LEMMA FragPutBackKeeps == ASSUME IInv, NEW x \in FragDeflators, FragPutBack(x) PROVE IInv'
<1>1. deflator \in [FragDeflators -> Deflators] /\ HandTypes
  BY DEF IInv, HandTypes
<1>2. PICK g \in FragmentBuffers : g = deflator[x].from
  BY <1>1, DeflatorIs DEF FragPutBack
<1>3. None = deflator[x].to
  BY <1>1, DeflatorIs DEF FragPutBack
<1>4. PICK r \in Deflators : r = [step |-> "idle", from |-> None, to |-> None]
  BY DEF Deflators
<1>5. Now(x, "idle", None, None)
  BY DEF FragPutBack, Now, Idle
<1>6. Moved(deflator', deflator, None, None, g, None)
  BY <1>1, <1>2, <1>3, <1>4, <1>5, DeflatorNow, Zenon
<1>7. \A b \in FragmentBuffers : Taking(deflator', b) = Taking(deflator, b) - Is(g, {b}) /\ Is(g, {b}) <= Taking(deflator, b)
  <2> TAKE b \in FragmentBuffers
  <2>1. /\ Taking(deflator', b) + Is(g, {b}) = Taking(deflator, b) + Is(None, {b})
        /\ Taking(deflator', b) \in Nat /\ Taking(deflator, b) \in Nat /\ Is(g, {b}) \in Nat
    BY <1>6, Zenon DEF Moved
  <2>2. Is(None, {b}) = 0
    BY NoneIsNone DEF Is
  <2> QED BY <2>1, <2>2
<1>8. fragmentCache.buf[g].used > 0
  <2>1. 1 <= Taking(deflator, g)
    BY <1>7 DEF Is
  <2>2. 1 <= fragmentCache.buf[g].used /\ fragmentCache.buf[g].used \in Nat
    BY <2>1, 1 \in Nat, FragMoves, Zenon DEF Facts4, IInv
  <2> QED BY <2>2
<1>9. FragCacheIs(fragmentCache') /\ \A b \in FragmentBuffers : fragmentCache'.buf[b].used = fragmentCache.buf[b].used - Is(g, {b})
  BY <1>2, <1>8, PutsBack, Zenon DEF FragPutBack
<1>10. CacheTypes'
  BY <1>9 DEF IInv, CacheTypes, FragPutBack, FragCacheIs
<1>11. HandTypes'
  BY <1>6 DEF Moved, IInv, FragPutBack, HandTypes, fileVars, writeVars, searchVars, fragVars
<1>12. MainTypes' /\ HeldBlocks'
  BY DEF IInv, FragPutBack, MainTypes, HeldBlocks, At, fileVars, fragVars, placeVars, writeVars, searchVars
<1>13. Numbered'
  <2>1. r.from = None /\ r.to = None /\ r.step # "placed" /\ deflator' = [deflator EXCEPT ![x] = r]
    BY <1>4, <1>5 DEF Now
  <2>2. Numbers(writerCache.buf, fragmentCache'.buf, deflator, pending, toFrag, open, fragments, fragTable)
    BY <1>9 DEF FragCacheIs
  <2>3. Numbers(writerCache.buf, fragmentCache'.buf, deflator', pending, toFrag, open, fragments, fragTable)
    BY <1>1, <2>1, <2>2, NumbersDeflator
  <2> QED BY <2>3, Zenon DEF FragPutBack, Numbered, placeVars, fragVars
<1>14. FragCounts'
  <2> SUFFICES ASSUME NEW b \in FragmentBuffers PROVE fragmentCache'.buf[b].used = FragUses(open', got', toFrag', deflator', b)
    BY DEF FragCounts
  <2>1. Is(g, {b}) \in Nat
    BY DEF Is
  <2>2. fragmentCache.buf[b].used - Is(g, {b}) = Sum4(Is(open, {b}), Is(got, {b}), CountIn(toFrag, {b}), Taking(deflator, b) - Is(g, {b}))
    BY <2>1, FragMoves, Zenon DEF IInv, Facts4
  <2>3. open' = open /\ got' = got /\ toFrag' = toFrag
    BY DEF FragPutBack, searchVars, fragVars
  <2> QED BY <1>7, <1>9, <2>2, <2>3, Zenon DEF FragUses
<1>15. WriterCounts'
  <2>1. \A b \in WriterBuffers : Holding(deflator', b) = Holding(deflator, b)
    <3> TAKE b \in WriterBuffers
    <3>1. /\ Holding(deflator', b) + Is(None, {b}) = Holding(deflator, b) + Is(None, {b})
          /\ Holding(deflator', b) \in Nat /\ Holding(deflator, b) \in Nat /\ Is(None, {b}) \in Nat
      BY <1>6, Zenon DEF Moved
    <3> QED BY <3>1
  <2>2. /\ leaked' = leaked /\ writing' = writing /\ blocks' = blocks /\ toWriter' = toWriter /\ pending' = pending
        /\ pins' = pins /\ writerCache' = writerCache
    BY DEF FragPutBack, fileVars, searchVars, writeVars
  <2> QED BY <2>1, <2>2, Zenon DEF IInv, Counts, WriterCounts, WriterUses
<1> QED BY <1>10, <1>11, <1>12, <1>13, <1>14, <1>15 DEF IInv, Counts

\* What is sent to the writer: a buffer and where it goes.
LEMMA FlushIs ==
  ASSUME NEW b
  PROVE  Flush \notin {b} \X Nat /\ Is(Flush, {b} \X Nat) = 0
<1>1. ASSUME NEW a \in {b}, NEW p \in Nat PROVE Flush # <<a, p>>
  <2>1. PICK m : m = <<a, p>>
    OBVIOUS
  <2>2. Len(m) = 2 /\ Len(Flush) = 1
    BY <2>1 DEF Flush
  <2> QED BY <2>1, <2>2
<1>2. Flush \notin {b} \X Nat
  BY <1>1
<1> QED BY <1>2 DEF Is

LEMMA MessageIs ==
  ASSUME NEW b
  PROVE  /\ \A e, p : p \in Nat => Is(<<e, p>>, {b} \X Nat) = Is(e, {b})
         /\ \A e \in WriterBuffers, p \in Nat : <<e, p>> \in Messages
         /\ \A m \in Messages : m # Flush => m = <<m[1], m[2]>> /\ m[1] \in WriterBuffers /\ m[2] \in Nat
<1>1. ASSUME NEW e, NEW p \in Nat PROVE Is(<<e, p>>, {b} \X Nat) = Is(e, {b})
  BY DEF Is
<1>2. \A e \in WriterBuffers, p \in Nat : <<e, p>> \in Messages
  BY DEF Messages
<1>3. \A m \in Messages : m # Flush => m = <<m[1], m[2]>> /\ m[1] \in WriterBuffers /\ m[2] \in Nat
  BY DEF Messages
<1> QED BY <1>1, <1>2, <1>3

LEMMA WriteKeeps == IInv /\ Write => IInv'
<1> SUFFICES ASSUME IInv, Write PROVE IInv'
  OBVIOUS
<1>1. PICK m \in Messages : m = Head(toWriter) /\ toWriter \in Seq(Messages) /\ toWriter # <<>>
  BY TailFacts DEF IInv, HandTypes, Write
<1>2. /\ toWriter' \in Seq(Messages)
      /\ \A S : CountIn(toWriter, S) = CountIn(toWriter', S) + Is(m, S) /\ CountIn(toWriter', S) \in Nat
  BY <1>1, CountTail, TailFacts DEF Write
<1>3. CacheTypes' /\ Numbered'
  BY DEF IInv, Write, CacheTypes, Numbered, fragVars, placeVars
<1>4. HandTypes' /\ MainTypes'
  <2>1. HandTypes /\ MainTypes /\ writerCache \in Caches(WriterBuffers, WriterIndexes)
    BY DEF IInv, CacheTypes
  <2>2. writing' \in WriterBuffers \cup {None} /\ disk' \in [DOMAIN disk' -> Datas]
    <3>1. CASE m = Flush
      BY <1>1, <2>1, <3>1 DEF Write, writeVars, HandTypes, MainTypes
    <3>2. CASE m # Flush
      <4>1. m[1] \in WriterBuffers
        BY <1>1, <3>2, MessageIs
      <4>2. writerCache.buf[m[1]].data \in Datas
        BY <2>1, <4>1 DEF Caches
      <4>3. writing' = m[1] /\ disk' = With(disk, m[2], writerCache.buf[m[1]].data)
        BY <1>1, <3>2 DEF Write
      <4>4. disk' \in [DOMAIN disk' -> Datas]
        <5>1. disk \in [DOMAIN disk -> Datas]
          BY <2>1 DEF MainTypes
        <5> QED BY <4>2, <4>3, <5>1 DEF With
      <4> QED BY <4>1, <4>3, <4>4
    <3> QED BY <3>1, <3>2
  <2>3. HandTypes'
    BY <1>2, <2>1, <2>2 DEF Write, HandTypes, fileVars, fragVars, searchVars
  <2>4. MainTypes'
    BY <2>1, <2>2 DEF Write, MainTypes, fileVars, fragVars, placeVars, searchVars
  <2> QED BY <2>3, <2>4
<1>5. HeldBlocks'
  BY DEF IInv, Write, HeldBlocks, At, fileVars, searchVars
<1>6. WriterCounts'
  <2> SUFFICES ASSUME NEW b \in WriterBuffers
               PROVE  writerCache'.buf[b].used = WriterUses(leaked', pins', writing', blocks', toWriter', pending', deflator', b)
    BY DEF WriterCounts
  <2>1. PICK n \in Nat : n = Is(m, {b} \X Nat)
    BY DEF Is
  <2>2. writerCache.buf[b].used
          = Sum7(leaked[b], CountIn(pins, {b}), Is(writing, {b}) + n, CountIn(blocks, {b}),
                 CountIn(toWriter, {b} \X Nat) - n, CountIn(pending, {b}), Holding(deflator, b))
        /\ CountIn(toWriter, {b} \X Nat) \in Nat
    BY WriterMoves, Zenon DEF IInv, Facts7
  <2>3. CountIn(toWriter', {b} \X Nat) = CountIn(toWriter, {b} \X Nat) - n
    <3>1. CountIn(toWriter, {b} \X Nat) = CountIn(toWriter', {b} \X Nat) + n /\ CountIn(toWriter', {b} \X Nat) \in Nat
      BY <1>2, <2>1, Zenon
    <3> QED BY <2>2, <3>1
  <2>4. Is(writing', {b}) = Is(writing, {b}) + n
    <3>1. writing = None /\ Is(None, {b}) = 0
      BY NoneIsNone DEF Write, Is
    <3>2. CASE m = Flush
      <4>1. n = 0 /\ writing' = writing
        BY <1>1, <2>1, <3>2, FlushIs DEF Write, writeVars
      <4> QED BY <3>1, <4>1
    <3>3. CASE m # Flush
      <4>1. m = <<m[1], m[2]>> /\ m[2] \in Nat /\ writing' = m[1]
        BY <1>1, <3>3, MessageIs DEF Write
      <4>2. PICK e, p : e = m[1] /\ p = m[2]
        OBVIOUS
      <4>3. m = <<e, p>> /\ p \in Nat
        BY <4>1, <4>2, Zenon
      <4>4. Is(<<e, p>>, {b} \X Nat) = Is(e, {b})
        BY <4>3, MessageIs
      <4> QED BY <2>1, <3>1, <4>1, <4>2, <4>3, <4>4
    <3> QED BY <3>2, <3>3
  <2>5. /\ leaked' = leaked /\ pins' = pins /\ blocks' = blocks /\ pending' = pending /\ deflator' = deflator
        /\ writerCache' = writerCache
    BY DEF Write, fileVars, searchVars
  <2> QED BY <2>2, <2>3, <2>4, <2>5, Zenon DEF WriterUses
<1>7. FragCounts'
  BY DEF IInv, Counts, FragCounts, Write, fragVars, searchVars
<1> QED BY <1>3, <1>4, <1>5, <1>6, <1>7 DEF IInv, Counts

LEMMA FragHandOverKeeps == ASSUME IInv, NEW x \in FragDeflators, FragHandOver(x) PROVE IInv'
<1>1. /\ deflator \in [FragDeflators -> Deflators] /\ HandTypes /\ MainTypes
      /\ Numbers(writerCache.buf, fragmentCache.buf, deflator, pending, toFrag, open, fragments, fragTable)
      /\ toWriter \in Seq(Messages) /\ pending \in Seq(WriterBuffers)
  BY DEF IInv, HandTypes, Numbered
<1>2. PICK g \in FragmentBuffers : g = deflator[x].from
  BY <1>1, DeflatorIs DEF FragHandOver
<1>3. PICK e \in WriterBuffers : e = deflator[x].to
  BY <1>1, DeflatorIs DEF FragHandOver
<1>4. fragmentCache.buf[g].index \in 0 .. fragments - 1 /\ writerCache.buf[e].index \in {"frag"} \X (0 .. fragments - 1)
  BY <1>1, <1>2, <1>3, NoneIsNone, Zenon DEF Numbers
<1>5. PICK r \in Deflators : r = [step |-> "done", from |-> g, to |-> None]
  BY DEF Deflators
<1>6. Now(x, "done", g, None)
  BY <1>2 DEF FragHandOver
<1>7. Moved(deflator', deflator, e, None, g, g)
  BY <1>1, <1>2, <1>3, <1>5, <1>6, DeflatorNow, Zenon
<1>8. \A b \in WriterBuffers : Holding(deflator', b) = Holding(deflator, b) - Is(e, {b})
  <2> TAKE b \in WriterBuffers
  <2>1. /\ Holding(deflator', b) + Is(e, {b}) = Holding(deflator, b) + Is(None, {b})
        /\ Holding(deflator', b) \in Nat /\ Holding(deflator, b) \in Nat /\ Is(e, {b}) \in Nat
    BY <1>7, Zenon DEF Moved
  <2>2. Is(None, {b}) = 0
    BY NoneIsNone DEF Is
  <2> QED BY <2>1, <2>2
<1>9. \/ \E p \in Nat : toWriter' = Append(toWriter, <<e, p>>) /\ pending' = pending
      \/ pending' = Append(pending, e) /\ toWriter' = toWriter
  <2>1. CASE deflator[x].step = "placed"
    <3>1. FragOf(e) \in DOMAIN fragTable
      BY <1>1, <1>3, <2>1, Zenon DEF Numbers, FragOf
    <3>2. fragTable[FragOf(e)] \in Nat
      BY <1>1, <3>1 DEF MainTypes, Table
    <3> QED BY <1>3, <2>1, <3>2 DEF FragHandOver
  <2>2. CASE deflator[x].step = "deferred"
    BY <1>3, <2>2 DEF FragHandOver
  <2> QED BY <2>1, <2>2 DEF FragHandOver
<1>10. /\ toWriter' \in Seq(Messages) /\ pending' \in Seq(WriterBuffers)
       /\ \A k \in 1 .. Len(pending') : pending'[k] = e \/ \E j \in 1 .. Len(pending) : pending'[k] = pending[j]
  <2>1. CASE \E p \in Nat : toWriter' = Append(toWriter, <<e, p>>) /\ pending' = pending
    <3>1. PICK p \in Nat : toWriter' = Append(toWriter, <<e, p>>) /\ pending' = pending
      BY <2>1
    <3>2. PICK m \in Messages : m = <<e, p>>
      BY MessageIs
    <3>3. Append(toWriter, m) \in Seq(Messages)
      BY <1>1
    <3> QED BY <1>1, <3>1, <3>2, <3>3
  <2>2. CASE pending' = Append(pending, e) /\ toWriter' = toWriter
    BY <1>1, <2>2
  <2> QED BY <1>9, <2>1, <2>2
<1>11. CacheTypes'
  BY DEF IInv, CacheTypes, FragHandOver
<1>12. HandTypes'
  BY <1>7, <1>10 DEF Moved, IInv, FragHandOver, HandTypes, fileVars, writeVars, searchVars, fragVars
<1>13. MainTypes' /\ HeldBlocks'
  BY DEF IInv, FragHandOver, MainTypes, HeldBlocks, At, fileVars, fragVars, placeVars, writeVars, searchVars
<1>14. Numbered'
  <2>1. r.from = g /\ r.to = None /\ r.step # "placed" /\ deflator' = [deflator EXCEPT ![x] = r]
    BY <1>5, <1>6 DEF Now
  <2>2. \A k \in 1 .. Len(pending') : writerCache.buf[pending'[k]].index \in {"frag"} \X (0 .. fragments - 1)
    BY <1>1, <1>4, <1>10, Zenon DEF Numbers
  <2>3. Numbers(writerCache.buf, fragmentCache.buf, deflator, pending', toFrag, open, fragments, fragTable)
    BY <1>1, <2>2, Zenon DEF Numbers
  <2>4. Numbers(writerCache.buf, fragmentCache.buf, deflator', pending', toFrag, open, fragments, fragTable)
    BY <1>1, <1>4, <2>1, <2>3, NumbersDeflator
  <2> QED BY <2>4, Zenon DEF FragHandOver, Numbered, placeVars, fragVars
<1>15. WriterCounts'
  <2> SUFFICES ASSUME NEW b \in WriterBuffers
               PROVE  writerCache'.buf[b].used = WriterUses(leaked', pins', writing', blocks', toWriter', pending', deflator', b)
    BY DEF WriterCounts
  <2>1. Is(e, {b}) \in Nat
    BY DEF Is
  <2>2. /\ writerCache.buf[b].used
             = Sum7(leaked[b], CountIn(pins, {b}), Is(writing, {b}), CountIn(blocks, {b}),
                    CountIn(toWriter, {b} \X Nat) + Is(e, {b}), CountIn(pending, {b}), Holding(deflator, b) - Is(e, {b}))
        /\ writerCache.buf[b].used
             = Sum7(leaked[b], CountIn(pins, {b}), Is(writing, {b}), CountIn(blocks, {b}),
                    CountIn(toWriter, {b} \X Nat), CountIn(pending, {b}) + Is(e, {b}), Holding(deflator, b) - Is(e, {b}))
    BY <2>1, WriterMoves, Zenon DEF IInv, Facts7
  <2>3. /\ leaked' = leaked /\ writing' = writing /\ blocks' = blocks /\ pins' = pins /\ writerCache' = writerCache
    BY DEF FragHandOver, fileVars, searchVars, writeVars
  <2>4. \/ /\ CountIn(toWriter', {b} \X Nat) = CountIn(toWriter, {b} \X Nat) + Is(e, {b})
           /\ CountIn(pending', {b}) = CountIn(pending, {b})
        \/ /\ CountIn(toWriter', {b} \X Nat) = CountIn(toWriter, {b} \X Nat)
           /\ CountIn(pending', {b}) = CountIn(pending, {b}) + Is(e, {b})
    <3>1. ASSUME NEW p \in Nat, toWriter' = Append(toWriter, <<e, p>>)
          PROVE  CountIn(toWriter', {b} \X Nat) = CountIn(toWriter, {b} \X Nat) + Is(e, {b})
      <4>1. PICK m \in Messages : m = <<e, p>>
        BY MessageIs
      <4>2. CountIn(Append(toWriter, m), {b} \X Nat) = CountIn(toWriter, {b} \X Nat) + Is(m, {b} \X Nat)
        BY <1>1, CountAppend
      <4>3. Is(m, {b} \X Nat) = Is(e, {b})
        BY <4>1, MessageIs, Zenon
      <4> QED BY <3>1, <4>1, <4>2, <4>3, Zenon
    <3>2. ASSUME pending' = Append(pending, e) PROVE CountIn(pending', {b}) = CountIn(pending, {b}) + Is(e, {b})
      BY <1>1, <3>2, CountAppend
    <3> QED BY <1>9, <3>1, <3>2, Zenon
  <2> QED BY <1>8, <2>2, <2>3, <2>4, Zenon DEF WriterUses
<1>16. FragCounts'
  <2>1. \A b \in FragmentBuffers : Taking(deflator', b) = Taking(deflator, b)
    <3> TAKE b \in FragmentBuffers
    <3>1. /\ Taking(deflator', b) + Is(g, {b}) = Taking(deflator, b) + Is(g, {b})
          /\ Taking(deflator', b) \in Nat /\ Taking(deflator, b) \in Nat /\ Is(g, {b}) \in Nat
      BY <1>7, Zenon DEF Moved
    <3> QED BY <3>1
  <2>2. open' = open /\ got' = got /\ toFrag' = toFrag /\ fragmentCache' = fragmentCache
    BY DEF FragHandOver, fragVars, searchVars
  <2> QED BY <2>1, <2>2, Zenon DEF IInv, Counts, FragCounts, FragUses
<1> QED BY <1>11, <1>12, <1>13, <1>14, <1>15, <1>16 DEF IInv, Counts

\* The main thread goes on to other steps.
LEMMA Thens ==
  ASSUME MainTypes, NEW s \in Steps, At(s), NEW steps \in Seq(Steps), Then(steps)
  PROVE  /\ Todo(todo')
         /\ steps # <<>> => todo' # <<>> /\ Head(todo') = Head(steps)
         /\ ~At("read")'
<1>1. PICK rest \in Seq(Steps) : rest = Tail(todo)
  BY TodoFacts DEF MainTypes, At
<1>2. todo' = steps \o rest
  BY <1>1 DEF Then
<1>3. steps \o rest \in Seq(Steps)
  OBVIOUS
<1>4. steps # <<>> => steps \o rest # <<>> /\ Head(steps \o rest) = Head(steps)
  <2> SUFFICES ASSUME steps # <<>> PROVE steps \o rest # <<>> /\ Head(steps \o rest) = Head(steps)
    OBVIOUS
  <2>1. PICK m, n \in Nat : m = Len(steps) /\ n = Len(rest)
    OBVIOUS
  <2>2. m > 0 /\ Head(steps) = steps[1]
    BY <2>1
  <2>3. PICK r : r = steps \o rest
    OBVIOUS
  <2>4. r \in Seq(Steps) /\ Len(r) = m + n /\ \A k \in 1 .. m : r[k] = steps[k]
    BY <2>1, <2>3
  <2>5. r # <<>> /\ Head(r) = r[1] /\ r[1] = steps[1]
    BY <2>1, <2>2, <2>4
  <2> QED BY <2>2, <2>3, <2>5
<1>5. ~At("read")'
  <2>1. todo' \in Seq(Steps) /\ "read" \notin Steps
    BY <1>2, <1>3 DEF Steps
  <2> QED BY <2>1 DEF At
<1> QED BY <1>2, <1>3, <1>4, <1>5 DEF Todo

LEMMA StepSeqs ==
  /\ Fill \in Seq(Steps) /\ Unlock \in Seq(Steps) /\ <<"unlock">> \in Seq(Steps)
  /\ <<>> \in Seq(Steps) /\ <<"truncate">> \in Seq(Steps)
<1>1. <<"fill">> \in Seq(Steps) /\ <<"unlock">> \in Seq(Steps) /\ <<"truncate">> \in Seq(Steps) /\ <<>> \in Seq(Steps)
  BY DEF Steps
<1> QED BY <1>1, Zenon DEF Fill, Unlock

LEMMA UnlockDoneKeeps == IInv /\ UnlockDone => IInv'
<1> SUFFICES ASSUME IInv, UnlockDone PROVE IInv'
  OBVIOUS
<1>1. Todo(todo') /\ ~At("read")'
  <2>1. At("unlock") /\ Then(<<>>) /\ MainTypes /\ "unlock" \in Steps /\ <<>> \in Seq(Steps)
    BY DEF IInv, UnlockDone, Steps
  <2> QED BY <2>1, Thens, Zenon
<1>2. CacheTypes' /\ Numbered' /\ HandTypes'
  BY DEF IInv, UnlockDone, CacheTypes, Numbered, HandTypes, fileVars, fragVars, placeVars, writeVars, searchVars
<1>3. MainTypes' /\ HeldBlocks'
  BY <1>1 DEF IInv, UnlockDone, MainTypes, HeldBlocks, At, fileVars, fragVars, placeVars, writeVars, searchVars
<1>4. Counts'
  BY DEF IInv, UnlockDone, Counts, WriterCounts, FragCounts, fileVars, fragVars, placeVars, writeVars, searchVars
<1> QED BY <1>2, <1>3, <1>4 DEF IInv

LEMMA TruncateKeeps == IInv /\ Truncate => IInv'
<1> SUFFICES ASSUME IInv, Truncate PROVE IInv'
  OBVIOUS
<1>1. Todo(todo') /\ ~At("read")'
  <2>1. At("truncate") /\ Then(<<>>) /\ MainTypes /\ "truncate" \in Steps /\ <<>> \in Seq(Steps)
    BY DEF IInv, Truncate, Steps
  <2> QED BY <2>1, Thens, Zenon
<1>2. disk' \in [DOMAIN disk' -> Datas]
  BY DEF IInv, MainTypes, Truncate
<1>3. CacheTypes' /\ Numbered' /\ HandTypes'
  BY DEF IInv, Truncate, CacheTypes, Numbered, HandTypes, fileVars, fragVars, placeVars, searchVars
<1>4. MainTypes' /\ HeldBlocks'
  BY <1>1, <1>2 DEF IInv, Truncate, MainTypes, HeldBlocks, At, fileVars, fragVars, placeVars, searchVars
<1>5. Counts'
  BY DEF IInv, Truncate, Counts, WriterCounts, FragCounts, fileVars, fragVars, placeVars, searchVars
<1> QED BY <1>3, <1>4, <1>5 DEF IInv

LEMMA DrainKeeps == IInv /\ Drain => IInv'
<1> SUFFICES ASSUME IInv, Drain PROVE IInv'
  OBVIOUS
<1>1. Todo(todo')
  BY DEF Drain, Todo, Steps
<1>2. CacheTypes' /\ Numbered' /\ HandTypes'
  BY DEF IInv, Drain, CacheTypes, Numbered, HandTypes, fileVars, fragVars, placeVars, writeVars, searchVars
<1>3. MainTypes' /\ HeldBlocks'
  BY <1>1 DEF IInv, Drain, MainTypes, HeldBlocks, At, fileVars, fragVars, placeVars, writeVars, searchVars
<1>4. Counts'
  BY DEF IInv, Drain, Counts, WriterCounts, FragCounts, fileVars, fragVars, placeVars, writeVars, searchVars
<1> QED BY <1>2, <1>3, <1>4 DEF IInv

LEMMA DuplicateKeeps == IInv /\ Duplicate => IInv'
<1> SUFFICES ASSUME IInv, Duplicate PROVE IInv'
  OBVIOUS
<1>1. Todo(todo') /\ todo' # <<>> /\ Head(todo') = "putback"
  <2>1. At("search") /\ Then(<<"putback">>) /\ MainTypes /\ "search" \in Steps /\ <<"putback">> \in Seq(Steps)
    BY DEF IInv, Duplicate, Looking, Steps
  <2>2. <<"putback">> # <<>> /\ Head(<<"putback">>) = "putback"
    OBVIOUS
  <2> QED BY <2>1, <2>2, Thens, Zenon
<1>2. CacheTypes' /\ Numbered' /\ HandTypes'
  BY DEF IInv, Duplicate, CacheTypes, Numbered, HandTypes, fileVars, fragVars, placeVars, writeVars, searchVars
<1>3. MainTypes' /\ HeldBlocks'
  BY <1>1 DEF IInv, Duplicate, MainTypes, HeldBlocks, At, fileVars, fragVars, placeVars, writeVars, searchVars
<1>4. Counts'
  BY DEF IInv, Duplicate, Counts, WriterCounts, FragCounts, fileVars, fragVars, placeVars, writeVars, searchVars
<1> QED BY <1>2, <1>3, <1>4 DEF IInv

LEMMA EndBlocksKeeps == IInv /\ EndBlocks => IInv'
<1> SUFFICES ASSUME IInv, EndBlocks PROVE IInv'
  OBVIOUS
<1>1. Todo(todo') /\ ~At("read")' /\ (file.dup => todo' # <<>> /\ Head(todo') = "search")
  <2>1. At("blocks") /\ MainTypes /\ "blocks" \in Steps
    BY DEF IInv, EndBlocks, Steps
  <2>2. CASE file.dup
    <3>1. Then(<<"search">>) /\ <<"search">> \in Seq(Steps) /\ <<"search">> # <<>> /\ Head(<<"search">>) = "search"
      BY <2>2 DEF EndBlocks, Steps
    <3> QED BY <2>1, <3>1, Thens, Zenon
  <2>3. CASE ~file.dup
    <3>1. Then(<<"unlock">> \o Fill) /\ <<"unlock">> \o Fill \in Seq(Steps)
      <4>1. Fill \in Seq(Steps) /\ <<"unlock">> \in Seq(Steps)
        BY StepSeqs, Zenon
      <4> QED BY <2>3, <4>1 DEF EndBlocks
    <3> QED BY <2>1, <2>3, <3>1, Thens, Zenon
  <2> QED BY <2>2, <2>3
<1>2. CacheTypes' /\ Numbered' /\ HandTypes'
  BY DEF IInv, EndBlocks, CacheTypes, Numbered, HandTypes, fragVars, placeVars, writeVars, searchVars
<1>3. MainTypes' /\ HeldBlocks'
  BY <1>1 DEF IInv, EndBlocks, MainTypes, HeldBlocks, At, fragVars, placeVars, writeVars, searchVars
<1>4. Counts'
  BY DEF IInv, EndBlocks, Counts, WriterCounts, FragCounts, fragVars, placeVars, writeVars, searchVars
<1> QED BY <1>2, <1>3, <1>4 DEF IInv

LEMMA UnlockPendingKeeps == IInv /\ UnlockPending => IInv'
<1> SUFFICES ASSUME IInv, UnlockPending PROVE IInv'
  OBVIOUS
<1>1. PICK e \in WriterBuffers : e = Head(pending) /\ e = pending[1] /\ 1 \in 1 .. Len(pending) /\ pending \in Seq(WriterBuffers) /\ pending # <<>>
  BY TailFacts DEF IInv, HandTypes, UnlockPending
<1>2. /\ MainTypes /\ toWriter \in Seq(Messages) /\ bytes \in Nat
      /\ Numbers(writerCache.buf, fragmentCache.buf, deflator, pending, toFrag, open, fragments, fragTable)
  BY DEF IInv, HandTypes, MainTypes, Numbered
<1>3. writerCache.buf[e].index \in {"frag"} \X (0 .. fragments - 1)
  BY <1>1, <1>2, Zenon DEF Numbers
<1>4. bytes' \in Nat /\ Table(fragTable', fragments) /\ DOMAIN fragTable \subseteq DOMAIN fragTable'
  BY <1>1, <1>2, <1>3, Assigns DEF UnlockPending
<1>5. PICK m \in Messages : m = <<e, bytes>>
  BY <1>2, MessageIs
<1>6. toWriter' = Append(toWriter, m) /\ pending' = Tail(pending)
  BY <1>1, <1>5 DEF UnlockPending
<1>7. /\ toWriter' \in Seq(Messages) /\ pending' \in Seq(WriterBuffers)
      /\ \A k \in 1 .. Len(pending') : \E j \in 1 .. Len(pending) : pending'[k] = pending[j]
  BY <1>1, <1>2, <1>6, TailFacts
<1>8. CacheTypes'
  BY DEF IInv, UnlockPending, CacheTypes
<1>9. HandTypes'
  BY <1>7 DEF IInv, UnlockPending, HandTypes, fileVars, writeVars, searchVars, fragVars
<1>10. MainTypes' /\ HeldBlocks'
  BY <1>4 DEF IInv, UnlockPending, MainTypes, HeldBlocks, At, fileVars, fragVars, writeVars, searchVars
<1>11. Numbered'
  <2>1. \A k \in 1 .. Len(pending') : writerCache.buf[pending'[k]].index \in {"frag"} \X (0 .. fragments - 1)
    BY <1>2, <1>7, Zenon DEF Numbers
  <2>2. Numbers(writerCache.buf, fragmentCache.buf, deflator, pending', toFrag, open, fragments, fragTable)
    BY <1>2, <2>1, Zenon DEF Numbers
  <2>3. Numbers(writerCache.buf, fragmentCache.buf, deflator, pending', toFrag, open, fragments, fragTable')
    BY <1>4, <2>2, NumbersTable, Zenon
  <2> QED BY <2>3, Zenon DEF UnlockPending, Numbered, fragVars
<1>12. WriterCounts'
  <2> SUFFICES ASSUME NEW b \in WriterBuffers
               PROVE  writerCache'.buf[b].used = WriterUses(leaked', pins', writing', blocks', toWriter', pending', deflator', b)
    BY DEF WriterCounts
  <2>1. Is(e, {b}) \in Nat
    BY DEF Is
  <2>2. /\ writerCache.buf[b].used
             = Sum7(leaked[b], CountIn(pins, {b}), Is(writing, {b}), CountIn(blocks, {b}),
                    CountIn(toWriter, {b} \X Nat) + Is(e, {b}), CountIn(pending, {b}) - Is(e, {b}), Holding(deflator, b))
        /\ CountIn(pending, {b}) \in Nat
    BY <2>1, WriterMoves, Zenon DEF IInv, Facts7
  <2>3. /\ leaked' = leaked /\ writing' = writing /\ blocks' = blocks /\ pins' = pins /\ writerCache' = writerCache
        /\ deflator' = deflator
    BY DEF UnlockPending, fileVars, searchVars, writeVars
  <2>4. CountIn(toWriter', {b} \X Nat) = CountIn(toWriter, {b} \X Nat) + Is(e, {b})
    <3>1. CountIn(Append(toWriter, m), {b} \X Nat) = CountIn(toWriter, {b} \X Nat) + Is(m, {b} \X Nat)
      BY <1>2, CountAppend
    <3>2. Is(m, {b} \X Nat) = Is(e, {b})
      BY <1>2, <1>5, MessageIs, Zenon
    <3> QED BY <1>6, <3>1, <3>2, Zenon
  <2>5. CountIn(pending', {b}) = CountIn(pending, {b}) - Is(e, {b})
    <3>1. CountIn(pending, {b}) = CountIn(pending', {b}) + Is(e, {b}) /\ CountIn(pending', {b}) \in Nat
      BY <1>1, <1>6, CountTail
    <3> QED BY <2>1, <2>2, <3>1
  <2> QED BY <2>2, <2>3, <2>4, <2>5, Zenon DEF WriterUses
<1>13. FragCounts'
  BY DEF IInv, Counts, FragCounts, UnlockPending, fragVars, searchVars
<1> QED BY <1>8, <1>9, <1>10, <1>11, <1>12, <1>13 DEF IInv, Counts

\* The open fragment goes to the deflators, and the next has its number.
LEMMA CloseFragmentKeeps ==
  ASSUME IInv, CloseFragment, open # None, UNCHANGED todo \/ (todo = <<>> /\ todo' = <<"unlock", "drain">>)
  PROVE  IInv'
<1>1. PICK e \in FragmentBuffers : e = open
  BY DEF IInv, HandTypes
<1>2. PICK n \in Nat : n = fragments
  BY DEF IInv, MainTypes
<1>3. /\ Numbers(writerCache.buf, fragmentCache.buf, deflator, pending, toFrag, open, n, fragTable)
      /\ toFrag \in Seq(FragmentBuffers) /\ fragments' = n + 1 /\ toFrag' = Append(toFrag, e) /\ open' = None
  BY <1>1, <1>2 DEF IInv, HandTypes, Numbered, CloseFragment
<1>4. /\ toFrag' \in Seq(FragmentBuffers)
      /\ \A k \in 1 .. Len(toFrag') : toFrag'[k] = e \/ \E j \in 1 .. Len(toFrag) : toFrag'[k] = toFrag[j]
  BY <1>3
<1>5. CacheTypes'
  BY DEF IInv, CloseFragment, CacheTypes
<1>6. HandTypes'
  BY <1>3, <1>4 DEF IInv, CloseFragment, HandTypes, fileVars, writeVars, searchVars
<1>7. MainTypes'
  <2>1. Todo(todo')
    <3>1. Todo(todo) /\ <<"unlock", "drain">> \in Seq(Steps)
      BY DEF IInv, MainTypes, Steps
    <3> QED BY <3>1 DEF Todo
  <2>2. Table(fragTable, n + 1)
    BY <1>2 DEF IInv, MainTypes, Table
  <2> QED BY <1>2, <1>3, <2>1, <2>2 DEF IInv, CloseFragment, MainTypes, fileVars, placeVars, writeVars, searchVars
<1>8. HeldBlocks'
  BY DEF IInv, CloseFragment, HeldBlocks, At, fileVars, searchVars
<1>9. Numbered'
  <2>1. 0 .. n - 1 \subseteq 0 .. n /\ n \in 0 .. n /\ (n + 1) - 1 = n
    OBVIOUS
  <2>2. {"frag"} \X (0 .. n - 1) \subseteq {"frag"} \X (0 .. n)
    BY <2>1
  <2>3. \A k \in 1 .. Len(toFrag') : fragmentCache.buf[toFrag'[k]].index \in 0 .. n
    <3>1. fragmentCache.buf[e].index = n
      BY <1>1, <1>3, NoneIsNone DEF Numbers
    <3>2. \A k \in 1 .. Len(toFrag) : fragmentCache.buf[toFrag[k]].index \in 0 .. n
      BY <1>3, <2>1, Zenon DEF Numbers
    <3> QED BY <1>4, <2>1, <3>1, <3>2, Zenon
  <2>4. \A d \in FragDeflators : /\ deflator[d].from # None => fragmentCache.buf[deflator[d].from].index \in 0 .. n
                                 /\ deflator[d].to # None => writerCache.buf[deflator[d].to].index \in {"frag"} \X (0 .. n)
                                 /\ deflator[d].step = "placed" => writerCache.buf[deflator[d].to].index[2] \in DOMAIN fragTable
    BY <1>3, <2>1, <2>2, Zenon DEF Numbers
  <2>5. \A k \in 1 .. Len(pending) : writerCache.buf[pending[k]].index \in {"frag"} \X (0 .. n)
    BY <1>3, <2>2, Zenon DEF Numbers
  <2>6. Numbers(writerCache.buf, fragmentCache.buf, deflator, pending, toFrag', None, n + 1, fragTable)
    BY <2>1, <2>3, <2>4, <2>5, Zenon DEF Numbers
  <2> QED BY <1>3, <2>6, Zenon DEF CloseFragment, Numbered, placeVars
<1>10. FragCounts'
  <2> SUFFICES ASSUME NEW b \in FragmentBuffers PROVE fragmentCache'.buf[b].used = FragUses(open', got', toFrag', deflator', b)
    BY DEF FragCounts
  <2>1. Is(e, {b}) \in Nat /\ Is(None, {b}) = 0 /\ Is(open, {b}) = Is(e, {b})
    BY <1>1, NoneIsNone DEF Is
  <2>2. fragmentCache.buf[b].used = Sum4(Is(open, {b}) - Is(e, {b}), Is(got, {b}), CountIn(toFrag, {b}) + Is(e, {b}), Taking(deflator, b))
    BY <2>1, FragMoves, Zenon DEF IInv, Counts, Facts4
  <2>3. got' = got /\ fragmentCache' = fragmentCache /\ deflator' = deflator
    BY DEF CloseFragment, searchVars
  <2>4. CountIn(toFrag', {b}) = CountIn(toFrag, {b}) + Is(e, {b})
    BY <1>3, CountAppend
  <2>5. Is(open', {b}) = Is(open, {b}) - Is(e, {b})
    BY <1>3, <2>1
  <2> QED BY <2>2, <2>3, <2>4, <2>5, Zenon DEF FragUses
<1>11. WriterCounts'
  BY DEF IInv, CloseFragment, Counts, WriterCounts, fileVars, writeVars, searchVars
<1> QED BY <1>5, <1>6, <1>7, <1>8, <1>9, <1>10, <1>11 DEF IInv, Counts

LEMMA FillFullKeeps == IInv /\ FillFull => IInv'
BY CloseFragmentKeeps DEF FillFull

LEMMA LastFragmentKeeps == IInv /\ LastFragment => IInv'
<1> SUFFICES ASSUME IInv, LastFragment PROVE IInv'
  OBVIOUS
<1>1. CASE open # None
  BY <1>1, CloseFragmentKeeps DEF LastFragment
<1>2. CASE open = None
  <2>1. Todo(todo')
    BY DEF LastFragment, Todo, Steps
  <2>2. CacheTypes' /\ Numbered' /\ HandTypes'
    BY <1>2 DEF IInv, LastFragment, CacheTypes, Numbered, HandTypes, fileVars, fragVars, placeVars, writeVars, searchVars
  <2>3. MainTypes' /\ HeldBlocks'
    BY <1>2, <2>1 DEF IInv, LastFragment, MainTypes, HeldBlocks, At, fileVars, fragVars, placeVars, writeVars, searchVars
  <2>4. Counts'
    BY <1>2 DEF IInv, LastFragment, Counts, WriterCounts, FragCounts, fileVars, fragVars, placeVars, writeVars, searchVars
  <2> QED BY <2>2, <2>3, <2>4 DEF IInv
<1> QED BY <1>1, <1>2

LEMMA FillFragmentKeeps == IInv /\ FillFragment => IInv'
<1> SUFFICES ASSUME IInv, FillFragment PROVE IInv'
  OBVIOUS
<1>1. PICK n \in Nat : n = fragments
  BY DEF IInv, MainTypes
<1>2. PICK e : e = NextFree(fragmentCache)
  OBVIOUS
<1>3. FragUnit(n) \in Datas
  BY DEF FragUnit, Datas
<1>4. open' = e /\ open = None /\ CanGet(fragmentCache) /\ fragmentCache' = Get(fragmentCache, e, n, FragUnit(n))
  BY <1>1, <1>2 DEF FillFragment
<1>5. e \in FragmentBuffers /\ FragTaken(fragmentCache', e, n)
  BY <1>2, <1>3, <1>4, Gets, Zenon
<1>6. FragCacheIs(fragmentCache') /\ fragmentCache'.buf[e].index = n
      /\ \A b \in FragmentBuffers : fragmentCache'.buf[b].used = fragmentCache.buf[b].used + Is(e, {b})
  BY <1>5 DEF FragTaken
<1>7. Todo(todo') /\ ~At("read")'
  <2>1. At("fill") /\ Then(<<>>) /\ MainTypes /\ "fill" \in Steps /\ <<>> \in Seq(Steps)
    BY DEF IInv, FillFragment, Steps
  <2> QED BY <2>1, Thens, Zenon
<1>8. CacheTypes'
  BY <1>6 DEF IInv, FillFragment, CacheTypes, FragCacheIs
<1>9. HandTypes'
  BY <1>4, <1>5 DEF IInv, FillFragment, HandTypes, fileVars, writeVars, searchVars
<1>10. MainTypes' /\ HeldBlocks'
  BY <1>7 DEF IInv, FillFragment, MainTypes, HeldBlocks, At, fileVars, placeVars, writeVars, searchVars
<1>11. Numbered'
  <2>1. Numbers(writerCache.buf, fragmentCache'.buf, deflator, pending, toFrag, open, n, fragTable)
    BY <1>1, <1>6 DEF FragCacheIs
  <2>2. Numbers(writerCache.buf, fragmentCache'.buf, deflator, pending, toFrag, e, n, fragTable)
    BY <1>6, <2>1, Zenon DEF Numbers
  <2> QED BY <1>1, <1>4, <2>2, Zenon DEF FillFragment, Numbered, placeVars
<1>12. FragCounts'
  <2> SUFFICES ASSUME NEW b \in FragmentBuffers PROVE fragmentCache'.buf[b].used = FragUses(open', got', toFrag', deflator', b)
    BY DEF FragCounts
  <2>1. Is(e, {b}) \in Nat /\ Is(open, {b}) = 0 /\ Is(open', {b}) = Is(e, {b})
    BY <1>4, NoneIsNone DEF Is
  <2>2. fragmentCache.buf[b].used + Is(e, {b}) = Sum4(Is(open, {b}) + Is(e, {b}), Is(got, {b}), CountIn(toFrag, {b}), Taking(deflator, b))
    BY <2>1, FragMoves, Zenon DEF IInv, Counts, Facts4
  <2>3. got' = got /\ toFrag' = toFrag /\ deflator' = deflator
    BY DEF FillFragment, searchVars
  <2>4. Is(open', {b}) = Is(open, {b}) + Is(e, {b})
    BY <2>1
  <2> QED BY <1>6, <2>2, <2>3, <2>4, Zenon DEF FragUses
<1>13. WriterCounts'
  BY DEF IInv, FillFragment, Counts, WriterCounts, fileVars, writeVars, searchVars
<1> QED BY <1>8, <1>9, <1>10, <1>11, <1>12, <1>13 DEF IInv, Counts

LEMMA ReadFragmentKeeps == IInv /\ ReadFragment => IInv'
<1> SUFFICES ASSUME IInv, ReadFragment PROVE IInv'
  OBVIOUS
<1>1. /\ todo[2] \in Nat /\ Tail(Tail(todo)) \in Seq(Steps) /\ Tail(Tail(todo)) # <<>>
      /\ Head(Tail(Tail(todo))) = "search"
  BY TodoFacts DEF IInv, MainTypes, ReadFragment, At
<1>2. PICK f \in Nat : f = todo[2]
  BY <1>1
<1>3. PICK y \in Datas : y = DataOf(f)
  <2>1. Garbage \in Datas /\ disk \in [DOMAIN disk -> Datas]
    BY DEF Datas, IInv, MainTypes
  <2>2. writerCache \in Caches(WriterBuffers, WriterIndexes) /\ CacheOK(writerCache)
    BY DEF IInv, CacheTypes
  <2>3. ASSUME NEW i, Found(writerCache, i) PROVE writerCache.buf[Find(writerCache, i)].data \in Datas
    <3>1. PICK b \in WriterBuffers : b = Find(writerCache, i)
      BY <2>2, <2>3, FindFacts
    <3>2. writerCache.buf[b].data \in Datas
      BY <2>2 DEF Caches
    <3> QED BY <3>1, <3>2, Zenon
  <2>4. \A p \in DOMAIN disk : disk[p] \in Datas
    BY <2>1
  <2> QED BY <2>1, <2>3, <2>4 DEF DataOf
<1>4. PICK e : e = NextFree(fragmentCache)
  OBVIOUS
<1>5. /\ got' = e /\ CanGet(fragmentCache) /\ fragmentCache' = Get(fragmentCache, e, f, y)
      /\ todo' = Tail(Tail(todo))
  BY <1>2, <1>3, <1>4 DEF ReadFragment
<1>6. e \in FragmentBuffers /\ FragTaken(fragmentCache', e, f)
  BY <1>3, <1>4, <1>5, Gets, Zenon
<1>7. FragCacheIs(fragmentCache')
      /\ \A b \in FragmentBuffers : fragmentCache'.buf[b].used = fragmentCache.buf[b].used + Is(e, {b})
  BY <1>6 DEF FragTaken
<1>8. Todo(todo') /\ todo' # <<>> /\ Head(todo') = "search"
  BY <1>1, <1>5 DEF Todo
<1>9. CacheTypes'
  BY <1>7 DEF IInv, ReadFragment, CacheTypes, FragCacheIs
<1>10. HandTypes'
  BY <1>5, <1>6 DEF IInv, ReadFragment, HandTypes, fileVars, fragVars, writeVars
<1>11. MainTypes' /\ HeldBlocks'
  BY <1>8 DEF IInv, ReadFragment, MainTypes, HeldBlocks, At, fileVars, fragVars, placeVars, writeVars
<1>12. Numbered'
  BY <1>7 DEF ReadFragment, Numbered, FragCacheIs, fragVars, placeVars
<1>13. got = None
  BY DEF IInv, HeldBlocks, ReadFragment
<1>14. FragCounts'
  <2> SUFFICES ASSUME NEW b \in FragmentBuffers PROVE fragmentCache'.buf[b].used = FragUses(open', got', toFrag', deflator', b)
    BY DEF FragCounts
  <2>1. Is(e, {b}) \in Nat /\ Is(got, {b}) = 0 /\ Is(got', {b}) = Is(e, {b})
    BY <1>5, <1>13, NoneIsNone DEF Is
  <2>2. fragmentCache.buf[b].used + Is(e, {b}) = Sum4(Is(open, {b}), Is(got, {b}) + Is(e, {b}), CountIn(toFrag, {b}), Taking(deflator, b))
    BY <2>1, FragMoves, Zenon DEF IInv, Counts, Facts4
  <2>3. open' = open /\ toFrag' = toFrag /\ deflator' = deflator
    BY DEF ReadFragment, fragVars
  <2>4. Is(got', {b}) = Is(got, {b}) + Is(e, {b})
    BY <2>1
  <2> QED BY <1>7, <2>2, <2>3, <2>4, Zenon DEF FragUses
<1>15. WriterCounts'
  BY DEF IInv, ReadFragment, Counts, WriterCounts, fileVars, writeVars
<1> QED BY <1>9, <1>10, <1>11, <1>12, <1>14, <1>15 DEF IInv, Counts

\* Of a file that has an inode, or that was no possible duplicate, no block is held.
LEMMA NextFileKeeps == IInv /\ NextFile => IInv'
<1> SUFFICES ASSUME IInv, NextFile PROVE IInv'
  OBVIOUS
<1>1. todo = <<>> /\ blocks' = <<>> /\ file.number < MaxFiles
  BY DEF NextFile
<1>2. PICK kind \in Kinds : SmallFile(kind) \/ BlocksFile(kind)
  BY DEF NextFile
<1>3. file.number \in 0 .. MaxFiles /\ bytes \in Nat /\ file \in Files
  BY DEF IInv, MainTypes, Files
<1>4. kind.size \in Nat /\ kind.tail \in BOOLEAN /\ kind.dup \in BOOLEAN /\ MaxFiles \in Nat
  <2>1. MaxFiles \in Nat
    BY DuplicateSearchAssumption
  <2>2. \A k \in Kinds : k \in [size : Nat, tail : BOOLEAN, dup : BOOLEAN]
    BY DuplicateSearchAssumption, Zenon
  <2>3. kind \in [size : Nat, tail : BOOLEAN, dup : BOOLEAN]
    BY <2>2
  <2> QED BY <2>1, <2>3
<1>5. file.number + 1 \in 0 .. MaxFiles
  BY <1>1, <1>3, <1>4
<1>6. file' \in Files /\ (~file'.dup => file'.thresh = file'.size)
  <2>1. CASE SmallFile(kind)
    <3>1. /\ file'.number = file.number + 1 /\ file'.size = 0 /\ file'.tail = TRUE /\ file'.dup = kind.dup
          /\ file'.start = 0 /\ file'.thresh = 0
          /\ file' = [number |-> file.number + 1, size |-> 0, tail |-> TRUE, dup |-> kind.dup, start |-> 0, thresh |-> 0]
      BY <2>1 DEF SmallFile, NoFile
    <3> QED BY <1>4, <1>5, <3>1 DEF Files
  <2>2. CASE BlocksFile(kind)
    <3>1. Thresh(kind.size) \in Nat
      <4>1. PICK m, n \in Nat : m = Len(toFrag) /\ n = Len(pending)
        BY DEF IInv, HandTypes
      <4>2. PICK c, w \in Nat : /\ c = Cardinality({d \in FragDeflators : deflator[d].step \in {"taken", "compressed", "deferred"}})
                                /\ w = Cardinality(WriterBuffers)
        BY DuplicateSearchAssumption, FS_Subset, FS_CardinalityType
      <4>3. Outstanding \in Int
        BY <4>1, <4>2 DEF Outstanding
      <4>4. PICK r \in Int : r = Cardinality(WriterBuffers) - Outstanding
        BY <4>2, <4>3
      <4>5. Thresh(kind.size) = IF kind.size > r THEN kind.size - r ELSE 0
        BY <4>4, Zenon DEF Thresh
      <4> QED BY <1>4, <4>5
    <3>2. PICK h \in Nat : h = IF kind.dup THEN Thresh(kind.size) ELSE kind.size
      BY <1>4, <3>1
    <3>3. file' = [number |-> file.number + 1, size |-> kind.size, tail |-> kind.tail, dup |-> kind.dup, start |-> bytes, thresh |-> h]
      BY <2>2, <3>2 DEF BlocksFile
    <3> QED BY <1>3, <1>4, <1>5, <3>2, <3>3 DEF Files
  <2> QED BY <1>2, <2>1, <2>2
<1>7. Todo(todo') /\ ~At("read")'
  <2>1. <<"search">> \in Seq(Steps) /\ <<"fill">> \in Seq(Steps) /\ <<"blocks">> \in Seq(Steps)
    BY DEF Steps
  <2>2. todo' \in {<<"search">>, <<"fill">>, <<"blocks">>}
    BY <1>2, <1>4 DEF SmallFile, BlocksFile
  <2>3. Todo(todo')
    BY <2>1, <2>2 DEF Todo
  <2> QED BY <2>2, <2>3 DEF At
<1>8. \A b \in WriterBuffers : CountIn(blocks', {b}) = CountIn(blocks, {b})
  <2> TAKE b \in WriterBuffers
  <2>1. blocks \in Seq(WriterBuffers \cup {None}) /\ b # None
    BY NoneIsNone DEF IInv, HandTypes
  <2>2. \A k \in 1 .. Len(blocks) : blocks[k] \notin {b}
    <3>1. CASE blocks = <<>>
      BY <3>1
    <3>2. CASE blocks # <<>>
      <4>1. file.thresh = file.size /\ Len(blocks) <= file.size /\ \A k \in 1 .. Len(blocks) : blocks[k] = None <=> k <= file.thresh
        BY <1>1, <3>2 DEF IInv, HeldBlocks, At
      <4>2. \A k \in 1 .. Len(blocks) : blocks[k] = None
        BY <1>3, <2>1, <4>1 DEF Files
      <4> QED BY <2>1, <4>2
    <3> QED BY <3>1, <3>2
  <2>3. CountIn(blocks, {b}) = 0
    BY <2>1, <2>2, CountNone
  <2> QED BY <1>1, <2>3, CountEmpty
<1>9. CacheTypes' /\ Numbered'
  BY DEF IInv, NextFile, CacheTypes, Numbered, fragVars, placeVars
<1>10. HandTypes'
  BY <1>1 DEF IInv, NextFile, HandTypes, fragVars, writeVars, searchVars
<1>11. MainTypes'
  BY <1>6, <1>7 DEF IInv, NextFile, MainTypes, fragVars, placeVars, writeVars, searchVars
<1>12. HeldBlocks'
  BY <1>1, <1>6, <1>7 DEF HeldBlocks, Files
<1>13. WriterCounts'
  <2>1. /\ leaked' = leaked /\ pins' = pins /\ writing' = writing /\ toWriter' = toWriter /\ pending' = pending
        /\ deflator' = deflator /\ writerCache' = writerCache
    BY DEF NextFile, searchVars, writeVars
  <2> QED BY <1>8, <2>1, Zenon DEF IInv, Counts, WriterCounts, WriterUses
<1>14. FragCounts'
  BY DEF IInv, Counts, FragCounts, NextFile, fragVars, searchVars
<1> QED BY <1>9, <1>10, <1>11, <1>12, <1>13, <1>14 DEF IInv, Counts

LEMMA WriteBlockKeeps == IInv /\ WriteBlock => IInv'
<1> SUFFICES ASSUME IInv, WriteBlock PROVE IInv'
  OBVIOUS
<1>1. /\ blocks \in Seq(WriterBuffers \cup {None}) /\ toWriter \in Seq(Messages) /\ bytes \in Nat /\ file \in Files
  BY DEF IInv, HandTypes, MainTypes
<1>2. PICK n, h, z \in Nat : n = Len(blocks) /\ h = file.thresh /\ z = file.size
  BY <1>1 DEF Files
<1>3. BlockUnit(file, n) \in Datas /\ AtPosition(bytes) \in WriterIndexes
  BY <1>1, <1>2 DEF BlockUnit, Datas, AtPosition, WriterIndexes, Positions, Files
<1>4. PICK e : e = NextFree(writerCache)
  OBVIOUS
<1>5. PICK y \in Datas : y = BlockUnit(file, n)
  BY <1>3
<1>6. /\ CanGet(writerCache) /\ writerCache' = Rehash(Get(writerCache, e, None, y), e, AtPosition(bytes))
      /\ n < z /\ At("blocks") /\ bytes' = bytes + 1
      /\ n < h => blocks' = Append(blocks, None) /\ toWriter' = Append(toWriter, <<e, bytes>>)
      /\ ~(n < h) => blocks' = Append(blocks, e) /\ toWriter' = toWriter
  BY <1>2, <1>4, <1>5 DEF WriteBlock
<1>7. e \in WriterBuffers /\ WriterTaken(writerCache', e, AtPosition(bytes))
  BY <1>3, <1>4, <1>6, Gets, Zenon
<1>8. WriterCacheIs(writerCache')
      /\ \A b \in WriterBuffers : writerCache'.buf[b].used = writerCache.buf[b].used + Is(e, {b})
  BY <1>7 DEF WriterTaken
<1>9. PICK m \in Messages : m = <<e, bytes>>
  BY <1>1, <1>7, MessageIs
<1>10. PICK v \in WriterBuffers \cup {None} : v = IF n < h THEN None ELSE e
  BY <1>7
<1>11. (v = None <=> n < h) /\ blocks' = Append(blocks, v)
  BY <1>6, <1>7, <1>10, NoneIsNone
<1>12. /\ blocks' \in Seq(WriterBuffers \cup {None}) /\ toWriter' \in Seq(Messages) /\ Len(blocks') = n + 1
       /\ \A k \in 1 .. n : blocks'[k] = blocks[k]
       /\ blocks'[n + 1] = None <=> n < h
  <2>1. toWriter' = Append(toWriter, m) \/ toWriter' = toWriter
    BY <1>6, <1>9
  <2>2. toWriter' \in Seq(Messages)
    BY <1>1, <2>1
  <2>3. /\ blocks' \in Seq(WriterBuffers \cup {None}) /\ Len(blocks') = n + 1
        /\ (\A k \in 1 .. n : blocks'[k] = blocks[k]) /\ blocks'[n + 1] = v
    BY <1>1, <1>2, <1>11
  <2> QED BY <1>11, <2>2, <2>3
<1>13. CacheTypes' /\ Numbered'
  BY <1>8 DEF IInv, WriteBlock, CacheTypes, Numbered, WriterCacheIs, fragVars
<1>14. HandTypes'
  BY <1>12 DEF IInv, WriteBlock, HandTypes, fragVars, writeVars, searchVars
<1>15. MainTypes'
  BY <1>1, <1>6 DEF IInv, WriteBlock, MainTypes, fragVars, writeVars, searchVars
<1>16. HeldBlocks'
  <2>1. \A k \in 1 .. n : blocks[k] = None <=> k <= h
    BY <1>2, <1>6 DEF IInv, HeldBlocks, At
  <2>2. \A k \in 1 .. n + 1 : blocks'[k] = None <=> k <= h
    <3> TAKE k \in 1 .. n + 1
    <3>1. CASE k \in 1 .. n
      BY <1>12, <2>1, <3>1, Zenon
    <3>2. CASE k = n + 1
      BY <1>12, <3>2
    <3> QED BY <3>1, <3>2
  <2>3. file' = file /\ todo' = todo
    BY DEF WriteBlock
  <2> QED BY <1>2, <1>6, <1>12, <2>2, <2>3 DEF IInv, HeldBlocks, At
<1>17. WriterCounts'
  <2> SUFFICES ASSUME NEW b \in WriterBuffers
               PROVE  writerCache'.buf[b].used = WriterUses(leaked', pins', writing', blocks', toWriter', pending', deflator', b)
    BY DEF WriterCounts
  <2>1. Is(e, {b}) \in Nat
    BY DEF Is
  <2>2. /\ writerCache.buf[b].used + Is(e, {b})
             = Sum7(leaked[b], CountIn(pins, {b}), Is(writing, {b}), CountIn(blocks, {b}),
                    CountIn(toWriter, {b} \X Nat) + Is(e, {b}), CountIn(pending, {b}), Holding(deflator, b))
        /\ writerCache.buf[b].used + Is(e, {b})
             = Sum7(leaked[b], CountIn(pins, {b}), Is(writing, {b}), CountIn(blocks, {b}) + Is(e, {b}),
                    CountIn(toWriter, {b} \X Nat), CountIn(pending, {b}), Holding(deflator, b))
        /\ CountIn(blocks, {b}) \in Nat
    BY <2>1, WriterMoves, Zenon DEF IInv, Counts, Facts7
  <2>3. /\ leaked' = leaked /\ writing' = writing /\ pending' = pending /\ pins' = pins /\ deflator' = deflator
    BY DEF WriteBlock, searchVars, writeVars
  <2>4. CASE n < h
    <3>1. CountIn(toWriter', {b} \X Nat) = CountIn(toWriter, {b} \X Nat) + Is(e, {b})
      <4>1. CountIn(Append(toWriter, m), {b} \X Nat) = CountIn(toWriter, {b} \X Nat) + Is(m, {b} \X Nat)
        BY <1>1, CountAppend
      <4>2. Is(m, {b} \X Nat) = Is(e, {b})
        BY <1>1, <1>9, MessageIs, Zenon
      <4> QED BY <1>6, <1>9, <2>4, <4>1, <4>2, Zenon
    <3>2. CountIn(blocks', {b}) = CountIn(blocks, {b})
      <4>1. CountIn(Append(blocks, v), {b}) = CountIn(blocks, {b}) + Is(v, {b})
        BY <1>1, CountAppend
      <4>2. Is(v, {b}) = 0
        BY <1>11, <2>4, NoneIsNone DEF Is
      <4> QED BY <1>11, <2>2, <4>1, <4>2
    <3> QED BY <1>8, <2>2, <2>3, <3>1, <3>2, Zenon DEF WriterUses
  <2>5. CASE ~(n < h)
    <3>1. CountIn(blocks', {b}) = CountIn(blocks, {b}) + Is(e, {b}) /\ toWriter' = toWriter
      <4>1. CountIn(Append(blocks, v), {b}) = CountIn(blocks, {b}) + Is(v, {b})
        BY <1>1, CountAppend
      <4>2. v = e
        BY <1>10, <2>5
      <4> QED BY <1>6, <1>11, <2>5, <4>1, <4>2
    <3> QED BY <1>8, <2>2, <2>3, <3>1, Zenon DEF WriterUses
  <2> QED BY <2>4, <2>5
<1>18. FragCounts'
  BY DEF IInv, Counts, FragCounts, WriteBlock, fragVars, searchVars
<1> QED BY <1>13, <1>14, <1>15, <1>16, <1>17, <1>18 DEF IInv, Counts

\* The compressed fragment that a lookup finds is never put back: its use is leaked.
LEMMA GetFragmentKeeps == ASSUME IInv, NEW f \in Nat, GetFragment(f) PROVE IInv'
<1>1. /\ At("search") /\ got = None /\ MainTypes /\ todo # <<>> /\ Head(todo) = "search" /\ todo \in Seq(Steps)
      /\ searches < MaxSearches /\ searches' = searches + 1
  BY TodoFacts DEF IInv, MainTypes, GetFragment, Looking, At, Steps
<1>2. searches' \in 0 .. MaxSearches
  BY <1>1, DuplicateSearchAssumption DEF MainTypes
<1>3. CASE Found(fragmentCache, f)
  <2>1. PICK e : e = Find(fragmentCache, f)
    OBVIOUS
  <2>2. /\ got' = e /\ fragmentCache' = Lookup(fragmentCache, e)
        /\ UNCHANGED <<todo, writerCache, leaked>>
    BY <1>3, <2>1 DEF GetFragment
  <2>3. /\ e \in FragmentBuffers /\ FragCacheIs(fragmentCache')
        /\ \A b \in FragmentBuffers : fragmentCache'.buf[b].used = fragmentCache.buf[b].used + Is(e, {b})
    BY <1>3, <2>1, <2>2, LooksUp, Zenon
  <2>4. CacheTypes'
    BY <2>2, <2>3 DEF IInv, CacheTypes, FragCacheIs
  <2>5. HandTypes'
    BY <2>2, <2>3 DEF IInv, GetFragment, HandTypes, fileVars, fragVars, writeVars
  <2>6. MainTypes' /\ HeldBlocks'
    BY <1>1, <1>2, <2>2 DEF IInv, GetFragment, MainTypes, HeldBlocks, At, fileVars, fragVars, placeVars, writeVars
  <2>7. Numbered'
    BY <2>2, <2>3 DEF GetFragment, Numbered, FragCacheIs, fragVars, placeVars
  <2>8. FragCounts'
    <3> SUFFICES ASSUME NEW b \in FragmentBuffers PROVE fragmentCache'.buf[b].used = FragUses(open', got', toFrag', deflator', b)
      BY DEF FragCounts
    <3>1. Is(e, {b}) \in Nat /\ Is(got, {b}) = 0 /\ Is(got', {b}) = Is(e, {b})
      BY <1>1, <2>2, NoneIsNone DEF Is
    <3>2. fragmentCache.buf[b].used + Is(e, {b}) = Sum4(Is(open, {b}), Is(got, {b}) + Is(e, {b}), CountIn(toFrag, {b}), Taking(deflator, b))
      BY <3>1, FragMoves, Zenon DEF IInv, Counts, Facts4
    <3>3. open' = open /\ toFrag' = toFrag /\ deflator' = deflator
      BY DEF GetFragment, fragVars
    <3>4. Is(got', {b}) = Is(got, {b}) + Is(e, {b})
      BY <3>1
    <3> QED BY <2>3, <3>2, <3>3, <3>4, Zenon DEF FragUses
  <2>9. WriterCounts'
    BY <2>2 DEF IInv, GetFragment, Counts, WriterCounts, fileVars, writeVars
  <2> QED BY <2>4, <2>5, <2>6, <2>7, <2>8, <2>9 DEF IInv, Counts
<1>4. CASE ~Found(fragmentCache, f)
  <2>1. todo' = <<"read", f>> \o todo /\ UNCHANGED <<got, fragmentCache>>
    BY <1>4 DEF GetFragment
  <2>2. Todo(todo')
    BY <1>1, <2>1 DEF Todo
  <2>3. todo' # <<>> /\ Head(todo') = "read"
    <3>1. PICK p : p = <<"read", f>>
      OBVIOUS
    <3>2. p \in Seq({"read", f}) /\ Len(p) = 2 /\ p[1] = "read"
      BY <3>1
    <3> DEFINE U == Steps \cup {"read", f}
    <3>3. p \in Seq(U) /\ todo \in Seq(U)
      BY <1>1, <3>1
    <3> HIDE DEF U
    <3>4. p \o todo \in Seq(U) /\ Len(p \o todo) = Len(p) + Len(todo) /\ \A k \in 1 .. Len(p) : (p \o todo)[k] = p[k]
      BY <3>3, SMTT(20)
    <3>5. Len(todo) \in Nat
      BY <1>1
    <3>6. p \o todo # <<>> /\ Head(p \o todo) = "read"
      BY <3>2, <3>4, <3>5
    <3> QED BY <2>1, <3>1, <3>6
  <2>4. MainTypes' /\ HeldBlocks'
    BY <1>1, <1>2, <2>1, <2>2, <2>3 DEF IInv, GetFragment, MainTypes, HeldBlocks, At, fileVars, fragVars, placeVars, writeVars
  <2>5. FragCounts'
    BY <2>1 DEF IInv, GetFragment, Counts, FragCounts, fragVars
  <2>6. CASE ~Found(writerCache, FragIndex(f))
    <3>1. UNCHANGED <<writerCache, leaked>>
      BY <1>4, <2>6 DEF GetFragment
    <3>2. CacheTypes' /\ HandTypes' /\ Numbered'
      BY <2>1, <3>1 DEF IInv, GetFragment, CacheTypes, HandTypes, Numbered, fileVars, fragVars, placeVars, writeVars
    <3>3. WriterCounts'
      BY <3>1 DEF IInv, GetFragment, Counts, WriterCounts, fileVars, writeVars
    <3> QED BY <2>4, <2>5, <3>2, <3>3 DEF IInv, Counts
  <2>7. CASE Found(writerCache, FragIndex(f))
    <3>1. PICK e : e = Find(writerCache, FragIndex(f))
      OBVIOUS
    <3>2. writerCache' = Lookup(writerCache, e) /\ leaked' = [leaked EXCEPT ![e] = @ + 1]
      BY <1>4, <2>7, <3>1 DEF GetFragment
    <3>3. /\ e \in WriterBuffers /\ WriterCacheIs(writerCache')
          /\ \A b \in WriterBuffers : writerCache'.buf[b].used = writerCache.buf[b].used + Is(e, {b})
      BY <2>7, <3>1, <3>2, LooksUp, Zenon
    <3>4. leaked \in [WriterBuffers -> Nat]
      BY DEF IInv, HandTypes
    <3>5. leaked' \in [WriterBuffers -> Nat] /\ \A b \in WriterBuffers : leaked'[b] = leaked[b] + Is(e, {b})
      BY <3>2, <3>3, <3>4 DEF Is
    <3>6. CacheTypes'
      BY <2>1, <3>3 DEF IInv, CacheTypes, WriterCacheIs
    <3>7. HandTypes'
      BY <2>1, <3>5 DEF IInv, GetFragment, HandTypes, fileVars, fragVars, writeVars
    <3>8. Numbered'
      BY <2>1, <3>3 DEF GetFragment, Numbered, WriterCacheIs, fragVars, placeVars
    <3>9. WriterCounts'
      <4> SUFFICES ASSUME NEW b \in WriterBuffers
                   PROVE  writerCache'.buf[b].used = WriterUses(leaked', pins', writing', blocks', toWriter', pending', deflator', b)
        BY DEF WriterCounts
      <4>1. Is(e, {b}) \in Nat
        BY DEF Is
      <4>2. writerCache.buf[b].used + Is(e, {b})
              = Sum7(leaked[b] + Is(e, {b}), CountIn(pins, {b}), Is(writing, {b}), CountIn(blocks, {b}),
                     CountIn(toWriter, {b} \X Nat), CountIn(pending, {b}), Holding(deflator, b))
        BY <4>1, WriterMoves, Zenon DEF IInv, Counts, Facts7
      <4>3. pins' = pins /\ writing' = writing /\ blocks' = blocks /\ toWriter' = toWriter /\ pending' = pending /\ deflator' = deflator
        BY DEF GetFragment, fileVars, writeVars
      <4> QED BY <3>3, <3>5, <4>2, <4>3, Zenon DEF WriterUses
    <3> QED BY <2>4, <2>5, <3>6, <3>7, <3>8, <3>9 DEF IInv, Counts
  <2> QED BY <2>6, <2>7
<1> QED BY <1>3, <1>4

\* A block that is held is put back, and the list has None in its place.
LEMMA PutHeldKeeps == IInv /\ PutHeld => IInv'
<1> SUFFICES ASSUME IInv, PutHeld PROVE IInv'
  OBVIOUS
<1>1. /\ At("putback") /\ blocks \in Seq(WriterBuffers \cup {None})
      /\ UNCHANGED <<fragmentCache, todo, file, committed, fragVars, placeVars, locked, pending, toWriter,
                     fromWriter, deflator, writeVars, searchVars>>
  BY DEF IInv, HandTypes, PutHeld
<1>2. PICK k \in 1 .. Len(blocks) : /\ blocks[k] # None /\ writerCache' = Put(writerCache, blocks[k])
                                    /\ blocks' = [blocks EXCEPT ![k] = None]
  BY Zenon DEF PutHeld
<1>3. PICK e \in WriterBuffers : e = blocks[k]
  BY <1>1, <1>2
<1>4. blocks' \in Seq(WriterBuffers \cup {None}) /\ Len(blocks') = Len(blocks) /\ Len(blocks) \in Nat
  BY <1>1, <1>2
<1>5. \A b \in WriterBuffers : CountIn(blocks, {b}) = CountIn(blocks', {b}) + Is(e, {b}) /\ CountIn(blocks', {b}) \in Nat
  <2> TAKE b \in WriterBuffers
  <2>1. None \notin {b} /\ None \in WriterBuffers \cup {None}
    BY NoneIsNone
  <2>2. CountIn(blocks, {b}) = CountIn([blocks EXCEPT ![k] = None], {b}) + Is(blocks[k], {b})
    BY <1>1, <2>1, CountExcept
  <2>3. CountIn(blocks', {b}) \in Nat
    BY <1>4, CountType
  <2> QED BY <1>2, <1>3, <2>2, <2>3
<1>6. \A b \in WriterBuffers : CountIn(blocks', {b}) = CountIn(blocks, {b}) - Is(e, {b}) /\ Is(e, {b}) <= CountIn(blocks, {b})
  <2> TAKE b \in WriterBuffers
  <2>1. CountIn(blocks, {b}) = CountIn(blocks', {b}) + Is(e, {b}) /\ CountIn(blocks', {b}) \in Nat
    BY <1>5
  <2>2. Is(e, {b}) \in Nat
    BY DEF Is
  <2> QED BY <2>1, <2>2
<1>7. writerCache.buf[e].used > 0
  <2>1. 1 <= CountIn(blocks, {e})
    BY <1>6 DEF Is
  <2>2. 1 <= writerCache.buf[e].used /\ writerCache.buf[e].used \in Nat
    BY <2>1, 1 \in Nat, WriterMoves, Zenon DEF Facts7, IInv
  <2> QED BY <2>2
<1>8. WriterCacheIs(writerCache') /\ \A b \in WriterBuffers : writerCache'.buf[b].used = writerCache.buf[b].used - Is(e, {b})
  BY <1>2, <1>3, <1>7, PutsBack, Zenon
<1>9. CacheTypes' /\ Numbered'
  BY <1>1, <1>8 DEF IInv, CacheTypes, Numbered, WriterCacheIs, fragVars, placeVars
<1>10. HandTypes' /\ MainTypes'
  BY <1>1, <1>4 DEF IInv, HandTypes, MainTypes, fragVars, placeVars, writeVars, searchVars
<1>11. HeldBlocks'
  BY <1>1, <1>4 DEF IInv, HeldBlocks, At, searchVars
<1>12. WriterCounts'
  <2> SUFFICES ASSUME NEW b \in WriterBuffers
               PROVE  writerCache'.buf[b].used = WriterUses(leaked', pins', writing', blocks', toWriter', pending', deflator', b)
    BY DEF WriterCounts
  <2>1. Is(e, {b}) \in Nat
    BY DEF Is
  <2>2. writerCache.buf[b].used - Is(e, {b})
          = Sum7(leaked[b], CountIn(pins, {b}), Is(writing, {b}), CountIn(blocks, {b}) - Is(e, {b}),
                 CountIn(toWriter, {b} \X Nat), CountIn(pending, {b}), Holding(deflator, b))
    BY <2>1, WriterMoves, Zenon DEF IInv, Facts7
  <2>3. leaked' = leaked /\ pins' = pins /\ writing' = writing /\ toWriter' = toWriter /\ pending' = pending /\ deflator' = deflator
    BY <1>1 DEF searchVars, writeVars
  <2> QED BY <1>6, <1>8, <2>2, <2>3, Zenon DEF WriterUses
<1>13. FragCounts'
  BY <1>1 DEF IInv, Counts, FragCounts, fragVars, searchVars
<1> QED BY <1>9, <1>10, <1>11, <1>12, <1>13 DEF IInv, Counts

\* The blocks held go to the writer, each once.
LEMMA HeldFacts ==
  ASSUME IInv, At("search")
  PROVE  /\ Held \in Seq(WriterBuffers)
         /\ \A b \in WriterBuffers : CountIn(Held, {b}) = CountIn(blocks, {b})
<1>1. /\ blocks \in Seq(WriterBuffers \cup {None}) /\ file.thresh \in Nat
      /\ \A k \in 1 .. Len(blocks) : blocks[k] = None <=> k <= file.thresh
  BY DEF IInv, HandTypes, MainTypes, Files, HeldBlocks, At
<1>2. PICK n, m \in Nat : n = file.thresh /\ m = Len(blocks)
  BY <1>1
<1>3. Held \in Seq(WriterBuffers)
  <2>1. PICK h : h = SubSeq(blocks, n + 1, m)
    OBVIOUS
  <2>2. h \in Seq(WriterBuffers \cup {None}) /\ \A k \in 1 .. Len(h) : n + k \in 1 .. m /\ h[k] = blocks[n + k]
    <3>1. h \in Seq(WriterBuffers \cup {None}) /\ Len(h) = IF n + 1 <= m THEN m - n ELSE 0
      BY <1>1, <1>2, <2>1
    <3>2. \A k \in 1 .. Len(h) : k \in 1 .. m - n
      BY <3>1
    <3>3. \A k \in 1 .. m - n : h[k] = blocks[n + k]
      BY <1>1, <1>2, <2>1
    <3>4. \A k \in 1 .. m - n : n + k \in 1 .. m
      OBVIOUS
    <3> QED BY <3>1, <3>2, <3>3, <3>4, Zenon
  <2>3. \A k \in 1 .. Len(h) : h[k] \in WriterBuffers
    <3> TAKE k \in 1 .. Len(h)
    <3>1. PICK j \in 1 .. m : j = n + k /\ h[k] = blocks[j]
      BY <2>2
    <3>2. ~(j <= n) /\ (blocks[j] = None <=> j <= n) /\ blocks[j] \in WriterBuffers \cup {None}
      BY <1>1, <1>2, <3>1
    <3> QED BY <3>1, <3>2
  <2>4. h \in Seq(WriterBuffers)
    BY <2>2, <2>3
  <2> QED BY <1>2, <2>1, <2>4 DEF Held
<1>4. ASSUME NEW b \in WriterBuffers PROVE CountIn(Held, {b}) = CountIn(blocks, {b})
  <2>1. \A k \in 1 .. Len(blocks) : k <= n => blocks[k] \notin {b}
    BY <1>1, <1>2, NoneIsNone
  <2>2. CountIn(SubSeq(blocks, n + 1, Len(blocks)), {b}) = CountIn(blocks, {b})
    BY <1>1, <2>1, CountSuffix
  <2> QED BY <1>2, <2>2, Zenon DEF Held
<1> QED BY <1>3, <1>4

LEMMA UniqueKeeps == IInv /\ Unique => IInv'
<1> SUFFICES ASSUME IInv, Unique PROVE IInv'
  OBVIOUS
<1>1. /\ toWriter \in Seq(Messages) /\ file.start \in Nat /\ file.thresh \in Nat /\ At("search") /\ blocks' = <<>>
      /\ got = None /\ MainTypes /\ "search" \in Steps /\ Then(Fill \o Unlock)
      /\ UNCHANGED <<writerCache, fragmentCache, file, fragVars, placeVars, locked, pending, fromWriter,
                     deflator, writeVars, searchVars>>
  BY DEF IInv, HandTypes, MainTypes, Files, Unique, Looking, Steps
<1>2. PICK h : h = Held
  OBVIOUS
<1>3. h \in Seq(WriterBuffers) /\ \A b \in WriterBuffers : CountIn(h, {b}) = CountIn(blocks, {b})
  BY <1>1, <1>2, HeldFacts, Zenon
<1>4. PICK n, p \in Nat : n = Len(h) /\ p = file.start + file.thresh
  BY <1>1, <1>3
<1>5. PICK sent : sent = [k \in 1 .. n |-> <<h[k], p + k - 1>>]
  OBVIOUS
<1>6. toWriter' = toWriter \o sent
  BY <1>2, <1>4, <1>5 DEF Unique
<1>7. sent \in Seq(Messages) /\ Len(sent) = n
  <2>1. \A k \in 1 .. n : <<h[k], p + k - 1>> \in Messages
    <3> TAKE k \in 1 .. n
    <3>1. h[k] \in WriterBuffers /\ p + k - 1 \in Nat
      BY <1>3, <1>4
    <3> QED BY <3>1, MessageIs
  <2> QED BY <1>5, <2>1
<1>8. \A b \in WriterBuffers : CountIn(sent, {b} \X Nat) = CountIn(blocks, {b})
  <2> TAKE b \in WriterBuffers
  <2>1. \A k \in 1 .. n : sent[k] \in {b} \X Nat <=> h[k] \in {b}
    <3> TAKE k \in 1 .. n
    <3>1. sent[k] = <<h[k], p + k - 1>> /\ p + k - 1 \in Nat
      BY <1>4, <1>5
    <3> QED BY <3>1
  <2>2. {k \in 1 .. Len(sent) : sent[k] \in {b} \X Nat} = {k \in 1 .. Len(h) : h[k] \in {b}}
    BY <1>4, <1>7, <2>1
  <2>3. CountIn(sent, {b} \X Nat) = CountIn(h, {b})
    BY <2>2, Zenon DEF CountIn
  <2> QED BY <1>3, <2>3
<1>9. toWriter' \in Seq(Messages)
      /\ \A b \in WriterBuffers : CountIn(toWriter', {b} \X Nat) = CountIn(toWriter, {b} \X Nat) + CountIn(blocks, {b})
  <2>1. toWriter \o sent \in Seq(Messages)
    BY <1>1, <1>7
  <2>2. \A S : CountIn(toWriter \o sent, S) = CountIn(toWriter, S) + CountIn(sent, S)
    BY <1>1, <1>7, CountConcat
  <2> QED BY <1>6, <1>8, <2>1, <2>2
<1>10. Todo(todo') /\ ~At("read")'
  <2>1. Fill \o Unlock \in Seq(Steps)
    BY StepSeqs
  <2> QED BY <1>1, <2>1, Thens, Zenon
<1>11. CacheTypes' /\ Numbered'
  BY <1>1 DEF IInv, CacheTypes, Numbered, fragVars, placeVars
<1>12. HandTypes'
  BY <1>1, <1>9 DEF IInv, HandTypes, fragVars, writeVars, searchVars
<1>13. MainTypes'
  BY <1>1, <1>10 DEF IInv, MainTypes, fragVars, placeVars, writeVars, searchVars
<1>14. HeldBlocks'
  BY <1>1, <1>10 DEF IInv, HeldBlocks, MainTypes, Files
<1>15. WriterCounts'
  <2> SUFFICES ASSUME NEW b \in WriterBuffers
               PROVE  writerCache'.buf[b].used = WriterUses(leaked', pins', writing', blocks', toWriter', pending', deflator', b)
    BY DEF WriterCounts
  <2>1. PICK x \in Nat : x = CountIn(blocks, {b})
    BY CountType DEF IInv, HandTypes
  <2>2. writerCache.buf[b].used
          = Sum7(leaked[b], CountIn(pins, {b}), Is(writing, {b}), CountIn(blocks, {b}) - x,
                 CountIn(toWriter, {b} \X Nat) + x, CountIn(pending, {b}), Holding(deflator, b))
    BY WriterMoves, Zenon DEF IInv, Facts7
  <2>3. /\ leaked' = leaked /\ pins' = pins /\ writing' = writing /\ pending' = pending /\ deflator' = deflator
        /\ writerCache' = writerCache
    BY <1>1 DEF searchVars, writeVars
  <2>4. CountIn(blocks', {b}) = CountIn(blocks, {b}) - x
    <3>1. CountIn(blocks', {b}) = 0
      BY <1>1, CountEmpty, Zenon
    <3> QED BY <2>1, <3>1
  <2> QED BY <1>9, <2>1, <2>2, <2>3, <2>4, Zenon DEF WriterUses
<1>16. FragCounts'
  BY <1>1 DEF IInv, Counts, FragCounts, fragVars, searchVars
<1> QED BY <1>11, <1>12, <1>13, <1>14, <1>15, <1>16 DEF IInv, Counts

LEMMA RollBackKeeps == IInv /\ RollBack => IInv'
<1> SUFFICES ASSUME IInv, RollBack PROVE IInv'
  OBVIOUS
<1>1. /\ toWriter \in Seq(Messages) /\ file.start \in Nat /\ bytes \in Nat /\ At("putback") /\ blocks' = <<>>
      /\ MainTypes /\ "putback" \in Steps /\ (toWriter' = toWriter \/ toWriter' = Append(toWriter, Flush))
      /\ bytes' \in Nat
      /\ UNCHANGED <<writerCache, fragmentCache, file, committed, fragVars, fragTable, locked, pending,
                     fromWriter, deflator, writeVars, searchVars>>
  BY DEF IInv, HandTypes, MainTypes, Files, RollBack, Steps
<1>2. Todo(todo') /\ ~At("read")'
  <2>1. PICK s \in Seq(Steps) : s = (IF MustFlush THEN <<"truncate">> ELSE <<>>) \o Unlock
    <3>1. PICK a \in Seq(Steps) : a = IF MustFlush THEN <<"truncate">> ELSE <<>>
      BY StepSeqs, Zenon
    <3>2. a \o Unlock \in Seq(Steps)
      BY StepSeqs
    <3> QED BY <3>1, <3>2, Zenon
  <2>2. Then(s)
    BY <2>1, Zenon DEF RollBack
  <2> QED BY <1>1, <2>2, Thens, Zenon
<1>3. \A b \in WriterBuffers : CountIn(blocks', {b}) = CountIn(blocks, {b})
  <2> TAKE b \in WriterBuffers
  <2>1. blocks \in Seq(WriterBuffers \cup {None}) /\ \A k \in 1 .. Len(blocks) : blocks[k] \notin {b}
    BY NoneIsNone DEF IInv, HandTypes, RollBack
  <2>2. CountIn(blocks, {b}) = 0
    BY <2>1, CountNone
  <2>3. CountIn(blocks', {b}) = 0
    BY <1>1, CountEmpty, Zenon
  <2> QED BY <2>2, <2>3
<1>4. /\ toWriter' \in Seq(Messages)
      /\ \A b \in WriterBuffers : CountIn(toWriter', {b} \X Nat) = CountIn(toWriter, {b} \X Nat)
  <2>1. Flush \in Messages
    BY DEF Messages
  <2>2. Append(toWriter, Flush) \in Seq(Messages)
    BY <1>1, <2>1
  <2>3. ASSUME NEW b PROVE CountIn(Append(toWriter, Flush), {b} \X Nat) = CountIn(toWriter, {b} \X Nat)
    <3>1. CountIn(Append(toWriter, Flush), {b} \X Nat) = CountIn(toWriter, {b} \X Nat) + Is(Flush, {b} \X Nat)
      BY <1>1, <2>1, CountAppend
    <3>2. CountIn(toWriter, {b} \X Nat) \in Nat /\ Is(Flush, {b} \X Nat) = 0
      BY <1>1, CountType, FlushIs
    <3> QED BY <3>1, <3>2
  <2> QED BY <1>1, <2>2, <2>3
<1>5. CacheTypes' /\ Numbered'
  BY <1>1 DEF IInv, CacheTypes, Numbered, fragVars
<1>6. HandTypes'
  BY <1>1, <1>4 DEF IInv, HandTypes, fragVars, writeVars, searchVars
<1>7. MainTypes'
  BY <1>1, <1>2 DEF IInv, MainTypes, fragVars, writeVars, searchVars
<1>8. HeldBlocks'
  BY <1>1, <1>2 DEF IInv, HeldBlocks, MainTypes, Files
<1>9. WriterCounts'
  <2>1. /\ leaked' = leaked /\ pins' = pins /\ writing' = writing /\ pending' = pending /\ deflator' = deflator
        /\ writerCache' = writerCache
    BY <1>1 DEF searchVars, writeVars
  <2> QED BY <1>3, <1>4, <2>1, Zenon DEF IInv, Counts, WriterCounts, WriterUses
<1>10. FragCounts'
  BY <1>1 DEF IInv, Counts, FragCounts, fragVars, searchVars
<1> QED BY <1>5, <1>6, <1>7, <1>8, <1>9, <1>10 DEF IInv, Counts

-----------------------------------------------------------------------------
(* The theorems.                                                           *)

\* A step that changes nothing.
LEMMA StutterKeeps == IInv /\ UNCHANGED vars => IInv'
<1> SUFFICES ASSUME IInv, UNCHANGED vars PROVE IInv'
  OBVIOUS
<1> USE DEF vars
<1>1. CacheTypes' /\ Numbered' /\ HandTypes'
  BY DEF IInv, CacheTypes, Numbered, HandTypes
<1>2. MainTypes' /\ HeldBlocks'
  BY DEF IInv, MainTypes, HeldBlocks, At
<1>3. Counts'
  BY DEF IInv, Counts, WriterCounts, FragCounts
<1> QED BY <1>1, <1>2, <1>3 DEF IInv

LEMMA NextKeeps == IInv /\ [Next]_vars => IInv'
<1> SUFFICES ASSUME IInv, [Next]_vars PROVE IInv'
  OBVIOUS
<1>1. CASE Main
  <2>1. \A f \in 0 .. fragments - (IF open = None THEN 1 ELSE 0) : f \in Nat
    OBVIOUS
  <2> QED
    BY <1>1, <2>1, NextFileKeeps, WriteBlockKeeps, EndBlocksKeeps, LookupBlockKeeps, PutBlockKeeps, GetFragmentKeeps,
       ReadFragmentKeeps, PutFragmentKeeps, UniqueKeeps, DuplicateKeeps, PutHeldKeeps, RollBackKeeps, TruncateKeeps,
       FillFullKeeps, FillFragmentKeeps, UnlockPendingKeeps, UnlockDoneKeeps, LastFragmentKeeps, DrainKeeps, Zenon
       DEF Main
<1>2. ASSUME NEW d \in FragDeflators, FragDeflator(d) PROVE IInv'
  BY <1>2, FragTakeKeeps, FragCompressKeeps, FragPlaceKeeps, FragHandOverKeeps, FragPutBackKeeps, Zenon DEF FragDeflator
<1>3. CASE Writer
  BY <1>3, WriteKeeps, WriterPutBackKeeps, Zenon DEF Writer
<1>4. CASE UNCHANGED vars
  BY <1>4, StutterKeeps, Zenon
<1> QED BY <1>1, <1>2, <1>3, <1>4 DEF Next

\* The inductive invariant holds in every state that mksquashfs reaches.
THEOREM InductiveInvariant == Spec => []IInv
BY InitInv, NextKeeps, PTL DEF Spec

\* Both caches are consistent in every state: a buffer's use count is the number of
\* those who have it, so that none is reused while somebody looks at it or writes it.
THEOREM AlwaysConsistent == Spec => []Consistent
<1>1. IInv => Consistent
  <2> SUFFICES ASSUME IInv PROVE Consistent
    OBVIOUS
  <2>1. TypeOK
    BY DEF IInv, TypeOK, CacheTypes, MainTypes, HeldBlocks, Files, Table
  <2>2. UseCounts
    BY UsesAre DEF IInv
  <2> QED BY <2>1, <2>2 DEF Consistent
<1> QED BY <1>1, InductiveInvariant, PTL

-----------------------------------------------------------------------------
(* What the lookups find: the second invariant.                            *)

\* The main thread's plans.
Stages == {<<>>, <<"blocks">>, <<"search">>, <<"putback">>, <<"fill">>, <<"unlock">>, <<"unlock", "fill">>,
           <<"fill", "unlock">>, <<"truncate", "unlock">>, <<"unlock", "drain">>, <<"drain">>, <<"drained">>}
          \cup {<<"read", f, "search">> : f \in Nat}
InHand == file.size > 0 /\ (At("blocks") \/ At("search") \/ At("read") \/ At("putback"))
Base == IF InHand THEN file.start ELSE bytes

\* Nothing takes a place while a file with blocks is in hand, and everything else that
\* has one is before the file.
Places ==
  /\ todo \in Stages
  /\ InHand => locked /\ bytes = file.start + Len(blocks)
  /\ ~InHand => Units \subseteq committed
  /\ file.size = 0 => file.thresh = 0
  /\ pins # <<>> => At("search")
  /\ committed \subseteq (0 .. Base - 1) \X ({"block"} \X Nat \X Nat)
  /\ \A f \in DOMAIN fragTable : fragTable[f] < Base

\* What a lookup may ask for: an index, the place and the data.
WantedBlock(u) == <<AtPosition(u[1]), u[1], u[2]>>
WantedFragment(f, p) == <<FragIndex(f), p, FragUnit(f)>>
Wanted == {WantedBlock(u) : u \in committed \cup Units} \cup {WantedFragment(f, fragTable[f]) : f \in DOMAIN fragTable}
Apart == \A v, w \in Wanted : v[2] = w[2] => v = w

\* a is before b in a list that has both.
Before(s, a, b) == \A m, n \in 1 .. Len(s) : s[m] = a /\ s[n] = b => m < n
Newest(c, key, b) == /\ b \in DOMAIN c.buf /\ c.buf[b].index = key
                     /\ \A a \in DOMAIN c.buf \ {b} : c.buf[a].index = key => Before(c.hash, b, a)
Older(c, key, a) == a \in DOMAIN c.buf /\ c.buf[a].index = key /\ ~Newest(c, key, a)

\* The last data sent for a place comes from the newest buffer; the main thread has that
\* buffer; a deflator has it; or the data is on the destination, nothing is on its way
\* there, and what else has the index is used again before the newest buffer is.
For(p) == WriterBuffers \X {p}
Sent(c, q, w) == \E m \in 1 .. Len(q) : /\ q[m] \in For(w[2]) /\ Newest(c, w[1], q[m][1])
                                        /\ \A n \in m + 1 .. Len(q) : q[n] \notin For(w[2])
Kept(c, bl, w) == \E k \in 1 .. Len(bl) : Newest(c, w[1], bl[k])
Placed(c, de, w) == \E d \in FragDeflators : de[d].step = "placed" /\ Newest(c, w[1], de[d].to)
Written(c, q, dk, w) ==
  /\ \A n \in 1 .. Len(q) : q[n] \notin For(w[2])
  /\ w[2] \in DOMAIN dk /\ dk[w[2]] = w[3]
  /\ \A a \in WriterBuffers : Older(c, w[1], a) =>
       /\ c.buf[a].used = 0
       /\ \A b \in WriterBuffers : Newest(c, w[1], b) => Before(c.free, a, b)
Good(c, q, bl, pn, de, dk, w) ==
  /\ \A b \in WriterBuffers : Newest(c, w[1], b) => c.buf[b].data = w[3]
  /\ \A a \in WriterBuffers : Older(c, w[1], a) => a \notin ToSet(pn) \cup ToSet(bl)
  /\ Sent(c, q, w) \/ Kept(c, bl, w) \/ Placed(c, de, w) \/ Written(c, q, dk, w)
AllGood == \A w \in Wanted : Good(writerCache, toWriter, blocks, pins, deflator, disk, w)

\* The blocks held are the newest of their positions.
Holds == InHand => \A k \in 1 .. Len(blocks) :
           blocks[k] # None => Newest(writerCache, AtPosition(file.start + k - 1), blocks[k])

\* What is sent has its place as its buffer's index, or its fragment in the table.
Labelled(c, e, t) == \/ c.buf[e[1]].index = AtPosition(e[2])
                     \/ \E f \in DOMAIN t : c.buf[e[1]].index = FragIndex(f) /\ t[f] = e[2]
Labels ==
  /\ \A m \in 1 .. Len(toWriter) : toWriter[m] # Flush => Labelled(writerCache, toWriter[m], fragTable)
  /\ \A b \in WriterBuffers : leaked[b] > 0 => writerCache.buf[b].index \in FragKeys

\* Each fragment that is closed is in one place: in a queue or a deflator's hand, or it
\* has its entry in the table.
Unplaced == {"taken", "compressed", "deferred"}
Of(c, i) == {b \in DOMAIN c.buf : c.buf[b].index = i}
Hands(de, c, f) == Cardinality({d \in FragDeflators : de[d].step \in Unplaced /\ c.buf[de[d].from].index = f})
Ways(tf, de, pe, t, fc, wc, f) ==
  Sum4(CountIn(tf, Of(fc, f)), Hands(de, fc, f), CountIn(pe, Of(wc, FragIndex(f))), Is(f, DOMAIN t))

\* Its number is the index of one buffer in each cache at most, which has its data; only
\* a buffer that was read too early has not, when the fragment's own is used for another.
Waits(tf, de, fc, f) == \/ \E k \in 1 .. Len(tf) : fc.buf[tf[k]].index = f
                        \/ \E d \in FragDeflators : de[d].step = "taken" /\ fc.buf[de[d].from].index = f
FragBuffers(fc, n, o, sp) ==
  \A a \in FragmentBuffers : fc.buf[a].index # None =>
    /\ fc.buf[a].index \in 0 .. n - 1 \/ (fc.buf[a].index = n /\ o = a)
    /\ \A b \in FragmentBuffers : fc.buf[b].index = fc.buf[a].index => a = b
    /\ fc.buf[a].data = FragUnit(fc.buf[a].index) \/ fc.buf[a].index \in sp
Compressed(wc, n, tf, de, fc) ==
  \A a \in WriterBuffers, f \in Nat : wc.buf[a].index = FragIndex(f) =>
    /\ f < n /\ wc.buf[a].data = FragUnit(f) /\ ~Waits(tf, de, fc, f)
    /\ \A b \in WriterBuffers : wc.buf[b].index = FragIndex(f) => a = b
Pairs(de, fc, wc) ==
  \A d \in FragDeflators : de[d].step \in {"compressed", "deferred", "placed"} =>
    wc.buf[de[d].to].index = FragIndex(fc.buf[de[d].from].index)
Spoiled(sp, n, tf, de, fc) == sp \subseteq 0 .. n - 1 /\ \A f \in sp : ~Waits(tf, de, fc, f)
FragParts(tf, de, pe, t, fc, wc, n, o, sp) ==
  /\ \A f \in 0 .. n - 1 : Ways(tf, de, pe, t, fc, wc, f) = 1
  /\ FragBuffers(fc, n, o, sp) /\ Compressed(wc, n, tf, de, fc) /\ Pairs(de, fc, wc) /\ Spoiled(sp, n, tf, de, fc)
FragInv == FragParts(toFrag, deflator, pending, fragTable, fragmentCache, writerCache, fragments, open, spoiled)

\* The main thread reads a fragment that no buffer has.
Reads == At("read") => /\ todo[2] \in 0 .. fragments - 1
                       /\ \A b \in FragmentBuffers : fragmentCache.buf[b].index # todo[2]

PlaceInv == Places /\ Apart /\ Holds /\ Labels /\ AllGood

-----------------------------------------------------------------------------
(* The order of a list.                                                    *)

LEMMA BeforeRemove ==
  ASSUME NEW T, NEW s \in Seq(T), NEW e, NEW a, NEW b, a # e, b # e
  PROVE  Before(RemoveFirst(s, e), a, b) <=> Before(s, a, b)
<1>1. PICK r : r = RemoveFirst(s, e)
  OBVIOUS
<1>2. CASE r = s
  BY <1>1, <1>2
<1>3. ASSUME NEW i, Removed(s, e, i, r)
      PROVE  Before(r, a, b) <=> Before(s, a, b)
  <2>1. /\ Len(s) \in Nat /\ i \in 1 .. Len(s) /\ s[i] = e /\ Len(r) = Len(s) - 1
        /\ \A k \in 1 .. Len(s) - 1 : r[k] = s[IF k < i THEN k ELSE k + 1]
    BY <1>3 DEF Removed
  <2>2. ASSUME Before(s, a, b), NEW m \in 1 .. Len(r), NEW n \in 1 .. Len(r), r[m] = a, r[n] = b
        PROVE  m < n
    <3>1. PICK x, y \in 1 .. Len(s) : x = (IF m < i THEN m ELSE m + 1) /\ y = (IF n < i THEN n ELSE n + 1)
      BY <2>1
    <3>2. s[x] = a /\ s[y] = b
      BY <2>1, <2>2, <3>1
    <3>3. x < y
      BY <2>2, <3>2 DEF Before
    <3> QED BY <2>1, <3>1, <3>3
  <2>3. ASSUME Before(r, a, b), NEW m \in 1 .. Len(s), NEW n \in 1 .. Len(s), s[m] = a, s[n] = b
        PROVE  m < n
    <3>1. m # i /\ n # i
      BY <2>1, <2>3
    <3>2. PICK x, y \in 1 .. Len(r) : x = (IF m < i THEN m ELSE m - 1) /\ y = (IF n < i THEN n ELSE n - 1)
      BY <2>1, <3>1
    <3>3. (IF x < i THEN x ELSE x + 1) = m /\ (IF y < i THEN y ELSE y + 1) = n
      BY <2>1, <3>1, <3>2
    <3>4. r[x] = a /\ r[y] = b
      BY <2>1, <2>3, <3>3
    <3>5. x < y
      BY <2>3, <3>4 DEF Before
    <3> QED BY <2>1, <3>1, <3>2, <3>5
  <2> QED BY <2>2, <2>3 DEF Before
<1> QED BY <1>1, <1>2, <1>3, RemoveFacts, Zenon

LEMMA BeforePrepend ==
  ASSUME NEW T, NEW s \in Seq(T), NEW e \in T, NEW r, r = <<e>> \o s, NEW a, NEW b, b # e
  PROVE  /\ a # e => (Before(r, a, b) <=> Before(s, a, b))
         /\ a = e /\ e \notin ToSet(s) => Before(r, a, b)
<1>0. PICK d : d = <<e>>
  OBVIOUS
<1>1. d \in Seq(T) /\ Len(d) = 1 /\ d[1] = e
  BY <1>0
<1>2. /\ r \in Seq(T) /\ Len(r) = Len(d) + Len(s) /\ (\A k \in 1 .. Len(d) : r[k] = d[k])
      /\ \A k \in 1 .. Len(s) : r[Len(d) + k] = s[k]
  BY <1>0, <1>1, SMTT(20)
<1>3. Len(s) \in Nat /\ Len(r) = Len(s) + 1 /\ r[1] = e /\ \A k \in 1 .. Len(s) : r[k + 1] = s[k]
  BY <1>1, <1>2
<1>4. ASSUME a # e, Before(r, a, b), NEW m \in 1 .. Len(s), NEW n \in 1 .. Len(s), s[m] = a, s[n] = b
      PROVE  m < n
  <2>1. m + 1 \in 1 .. Len(r) /\ n + 1 \in 1 .. Len(r) /\ r[m + 1] = a /\ r[n + 1] = b
    BY <1>3, <1>4
  <2>2. m + 1 < n + 1
    BY <1>4, <2>1 DEF Before
  <2> QED BY <2>2
<1>5. ASSUME a # e, Before(s, a, b), NEW m \in 1 .. Len(r), NEW n \in 1 .. Len(r), r[m] = a, r[n] = b
      PROVE  m < n
  <2>1. m # 1 /\ n # 1
    BY <1>3, <1>5
  <2>2. PICK x, y \in 1 .. Len(s) : m = x + 1 /\ n = y + 1
    BY <1>3, <2>1
  <2>3. s[x] = a /\ s[y] = b
    BY <1>3, <1>5, <2>2
  <2>4. x < y
    BY <1>5, <2>3 DEF Before
  <2> QED BY <2>2, <2>4
<1>6. ASSUME a = e, e \notin ToSet(s), NEW m \in 1 .. Len(r), NEW n \in 1 .. Len(r), r[m] = a, r[n] = b
      PROVE  m < n
  <2>1. m = 1
    <3>1. SUFFICES ASSUME m # 1 PROVE FALSE
      OBVIOUS
    <3>2. PICK x \in 1 .. Len(s) : m = x + 1
      BY <1>3, <3>1
    <3>3. s[x] = e
      BY <1>3, <1>6, <3>2
    <3> QED BY <1>6, <3>3 DEF ToSet
  <2>2. n # 1
    BY <1>3, <1>6
  <2> QED BY <2>1, <2>2
<1> QED BY <1>4, <1>5, <1>6 DEF Before

LEMMA BeforeAppend ==
  ASSUME NEW T, NEW s \in Seq(T), NEW e \in T
  PROVE  \A a, b : a # e => /\ b # e => (Before(Append(s, e), a, b) <=> Before(s, a, b))
                            /\ b = e /\ e \notin ToSet(s) => Before(Append(s, e), a, b)
<1> SUFFICES ASSUME NEW r, r = Append(s, e), NEW a, NEW b, a # e
             PROVE  /\ b # e => (Before(r, a, b) <=> Before(s, a, b))
                    /\ b = e /\ e \notin ToSet(s) => Before(r, a, b)
  OBVIOUS
<1>1. Len(s) \in Nat /\ Len(r) = Len(s) + 1 /\ r[Len(s) + 1] = e /\ \A k \in 1 .. Len(s) : r[k] = s[k]
  OBVIOUS
<1>2. ASSUME b # e, Before(r, a, b), NEW m \in 1 .. Len(s), NEW n \in 1 .. Len(s), s[m] = a, s[n] = b
      PROVE  m < n
  BY <1>1, <1>2 DEF Before
<1>3. ASSUME b # e, Before(s, a, b), NEW m \in 1 .. Len(r), NEW n \in 1 .. Len(r), r[m] = a, r[n] = b
      PROVE  m < n
  <2>1. m \in 1 .. Len(s) /\ n \in 1 .. Len(s)
    BY <1>1, <1>3
  <2>2. s[m] = a /\ s[n] = b
    BY <1>1, <1>3, <2>1
  <2> QED BY <1>3, <2>1, <2>2 DEF Before
<1>4. ASSUME b = e, e \notin ToSet(s), NEW m \in 1 .. Len(r), NEW n \in 1 .. Len(r), r[m] = a, r[n] = b
      PROVE  m < n
  <2>1. m \in 1 .. Len(s)
    BY <1>1, <1>4
  <2>2. n = Len(s) + 1
    <3>1. SUFFICES ASSUME n \in 1 .. Len(s) PROVE FALSE
      BY <1>1
    <3>2. s[n] = e
      BY <1>1, <1>4, <3>1
    <3> QED BY <1>4, <3>1, <3>2 DEF ToSet
  <2> QED BY <1>1, <2>1, <2>2
<1> QED BY <1>2, <1>3, <1>4 DEF Before

-----------------------------------------------------------------------------
(* The newest buffer of an index, as a cache changes.                      *)

\* In a list of distinct elements, of two of them one is before the other.
LEMMA BeforeOne ==
  ASSUME NEW T, NEW s \in Seq(T), Distinct(s), NEW a, NEW b, a \in ToSet(s), b \in ToSet(s)
  PROVE  /\ Before(s, a, b) /\ Before(s, b, a) => FALSE
         /\ a # b => Before(s, a, b) \/ Before(s, b, a)
<1>1. PICK m, n \in 1 .. Len(s) : s[m] = a /\ s[n] = b
  BY DEF ToSet
<1>2. ASSUME Before(s, a, b), Before(s, b, a) PROVE FALSE
  BY <1>1, <1>2 DEF Before
<1>3. ASSUME a # b PROVE Before(s, a, b) \/ Before(s, b, a)
  <2>1. \A x, y \in 1 .. Len(s) : (s[x] = a => x = m) /\ (s[y] = b => y = n)
    BY <1>1 DEF Distinct
  <2>2. m < n \/ n < m
    BY <1>1, <1>3
  <2> QED BY <2>1, <2>2 DEF Before
<1> QED BY <1>2, <1>3

\* cache_lookup finds the newest, if there is one.
LEMMA NewestFacts ==
  ASSUME NEW B, NEW I, NEW c \in Caches(B, I), CacheOK(c), NEW key, key # None
  PROVE  /\ \A a : Newest(c, key, a) => a \in B /\ c.buf[a].index = key /\ Found(c, key) /\ Find(c, key) = a
         /\ \A a \in B : c.buf[a].index = key => Found(c, key)
         /\ Found(c, key) => Newest(c, key, Find(c, key))
         /\ \A a : Older(c, key, a) => a \in B /\ c.buf[a].index = key
<1>1. /\ c.hash \in Seq(B) /\ Distinct(c.hash) /\ DOMAIN c.buf = B
      /\ \A a \in B : a \in ToSet(c.hash) <=> c.buf[a].index # None
  BY CacheIs
<1>2. ASSUME NEW a \in B, c.buf[a].index = key PROVE Found(c, key)
  <2>1. PICK k \in 1 .. Len(c.hash) : c.hash[k] = a
    BY <1>1, <1>2 DEF ToSet
  <2> QED BY <1>2, <2>1 DEF Found, Matches
<1>3. ASSUME Found(c, key) PROVE Newest(c, key, Find(c, key))
  <2>1. PICK M : M = Matches(c, key)
    OBVIOUS
  <2>2. M \in SUBSET Nat /\ M # {}
    BY <1>1, <1>3, <2>1 DEF Matches, Found
  <2>3. \E n \in M : \A m \in M : n <= m
    BY <2>2, NatLeast
  <2>4. PICK k : k = Min(M) /\ k \in M /\ \A m \in M : k <= m
    BY <2>3 DEF Min
  <2>5. k \in 1 .. Len(c.hash) /\ c.buf[c.hash[k]].index = key /\ Find(c, key) = c.hash[k] /\ c.hash[k] \in B
    <3>1. Find(c, key) = c.hash[k]
      BY <2>1, <2>4 DEF Find
    <3>2. k \in 1 .. Len(c.hash) /\ c.buf[c.hash[k]].index = key
      BY <2>1, <2>4 DEF Matches
    <3> QED BY <1>1, <3>1, <3>2
  <2>6. ASSUME NEW a \in B \ {c.hash[k]}, c.buf[a].index = key PROVE Before(c.hash, c.hash[k], a)
    <3>1. SUFFICES ASSUME NEW m \in 1 .. Len(c.hash), NEW n \in 1 .. Len(c.hash), c.hash[m] = c.hash[k], c.hash[n] = a
                   PROVE  m < n
      BY DEF Before
    <3>2. m = k /\ n # k
      BY <1>1, <2>5, <2>6, <3>1 DEF Distinct
    <3>3. n \in M
      BY <2>1, <2>6, <3>1 DEF Matches
    <3> QED BY <2>2, <2>4, <3>2, <3>3
  <2> QED BY <1>1, <2>5, <2>6 DEF Newest
<1>4. ASSUME NEW a, Newest(c, key, a), NEW b, Newest(c, key, b) PROVE a = b
  <2>1. a \in B /\ b \in B /\ a \in ToSet(c.hash) /\ b \in ToSet(c.hash)
    BY <1>1, <1>4 DEF Newest
  <2>2. a # b => Before(c.hash, a, b) /\ Before(c.hash, b, a)
    BY <1>1, <1>4 DEF Newest
  <2> QED BY <1>1, <2>1, <2>2, BeforeOne, Zenon
<1>5. ASSUME NEW a, Newest(c, key, a) PROVE a \in B /\ c.buf[a].index = key /\ Found(c, key) /\ Find(c, key) = a
  <2>1. a \in B /\ c.buf[a].index = key
    BY <1>1, <1>5 DEF Newest
  <2>2. Found(c, key)
    BY <1>2, <2>1
  <2> QED BY <1>3, <1>4, <1>5, <2>1, <2>2, Zenon
<1>6. \A a : Older(c, key, a) => a \in B /\ c.buf[a].index = key
  BY <1>1 DEF Older
<1> QED BY <1>2, <1>3, <1>5, <1>6, Zenon

\* A buffer that is taken is the newest of its new index, and leaves the old: if it was
\* the newest there, there was no other.
LEMMA FreshIs ==
  ASSUME NEW B, NEW I, None \notin I, NEW c \in Caches(B, I), CacheOK(c), NEW b \in B, NEW i \in I, NEW x \in Datas
  PROVE  LET n == Fresh(c, b, i, x)
         IN  /\ n \in Caches(B, I) /\ CacheOK(n) /\ Newest(n, i, b)
             /\ n.buf[b].index = i /\ n.buf[b].data = x /\ n.buf[b].used = 1 /\ \A a \in B \ {b} : n.buf[a] = c.buf[a]
             /\ \A a, d \in B \ {b} : /\ Before(n.hash, a, d) <=> Before(c.hash, a, d)
                                      /\ Before(n.free, a, d) <=> Before(c.free, a, d)
<1>1. PICK n : n = Fresh(c, b, i, x)
  OBVIOUS
<1>2. n \in Caches(B, I) /\ CacheOK(n)
  BY <1>1, FreshFacts, Zenon
<1>3. /\ c.hash \in Seq(B) /\ Distinct(c.hash) /\ c.free \in Seq(B)
      /\ c.buf \in [B -> [used : Nat, index : I \cup {None}, data : Datas]] /\ DOMAIN n.buf = B
  BY <1>2, CacheIs
<1>4. /\ n.buf = [c.buf EXCEPT ![b] = [used |-> 1, index |-> i, data |-> x]]
      /\ n.hash = <<b>> \o RemoveFirst(c.hash, b) /\ n.free = RemoveFirst(c.free, b)
  BY <1>1 DEF Fresh
<1>5. n.buf[b].index = i /\ n.buf[b].data = x /\ n.buf[b].used = 1 /\ \A a \in B \ {b} : n.buf[a] = c.buf[a]
  BY <1>3, <1>4
<1>6. PICK g : g = RemoveFirst(c.hash, b)
  OBVIOUS
<1>7. g \in Seq(B) /\ b \notin ToSet(g)
  BY <1>3, <1>6, RemoveDistinct
<1>8. \A a \in B \ {b} : Before(n.hash, b, a)
  <2>1. n.hash = <<b>> \o g
    BY <1>4, <1>6
  <2> QED BY <1>7, <2>1, BeforePrepend
<1>9. ASSUME NEW a \in B \ {b}, NEW d \in B \ {b}
      PROVE  /\ Before(n.hash, a, d) <=> Before(c.hash, a, d)
             /\ Before(n.free, a, d) <=> Before(c.free, a, d)
  <2>1. n.hash = <<b>> \o g
    BY <1>4, <1>6
  <2>2. Before(n.hash, a, d) <=> Before(g, a, d)
    BY <1>7, <1>9, <2>1, BeforePrepend
  <2>3. Before(g, a, d) <=> Before(c.hash, a, d)
    BY <1>3, <1>6, <1>9, BeforeRemove
  <2>4. Before(n.free, a, d) <=> Before(c.free, a, d)
    BY <1>3, <1>4, <1>9, BeforeRemove
  <2> QED BY <2>2, <2>3, <2>4
<1>10. Newest(n, i, b)
  BY <1>3, <1>5, <1>8 DEF Newest
<1> QED BY <1>1, <1>2, <1>5, <1>9, <1>10, Zenon

LEMMA FreshKeeps ==
  ASSUME NEW B, NEW I, None \notin I, NEW c \in Caches(B, I), CacheOK(c), NEW b \in B, NEW i \in I, NEW x \in Datas,
         NEW key \in I, key # i, Newest(c, key, b) => \A a : ~Older(c, key, a), NEW n, n = Fresh(c, b, i, x)
  PROVE  /\ \A a : Newest(n, key, a) <=> Newest(c, key, a) /\ a # b
         /\ \A a : Older(n, key, a) => Older(c, key, a) /\ a # b
<1>1. /\ n \in Caches(B, I) /\ CacheOK(n) /\ n.buf[b].index = i /\ \A a \in B \ {b} : n.buf[a] = c.buf[a]
      /\ \A a, d \in B \ {b} : Before(n.hash, a, d) <=> Before(c.hash, a, d)
  BY FreshIs
<1>2. DOMAIN n.buf = B /\ DOMAIN c.buf = B /\ key # None
  BY <1>1, CacheIs
<1>3. ASSUME NEW a, Newest(c, key, a), a # b PROVE Newest(n, key, a)
  <2>1. a \in B /\ c.buf[a].index = key /\ \A d \in B \ {a} : c.buf[d].index = key => Before(c.hash, a, d)
    BY <1>2, <1>3 DEF Newest
  <2>2. n.buf[a].index = key
    BY <1>1, <1>3, <2>1
  <2>3. \A d \in B \ {a} : n.buf[d].index = key => Before(n.hash, a, d)
    <3>1. SUFFICES ASSUME NEW d \in B \ {a}, n.buf[d].index = key PROVE Before(n.hash, a, d)
      OBVIOUS
    <3>2. d # b /\ c.buf[d].index = key
      BY <1>1, <3>1
    <3> QED BY <1>1, <1>3, <2>1, <3>2
  <2> QED BY <1>2, <2>1, <2>2, <2>3 DEF Newest
<1>4. ASSUME NEW a, Newest(n, key, a) PROVE Newest(c, key, a) /\ a # b
  <2>1. a \in B /\ n.buf[a].index = key
    BY <1>2, <1>4 DEF Newest
  <2>2. a # b /\ c.buf[a].index = key
    BY <1>1, <2>1
  <2>3. Found(c, key) /\ Newest(c, key, Find(c, key))
    BY <1>2, <2>1, <2>2, NewestFacts
  <2>4. Find(c, key) # b
    <3>1. SUFFICES ASSUME Newest(c, key, b) PROVE FALSE
      BY <2>3
    <3>2. Newest(c, key, a)
      BY <1>2, <2>1, <2>2, <3>1 DEF Older
    <3>3. a = b
      BY <1>2, <3>1, <3>2, NewestFacts
    <3> QED BY <2>2, <3>3
  <2>5. Newest(n, key, Find(c, key))
    BY <1>3, <2>3, <2>4
  <2>6. a = Find(c, key)
    BY <1>1, <1>2, <1>4, <2>5, NewestFacts
  <2> QED BY <2>2, <2>3, <2>6
<1>5. ASSUME NEW a, Older(n, key, a) PROVE Older(c, key, a) /\ a # b
  <2>1. a \in B /\ n.buf[a].index = key /\ ~Newest(n, key, a)
    BY <1>2, <1>5 DEF Older
  <2>2. a # b /\ c.buf[a].index = key
    BY <1>1, <2>1
  <2> QED BY <1>2, <1>3, <2>1, <2>2 DEF Older
<1> QED BY <1>3, <1>4, <1>5

\* What is used again next is the oldest of the free list.
LEMMA NextFreeFirst ==
  ASSUME NEW B, NEW I, NEW c \in Caches(B, I), CacheOK(c), CanGet(c), c.buf[NextFree(c)].index # None
  PROVE  \A a \in B : c.buf[a].index # None /\ c.buf[a].used = 0 => ~Before(c.free, a, NextFree(c))
<1>1. /\ c.free \in Seq(B) /\ DOMAIN c.buf = B
      /\ \A a \in B : a \in ToSet(c.free) <=> c.buf[a].index # None /\ c.buf[a].used = 0
  BY CacheIs
<1>2. c.free # <<>>
  <2>1. SUFFICES ASSUME c.free = <<>> PROVE FALSE
    OBVIOUS
  <2>2. \E b \in DOMAIN c.buf : ~Allocated(c, b)
    BY <2>1 DEF CanGet
  <2>3. ~Allocated(c, NextFree(c))
    BY <2>1, <2>2 DEF NextFree
  <2> QED BY <2>3 DEF Allocated
<1>3. PICK s : s = c.free
  OBVIOUS
<1>4. Head(s) = s[1] /\ 1 \in 1 .. Len(s) /\ NextFree(c) = Head(s)
  BY <1>1, <1>2, <1>3 DEF NextFree
<1>5. ASSUME NEW a \in B, c.buf[a].index # None, c.buf[a].used = 0, Before(s, a, NextFree(c)) PROVE FALSE
  <2>1. PICK m \in 1 .. Len(s) : s[m] = a
    BY <1>1, <1>3, <1>5 DEF ToSet
  <2>2. m < 1
    BY <1>4, <1>5, <2>1 DEF Before
  <2> QED BY <2>2
<1> QED BY <1>3, <1>5

\* One use of e more or less leaves the hash, and puts e behind all others if it is free.
Reused(c, n, e) ==
  /\ n.hash = c.hash /\ DOMAIN n.buf = DOMAIN c.buf
  /\ \A a \in DOMAIN c.buf : /\ n.buf[a].index = c.buf[a].index
                             /\ c.buf[a].index # None => n.buf[a].data = c.buf[a].data
                             /\ a # e => n.buf[a].used = c.buf[a].used
  /\ \A a, d \in DOMAIN c.buf : a # e => (Before(n.free, a, d) <=> d = e \/ Before(c.free, a, d))

LEMMA LookupReuses ==
  ASSUME NEW B, NEW I, None \notin I, NEW c \in Caches(B, I), CacheOK(c), NEW b \in B, c.buf[b].index # None
  PROVE  Reused(c, Lookup(c, b), b)
<1>1. /\ c.buf \in Buffers(B, I) /\ c.hash \in Seq(B) /\ c.free \in Seq(B) /\ Distinct(c.free)
      /\ c = [buf |-> c.buf, hash |-> c.hash, free |-> c.free] /\ DOMAIN c.buf = B
  BY CacheIs DEF Buffers
<1>2. PICK u : u = [c.buf EXCEPT ![b].used = @ + 1]
  OBVIOUS
<1>3. PICK f : f = RemoveFirst(c.free, b)
  OBVIOUS
<1>4. PICK n : n = Lookup(c, b)
  OBVIOUS
<1>5. n.buf = u /\ n.hash = c.hash /\ n.free = f
  BY <1>1, <1>2, <1>3, <1>4 DEF Lookup
<1>6. /\ DOMAIN u = B
      /\ \A a \in B : /\ u[a].index = c.buf[a].index /\ u[a].data = c.buf[a].data
                      /\ a # b => u[a].used = c.buf[a].used
  BY <1>1, <1>2 DEF Buffers
<1>7. ASSUME NEW a \in B, NEW d \in B, a # b PROVE Before(f, a, d) <=> d = b \/ Before(c.free, a, d)
  <2>1. CASE d = b
    <3>1. f \in Seq(B) /\ b \notin ToSet(f)
      BY <1>1, <1>3, RemoveDistinct
    <3>2. \A k \in 1 .. Len(f) : f[k] # b
      BY <3>1 DEF ToSet
    <3> QED BY <2>1, <3>2 DEF Before
  <2>2. CASE d # b
    BY <1>1, <1>3, <1>7, <2>2, BeforeRemove
  <2> QED BY <2>1, <2>2
<1> QED BY <1>1, <1>4, <1>5, <1>6, <1>7 DEF Reused

LEMMA PutReuses ==
  ASSUME NEW B, NEW I, None \notin I, NEW c \in Caches(B, I), CacheOK(c), NEW b \in B, c.buf[b].used > 0
  PROVE  Reused(c, Put(c, b), b)
<1>1. /\ c.buf \in Buffers(B, I) /\ c.hash \in Seq(B) /\ c.free \in Seq(B) /\ Distinct(c.free)
      /\ c = [buf |-> c.buf, hash |-> c.hash, free |-> c.free] /\ DOMAIN c.buf = B
      /\ \A a \in B : a \in ToSet(c.free) <=> c.buf[a].index # None /\ c.buf[a].used = 0
  BY CacheIs DEF Buffers
<1>2. b \notin ToSet(c.free)
  BY <1>1
<1>3. PICK n : n = Put(c, b)
  OBVIOUS
<1>4. \A a \in B : Before(c.free, a, b)
  <2>1. \A k \in 1 .. Len(c.free) : c.free[k] # b
    BY <1>1, <1>2 DEF ToSet
  <2> QED BY <2>1 DEF Before
<1>5. CASE c.buf[b].used > 1
  <2>1. PICK u : u = [c.buf EXCEPT ![b].used = @ - 1]
    OBVIOUS
  <2>2. n.buf = u /\ n.hash = c.hash /\ n.free = c.free
    BY <1>1, <1>3, <1>5, <2>1 DEF Put
  <2>3. /\ DOMAIN u = B
        /\ \A a \in B : /\ u[a].index = c.buf[a].index /\ u[a].data = c.buf[a].data
                        /\ a # b => u[a].used = c.buf[a].used
    BY <1>1, <2>1 DEF Buffers
  <2> QED BY <1>1, <1>3, <1>4, <2>2, <2>3 DEF Reused
<1>6. CASE ~(c.buf[b].used > 1) /\ c.buf[b].index # None
  <2>1. PICK u : u = [c.buf EXCEPT ![b].used = 0]
    OBVIOUS
  <2>2. PICK f : f = Append(c.free, b)
    OBVIOUS
  <2>3. n.buf = u /\ n.hash = c.hash /\ n.free = f
    <3>1. Put(c, b) = [c EXCEPT !.buf[b].used = 0, !.free = Append(@, b)]
      BY <1>6 DEF Put
    <3> QED BY <1>1, <1>3, <2>1, <2>2, <3>1
  <2>4. /\ DOMAIN u = B
        /\ \A a \in B : /\ u[a].index = c.buf[a].index /\ u[a].data = c.buf[a].data
                        /\ a # b => u[a].used = c.buf[a].used
    BY <1>1, <2>1 DEF Buffers
  <2>5. \A a, d \in B : a # b => (Before(f, a, d) <=> d = b \/ Before(c.free, a, d))
    <3>1. SUFFICES ASSUME NEW a \in B, NEW d \in B, a # b PROVE Before(f, a, d) <=> d = b \/ Before(c.free, a, d)
      OBVIOUS
    <3>2. d # b => (Before(f, a, d) <=> Before(c.free, a, d))
      BY <1>1, <2>2, <3>1, BeforeAppend
    <3>3. Before(f, a, b)
      BY <1>1, <1>2, <2>2, <3>1, BeforeAppend
    <3> QED BY <3>2, <3>3
  <2> QED BY <1>1, <1>3, <2>3, <2>4, <2>5 DEF Reused
<1>7. CASE ~(c.buf[b].used > 1) /\ c.buf[b].index = None
  <2>1. PICK u : u = [c.buf EXCEPT ![b] = Unallocated]
    OBVIOUS
  <2>2. n.buf = u /\ n.hash = c.hash /\ n.free = c.free
    BY <1>1, <1>3, <1>7, <2>1 DEF Put
  <2>3. /\ DOMAIN u = B
        /\ \A a \in B : /\ u[a].index = c.buf[a].index
                        /\ c.buf[a].index # None => u[a].data = c.buf[a].data
                        /\ a # b => u[a].used = c.buf[a].used
    BY <1>1, <1>7, <2>1 DEF Buffers, Unallocated
  <2> QED BY <1>1, <1>3, <1>4, <2>2, <2>3 DEF Reused
<1> QED BY <1>5, <1>6, <1>7

LEMMA ReusedNewest ==
  ASSUME NEW c, NEW n, NEW e, Reused(c, n, e), NEW key
  PROVE  \A a : (Newest(n, key, a) <=> Newest(c, key, a)) /\ (Older(n, key, a) <=> Older(c, key, a))
<1>1. /\ n.hash = c.hash /\ DOMAIN n.buf = DOMAIN c.buf
      /\ \A a \in DOMAIN c.buf : n.buf[a].index = c.buf[a].index
  BY DEF Reused
<1>2. \A a : Newest(n, key, a) <=> Newest(c, key, a)
  BY <1>1 DEF Newest
<1> QED BY <1>1, <1>2 DEF Older

-----------------------------------------------------------------------------
(* What keeps a wanted place Good.                                         *)

WriterIs(c) == c \in Caches(WriterBuffers, WriterIndexes) /\ CacheOK(c)
Want(w) == w[1] \in WriterIndexes /\ w[2] \in Nat
InUse(c, q, bl, de) ==
  /\ \A m \in 1 .. Len(q) : q[m] \in WriterBuffers \X Nat => c.buf[q[m][1]].used > 0
  /\ \A k \in 1 .. Len(bl) : bl[k] \in WriterBuffers => c.buf[bl[k]].used > 0
  /\ \A d \in FragDeflators : de[d].step = "placed" => c.buf[de[d].to].used > 0

LEMMA WantedNewest ==
  ASSUME NEW c, WriterIs(c), NEW w, Want(w)
  PROVE  /\ w[1] # None
         /\ \A a : Newest(c, w[1], a) => a \in WriterBuffers /\ c.buf[a].index = w[1]
         /\ \A a : Older(c, w[1], a) => a \in WriterBuffers /\ c.buf[a].index = w[1] /\ ~Newest(c, w[1], a)
         /\ \A a, b : Newest(c, w[1], a) /\ Newest(c, w[1], b) => a = b
<1>1. w[1] # None
  BY NoneIsNone DEF Want
<1>2. /\ \A a : Newest(c, w[1], a) => a \in WriterBuffers /\ c.buf[a].index = w[1] /\ Find(c, w[1]) = a
      /\ \A a : Older(c, w[1], a) => a \in WriterBuffers /\ c.buf[a].index = w[1]
  <2>1. c \in Caches(WriterBuffers, WriterIndexes) /\ CacheOK(c)
    BY DEF WriterIs
  <2>2. PICK key : key = w[1]
    OBVIOUS
  <2>3. /\ \A a : Newest(c, key, a) => a \in WriterBuffers /\ c.buf[a].index = key /\ Find(c, key) = a
        /\ \A a : Older(c, key, a) => a \in WriterBuffers /\ c.buf[a].index = key
    BY <1>1, <2>1, <2>2, NewestFacts
  <2> QED BY <2>2, <2>3
<1>3. \A a : Older(c, w[1], a) => ~Newest(c, w[1], a)
  BY DEF Older
<1>4. \A a, b : Newest(c, w[1], a) /\ Newest(c, w[1], b) => a = b
  BY <1>2
<1> QED BY <1>1, <1>2, <1>3, <1>4, Zenon

\* A lookup of the newest of an index, or the end of a use.
LEMMA GoodReused ==
  ASSUME NEW c, WriterIs(c), NEW n, NEW e, Reused(c, n, e), NEW w, Want(w),
         NEW q, NEW bl, NEW pn, NEW de, NEW dk, Good(c, q, bl, pn, de, dk, w), Older(c, w[1], e) => c.buf[e].used # 0
  PROVE  Good(n, q, bl, pn, de, dk, w)
<1>1. \A a : (Newest(n, w[1], a) <=> Newest(c, w[1], a)) /\ (Older(n, w[1], a) <=> Older(c, w[1], a))
  BY ReusedNewest
<1>2. /\ DOMAIN c.buf = WriterBuffers /\ w[1] # None
      /\ \A a : Newest(c, w[1], a) => a \in WriterBuffers /\ c.buf[a].index = w[1]
  BY WantedNewest, CacheIs DEF WriterIs
<1>3. \A b \in WriterBuffers : Newest(n, w[1], b) => n.buf[b].data = w[3]
  BY <1>1, <1>2 DEF Reused, Good
<1>4. Sent(c, q, w) => Sent(n, q, w)
  BY <1>1 DEF Sent
<1>5. Kept(c, bl, w) => Kept(n, bl, w)
  BY <1>1 DEF Kept
<1>6. Placed(c, de, w) => Placed(n, de, w)
  BY <1>1 DEF Placed
<1>7. ASSUME Written(c, q, dk, w) PROVE Written(n, q, dk, w)
  <2>1. ASSUME NEW a \in WriterBuffers, Older(n, w[1], a)
        PROVE  n.buf[a].used = 0 /\ \A b \in WriterBuffers : Newest(n, w[1], b) => Before(n.free, a, b)
    <3>1. Older(c, w[1], a)
      BY <1>1, <2>1
    <3>2. c.buf[a].used = 0 /\ \A b \in WriterBuffers : Newest(c, w[1], b) => Before(c.free, a, b)
      BY <1>7, <3>1 DEF Written
    <3>3. a # e
      BY <3>1, <3>2
    <3>4. n.buf[a].used = 0
      BY <1>2, <3>2, <3>3 DEF Reused
    <3>5. ASSUME NEW b \in WriterBuffers, Newest(n, w[1], b) PROVE Before(n.free, a, b)
      BY <1>1, <1>2, <3>2, <3>3, <3>5 DEF Reused
    <3> QED BY <3>4, <3>5
  <2> QED BY <1>7, <2>1 DEF Written
<1> QED BY <1>1, <1>3, <1>4, <1>5, <1>6, <1>7 DEF Good

\* A buffer is taken for another index.
LEMMA GoodFresh ==
  ASSUME NEW c, WriterIs(c), CanGet(c), NEW b, b = NextFree(c), NEW i \in WriterIndexes, NEW x \in Datas,
         NEW n, n = Fresh(c, b, i, x), NEW w, Want(w), w[1] # i,
         NEW q, NEW bl, NEW pn, NEW de, NEW dk, Good(c, q, bl, pn, de, dk, w), InUse(c, q, bl, de)
  PROVE  Good(n, q, bl, pn, de, dk, w)
<1>1. /\ w[1] # None
      /\ \A a : Newest(c, w[1], a) => a \in WriterBuffers /\ c.buf[a].index = w[1]
      /\ \A a : Older(c, w[1], a) => a \in WriterBuffers /\ c.buf[a].index = w[1]
  BY WantedNewest
<1>2. b \in WriterBuffers /\ c.buf[b].used = 0
  BY NextFreeFacts DEF WriterIs
<1>3. /\ \A a \in WriterBuffers \ {b} : n.buf[a] = c.buf[a]
      /\ \A a, d \in WriterBuffers \ {b} : Before(n.free, a, d) <=> Before(c.free, a, d)
  BY <1>2, FreshIs, NoneIsNone DEF WriterIs
<1>4. ASSUME Sent(c, q, w) PROVE \E m \in 1 .. Len(q) : /\ q[m] \in For(w[2]) /\ Newest(c, w[1], q[m][1]) /\ q[m][1] # b
                                                        /\ \A k \in m + 1 .. Len(q) : q[k] \notin For(w[2])
  <2>1. PICK m \in 1 .. Len(q) : /\ q[m] \in For(w[2]) /\ Newest(c, w[1], q[m][1])
                                 /\ \A k \in m + 1 .. Len(q) : q[k] \notin For(w[2])
    BY <1>4 DEF Sent
  <2>2. q[m] \in WriterBuffers \X Nat
    BY <2>1 DEF For, Want
  <2>3. c.buf[q[m][1]].used > 0
    BY <2>2 DEF InUse
  <2> QED BY <1>2, <2>1, <2>3
<1>5. ASSUME Kept(c, bl, w) PROVE \E k \in 1 .. Len(bl) : Newest(c, w[1], bl[k]) /\ bl[k] # b
  <2>1. PICK k \in 1 .. Len(bl) : Newest(c, w[1], bl[k])
    BY <1>5 DEF Kept
  <2>2. c.buf[bl[k]].used > 0
    BY <1>1, <2>1 DEF InUse
  <2> QED BY <1>2, <2>1, <2>2
<1>6. ASSUME Placed(c, de, w) PROVE \E d \in FragDeflators : de[d].step = "placed" /\ Newest(c, w[1], de[d].to) /\ de[d].to # b
  <2>1. PICK d \in FragDeflators : de[d].step = "placed" /\ Newest(c, w[1], de[d].to)
    BY <1>6 DEF Placed
  <2>2. c.buf[de[d].to].used > 0
    BY <2>1 DEF InUse
  <2> QED BY <1>2, <2>1, <2>2
<1>7. ASSUME Newest(c, w[1], b), NEW a, Older(c, w[1], a) PROVE FALSE
  <2>1. Written(c, q, dk, w)
    BY <1>4, <1>5, <1>6, <1>7, WantedNewest, Zenon DEF Good
  <2>2. a \in WriterBuffers /\ c.buf[a].index # None /\ c.buf[b].index # None
    BY <1>1, <1>7
  <2>3. c.buf[a].used = 0 /\ Before(c.free, a, b)
    BY <1>2, <1>7, <2>1, <2>2 DEF Written
  <2> QED BY <2>2, <2>3, NextFreeFirst DEF WriterIs
<1>8. /\ \A a : Newest(n, w[1], a) <=> Newest(c, w[1], a) /\ a # b
      /\ \A a : Older(n, w[1], a) => Older(c, w[1], a) /\ a # b
  <2>1. Newest(c, w[1], b) => \A a : ~Older(c, w[1], a)
    BY <1>7
  <2> QED BY <1>2, <2>1, FreshKeeps, NoneIsNone DEF WriterIs, Want
<1>9. \A a \in WriterBuffers : Newest(n, w[1], a) => n.buf[a].data = w[3]
  BY <1>3, <1>8 DEF Good
<1>10. Sent(c, q, w) => Sent(n, q, w)
  BY <1>4, <1>8, Zenon DEF Sent
<1>11. Kept(c, bl, w) => Kept(n, bl, w)
  BY <1>5, <1>8, Zenon DEF Kept
<1>12. Placed(c, de, w) => Placed(n, de, w)
  BY <1>6, <1>8, Zenon DEF Placed
<1>13. ASSUME Written(c, q, dk, w) PROVE Written(n, q, dk, w)
  <2>1. ASSUME NEW a \in WriterBuffers, Older(n, w[1], a)
        PROVE  n.buf[a].used = 0 /\ \A d \in WriterBuffers : Newest(n, w[1], d) => Before(n.free, a, d)
    <3>1. Older(c, w[1], a) /\ a # b
      BY <1>8, <2>1
    <3>2. c.buf[a].used = 0 /\ \A d \in WriterBuffers : Newest(c, w[1], d) => Before(c.free, a, d)
      BY <1>13, <3>1 DEF Written
    <3> QED BY <1>3, <1>8, <3>1, <3>2
  <2> QED BY <1>13, <2>1 DEF Written
<1> QED BY <1>8, <1>9, <1>10, <1>11, <1>12, <1>13 DEF Good

\* One more message for another place.
LEMMA GoodAppend ==
  ASSUME NEW T, NEW q \in Seq(T), NEW e \in T, NEW w, e \notin For(w[2]), NEW r, r = Append(q, e),
         NEW c, NEW bl, NEW pn, NEW de, NEW dk, Good(c, q, bl, pn, de, dk, w)
  PROVE  Good(c, r, bl, pn, de, dk, w)
<1>1. Len(q) \in Nat /\ Len(r) = Len(q) + 1 /\ r[Len(q) + 1] = e /\ \A k \in 1 .. Len(q) : r[k] = q[k]
  OBVIOUS
<1>2. ASSUME Sent(c, q, w) PROVE Sent(c, r, w)
  <2>1. PICK m \in 1 .. Len(q) : /\ q[m] \in For(w[2]) /\ Newest(c, w[1], q[m][1])
                                 /\ \A n \in m + 1 .. Len(q) : q[n] \notin For(w[2])
    BY <1>2 DEF Sent
  <2>2. m \in 1 .. Len(r) /\ r[m] = q[m]
    BY <1>1
  <2>3. ASSUME NEW n \in m + 1 .. Len(r) PROVE r[n] \notin For(w[2])
    <3>1. CASE n = Len(q) + 1
      BY <1>1, <3>1
    <3>2. CASE n # Len(q) + 1
      <4>1. n \in m + 1 .. Len(q) /\ n \in 1 .. Len(q)
        BY <1>1, <3>2
      <4> QED BY <1>1, <2>1, <4>1
    <3> QED BY <3>1, <3>2
  <2> QED BY <2>1, <2>2, <2>3 DEF Sent
<1>3. ASSUME Written(c, q, dk, w) PROVE Written(c, r, dk, w)
  <2>1. ASSUME NEW n \in 1 .. Len(r) PROVE r[n] \notin For(w[2])
    <3>1. CASE n = Len(q) + 1
      BY <1>1, <3>1
    <3>2. CASE n # Len(q) + 1
      <4>1. n \in 1 .. Len(q)
        BY <1>1, <3>2
      <4> QED BY <1>1, <1>3, <4>1 DEF Written
    <3> QED BY <3>1, <3>2
  <2> QED BY <1>3, <2>1 DEF Written
<1> QED BY <1>2, <1>3 DEF Good

-----------------------------------------------------------------------------
(* Where a fragment is.                                                    *)

LEMMA CountPositive ==
  ASSUME NEW T, NEW s \in Seq(T), NEW S
  PROVE  CountIn(s, S) \in Nat /\ (CountIn(s, S) > 0 <=> \E k \in 1 .. Len(s) : s[k] \in S)
<1> DEFINE A == {k \in 1 .. Len(s) : s[k] \in S}
<1>1. IsFiniteSet(A) /\ Cardinality(A) \in Nat /\ CountIn(s, S) = Cardinality(A)
  BY CountType DEF CountIn
<1>2. Cardinality(A) = 0 <=> A = {}
  BY <1>1, FS_EmptySet
<1> QED BY <1>1, <1>2

\* Of a deflator in state r, the fragments in its hand.
Has(r, c, f) == IF r.step \in Unplaced /\ c.buf[r.from].index = f THEN 1 ELSE 0

LEMMA HandsFacts ==
  ASSUME NEW de, NEW c, NEW f
  PROVE  /\ Hands(de, c, f) \in Nat
         /\ Hands(de, c, f) > 0 <=> \E d \in FragDeflators : de[d].step \in Unplaced /\ c.buf[de[d].from].index = f
<1> DEFINE A == {d \in FragDeflators : de[d].step \in Unplaced /\ c.buf[de[d].from].index = f}
<1>1. IsFiniteSet(A)
  BY FS_Subset, DuplicateSearchAssumption
<1>2. Cardinality(A) \in Nat /\ (Cardinality(A) = 0 <=> A = {})
  BY <1>1, FS_EmptySet, FS_CardinalityType
<1> QED BY <1>2 DEF Hands

LessMore(m, less, n, more) == m + less = n + more /\ m \in Nat /\ less \in Nat /\ n \in Nat /\ more \in Nat
LEMMA HandsNow ==
  ASSUME NEW de \in [FragDeflators -> Deflators], NEW x \in FragDeflators, NEW r, NEW d2, d2 = [de EXCEPT ![x] = r],
         NEW c, NEW f
  PROVE  LessMore(Hands(d2, c, f), Has(de[x], c, f), Hands(de, c, f), Has(r, c, f))
<1> DEFINE F == {d \in FragDeflators : d2[d].step \in Unplaced /\ c.buf[d2[d].from].index = f}
           G == {d \in FragDeflators : de[d].step \in Unplaced /\ c.buf[de[d].from].index = f}
<1>1. d2[x] = r /\ \A d \in FragDeflators : d # x => d2[d] = de[d]
  OBVIOUS
<1>2. IsFiniteSet(F) /\ IsFiniteSet(G)
  BY FS_Subset, DuplicateSearchAssumption
<1>3. F \ {x} = G \ {x}
  BY <1>1
<1>4. Is(x, F) = Has(r, c, f) /\ Is(x, G) = Has(de[x], c, f)
  BY <1>1 DEF Is, Has
<1>5. Hands(d2, c, f) = Cardinality(F) /\ Hands(de, c, f) = Cardinality(G)
  BY DEF Hands
<1>6. Has(de[x], c, f) \in Nat /\ Has(r, c, f) \in Nat
  BY DEF Has
<1> HIDE DEF F, G
<1>7. Cardinality(F) + Is(x, G) = Cardinality(G) + Is(x, F) /\ Cardinality(F) \in Nat /\ Cardinality(G) \in Nat
  BY <1>2, <1>3, OneOfThem
<1> QED BY <1>4, <1>5, <1>6, <1>7 DEF LessMore

LEMMA FragTypes ==
  ASSUME IInv
  PROVE  /\ toFrag \in Seq(FragmentBuffers) /\ pending \in Seq(WriterBuffers) /\ fragments \in Nat
         /\ deflator \in [FragDeflators -> Deflators] /\ Table(fragTable, fragments)
         /\ open \in FragmentBuffers \cup {None} /\ DOMAIN fragmentCache.buf = FragmentBuffers
         /\ DOMAIN writerCache.buf = WriterBuffers
         /\ \A b \in FragmentBuffers : fragmentCache.buf[b].index \in Nat \cup {None} /\ fragmentCache.buf[b].used \in Nat
         /\ \A b \in WriterBuffers : writerCache.buf[b].index \in WriterIndexes \cup {None} /\ writerCache.buf[b].used \in Nat
<1>1. /\ writerCache.buf \in [WriterBuffers -> [used : Nat, index : WriterIndexes \cup {None}, data : Datas]]
      /\ fragmentCache.buf \in [FragmentBuffers -> [used : Nat, index : Nat \cup {None}, data : Datas]]
  BY DEF IInv, CacheTypes, Caches
<1>2. /\ toFrag \in Seq(FragmentBuffers) /\ pending \in Seq(WriterBuffers) /\ fragments \in Nat
      /\ deflator \in [FragDeflators -> Deflators] /\ Table(fragTable, fragments)
      /\ open \in FragmentBuffers \cup {None}
  BY DEF IInv, HandTypes, MainTypes
<1> QED BY <1>1, <1>2

\* A number is with the queue, a deflator, the pending fragments or the table, and with
\* one of these only.
LEMMA OneWay ==
  ASSUME IInv, FragInv, NEW f \in 0 .. fragments - 1
  PROVE  LET q == \E k \in 1 .. Len(toFrag) : fragmentCache.buf[toFrag[k]].index = f
             h == \E d \in FragDeflators : deflator[d].step \in Unplaced /\ fragmentCache.buf[deflator[d].from].index = f
             p == \E k \in 1 .. Len(pending) : writerCache.buf[pending[k]].index = FragIndex(f)
             t == f \in DOMAIN fragTable
         IN  /\ q \/ h \/ p \/ t
             /\ (q => ~h /\ ~p /\ ~t) /\ (h => ~p /\ ~t) /\ (p => ~t)
             /\ h => Hands(deflator, fragmentCache, f) = 1
             /\ q => CountIn(toFrag, Of(fragmentCache, f)) = 1
             /\ p => CountIn(pending, Of(writerCache, FragIndex(f))) = 1
<1>1. /\ toFrag \in Seq(FragmentBuffers) /\ pending \in Seq(WriterBuffers)
      /\ DOMAIN fragmentCache.buf = FragmentBuffers /\ DOMAIN writerCache.buf = WriterBuffers
  BY FragTypes
<1>2. PICK S, P : S = Of(fragmentCache, f) /\ P = Of(writerCache, FragIndex(f))
  OBVIOUS
<1>3. PICK a, b, c, e \in Nat : /\ a = CountIn(toFrag, S) /\ b = Hands(deflator, fragmentCache, f)
                                /\ c = CountIn(pending, P) /\ e = Is(f, DOMAIN fragTable)
  <2>1. CountIn(toFrag, S) \in Nat /\ CountIn(pending, P) \in Nat
    BY <1>1, CountPositive
  <2>2. Hands(deflator, fragmentCache, f) \in Nat /\ Is(f, DOMAIN fragTable) \in Nat
    BY HandsFacts DEF Is
  <2> QED BY <2>1, <2>2
<1>4. a + b + c + e = 1
  <2>1. Sum4(a, b, c, e) = 1
    BY <1>2, <1>3, Zenon DEF FragInv, FragParts, Ways
  <2> QED BY <2>1 DEF Sum4
<1>5. a > 0 <=> \E k \in 1 .. Len(toFrag) : fragmentCache.buf[toFrag[k]].index = f
  <2>1. a > 0 <=> \E k \in 1 .. Len(toFrag) : toFrag[k] \in S
    BY <1>1, <1>3, CountPositive
  <2>2. \A k \in 1 .. Len(toFrag) : toFrag[k] \in S <=> fragmentCache.buf[toFrag[k]].index = f
    BY <1>1, <1>2 DEF Of
  <2> QED BY <2>1, <2>2
<1>6. b > 0 <=> \E d \in FragDeflators : deflator[d].step \in Unplaced /\ fragmentCache.buf[deflator[d].from].index = f
  <2>1. Hands(deflator, fragmentCache, f) > 0 <=>
          \E d \in FragDeflators : deflator[d].step \in Unplaced /\ fragmentCache.buf[deflator[d].from].index = f
    BY HandsFacts
  <2> QED BY <1>3, <2>1
<1>7. c > 0 <=> \E k \in 1 .. Len(pending) : writerCache.buf[pending[k]].index = FragIndex(f)
  <2>1. c > 0 <=> \E k \in 1 .. Len(pending) : pending[k] \in P
    BY <1>1, <1>3, CountPositive
  <2>2. \A k \in 1 .. Len(pending) : pending[k] \in P <=> writerCache.buf[pending[k]].index = FragIndex(f)
    BY <1>1, <1>2 DEF Of
  <2> QED BY <2>1, <2>2
<1>8. e > 0 <=> f \in DOMAIN fragTable
  BY <1>3 DEF Is
<1>9. /\ a > 0 \/ b > 0 \/ c > 0 \/ e > 0
      /\ (a > 0 => ~(b > 0) /\ ~(c > 0) /\ ~(e > 0)) /\ (b > 0 => ~(c > 0) /\ ~(e > 0)) /\ (c > 0 => ~(e > 0))
      /\ (b > 0 => b = 1) /\ (a > 0 => a = 1) /\ (c > 0 => c = 1)
  BY <1>4
<1> QED BY <1>2, <1>3, <1>5, <1>6, <1>7, <1>8, <1>9, Zenon

-----------------------------------------------------------------------------
(* Steps that leave the fragments where they are.                          *)

LEMMA SameCount ==
  ASSUME NEW s, NEW S, NEW S2, \A k \in 1 .. Len(s) : s[k] \in S <=> s[k] \in S2
  PROVE  CountIn(s, S) = CountIn(s, S2)
<1>1. {k \in 1 .. Len(s) : s[k] \in S} = {k \in 1 .. Len(s) : s[k] \in S2}
  OBVIOUS
<1> QED BY <1>1, Zenon DEF CountIn

LEMMA SameHands ==
  ASSUME NEW de, NEW de2, NEW c, NEW c2, NEW f,
         \A d \in FragDeflators : \/ ~(de[d].step \in Unplaced) /\ ~(de2[d].step \in Unplaced)
                                  \/ /\ de2[d].step \in Unplaced /\ de[d].step \in Unplaced
                                     /\ c2.buf[de2[d].from].index = f <=> c.buf[de[d].from].index = f
  PROVE  Hands(de2, c2, f) = Hands(de, c, f)
<1>1. {d \in FragDeflators : de2[d].step \in Unplaced /\ c2.buf[de2[d].from].index = f}
      = {d \in FragDeflators : de[d].step \in Unplaced /\ c.buf[de[d].from].index = f}
  OBVIOUS
<1> QED BY <1>1, Zenon DEF Hands

\* A cache that has what the other has; but what nobody uses may be another block's.
SameFrag(fc) == /\ DOMAIN fc.buf = FragmentBuffers
                /\ \A a \in FragmentBuffers : /\ fc.buf[a].index = fragmentCache.buf[a].index
                                              /\ fc.buf[a].index # None => fc.buf[a].data = fragmentCache.buf[a].data
SameWriter(wc) == /\ DOMAIN wc.buf = WriterBuffers
                  /\ \A a \in WriterBuffers :
                       \/ /\ wc.buf[a].index = writerCache.buf[a].index
                          /\ wc.buf[a].index # None => wc.buf[a].data = writerCache.buf[a].data
                       \/ writerCache.buf[a].used = 0 /\ wc.buf[a].index \notin FragKeys
SameDeflators(de) == \A d \in FragDeflators : \/ de[d] = deflator[d]
                                              \/ deflator[d].step \notin Unplaced /\ de[d].step \in {"idle", "done"}

LEMMA FragKept ==
  ASSUME IInv, FragInv, NEW fc, NEW wc, NEW de, SameFrag(fc), SameWriter(wc), SameDeflators(de)
  PROVE  FragParts(toFrag, de, pending, fragTable, fc, wc, fragments, open, spoiled)
<1>1. /\ toFrag \in Seq(FragmentBuffers) /\ pending \in Seq(WriterBuffers) /\ fragments \in Nat
      /\ DOMAIN fragmentCache.buf = FragmentBuffers /\ DOMAIN writerCache.buf = WriterBuffers
  BY FragTypes
<1>2. \A d \in FragDeflators : deflator[d].step \in {"taken", "compressed", "deferred", "placed"} => deflator[d].from \in FragmentBuffers
  BY DeflatorIs DEF IInv
<1>3. \A d \in FragDeflators : deflator[d].step \in {"compressed", "deferred", "placed"} => deflator[d].to \in WriterBuffers
  BY DeflatorIs DEF IInv
<1>4. \A a \in FragmentBuffers : fc.buf[a].index = fragmentCache.buf[a].index
  BY DEF SameFrag
<1>5. /\ \A d \in FragDeflators : deflator[d].step \in {"compressed", "deferred", "placed"} =>
           wc.buf[deflator[d].to].index = writerCache.buf[deflator[d].to].index
      /\ \A k \in 1 .. Len(pending) : pending[k] \in WriterBuffers /\ wc.buf[pending[k]].index = writerCache.buf[pending[k]].index
  <2>1. HandTypes /\ Counts
    BY DEF IInv
  <2>2. \A b \in WriterBuffers : writerCache.buf[b].used = 0 =>
           (\A d \in FragDeflators : deflator[d].to # b) /\ \A k \in 1 .. Len(pending) : pending[k] # b
    BY <2>1, Unused, Zenon
  <2>3. ASSUME NEW k \in 1 .. Len(pending)
        PROVE  pending[k] \in WriterBuffers /\ wc.buf[pending[k]].index = writerCache.buf[pending[k]].index
    <3>1. pending[k] \in WriterBuffers
      BY <1>1
    <3>2. writerCache.buf[pending[k]].used # 0
      BY <2>2, <3>1
    <3> QED BY <3>1, <3>2 DEF SameWriter
  <2>4. ASSUME NEW d \in FragDeflators, deflator[d].step \in {"compressed", "deferred", "placed"}
        PROVE  wc.buf[deflator[d].to].index = writerCache.buf[deflator[d].to].index
    <3>1. deflator[d].to \in WriterBuffers
      BY <1>3, <2>4
    <3>2. writerCache.buf[deflator[d].to].used # 0
      BY <2>2, <3>1
    <3> QED BY <3>1, <3>2 DEF SameWriter
  <2> QED BY <2>3, <2>4
<1>6. ASSUME NEW d \in FragDeflators
      PROVE  /\ de[d].step \in {"taken", "compressed", "deferred", "placed"} => de[d] = deflator[d]
             /\ deflator[d].step \in Unplaced => de[d] = deflator[d]
  BY DEF SameDeflators, Unplaced
<1>7. \A f \in 0 .. fragments - 1 : Ways(toFrag, de, pending, fragTable, fc, wc, f) = 1
  <2> TAKE f \in 0 .. fragments - 1
  <2>1. CountIn(toFrag, Of(fc, f)) = CountIn(toFrag, Of(fragmentCache, f))
    <3>1. \A k \in 1 .. Len(toFrag) : toFrag[k] \in Of(fc, f) <=> toFrag[k] \in Of(fragmentCache, f)
      BY <1>1, <1>4 DEF Of, SameFrag
    <3> QED BY <3>1, SameCount
  <2>2. CountIn(pending, Of(wc, FragIndex(f))) = CountIn(pending, Of(writerCache, FragIndex(f)))
    <3>1. \A k \in 1 .. Len(pending) : pending[k] \in Of(wc, FragIndex(f)) <=> pending[k] \in Of(writerCache, FragIndex(f))
      BY <1>1, <1>5 DEF Of, SameWriter
    <3> QED BY <3>1, SameCount
  <2>3. Hands(de, fc, f) = Hands(deflator, fragmentCache, f)
    <3>1. ASSUME NEW d \in FragDeflators
          PROVE  \/ ~(deflator[d].step \in Unplaced) /\ ~(de[d].step \in Unplaced)
                 \/ /\ de[d].step \in Unplaced /\ deflator[d].step \in Unplaced
                    /\ fc.buf[de[d].from].index = f <=> fragmentCache.buf[deflator[d].from].index = f
      BY <1>2, <1>4, <1>6 DEF Unplaced
    <3> QED BY <3>1, SameHands
  <2>4. Ways(toFrag, deflator, pending, fragTable, fragmentCache, writerCache, f) = 1
    BY DEF FragInv, FragParts
  <2> QED BY <2>1, <2>2, <2>3, <2>4 DEF Ways
<1>8. \A f : Waits(toFrag, de, fc, f) <=> Waits(toFrag, deflator, fragmentCache, f)
  <2> TAKE f
  <2>1. \A k \in 1 .. Len(toFrag) : fc.buf[toFrag[k]].index = fragmentCache.buf[toFrag[k]].index
    BY <1>1, <1>4
  <2>2. \A d \in FragDeflators : /\ de[d].step = "taken" <=> deflator[d].step = "taken"
                                 /\ de[d].step = "taken" => fc.buf[de[d].from].index = fragmentCache.buf[deflator[d].from].index
    BY <1>2, <1>4, <1>6 DEF Unplaced
  <2> QED BY <2>1, <2>2 DEF Waits
<1>9. FragBuffers(fc, fragments, open, spoiled)
  BY <1>4 DEF FragInv, FragParts, FragBuffers, SameFrag
<1>10. Compressed(wc, fragments, toFrag, de, fc)
  <2>1. SUFFICES ASSUME NEW a \in WriterBuffers, NEW f \in Nat, wc.buf[a].index = FragIndex(f)
                 PROVE  /\ f < fragments /\ wc.buf[a].data = FragUnit(f) /\ ~Waits(toFrag, de, fc, f)
                        /\ \A b \in WriterBuffers : wc.buf[b].index = FragIndex(f) => a = b
    BY DEF Compressed
  <2>2. ASSUME NEW b \in WriterBuffers, wc.buf[b].index = FragIndex(f)
        PROVE  writerCache.buf[b].index = FragIndex(f) /\ wc.buf[b].data = writerCache.buf[b].data
    <3>1. FragIndex(f) \in FragKeys
      BY DEF FragIndex, FragKeys
    <3>2. FragIndex(f) # None
      BY <3>1, NoneIsNone DEF WriterIndexes
    <3> QED BY <2>2, <3>1, <3>2 DEF SameWriter
  <2>3. /\ f < fragments /\ writerCache.buf[a].data = FragUnit(f) /\ ~Waits(toFrag, deflator, fragmentCache, f)
        /\ \A b \in WriterBuffers : writerCache.buf[b].index = FragIndex(f) => a = b
    BY <2>1, <2>2 DEF FragInv, FragParts, Compressed
  <2> QED BY <1>8, <2>1, <2>2, <2>3
<1>11. Pairs(de, fc, wc)
  <2>1. SUFFICES ASSUME NEW d \in FragDeflators, de[d].step \in {"compressed", "deferred", "placed"}
                 PROVE  wc.buf[de[d].to].index = FragIndex(fc.buf[de[d].from].index)
    BY DEF Pairs
  <2>2. de[d] = deflator[d]
    BY <1>6, <2>1
  <2>3. writerCache.buf[deflator[d].to].index = FragIndex(fragmentCache.buf[deflator[d].from].index)
    BY <2>1, <2>2 DEF FragInv, FragParts, Pairs
  <2> QED BY <1>2, <1>4, <1>5, <2>1, <2>2, <2>3
<1>12. Spoiled(spoiled, fragments, toFrag, de, fc)
  BY <1>8 DEF FragInv, FragParts, Spoiled
<1> QED BY <1>7, <1>9, <1>10, <1>11, <1>12 DEF FragParts

-----------------------------------------------------------------------------
(* Who has a buffer uses it.                                               *)

LEMMA WhoUses ==
  ASSUME IInv
  PROVE  /\ \A k \in 1 .. Len(pins) : pins[k] \in WriterBuffers /\ writerCache.buf[pins[k]].used > 0
         /\ writing # None => writing \in WriterBuffers /\ writerCache.buf[writing].used > 0
         /\ \A k \in 1 .. Len(blocks) : blocks[k] # None => blocks[k] \in WriterBuffers /\ writerCache.buf[blocks[k]].used > 0
         /\ \A m \in 1 .. Len(toWriter) : toWriter[m] # Flush =>
              /\ toWriter[m] = <<toWriter[m][1], toWriter[m][2]>> /\ toWriter[m][2] \in Nat
              /\ toWriter[m][1] \in WriterBuffers /\ writerCache.buf[toWriter[m][1]].used > 0
         /\ \A k \in 1 .. Len(pending) : pending[k] \in WriterBuffers /\ writerCache.buf[pending[k]].used > 0
         /\ \A d \in FragDeflators : deflator[d].to # None => deflator[d].to \in WriterBuffers /\ writerCache.buf[deflator[d].to].used > 0
         /\ \A b \in WriterBuffers : leaked[b] > 0 => writerCache.buf[b].used > 0
         /\ \A k \in 1 .. Len(toFrag) : toFrag[k] \in FragmentBuffers /\ fragmentCache.buf[toFrag[k]].used > 0
         /\ \A d \in FragDeflators : deflator[d].from # None => deflator[d].from \in FragmentBuffers /\ fragmentCache.buf[deflator[d].from].used > 0
         /\ open # None => open \in FragmentBuffers /\ fragmentCache.buf[open].used > 0
         /\ got # None => got \in FragmentBuffers /\ fragmentCache.buf[got].used > 0
<1>1. /\ blocks \in Seq(WriterBuffers \cup {None}) /\ pins \in Seq(WriterBuffers)
      /\ pending \in Seq(WriterBuffers) /\ toFrag \in Seq(FragmentBuffers) /\ toWriter \in Seq(Messages)
      /\ writing \in WriterBuffers \cup {None} /\ {open, got} \subseteq FragmentBuffers \cup {None}
      /\ HandTypes /\ Counts
  BY DEF IInv, HandTypes
<1>2. ASSUME NEW b \in WriterBuffers,
             leaked[b] > 0 \/ CountIn(pins, {b}) > 0 \/ Is(writing, {b}) > 0 \/ CountIn(blocks, {b}) > 0
             \/ CountIn(toWriter, {b} \X Nat) > 0 \/ CountIn(pending, {b}) > 0 \/ Holding(deflator, b) > 0
      PROVE  writerCache.buf[b].used > 0
  <2>1. writerCache.buf[b].used = Sum7(leaked[b], CountIn(pins, {b}), Is(writing, {b}), CountIn(blocks, {b}),
                                       CountIn(toWriter, {b} \X Nat), CountIn(pending, {b}), Holding(deflator, b))
    BY <1>1, Zenon DEF Counts, WriterCounts, WriterUses
  <2>2. /\ leaked[b] \in Nat /\ CountIn(pins, {b}) \in Nat /\ Is(writing, {b}) \in Nat /\ CountIn(blocks, {b}) \in Nat
        /\ CountIn(toWriter, {b} \X Nat) \in Nat /\ CountIn(pending, {b}) \in Nat /\ Holding(deflator, b) \in Nat
    BY <1>1, UsesTypes, Zenon
  <2> QED BY <1>2, <2>1, <2>2 DEF Sum7
<1>3. ASSUME NEW b \in FragmentBuffers,
             Is(open, {b}) > 0 \/ Is(got, {b}) > 0 \/ CountIn(toFrag, {b}) > 0 \/ Taking(deflator, b) > 0
      PROVE  fragmentCache.buf[b].used > 0
  <2>1. fragmentCache.buf[b].used = Sum4(Is(open, {b}), Is(got, {b}), CountIn(toFrag, {b}), Taking(deflator, b))
    BY <1>1, Zenon DEF Counts, FragCounts, FragUses
  <2>2. /\ Is(open, {b}) \in Nat /\ Is(got, {b}) \in Nat /\ CountIn(toFrag, {b}) \in Nat /\ Taking(deflator, b) \in Nat
    BY <1>1, UsesTypes, Zenon
  <2> QED BY <1>3, <2>1, <2>2 DEF Sum4
<1>4. ASSUME NEW T, NEW s \in Seq(T), NEW k \in 1 .. Len(s) PROVE s[k] \in T /\ CountIn(s, {s[k]}) > 0
  <2>1. s[k] \in T /\ \E j \in 1 .. Len(s) : s[j] = s[k]
    OBVIOUS
  <2> QED BY <2>1, CountSome
<1>5. \A e : Is(e, {e}) > 0
  BY DEF Is
<1>6. ASSUME NEW A, A \subseteq FragDeflators, A # {} PROVE Cardinality(A) > 0
  <2>1. IsFiniteSet(A)
    BY <1>6, FS_Subset, DuplicateSearchAssumption
  <2> QED BY <1>6, <2>1, FS_EmptySet, FS_CardinalityType
<1>7. ASSUME NEW k \in 1 .. Len(pins) PROVE pins[k] \in WriterBuffers /\ writerCache.buf[pins[k]].used > 0
  BY <1>1, <1>2, <1>4
<1>8. writing # None => writing \in WriterBuffers /\ writerCache.buf[writing].used > 0
  BY <1>1, <1>2, <1>5
<1>9. ASSUME NEW k \in 1 .. Len(blocks), blocks[k] # None PROVE blocks[k] \in WriterBuffers /\ writerCache.buf[blocks[k]].used > 0
  <2>1. blocks[k] \in WriterBuffers \cup {None} /\ CountIn(blocks, {blocks[k]}) > 0
    BY <1>1, <1>4
  <2>2. blocks[k] \in WriterBuffers
    BY <1>9, <2>1
  <2> QED BY <1>2, <2>1, <2>2
<1>10. ASSUME NEW m \in 1 .. Len(toWriter), toWriter[m] # Flush
       PROVE  /\ toWriter[m] = <<toWriter[m][1], toWriter[m][2]>> /\ toWriter[m][2] \in Nat
              /\ toWriter[m][1] \in WriterBuffers /\ writerCache.buf[toWriter[m][1]].used > 0
  <2>1. /\ toWriter[m] = <<toWriter[m][1], toWriter[m][2]>> /\ toWriter[m][2] \in Nat
        /\ toWriter[m][1] \in WriterBuffers
    <3>1. PICK e : e = toWriter[m] /\ e \in Messages
      BY <1>1
    <3> QED BY <1>10, <3>1, MessageIs
  <2>2. CountIn(toWriter, {toWriter[m][1]} \X Nat) > 0
    BY <1>1, <2>1, CountPositive
  <2> QED BY <1>2, <2>1, <2>2
<1>11. ASSUME NEW k \in 1 .. Len(pending) PROVE pending[k] \in WriterBuffers /\ writerCache.buf[pending[k]].used > 0
  BY <1>1, <1>2, <1>4
<1>12. ASSUME NEW d \in FragDeflators, deflator[d].to # None
       PROVE  deflator[d].to \in WriterBuffers /\ writerCache.buf[deflator[d].to].used > 0
  <2>1. deflator[d].to \in WriterBuffers
    <3>1. PICK r \in Deflators : r = deflator[d]
      BY <1>1 DEF HandTypes
    <3> QED BY <1>12, <3>1 DEF Deflators
  <2>2. Holding(deflator, deflator[d].to) > 0
    BY <1>6 DEF Holding
  <2> QED BY <1>2, <2>1, <2>2
<1>13. ASSUME NEW k \in 1 .. Len(toFrag) PROVE toFrag[k] \in FragmentBuffers /\ fragmentCache.buf[toFrag[k]].used > 0
  BY <1>1, <1>3, <1>4
<1>14. ASSUME NEW d \in FragDeflators, deflator[d].from # None
       PROVE  deflator[d].from \in FragmentBuffers /\ fragmentCache.buf[deflator[d].from].used > 0
  <2>1. deflator[d].from \in FragmentBuffers
    <3>1. PICK r \in Deflators : r = deflator[d]
      BY <1>1 DEF HandTypes
    <3> QED BY <1>14, <3>1 DEF Deflators
  <2>2. Taking(deflator, deflator[d].from) > 0
    BY <1>6 DEF Taking
  <2> QED BY <1>3, <2>1, <2>2
<1>15. /\ open # None => open \in FragmentBuffers /\ fragmentCache.buf[open].used > 0
       /\ got # None => got \in FragmentBuffers /\ fragmentCache.buf[got].used > 0
  BY <1>1, <1>3, <1>5
<1> QED BY <1>2, <1>7, <1>8, <1>9, <1>10, <1>11, <1>12, <1>13, <1>14, <1>15

LEMMA Reuses ==
  ASSUME IInv
  PROVE  /\ \A e \in WriterBuffers : writerCache.buf[e].used > 0 => Reused(writerCache, Put(writerCache, e), e)
         /\ \A i : Found(writerCache, i) =>
              /\ Reused(writerCache, Lookup(writerCache, Find(writerCache, i)), Find(writerCache, i))
              /\ Find(writerCache, i) \in WriterBuffers /\ writerCache.buf[Find(writerCache, i)].index = i /\ i # None
              /\ Newest(writerCache, i, Find(writerCache, i))
         /\ \A e \in FragmentBuffers : fragmentCache.buf[e].used > 0 => Reused(fragmentCache, Put(fragmentCache, e), e)
         /\ \A i : Found(fragmentCache, i) =>
              /\ Reused(fragmentCache, Lookup(fragmentCache, Find(fragmentCache, i)), Find(fragmentCache, i))
              /\ Find(fragmentCache, i) \in FragmentBuffers /\ fragmentCache.buf[Find(fragmentCache, i)].index = i /\ i # None
<1>1. /\ writerCache \in Caches(WriterBuffers, WriterIndexes) /\ CacheOK(writerCache)
      /\ fragmentCache \in Caches(FragmentBuffers, Nat) /\ CacheOK(fragmentCache)
  BY DEF IInv, CacheTypes
<1>2. \A e \in WriterBuffers : writerCache.buf[e].used > 0 => Reused(writerCache, Put(writerCache, e), e)
  BY <1>1, PutReuses, NoneIsNone
<1>3. \A e \in FragmentBuffers : fragmentCache.buf[e].used > 0 => Reused(fragmentCache, Put(fragmentCache, e), e)
  BY <1>1, PutReuses, NoneIsNone
<1>4. ASSUME NEW i, Found(writerCache, i)
      PROVE  /\ Reused(writerCache, Lookup(writerCache, Find(writerCache, i)), Find(writerCache, i))
             /\ Find(writerCache, i) \in WriterBuffers /\ writerCache.buf[Find(writerCache, i)].index = i /\ i # None
             /\ Newest(writerCache, i, Find(writerCache, i))
  <2>1. Find(writerCache, i) \in WriterBuffers /\ writerCache.buf[Find(writerCache, i)].index = i /\ i # None
    BY <1>1, <1>4, FindFacts
  <2>2. Newest(writerCache, i, Find(writerCache, i))
    BY <1>1, <1>4, <2>1, NewestFacts
  <2> QED BY <1>1, <2>1, <2>2, LookupReuses, NoneIsNone
<1>5. ASSUME NEW i, Found(fragmentCache, i)
      PROVE  /\ Reused(fragmentCache, Lookup(fragmentCache, Find(fragmentCache, i)), Find(fragmentCache, i))
             /\ Find(fragmentCache, i) \in FragmentBuffers /\ fragmentCache.buf[Find(fragmentCache, i)].index = i /\ i # None
  <2>1. Find(fragmentCache, i) \in FragmentBuffers /\ fragmentCache.buf[Find(fragmentCache, i)].index = i /\ i # None
    BY <1>1, <1>5, FindFacts
  <2> QED BY <1>1, <2>1, LookupReuses, NoneIsNone
<1> QED BY <1>2, <1>3, <1>4, <1>5

\* A step that reuses one writer buffer, or one fragment buffer, or none.
LEMMA SameAfter ==
  ASSUME IInv
  PROVE  /\ SameWriter(writerCache) /\ SameFrag(fragmentCache) /\ SameDeflators(deflator)
         /\ \A c, e : Reused(writerCache, c, e) => SameWriter(c)
         /\ \A c, e : Reused(fragmentCache, c, e) => SameFrag(c)
<1>1. DOMAIN fragmentCache.buf = FragmentBuffers /\ DOMAIN writerCache.buf = WriterBuffers
  BY FragTypes
<1> QED BY <1>1 DEF SameWriter, SameFrag, SameDeflators, Reused

-----------------------------------------------------------------------------
(* What the steps do to the caches.                                        *)

LEMMA WriterStep ==
  ASSUME IInv
  PROVE  /\ PutBlock \/ WriterPutBack \/ PutHeld =>
              \E e \in WriterBuffers : writerCache.buf[e].used > 0 /\ Reused(writerCache, writerCache', e)
         /\ LookupBlock => \E i, e : Newest(writerCache, i, e) /\ Reused(writerCache, writerCache', e)
                                     /\ i = writerCache.buf[e].index /\ pins' = Append(pins, e) /\ e \in WriterBuffers
         /\ \A f : GetFragment(f) =>
              \/ writerCache' = writerCache /\ leaked' = leaked
              \/ \E e \in WriterBuffers : /\ Newest(writerCache, FragIndex(f), e) /\ Reused(writerCache, writerCache', e)
                                          /\ leaked' = [leaked EXCEPT ![e] = @ + 1]
<1>1. ASSUME PutBlock PROVE \E e \in WriterBuffers : writerCache.buf[e].used > 0 /\ Reused(writerCache, writerCache', e)
  <2>1. PICK e : e = Head(pins) /\ e = pins[1] /\ 1 \in 1 .. Len(pins)
    <3>1. pins \in Seq(WriterBuffers) /\ pins # <<>>
      BY <1>1 DEF IInv, HandTypes, PutBlock
    <3> QED BY <3>1, TailFacts
  <2>2. e \in WriterBuffers /\ writerCache.buf[e].used > 0
    BY <2>1, WhoUses
  <2>3. writerCache' = Put(writerCache, e)
    BY <1>1, <2>1 DEF PutBlock
  <2> QED BY <2>2, <2>3, Reuses
<1>2. ASSUME WriterPutBack PROVE \E e \in WriterBuffers : writerCache.buf[e].used > 0 /\ Reused(writerCache, writerCache', e)
  <2>1. PICK e : e = writing
    OBVIOUS
  <2>2. e # None /\ writerCache' = Put(writerCache, e)
    BY <1>2, <2>1 DEF WriterPutBack
  <2>3. e \in WriterBuffers /\ writerCache.buf[e].used > 0
    BY <2>1, <2>2, WhoUses
  <2> QED BY <2>2, <2>3, Reuses
<1>3. ASSUME PutHeld PROVE \E e \in WriterBuffers : writerCache.buf[e].used > 0 /\ Reused(writerCache, writerCache', e)
  <2>1. PICK k \in 1 .. Len(blocks) : blocks[k] # None /\ writerCache' = Put(writerCache, blocks[k])
    BY <1>3 DEF PutHeld
  <2>2. PICK e : e = blocks[k]
    OBVIOUS
  <2>3. e \in WriterBuffers /\ writerCache.buf[e].used > 0
    BY <2>1, <2>2, WhoUses
  <2> QED BY <2>1, <2>2, <2>3, Reuses
<1>4. ASSUME LookupBlock
      PROVE  \E i, e : Newest(writerCache, i, e) /\ Reused(writerCache, writerCache', e)
                       /\ i = writerCache.buf[e].index /\ pins' = Append(pins, e) /\ e \in WriterBuffers
  <2>1. PICK i : Found(writerCache, i) /\ pins' = Append(pins, Find(writerCache, i)) /\ writerCache' = Lookup(writerCache, Find(writerCache, i))
    BY <1>4, Zenon DEF LookupBlock
  <2>2. PICK e : e = Find(writerCache, i)
    OBVIOUS
  <2>3. Newest(writerCache, i, e) /\ Reused(writerCache, Lookup(writerCache, e), e) /\ i = writerCache.buf[e].index /\ e \in WriterBuffers
    BY <2>1, <2>2, Reuses
  <2> QED BY <2>1, <2>2, <2>3, Zenon
<1>5. ASSUME NEW f, GetFragment(f)
      PROVE  \/ writerCache' = writerCache /\ leaked' = leaked
             \/ \E e \in WriterBuffers : /\ Newest(writerCache, FragIndex(f), e) /\ Reused(writerCache, writerCache', e)
                                         /\ leaked' = [leaked EXCEPT ![e] = @ + 1]
  <2>1. CASE Found(fragmentCache, f) \/ ~Found(writerCache, FragIndex(f))
    BY <1>5, <2>1 DEF GetFragment
  <2>2. CASE ~Found(fragmentCache, f) /\ Found(writerCache, FragIndex(f))
    <3>1. PICK i, e : i = FragIndex(f) /\ e = Find(writerCache, i)
      OBVIOUS
    <3>2. writerCache' = Lookup(writerCache, e) /\ leaked' = [leaked EXCEPT ![e] = @ + 1]
      BY <1>5, <2>2, <3>1 DEF GetFragment
    <3>3. Newest(writerCache, i, e) /\ Reused(writerCache, Lookup(writerCache, e), e) /\ e \in WriterBuffers
      BY <2>2, <3>1, Reuses
    <3> QED BY <3>1, <3>2, <3>3
  <2> QED BY <2>1, <2>2
<1> QED BY <1>1, <1>2, <1>3, <1>4, <1>5

LEMMA FragStep ==
  ASSUME IInv
  PROVE  /\ PutFragment => \E e : Reused(fragmentCache, fragmentCache', e)
         /\ \A f : GetFragment(f) => fragmentCache' = fragmentCache \/ \E e : Reused(fragmentCache, fragmentCache', e)
         /\ \A x \in FragDeflators : FragPutBack(x) => \E e : Reused(fragmentCache, fragmentCache', e)
<1>1. ASSUME PutFragment PROVE \E e : Reused(fragmentCache, fragmentCache', e)
  <2>1. PICK e : e = got
    OBVIOUS
  <2>2. e # None /\ fragmentCache' = Put(fragmentCache, e)
    BY <1>1, <2>1 DEF PutFragment
  <2>3. e \in FragmentBuffers /\ fragmentCache.buf[e].used > 0
    BY <2>1, <2>2, WhoUses
  <2> QED BY <2>2, <2>3, Reuses
<1>2. ASSUME NEW f, GetFragment(f) PROVE fragmentCache' = fragmentCache \/ \E e : Reused(fragmentCache, fragmentCache', e)
  <2>1. CASE ~Found(fragmentCache, f)
    BY <1>2, <2>1 DEF GetFragment
  <2>2. CASE Found(fragmentCache, f)
    <3>1. PICK e : e = Find(fragmentCache, f)
      OBVIOUS
    <3>2. fragmentCache' = Lookup(fragmentCache, e)
      BY <1>2, <2>2, <3>1 DEF GetFragment
    <3>3. Reused(fragmentCache, Lookup(fragmentCache, e), e)
      BY <2>2, <3>1, Reuses
    <3> QED BY <3>2, <3>3
  <2> QED BY <2>1, <2>2
<1>3. ASSUME NEW x \in FragDeflators, FragPutBack(x) PROVE \E e : Reused(fragmentCache, fragmentCache', e)
  <2>1. PICK e : e = deflator[x].from
    OBVIOUS
  <2>2. deflator[x].step = "done" /\ fragmentCache' = Put(fragmentCache, e)
    BY <1>3, <2>1 DEF FragPutBack
  <2>3. e \in FragmentBuffers
    BY <2>1, <2>2, DeflatorIs DEF IInv
  <2>4. fragmentCache.buf[e].used > 0
    BY <2>1, <2>3, WhoUses, NoneIsNone
  <2> QED BY <2>2, <2>3, <2>4, Reuses
<1> QED BY <1>1, <1>2, <1>3

\* The blocks and the compressed fragments take the next free buffer.
LEMMA WriterTakes ==
  ASSUME IInv
  PROVE  /\ WriteBlock =>
              /\ CanGet(writerCache) /\ AtPosition(bytes) \in WriterIndexes /\ BlockUnit(file, Len(blocks)) \in Datas
              /\ writerCache' = Fresh(writerCache, NextFree(writerCache), AtPosition(bytes), BlockUnit(file, Len(blocks)))
         /\ \A x \in FragDeflators : FragCompress(x) =>
              /\ CanGet(writerCache) /\ deflator[x].from \in FragmentBuffers /\ FragNumber(deflator[x].from) \in Nat
              /\ FragIndex(FragNumber(deflator[x].from)) \in WriterIndexes /\ fragmentCache.buf[deflator[x].from].data \in Datas
              /\ writerCache' = Fresh(writerCache, NextFree(writerCache), FragIndex(FragNumber(deflator[x].from)),
                                      fragmentCache.buf[deflator[x].from].data)
         /\ CanGet(writerCache) => NextFree(writerCache) \in WriterBuffers /\ writerCache.buf[NextFree(writerCache)].used = 0
<1>1. /\ writerCache \in Caches(WriterBuffers, WriterIndexes) /\ CacheOK(writerCache)
      /\ fragmentCache \in Caches(FragmentBuffers, Nat) /\ CacheOK(fragmentCache)
  BY DEF IInv, CacheTypes
<1>2. CanGet(writerCache) => NextFree(writerCache) \in WriterBuffers /\ writerCache.buf[NextFree(writerCache)].used = 0
  BY <1>1, NextFreeFacts
<1>3. ASSUME WriteBlock
      PROVE  /\ CanGet(writerCache) /\ AtPosition(bytes) \in WriterIndexes /\ BlockUnit(file, Len(blocks)) \in Datas
             /\ writerCache' = Fresh(writerCache, NextFree(writerCache), AtPosition(bytes), BlockUnit(file, Len(blocks)))
  <2>1. AtPosition(bytes) \in WriterIndexes /\ BlockUnit(file, Len(blocks)) \in Datas
    <3>1. bytes \in Nat /\ file \in Files /\ Len(blocks) \in Nat
      BY DEF IInv, HandTypes, MainTypes
    <3> QED BY <3>1 DEF BlockUnit, Datas, AtPosition, WriterIndexes, Positions, Files
  <2>2. PICK e, i, y : e = NextFree(writerCache) /\ i = AtPosition(bytes) /\ y = BlockUnit(file, Len(blocks))
    OBVIOUS
  <2>3. CanGet(writerCache) /\ writerCache' = Rehash(Get(writerCache, e, None, y), e, i)
    BY <1>3, <2>2 DEF WriteBlock
  <2>4. writerCache' = Fresh(writerCache, e, i, y)
    BY <1>1, <1>2, <2>1, <2>2, <2>3, GetRehash, NoneIsNone
  <2> QED BY <2>1, <2>2, <2>3, <2>4
<1>4. ASSUME NEW x \in FragDeflators, FragCompress(x)
      PROVE  /\ CanGet(writerCache) /\ deflator[x].from \in FragmentBuffers /\ FragNumber(deflator[x].from) \in Nat
             /\ FragIndex(FragNumber(deflator[x].from)) \in WriterIndexes /\ fragmentCache.buf[deflator[x].from].data \in Datas
             /\ writerCache' = Fresh(writerCache, NextFree(writerCache), FragIndex(FragNumber(deflator[x].from)),
                                     fragmentCache.buf[deflator[x].from].data)
  <2>1. deflator[x].step = "taken" /\ CanGet(writerCache)
    BY <1>4 DEF FragCompress
  <2>2. deflator[x].from \in FragmentBuffers
    BY <2>1, DeflatorIs DEF IInv
  <2>3. deflator[x].from # None
    BY <2>2, NoneIsNone
  <2>4. fragmentCache.buf[deflator[x].from].index \in 0 .. fragments - 1 /\ fragments \in Nat
    BY <2>3 DEF IInv, Numbered, Numbers, MainTypes
  <2>5. fragmentCache.buf[deflator[x].from].data \in Datas
    BY <1>1, <2>2 DEF Caches
  <2>6. PICK e, i, y : /\ e = NextFree(writerCache) /\ i = FragIndex(FragNumber(deflator[x].from))
                       /\ y = fragmentCache.buf[deflator[x].from].data
    OBVIOUS
  <2>7. FragNumber(deflator[x].from) \in Nat /\ i \in WriterIndexes
    BY <2>4, <2>6 DEF FragNumber, FragIndex, WriterIndexes, FragKeys
  <2>8. writerCache' = Get(writerCache, e, i, y)
    BY <1>4, <2>6 DEF FragCompress
  <2>9. writerCache' = Fresh(writerCache, e, i, y)
    BY <1>1, <1>2, <2>1, <2>5, <2>6, <2>7, <2>8, GetFacts, NoneIsNone
  <2> QED BY <2>1, <2>2, <2>5, <2>6, <2>7, <2>9
<1> QED BY <1>2, <1>3, <1>4

LEMMA FreshBuf ==
  ASSUME NEW B, NEW I, NEW c \in Caches(B, I), NEW b \in B, NEW i, NEW x, NEW n, n = Fresh(c, b, i, x)
  PROVE  /\ DOMAIN n.buf = B /\ n.buf[b].index = i /\ n.buf[b].data = x
         /\ \A a \in B \ {b} : n.buf[a] = c.buf[a]
<1>1. n.buf = [c.buf EXCEPT ![b] = [used |-> 1, index |-> i, data |-> x]]
  BY DEF Fresh
<1>2. c.buf \in [B -> [used : Nat, index : I \cup {None}, data : Datas]]
  BY DEF Caches
<1> QED BY <1>1, <1>2

-----------------------------------------------------------------------------
(* Every step keeps the fragments in one place each.                       *)

LEMMA FragSame ==
  ASSUME IInv, FragInv, SameFrag(fragmentCache'), SameWriter(writerCache'), SameDeflators(deflator'),
         UNCHANGED <<toFrag, pending, fragTable, fragments, open, spoiled>>
  PROVE  FragInv'
<1>1. PICK fc, wc, de : fc = fragmentCache' /\ wc = writerCache' /\ de = deflator'
  OBVIOUS
<1>2. FragParts(toFrag, de, pending, fragTable, fc, wc, fragments, open, spoiled)
  BY <1>1, FragKept
<1> QED BY <1>1, <1>2 DEF FragInv

LEMMA FragQuiet ==
  ASSUME IInv, FragInv,
         \/ NextFile \/ EndBlocks \/ Unique \/ Duplicate \/ RollBack \/ Truncate \/ UnlockDone \/ Drain \/ Write
         \/ UNCHANGED vars
  PROVE  FragInv'
<1>1. UNCHANGED <<fragmentCache, writerCache, deflator, toFrag, pending, fragTable, fragments, open, spoiled>>
  BY DEF NextFile, EndBlocks, Unique, Duplicate, RollBack, Truncate, UnlockDone, Drain, Write, vars,
         fragVars, placeVars, searchVars
<1>2. SameFrag(fragmentCache) /\ SameWriter(writerCache) /\ SameDeflators(deflator)
  BY SameAfter
<1> QED BY <1>1, <1>2, FragSame

LEMMA FragReuse ==
  ASSUME IInv, FragInv,
         \/ PutBlock \/ LookupBlock \/ WriterPutBack \/ PutHeld \/ PutFragment \/ \E f : GetFragment(f)
  PROVE  FragInv'
<1>1. UNCHANGED <<deflator, toFrag, pending, fragTable, fragments, open, spoiled>>
  BY DEF PutBlock, LookupBlock, WriterPutBack, PutHeld, PutFragment, GetFragment, fragVars, placeVars, searchVars
<1>2. SameFrag(fragmentCache) /\ SameWriter(writerCache) /\ SameDeflators(deflator)
  BY SameAfter
<1>3. CASE PutBlock \/ LookupBlock \/ WriterPutBack \/ PutHeld
  <2>1. fragmentCache' = fragmentCache
    BY <1>3 DEF PutBlock, LookupBlock, WriterPutBack, PutHeld
  <2>2. \E e : Reused(writerCache, writerCache', e)
    BY <1>3, WriterStep
  <2>3. SameWriter(writerCache')
    BY <2>2, SameAfter
  <2> QED BY <1>1, <1>2, <2>1, <2>3, FragSame
<1>4. CASE PutFragment
  <2>1. writerCache' = writerCache
    BY <1>4 DEF PutFragment
  <2>2. \E e : Reused(fragmentCache, fragmentCache', e)
    BY <1>4, FragStep
  <2>3. SameFrag(fragmentCache')
    BY <2>2, SameAfter
  <2> QED BY <1>1, <1>2, <2>1, <2>3, FragSame
<1>5. ASSUME NEW f, GetFragment(f) PROVE FragInv'
  <2>1. fragmentCache' = fragmentCache \/ \E e : Reused(fragmentCache, fragmentCache', e)
    BY <1>5, FragStep
  <2>2. SameFrag(fragmentCache')
    BY <1>2, <2>1, SameAfter
  <2>3. writerCache' = writerCache \/ \E e : Reused(writerCache, writerCache', e)
    BY <1>5, WriterStep
  <2>4. SameWriter(writerCache')
    BY <1>2, <2>3, SameAfter
  <2> QED BY <1>1, <1>2, <2>2, <2>4, FragSame
<1> QED BY <1>3, <1>4, <1>5

LEMMA FragWriteBlock ==
  ASSUME IInv, FragInv, WriteBlock
  PROVE  FragInv'
<1>1. UNCHANGED <<fragmentCache, deflator, toFrag, pending, fragTable, fragments, open, spoiled>>
  BY DEF WriteBlock, fragVars, searchVars
<1>2. SameFrag(fragmentCache) /\ SameDeflators(deflator)
  BY SameAfter
<1>3. SameWriter(writerCache')
  <2>1. PICK b, i, x : b = NextFree(writerCache) /\ i = AtPosition(bytes) /\ x = BlockUnit(file, Len(blocks))
    OBVIOUS
  <2>2. /\ writerCache' = Fresh(writerCache, b, i, x)
        /\ b \in WriterBuffers /\ writerCache.buf[b].used = 0
    BY <2>1, WriterTakes
  <2>3. writerCache \in Caches(WriterBuffers, WriterIndexes)
    BY DEF IInv, CacheTypes
  <2>4. /\ DOMAIN writerCache'.buf = WriterBuffers /\ writerCache'.buf[b].index = i
        /\ \A a \in WriterBuffers \ {b} : writerCache'.buf[a] = writerCache.buf[a]
    BY <2>2, <2>3, FreshBuf
  <2>5. i \notin FragKeys
    BY <2>1 DEF AtPosition, FragKeys
  <2> QED BY <2>2, <2>4, <2>5 DEF SameWriter
<1> QED BY <1>1, <1>2, <1>3, FragSame

LEMMA FragFragPutBack ==
  ASSUME IInv, FragInv, NEW x \in FragDeflators, FragPutBack(x)
  PROVE  FragInv'
<1>1. UNCHANGED <<writerCache, toFrag, pending, fragTable, fragments, open, spoiled>>
  BY DEF FragPutBack, fragVars, placeVars, searchVars
<1>2. SameWriter(writerCache)
  BY SameAfter
<1>3. \E e : Reused(fragmentCache, fragmentCache', e)
  BY FragStep
<1>4. SameFrag(fragmentCache')
  BY <1>3, SameAfter
<1>5. SameDeflators(deflator')
  <2>1. deflator \in [FragDeflators -> Deflators] /\ deflator[x].step = "done" /\ deflator' = [deflator EXCEPT ![x] = Idle]
    BY DEF FragPutBack, IInv, HandTypes
  <2> QED BY <2>1 DEF SameDeflators, Idle, Unplaced
<1> QED BY <1>1, <1>2, <1>4, <1>5, FragSame

LEMMA FragInit == Init => FragInv
<1> SUFFICES ASSUME Init PROVE FragInv
  OBVIOUS
<1>1. /\ toFrag = <<>> /\ pending = <<>> /\ fragments = 0 /\ fragTable = <<>> /\ spoiled = {} /\ open = None
      /\ \A d \in FragDeflators : deflator[d] = Idle
      /\ writerCache = EmptyCache(WriterBuffers) /\ fragmentCache = EmptyCache(FragmentBuffers)
  BY DEF Init
<1>2. \A a \in FragmentBuffers : fragmentCache.buf[a].index = None
  BY <1>1 DEF EmptyCache, Unallocated
<1>3. \A a \in WriterBuffers : writerCache.buf[a].index = None
  BY <1>1 DEF EmptyCache, Unallocated
<1>4. \A f : FragIndex(f) # None \/ f \notin Nat
  BY NoneIsNone DEF FragIndex, WriterIndexes, FragKeys
<1>5. \A d \in FragDeflators : deflator[d].step = "idle"
  BY <1>1 DEF Idle
<1>6. 0 .. fragments - 1 = {}
  BY <1>1
<1>7. FragBuffers(fragmentCache, fragments, open, spoiled)
  BY <1>2 DEF FragBuffers
<1>8. Compressed(writerCache, fragments, toFrag, deflator, fragmentCache)
  BY <1>3, <1>4 DEF Compressed
<1>9. Pairs(deflator, fragmentCache, writerCache)
  BY <1>5 DEF Pairs
<1>10. Spoiled(spoiled, fragments, toFrag, deflator, fragmentCache)
  BY <1>1, <1>6 DEF Spoiled
<1> QED BY <1>6, <1>7, <1>8, <1>9, <1>10 DEF FragInv, FragParts

\* The caches stay, and a fragment moves.
LEMMA FragMove ==
  ASSUME FragInv, NEW tf, NEW de, NEW pe, NEW t,
         \A f \in 0 .. fragments - 1 : Ways(tf, de, pe, t, fragmentCache, writerCache, f) = 1,
         \A f : Waits(tf, de, fragmentCache, f) => Waits(toFrag, deflator, fragmentCache, f),
         Pairs(de, fragmentCache, writerCache)
  PROVE  FragParts(tf, de, pe, t, fragmentCache, writerCache, fragments, open, spoiled)
<1>1. FragBuffers(fragmentCache, fragments, open, spoiled)
  BY DEF FragInv, FragParts
<1>2. Compressed(writerCache, fragments, tf, de, fragmentCache)
  BY DEF FragInv, FragParts, Compressed
<1>3. Spoiled(spoiled, fragments, tf, de, fragmentCache)
  BY DEF FragInv, FragParts, Spoiled
<1> QED BY <1>1, <1>2, <1>3 DEF FragParts

LEMMA FragFragTake ==
  ASSUME IInv, FragInv, NEW x \in FragDeflators, FragTake(x)
  PROVE  FragInv'
<1>1. /\ deflator \in [FragDeflators -> Deflators] /\ toFrag \in Seq(FragmentBuffers) /\ toFrag # <<>>
      /\ deflator[x].step = "idle" /\ DOMAIN fragmentCache.buf = FragmentBuffers
  BY FragTypes DEF FragTake
<1>2. PICK e, r, tf, de : /\ e = Head(toFrag) /\ r = [step |-> "taken", from |-> e, to |-> None]
                          /\ tf = Tail(toFrag) /\ de = [deflator EXCEPT ![x] = r]
  OBVIOUS
<1>3. toFrag' = tf /\ deflator' = de
  BY <1>2 DEF FragTake, Now
<1>4. /\ e = toFrag[1] /\ e \in FragmentBuffers /\ 1 \in 1 .. Len(toFrag)
      /\ \A k \in 1 .. Len(tf) : k + 1 \in 1 .. Len(toFrag) /\ tf[k] = toFrag[k + 1]
  BY <1>1, <1>2, TailFacts
<1>5. de[x] = r /\ (\A d \in FragDeflators : d # x => de[d] = deflator[d]) /\ r.step = "taken" /\ r.from = e
  BY <1>1, <1>2
<1>6. \A f \in 0 .. fragments - 1 : Ways(tf, de, pending, fragTable, fragmentCache, writerCache, f) = 1
  <2> TAKE f \in 0 .. fragments - 1
  <2>1. PICK S : S = Of(fragmentCache, f)
    OBVIOUS
  <2>2. CountIn(toFrag, S) = CountIn(tf, S) + Is(e, S) /\ CountIn(tf, S) \in Nat
    BY <1>1, <1>2, CountTail
  <2>3. /\ Hands(de, fragmentCache, f) + Has(deflator[x], fragmentCache, f) = Hands(deflator, fragmentCache, f) + Has(r, fragmentCache, f)
        /\ Hands(de, fragmentCache, f) \in Nat /\ Hands(deflator, fragmentCache, f) \in Nat
    <3>1. LessMore(Hands(de, fragmentCache, f), Has(deflator[x], fragmentCache, f), Hands(deflator, fragmentCache, f), Has(r, fragmentCache, f))
      BY <1>1, <1>2, HandsNow
    <3> QED BY <3>1 DEF LessMore
  <2>4. Has(deflator[x], fragmentCache, f) = 0
    BY <1>1 DEF Has, Unplaced
  <2>5. Has(r, fragmentCache, f) = Is(e, S) /\ Is(e, S) \in Nat
    BY <1>1, <1>4, <1>5, <2>1 DEF Has, Unplaced, Is, Of
  <2>6. CountIn(pending, Of(writerCache, FragIndex(f))) \in Nat /\ Is(f, DOMAIN fragTable) \in Nat
    <3>1. pending \in Seq(WriterBuffers)
      BY FragTypes
    <3> QED BY <3>1, CountPositive DEF Is
  <2>7. Ways(toFrag, deflator, pending, fragTable, fragmentCache, writerCache, f) = 1
    BY DEF FragInv, FragParts
  <2> QED BY <2>1, <2>2, <2>3, <2>4, <2>5, <2>6, <2>7 DEF Ways, Sum4
<1>7. ASSUME NEW f, Waits(tf, de, fragmentCache, f) PROVE Waits(toFrag, deflator, fragmentCache, f)
  <2>1. CASE \E k \in 1 .. Len(tf) : fragmentCache.buf[tf[k]].index = f
    BY <1>4, <2>1 DEF Waits
  <2>2. ASSUME NEW d \in FragDeflators, de[d].step = "taken", fragmentCache.buf[de[d].from].index = f
        PROVE  Waits(toFrag, deflator, fragmentCache, f)
    <3>1. CASE d = x
      BY <1>4, <1>5, <2>2, <3>1 DEF Waits
    <3>2. CASE d # x
      BY <1>5, <2>2, <3>2 DEF Waits
    <3> QED BY <3>1, <3>2
  <2> QED BY <1>7, <2>1, <2>2 DEF Waits
<1>8. Pairs(de, fragmentCache, writerCache)
  <2>1. Pairs(deflator, fragmentCache, writerCache)
    BY DEF FragInv, FragParts
  <2>2. r.step \notin {"compressed", "deferred", "placed"}
    BY <1>5
  <2> QED BY <1>5, <2>1, <2>2 DEF Pairs
<1>9. FragParts(tf, de, pending, fragTable, fragmentCache, writerCache, fragments, open, spoiled)
  BY <1>6, <1>7, <1>8, FragMove
<1> QED BY <1>3, <1>9 DEF FragInv, FragTake, placeVars, searchVars

\* A number in two hands is counted twice.
LEMMA OneHand ==
  ASSUME NEW c, NEW f, NEW de, Hands(de, c, f) = 1, NEW x \in FragDeflators, NEW y \in FragDeflators,
         de[x].step \in Unplaced, c.buf[de[x].from].index = f, de[y].step \in Unplaced, c.buf[de[y].from].index = f
  PROVE  x = y
<1> DEFINE A == {d \in FragDeflators : de[d].step \in Unplaced /\ c.buf[de[d].from].index = f}
<1>1. IsFiniteSet(A) /\ Cardinality(A) = 1 /\ x \in A /\ y \in A
  BY FS_Subset, DuplicateSearchAssumption DEF Hands
<1>2. \E z : A = {z}
  BY <1>1, FS_Singleton
<1> QED BY <1>1, <1>2

LEMMA FragFragCompress ==
  ASSUME IInv, FragInv, NEW x \in FragDeflators, FragCompress(x)
  PROVE  FragInv'
<1>1. PICK g, b, f0, y : g = deflator[x].from /\ b = NextFree(writerCache) /\ f0 = FragNumber(g) /\ y = fragmentCache.buf[g].data
  OBVIOUS
<1>2. /\ CanGet(writerCache) /\ g \in FragmentBuffers /\ f0 \in Nat /\ FragIndex(f0) \in WriterIndexes /\ y \in Datas
      /\ writerCache' = Fresh(writerCache, b, FragIndex(f0), y) /\ b \in WriterBuffers /\ writerCache.buf[b].used = 0
  BY <1>1, WriterTakes
<1>3. /\ deflator[x].step = "taken" /\ deflator' = [deflator EXCEPT ![x] = [step |-> "compressed", from |-> g, to |-> b]]
      /\ fragmentCache.buf[g].index = f0 /\ f0 \in 0 .. fragments - 1
      /\ UNCHANGED <<fragmentCache, toFrag, pending, fragTable, fragments, open, spoiled>>
  <2>1. deflator[x].step = "taken" /\ deflator' = [deflator EXCEPT ![x] = [step |-> "compressed", from |-> g, to |-> b]]
    BY <1>1 DEF FragCompress, Now
  <2>2. fragmentCache.buf[g].index \in 0 .. fragments - 1
    BY <1>1, <1>2, NoneIsNone DEF IInv, Numbered, Numbers
  <2> QED BY <1>1, <2>1, <2>2 DEF FragNumber, FragCompress, fragVars, placeVars, searchVars
<1>4. PICK wc, de : wc = writerCache' /\ de = deflator'
  OBVIOUS
<1>5. /\ deflator \in [FragDeflators -> Deflators] /\ pending \in Seq(WriterBuffers) /\ fragments \in Nat
      /\ DOMAIN writerCache.buf = WriterBuffers
  BY FragTypes
<1>6. /\ DOMAIN wc.buf = WriterBuffers /\ wc.buf[b].index = FragIndex(f0) /\ wc.buf[b].data = y
      /\ \A a \in WriterBuffers \ {b} : wc.buf[a] = writerCache.buf[a]
  <2>1. writerCache \in Caches(WriterBuffers, WriterIndexes)
    BY DEF IInv, CacheTypes
  <2> QED BY <1>2, <1>4, <2>1, FreshBuf
<1>7. /\ de[x].step = "compressed" /\ de[x].from = g /\ de[x].to = b
      /\ \A d \in FragDeflators : d # x => de[d] = deflator[d]
  BY <1>3, <1>4, <1>5
<1>8. Waits(toFrag, deflator, fragmentCache, f0)
  BY <1>1, <1>3 DEF Waits
<1>9. \A f : Waits(toFrag, de, fragmentCache, f) => Waits(toFrag, deflator, fragmentCache, f)
  <2>1. \A d \in FragDeflators : de[d].step = "taken" => de[d] = deflator[d]
    BY <1>7
  <2> QED BY <2>1 DEF Waits
<1>10. ~Waits(toFrag, de, fragmentCache, f0)
  <2>1. deflator[x].step \in Unplaced /\ fragmentCache.buf[deflator[x].from].index = f0
    BY <1>1, <1>3 DEF Unplaced
  <2>2. /\ ~ \E k \in 1 .. Len(toFrag) : fragmentCache.buf[toFrag[k]].index = f0
        /\ Hands(deflator, fragmentCache, f0) = 1
    BY <1>3, <2>1, OneWay
  <2>3. ASSUME NEW d \in FragDeflators, de[d].step = "taken", fragmentCache.buf[de[d].from].index = f0 PROVE FALSE
    <3>1. d # x /\ de[d] = deflator[d]
      BY <1>7, <2>3
    <3>2. deflator[d].step \in Unplaced /\ fragmentCache.buf[deflator[d].from].index = f0
      BY <2>3, <3>1 DEF Unplaced
    <3> QED BY <2>1, <2>2, <3>1, <3>2, OneHand
  <2> QED BY <2>2, <2>3 DEF Waits
<1>11. \A k \in 1 .. Len(pending) : pending[k] \in WriterBuffers \ {b}
  BY <1>2, WhoUses
<1>12. ASSUME NEW f \in 0 .. fragments - 1 PROVE Ways(toFrag, de, pending, fragTable, fragmentCache, wc, f) = 1
  <2>1. CountIn(pending, Of(wc, FragIndex(f))) = CountIn(pending, Of(writerCache, FragIndex(f)))
    <3>1. \A k \in 1 .. Len(pending) : pending[k] \in Of(wc, FragIndex(f)) <=> pending[k] \in Of(writerCache, FragIndex(f))
      BY <1>5, <1>6, <1>11 DEF Of
    <3> QED BY <3>1, SameCount
  <2>2. Hands(de, fragmentCache, f) = Hands(deflator, fragmentCache, f)
    <3>1. ASSUME NEW d \in FragDeflators
          PROVE  \/ ~(deflator[d].step \in Unplaced) /\ ~(de[d].step \in Unplaced)
                 \/ /\ de[d].step \in Unplaced /\ deflator[d].step \in Unplaced
                    /\ fragmentCache.buf[de[d].from].index = f <=> fragmentCache.buf[deflator[d].from].index = f
      BY <1>1, <1>3, <1>7 DEF Unplaced
    <3> QED BY <3>1, SameHands
  <2>3. Ways(toFrag, deflator, pending, fragTable, fragmentCache, writerCache, f) = 1
    BY DEF FragInv, FragParts
  <2> QED BY <2>1, <2>2, <2>3 DEF Ways
<1>13. y = FragUnit(f0)
  <2>1. f0 # None
    BY <1>2, NoneIsNone
  <2>2. y = FragUnit(f0) \/ f0 \in spoiled
    BY <1>1, <1>2, <1>3, <2>1 DEF FragInv, FragParts, FragBuffers
  <2>3. f0 \notin spoiled
    BY <1>8 DEF FragInv, FragParts, Spoiled
  <2> QED BY <2>2, <2>3
<1>14. \A a \in WriterBuffers : writerCache.buf[a].index # FragIndex(f0)
  BY <1>2, <1>8 DEF FragInv, FragParts, Compressed
<1>15. \A f : FragIndex(f) = FragIndex(f0) => f = f0
  BY DEF FragIndex
<1>16. Compressed(wc, fragments, toFrag, de, fragmentCache)
  <2>1. SUFFICES ASSUME NEW a \in WriterBuffers, NEW f \in Nat, wc.buf[a].index = FragIndex(f)
                 PROVE  /\ f < fragments /\ wc.buf[a].data = FragUnit(f) /\ ~Waits(toFrag, de, fragmentCache, f)
                        /\ \A d \in WriterBuffers : wc.buf[d].index = FragIndex(f) => a = d
    BY DEF Compressed
  <2>2. CASE a = b
    <3>1. f = f0
      BY <1>6, <1>15, <2>1, <2>2
    <3>2. f < fragments
      BY <1>3, <1>5, <3>1
    <3>3. \A d \in WriterBuffers : wc.buf[d].index = FragIndex(f) => a = d
      BY <1>6, <1>14, <2>2, <3>1
    <3> QED BY <1>6, <1>10, <1>13, <2>2, <3>1, <3>2, <3>3
  <2>3. CASE a # b
    <3>1. writerCache.buf[a].index = FragIndex(f) /\ wc.buf[a] = writerCache.buf[a]
      BY <1>6, <2>1, <2>3
    <3>2. /\ f < fragments /\ writerCache.buf[a].data = FragUnit(f) /\ ~Waits(toFrag, deflator, fragmentCache, f)
          /\ \A d \in WriterBuffers : writerCache.buf[d].index = FragIndex(f) => a = d
      BY <3>1 DEF FragInv, FragParts, Compressed
    <3>3. f # f0
      BY <1>8, <3>2
    <3>4. \A d \in WriterBuffers : wc.buf[d].index = FragIndex(f) => a = d
      <4>1. \A d \in WriterBuffers : wc.buf[d].index = FragIndex(f) => d # b
        BY <1>6, <1>15, <3>3
      <4> QED BY <1>6, <3>2, <4>1
    <3> QED BY <1>9, <3>1, <3>2, <3>4
  <2> QED BY <2>2, <2>3
<1>17. Pairs(de, fragmentCache, wc)
  <2>1. SUFFICES ASSUME NEW d \in FragDeflators, de[d].step \in {"compressed", "deferred", "placed"}
                 PROVE  wc.buf[de[d].to].index = FragIndex(fragmentCache.buf[de[d].from].index)
    BY DEF Pairs
  <2>2. CASE d = x
    BY <1>3, <1>6, <1>7, <2>2
  <2>3. CASE d # x
    <3>1. de[d] = deflator[d]
      BY <1>7, <2>3
    <3>2. deflator[d].to \in WriterBuffers
      BY <2>1, <3>1, DeflatorIs DEF IInv
    <3>3. deflator[d].to # b
      BY <1>2, <3>2, WhoUses, NoneIsNone
    <3>4. writerCache.buf[deflator[d].to].index = FragIndex(fragmentCache.buf[deflator[d].from].index)
      BY <2>1, <3>1 DEF FragInv, FragParts, Pairs
    <3> QED BY <1>6, <3>1, <3>2, <3>3, <3>4
  <2> QED BY <2>2, <2>3
<1>18. FragBuffers(fragmentCache, fragments, open, spoiled)
  BY DEF FragInv, FragParts
<1>19. Spoiled(spoiled, fragments, toFrag, de, fragmentCache)
  BY <1>9 DEF FragInv, FragParts, Spoiled
<1>20. FragParts(toFrag, de, pending, fragTable, fragmentCache, wc, fragments, open, spoiled)
  BY <1>12, <1>16, <1>17, <1>18, <1>19 DEF FragParts
<1> QED BY <1>3, <1>4, <1>20 DEF FragInv

\* The fragment in a deflator's hand and in its write buffer.
LEMMA PairIs ==
  ASSUME IInv, FragInv, NEW x \in FragDeflators, deflator[x].step \in {"compressed", "deferred", "placed"}
  PROVE  LET f == fragmentCache.buf[deflator[x].from].index
         IN  /\ deflator[x].from \in FragmentBuffers /\ deflator[x].to \in WriterBuffers
             /\ writerCache.buf[deflator[x].to].index = FragIndex(f) /\ FragOf(deflator[x].to) = f
             /\ f \in 0 .. fragments - 1 /\ f \in Nat
<1>1. PICK f : f = fragmentCache.buf[deflator[x].from].index
  OBVIOUS
<1>2. deflator[x].from \in FragmentBuffers /\ deflator[x].to \in WriterBuffers
  BY DeflatorIs DEF IInv
<1>3. writerCache.buf[deflator[x].to].index = FragIndex(f)
  BY <1>1 DEF FragInv, FragParts, Pairs
<1>4. f \in 0 .. fragments - 1 /\ fragments \in Nat
  BY <1>1, <1>2, NoneIsNone DEF IInv, Numbered, Numbers, MainTypes
<1>5. FragOf(deflator[x].to) = f
  BY <1>3 DEF FragOf, FragIndex
<1> QED BY <1>1, <1>2, <1>3, <1>4, <1>5

LEMMA TableIs ==
  ASSUME NEW t, NEW n, NEW p
  PROVE  /\ DOMAIN With(t, n, p) = DOMAIN t \cup {n} /\ With(t, n, p)[n] = p
         /\ \A g \in DOMAIN t : g # n => With(t, n, p)[g] = t[g]
BY DEF With

LEMMA FragFragPlace ==
  ASSUME IInv, FragInv, NEW x \in FragDeflators, FragPlace(x)
  PROVE  /\ FragInv'
         /\ ~locked => /\ fragmentCache.buf[deflator[x].from].index \notin DOMAIN fragTable
                       /\ fragTable' = With(fragTable, fragmentCache.buf[deflator[x].from].index, bytes)
<1>1. PICK f0, g, b : f0 = fragmentCache.buf[deflator[x].from].index /\ g = deflator[x].from /\ b = deflator[x].to
  OBVIOUS
<1>2. /\ deflator[x].step = "compressed" /\ deflator \in [FragDeflators -> Deflators]
      /\ UNCHANGED <<fragmentCache, writerCache, toFrag, pending, fragments, open, spoiled>>
  BY FragTypes DEF FragPlace, fragVars, searchVars
<1>3. /\ g \in FragmentBuffers /\ b \in WriterBuffers
      /\ writerCache.buf[b].index = FragIndex(f0) /\ FragOf(b) = f0 /\ f0 \in 0 .. fragments - 1
  BY <1>1, <1>2, PairIs
<1>4. f0 \notin DOMAIN fragTable
  <2>1. deflator[x].step \in Unplaced
    BY <1>2 DEF Unplaced
  <2> QED BY <1>1, <1>3, <2>1, OneWay
<1>a. PICK r, t : /\ r = [step |-> IF locked THEN "deferred" ELSE "placed", from |-> g, to |-> b]
                  /\ t = IF locked THEN fragTable ELSE With(fragTable, f0, bytes)
  OBVIOUS
<1>5. /\ deflator' = [deflator EXCEPT ![x] = r] /\ fragTable' = t /\ r.from = g /\ r.to = b
      /\ (r.step = "deferred" /\ t = fragTable) \/ (r.step = "placed" /\ t = With(fragTable, f0, bytes))
      /\ ~locked => t = With(fragTable, f0, bytes)
  <2>1. CASE locked
    BY <1>1, <1>a, <2>1 DEF FragPlace, Now, placeVars
  <2>2. CASE ~locked
    BY <1>1, <1>3, <1>a, <2>2 DEF FragPlace, Now, Assign
  <2> QED BY <2>1, <2>2
<1>6. PICK de : de = [deflator EXCEPT ![x] = r]
  OBVIOUS
<1>7. de[x] = r /\ \A d \in FragDeflators : d # x => de[d] = deflator[d]
  BY <1>2, <1>6
<1>8. ASSUME NEW f \in 0 .. fragments - 1 PROVE Ways(toFrag, de, pending, t, fragmentCache, writerCache, f) = 1
  <2>1. LessMore(Hands(de, fragmentCache, f), Has(deflator[x], fragmentCache, f), Hands(deflator, fragmentCache, f), Has(r, fragmentCache, f))
    BY <1>2, <1>6, HandsNow
  <2>2. /\ Has(deflator[x], fragmentCache, f) = (IF f = f0 THEN 1 ELSE 0)
        /\ Has(r, fragmentCache, f) = (IF f = f0 /\ r.step = "deferred" THEN 1 ELSE 0)
    BY <1>1, <1>2, <1>5 DEF Has, Unplaced
  <2>3. /\ r.step = "deferred" => Is(f, DOMAIN t) = Is(f, DOMAIN fragTable)
        /\ r.step = "placed" => Is(f, DOMAIN t) = Is(f, DOMAIN fragTable) + (IF f = f0 THEN 1 ELSE 0)
    <3>1. r.step = "placed" => DOMAIN t = DOMAIN fragTable \cup {f0}
      BY <1>5, TableIs
    <3> QED BY <1>4, <1>5, <3>1 DEF Is
  <2>4. /\ CountIn(toFrag, Of(fragmentCache, f)) \in Nat /\ CountIn(pending, Of(writerCache, FragIndex(f))) \in Nat
        /\ Is(f, DOMAIN fragTable) \in Nat
    <3>1. pending \in Seq(WriterBuffers) /\ toFrag \in Seq(FragmentBuffers)
      BY FragTypes
    <3> QED BY <3>1, CountPositive DEF Is
  <2>5. Ways(toFrag, deflator, pending, fragTable, fragmentCache, writerCache, f) = 1
    BY DEF FragInv, FragParts
  <2> QED BY <1>5, <2>1, <2>2, <2>3, <2>4, <2>5 DEF Ways, Sum4, LessMore
<1>9. ASSUME NEW f, Waits(toFrag, de, fragmentCache, f) PROVE Waits(toFrag, deflator, fragmentCache, f)
  <2>1. \A d \in FragDeflators : de[d].step = "taken" => de[d] = deflator[d]
    BY <1>5, <1>7
  <2> QED BY <1>9, <2>1 DEF Waits
<1>10. Pairs(de, fragmentCache, writerCache)
  <2>1. Pairs(deflator, fragmentCache, writerCache)
    BY DEF FragInv, FragParts
  <2>2. writerCache.buf[r.to].index = FragIndex(fragmentCache.buf[r.from].index)
    BY <1>1, <1>3, <1>5
  <2> QED BY <1>7, <2>1, <2>2 DEF Pairs
<1>11. FragParts(toFrag, de, pending, t, fragmentCache, writerCache, fragments, open, spoiled)
  BY <1>8, <1>9, <1>10, FragMove
<1> QED BY <1>1, <1>2, <1>4, <1>5, <1>6, <1>11 DEF FragInv

LEMMA FragFragHandOver ==
  ASSUME IInv, FragInv, NEW x \in FragDeflators, FragHandOver(x)
  PROVE  FragInv'
<1>1. PICK b, r, de : /\ b = deflator[x].to /\ r = [step |-> "done", from |-> deflator[x].from, to |-> None]
                      /\ de = [deflator EXCEPT ![x] = r]
  OBVIOUS
<1>2. /\ deflator \in [FragDeflators -> Deflators] /\ deflator' = de /\ r.step = "done"
      /\ UNCHANGED <<fragmentCache, writerCache, toFrag, fragTable, fragments, open, spoiled>>
  BY <1>1, FragTypes DEF FragHandOver, Now, fragVars, placeVars, searchVars
<1>3. de[x] = r /\ \A d \in FragDeflators : d # x => de[d] = deflator[d]
  BY <1>1, <1>2
<1>4. CASE deflator[x].step = "placed" /\ pending' = pending
  <2>1. SameDeflators(de)
    <3>1. deflator[x].step \notin Unplaced
      BY <1>4 DEF Unplaced
    <3> QED BY <1>2, <1>3, <3>1 DEF SameDeflators
  <2>2. SameFrag(fragmentCache) /\ SameWriter(writerCache)
    BY SameAfter
  <2> QED BY <1>2, <1>4, <2>1, <2>2, FragSame
<1>5. CASE deflator[x].step = "deferred" /\ pending' = Append(pending, b)
  <2>1. PICK pe : pe = Append(pending, b)
    OBVIOUS
  <2>2. PICK f0 : f0 = fragmentCache.buf[deflator[x].from].index
    OBVIOUS
  <2>3. b \in WriterBuffers /\ writerCache.buf[b].index = FragIndex(f0)
    BY <1>1, <1>5, <2>2, PairIs
  <2>4. pending \in Seq(WriterBuffers) /\ toFrag \in Seq(FragmentBuffers) /\ DOMAIN writerCache.buf = WriterBuffers
    BY FragTypes
  <2>5. ASSUME NEW f \in 0 .. fragments - 1 PROVE Ways(toFrag, de, pe, fragTable, fragmentCache, writerCache, f) = 1
    <3>1. LessMore(Hands(de, fragmentCache, f), Has(deflator[x], fragmentCache, f), Hands(deflator, fragmentCache, f), Has(r, fragmentCache, f))
      BY <1>1, <1>2, HandsNow
    <3>2. Has(deflator[x], fragmentCache, f) = (IF f = f0 THEN 1 ELSE 0) /\ Has(r, fragmentCache, f) = 0
      BY <1>2, <1>5, <2>2 DEF Has, Unplaced
    <3>3. PICK P : P = Of(writerCache, FragIndex(f))
      OBVIOUS
    <3>4. CountIn(pe, P) = CountIn(pending, P) + Is(b, P) /\ CountIn(pending, P) \in Nat
      BY <2>1, <2>3, <2>4, CountAppend, CountPositive
    <3>5. Is(b, P) = (IF f = f0 THEN 1 ELSE 0)
      BY <2>3, <2>4, <3>3 DEF Is, Of, FragIndex
    <3>6. CountIn(toFrag, Of(fragmentCache, f)) \in Nat /\ Is(f, DOMAIN fragTable) \in Nat
      BY <2>4, CountPositive DEF Is
    <3>7. Ways(toFrag, deflator, pending, fragTable, fragmentCache, writerCache, f) = 1
      BY DEF FragInv, FragParts
    <3> QED BY <3>1, <3>2, <3>3, <3>4, <3>5, <3>6, <3>7 DEF Ways, Sum4, LessMore
  <2>6. ASSUME NEW f, Waits(toFrag, de, fragmentCache, f) PROVE Waits(toFrag, deflator, fragmentCache, f)
    <3>1. \A d \in FragDeflators : de[d].step = "taken" => de[d] = deflator[d]
      BY <1>2, <1>3
    <3> QED BY <2>6, <3>1 DEF Waits
  <2>7. Pairs(de, fragmentCache, writerCache)
    <3>1. Pairs(deflator, fragmentCache, writerCache)
      BY DEF FragInv, FragParts
    <3> QED BY <1>2, <1>3, <3>1 DEF Pairs
  <2>8. FragParts(toFrag, de, pe, fragTable, fragmentCache, writerCache, fragments, open, spoiled)
    BY <2>5, <2>6, <2>7, FragMove
  <2> QED BY <1>2, <1>5, <2>1, <2>8 DEF FragInv
<1> QED BY <1>1, <1>4, <1>5 DEF FragHandOver

LEMMA FragUnlockPending ==
  ASSUME IInv, FragInv, UnlockPending
  PROVE  /\ FragInv'
         /\ \E f \in 0 .. fragments - 1 : /\ writerCache.buf[Head(pending)].index = FragIndex(f) /\ f \notin DOMAIN fragTable
                                          /\ fragTable' = With(fragTable, f, bytes)
<1>1. PICK b, pe : b = Head(pending) /\ pe = Tail(pending)
  OBVIOUS
<1>2. /\ pending \in Seq(WriterBuffers) /\ pending # <<>> /\ toFrag \in Seq(FragmentBuffers)
      /\ DOMAIN writerCache.buf = WriterBuffers /\ fragments \in Nat
  BY FragTypes DEF UnlockPending
<1>3. b = pending[1] /\ 1 \in 1 .. Len(pending) /\ b \in WriterBuffers
  BY <1>1, <1>2, TailFacts
<1>4. PICK f0 \in 0 .. fragments - 1 : writerCache.buf[b].index = FragIndex(f0)
  <2>1. writerCache.buf[b].index \in {"frag"} \X (0 .. fragments - 1)
    BY <1>3 DEF IInv, Numbered, Numbers
  <2> QED BY <2>1 DEF FragIndex
<1>5. f0 \notin DOMAIN fragTable
  <2>1. \E k \in 1 .. Len(pending) : writerCache.buf[pending[k]].index = FragIndex(f0)
    BY <1>3, <1>4
  <2> QED BY <2>1, OneWay
<1>6. PICK t : t = With(fragTable, f0, bytes)
  OBVIOUS
<1>7. /\ fragTable' = t /\ pending' = pe
      /\ UNCHANGED <<fragmentCache, writerCache, toFrag, deflator, fragments, open, spoiled>>
  <2>1. FragOf(b) = f0
    BY <1>4 DEF FragOf, FragIndex
  <2> QED BY <1>1, <1>6, <2>1 DEF UnlockPending, Assign, fragVars, searchVars
<1>8. ASSUME NEW f \in 0 .. fragments - 1 PROVE Ways(toFrag, deflator, pe, t, fragmentCache, writerCache, f) = 1
  <2>1. PICK P : P = Of(writerCache, FragIndex(f))
    OBVIOUS
  <2>2. CountIn(pending, P) = CountIn(pe, P) + Is(b, P) /\ CountIn(pe, P) \in Nat
    BY <1>1, <1>2, CountTail
  <2>3. Is(b, P) = (IF f = f0 THEN 1 ELSE 0)
    BY <1>2, <1>3, <1>4, <2>1 DEF Is, Of, FragIndex
  <2>4. Is(f, DOMAIN t) = Is(f, DOMAIN fragTable) + (IF f = f0 THEN 1 ELSE 0)
    <3>1. DOMAIN t = DOMAIN fragTable \cup {f0}
      BY <1>6, TableIs
    <3> QED BY <1>5, <3>1 DEF Is
  <2>5. CountIn(toFrag, Of(fragmentCache, f)) \in Nat /\ Is(f, DOMAIN fragTable) \in Nat /\ Hands(deflator, fragmentCache, f) \in Nat
    BY <1>2, CountPositive, HandsFacts DEF Is
  <2>6. Ways(toFrag, deflator, pending, fragTable, fragmentCache, writerCache, f) = 1
    BY DEF FragInv, FragParts
  <2> QED BY <2>1, <2>2, <2>3, <2>4, <2>5, <2>6 DEF Ways, Sum4
<1>9. Pairs(deflator, fragmentCache, writerCache)
  BY DEF FragInv, FragParts
<1>10. FragParts(toFrag, deflator, pe, t, fragmentCache, writerCache, fragments, open, spoiled)
  BY <1>8, <1>9, FragMove
<1> QED BY <1>1, <1>4, <1>5, <1>6, <1>7, <1>10 DEF FragInv

-----------------------------------------------------------------------------
(* What the main thread does next.                                         *)

LEMMA StageIs ==
  ASSUME todo \in Stages
  PROVE  /\ At("blocks") => todo = <<"blocks">>
         /\ At("search") => todo = <<"search">>
         /\ At("putback") => todo = <<"putback">>
         /\ At("drain") => todo = <<"drain">>
         /\ At("truncate") => todo = <<"truncate", "unlock">>
         /\ At("fill") => todo \in {<<"fill">>, <<"fill", "unlock">>}
         /\ At("unlock") => todo \in {<<"unlock">>, <<"unlock", "fill">>, <<"unlock", "drain">>}
         /\ At("read") => todo[2] \in Nat /\ todo = <<"read", todo[2], "search">>
<1>1. CASE todo \in {<<"read", f, "search">> : f \in Nat}
  BY <1>1 DEF At
<1>2. CASE todo \notin {<<"read", f, "search">> : f \in Nat}
  BY <1>2 DEF At, Stages
<1> QED BY <1>1, <1>2

Words == Steps \cup {"read"}
LEMMA Joins ==
  ASSUME NEW a \in Words, NEW b \in Words, NEW f \in Nat
  PROVE  /\ Tail(<<a>>) = <<>> /\ Tail(<<a, b>>) = <<b>> /\ Tail(Tail(<<a, f, b>>)) = <<b>>
         /\ <<>> \o <<>> = <<>> /\ <<a>> \o <<>> = <<a>> /\ <<>> \o <<a>> = <<a>>
         /\ <<a>> \o <<b>> = <<a, b>> /\ <<a, b>> \o <<>> = <<a, b>> /\ <<a, f>> \o <<b>> = <<a, f, b>>
<1>1. Tail(<<a>>) = <<>>
  OBVIOUS
<1>2. Tail(<<a, b>>) = <<b>>
  OBVIOUS
<1>3. Tail(<<a, f, b>>) = <<f, b>>
  OBVIOUS
<1>4. Tail(<<f, b>>) = <<b>>
  OBVIOUS
<1>5. <<>> \o <<>> = <<>>
  OBVIOUS
<1>6. <<a>> \o <<>> = <<a>>
  OBVIOUS
<1>7. <<>> \o <<a>> = <<a>>
  OBVIOUS
<1>8. <<a>> \o <<b>> = <<a, b>>
  <2>1. PICK s, t, r : s = <<a>> /\ t = <<b>> /\ r = s \o t
    OBVIOUS
  <2>2. s \in Seq(Words) /\ t \in Seq(Words) /\ Len(s) = 1 /\ Len(t) = 1 /\ s[1] = a /\ t[1] = b
    BY <2>1
  <2>3. r \in Seq(Words) /\ Len(r) = 2 /\ r[1] = a /\ r[2] = b
    BY <2>1, <2>2
  <2>4. r = <<a, b>>
    BY <2>3
  <2> QED BY <2>1, <2>4
<1>9. <<a, b>> \o <<>> = <<a, b>>
  OBVIOUS
<1>10. <<a, f>> \o <<b>> = <<a, f, b>>
  <2>1. PICK T, s, t, r : T = Words \cup Nat /\ s = <<a, f>> /\ t = <<b>> /\ r = s \o t
    OBVIOUS
  <2>2. s \in Seq(T) /\ t \in Seq(T) /\ Len(s) = 2 /\ Len(t) = 1 /\ s[1] = a /\ s[2] = f /\ t[1] = b
    BY <2>1
  <2>3. r \in Seq(T) /\ Len(r) = 3 /\ r[1] = a /\ r[2] = f /\ r[3] = b
    BY <2>1, <2>2
  <2>4. r = <<a, f, b>>
    BY <2>3
  <2> QED BY <2>1, <2>4
<1> QED BY <1>1, <1>2, <1>3, <1>4, <1>5, <1>6, <1>7, <1>8, <1>9, <1>10

LEMMA NextStage ==
  ASSUME todo \in Stages, file.size = 0 => file.thresh = 0, file.size \in Nat
  PROVE  /\ NextFile => todo' \in {<<"search">>, <<"fill">>, <<"blocks">>}
         /\ EndBlocks => todo' = IF file.dup THEN <<"search">> ELSE IF file.tail THEN <<"unlock", "fill">> ELSE <<"unlock">>
         /\ Unique => todo' \in {<<>>, <<"fill">>, <<"unlock">>, <<"fill", "unlock">>}
         /\ Duplicate => todo' = <<"putback">>
         /\ RollBack => todo' \in {<<>>, <<"unlock">>, <<"truncate", "unlock">>}
         /\ Truncate => todo' = <<"unlock">>
         /\ FillFragment => todo' \in {<<>>, <<"unlock">>}
         /\ UnlockDone => todo' \in {<<>>, <<"fill">>, <<"drain">>}
         /\ ReadFragment => todo' = <<"search">>
         /\ \A f \in Nat : GetFragment(f) => todo' = <<"search">> \/ todo' = <<"read", f, "search">>
         /\ LastFragment => todo' = <<"unlock", "drain">>
         /\ Drain => todo' = <<"drained">>
<1>1. NextFile => todo' \in {<<"search">>, <<"fill">>, <<"blocks">>}
  BY DEF NextFile, SmallFile, BlocksFile
<1>2. EndBlocks => todo' = IF file.dup THEN <<"search">> ELSE IF file.tail THEN <<"unlock", "fill">> ELSE <<"unlock">>
  <2>1. /\ Tail(<<"blocks">>) = <<>> /\ <<"search">> \o <<>> = <<"search">> /\ <<"unlock">> \o <<"fill">> = <<"unlock", "fill">>
        /\ <<"unlock">> \o <<>> = <<"unlock">> /\ <<"unlock", "fill">> \o <<>> = <<"unlock", "fill">>
    BY Joins DEF Words, Steps
  <2>2. EndBlocks => todo = <<"blocks">>
    BY StageIs DEF EndBlocks
  <2> QED BY <2>1, <2>2, Zenon DEF EndBlocks, Then, Fill
<1>3. Unique => todo' \in {<<>>, <<"fill">>, <<"unlock">>, <<"fill", "unlock">>}
  <2>1. /\ Tail(<<"search">>) = <<>> /\ <<>> \o <<>> = <<>> /\ <<"fill">> \o <<>> = <<"fill">>
        /\ <<>> \o <<"unlock">> = <<"unlock">> /\ <<"unlock">> \o <<>> = <<"unlock">>
        /\ <<"fill">> \o <<"unlock">> = <<"fill", "unlock">> /\ <<"fill", "unlock">> \o <<>> = <<"fill", "unlock">>
    BY Joins DEF Words, Steps
  <2>2. Unique => todo = <<"search">> /\ Then(Fill \o Unlock)
    BY StageIs DEF Unique, Looking
  <2>3. ASSUME Unique PROVE todo' \in {<<>>, <<"fill">>, <<"unlock">>, <<"fill", "unlock">>}
    <3>1. todo' = (Fill \o Unlock) \o <<>>
      BY <2>1, <2>2, <2>3 DEF Then
    <3>2. /\ Fill = <<"fill">> \/ Fill = <<>>
          /\ Unlock = <<"unlock">> \/ Unlock = <<>>
      BY DEF Fill, Unlock
    <3>3. CASE Fill = <<"fill">> /\ Unlock = <<"unlock">>
      BY <2>1, <3>1, <3>3, Zenon
    <3>4. CASE Fill = <<"fill">> /\ Unlock = <<>>
      BY <2>1, <3>1, <3>4, Zenon
    <3>5. CASE Fill = <<>> /\ Unlock = <<"unlock">>
      BY <2>1, <3>1, <3>5, Zenon
    <3>6. CASE Fill = <<>> /\ Unlock = <<>>
      BY <2>1, <3>1, <3>6, Zenon
    <3> QED BY <3>2, <3>3, <3>4, <3>5, <3>6, Zenon
  <2> QED BY <2>3
<1>4. Duplicate => todo' = <<"putback">>
  <2>1. Tail(<<"search">>) = <<>> /\ <<"putback">> \o <<>> = <<"putback">>
    BY Joins DEF Words, Steps
  <2>2. Duplicate => todo = <<"search">> /\ Then(<<"putback">>)
    BY StageIs DEF Duplicate, Looking
  <2> QED BY <2>1, <2>2, Zenon DEF Then
<1>5. RollBack => todo' \in {<<>>, <<"unlock">>, <<"truncate", "unlock">>}
  <2>1. /\ Tail(<<"putback">>) = <<>> /\ <<>> \o <<>> = <<>> /\ <<>> \o <<"unlock">> = <<"unlock">>
        /\ <<"unlock">> \o <<>> = <<"unlock">>
        /\ <<"truncate">> \o <<"unlock">> = <<"truncate", "unlock">>
        /\ <<"truncate", "unlock">> \o <<>> = <<"truncate", "unlock">>
    BY Joins DEF Words, Steps
  <2>2. ASSUME RollBack PROVE todo' \in {<<>>, <<"unlock">>, <<"truncate", "unlock">>}
    <3>1. todo = <<"putback">> /\ Then((IF MustFlush THEN <<"truncate">> ELSE <<>>) \o Unlock)
      BY <2>2, StageIs DEF RollBack
    <3>2. CASE MustFlush
      <4>1. Unlock = <<"unlock">>
        BY <3>2 DEF MustFlush, Unlock
      <4> QED BY <2>1, <3>1, <3>2, <4>1, Zenon DEF Then
    <3>3. CASE ~MustFlush
      <4>1. Unlock = <<"unlock">> \/ Unlock = <<>>
        BY DEF Unlock
      <4> QED BY <2>1, <3>1, <3>3, <4>1, Zenon DEF Then
    <3> QED BY <3>2, <3>3
  <2> QED BY <2>2
<1>6. Truncate => todo' = <<"unlock">>
  <2>1. Tail(<<"truncate", "unlock">>) = <<"unlock">> /\ <<>> \o <<"unlock">> = <<"unlock">>
    BY Joins DEF Words, Steps
  <2>2. Truncate => todo = <<"truncate", "unlock">> /\ Then(<<>>)
    BY StageIs DEF Truncate
  <2> QED BY <2>1, <2>2, Zenon DEF Then
<1>7. FillFragment => todo' \in {<<>>, <<"unlock">>}
  <2>1. /\ Tail(<<"fill">>) = <<>> /\ Tail(<<"fill", "unlock">>) = <<"unlock">> /\ <<>> \o <<>> = <<>>
        /\ <<>> \o <<"unlock">> = <<"unlock">>
    BY Joins DEF Words, Steps
  <2>2. FillFragment => todo \in {<<"fill">>, <<"fill", "unlock">>} /\ Then(<<>>)
    BY StageIs DEF FillFragment
  <2> QED BY <2>1, <2>2, Zenon DEF Then
<1>8. UnlockDone => todo' \in {<<>>, <<"fill">>, <<"drain">>}
  <2>1. /\ Tail(<<"unlock">>) = <<>> /\ Tail(<<"unlock", "fill">>) = <<"fill">> /\ Tail(<<"unlock", "drain">>) = <<"drain">>
        /\ <<>> \o <<>> = <<>> /\ <<>> \o <<"fill">> = <<"fill">> /\ <<>> \o <<"drain">> = <<"drain">>
    BY Joins DEF Words, Steps
  <2>2. UnlockDone => todo \in {<<"unlock">>, <<"unlock", "fill">>, <<"unlock", "drain">>} /\ Then(<<>>)
    BY StageIs DEF UnlockDone
  <2> QED BY <2>1, <2>2, Zenon DEF Then
<1>9. ReadFragment => todo' = <<"search">>
  <2>1. \A f \in Nat : Tail(Tail(<<"read", f, "search">>)) = <<"search">>
    BY Joins DEF Words, Steps
  <2>2. ReadFragment => todo[2] \in Nat /\ todo = <<"read", todo[2], "search">> /\ todo' = Tail(Tail(todo))
    BY StageIs DEF ReadFragment
  <2> QED BY <2>1, <2>2, Zenon
<1>10. \A f \in Nat : GetFragment(f) => todo' = <<"search">> \/ todo' = <<"read", f, "search">>
  <2>1. ASSUME NEW f \in Nat PROVE <<"read", f>> \o <<"search">> = <<"read", f, "search">>
    BY Joins DEF Words, Steps
  <2>2. \A f \in Nat : GetFragment(f) => todo = <<"search">> /\ (todo' = todo \/ todo' = <<"read", f>> \o todo)
    BY StageIs DEF GetFragment, Looking
  <2> QED BY <2>1, <2>2, Zenon
<1>11. LastFragment => todo' = <<"unlock", "drain">>
  BY DEF LastFragment
<1>12. Drain => todo' = <<"drained">>
  BY DEF Drain
<1> QED BY <1>1, <1>2, <1>3, <1>4, <1>5, <1>6, <1>7, <1>8, <1>9, <1>10, <1>11, <1>12

-----------------------------------------------------------------------------
(* The main thread's steps with fragments.                                 *)

LEMMA FragClose ==
  ASSUME IInv, FragInv, open # None,
         toFrag' = Append(toFrag, open), fragments' = fragments + 1, open' = None,
         UNCHANGED <<fragmentCache, writerCache, deflator, pending, fragTable, spoiled>>
  PROVE  FragInv'
<1>1. PICK n, tf : n = fragments /\ tf = Append(toFrag, open)
  OBVIOUS
<1>2. /\ toFrag \in Seq(FragmentBuffers) /\ pending \in Seq(WriterBuffers) /\ n \in Nat
      /\ open \in FragmentBuffers /\ DOMAIN fragmentCache.buf = FragmentBuffers /\ DOMAIN writerCache.buf = WriterBuffers
      /\ DOMAIN fragTable \subseteq 0 .. n - 1
  BY <1>1, FragTypes DEF Table
<1>3. /\ fragmentCache.buf[open].index = n
      /\ \A d \in FragDeflators : deflator[d].from # None => fragmentCache.buf[deflator[d].from].index \in 0 .. n - 1
      /\ \A k \in 1 .. Len(pending) : writerCache.buf[pending[k]].index \in {"frag"} \X (0 .. n - 1)
      /\ \A k \in 1 .. Len(toFrag) : fragmentCache.buf[toFrag[k]].index \in 0 .. n - 1
  BY <1>1 DEF IInv, Numbered, Numbers
<1>4. /\ Len(tf) = Len(toFrag) + 1 /\ tf[Len(toFrag) + 1] = open /\ Len(toFrag) \in Nat
      /\ \A k \in 1 .. Len(toFrag) : tf[k] = toFrag[k]
  BY <1>1, <1>2
<1>5. ASSUME NEW f \in 0 .. n PROVE Ways(tf, deflator, pending, fragTable, fragmentCache, writerCache, f) = 1
  <2>1. PICK S, P : S = Of(fragmentCache, f) /\ P = Of(writerCache, FragIndex(f))
    OBVIOUS
  <2>2. CountIn(tf, S) = CountIn(toFrag, S) + Is(open, S) /\ CountIn(toFrag, S) \in Nat
    BY <1>1, <1>2, CountAppend, CountPositive
  <2>3. Is(open, S) = IF f = n THEN 1 ELSE 0
    BY <1>2, <1>3, <2>1 DEF Is, Of
  <2>4. CASE f = n
    <3>1. CountIn(toFrag, S) = 0
      <4>1. ~ \E k \in 1 .. Len(toFrag) : toFrag[k] \in S
        BY <1>2, <1>3, <2>1, <2>4 DEF Of
      <4> QED BY <1>2, <2>2, <4>1, CountPositive
    <3>2. CountIn(pending, P) = 0
      <4>1. ~ \E k \in 1 .. Len(pending) : pending[k] \in P
        BY <1>2, <1>3, <2>1, <2>4 DEF Of, FragIndex
      <4>2. CountIn(pending, P) \in Nat /\ ~(CountIn(pending, P) > 0)
        BY <1>2, <4>1, CountPositive
      <4> QED BY <4>2
    <3>3. Hands(deflator, fragmentCache, f) = 0
      <4>1. \A d \in FragDeflators : deflator[d].step \in Unplaced => deflator[d].from \in FragmentBuffers
        BY DeflatorIs DEF IInv, Unplaced
      <4>2. \A d \in FragDeflators : deflator[d].step \in Unplaced => fragmentCache.buf[deflator[d].from].index # f
        BY <1>2, <1>3, <2>4, <4>1, NoneIsNone
      <4>3. Hands(deflator, fragmentCache, f) \in Nat /\ ~(Hands(deflator, fragmentCache, f) > 0)
        BY <4>2, HandsFacts
      <4> QED BY <4>3
    <3>4. Is(f, DOMAIN fragTable) = 0
      BY <1>2, <2>4 DEF Is
    <3> QED BY <2>1, <2>2, <2>3, <2>4, <3>1, <3>2, <3>3, <3>4 DEF Ways, Sum4
  <2>5. CASE f # n
    <3>1. f \in 0 .. fragments - 1
      BY <1>1, <1>2, <2>5
    <3>2. Ways(toFrag, deflator, pending, fragTable, fragmentCache, writerCache, f) = 1
      BY <3>1 DEF FragInv, FragParts
    <3>3. CountIn(tf, S) = CountIn(toFrag, S)
      BY <2>2, <2>3, <2>5
    <3> QED BY <2>1, <3>2, <3>3 DEF Ways
  <2> QED BY <2>4, <2>5
<1>6. ASSUME NEW f, Waits(tf, deflator, fragmentCache, f), f # n PROVE Waits(toFrag, deflator, fragmentCache, f)
  <2>1. CASE \E d \in FragDeflators : deflator[d].step = "taken" /\ fragmentCache.buf[deflator[d].from].index = f
    BY <2>1 DEF Waits
  <2>2. ASSUME NEW k \in 1 .. Len(tf), fragmentCache.buf[tf[k]].index = f PROVE Waits(toFrag, deflator, fragmentCache, f)
    <3>1. k # Len(toFrag) + 1
      BY <1>3, <1>4, <1>6, <2>2
    <3>2. k \in 1 .. Len(toFrag) /\ fragmentCache.buf[toFrag[k]].index = f
      BY <1>4, <2>2, <3>1
    <3> QED BY <3>2 DEF Waits
  <2> QED BY <1>6, <2>1, <2>2 DEF Waits
<1>7. FragBuffers(fragmentCache, n + 1, None, spoiled)
  BY <1>1, <1>2 DEF FragInv, FragParts, FragBuffers
<1>8. Compressed(writerCache, n + 1, tf, deflator, fragmentCache)
  <2>1. Compressed(writerCache, n, toFrag, deflator, fragmentCache)
    BY <1>1 DEF FragInv, FragParts
  <2> QED BY <1>2, <1>6, <2>1 DEF Compressed
<1>9. Spoiled(spoiled, n + 1, tf, deflator, fragmentCache)
  <2>1. Spoiled(spoiled, n, toFrag, deflator, fragmentCache)
    BY <1>1 DEF FragInv, FragParts
  <2> QED BY <1>2, <1>6, <2>1 DEF Spoiled
<1>10. Pairs(deflator, fragmentCache, writerCache)
  BY DEF FragInv, FragParts
<1>11. \A f \in 0 .. (n + 1) - 1 : Ways(tf, deflator, pending, fragTable, fragmentCache, writerCache, f) = 1
  BY <1>2, <1>5
<1>12. FragParts(tf, deflator, pending, fragTable, fragmentCache, writerCache, n + 1, None, spoiled)
  BY <1>7, <1>8, <1>9, <1>10, <1>11 DEF FragParts
<1> QED BY <1>1, <1>12 DEF FragInv

LEMMA FragCloses == IInv /\ FragInv /\ (FillFull \/ LastFragment) => FragInv'
<1> SUFFICES ASSUME IInv, FragInv, FillFull \/ LastFragment PROVE FragInv'
  OBVIOUS
<1>1. CASE open # None
  <2>1. /\ CloseFragment
    BY <1>1 DEF FillFull, LastFragment
  <2>2. /\ toFrag' = Append(toFrag, open) /\ fragments' = fragments + 1 /\ open' = None
        /\ UNCHANGED <<fragmentCache, writerCache, deflator, pending, fragTable, spoiled>>
    BY <2>1 DEF CloseFragment, placeVars, searchVars
  <2> QED BY <1>1, <2>2, FragClose
<1>2. CASE open = None
  <2>1. UNCHANGED <<fragmentCache, writerCache, deflator, toFrag, pending, fragTable, fragments, open, spoiled>>
    BY <1>2 DEF FillFull, LastFragment, fragVars, placeVars, searchVars
  <2>2. SameFrag(fragmentCache) /\ SameWriter(writerCache) /\ SameDeflators(deflator)
    BY SameAfter
  <2> QED BY <2>1, <2>2, FragSame
<1> QED BY <1>1, <1>2

\* A buffer is taken for a number that no buffer has.
LEMMA FragFresh ==
  ASSUME IInv, FragInv, NEW b \in FragmentBuffers, fragmentCache.buf[b].used = 0,
         NEW i \in Nat, \A a \in FragmentBuffers : fragmentCache.buf[a].index # i,
         NEW x, NEW fc, fc = Fresh(fragmentCache, b, i, x), NEW o, o = open \/ open = None,
         i \in 0 .. fragments - 1 \/ (i = fragments /\ o = b),
         NEW sp, sp = spoiled \/ (sp = spoiled \cup {i} /\ i \in 0 .. fragments - 1),
         x = FragUnit(i) \/ i \in sp
  PROVE  FragParts(toFrag, deflator, pending, fragTable, fc, writerCache, fragments, o, sp)
<1>1. /\ toFrag \in Seq(FragmentBuffers) /\ fragments \in Nat /\ DOMAIN fragmentCache.buf = FragmentBuffers
      /\ \A k \in 1 .. Len(toFrag) : toFrag[k] \in FragmentBuffers \ {b}
  BY FragTypes, WhoUses
<1>2. /\ DOMAIN fc.buf = FragmentBuffers /\ fc.buf[b].index = i /\ fc.buf[b].data = x
      /\ \A a \in FragmentBuffers \ {b} : fc.buf[a] = fragmentCache.buf[a]
  <2>1. fragmentCache \in Caches(FragmentBuffers, Nat)
    BY DEF IInv, CacheTypes
  <2> QED BY <2>1, FreshBuf
<1>3. \A d \in FragDeflators : deflator[d].step \in {"taken", "compressed", "deferred", "placed"} =>
         deflator[d].from \in FragmentBuffers \ {b}
  <2>1. \A d \in FragDeflators : deflator[d].step \in {"taken", "compressed", "deferred", "placed"} =>
           deflator[d].from \in FragmentBuffers
    BY DeflatorIs DEF IInv
  <2> QED BY <2>1, WhoUses, NoneIsNone
<1>4. \A f \in 0 .. fragments - 1 : Ways(toFrag, deflator, pending, fragTable, fc, writerCache, f) = 1
  <2> TAKE f \in 0 .. fragments - 1
  <2>1. CountIn(toFrag, Of(fc, f)) = CountIn(toFrag, Of(fragmentCache, f))
    <3>1. \A k \in 1 .. Len(toFrag) : toFrag[k] \in Of(fc, f) <=> toFrag[k] \in Of(fragmentCache, f)
      BY <1>1, <1>2 DEF Of
    <3> QED BY <3>1, SameCount
  <2>2. Hands(deflator, fc, f) = Hands(deflator, fragmentCache, f)
    <3>1. ASSUME NEW d \in FragDeflators
          PROVE  \/ ~(deflator[d].step \in Unplaced) /\ ~(deflator[d].step \in Unplaced)
                 \/ /\ deflator[d].step \in Unplaced /\ deflator[d].step \in Unplaced
                    /\ fc.buf[deflator[d].from].index = f <=> fragmentCache.buf[deflator[d].from].index = f
      BY <1>2, <1>3 DEF Unplaced
    <3> QED BY <3>1, SameHands
  <2>3. Ways(toFrag, deflator, pending, fragTable, fragmentCache, writerCache, f) = 1
    BY DEF FragInv, FragParts
  <2> QED BY <2>1, <2>2, <2>3 DEF Ways
<1>5. ASSUME NEW f, Waits(toFrag, deflator, fc, f) PROVE Waits(toFrag, deflator, fragmentCache, f) /\ f # i
  <2>1. CASE \E k \in 1 .. Len(toFrag) : fc.buf[toFrag[k]].index = f
    <3>1. PICK k \in 1 .. Len(toFrag) : fc.buf[toFrag[k]].index = f
      BY <2>1
    <3>2. fragmentCache.buf[toFrag[k]].index = f /\ toFrag[k] \in FragmentBuffers
      BY <1>1, <1>2, <3>1
    <3> QED BY <3>2 DEF Waits
  <2>2. CASE \E d \in FragDeflators : deflator[d].step = "taken" /\ fc.buf[deflator[d].from].index = f
    <3>1. PICK d \in FragDeflators : deflator[d].step = "taken" /\ fc.buf[deflator[d].from].index = f
      BY <2>2
    <3>2. fragmentCache.buf[deflator[d].from].index = f /\ deflator[d].from \in FragmentBuffers
      BY <1>2, <1>3, <3>1
    <3> QED BY <3>1, <3>2 DEF Waits
  <2> QED BY <1>5, <2>1, <2>2 DEF Waits
<1>6. FragBuffers(fc, fragments, o, sp)
  <2>1. FragBuffers(fragmentCache, fragments, open, spoiled)
    BY DEF FragInv, FragParts
  <2>2. SUFFICES ASSUME NEW a \in FragmentBuffers, fc.buf[a].index # None
                 PROVE  /\ fc.buf[a].index \in 0 .. fragments - 1 \/ (fc.buf[a].index = fragments /\ o = a)
                        /\ \A d \in FragmentBuffers : fc.buf[d].index = fc.buf[a].index => a = d
                        /\ fc.buf[a].data = FragUnit(fc.buf[a].index) \/ fc.buf[a].index \in sp
    BY DEF FragBuffers
  <2>3. CASE a = b
    BY <1>2, <2>3
  <2>4. CASE a # b
    <3>1. fc.buf[a] = fragmentCache.buf[a]
      BY <1>2, <2>4
    <3>2. /\ fragmentCache.buf[a].index \in 0 .. fragments - 1 \/ (fragmentCache.buf[a].index = fragments /\ open = a)
          /\ \A d \in FragmentBuffers : fragmentCache.buf[d].index = fragmentCache.buf[a].index => a = d
          /\ fragmentCache.buf[a].data = FragUnit(fragmentCache.buf[a].index) \/ fragmentCache.buf[a].index \in spoiled
      BY <2>1, <2>2, <3>1 DEF FragBuffers
    <3>3. open = a => o = a
      BY NoneIsNone
    <3>4. \A d \in FragmentBuffers : fc.buf[d].index = fc.buf[a].index => a = d
      BY <1>2, <3>1, <3>2
    <3> QED BY <3>1, <3>2, <3>3, <3>4
  <2> QED BY <2>3, <2>4
<1>7. Compressed(writerCache, fragments, toFrag, deflator, fc)
  BY <1>5 DEF FragInv, FragParts, Compressed
<1>8. Pairs(deflator, fc, writerCache)
  BY <1>2, <1>3 DEF FragInv, FragParts, Pairs
<1>9. Spoiled(sp, fragments, toFrag, deflator, fc)
  BY <1>5 DEF FragInv, FragParts, Spoiled
<1> QED BY <1>4, <1>6, <1>7, <1>8, <1>9 DEF FragParts

-----------------------------------------------------------------------------
(* What the lookups may ask for.                                           *)

LEMMA IndexIs ==
  /\ \A p, q : AtPosition(p) = AtPosition(q) => p = q
  /\ \A f, g : FragIndex(f) = FragIndex(g) => f = g
  /\ \A p, f : AtPosition(p) # FragIndex(f) /\ AtPosition(p) \notin FragKeys
  /\ \A p \in Nat : AtPosition(p) \in WriterIndexes /\ AtPosition(p) # None
  /\ \A f \in Nat : FragIndex(f) \in WriterIndexes /\ FragIndex(f) \in FragKeys /\ FragIndex(f) # None
<1>1. \A p, q : AtPosition(p) = AtPosition(q) => p = q
  BY DEF AtPosition
<1>2. \A f, g : FragIndex(f) = FragIndex(g) => f = g
  BY DEF FragIndex
<1>3. \A p, f : AtPosition(p) # FragIndex(f) /\ AtPosition(p) \notin FragKeys
  BY DEF AtPosition, FragIndex, FragKeys
<1>4. \A p \in Nat : AtPosition(p) \in WriterIndexes
  BY DEF AtPosition, WriterIndexes, Positions
<1>5. \A f \in Nat : FragIndex(f) \in WriterIndexes /\ FragIndex(f) \in FragKeys
  BY DEF FragIndex, WriterIndexes, FragKeys
<1> QED BY <1>1, <1>2, <1>3, <1>4, <1>5, NoneIsNone

LEMMA UnitsAre ==
  ASSUME IInv, Places
  PROVE  /\ Base \in Nat /\ Base <= bytes /\ file.start \in Nat /\ bytes \in Nat /\ file.size \in Nat /\ file.thresh \in Nat
         /\ \A u \in committed : u \in Nat \X ({"block"} \X Nat \X Nat) /\ u[1] < Base
         /\ \A u \in Units : \E k \in 0 .. Len(blocks) - 1 : u = <<file.start + k, BlockUnit(file, k)>> /\ ~At("putback")
         /\ \A u \in committed \cup Units : u[1] \in Nat /\ u[1] < bytes /\ u = <<u[1], u[2]>>
<1>1. /\ file.start \in Nat /\ bytes \in Nat /\ Len(blocks) \in Nat /\ file.size \in Nat /\ file.thresh \in Nat
  BY DEF IInv, HandTypes, MainTypes, Files
<1>2. Base \in Nat /\ Base <= bytes
  BY <1>1 DEF Places, Base
<1>3. \A u \in committed : u \in Nat \X ({"block"} \X Nat \X Nat) /\ u[1] < Base
  BY <1>2 DEF Places
<1>4. \A u \in Units : \E k \in 0 .. Len(blocks) - 1 : u = <<file.start + k, BlockUnit(file, k)>> /\ ~At("putback")
  BY <1>1 DEF Units
<1>5. ASSUME NEW u \in committed PROVE u[1] \in Nat /\ u[1] < bytes /\ u = <<u[1], u[2]>>
  BY <1>1, <1>2, <1>3
<1>6. ASSUME NEW u \in Units PROVE u[1] \in Nat /\ u[1] < bytes /\ u = <<u[1], u[2]>>
  <2>1. PICK k \in 0 .. Len(blocks) - 1 : u = <<file.start + k, BlockUnit(file, k)>>
    BY <1>4
  <2>2. CASE InHand
    BY <1>1, <2>1, <2>2 DEF Places
  <2>3. CASE ~InHand
    BY <1>5, <2>3 DEF Places
  <2> QED BY <2>2, <2>3
<1> QED BY <1>1, <1>2, <1>3, <1>4, <1>5, <1>6

LEMMA WantedIs ==
  ASSUME IInv, Places
  PROVE  /\ \A w \in Wanted : /\ Want(w) /\ w[2] < bytes /\ w = <<w[1], w[2], w[3]>>
                              /\ \/ \E u \in committed \cup Units : w = WantedBlock(u) /\ w[1] = AtPosition(w[2])
                                 \/ \E f \in DOMAIN fragTable : w = WantedFragment(f, fragTable[f]) /\ w[1] = FragIndex(f)
         /\ \A u \in committed \cup Units : WantedBlock(u) \in Wanted
         /\ \A f \in DOMAIN fragTable : WantedFragment(f, fragTable[f]) \in Wanted
<1>1. ASSUME NEW u \in committed \cup Units
      PROVE  LET w == WantedBlock(u) IN Want(w) /\ w[2] < bytes /\ w = <<w[1], w[2], w[3]>> /\ w[1] = AtPosition(w[2])
  <2>1. u[1] \in Nat /\ u[1] < bytes
    BY UnitsAre
  <2>2. AtPosition(u[1]) \in WriterIndexes
    BY <2>1, IndexIs
  <2> QED BY <2>1, <2>2 DEF WantedBlock, Want
<1>2. ASSUME NEW f \in DOMAIN fragTable
      PROVE  LET w == WantedFragment(f, fragTable[f]) IN Want(w) /\ w[2] < bytes /\ w = <<w[1], w[2], w[3]>> /\ w[1] = FragIndex(f)
  <2>1. f \in Nat /\ fragTable[f] \in Nat
    BY FragTypes DEF Table
  <2>2. fragTable[f] < bytes
    BY <2>1, UnitsAre DEF Places
  <2>3. FragIndex(f) \in WriterIndexes
    BY <2>1, IndexIs
  <2> QED BY <2>1, <2>2, <2>3 DEF WantedFragment, Want
<1> QED BY <1>1, <1>2, Zenon DEF Wanted

LEMMA InUseNow == IInv => InUse(writerCache, toWriter, blocks, deflator)
<1> SUFFICES ASSUME IInv PROVE InUse(writerCache, toWriter, blocks, deflator)
  OBVIOUS
<1>1. ASSUME NEW m \in 1 .. Len(toWriter), toWriter[m] \in WriterBuffers \X Nat PROVE writerCache.buf[toWriter[m][1]].used > 0
  BY <1>1, WhoUses, FlushIs
<1>2. ASSUME NEW k \in 1 .. Len(blocks), blocks[k] \in WriterBuffers PROVE writerCache.buf[blocks[k]].used > 0
  BY <1>2, WhoUses, NoneIsNone
<1>3. ASSUME NEW d \in FragDeflators, deflator[d].step = "placed" PROVE writerCache.buf[deflator[d].to].used > 0
  <2>1. deflator[d].to \in WriterBuffers
    BY <1>3, DeflatorIs DEF IInv
  <2> QED BY <2>1, WhoUses, NoneIsNone
<1> QED BY <1>1, <1>2, <1>3 DEF InUse

\* A fragment with a place is found: in the one buffer that has its number, or there.
LEMMA DataFound ==
  ASSUME IInv, FragInv, Places, AllGood, NEW f \in DOMAIN fragTable
  PROVE  DataOf(f) = FragUnit(f)
<1>1. f \in Nat /\ f \in 0 .. fragments - 1 /\ fragTable[f] \in Nat
  BY FragTypes DEF Table
<1>2. CASE Found(writerCache, FragIndex(f))
  <2>1. PICK e : e = Find(writerCache, FragIndex(f))
    OBVIOUS
  <2>2. e \in WriterBuffers /\ writerCache.buf[e].index = FragIndex(f)
    BY <1>2, <2>1, Reuses
  <2>3. writerCache.buf[e].data = FragUnit(f)
    BY <1>1, <2>2 DEF FragInv, FragParts, Compressed
  <2> QED BY <1>2, <2>1, <2>3 DEF DataOf
<1>3. CASE ~Found(writerCache, FragIndex(f))
  <2>1. PICK w : w = WantedFragment(f, fragTable[f])
    OBVIOUS
  <2>2. w[1] = FragIndex(f) /\ w[2] = fragTable[f] /\ w[3] = FragUnit(f)
    BY <2>1 DEF WantedFragment
  <2>3. Good(writerCache, toWriter, blocks, pins, deflator, disk, w)
    BY <2>1, WantedIs DEF AllGood
  <2>4. \A a : ~Newest(writerCache, w[1], a)
    <3>1. writerCache \in Caches(WriterBuffers, WriterIndexes) /\ CacheOK(writerCache) /\ FragIndex(f) # None
      BY <1>1, IndexIs DEF IInv, CacheTypes
    <3>2. \A a : Newest(writerCache, FragIndex(f), a) => Found(writerCache, FragIndex(f))
      BY <3>1, NewestFacts
    <3> QED BY <1>3, <2>2, <3>2
  <2>5. Written(writerCache, toWriter, disk, w)
    BY <2>3, <2>4, Zenon DEF Good, Sent, Kept, Placed
  <2>6. fragTable[f] \in DOMAIN disk /\ disk[fragTable[f]] = FragUnit(f)
    BY <2>2, <2>5 DEF Written
  <2> QED BY <1>3, <2>6 DEF DataOf
<1> QED BY <1>2, <1>3

LEMMA FragFillFragment == IInv /\ FragInv /\ FillFragment => FragInv'
<1> SUFFICES ASSUME IInv, FragInv, FillFragment PROVE FragInv'
  OBVIOUS
<1>1. PICK b, x, fc : b = NextFree(fragmentCache) /\ x = FragUnit(fragments) /\ fc = Fresh(fragmentCache, b, fragments, x)
  OBVIOUS
<1>2. /\ open = None /\ open' = b /\ CanGet(fragmentCache)
      /\ fragmentCache' = Get(fragmentCache, b, fragments, x)
      /\ UNCHANGED <<writerCache, toFrag, deflator, pending, fragTable, fragments, spoiled>>
  BY <1>1 DEF FillFragment, placeVars, searchVars
<1>3. fragmentCache \in Caches(FragmentBuffers, Nat) /\ CacheOK(fragmentCache) /\ fragments \in Nat
  BY DEF IInv, CacheTypes, MainTypes
<1>4. b \in FragmentBuffers /\ fragmentCache.buf[b].used = 0
  BY <1>1, <1>2, <1>3, NextFreeFacts
<1>5. fragmentCache' = fc
  <2>1. x \in Datas
    BY <1>1, <1>3 DEF FragUnit, Datas
  <2> QED BY <1>1, <1>2, <1>3, <1>4, <2>1, GetFacts, NoneIsNone
<1>6. \A a \in FragmentBuffers : fragmentCache.buf[a].index # fragments
  <2>1. FragBuffers(fragmentCache, fragments, open, spoiled)
    BY DEF FragInv, FragParts
  <2>2. fragments # None
    BY <1>3, NoneIsNone
  <2> QED BY <1>2, <1>3, <2>1, <2>2, NoneIsNone DEF FragBuffers
<1>7. FragParts(toFrag, deflator, pending, fragTable, fc, writerCache, fragments, b, spoiled)
  <2>1. x = FragUnit(fragments) \/ fragments \in spoiled
    BY <1>1
  <2> QED BY <1>1, <1>2, <1>3, <1>4, <1>6, <2>1, FragFresh
<1> QED BY <1>2, <1>5, <1>7 DEF FragInv

LEMMA FragReadFragment == IInv /\ FragInv /\ Places /\ AllGood /\ Reads /\ ReadFragment => FragInv'
<1> SUFFICES ASSUME IInv, FragInv, Places, AllGood, Reads, ReadFragment PROVE FragInv'
  OBVIOUS
<1>1. PICK b, f, x, fc, sp : /\ b = NextFree(fragmentCache) /\ f = todo[2] /\ x = DataOf(f)
                             /\ fc = Fresh(fragmentCache, b, f, x)
                             /\ sp = IF f \in DOMAIN fragTable THEN spoiled ELSE spoiled \cup {f}
  OBVIOUS
<1>2. /\ At("read") /\ CanGet(fragmentCache) /\ spoiled' = sp
      /\ fragmentCache' = Get(fragmentCache, b, f, x)
      /\ UNCHANGED <<writerCache, toFrag, deflator, pending, fragTable, fragments, open>>
  BY <1>1 DEF ReadFragment, fragVars, placeVars
<1>3. fragmentCache \in Caches(FragmentBuffers, Nat) /\ CacheOK(fragmentCache) /\ fragments \in Nat
  BY DEF IInv, CacheTypes, MainTypes
<1>4. b \in FragmentBuffers /\ fragmentCache.buf[b].used = 0
  BY <1>1, <1>2, <1>3, NextFreeFacts
<1>5. f \in 0 .. fragments - 1 /\ f \in Nat /\ \A a \in FragmentBuffers : fragmentCache.buf[a].index # f
  BY <1>1, <1>2, <1>3 DEF Reads
<1>6. x = FragUnit(f) \/ f \in sp
  <2>1. CASE f \in DOMAIN fragTable
    BY <1>1, <2>1, DataFound
  <2>2. CASE f \notin DOMAIN fragTable
    BY <1>1, <2>2
  <2> QED BY <2>1, <2>2
<1>7. fragmentCache' = fc
  <2>1. x \in Datas
    <3>1. CASE f \in DOMAIN fragTable
      <4>1. x = FragUnit(f)
        BY <1>1, <3>1, DataFound
      <4> QED BY <1>5, <4>1 DEF FragUnit, Datas
    <3>2. CASE f \notin DOMAIN fragTable
      <4>1. x = Garbage
        BY <1>1, <3>2, Zenon DEF DataOf
      <4> QED BY <4>1 DEF Datas
    <3> QED BY <3>1, <3>2
  <2>2. fc = Fresh(fragmentCache, b, f, x) /\ f \in Nat
    BY <1>1, <1>5
  <2>3. Get(fragmentCache, b, f, x) = Fresh(fragmentCache, b, f, x)
    BY <1>3, <1>4, <2>1, <2>2, GetFacts, NoneIsNone
  <2> QED BY <1>2, <2>2, <2>3
<1>8. FragParts(toFrag, deflator, pending, fragTable, fc, writerCache, fragments, open, sp)
  <2>1. sp = spoiled \/ (sp = spoiled \cup {f} /\ f \in 0 .. fragments - 1)
    BY <1>1, <1>5
  <2> QED BY <1>1, <1>4, <1>5, <1>6, <2>1, FragFresh
<1> QED BY <1>2, <1>7, <1>8 DEF FragInv

LEMMA FragKeeps ==
  ASSUME IInv, FragInv, Places, AllGood, Reads, [Next]_vars
  PROVE  FragInv'
<1>1. CASE UNCHANGED vars
  BY <1>1, FragQuiet
<1>2. CASE Main
  <2>1. CASE \/ NextFile \/ EndBlocks \/ Unique \/ Duplicate \/ RollBack \/ Truncate \/ UnlockDone \/ Drain
    BY <2>1, FragQuiet
  <2>2. CASE PutBlock \/ LookupBlock \/ PutHeld \/ PutFragment \/ \E f : GetFragment(f)
    BY <2>2, FragReuse
  <2>3. CASE WriteBlock
    BY <2>3, FragWriteBlock
  <2>4. CASE ReadFragment
    BY <2>4, FragReadFragment
  <2>5. CASE FillFull \/ LastFragment
    BY <2>5, FragCloses
  <2>6. CASE FillFragment
    BY <2>6, FragFillFragment
  <2>7. CASE UnlockPending
    BY <2>7, FragUnlockPending
  <2> QED BY <1>2, <2>1, <2>2, <2>3, <2>4, <2>5, <2>6, <2>7, Zenon DEF Main
<1>3. ASSUME NEW d \in FragDeflators, FragDeflator(d) PROVE FragInv'
  BY <1>3, FragFragTake, FragFragCompress, FragFragPlace, FragFragHandOver, FragFragPutBack, Zenon DEF FragDeflator
<1>4. CASE Writer
  BY <1>4, FragQuiet, FragReuse, Zenon DEF Writer
<1> QED BY <1>1, <1>2, <1>3, <1>4, Zenon DEF Next

-----------------------------------------------------------------------------
(* What is read is not in a buffer.                                        *)

LEMMA ReadsKept ==
  ASSUME IInv, FragInv, Places, Reads, [Next]_vars
  PROVE  Reads'
<1>0. /\ todo \in Stages /\ (file.size = 0 => file.thresh = 0) /\ file.size \in Nat
  BY UnitsAre DEF Places
<1>1. CASE UNCHANGED <<todo, fragments>> /\ SameFrag(fragmentCache')
  <2>1. PICK fc : fc = fragmentCache'
    OBVIOUS
  <2>2. \A b \in FragmentBuffers : fc.buf[b].index = fragmentCache.buf[b].index
    BY <1>1, <2>1 DEF SameFrag
  <2> QED BY <1>1, <2>1, <2>2 DEF Reads, At
<1>2. CASE ~At("read")'
  BY <1>2 DEF Reads
<1>3. SameFrag(fragmentCache)
  BY SameAfter
<1>4. CASE UNCHANGED vars
  BY <1>1, <1>3, <1>4 DEF vars
<1>5. CASE Writer
  BY <1>1, <1>3, <1>5 DEF Writer, Write, WriterPutBack, fragVars
<1>6. ASSUME NEW d \in FragDeflators, FragDeflator(d) PROVE Reads'
  <2>1. UNCHANGED <<todo, fragments>>
    BY <1>6 DEF FragDeflator, FragTake, FragCompress, FragPlace, FragHandOver, FragPutBack, fragVars
  <2>2. CASE FragPutBack(d)
    <3>1. \E e : Reused(fragmentCache, fragmentCache', e)
      BY <2>2, FragStep
    <3>2. SameFrag(fragmentCache')
      BY <3>1, SameAfter
    <3> QED BY <1>1, <2>1, <3>2
  <2>3. CASE ~FragPutBack(d)
    <3>1. fragmentCache' = fragmentCache
      BY <1>6, <2>3 DEF FragDeflator, FragTake, FragCompress, FragPlace, FragHandOver
    <3> QED BY <1>1, <1>3, <2>1, <3>1
  <2> QED BY <2>2, <2>3
<1>7. CASE Main
  <2>1. CASE WriteBlock \/ LookupBlock \/ PutBlock \/ PutFragment \/ PutHeld \/ FillFull \/ UnlockPending
    <3>1. todo' = todo /\ (At("blocks") \/ At("search") \/ At("putback") \/ At("fill") \/ At("unlock"))
      BY <2>1 DEF WriteBlock, LookupBlock, PutBlock, PutFragment, PutHeld, FillFull, UnlockPending
    <3> QED BY <1>2, <3>1 DEF At
  <2>2. CASE NextFile \/ EndBlocks \/ Unique \/ Duplicate \/ RollBack \/ Truncate \/ FillFragment \/ UnlockDone
             \/ ReadFragment \/ LastFragment \/ Drain
    <3>1. todo' \in {<<>>, <<"search">>, <<"fill">>, <<"blocks">>, <<"unlock", "fill">>, <<"unlock">>, <<"fill", "unlock">>,
                     <<"putback">>, <<"truncate", "unlock">>, <<"drain">>, <<"unlock", "drain">>, <<"drained">>}
      BY <1>0, <2>2, NextStage, Zenon
    <3>2. ~At("read")'
      BY <3>1 DEF At
    <3> QED BY <1>2, <3>2
  <2>3. ASSUME NEW f \in 0 .. fragments - (IF open = None THEN 1 ELSE 0), GetFragment(f) PROVE Reads'
    <3>1. fragments \in Nat /\ f \in Nat /\ fragments' = fragments
      BY <2>3, FragTypes DEF GetFragment, fragVars
    <3>2. CASE Found(fragmentCache, f)
      <4>1. todo' = todo /\ At("search")
        BY <2>3, <3>2 DEF GetFragment, Looking
      <4> QED BY <1>2, <4>1 DEF At
    <3>3. CASE ~Found(fragmentCache, f)
      <4>1. fragmentCache' = fragmentCache
        BY <2>3, <3>3 DEF GetFragment
      <4>2. \A b \in FragmentBuffers : fragmentCache.buf[b].index # f
        <5>1. fragmentCache \in Caches(FragmentBuffers, Nat) /\ CacheOK(fragmentCache) /\ f # None
          BY <3>1, NoneIsNone DEF IInv, CacheTypes
        <5>2. \A b \in FragmentBuffers : fragmentCache.buf[b].index = f => Found(fragmentCache, f)
          BY <5>1, NewestFacts
        <5> QED BY <3>3, <5>2
      <4>3. f \in 0 .. fragments - 1
        <5>1. CASE open = None
          BY <2>3, <3>1, <5>1
        <5>2. CASE open # None
          <6>1. fragmentCache.buf[open].index = fragments /\ open \in FragmentBuffers
            BY <5>2, FragTypes DEF IInv, Numbered, Numbers
          <6> QED BY <2>3, <3>1, <4>2, <5>2, <6>1
        <5> QED BY <5>1, <5>2
      <4>4. todo' = <<"search">> \/ todo' = <<"read", f, "search">>
        BY <1>0, <2>3, <3>1, NextStage
      <4>5. CASE todo' = <<"search">>
        BY <1>2, <4>5 DEF At
      <4>6. CASE todo' = <<"read", f, "search">>
        BY <3>1, <4>1, <4>2, <4>3, <4>6 DEF Reads
      <4> QED BY <4>4, <4>5, <4>6
    <3> QED BY <3>2, <3>3
  <2> QED BY <1>7, <2>1, <2>2, <2>3, Zenon DEF Main
<1> QED BY <1>4, <1>5, <1>6, <1>7, Zenon DEF Next

-----------------------------------------------------------------------------
(* Steps that leave the wanted places.                                     *)

\* The parts of Places that the steps of the deflators and the writer leave alone.
LEMMA PlacesStay ==
  ASSUME Places, UNCHANGED <<todo, file, blocks, committed, fragTable, bytes, locked, pins>>
  PROVE  Places' /\ Wanted' = Wanted /\ InHand' = InHand /\ Base' = Base
<1>1. InHand' = InHand
  BY DEF InHand, At
<1>2. Base' = Base
  BY <1>1 DEF Base
<1>3. Units' = Units
  BY DEF Units, At
<1>4. Wanted' = Wanted
  BY <1>3 DEF Wanted
<1>5. Places'
  BY <1>1, <1>2, <1>3 DEF Places, At
<1> QED BY <1>1, <1>2, <1>4, <1>5

LEMMA ApartStays ==
  ASSUME Apart, Wanted' \subseteq Wanted
  PROVE  Apart'
BY DEF Apart

LEMMA HoldsStays ==
  ASSUME Holds, InHand' = InHand, UNCHANGED <<file, blocks>>,
         writerCache' = writerCache \/ \E e : Reused(writerCache, writerCache', e)
  PROVE  Holds'
<1>1. PICK c : c = writerCache'
  OBVIOUS
<1>2. \A key, a : Newest(writerCache, key, a) => Newest(c, key, a)
  BY <1>1, ReusedNewest, Zenon
<1> QED BY <1>1, <1>2 DEF Holds

LEMMA LabelledStays ==
  ASSUME IInv, NEW c, NEW t, DOMAIN fragTable \subseteq DOMAIN t, \A f \in DOMAIN fragTable : t[f] = fragTable[f],
         \A a \in WriterBuffers : writerCache.buf[a].used > 0 => c.buf[a].index = writerCache.buf[a].index,
         NEW m \in 1 .. Len(toWriter), toWriter[m] # Flush, Labelled(writerCache, toWriter[m], fragTable)
  PROVE  Labelled(c, toWriter[m], t)
<1>1. toWriter[m][1] \in WriterBuffers /\ writerCache.buf[toWriter[m][1]].used > 0
  BY WhoUses
<1> QED BY <1>1 DEF Labelled

LEMMA LabelsStay ==
  ASSUME IInv, Labels, DOMAIN fragTable \subseteq DOMAIN fragTable', \A f \in DOMAIN fragTable : fragTable'[f] = fragTable[f],
         \A a \in WriterBuffers : writerCache.buf[a].used > 0 => writerCache'.buf[a].index = writerCache.buf[a].index,
         UNCHANGED <<toWriter, leaked>>
  PROVE  Labels'
<1>1. PICK c, t : c = writerCache' /\ t = fragTable'
  OBVIOUS
<1>2. \A m \in 1 .. Len(toWriter) : toWriter[m] # Flush => Labelled(c, toWriter[m], t)
  BY <1>1, LabelledStays DEF Labels
<1>3. \A b \in WriterBuffers : leaked[b] > 0 => c.buf[b].index \in FragKeys
  BY <1>1, WhoUses DEF Labels
<1> QED BY <1>1, <1>2, <1>3 DEF Labels

LEMMA SameIndex ==
  ASSUME IInv, NEW c, NEW e, Reused(writerCache, c, e)
  PROVE  \A a \in WriterBuffers : c.buf[a].index = writerCache.buf[a].index
<1>1. DOMAIN writerCache.buf = WriterBuffers
  BY FragTypes
<1> QED BY <1>1 DEF Reused

-----------------------------------------------------------------------------
(* The writer's steps.                                                     *)

LEMMA NobodyUses ==
  ASSUME IInv, NEW b \in WriterBuffers, ~(leaked[b] > 0), b \notin ToSet(pins), writing # b, b \notin ToSet(blocks),
         \A m \in 1 .. Len(toWriter) : toWriter[m] \notin {b} \X Nat,
         \A k \in 1 .. Len(pending) : pending[k] # b, \A d \in FragDeflators : deflator[d].to # b
  PROVE  writerCache.buf[b].used = 0
<1>1. /\ blocks \in Seq(WriterBuffers \cup {None}) /\ pins \in Seq(WriterBuffers)
      /\ pending \in Seq(WriterBuffers) /\ toWriter \in Seq(Messages) /\ HandTypes /\ Counts
  BY DEF IInv, HandTypes
<1>2. leaked[b] = 0
  <2>1. leaked[b] \in Nat
    BY <1>1 DEF HandTypes
  <2> QED BY <2>1
<1>3. CountIn(pins, {b}) = 0
  <2>1. \A k \in 1 .. Len(pins) : pins[k] \notin {b}
    BY DEF ToSet
  <2> QED BY <1>1, <2>1, CountNone
<1>4. CountIn(blocks, {b}) = 0
  <2>1. \A k \in 1 .. Len(blocks) : blocks[k] \notin {b}
    BY DEF ToSet
  <2> QED BY <1>1, <2>1, CountNone
<1>5. CountIn(toWriter, {b} \X Nat) = 0
  BY <1>1, CountNone
<1>6. CountIn(pending, {b}) = 0
  <2>1. \A k \in 1 .. Len(pending) : pending[k] \notin {b}
    OBVIOUS
  <2> QED BY <1>1, <2>1, CountNone
<1>7. Is(writing, {b}) = 0
  BY DEF Is
<1>8. Holding(deflator, b) = 0
  <2>1. {d \in FragDeflators : deflator[d].to = b} = {}
    OBVIOUS
  <2> QED BY <2>1, FS_EmptySet DEF Holding
<1>9. writerCache.buf[b].used = Sum7(leaked[b], CountIn(pins, {b}), Is(writing, {b}), CountIn(blocks, {b}),
                                     CountIn(toWriter, {b} \X Nat), CountIn(pending, {b}), Holding(deflator, b))
  BY <1>1, Zenon DEF Counts, WriterCounts, WriterUses
<1> QED BY <1>2, <1>3, <1>4, <1>5, <1>6, <1>7, <1>8, <1>9 DEF Sum7

\* A compressed fragment has one buffer, the newest of its index.
LEMMA NoneOlder ==
  ASSUME IInv, FragInv, NEW f \in Nat
  PROVE  /\ \A a : ~Older(writerCache, FragIndex(f), a)
         /\ \A a \in WriterBuffers : writerCache.buf[a].index = FragIndex(f) =>
              Newest(writerCache, FragIndex(f), a) /\ writerCache.buf[a].data = FragUnit(f)
<1>1. DOMAIN writerCache.buf = WriterBuffers
  BY FragTypes
<1>2. \A a, b \in WriterBuffers : writerCache.buf[a].index = FragIndex(f) /\ writerCache.buf[b].index = FragIndex(f) => a = b
  BY DEF FragInv, FragParts, Compressed
<1>3. \A a \in WriterBuffers : writerCache.buf[a].index = FragIndex(f) => Newest(writerCache, FragIndex(f), a)
  BY <1>1, <1>2 DEF Newest
<1>4. \A a \in WriterBuffers : writerCache.buf[a].index = FragIndex(f) => writerCache.buf[a].data = FragUnit(f)
  BY DEF FragInv, FragParts, Compressed
<1>5. \A a : ~Older(writerCache, FragIndex(f), a)
  BY <1>1, <1>3 DEF Older
<1> QED BY <1>3, <1>4, <1>5

\* When the newest's data is written, nobody has the older ones.
LEMMA OlderUnused ==
  ASSUME IInv, FragInv, Labels, writing = None, NEW w, Want(w),
         w[1] = AtPosition(w[2]) \/ \E f \in Nat : w[1] = FragIndex(f),
         toWriter # <<>>, Newest(writerCache, w[1], toWriter[1][1]),
         \A n \in 2 .. Len(toWriter) : toWriter[n] \notin For(w[2]),
         NEW a \in WriterBuffers, Older(writerCache, w[1], a), a \notin ToSet(pins) \cup ToSet(blocks)
  PROVE  writerCache.buf[a].used = 0
<1>1. w[1] = AtPosition(w[2])
  BY NoneOlder
<1>2. WriterIs(writerCache)
  BY DEF IInv, CacheTypes, WriterIs
<1>3. writerCache.buf[a].index = AtPosition(w[2]) /\ ~Newest(writerCache, w[1], a)
  BY <1>1, <1>2, WantedNewest
<1>4. writerCache.buf[a].index \notin FragKeys
  BY <1>3, IndexIs
<1>5. ~(leaked[a] > 0)
  BY <1>4 DEF Labels
<1>6. /\ \A k \in 1 .. Len(pending) : writerCache.buf[pending[k]].index \in FragKeys
      /\ \A d \in FragDeflators : deflator[d].to # None => writerCache.buf[deflator[d].to].index \in FragKeys
  <2>1. {"frag"} \X (0 .. fragments - 1) \subseteq FragKeys
    BY DEF FragKeys
  <2> QED BY <2>1 DEF IInv, Numbered, Numbers
<1>7. (\A k \in 1 .. Len(pending) : pending[k] # a) /\ \A d \in FragDeflators : deflator[d].to # a
  BY <1>4, <1>6, NoneIsNone
<1>8. ASSUME NEW m \in 1 .. Len(toWriter), toWriter[m] \in {a} \X Nat PROVE FALSE
  <2>1. PICK e : e = toWriter[m]
    OBVIOUS
  <2>2. e # Flush /\ e[1] = a /\ e[2] \in Nat /\ e = <<e[1], e[2]>>
    <3>1. e # Flush
      BY <1>8, <2>1, FlushIs
    <3> QED BY <1>8, <2>1, <3>1
  <2>3. Labelled(writerCache, e, fragTable)
    BY <2>1, <2>2 DEF Labels
  <2>4. \A f \in DOMAIN fragTable : FragIndex(f) \in FragKeys
    BY FragTypes, IndexIs DEF Table
  <2>5. writerCache.buf[a].index = AtPosition(e[2])
    BY <1>4, <2>2, <2>3, <2>4 DEF Labelled
  <2>6. e[2] = w[2]
    BY <1>3, <2>5, IndexIs
  <2>7. e \in For(w[2])
    BY <2>2, <2>6 DEF For
  <2>8. m \notin 2 .. Len(toWriter)
    BY <2>1, <2>7
  <2>9. m = 1
    <3>1. Len(toWriter) \in Nat
      BY DEF IInv, HandTypes
    <3> QED BY <2>8, <3>1
  <2> QED BY <1>3, <2>1, <2>2, <2>9
<1> QED BY <1>5, <1>7, <1>8, NobodyUses, NoneIsNone

LEMMA GoodWrite ==
  ASSUME IInv, FragInv, Labels, writing = None, toWriter # <<>>, NEW w, Want(w),
         w[1] = AtPosition(w[2]) \/ \E f \in Nat : w[1] = FragIndex(f),
         Good(writerCache, toWriter, blocks, pins, deflator, disk, w),
         NEW q, q = Tail(toWriter), NEW e, e = Head(toWriter),
         NEW dk, (e = Flush /\ dk = disk) \/ (e # Flush /\ dk = With(disk, e[2], writerCache.buf[e[1]].data))
  PROVE  Good(writerCache, q, blocks, pins, deflator, dk, w)
<1>1. /\ toWriter \in Seq(Messages) /\ e = toWriter[1] /\ 1 \in 1 .. Len(toWriter) /\ Len(q) = Len(toWriter) - 1
      /\ Len(toWriter) \in Nat /\ \A k \in 1 .. Len(q) : k + 1 \in 1 .. Len(toWriter) /\ q[k] = toWriter[k + 1]
  <2>1. toWriter \in Seq(Messages) /\ Len(toWriter) \in Nat
    BY DEF IInv, HandTypes
  <2> QED BY <2>1, TailFacts
<1>2. ASSUME NEW m \in 2 .. Len(toWriter), toWriter[m] \in For(w[2]), Newest(writerCache, w[1], toWriter[m][1]),
             \A n \in m + 1 .. Len(toWriter) : toWriter[n] \notin For(w[2])
      PROVE  Sent(writerCache, q, w)
  <2>1. m - 1 \in 1 .. Len(q) /\ q[m - 1] = toWriter[m]
    <3>1. PICK k : k = m - 1
      OBVIOUS
    <3>2. k \in 1 .. Len(q) /\ k + 1 = m
      BY <1>1, <3>1
    <3> QED BY <1>1, <3>1, <3>2
  <2>2. \A n \in (m - 1) + 1 .. Len(q) : q[n] \notin For(w[2])
    <3> TAKE n \in (m - 1) + 1 .. Len(q)
    <3>1. n \in 1 .. Len(q) /\ n + 1 \in m + 1 .. Len(toWriter)
      BY <1>1
    <3> QED BY <1>1, <1>2, <3>1
  <2> QED BY <1>2, <2>1, <2>2 DEF Sent
<1>3. ASSUME Written(writerCache, toWriter, disk, w) PROVE Written(writerCache, q, dk, w)
  <2>1. \A k \in 1 .. Len(q) : q[k] \notin For(w[2])
    BY <1>1, <1>3 DEF Written
  <2>2. e \notin For(w[2])
    BY <1>1, <1>3 DEF Written
  <2>3. w[2] \in DOMAIN dk /\ dk[w[2]] = disk[w[2]]
    <3>1. w[2] \in DOMAIN disk
      BY <1>3 DEF Written
    <3>2. CASE e = Flush
      BY <3>1, <3>2
    <3>3. CASE e # Flush
      <4>1. e[2] # w[2]
        <5>1. e = <<e[1], e[2]>> /\ e[1] \in WriterBuffers
          <6>1. e \in Messages
            BY <1>1
          <6> QED BY <3>3, <6>1, MessageIs
        <5> QED BY <2>2, <5>1 DEF For
      <4>2. PICK p, x : p = e[2] /\ x = writerCache.buf[e[1]].data
        OBVIOUS
      <4>3. dk = With(disk, p, x)
        BY <3>3, <4>2
      <4>4. DOMAIN dk = DOMAIN disk \cup {p} /\ \A g \in DOMAIN disk : g # p => dk[g] = disk[g]
        BY <4>3 DEF With
      <4> QED BY <3>1, <4>1, <4>2, <4>4
    <3> QED BY <3>2, <3>3
  <2> QED BY <1>3, <2>1, <2>3 DEF Written
<1>4. ASSUME e \in For(w[2]), Newest(writerCache, w[1], e[1]), \A n \in 2 .. Len(toWriter) : toWriter[n] \notin For(w[2])
      PROVE  Written(writerCache, q, dk, w)
  <2>1. e # Flush /\ e[1] \in WriterBuffers /\ e[2] = w[2]
    <3>1. e \in {e[1]} \X Nat /\ e[1] \in WriterBuffers /\ e[2] = w[2]
      BY <1>4 DEF For, Want
    <3> QED BY <3>1, FlushIs
  <2>2. \A k \in 1 .. Len(q) : q[k] \notin For(w[2])
    <3> TAKE k \in 1 .. Len(q)
    <3>1. k + 1 \in 2 .. Len(toWriter)
      BY <1>1
    <3> QED BY <1>1, <1>4, <3>1
  <2>3. w[2] \in DOMAIN dk /\ dk[w[2]] = w[3]
    <3>1. writerCache.buf[e[1]].data = w[3]
      BY <1>4, <2>1 DEF Good
    <3>2. PICK p, x : p = e[2] /\ x = writerCache.buf[e[1]].data
      OBVIOUS
    <3>3. dk = With(disk, p, x)
      BY <2>1, <3>2
    <3>4. DOMAIN dk = DOMAIN disk \cup {p} /\ dk[p] = x
      BY <3>3 DEF With
    <3> QED BY <2>1, <3>1, <3>2, <3>4
  <2>4. writerCache.buf[e[1]].used > 0
    BY <1>1, <2>1, WhoUses
  <2>5. ASSUME NEW a \in WriterBuffers, Older(writerCache, w[1], a)
        PROVE  writerCache.buf[a].used = 0 /\ \A b \in WriterBuffers : Newest(writerCache, w[1], b) => Before(writerCache.free, a, b)
    <3>1. a \notin ToSet(pins) \cup ToSet(blocks)
      BY <2>5 DEF Good
    <3>2. writerCache.buf[a].used = 0
      BY <1>1, <1>4, <2>5, <3>1, OlderUnused
    <3>3. ASSUME NEW b \in WriterBuffers, Newest(writerCache, w[1], b) PROVE Before(writerCache.free, a, b)
      <4>1. WriterIs(writerCache)
        BY DEF IInv, CacheTypes, WriterIs
      <4>2. b = e[1]
        BY <1>4, <3>3, <4>1, WantedNewest
      <4>3. b \notin ToSet(writerCache.free)
        <5>1. \A d \in WriterBuffers : d \in ToSet(writerCache.free) => writerCache.buf[d].used = 0
          BY <4>1, CacheIs DEF WriterIs
        <5> QED BY <2>1, <2>4, <4>2, <5>1
      <4>4. \A k \in 1 .. Len(writerCache.free) : writerCache.free[k] # b
        BY <4>3 DEF ToSet
      <4> QED BY <4>4 DEF Before
    <3> QED BY <3>2, <3>3
  <2> QED BY <2>2, <2>3, <2>5 DEF Written
<1>5. Sent(writerCache, toWriter, w) => Sent(writerCache, q, w) \/ Written(writerCache, q, dk, w)
  <2>1. SUFFICES ASSUME NEW m \in 1 .. Len(toWriter), toWriter[m] \in For(w[2]), Newest(writerCache, w[1], toWriter[m][1]),
                        \A n \in m + 1 .. Len(toWriter) : toWriter[n] \notin For(w[2])
                 PROVE  Sent(writerCache, q, w) \/ Written(writerCache, q, dk, w)
    BY DEF Sent
  <2>2. CASE m = 1
    BY <1>1, <1>4, <2>1, <2>2
  <2>3. CASE m # 1
    <3>1. m \in 2 .. Len(toWriter)
      BY <1>1, <2>3
    <3> QED BY <1>2, <2>1, <3>1
  <2> QED BY <2>2, <2>3
<1> QED BY <1>3, <1>5 DEF Good

LEMMA Wants ==
  ASSUME IInv, Places, NEW w \in Wanted
  PROVE  Want(w) /\ (w[1] = AtPosition(w[2]) \/ \E f \in Nat : w[1] = FragIndex(f)) /\ w[2] < bytes
<1>1. \A f \in DOMAIN fragTable : f \in Nat
  BY FragTypes DEF Table
<1> QED BY <1>1, WantedIs

LEMMA WritePlaces == IInv /\ FragInv /\ PlaceInv /\ Write => PlaceInv'
<1> SUFFICES ASSUME IInv, FragInv, PlaceInv, Write PROVE PlaceInv'
  OBVIOUS
<1>1. /\ UNCHANGED <<todo, file, blocks, committed, fragTable, bytes, locked, pins, writerCache, leaked, deflator>>
      /\ writing = None /\ toWriter # <<>>
  BY DEF Write, fileVars, placeVars, searchVars
<1>2. Places' /\ Wanted' = Wanted /\ InHand' = InHand
  BY <1>1, PlacesStay DEF PlaceInv
<1>3. Apart'
  BY <1>2, ApartStays DEF PlaceInv
<1>4. Holds'
  BY <1>1, <1>2, HoldsStays DEF PlaceInv
<1>5. PICK q, e, dk : q = Tail(toWriter) /\ e = Head(toWriter) /\ dk = disk'
  OBVIOUS
<1>6. toWriter' = q /\ ((e = Flush /\ dk = disk) \/ (e # Flush /\ dk = With(disk, e[2], writerCache.buf[e[1]].data)))
  BY <1>5 DEF Write, writeVars
<1>7. Labels'
  <2>1. \A m \in 1 .. Len(q) : m + 1 \in 1 .. Len(toWriter) /\ q[m] = toWriter[m + 1]
    <3>1. toWriter \in Seq(Messages)
      BY DEF IInv, HandTypes
    <3> QED BY <1>1, <1>5, <3>1, TailFacts
  <2>2. \A m \in 1 .. Len(q) : q[m] # Flush => Labelled(writerCache, q[m], fragTable)
    BY <2>1 DEF PlaceInv, Labels
  <2> QED BY <1>1, <1>6, <2>2 DEF PlaceInv, Labels
<1>8. \A w \in Wanted : Good(writerCache, q, blocks, pins, deflator, dk, w)
  <2> TAKE w \in Wanted
  <2>1. Want(w) /\ (w[1] = AtPosition(w[2]) \/ \E f \in Nat : w[1] = FragIndex(f))
    BY Wants DEF PlaceInv
  <2>2. Good(writerCache, toWriter, blocks, pins, deflator, disk, w) /\ Labels
    BY DEF PlaceInv, AllGood
  <2> QED BY <1>1, <1>5, <1>6, <2>1, <2>2, GoodWrite
<1>9. AllGood'
  BY <1>1, <1>2, <1>5, <1>6, <1>8 DEF AllGood
<1> QED BY <1>2, <1>3, <1>4, <1>7, <1>9 DEF PlaceInv

\* A use more or less of a buffer that is not an older one, or that is in use.
LEMMA AllGoodReused ==
  ASSUME IInv, PlaceInv, NEW c, NEW e, Reused(writerCache, c, e), NEW w \in Wanted,
         Older(writerCache, w[1], e) => writerCache.buf[e].used > 0
  PROVE  Good(c, toWriter, blocks, pins, deflator, disk, w)
<1>1. Want(w)
  BY Wants DEF PlaceInv
<1>2. WriterIs(writerCache)
  BY DEF IInv, CacheTypes, WriterIs
<1>3. Good(writerCache, toWriter, blocks, pins, deflator, disk, w)
  BY DEF PlaceInv, AllGood
<1>4. Older(writerCache, w[1], e) => writerCache.buf[e].used # 0
  OBVIOUS
<1> QED BY <1>1, <1>2, <1>3, <1>4, GoodReused

LEMMA WriterPutBackPlaces == IInv /\ FragInv /\ PlaceInv /\ WriterPutBack => PlaceInv'
<1> SUFFICES ASSUME IInv, FragInv, PlaceInv, WriterPutBack PROVE PlaceInv'
  OBVIOUS
<1>1. UNCHANGED <<todo, file, blocks, committed, fragTable, bytes, locked, pins, leaked, deflator, disk, toWriter>>
  BY DEF WriterPutBack, fileVars, placeVars, searchVars
<1>2. Places' /\ Wanted' = Wanted /\ InHand' = InHand
  BY <1>1, PlacesStay DEF PlaceInv
<1>3. Apart'
  BY <1>2, ApartStays DEF PlaceInv
<1>4. PICK e \in WriterBuffers : writerCache.buf[e].used > 0 /\ Reused(writerCache, writerCache', e)
  BY WriterStep
<1>5. Holds'
  BY <1>1, <1>2, <1>4, HoldsStays DEF PlaceInv
<1>6. PICK c : c = writerCache'
  OBVIOUS
<1>7. \A a \in WriterBuffers : c.buf[a].index = writerCache.buf[a].index
  BY <1>4, <1>6, SameIndex
<1>8. Labels'
  BY <1>1, <1>6, <1>7, LabelsStay DEF PlaceInv
<1>9. \A w \in Wanted : Good(c, toWriter, blocks, pins, deflator, disk, w)
  BY <1>4, <1>6, AllGoodReused
<1>10. AllGood'
  BY <1>1, <1>2, <1>6, <1>9 DEF AllGood
<1> QED BY <1>2, <1>3, <1>5, <1>8, <1>10 DEF PlaceInv

-----------------------------------------------------------------------------
(* The deflators' steps.                                                   *)

LEMMA QuietKeeps ==
  ASSUME PlaceInv, Places', Wanted' \subseteq Wanted, Holds',
         UNCHANGED <<writerCache, toWriter, blocks, pins, leaked, fragTable, disk>>,
         \A d \in FragDeflators : deflator[d].step = "placed" => deflator'[d] = deflator[d]
  PROVE  PlaceInv'
<1>1. Apart'
  BY ApartStays DEF PlaceInv
<1>2. Labels'
  BY DEF PlaceInv, Labels
<1>3. PICK de : de = deflator'
  OBVIOUS
<1>4. \A w \in Wanted : Good(writerCache, toWriter, blocks, pins, de, disk, w)
  <2> TAKE w \in Wanted
  <2>1. Good(writerCache, toWriter, blocks, pins, deflator, disk, w)
    BY DEF PlaceInv, AllGood
  <2>2. Placed(writerCache, deflator, w) => Placed(writerCache, de, w)
    BY <1>3 DEF Placed
  <2> QED BY <2>1, <2>2 DEF Good
<1>5. AllGood'
  BY <1>3, <1>4 DEF AllGood
<1> QED BY <1>1, <1>2, <1>5 DEF PlaceInv

LEMMA DeflatorQuiet ==
  ASSUME IInv, FragInv, PlaceInv, NEW x \in FragDeflators,
         \/ FragTake(x) \/ FragPutBack(x) \/ (FragPlace(x) /\ locked) \/ (FragHandOver(x) /\ deflator[x].step = "deferred")
  PROVE  PlaceInv'
<1>1. UNCHANGED <<todo, file, blocks, committed, fragTable, bytes, locked, pins, writerCache, toWriter, leaked, disk>>
  BY DEF FragTake, FragPutBack, FragPlace, FragHandOver, fileVars, placeVars, writeVars, searchVars
<1>2. \A d \in FragDeflators : deflator[d].step = "placed" => deflator'[d] = deflator[d]
  <2>1. deflator[x].step # "placed"
    BY DEF FragTake, FragPutBack, FragPlace, FragHandOver
  <2>2. \E r : deflator' = [deflator EXCEPT ![x] = r]
    BY Zenon DEF FragTake, FragPutBack, FragPlace, FragHandOver, Now
  <2> QED BY <2>1, <2>2
<1>3. Places' /\ Wanted' = Wanted /\ InHand' = InHand
  BY <1>1, PlacesStay DEF PlaceInv
<1>4. Holds'
  BY <1>1, <1>3, HoldsStays DEF PlaceInv
<1> QED BY <1>1, <1>2, <1>3, <1>4, QuietKeeps

\* A message is sent for a place, from the newest buffer of its index.
LEMMA GoodSent ==
  ASSUME NEW T, NEW q \in Seq(T), NEW e \in T, NEW r, r = Append(q, e),
         NEW c, NEW w, e \in For(w[2]), Newest(c, w[1], e[1])
  PROVE  Sent(c, r, w)
<1>1. Len(q) \in Nat /\ Len(r) = Len(q) + 1 /\ r[Len(q) + 1] = e
  OBVIOUS
<1>2. Len(q) + 1 \in 1 .. Len(r) /\ \A n \in (Len(q) + 1) + 1 .. Len(r) : FALSE
  BY <1>1
<1> QED BY <1>1, <1>2 DEF Sent

LEMMA LabelsAppend ==
  ASSUME IInv, NEW e \in Messages, NEW q, q = Append(toWriter, e), NEW c, NEW t,
         \A m \in 1 .. Len(toWriter) : toWriter[m] # Flush => Labelled(c, toWriter[m], t),
         e # Flush => Labelled(c, e, t)
  PROVE  \A m \in 1 .. Len(q) : q[m] # Flush => Labelled(c, q[m], t)
<1>1. toWriter \in Seq(Messages) /\ Len(toWriter) \in Nat
  BY DEF IInv, HandTypes
<1>2. Len(q) = Len(toWriter) + 1 /\ q[Len(toWriter) + 1] = e /\ \A m \in 1 .. Len(toWriter) : q[m] = toWriter[m]
  BY <1>1
<1> TAKE m \in 1 .. Len(q)
<1>3. CASE m = Len(toWriter) + 1
  BY <1>2, <1>3
<1>4. CASE m # Len(toWriter) + 1
  <2>1. m \in 1 .. Len(toWriter)
    BY <1>1, <1>2, <1>4
  <2> QED BY <1>2, <2>1
<1> QED BY <1>3, <1>4

LEMMA HandOverPlaces == ASSUME IInv, FragInv, PlaceInv, NEW x \in FragDeflators, FragHandOver(x) PROVE PlaceInv'
<1>1. CASE deflator[x].step # "placed"
  <2>1. deflator[x].step = "deferred"
    BY <1>1 DEF FragHandOver
  <2> QED BY <2>1, DeflatorQuiet
<1>2. CASE deflator[x].step = "placed"
  <2>1. PICK f, b, e, q, de : /\ f = fragmentCache.buf[deflator[x].from].index /\ b = deflator[x].to
                              /\ e = <<b, fragTable[f]>> /\ q = Append(toWriter, e) /\ de = deflator'
    OBVIOUS
  <2>2. /\ b \in WriterBuffers /\ writerCache.buf[b].index = FragIndex(f) /\ FragOf(b) = f /\ f \in Nat
    BY <1>2, <2>1, PairIs
  <2>3. f \in DOMAIN fragTable
    <3>1. writerCache.buf[b].index[2] \in DOMAIN fragTable
      BY <1>2, <2>1 DEF IInv, Numbered, Numbers
    <3> QED BY <2>2, <3>1 DEF FragOf
  <2>4. /\ toWriter' = q
        /\ UNCHANGED <<todo, file, blocks, committed, fragTable, bytes, locked, pins, writerCache, leaked, disk>>
    BY <1>2, <2>1, <2>2 DEF FragHandOver, fileVars, placeVars, writeVars, searchVars
  <2>5. Places' /\ Wanted' = Wanted /\ InHand' = InHand
    BY <2>4, PlacesStay DEF PlaceInv
  <2>6. Holds' /\ Apart'
    BY <2>4, <2>5, HoldsStays, ApartStays DEF PlaceInv
  <2>7. fragTable[f] \in Nat /\ e[1] = b /\ e[2] = fragTable[f] /\ e \in Messages /\ toWriter \in Seq(Messages)
    <3>1. fragTable[f] \in Nat
      BY <2>3, FragTypes DEF Table
    <3> QED BY <2>1, <2>2, <3>1 DEF Messages, IInv, HandTypes
  <2>8. Labels'
    <3>1. Labelled(writerCache, e, fragTable)
      BY <2>2, <2>3, <2>7 DEF Labelled
    <3>2. \A m \in 1 .. Len(toWriter) : toWriter[m] # Flush => Labelled(writerCache, toWriter[m], fragTable)
      BY DEF PlaceInv, Labels
    <3>3. \A m \in 1 .. Len(q) : q[m] # Flush => Labelled(writerCache, q[m], fragTable)
      BY <2>1, <2>7, <3>1, <3>2, LabelsAppend
    <3> QED BY <2>4, <3>3 DEF PlaceInv, Labels
  <2>9. \A w \in Wanted : Good(writerCache, q, blocks, pins, de, disk, w)
    <3> TAKE w \in Wanted
    <3>1. Good(writerCache, toWriter, blocks, pins, deflator, disk, w)
      BY DEF PlaceInv, AllGood
    <3>2. CASE w[2] = fragTable[f]
      <4>1. PICK v : v = WantedFragment(f, fragTable[f])
        OBVIOUS
      <4>2. v \in Wanted /\ v[2] = fragTable[f] /\ v[1] = FragIndex(f)
        BY <2>3, <4>1, WantedIs DEF PlaceInv, WantedFragment
      <4>3. w = v
        BY <3>2, <4>2 DEF PlaceInv, Apart
      <4>4. e \in For(w[2]) /\ Newest(writerCache, w[1], e[1])
        <5>1. Newest(writerCache, FragIndex(f), b)
          BY <2>2, NoneOlder
        <5>2. e \in For(w[2])
          BY <2>1, <2>2, <3>2 DEF For
        <5> QED BY <2>7, <4>2, <4>3, <5>1, <5>2
      <4>5. Sent(writerCache, q, w)
        BY <2>1, <2>7, <4>4, GoodSent
      <4> QED BY <3>1, <4>5 DEF Good
    <3>3. CASE w[2] # fragTable[f]
      <4>1. e \notin For(w[2])
        BY <2>1, <3>3 DEF For
      <4>2. Good(writerCache, q, blocks, pins, deflator, disk, w)
        BY <2>1, <2>7, <3>1, <4>1, GoodAppend
      <4>3. w[1] # FragIndex(f)
        <5>1. SUFFICES ASSUME w[1] = FragIndex(f) PROVE FALSE
          OBVIOUS
        <5>2. PICK g \in DOMAIN fragTable : w = WantedFragment(g, fragTable[g]) /\ w[1] = FragIndex(g)
          BY <5>1, WantedIs, IndexIs DEF PlaceInv
        <5>3. g = f
          BY <5>1, <5>2, IndexIs
        <5> QED BY <3>3, <5>2, <5>3 DEF WantedFragment
      <4>4. ~Newest(writerCache, w[1], b)
        BY <2>2, <4>3 DEF Newest
      <4>5. \A d \in FragDeflators : d # x => de[d] = deflator[d]
        BY <2>1 DEF FragHandOver, Now
      <4>6. Placed(writerCache, deflator, w) => Placed(writerCache, de, w)
        BY <2>1, <4>4, <4>5 DEF Placed
      <4> QED BY <4>2, <4>6 DEF Good
    <3> QED BY <3>2, <3>3
  <2>10. AllGood'
    BY <2>1, <2>4, <2>5, <2>9 DEF AllGood
  <2> QED BY <2>5, <2>6, <2>8, <2>10 DEF PlaceInv
<1> QED BY <1>1, <1>2

\* A fragment has its place.
LEMMA NewPlace ==
  ASSUME IInv, Places, Apart, ~InHand, NEW f \in Nat, f \notin DOMAIN fragTable, fragTable' = With(fragTable, f, bytes),
         bytes' = bytes + 1, UNCHANGED <<todo, file, blocks, committed, locked, pins>>
  PROVE  /\ Places' /\ Wanted' = Wanted \cup {WantedFragment(f, bytes)} /\ Apart' /\ Holds'
         /\ DOMAIN fragTable \subseteq DOMAIN fragTable' /\ \A g \in DOMAIN fragTable : fragTable'[g] = fragTable[g]
<1>1. PICK t, v : t = fragTable' /\ v = WantedFragment(f, bytes)
  OBVIOUS
<1>2. DOMAIN t = DOMAIN fragTable \cup {f} /\ t[f] = bytes /\ \A g \in DOMAIN fragTable : t[g] = fragTable[g]
  BY <1>1 DEF With
<1>3. InHand' = InHand /\ Units' = Units
  BY DEF InHand, Units, At
<1>4. bytes \in Nat /\ Base = bytes /\ Base' = bytes + 1
  BY <1>3, UnitsAre DEF Base
<1>5. Wanted' = Wanted \cup {v}
  <2>1. {WantedFragment(g, t[g]) : g \in DOMAIN t} = {WantedFragment(g, fragTable[g]) : g \in DOMAIN fragTable} \cup {v}
    BY <1>1, <1>2
  <2>2. Wanted' = {WantedBlock(u) : u \in committed \cup Units} \cup {WantedFragment(g, t[g]) : g \in DOMAIN t}
    BY <1>1, <1>3 DEF Wanted
  <2> QED BY <2>1, <2>2 DEF Wanted
<1>6. Apart'
  <2>1. v[2] = bytes
    BY <1>1 DEF WantedFragment
  <2>2. \A w \in Wanted : w[2] < bytes /\ w[2] \in Nat
    BY Wants DEF Want
  <2>3. \A w, u \in Wanted \cup {v} : w[2] = u[2] => w = u
    BY <1>4, <2>1, <2>2 DEF Apart
  <2> QED BY <1>5, <2>3 DEF Apart
<1>7. Places'
  <2>1. committed \subseteq (0 .. bytes') \X ({"block"} \X Nat \X Nat)
    BY <1>4 DEF Places
  <2>2. \A g \in DOMAIN t : t[g] < bytes + 1
    <3>1. \A g \in DOMAIN fragTable : fragTable[g] < bytes /\ fragTable[g] \in Nat
      BY <1>4, FragTypes DEF Places, Table
    <3> QED BY <1>2, <1>4, <3>1
  <2>3. committed \subseteq (0 .. Base' - 1) \X ({"block"} \X Nat \X Nat)
    BY <1>4, <2>1 DEF Places
  <2> QED BY <1>1, <1>3, <1>4, <2>2, <2>3 DEF Places, At
<1>8. Holds'
  BY <1>3 DEF Holds
<1> QED BY <1>1, <1>2, <1>5, <1>6, <1>7, <1>8

LEMMA FragPlacePlaces == ASSUME IInv, FragInv, PlaceInv, NEW x \in FragDeflators, FragPlace(x) PROVE PlaceInv'
<1>1. CASE locked
  BY <1>1, DeflatorQuiet
<1>2. CASE ~locked
  <2>1. PICK f, b, de : f = fragmentCache.buf[deflator[x].from].index /\ b = deflator[x].to /\ de = deflator'
    OBVIOUS
  <2>2. /\ deflator[x].step = "compressed" /\ de = [deflator EXCEPT ![x] = [step |-> "placed", from |-> deflator[x].from, to |-> b]]
        /\ UNCHANGED <<todo, file, blocks, committed, locked, pins, writerCache, toWriter, leaked, disk>>
    BY <1>2, <2>1 DEF FragPlace, Now, fileVars, writeVars, searchVars
  <2>3. b \in WriterBuffers /\ writerCache.buf[b].index = FragIndex(f) /\ FragOf(b) = f /\ f \in Nat
    BY <2>1, <2>2, PairIs
  <2>4. f \notin DOMAIN fragTable /\ fragTable' = With(fragTable, f, bytes)
    BY <1>2, <2>1, FragFragPlace
  <2>5. bytes' = bytes + 1
    BY <1>2 DEF FragPlace, Assign
  <2>6. ~InHand
    BY <1>2 DEF PlaceInv, Places
  <2>7. PICK v : v = WantedFragment(f, bytes)
    OBVIOUS
  <2>8. /\ Places' /\ Wanted' = Wanted \cup {v} /\ Apart' /\ Holds'
        /\ DOMAIN fragTable \subseteq DOMAIN fragTable' /\ \A g \in DOMAIN fragTable : fragTable'[g] = fragTable[g]
    BY <2>2, <2>3, <2>4, <2>5, <2>6, <2>7, NewPlace DEF PlaceInv
  <2>9. Labels'
    BY <2>2, <2>8, LabelsStay DEF PlaceInv
  <2>10. de[x].step = "placed" /\ de[x].to = b /\ \A d \in FragDeflators : d # x => de[d] = deflator[d]
    BY <2>2, FragTypes
  <2>11. ASSUME NEW w \in Wanted PROVE Good(writerCache, toWriter, blocks, pins, de, disk, w)
    <3>1. Good(writerCache, toWriter, blocks, pins, deflator, disk, w)
      BY DEF PlaceInv, AllGood
    <3>2. Placed(writerCache, deflator, w) => Placed(writerCache, de, w)
      BY <2>2, <2>10 DEF Placed
    <3> QED BY <3>1, <3>2 DEF Good
  <2>12. Good(writerCache, toWriter, blocks, pins, de, disk, v)
    <3>1. v[1] = FragIndex(f) /\ v[3] = FragUnit(f)
      BY <2>7 DEF WantedFragment
    <3>2. /\ \A a : ~Older(writerCache, v[1], a)
          /\ \A a \in WriterBuffers : Newest(writerCache, v[1], a) => writerCache.buf[a].data = v[3]
          /\ Newest(writerCache, v[1], b)
      BY <2>3, <3>1, NoneOlder DEF Newest
    <3>3. Placed(writerCache, de, v)
      BY <2>10, <3>2 DEF Placed
    <3> QED BY <3>2, <3>3 DEF Good
  <2>13. AllGood'
    BY <2>1, <2>2, <2>8, <2>11, <2>12 DEF AllGood
  <2> QED BY <2>8, <2>9, <2>13 DEF PlaceInv
<1> QED BY <1>1, <1>2

LEMMA UnlockPendingPlaces == IInv /\ FragInv /\ PlaceInv /\ UnlockPending => PlaceInv'
<1> SUFFICES ASSUME IInv, FragInv, PlaceInv, UnlockPending PROVE PlaceInv'
  OBVIOUS
<1>1. PICK b, e, q : b = Head(pending) /\ e = <<b, bytes>> /\ q = Append(toWriter, e)
  OBVIOUS
<1>2. PICK f \in 0 .. fragments - 1 : /\ writerCache.buf[b].index = FragIndex(f) /\ f \notin DOMAIN fragTable
                                      /\ fragTable' = With(fragTable, f, bytes)
  BY <1>1, FragUnlockPending
<1>3. /\ bytes' = bytes + 1 /\ toWriter' = q /\ At("unlock") /\ pending # <<>>
      /\ UNCHANGED <<todo, file, blocks, committed, locked, pins, writerCache, leaked, disk, deflator>>
  BY <1>1 DEF UnlockPending, Assign, fileVars, writeVars, searchVars
<1>4. b \in WriterBuffers /\ f \in Nat
  <2>1. pending \in Seq(WriterBuffers) /\ fragments \in Nat
    BY FragTypes
  <2> QED BY <1>1, <1>3, <2>1, TailFacts
<1>5. ~InHand
  BY <1>3 DEF InHand, At
<1>6. PICK v, t : v = WantedFragment(f, bytes) /\ t = fragTable'
  OBVIOUS
<1>7. /\ Places' /\ Wanted' = Wanted \cup {v} /\ Apart' /\ Holds'
      /\ DOMAIN fragTable \subseteq DOMAIN t /\ \A g \in DOMAIN fragTable : t[g] = fragTable[g]
  BY <1>2, <1>3, <1>4, <1>5, <1>6, NewPlace DEF PlaceInv
<1>8. e[1] = b /\ e[2] = bytes /\ e \in Messages /\ toWriter \in Seq(Messages) /\ bytes \in Nat
  BY <1>1, <1>4, UnitsAre DEF Messages, IInv, HandTypes, PlaceInv
<1>9. Labels'
  <2>1. Labelled(writerCache, e, t)
    <3>1. f \in DOMAIN t /\ t[f] = bytes
      BY <1>2, <1>6 DEF With
    <3> QED BY <1>2, <1>8, <3>1 DEF Labelled
  <2>2. \A m \in 1 .. Len(toWriter) : toWriter[m] # Flush => Labelled(writerCache, toWriter[m], t)
    BY <1>7, LabelledStays DEF PlaceInv, Labels
  <2>3. \A m \in 1 .. Len(q) : q[m] # Flush => Labelled(writerCache, q[m], t)
    BY <1>1, <1>8, <2>1, <2>2, LabelsAppend
  <2> QED BY <1>3, <1>6, <2>3 DEF PlaceInv, Labels
<1>10. ASSUME NEW w \in Wanted PROVE Good(writerCache, q, blocks, pins, deflator, disk, w)
  <2>1. Good(writerCache, toWriter, blocks, pins, deflator, disk, w) /\ w[2] < bytes /\ w[2] \in Nat
    BY Wants DEF PlaceInv, AllGood, Want
  <2>2. e \notin For(w[2])
    BY <1>1, <1>8, <2>1 DEF For
  <2> QED BY <1>1, <1>8, <2>1, <2>2, GoodAppend
<1>11. Good(writerCache, q, blocks, pins, deflator, disk, v)
  <2>1. v[1] = FragIndex(f) /\ v[2] = bytes /\ v[3] = FragUnit(f)
    BY <1>6 DEF WantedFragment
  <2>2. /\ \A a : ~Older(writerCache, v[1], a)
        /\ \A a \in WriterBuffers : Newest(writerCache, v[1], a) => writerCache.buf[a].data = v[3]
        /\ Newest(writerCache, v[1], b)
    BY <1>2, <1>4, <2>1, NoneOlder DEF Newest
  <2>3. e \in For(v[2])
    BY <1>1, <1>4, <2>1 DEF For
  <2>4. Sent(writerCache, q, v)
    BY <1>1, <1>8, <2>2, <2>3, GoodSent
  <2> QED BY <2>2, <2>4 DEF Good
<1>12. AllGood'
  BY <1>3, <1>7, <1>10, <1>11 DEF AllGood
<1> QED BY <1>7, <1>9, <1>12 DEF PlaceInv

-----------------------------------------------------------------------------
(* A buffer is taken.                                                      *)

\* A block held is in use, and stays the newest of its position.
LEMMA HoldsFresh ==
  ASSUME IInv, Places, Holds, InHand, CanGet(writerCache), NEW i \in WriterIndexes, NEW x \in Datas,
         NEW c, c = Fresh(writerCache, NextFree(writerCache), i, x),
         NEW k \in 1 .. Len(blocks), blocks[k] # None, AtPosition(file.start + k - 1) # i
  PROVE  Newest(c, AtPosition(file.start + k - 1), blocks[k])
<1>1. PICK b, key : b = NextFree(writerCache) /\ key = AtPosition(file.start + k - 1)
  OBVIOUS
<1>2. b \in WriterBuffers /\ writerCache.buf[b].used = 0
  BY <1>1, WriterTakes
<1>3. Newest(writerCache, key, blocks[k])
  BY <1>1 DEF Holds
<1>4. blocks[k] # b
  BY <1>2, WhoUses
<1>5. writerCache \in Caches(WriterBuffers, WriterIndexes) /\ CacheOK(writerCache)
  BY DEF IInv, CacheTypes
<1>6. key \in WriterIndexes /\ key # None
  <2>1. file.start + k - 1 \in Nat
    <3>1. file.start \in Nat /\ Len(blocks) \in Nat
      BY UnitsAre DEF IInv, HandTypes
    <3> QED BY <3>1
  <2> QED BY <1>1, <2>1, IndexIs
<1>7. ~Newest(writerCache, key, b)
  <2>1. \A a : Newest(writerCache, key, a) => Find(writerCache, key) = a
    BY <1>5, <1>6, NewestFacts
  <2>2. Find(writerCache, key) = blocks[k]
    BY <1>3, <2>1
  <2>3. Newest(writerCache, key, b) => Find(writerCache, key) = b
    BY <2>1
  <2> QED BY <1>4, <2>2, <2>3
<1>8. \A a : Newest(c, key, a) <=> Newest(writerCache, key, a) /\ a # b
  BY <1>1, <1>2, <1>5, <1>6, <1>7, FreshKeeps, NoneIsNone
<1> QED BY <1>1, <1>3, <1>4, <1>8

LEMMA FreshIndex ==
  ASSUME IInv, CanGet(writerCache), NEW i, NEW x, NEW c, c = Fresh(writerCache, NextFree(writerCache), i, x)
  PROVE  \A a \in WriterBuffers : writerCache.buf[a].used > 0 => c.buf[a] = writerCache.buf[a]
<1>1. PICK b : b = NextFree(writerCache)
  OBVIOUS
<1>2. b \in WriterBuffers /\ writerCache.buf[b].used = 0
  BY <1>1, WriterTakes
<1>3. writerCache \in Caches(WriterBuffers, WriterIndexes)
  BY DEF IInv, CacheTypes
<1>4. \A a \in WriterBuffers \ {b} : c.buf[a] = writerCache.buf[a]
  BY <1>1, <1>2, <1>3, FreshBuf
<1> QED BY <1>2, <1>4

LEMMA CompressPlaces == ASSUME IInv, FragInv, PlaceInv, NEW x \in FragDeflators, FragCompress(x) PROVE PlaceInv'
<1>1. PICK g, f, i, y, c, de : /\ g = deflator[x].from /\ f = FragNumber(g) /\ i = FragIndex(f)
                               /\ y = fragmentCache.buf[g].data /\ c = writerCache' /\ de = deflator'
  OBVIOUS
<1>2. /\ CanGet(writerCache) /\ g \in FragmentBuffers /\ f \in Nat /\ i \in WriterIndexes /\ y \in Datas
      /\ c = Fresh(writerCache, NextFree(writerCache), i, y)
  BY <1>1, WriterTakes
<1>3. /\ deflator[x].step = "taken" /\ \E r : de = [deflator EXCEPT ![x] = r]
      /\ UNCHANGED <<todo, file, blocks, committed, fragTable, bytes, locked, pins, toWriter, leaked, disk>>
  <2>1. deflator[x].step = "taken" /\ de = [deflator EXCEPT ![x] = [step |-> "compressed", from |-> g, to |-> NextFree(writerCache)]]
    BY <1>1 DEF FragCompress, Now
  <2> QED BY <2>1 DEF FragCompress, fileVars, placeVars, writeVars, searchVars
<1>4. Places' /\ Wanted' = Wanted /\ InHand' = InHand
  BY <1>3, PlacesStay DEF PlaceInv
<1>5. Apart'
  BY <1>4, ApartStays DEF PlaceInv
<1>6. Holds'
  <2>1. SUFFICES ASSUME InHand, NEW k \in 1 .. Len(blocks), blocks[k] # None
                 PROVE  Newest(c, AtPosition(file.start + k - 1), blocks[k])
    BY <1>1, <1>3, <1>4 DEF Holds
  <2>2. AtPosition(file.start + k - 1) # i
    BY <1>1, IndexIs
  <2>3. Places /\ Holds
    BY DEF PlaceInv
  <2> QED BY <1>2, <2>1, <2>2, <2>3, HoldsFresh
<1>7. Labels'
  <2>1. \A a \in WriterBuffers : writerCache.buf[a].used > 0 => c.buf[a].index = writerCache.buf[a].index
    BY <1>2, FreshIndex
  <2> QED BY <1>1, <1>3, <2>1, LabelsStay DEF PlaceInv
<1>8. f \notin DOMAIN fragTable
  <2>1. deflator[x].step \in Unplaced /\ fragmentCache.buf[deflator[x].from].index = f
    BY <1>1, <1>3 DEF Unplaced, FragNumber
  <2>2. f \in 0 .. fragments - 1
    <3>1. deflator[x].from # None
      BY <1>1, <1>2, NoneIsNone
    <3> QED BY <2>1, <3>1 DEF IInv, Numbered, Numbers
  <2> QED BY <2>1, <2>2, OneWay
<1>9. \A w \in Wanted : Good(c, toWriter, blocks, pins, de, disk, w)
  <2> TAKE w \in Wanted
  <2>1. Good(writerCache, toWriter, blocks, pins, deflator, disk, w) /\ Want(w)
    BY Wants DEF PlaceInv, AllGood
  <2>2. w[1] # i
    <3>1. CASE w[1] = AtPosition(w[2])
      BY <1>1, <3>1, IndexIs
    <3>2. CASE \E h \in DOMAIN fragTable : w[1] = FragIndex(h)
      BY <1>1, <1>8, <3>2, IndexIs
    <3> QED BY <3>1, <3>2, WantedIs DEF PlaceInv
  <2>3. WriterIs(writerCache) /\ InUse(writerCache, toWriter, blocks, deflator)
    BY InUseNow DEF IInv, CacheTypes, WriterIs
  <2>4. PICK b : b = NextFree(writerCache)
    OBVIOUS
  <2>5. Good(c, toWriter, blocks, pins, deflator, disk, w)
    BY <1>2, <2>1, <2>2, <2>3, <2>4, GoodFresh
  <2>6. Placed(c, deflator, w) => Placed(c, de, w)
    BY <1>3 DEF Placed
  <2> QED BY <2>5, <2>6 DEF Good
<1>10. AllGood'
  BY <1>1, <1>3, <1>4, <1>9 DEF AllGood
<1> QED BY <1>4, <1>5, <1>6, <1>7, <1>10 DEF PlaceInv

\* One more block of the file in hand.
LEMMA NewBlock ==
  ASSUME IInv, Places, Apart, InHand, At("blocks"), NEW e \in WriterBuffers \cup {None}, blocks' = Append(blocks, e),
         bytes' = bytes + 1, UNCHANGED <<todo, file, committed, fragTable, locked, pins>>
  PROVE  /\ Places' /\ Apart' /\ InHand' /\ Len(blocks) \in Nat /\ bytes = file.start + Len(blocks)
         /\ Wanted' = Wanted \cup {<<AtPosition(bytes), bytes, BlockUnit(file, Len(blocks))>>}
<1>1. PICK n, v, u, bl : /\ n = Len(blocks) /\ u = <<file.start + n, BlockUnit(file, n)>> /\ v = WantedBlock(u) /\ bl = blocks'
  OBVIOUS
<1>2. /\ n \in Nat /\ Len(bl) = n + 1 /\ bytes = file.start + n /\ file.start \in Nat /\ bytes \in Nat /\ file \in Files
  <2>1. blocks \in Seq(WriterBuffers \cup {None})
    BY DEF IInv, HandTypes
  <2> QED BY <1>1, <2>1, UnitsAre DEF Places, IInv, MainTypes
<1>3. ~At("putback") /\ ~At("putback")' /\ InHand'
  BY DEF InHand, At
<1>4. Units' = Units \cup {u}
  <2>1. Units' = {<<file.start + k, BlockUnit(file, k)>> : k \in 0 .. n}
    BY <1>1, <1>2, <1>3 DEF Units
  <2>2. Units = {<<file.start + k, BlockUnit(file, k)>> : k \in 0 .. n - 1}
    BY <1>1, <1>2, <1>3 DEF Units
  <2>3. 0 .. n = (0 .. n - 1) \cup {n}
    BY <1>2
  <2> QED BY <1>1, <2>1, <2>2, <2>3
<1>5. Wanted' = Wanted \cup {v}
  BY <1>1, <1>4 DEF Wanted
<1>6. v = <<AtPosition(bytes), bytes, BlockUnit(file, Len(blocks))>> /\ v[2] = bytes
  BY <1>1, <1>2 DEF WantedBlock
<1>7. Apart'
  <2>1. \A w \in Wanted : w[2] < bytes /\ w[2] \in Nat
    BY Wants DEF Want
  <2>2. ASSUME NEW w \in Wanted \cup {v}, NEW r \in Wanted \cup {v}, w[2] = r[2] PROVE w = r
    <3>1. CASE w \in Wanted /\ r \in Wanted
      BY <2>2, <3>1 DEF Apart
    <3>2. CASE w = v \/ r = v
      <4>1. v[2] = bytes /\ bytes \in Nat
        BY <1>2, <1>6
      <4>2. w \notin Wanted \/ r \notin Wanted => w = v /\ r = v
        BY <2>1, <2>2, <3>2, <4>1
      <4> QED BY <2>1, <2>2, <3>2, <4>1, <4>2
    <3> QED BY <2>2, <3>1, <3>2
  <2> QED BY <1>5, <2>2 DEF Apart
<1>8. Places'
  <2>1. Base' = file.start /\ Base = file.start
    BY <1>3 DEF Base
  <2> QED BY <1>1, <1>2, <1>3, <2>1 DEF Places, At
<1> QED BY <1>1, <1>2, <1>3, <1>5, <1>6, <1>7, <1>8

LEMMA WriteBlockPlaces == IInv /\ FragInv /\ PlaceInv /\ WriteBlock => PlaceInv'
<1> SUFFICES ASSUME IInv, FragInv, PlaceInv, WriteBlock PROVE PlaceInv'
  OBVIOUS
<1>1. PICK b, i, y, c, m, v : /\ b = NextFree(writerCache) /\ i = AtPosition(bytes) /\ y = BlockUnit(file, Len(blocks))
                              /\ c = writerCache' /\ m = <<b, bytes>> /\ v = <<i, bytes, y>>
  OBVIOUS
<1>2. /\ CanGet(writerCache) /\ i \in WriterIndexes /\ y \in Datas /\ c = Fresh(writerCache, b, i, y)
      /\ b \in WriterBuffers /\ writerCache.buf[b].used = 0
  BY <1>1, WriterTakes
<1>3. /\ At("blocks") /\ bytes' = bytes + 1 /\ Len(blocks) < file.size
      /\ UNCHANGED <<todo, file, committed, fragTable, locked, pins, leaked, disk, deflator>>
  BY DEF WriteBlock, fragVars, writeVars, searchVars
<1>4. PICK e, bl, q : /\ e = (IF Len(blocks) < file.thresh THEN None ELSE b) /\ bl = Append(blocks, e)
                      /\ q = (IF Len(blocks) < file.thresh THEN Append(toWriter, m) ELSE toWriter)
  OBVIOUS
<1>5. blocks' = bl /\ toWriter' = q /\ e \in WriterBuffers \cup {None}
  BY <1>1, <1>2, <1>4 DEF WriteBlock
<1>6. blocks \in Seq(WriterBuffers \cup {None}) /\ toWriter \in Seq(Messages) /\ file.size \in Nat /\ file.thresh \in Nat
  BY UnitsAre DEF IInv, HandTypes, PlaceInv
<1>7. InHand
  BY <1>3, <1>6 DEF InHand
<1>8. /\ Places' /\ Apart' /\ InHand' /\ Len(blocks) \in Nat /\ bytes = file.start + Len(blocks)
      /\ Wanted' = Wanted \cup {v}
  BY <1>1, <1>3, <1>4, <1>5, <1>7, NewBlock DEF PlaceInv
<1>9. bytes \in Nat /\ m[1] = b /\ m[2] = bytes /\ m \in Messages
  BY <1>1, <1>2, UnitsAre DEF Messages, PlaceInv
<1>10. /\ DOMAIN c.buf = WriterBuffers /\ c.buf[b].index = i /\ c.buf[b].data = y
       /\ \A a \in WriterBuffers \ {b} : c.buf[a] = writerCache.buf[a]
  <2>1. writerCache \in Caches(WriterBuffers, WriterIndexes)
    BY DEF IInv, CacheTypes
  <2> QED BY <1>2, <2>1, FreshBuf
<1>11. Newest(c, i, b) /\ WriterIs(c)
  <2>1. writerCache \in Caches(WriterBuffers, WriterIndexes) /\ CacheOK(writerCache)
    BY DEF IInv, CacheTypes
  <2> QED BY <1>2, <2>1, FreshIs, NoneIsNone DEF WriterIs
<1>12. /\ Len(bl) = Len(blocks) + 1 /\ bl[Len(blocks) + 1] = e
       /\ \A k \in 1 .. Len(blocks) : bl[k] = blocks[k]
  BY <1>4, <1>5, <1>6
<1>13. Holds'
  <2>1. SUFFICES ASSUME NEW k \in 1 .. Len(bl), bl[k] # None PROVE Newest(c, AtPosition(file.start + k - 1), bl[k])
    BY <1>1, <1>3, <1>5 DEF Holds
  <2>2. CASE k = Len(blocks) + 1
    <3>1. bl[k] = b
      BY <1>4, <1>12, <2>1, <2>2
    <3>2. file.start + k - 1 = bytes
      BY <1>8, <2>2, UnitsAre DEF PlaceInv
    <3> QED BY <1>1, <1>11, <3>1, <3>2
  <2>3. CASE k # Len(blocks) + 1
    <3>1. k \in 1 .. Len(blocks) /\ bl[k] = blocks[k]
      BY <1>8, <1>12, <2>3
    <3>2. file.start + k - 1 # bytes
      BY <1>8, <3>1, UnitsAre DEF PlaceInv
    <3>3. AtPosition(file.start + k - 1) # i
      BY <1>1, <3>2, IndexIs
    <3> QED BY <1>1, <1>2, <1>7, <2>1, <3>1, <3>3, HoldsFresh DEF PlaceInv
  <2> QED BY <2>2, <2>3
<1>14. Labels'
  <2>1. \A k \in 1 .. Len(toWriter) : toWriter[k] # Flush => Labelled(c, toWriter[k], fragTable)
    <3>1. \A a \in WriterBuffers : writerCache.buf[a].used > 0 => c.buf[a].index = writerCache.buf[a].index
      BY <1>1, <1>2, FreshIndex
    <3> QED BY <3>1, LabelledStays DEF PlaceInv, Labels
  <2>2. Labelled(c, m, fragTable)
    BY <1>1, <1>9, <1>10 DEF Labelled
  <2>3. \A k \in 1 .. Len(q) : q[k] # Flush => Labelled(c, q[k], fragTable)
    <3>1. CASE Len(blocks) < file.thresh
      BY <1>4, <1>9, <2>1, <2>2, <3>1, LabelsAppend
    <3>2. CASE ~(Len(blocks) < file.thresh)
      BY <1>4, <2>1, <3>2
    <3> QED BY <3>1, <3>2
  <2>4. \A a \in WriterBuffers : leaked[a] > 0 => c.buf[a].index \in FragKeys
    <3>1. \A a \in WriterBuffers : leaked[a] > 0 => writerCache.buf[a].used > 0 /\ a # b
      BY <1>2, WhoUses
    <3> QED BY <1>10, <3>1 DEF PlaceInv, Labels
  <2> QED BY <1>1, <1>3, <1>5, <2>3, <2>4 DEF Labels
<1>15. pins = <<>>
  BY <1>3 DEF PlaceInv, Places, At
<1>16. ASSUME NEW w \in Wanted PROVE Good(c, q, bl, pins, deflator, disk, w)
  <2>1. /\ Good(writerCache, toWriter, blocks, pins, deflator, disk, w) /\ Want(w) /\ w[2] < bytes
        /\ w[1] = AtPosition(w[2]) \/ \E f \in Nat : w[1] = FragIndex(f)
    BY Wants DEF PlaceInv, AllGood
  <2>2. w[1] # i /\ w[2] # bytes
    <3>1. w[2] \in Nat /\ w[2] # bytes
      BY <1>9, <2>1 DEF Want
    <3> QED BY <1>1, <2>1, <3>1, IndexIs
  <2>3. WriterIs(writerCache) /\ InUse(writerCache, toWriter, blocks, deflator)
    BY InUseNow DEF IInv, CacheTypes, WriterIs
  <2>4. Good(c, toWriter, blocks, pins, deflator, disk, w)
    BY <1>1, <1>2, <2>1, <2>2, <2>3, GoodFresh
  <2>5. Good(c, q, blocks, pins, deflator, disk, w)
    <3>1. m \notin For(w[2])
      BY <1>1, <2>2 DEF For
    <3>2. CASE Len(blocks) < file.thresh
      BY <1>4, <1>6, <1>9, <2>4, <3>1, <3>2, GoodAppend
    <3>3. CASE ~(Len(blocks) < file.thresh)
      BY <1>4, <2>4, <3>3
    <3> QED BY <3>2, <3>3
  <2>6. Kept(c, blocks, w) => Kept(c, bl, w)
    BY <1>8, <1>12 DEF Kept
  <2>7. ASSUME NEW a \in WriterBuffers, Older(c, w[1], a) PROVE a \notin ToSet(pins) \cup ToSet(bl)
    <3>1. a \notin ToSet(pins) \cup ToSet(blocks)
      BY <2>5, <2>7 DEF Good
    <3>2. a # b
      BY <1>10, <2>2, <2>7 DEF Older
    <3>3. a # e
      BY <1>4, <2>7, <3>2, NoneIsNone
    <3>4. \A k \in 1 .. Len(bl) : bl[k] = e \/ bl[k] \in ToSet(blocks)
      <4> TAKE k \in 1 .. Len(bl)
      <4>1. CASE k = Len(blocks) + 1
        BY <1>12, <4>1
      <4>2. CASE k # Len(blocks) + 1
        <5>1. k \in 1 .. Len(blocks) /\ bl[k] = blocks[k]
          BY <1>8, <1>12, <4>2
        <5> QED BY <5>1 DEF ToSet
      <4> QED BY <4>1, <4>2
    <3>5. a \notin ToSet(bl)
      BY <3>1, <3>3, <3>4 DEF ToSet
    <3> QED BY <3>1, <3>5
  <2> QED BY <2>5, <2>6, <2>7 DEF Good
<1>17. Good(c, q, bl, pins, deflator, disk, v)
  <2>1. v[1] = i /\ v[2] = bytes /\ v[3] = y
    BY <1>1
  <2>2. Want(v)
    BY <1>2, <1>9, <2>1 DEF Want
  <2>3. \A a \in WriterBuffers : Newest(c, v[1], a) => c.buf[a].data = v[3]
    BY <1>10, <1>11, <2>1, <2>2, WantedNewest
  <2>4. ASSUME NEW a \in WriterBuffers, Older(c, v[1], a) PROVE a \notin ToSet(pins) \cup ToSet(bl)
    <3>1. a # b /\ a # None /\ c.buf[a].index = i
      BY <1>11, <2>1, <2>4, NoneIsNone DEF Older
    <3>2. a # e
      BY <1>4, <3>1
    <3>3. ASSUME NEW k \in 1 .. Len(blocks), blocks[k] = a PROVE FALSE
      <4>1. Newest(writerCache, AtPosition(file.start + k - 1), a)
        BY <1>7, <3>1, <3>3 DEF PlaceInv, Holds
      <4>2. writerCache.buf[a].index = AtPosition(file.start + k - 1)
        BY <4>1 DEF Newest
      <4>3. AtPosition(file.start + k - 1) = i
        BY <1>10, <3>1, <4>2
      <4>4. file.start + k - 1 = bytes
        BY <1>1, <4>3, IndexIs
      <4> QED BY <1>8, <4>4, UnitsAre DEF PlaceInv
    <3>4. ASSUME NEW k \in 1 .. Len(bl), bl[k] = a PROVE FALSE
      <4>1. k # Len(blocks) + 1
        BY <1>12, <3>2, <3>4
      <4>2. k \in 1 .. Len(blocks) /\ blocks[k] = a
        BY <1>8, <1>12, <3>4, <4>1
      <4> QED BY <3>3, <4>2
    <3>5. a \notin ToSet(bl)
      BY <3>4 DEF ToSet
    <3>6. a \notin ToSet(pins)
      BY <1>15 DEF ToSet
    <3> QED BY <3>5, <3>6
  <2>5. Sent(c, q, v) \/ Kept(c, bl, v)
    <3>1. CASE Len(blocks) < file.thresh
      <4>1. m \in For(v[2])
        BY <1>1, <1>2, <2>1 DEF For
      <4>2. Newest(c, v[1], m[1]) /\ q = Append(toWriter, m)
        BY <1>4, <1>9, <1>11, <2>1, <3>1
      <4>3. Sent(c, q, v)
        BY <1>6, <1>9, <4>1, <4>2, GoodSent
      <4> QED BY <4>3
    <3>2. CASE ~(Len(blocks) < file.thresh)
      <4>1. Len(blocks) + 1 \in 1 .. Len(bl) /\ bl[Len(blocks) + 1] = b
        BY <1>4, <1>8, <1>12, <3>2
      <4> QED BY <1>11, <2>1, <4>1 DEF Kept
    <3> QED BY <3>1, <3>2
  <2> QED BY <2>3, <2>4, <2>5 DEF Good
<1>18. AllGood'
  BY <1>1, <1>3, <1>5, <1>8, <1>16, <1>17 DEF AllGood
<1> QED BY <1>8, <1>13, <1>14, <1>18 DEF PlaceInv

-----------------------------------------------------------------------------
(* The main thread's steps that send and look up nothing.                  *)

LEMMA UnitsTurn ==
  ASSUME IInv, UNCHANGED <<file, blocks>>
  PROVE  /\ At("putback")' => Units' = {}
         /\ ~At("putback")' /\ ~At("putback") => Units' = Units
<1>1. Units' = {<<file.start + k, BlockUnit(file, k)>> : k \in 0 .. (IF At("putback")' THEN 0 ELSE Len(blocks)) - 1}
  BY DEF Units
<1>2. 0 .. 0 - 1 = {}
  OBVIOUS
<1> QED BY <1>1, <1>2 DEF Units

LEMMA TurnPlaces ==
  ASSUME IInv, Places, todo' \in Stages, UNCHANGED <<file, blocks, committed, fragTable, bytes, pins>>,
         InHand' = InHand, InHand => locked', pins # <<>> => At("search")', ~At("putback")
  PROVE  Places' /\ Wanted' \subseteq Wanted
<1>1. Units' \subseteq Units
  BY UnitsTurn
<1>2. Base' = Base
  BY DEF Base
<1>3. Wanted' \subseteq Wanted
  BY <1>1 DEF Wanted
<1>4. Places'
  BY <1>1, <1>2 DEF Places
<1> QED BY <1>3, <1>4

LEMMA Turns ==
  ASSUME IInv, Places
  PROVE  /\ ReadFragment \/ FillFragment \/ LastFragment \/ Drain \/ UnlockDone \/ Truncate \/ Duplicate
            \/ (EndBlocks /\ file.dup)
              => todo' \in Stages /\ InHand' = InHand /\ ~At("putback")
         /\ \A f \in Nat : GetFragment(f) => todo' \in Stages /\ InHand' = InHand /\ ~At("putback")
<1>1. /\ todo \in Stages /\ (file.size = 0 => file.thresh = 0) /\ file.size \in Nat
  BY UnitsAre DEF Places
<1>2. ASSUME ReadFragment PROVE todo' \in Stages /\ InHand' = InHand /\ ~At("putback")
  <2>1. todo' = <<"search">> /\ At("read") /\ file' = file
    BY <1>1, <1>2, NextStage DEF ReadFragment, fileVars
  <2> QED BY <2>1 DEF Stages, InHand, At
<1>3. ASSUME FillFragment PROVE todo' \in Stages /\ InHand' = InHand /\ ~At("putback")
  <2>1. todo' \in {<<>>, <<"unlock">>} /\ At("fill") /\ file' = file
    BY <1>1, <1>3, NextStage DEF FillFragment, fileVars
  <2> QED BY <2>1 DEF Stages, InHand, At
<1>4. ASSUME LastFragment PROVE todo' \in Stages /\ InHand' = InHand /\ ~At("putback")
  <2>1. todo' = <<"unlock", "drain">> /\ todo = <<>> /\ file' = file
    BY <1>1, <1>4, NextStage DEF LastFragment, CloseFragment, fileVars
  <2> QED BY <2>1 DEF Stages, InHand, At
<1>5. ASSUME Drain PROVE todo' \in Stages /\ InHand' = InHand /\ ~At("putback")
  <2>1. todo' = <<"drained">> /\ At("drain") /\ file' = file
    BY <1>1, <1>5, NextStage DEF Drain, fileVars
  <2> QED BY <2>1 DEF Stages, InHand, At
<1>6. ASSUME UnlockDone PROVE todo' \in Stages /\ InHand' = InHand /\ ~At("putback")
  <2>1. todo' \in {<<>>, <<"fill">>, <<"drain">>} /\ At("unlock") /\ file' = file
    BY <1>1, <1>6, NextStage DEF UnlockDone, fileVars
  <2> QED BY <2>1 DEF Stages, InHand, At
<1>7. ASSUME Truncate PROVE todo' \in Stages /\ InHand' = InHand /\ ~At("putback")
  <2>1. todo' = <<"unlock">> /\ At("truncate") /\ file' = file
    BY <1>1, <1>7, NextStage DEF Truncate, fileVars
  <2> QED BY <2>1 DEF Stages, InHand, At
<1>8. ASSUME Duplicate PROVE todo' \in Stages /\ InHand' = InHand /\ ~At("putback")
  <2>1. todo' = <<"putback">> /\ At("search") /\ file' = file
    BY <1>1, <1>8, NextStage DEF Duplicate, Looking, fileVars
  <2> QED BY <2>1 DEF Stages, InHand, At
<1>9. ASSUME EndBlocks, file.dup PROVE todo' \in Stages /\ InHand' = InHand /\ ~At("putback")
  <2>1. todo' = <<"search">> /\ At("blocks") /\ file' = file
    BY <1>1, <1>9, NextStage DEF EndBlocks
  <2> QED BY <2>1 DEF Stages, InHand, At
<1>10. ASSUME NEW f \in Nat, GetFragment(f) PROVE todo' \in Stages /\ InHand' = InHand /\ ~At("putback")
  <2>1. (todo' = <<"search">> \/ todo' = <<"read", f, "search">>) /\ At("search") /\ file' = file
    BY <1>1, <1>10, NextStage DEF GetFragment, Looking, fileVars
  <2>2. <<"read", f, "search">> \in Stages /\ <<"search">> \in Stages
    BY DEF Stages
  <2> QED BY <2>1, <2>2 DEF InHand, At
<1> QED BY <1>2, <1>3, <1>4, <1>5, <1>6, <1>7, <1>8, <1>9, <1>10, Zenon

LEMMA QuietPlaces ==
  ASSUME IInv, PlaceInv,
         \/ ReadFragment \/ FillFragment \/ LastFragment \/ Drain \/ UnlockDone \/ Duplicate \/ (EndBlocks /\ file.dup)
         \/ PutFragment \/ FillFull \/ UNCHANGED vars
  PROVE  PlaceInv'
<1>1. /\ UNCHANGED <<file, blocks, committed, fragTable, bytes, pins, writerCache, toWriter, leaked, disk, deflator>>
      /\ UNCHANGED locked \/ UnlockDone
  BY DEF ReadFragment, FillFragment, LastFragment, Drain, UnlockDone, Duplicate, EndBlocks, PutFragment, FillFull,
         CloseFragment, fileVars, placeVars, writeVars, searchVars, vars
<1>2. Places' /\ Wanted' \subseteq Wanted /\ Holds'
  <2>1. CASE UNCHANGED todo /\ UNCHANGED locked
    <3>1. Places' /\ Wanted' = Wanted /\ InHand' = InHand
      BY <1>1, <2>1, PlacesStay DEF PlaceInv
    <3> QED BY <1>1, <3>1, HoldsStays DEF PlaceInv
  <2>2. CASE ~(UNCHANGED todo /\ UNCHANGED locked)
    <3>1. \/ ReadFragment \/ FillFragment \/ LastFragment \/ Drain \/ UnlockDone \/ Duplicate \/ (EndBlocks /\ file.dup)
      BY <1>1, <2>2 DEF PutFragment, FillFull, vars
    <3>2. todo' \in Stages /\ InHand' = InHand /\ ~At("putback")
      BY <3>1, Turns DEF PlaceInv
    <3>3. InHand => locked'
      <4>1. CASE UnlockDone
        BY <4>1 DEF UnlockDone, InHand, At
      <4> QED BY <1>1, <4>1 DEF PlaceInv, Places
    <3>4. pins = <<>>
      BY <3>1 DEF PlaceInv, Places, ReadFragment, FillFragment, LastFragment, Drain, UnlockDone, Duplicate, EndBlocks, Looking, At
    <3> QED BY <1>1, <3>2, <3>3, <3>4, TurnPlaces, HoldsStays DEF PlaceInv
  <2> QED BY <2>1, <2>2
<1> QED BY <1>1, <1>2, QuietKeeps

\* A file that cannot be a duplicate has its inode after its last block.
LEMMA EndBlocksPlaces == IInv /\ PlaceInv /\ EndBlocks => PlaceInv'
<1> SUFFICES ASSUME IInv, PlaceInv, EndBlocks PROVE PlaceInv'
  OBVIOUS
<1>1. CASE file.dup
  BY <1>1, QuietPlaces
<1>2. CASE ~file.dup
  <2>1. /\ committed' = committed \cup Units /\ At("blocks") /\ Len(blocks) = file.size
        /\ UNCHANGED <<file, blocks, fragTable, bytes, pins, writerCache, toWriter, leaked, disk, deflator, locked>>
    BY <1>2 DEF EndBlocks, placeVars, writeVars, searchVars
  <2>2. todo' \in {<<"unlock", "fill">>, <<"unlock">>}
    BY <1>2, UnitsAre, NextStage DEF PlaceInv, Places
  <2>3. ~At("putback") /\ ~At("putback")' /\ ~InHand' /\ ~At("search") /\ todo' \in Stages
    BY <2>1, <2>2 DEF InHand, At, Stages
  <2>4. Units' = Units
    BY <2>1, <2>3, UnitsTurn
  <2>5. Wanted' = Wanted
    BY <2>1, <2>4 DEF Wanted
  <2>6. /\ Base \in Nat /\ bytes \in Nat /\ Base <= bytes /\ Base' = bytes
        /\ \A u \in committed : u \in Nat \X ({"block"} \X Nat \X Nat) /\ u[1] < Base
        /\ \A f \in DOMAIN fragTable : fragTable[f] < Base /\ fragTable[f] \in Nat
    BY <2>1, <2>3, UnitsAre, FragTypes DEF PlaceInv, Places, Base, Table
  <2>7. ASSUME NEW u \in committed \cup Units PROVE u \in (0 .. bytes - 1) \X ({"block"} \X Nat \X Nat)
    <3>1. CASE u \in committed
      BY <2>6, <3>1
    <3>2. CASE u \in Units
      <4>1. PICK k \in 0 .. Len(blocks) - 1 : u = <<file.start + k, BlockUnit(file, k)>>
        BY <3>2, UnitsAre DEF PlaceInv
      <4>2. u[1] \in Nat /\ u[1] < bytes /\ k \in Nat /\ file.number \in Nat
        BY <2>1, <2>7, UnitsAre DEF PlaceInv, IInv, MainTypes, Files
      <4> QED BY <2>6, <4>1, <4>2 DEF BlockUnit
    <3> QED BY <3>1, <3>2
  <2>8. Places'
    <3>1. committed' \subseteq (0 .. Base' - 1) \X ({"block"} \X Nat \X Nat)
      BY <2>1, <2>6, <2>7
    <3>2. \A f \in DOMAIN fragTable : fragTable[f] < Base'
      BY <2>6
    <3>3. pins = <<>>
      BY <2>3 DEF PlaceInv, Places
    <3>4. file.size = 0 => file.thresh = 0
      BY DEF PlaceInv, Places
    <3> QED BY <2>1, <2>3, <2>4, <3>1, <3>2, <3>3, <3>4 DEF Places
  <2>9. Holds'
    BY <2>3 DEF Holds
  <2> QED BY <2>1, <2>5, <2>8, <2>9, QuietKeeps
<1> QED BY <1>1, <1>2

-----------------------------------------------------------------------------
(* The main thread's lookups.                                              *)

LEMMA PinsPlaces ==
  ASSUME IInv, PlaceInv, At("search"),
         UNCHANGED <<todo, file, blocks, committed, fragTable, bytes, locked, toWriter, leaked, deflator, disk>>,
         NEW e, Reused(writerCache, writerCache', e), NEW pn, pn = pins',
         \A w \in Wanted : /\ Older(writerCache, w[1], e) => writerCache.buf[e].used > 0
                           /\ \A a : Older(writerCache, w[1], a) => a \notin ToSet(pn) \/ a \in ToSet(pins)
  PROVE  PlaceInv'
<1>1. InHand' = InHand /\ Base' = Base /\ Units' = Units /\ At("search")'
  BY DEF InHand, Base, Units, At
<1>2. Wanted' = Wanted
  BY <1>1 DEF Wanted
<1>3. Places'
  BY <1>1 DEF PlaceInv, Places, At
<1>4. Apart' /\ Holds'
  BY <1>1, <1>2, ApartStays, HoldsStays DEF PlaceInv
<1>5. PICK c : c = writerCache'
  OBVIOUS
<1>6. Labels'
  <2>1. \A a \in WriterBuffers : c.buf[a].index = writerCache.buf[a].index
    BY <1>5, SameIndex
  <2> QED BY <1>5, <2>1, LabelsStay DEF PlaceInv
<1>7. ASSUME NEW w \in Wanted PROVE Good(c, toWriter, blocks, pn, deflator, disk, w)
  <2>1. Good(c, toWriter, blocks, pins, deflator, disk, w)
    BY <1>5, AllGoodReused
  <2>2. \A a : Older(c, w[1], a) <=> Older(writerCache, w[1], a)
    BY <1>5, ReusedNewest
  <2>3. ASSUME NEW a \in WriterBuffers, Older(c, w[1], a) PROVE a \notin ToSet(pn) \cup ToSet(blocks)
    BY <2>1, <2>2, <2>3 DEF Good
  <2> QED BY <2>1, <2>3 DEF Good
<1>8. AllGood'
  BY <1>2, <1>5, <1>7 DEF AllGood
<1> QED BY <1>3, <1>4, <1>6, <1>8 DEF PlaceInv

LEMMA PutBlockPlaces == IInv /\ PlaceInv /\ PutBlock => PlaceInv'
<1> SUFFICES ASSUME IInv, PlaceInv, PutBlock PROVE PlaceInv'
  OBVIOUS
<1>1. /\ At("search") /\ pins # <<>> /\ pins' = Tail(pins)
      /\ UNCHANGED <<todo, file, blocks, committed, fragTable, bytes, locked, toWriter, leaked, deflator, disk>>
  BY DEF PutBlock, fileVars, placeVars, writeVars
<1>2. PICK e \in WriterBuffers : writerCache.buf[e].used > 0 /\ Reused(writerCache, writerCache', e)
  BY WriterStep
<1>3. PICK pn : pn = pins'
  OBVIOUS
<1>4. \A a : a \in ToSet(pn) => a \in ToSet(pins)
  <2>1. \A k \in 1 .. Len(pn) : k + 1 \in 1 .. Len(pins) /\ pn[k] = pins[k + 1]
    BY <1>1, <1>3, TailFacts DEF IInv, HandTypes
  <2> QED BY <2>1 DEF ToSet
<1> QED BY <1>1, <1>2, <1>3, <1>4, PinsPlaces

LEMMA LookupBlockPlaces == IInv /\ PlaceInv /\ LookupBlock => PlaceInv'
<1> SUFFICES ASSUME IInv, PlaceInv, LookupBlock PROVE PlaceInv'
  OBVIOUS
<1>1. /\ At("search")
      /\ UNCHANGED <<todo, file, blocks, committed, fragTable, bytes, locked, toWriter, leaked, deflator, disk>>
  BY DEF LookupBlock, fileVars, placeVars, writeVars
<1>2. PICK i, e : /\ Newest(writerCache, i, e) /\ Reused(writerCache, writerCache', e)
                  /\ i = writerCache.buf[e].index /\ pins' = Append(pins, e) /\ e \in WriterBuffers
  BY WriterStep
<1>3. PICK pn : pn = pins'
  OBVIOUS
<1>4. \A a : a \in ToSet(pn) => a \in ToSet(pins) \/ a = e
  <2>1. pins \in Seq(WriterBuffers) /\ Len(pins) \in Nat
    BY DEF IInv, HandTypes
  <2>2. Len(pn) = Len(pins) + 1 /\ pn[Len(pins) + 1] = e /\ \A k \in 1 .. Len(pins) : pn[k] = pins[k]
    BY <1>2, <1>3, <2>1
  <2>3. \A k \in 1 .. Len(pn) : k \in 1 .. Len(pins) \/ k = Len(pins) + 1
    BY <2>1, <2>2
  <2> QED BY <2>2, <2>3 DEF ToSet
<1>5. \A key : ~Older(writerCache, key, e)
  BY <1>2 DEF Newest, Older
<1>6. \A w \in Wanted : /\ Older(writerCache, w[1], e) => writerCache.buf[e].used > 0
                        /\ \A a : Older(writerCache, w[1], a) => a \notin ToSet(pn) \/ a \in ToSet(pins)
  BY <1>4, <1>5
<1> QED BY <1>1, <1>2, <1>3, <1>6, PinsPlaces

\* The use of a compressed fragment that nobody puts back.
LEMMA GetFragmentPlaces == ASSUME IInv, FragInv, PlaceInv, NEW f \in Nat, GetFragment(f) PROVE PlaceInv'
<1>1. /\ At("search") /\ pins = <<>>
      /\ UNCHANGED <<file, blocks, committed, fragTable, bytes, locked, pins, toWriter, deflator, disk>>
  BY DEF GetFragment, Looking, fileVars, placeVars, writeVars
<1>2. todo' \in Stages /\ InHand' = InHand /\ ~At("putback")
  BY Turns DEF PlaceInv
<1>3. Places' /\ Wanted' \subseteq Wanted
  BY <1>1, <1>2, TurnPlaces DEF PlaceInv, Places
<1>4. CASE writerCache' = writerCache /\ leaked' = leaked
  <2>1. Holds'
    BY <1>1, <1>2, <1>4, HoldsStays DEF PlaceInv
  <2> QED BY <1>1, <1>3, <1>4, <2>1, QuietKeeps
<1>5. ASSUME NEW e \in WriterBuffers, Newest(writerCache, FragIndex(f), e), Reused(writerCache, writerCache', e),
             leaked' = [leaked EXCEPT ![e] = @ + 1]
      PROVE  PlaceInv'
  <2>1. Holds' /\ Apart'
    BY <1>1, <1>2, <1>3, <1>5, HoldsStays, ApartStays DEF PlaceInv
  <2>2. PICK c, l : c = writerCache' /\ l = leaked'
    OBVIOUS
  <2>3. \A a \in WriterBuffers : c.buf[a].index = writerCache.buf[a].index
    BY <1>5, <2>2, SameIndex
  <2>4. Labels'
    <3>1. \A m \in 1 .. Len(toWriter) : toWriter[m] # Flush => Labelled(c, toWriter[m], fragTable)
      BY <2>3, LabelledStays DEF PlaceInv, Labels
    <3>2. ASSUME NEW b \in WriterBuffers, l[b] > 0 PROVE c.buf[b].index \in FragKeys
      <4>1. CASE b = e
        <5>1. writerCache.buf[e].index = FragIndex(f)
          BY <1>5 DEF Newest
        <5> QED BY <2>3, <4>1, <5>1, IndexIs
      <4>2. CASE b # e
        <5>1. l[b] = leaked[b]
          BY <1>5, <2>2, <4>2 DEF IInv, HandTypes
        <5> QED BY <2>3, <3>2, <5>1 DEF PlaceInv, Labels
      <4> QED BY <4>1, <4>2
    <3> QED BY <1>1, <2>2, <3>1, <3>2 DEF Labels
  <2>5. ASSUME NEW w \in Wanted PROVE Good(c, toWriter, blocks, pins, deflator, disk, w)
    <3>1. ~Older(writerCache, w[1], e)
      BY <1>5 DEF Newest, Older
    <3> QED BY <1>5, <2>2, <3>1, AllGoodReused
  <2>6. AllGood'
    BY <1>1, <1>3, <2>2, <2>5 DEF AllGood
  <2> QED BY <1>3, <2>1, <2>4, <2>6 DEF PlaceInv
<1>6. \/ writerCache' = writerCache /\ leaked' = leaked
      \/ \E e \in WriterBuffers : /\ Newest(writerCache, FragIndex(f), e) /\ Reused(writerCache, writerCache', e)
                                  /\ leaked' = [leaked EXCEPT ![e] = @ + 1]
  BY WriterStep
<1> QED BY <1>4, <1>5, <1>6

\* Nothing that is wanted is cut off.
LEMMA TruncatePlaces == IInv /\ PlaceInv /\ Truncate => PlaceInv'
<1> SUFFICES ASSUME IInv, PlaceInv, Truncate PROVE PlaceInv'
  OBVIOUS
<1>1. PICK dk : dk = disk'
  OBVIOUS
<1>2. /\ dk = [p \in {q \in DOMAIN disk : q < bytes} |-> disk[p]] /\ At("truncate")
      /\ UNCHANGED <<file, blocks, committed, fragTable, bytes, locked, pins, toWriter, deflator, writerCache, leaked>>
  BY <1>1 DEF Truncate, fileVars, placeVars, searchVars
<1>3. todo' \in Stages /\ InHand' = InHand /\ ~At("putback") /\ ~InHand
  BY <1>2, Turns DEF PlaceInv, InHand, At
<1>4. pins = <<>>
  BY <1>2 DEF PlaceInv, Places, At
<1>5. Places' /\ Wanted' \subseteq Wanted
  BY <1>2, <1>3, <1>4, TurnPlaces DEF PlaceInv
<1>6. Holds' /\ Apart' /\ Labels'
  BY <1>2, <1>3, <1>5, ApartStays DEF PlaceInv, Holds, Labels
<1>7. ASSUME NEW w \in Wanted PROVE Good(writerCache, toWriter, blocks, pins, deflator, dk, w)
  <2>1. Good(writerCache, toWriter, blocks, pins, deflator, disk, w) /\ w[2] < bytes
    BY Wants DEF PlaceInv, AllGood
  <2>2. Written(writerCache, toWriter, disk, w) => Written(writerCache, toWriter, dk, w)
    BY <1>2, <2>1 DEF Written
  <2> QED BY <2>1, <2>2 DEF Good
<1>8. AllGood'
  BY <1>1, <1>2, <1>5, <1>7 DEF AllGood
<1> QED BY <1>5, <1>6, <1>8 DEF PlaceInv

-----------------------------------------------------------------------------
(* The main thread's steps from file to file.                              *)

\* No block is held.
LEMMA GoodNone ==
  ASSUME NEW c, WriterIs(c), NEW w, Want(w), NEW bl, \A k \in 1 .. Len(bl) : bl[k] = None,
         NEW q, NEW pn, NEW de, NEW dk, Good(c, q, bl, pn, de, dk, w)
  PROVE  Good(c, q, <<>>, pn, de, dk, w)
<1>1. \A a : Newest(c, w[1], a) => a # None
  BY WantedNewest, NoneIsNone
<1>2. ~Kept(c, bl, w)
  BY <1>1 DEF Kept
<1>3. PICK s : s = <<>>
  OBVIOUS
<1>4. \A a : a \notin ToSet(s)
  BY <1>3 DEF ToSet
<1>5. \A a \in WriterBuffers : Older(c, w[1], a) => a \notin ToSet(pn) \cup ToSet(s)
  BY <1>4 DEF Good
<1>6. Good(c, q, s, pn, de, dk, w)
  BY <1>2, <1>5 DEF Good
<1> QED BY <1>3, <1>6

LEMMA NoHeld == ASSUME IInv, todo = <<>> PROVE \A k \in 1 .. Len(blocks) : blocks[k] = None
<1>1. CASE blocks = <<>>
  BY <1>1
<1>2. CASE blocks # <<>>
  <2>1. ~file.dup
    BY <1>2 DEF IInv, HeldBlocks, At
  <2>2. Len(blocks) <= file.thresh /\ file.thresh \in Nat /\ Len(blocks) \in Nat
    BY <2>1 DEF IInv, HeldBlocks, MainTypes, Files, HandTypes
  <2>3. ~At("putback")
    BY DEF At
  <2> QED BY <2>2, <2>3 DEF IInv, HeldBlocks
<1> QED BY <1>1, <1>2

LEMMA NextFilePlaces == IInv /\ PlaceInv /\ NextFile => PlaceInv'
<1> SUFFICES ASSUME IInv, PlaceInv, NextFile PROVE PlaceInv'
  OBVIOUS
<1>1. /\ todo = <<>> /\ blocks' = <<>>
      /\ UNCHANGED <<committed, fragTable, bytes, pins, toWriter, deflator, writerCache, leaked, disk>>
  BY DEF NextFile, placeVars, writeVars, searchVars
<1>2. pins = <<>> /\ ~InHand /\ Base = bytes
  BY <1>1 DEF PlaceInv, Places, InHand, At, Base
<1>3. Units' = {}
  <2>1. Units' = {<<file'.start + k, BlockUnit(file', k)>> : k \in 0 .. 0 - 1}
    BY <1>1 DEF Units
  <2>2. 0 .. 0 - 1 = {}
    OBVIOUS
  <2> QED BY <2>1, <2>2
<1>4. Wanted' \subseteq Wanted
  BY <1>1, <1>3 DEF Wanted
<1>5. /\ todo' \in {<<"search">>, <<"fill">>, <<"blocks">>}
      /\ (file'.size = 0 => file'.thresh = 0) /\ (file'.size > 0 => locked' /\ file'.start = bytes)
      /\ bytes \in Nat
  <2>1. PICK kind \in Kinds : SmallFile(kind) \/ BlocksFile(kind)
    BY DEF NextFile
  <2>2. kind.size \in Nat
    BY DuplicateSearchAssumption
  <2>3. bytes \in Nat
    BY UnitsAre DEF PlaceInv
  <2>4. CASE SmallFile(kind)
    BY <2>2, <2>3, <2>4 DEF SmallFile, NoFile
  <2>5. CASE BlocksFile(kind)
    <3>1. /\ file'.size = kind.size /\ file'.start = bytes /\ kind.size > 0 /\ locked' /\ todo' = <<"blocks">>
      BY <2>5 DEF BlocksFile
    <3> QED BY <2>2, <2>3, <3>1
  <2> QED BY <2>1, <2>4, <2>5
<1>6. Base' = bytes /\ (InHand' => file'.start = bytes /\ locked')
  BY <1>1, <1>5 DEF Base, InHand
<1>7. Places'
  <2>1. todo' \in Stages
    BY <1>5 DEF Stages
  <2>2. Len(<<>>) = 0
    OBVIOUS
  <2>3. InHand' => locked' /\ bytes' = file'.start + Len(blocks')
    BY <1>1, <1>5, <1>6, <2>2
  <2>4. committed \subseteq (0 .. Base' - 1) \X ({"block"} \X Nat \X Nat) /\ \A f \in DOMAIN fragTable : fragTable[f] < Base'
    BY <1>2, <1>6 DEF PlaceInv, Places
  <2> QED BY <1>1, <1>2, <1>3, <1>5, <2>1, <2>3, <2>4 DEF Places
<1>8. Apart' /\ Labels'
  BY <1>1, <1>4, ApartStays DEF PlaceInv, Labels
<1>9. Holds'
  BY <1>1 DEF Holds
<1>10. ASSUME NEW w \in Wanted PROVE Good(writerCache, toWriter, <<>>, pins, deflator, disk, w)
  <2>1. Good(writerCache, toWriter, blocks, pins, deflator, disk, w) /\ Want(w)
    BY Wants DEF PlaceInv, AllGood
  <2>2. WriterIs(writerCache) /\ \A k \in 1 .. Len(blocks) : blocks[k] = None
    BY <1>1, NoHeld DEF IInv, CacheTypes, WriterIs
  <2> QED BY <2>1, <2>2, GoodNone
<1>11. AllGood'
  BY <1>1, <1>4, <1>10 DEF AllGood
<1> QED BY <1>7, <1>8, <1>9, <1>11 DEF PlaceInv

-----------------------------------------------------------------------------
(* The end of the comparison.                                              *)

LEMMA PutHeldPlaces == IInv /\ PlaceInv /\ PutHeld => PlaceInv'
<1> SUFFICES ASSUME IInv, PlaceInv, PutHeld PROVE PlaceInv'
  OBVIOUS
<1>1. PICK j \in 1 .. Len(blocks) : blocks[j] # None /\ blocks' = [blocks EXCEPT ![j] = None]
  BY DEF PutHeld
<1>2. /\ At("putback")
      /\ UNCHANGED <<todo, file, committed, fragTable, bytes, locked, pins, toWriter, leaked, deflator, disk>>
  BY DEF PutHeld, fileVars, placeVars, writeVars, searchVars
<1>3. PICK bl, c : bl = blocks' /\ c = writerCache'
  OBVIOUS
<1>4. /\ blocks \in Seq(WriterBuffers \cup {None}) /\ Len(blocks) \in Nat /\ Len(bl) = Len(blocks) /\ bl[j] = None
      /\ \A k \in 1 .. Len(blocks) : k # j => bl[k] = blocks[k]
  <2>1. blocks \in Seq(WriterBuffers \cup {None})
    BY DEF IInv, HandTypes
  <2> QED BY <1>1, <1>3, <2>1
<1>5. PICK e \in WriterBuffers : writerCache.buf[e].used > 0 /\ Reused(writerCache, writerCache', e)
  BY WriterStep
<1>6. /\ InHand' = InHand /\ Base' = Base /\ At("putback")'
      /\ Units = {} /\ Units' = {}
  <2>1. 0 .. 0 - 1 = {}
    OBVIOUS
  <2> QED BY <1>2, <2>1 DEF InHand, Base, Units, At
<1>7. Wanted' = Wanted
  BY <1>2, <1>6 DEF Wanted
<1>8. Places'
  BY <1>2, <1>3, <1>4, <1>6 DEF PlaceInv, Places, At
<1>9. Apart'
  BY <1>7, ApartStays DEF PlaceInv
<1>10. \A key, a : Newest(c, key, a) <=> Newest(writerCache, key, a)
  BY <1>3, <1>5, ReusedNewest, Zenon
<1>11. Holds'
  <2>1. SUFFICES ASSUME InHand, NEW k \in 1 .. Len(bl), bl[k] # None PROVE Newest(c, AtPosition(file.start + k - 1), bl[k])
    BY <1>2, <1>3, <1>6 DEF Holds
  <2>2. bl[k] = blocks[k] /\ k \in 1 .. Len(blocks)
    BY <1>4, <2>1
  <2> QED BY <1>10, <2>1, <2>2 DEF PlaceInv, Holds
<1>12. Labels'
  <2>1. \A a \in WriterBuffers : c.buf[a].index = writerCache.buf[a].index
    BY <1>3, <1>5, SameIndex
  <2> QED BY <1>2, <1>3, <2>1, LabelsStay DEF PlaceInv
<1>13. ASSUME NEW w \in Wanted PROVE Good(c, toWriter, bl, pins, deflator, disk, w)
  <2>1. Good(c, toWriter, blocks, pins, deflator, disk, w)
    BY <1>3, <1>5, AllGoodReused
  <2>2. WriterIs(writerCache) /\ Want(w)
    BY Wants DEF PlaceInv, IInv, CacheTypes, WriterIs
  <2>3. \A a \in ToSet(bl) : a \in ToSet(blocks) \/ a = None
    BY <1>4 DEF ToSet
  <2>4. \A a \in WriterBuffers : Older(c, w[1], a) => a \notin ToSet(pins) \cup ToSet(bl)
    BY <2>1, <2>3, NoneIsNone DEF Good
  <2>5. ASSUME NEW k \in 1 .. Len(blocks), Newest(c, w[1], blocks[k]) PROVE k # j
    <3>1. SUFFICES ASSUME k = j PROVE FALSE
      OBVIOUS
    <3>2. InHand
      BY <1>2, <1>4, UnitsAre DEF PlaceInv, InHand, IInv, HeldBlocks
    <3>3. Newest(writerCache, AtPosition(file.start + j - 1), blocks[j]) /\ Newest(writerCache, w[1], blocks[j])
      BY <1>1, <1>10, <2>5, <3>1, <3>2 DEF PlaceInv, Holds
    <3>4. w[1] = AtPosition(file.start + j - 1)
      BY <3>3 DEF Newest
    <3>5. PICK u \in committed \cup Units : w = WantedBlock(u) /\ w[1] = AtPosition(w[2])
      BY <3>4, WantedIs, IndexIs DEF PlaceInv
    <3>6. w[2] = file.start + j - 1 /\ w[2] = u[1]
      BY <3>4, <3>5, IndexIs DEF WantedBlock
    <3>7. u[1] \in Nat /\ u[1] < file.start /\ file.start \in Nat
      BY <1>6, <3>2, UnitsAre DEF PlaceInv, Base
    <3> QED BY <1>4, <3>6, <3>7
  <2>6. Kept(c, blocks, w) => Kept(c, bl, w)
    BY <1>4, <2>5 DEF Kept
  <2> QED BY <2>1, <2>4, <2>6 DEF Good
<1>14. AllGood'
  BY <1>2, <1>3, <1>7, <1>13 DEF AllGood
<1> QED BY <1>8, <1>9, <1>11, <1>12, <1>14 DEF PlaceInv

LEMMA RollBackPlaces == IInv /\ PlaceInv /\ RollBack => PlaceInv'
<1> SUFFICES ASSUME IInv, PlaceInv, RollBack PROVE PlaceInv'
  OBVIOUS
<1>1. PICK q : q = toWriter'
  OBVIOUS
<1>2. /\ At("putback") /\ (\A k \in 1 .. Len(blocks) : blocks[k] = None) /\ blocks' = <<>>
      /\ bytes' = IF file.size > 0 THEN file.start ELSE bytes
      /\ q = Append(toWriter, Flush) \/ q = toWriter
      /\ UNCHANGED <<file, committed, fragTable, locked, pins, writerCache, leaked, deflator, disk>>
  BY <1>1 DEF RollBack, writeVars, searchVars
<1>3. todo' \in {<<>>, <<"unlock">>, <<"truncate", "unlock">>}
  BY UnitsAre, NextStage DEF PlaceInv, Places
<1>4. pins = <<>> /\ ~InHand' /\ Base' = Base
  BY <1>2, <1>3 DEF PlaceInv, Places, InHand, At, Base
<1>5. Units' = {}
  <2>1. ~At("putback")'
    BY <1>3 DEF At
  <2>2. Units' = {<<file.start + k, BlockUnit(file, k)>> : k \in 0 .. 0 - 1}
    BY <1>2, <2>1 DEF Units
  <2>3. 0 .. 0 - 1 = {}
    OBVIOUS
  <2> QED BY <2>2, <2>3
<1>6. Wanted' \subseteq Wanted
  BY <1>2, <1>5 DEF Wanted
<1>7. Places'
  <2>1. todo' \in Stages
    BY <1>3 DEF Stages
  <2> QED BY <1>2, <1>4, <1>5, <2>1 DEF PlaceInv, Places
<1>8. Apart' /\ Holds'
  BY <1>4, <1>6, ApartStays DEF PlaceInv, Holds
<1>9. Flush \in Messages /\ toWriter \in Seq(Messages)
  BY DEF Messages, IInv, HandTypes
<1>10. Labels'
  <2>1. \A m \in 1 .. Len(q) : q[m] # Flush => Labelled(writerCache, q[m], fragTable)
    <3>1. \A m \in 1 .. Len(toWriter) : toWriter[m] # Flush => Labelled(writerCache, toWriter[m], fragTable)
      BY DEF PlaceInv, Labels
    <3>2. CASE q = Append(toWriter, Flush)
      BY <1>9, <3>1, <3>2, LabelsAppend
    <3> QED BY <1>2, <3>1, <3>2
  <2> QED BY <1>1, <1>2, <2>1 DEF PlaceInv, Labels
<1>11. ASSUME NEW w \in Wanted PROVE Good(writerCache, q, <<>>, pins, deflator, disk, w)
  <2>1. Good(writerCache, toWriter, blocks, pins, deflator, disk, w) /\ Want(w)
    BY Wants DEF PlaceInv, AllGood
  <2>2. WriterIs(writerCache)
    BY DEF IInv, CacheTypes, WriterIs
  <2>3. Good(writerCache, toWriter, <<>>, pins, deflator, disk, w)
    BY <1>2, <2>1, <2>2, GoodNone
  <2>4. Flush \notin For(w[2])
    <3>1. \A b : Flush \notin {b} \X Nat
      BY FlushIs
    <3> QED BY <2>1, <3>1 DEF For, Want
  <2>5. CASE q = Append(toWriter, Flush)
    BY <1>9, <2>3, <2>4, <2>5, GoodAppend
  <2> QED BY <1>2, <2>3, <2>5
<1>12. AllGood'
  BY <1>1, <1>2, <1>6, <1>11 DEF AllGood
<1> QED BY <1>7, <1>8, <1>10, <1>12 DEF PlaceInv

-----------------------------------------------------------------------------
(* The blocks held are sent.                                               *)

LEMMA UnitsIn ==
  ASSUME IInv, Places
  PROVE  committed \cup Units \subseteq (0 .. bytes - 1) \X ({"block"} \X Nat \X Nat)
<1> SUFFICES ASSUME NEW u \in committed \cup Units PROVE u \in (0 .. bytes - 1) \X ({"block"} \X Nat \X Nat)
  OBVIOUS
<1>1. u[1] \in Nat /\ u[1] < bytes /\ bytes \in Nat
  BY UnitsAre
<1>2. CASE u \in committed
  <2>1. u \in Nat \X ({"block"} \X Nat \X Nat)
    BY <1>2, UnitsAre
  <2> QED BY <1>1, <2>1
<1>3. CASE u \in Units
  <2>1. PICK k \in 0 .. Len(blocks) - 1 : u = <<file.start + k, BlockUnit(file, k)>>
    BY <1>3, UnitsAre
  <2>2. k \in Nat /\ file.number \in Nat
    BY DEF IInv, MainTypes, Files
  <2> QED BY <1>1, <2>1, <2>2 DEF BlockUnit
<1> QED BY <1>2, <1>3

\* n messages after the s there are, in the order of the blocks' positions.
Sending(n, s, h, p, q) ==
  /\ Len(q) = s + n /\ \A m \in 1 .. s : q[m] = toWriter[m]
  /\ \A k \in 1 .. n : /\ h + k \in 1 .. Len(blocks) /\ blocks[h + k] \in WriterBuffers
                       /\ q[s + k] = <<blocks[h + k], p + h + k - 1>>
  /\ \A j \in 1 .. Len(blocks) : blocks[j] # None => j - h \in 1 .. n

LEMMA Sends ==
  ASSUME IInv, Unique, NEW s, s = Len(toWriter), NEW h, h = file.thresh, NEW p, p = file.start, NEW q, q = toWriter'
  PROVE  \E n \in Nat : Sending(n, s, h, p, q)
<1>1. /\ blocks \in Seq(WriterBuffers \cup {None}) /\ h \in Nat /\ p \in Nat /\ toWriter \in Seq(Messages) /\ At("search")
      /\ \A k \in 1 .. Len(blocks) : blocks[k] = None <=> k <= h
  BY DEF IInv, HandTypes, MainTypes, Files, HeldBlocks, At, Unique, Looking
<1>2. PICK m \in Nat : m = Len(blocks)
  BY <1>1
<1>3. PICK r, n : r = SubSeq(blocks, h + 1, m) /\ n = Len(r)
  OBVIOUS
<1>4. r \in Seq(WriterBuffers \cup {None}) /\ n = (IF h + 1 <= m THEN m - h ELSE 0) /\ n \in Nat
  <2>1. r \in Seq(WriterBuffers \cup {None}) /\ Len(r) = IF h + 1 <= m THEN m - h ELSE 0
    BY <1>1, <1>2, <1>3
  <2> QED BY <1>1, <1>3, <2>1
<1>5. \A k \in 1 .. n : h + k \in 1 .. m /\ r[k] = blocks[h + k]
  <2>1. \A k \in 1 .. n : k \in 1 .. m - h
    BY <1>1, <1>4
  <2>2. \A k \in 1 .. m - h : r[k] = blocks[h + k]
    BY <1>1, <1>2, <1>3
  <2>3. \A k \in 1 .. m - h : h + k \in 1 .. m
    BY <1>1
  <2> QED BY <2>1, <2>2, <2>3, Zenon
<1>6. \A k \in 1 .. n : blocks[h + k] \in WriterBuffers
  <2> TAKE k \in 1 .. n
  <2>1. PICK j \in 1 .. m : j = h + k
    BY <1>5
  <2>2. ~(j <= h) /\ (blocks[j] = None <=> j <= h) /\ blocks[j] \in WriterBuffers \cup {None}
    BY <1>1, <1>2, <2>1
  <2> QED BY <2>1, <2>2
<1>7. PICK sent : sent = [k \in 1 .. n |-> <<r[k], p + h + k - 1>>]
  OBVIOUS
<1>8. q = toWriter \o sent
  BY <1>2, <1>3, <1>7 DEF Unique, Held
<1>9. sent \in Seq(Messages) /\ Len(sent) = n
  <2>1. \A k \in 1 .. n : <<r[k], p + h + k - 1>> \in Messages
    <3> TAKE k \in 1 .. n
    <3>1. r[k] \in WriterBuffers
      BY <1>5, <1>6
    <3>2. p + h + k - 1 \in Nat
      <4>1. p \in Nat /\ h \in Nat /\ n \in Nat
        BY <1>1, <1>4
      <4> QED BY <4>1
    <3> QED BY <3>1, <3>2, MessageIs
  <2> QED BY <1>4, <1>7, <2>1
<1>10. /\ Len(q) = s + n /\ (\A k \in 1 .. s : q[k] = toWriter[k]) /\ \A k \in 1 .. n : q[s + k] = sent[k]
  <2>1. PICK t : t = toWriter
    OBVIOUS
  <2>2. t \in Seq(Messages) /\ q = t \o sent /\ s = Len(t)
    BY <1>1, <1>8, <2>1
  <2>3. /\ Len(q) = Len(t) + Len(sent) /\ (\A k \in 1 .. Len(t) : q[k] = t[k])
        /\ \A k \in 1 .. Len(sent) : q[Len(t) + k] = sent[k]
    <3>1. t \in Seq(Messages) /\ sent \in Seq(Messages)
      BY <1>9, <2>2
    <3>2. /\ Len(t \o sent) = Len(t) + Len(sent) /\ (\A k \in 1 .. Len(t) : (t \o sent)[k] = t[k])
          /\ \A k \in 1 .. Len(sent) : (t \o sent)[Len(t) + k] = sent[k]
      BY <3>1, SMTT(20)
    <3> QED BY <2>2, <3>2, Zenon
  <2> QED BY <1>9, <2>1, <2>2, <2>3
<1>11. \A k \in 1 .. n : q[s + k] = <<blocks[h + k], p + h + k - 1>>
  BY <1>5, <1>7, <1>10
<1>12. \A j \in 1 .. m : blocks[j] # None => j - h \in 1 .. n
  BY <1>1, <1>2, <1>4
<1>13. Sending(n, s, h, p, q)
  <2>1. \A k \in 1 .. n : h + k \in 1 .. Len(blocks)
    BY <1>2, <1>5
  <2>2. \A j \in 1 .. Len(blocks) : blocks[j] # None => j - h \in 1 .. n
    BY <1>2, <1>12
  <2> QED BY <1>6, <1>10, <1>11, <2>1, <2>2, Zenon DEF Sending
<1>14. n \in Nat
  BY <1>4
<1> QED BY <1>13, <1>14

LEMMA UniquePlaces == IInv /\ PlaceInv /\ Unique => PlaceInv'
<1> SUFFICES ASSUME IInv, PlaceInv, Unique PROVE PlaceInv'
  OBVIOUS
<1>1. PICK s, h, p, q : s = Len(toWriter) /\ h = file.thresh /\ p = file.start /\ q = toWriter'
  OBVIOUS
<1>2. PICK n \in Nat : Sending(n, s, h, p, q)
  BY <1>1, Sends
<1>16. /\ Len(q) = s + n /\ \A m \in 1 .. s : q[m] = toWriter[m]
       /\ \A k \in 1 .. n : /\ h + k \in 1 .. Len(blocks) /\ blocks[h + k] \in WriterBuffers
                            /\ q[s + k] = <<blocks[h + k], p + h + k - 1>>
       /\ \A j \in 1 .. Len(blocks) : blocks[j] # None => j - h \in 1 .. n
  BY <1>2, Zenon DEF Sending
<1>3. /\ s \in Nat /\ h \in Nat /\ p \in Nat /\ n \in Nat /\ Len(q) = s + n
      /\ Len(blocks) \in Nat /\ Len(blocks) <= file.size /\ file.size \in Nat
  BY <1>1, <1>2, <1>16, UnitsAre DEF PlaceInv, IInv, HandTypes, HeldBlocks
<1>4. /\ At("search") /\ pins = <<>> /\ blocks' = <<>> /\ committed' = committed \cup Units
      /\ UNCHANGED <<file, fragTable, bytes, locked, pins, writerCache, leaked, deflator, disk>>
  BY DEF Unique, Looking, placeVars, writeVars, searchVars
<1>5. todo' \in {<<>>, <<"fill">>, <<"unlock">>, <<"fill", "unlock">>}
  BY UnitsAre, NextStage DEF PlaceInv, Places
<1>6. ~At("putback") /\ ~At("putback")' /\ ~InHand' /\ todo' \in Stages /\ Base' = bytes
  BY <1>4, <1>5 DEF InHand, At, Stages, Base
<1>7. Units' = {}
  <2>1. Units' = {<<file.start + k, BlockUnit(file, k)>> : k \in 0 .. 0 - 1}
    BY <1>4, <1>6 DEF Units
  <2>2. 0 .. 0 - 1 = {}
    OBVIOUS
  <2> QED BY <2>1, <2>2
<1>8. Wanted' = Wanted
  <2>1. committed' \cup Units' = committed \cup Units
    BY <1>4, <1>7
  <2> QED BY <1>4, <2>1 DEF Wanted
<1>9. Places'
  <2>1. committed' \subseteq (0 .. Base' - 1) \X ({"block"} \X Nat \X Nat)
    BY <1>4, <1>6, UnitsIn DEF PlaceInv
  <2>2. \A f \in DOMAIN fragTable : fragTable[f] < Base'
    <3>1. Base \in Nat /\ bytes \in Nat /\ Base <= bytes /\ \A f \in DOMAIN fragTable : fragTable[f] \in Nat /\ fragTable[f] < Base
      BY UnitsAre, FragTypes DEF PlaceInv, Places, Table
    <3> QED BY <1>6, <3>1
  <2>3. file.size = 0 => file.thresh = 0
    BY DEF PlaceInv, Places
  <2> QED BY <1>4, <1>6, <1>7, <2>1, <2>2, <2>3 DEF Places
<1>10. Apart' /\ Holds'
  BY <1>6, <1>8, ApartStays DEF PlaceInv, Holds
<1>11. ASSUME NEW k \in 1 .. n
       PROVE  /\ Newest(writerCache, AtPosition(p + h + k - 1), blocks[h + k])
              /\ writerCache.buf[blocks[h + k]].index = AtPosition(p + h + k - 1)
              /\ \E w \in Wanted : w[1] = AtPosition(p + h + k - 1) /\ w[2] = p + h + k - 1
  <2>1. PICK j \in 1 .. Len(blocks) : j = h + k /\ blocks[j] # None
    BY <1>16, NoneIsNone
  <2>2. InHand
    BY <1>3, <1>4 DEF InHand
  <2>3. Newest(writerCache, AtPosition(file.start + j - 1), blocks[j])
    BY <2>1, <2>2 DEF PlaceInv, Holds
  <2>4. file.start + j - 1 = p + h + k - 1
    BY <1>1, <1>3, <2>1
  <2>5. PICK u : u = <<file.start + (j - 1), BlockUnit(file, j - 1)>>
    OBVIOUS
  <2>6. u \in Units
    <3>1. j - 1 \in 0 .. Len(blocks) - 1
      BY <1>3
    <3> QED BY <1>6, <2>5, <3>1 DEF Units
  <2>7. WantedBlock(u) \in Wanted
    BY <2>6, WantedIs DEF PlaceInv
  <2>8. u[1] = p + h + k - 1
    BY <1>1, <1>3, <2>1, <2>5
  <2> QED BY <2>1, <2>3, <2>4, <2>7, <2>8 DEF Newest, WantedBlock
<1>12. \A m \in 1 .. Len(q) : m \in 1 .. s \/ \E k \in 1 .. n : m = s + k
  <2> TAKE m \in 1 .. Len(q)
  <2>1. CASE m \notin 1 .. s
    <3>1. m - s \in 1 .. n /\ m = s + (m - s)
      BY <1>16, <1>3, <2>1
    <3> QED BY <3>1
  <2> QED BY <2>1
<1>13. Labels'
  <2>1. ASSUME NEW m \in 1 .. Len(q), q[m] # Flush PROVE Labelled(writerCache, q[m], fragTable)
    <3>1. CASE m \in 1 .. s
      BY <1>1, <1>16, <2>1, <3>1 DEF PlaceInv, Labels
    <3>2. ASSUME NEW k \in 1 .. n, m = s + k PROVE Labelled(writerCache, q[m], fragTable)
      <4>1. q[m][1] = blocks[h + k] /\ q[m][2] = p + h + k - 1
        BY <1>16, <3>2
      <4> QED BY <1>11, <4>1 DEF Labelled
    <3> QED BY <1>12, <3>1, <3>2
  <2> QED BY <1>1, <1>4, <2>1 DEF PlaceInv, Labels
<1>14. ASSUME NEW w \in Wanted PROVE Good(writerCache, q, <<>>, pins, deflator, disk, w)
  <2>1. PICK bl : bl = <<>>
    OBVIOUS
  <2>2. Good(writerCache, toWriter, blocks, pins, deflator, disk, w) /\ Want(w)
    BY Wants DEF PlaceInv, AllGood
  <2>3. \A a : a \notin ToSet(bl)
    BY <2>1 DEF ToSet
  <2>4. CASE \E k \in 1 .. n : w[2] = p + h + k - 1
    <3>1. PICK k \in 1 .. n : w[2] = p + h + k - 1
      BY <2>4
    <3>2. PICK v \in Wanted : v[1] = AtPosition(p + h + k - 1) /\ v[2] = p + h + k - 1
      BY <1>11
    <3>3. w = v
      BY <3>1, <3>2 DEF PlaceInv, Apart
    <3>4. s + k \in 1 .. Len(q) /\ q[s + k] \in For(w[2]) /\ q[s + k][1] = blocks[h + k]
      <4>1. s + k \in 1 .. Len(q)
        BY <1>3
      <4>2. q[s + k] = <<blocks[h + k], w[2]>> /\ blocks[h + k] \in WriterBuffers
        BY <1>16, <3>1
      <4> QED BY <4>1, <4>2 DEF For
    <3>5. Newest(writerCache, w[1], q[s + k][1])
      BY <1>11, <3>2, <3>3, <3>4
    <3>6. ASSUME NEW m \in (s + k) + 1 .. Len(q) PROVE q[m] \notin For(w[2])
      <4>1. m - s \in 1 .. n /\ m - s > k /\ s + (m - s) = m
        BY <1>3
      <4>2. PICK i \in 1 .. n : i = m - s
        BY <4>1
      <4>3. q[m] = <<blocks[h + i], p + h + i - 1>>
        BY <1>16, <4>1, <4>2
      <4>4. p + h + i - 1 # w[2]
        <5>1. i \in Nat /\ k \in Nat /\ i > k
          BY <4>1, <4>2
        <5> QED BY <1>3, <3>1, <5>1
      <4> QED BY <4>3, <4>4 DEF For
    <3>7. Sent(writerCache, q, w)
      BY <3>4, <3>5, <3>6 DEF Sent
    <3> QED BY <2>1, <2>2, <2>3, <3>7 DEF Good
  <2>5. CASE ~ \E k \in 1 .. n : w[2] = p + h + k - 1
    <3>1. \A k \in 1 .. n : q[s + k] \notin For(w[2])
      BY <1>16, <2>5 DEF For
    <3>2. Sent(writerCache, toWriter, w) => Sent(writerCache, q, w)
      <4>1. SUFFICES ASSUME NEW m \in 1 .. s, toWriter[m] \in For(w[2]), Newest(writerCache, w[1], toWriter[m][1]),
                            \A i \in m + 1 .. s : toWriter[i] \notin For(w[2])
                     PROVE  Sent(writerCache, q, w)
        BY <1>1 DEF Sent
      <4>2. m \in 1 .. Len(q) /\ q[m] = toWriter[m]
        BY <1>16, <1>3
      <4>3. ASSUME NEW i \in m + 1 .. Len(q) PROVE q[i] \notin For(w[2])
        <5>1. i \in 1 .. Len(q)
          BY <1>3
        <5>2. CASE i \in 1 .. s
          <6>1. i \in m + 1 .. s
            BY <5>2
          <6> QED BY <1>16, <4>1, <5>2, <6>1
        <5> QED BY <1>12, <3>1, <5>1, <5>2
      <4> QED BY <4>1, <4>2, <4>3 DEF Sent
    <3>3. Written(writerCache, toWriter, disk, w) => Written(writerCache, q, disk, w)
      <4>1. (\A m \in 1 .. s : toWriter[m] \notin For(w[2])) => \A m \in 1 .. Len(q) : q[m] \notin For(w[2])
        BY <1>16, <1>12, <3>1
      <4> QED BY <1>1, <4>1 DEF Written
    <3>4. ~Kept(writerCache, blocks, w)
      <4>1. SUFFICES ASSUME NEW j \in 1 .. Len(blocks), Newest(writerCache, w[1], blocks[j]) PROVE FALSE
        BY DEF Kept
      <4>2. blocks[j] # None
        <5>1. WriterIs(writerCache)
          BY DEF IInv, CacheTypes, WriterIs
        <5> QED BY <2>2, <4>1, <5>1, WantedNewest, NoneIsNone
      <4>3. PICK k \in 1 .. n : k = j - h
        <5>1. j - h \in 1 .. n
          BY <1>16, <4>2
        <5> QED BY <5>1
      <4>4. h + k = j
        BY <1>3, <4>3
      <4>5. writerCache.buf[blocks[j]].index = AtPosition(p + h + k - 1)
        BY <1>11, <4>4
      <4>6. w[1] = AtPosition(p + h + k - 1)
        BY <4>1, <4>5 DEF Newest
      <4>7. w[1] = AtPosition(w[2])
        BY <4>6, WantedIs, IndexIs DEF PlaceInv
      <4>8. w[2] = p + h + k - 1
        BY <4>6, <4>7, IndexIs
      <4> QED BY <2>5, <4>8
    <3> QED BY <2>1, <2>2, <2>3, <3>2, <3>3, <3>4 DEF Good
  <2> QED BY <2>4, <2>5
<1>15. AllGood'
  BY <1>1, <1>4, <1>8, <1>14 DEF AllGood
<1> QED BY <1>9, <1>10, <1>13, <1>15 DEF PlaceInv

-----------------------------------------------------------------------------
(* The second invariant, and what lookups find.                            *)

LEMMA PlaceInit == Init => PlaceInv /\ Reads
<1> SUFFICES ASSUME Init PROVE PlaceInv /\ Reads
  OBVIOUS
<1>1. /\ todo = <<>> /\ file = NoFile /\ blocks = <<>> /\ committed = {} /\ fragTable = <<>> /\ bytes = 0
      /\ pins = <<>> /\ toWriter = <<>> /\ leaked = [b \in WriterBuffers |-> 0]
  BY DEF Init
<1>2. ~InHand /\ ~At("read") /\ ~At("putback") /\ Base = 0
  BY <1>1 DEF InHand, At, Base
<1>3. Units = {}
  <2>1. Units = {<<file.start + k, BlockUnit(file, k)>> : k \in 0 .. 0 - 1}
    BY <1>1, <1>2 DEF Units
  <2>2. 0 .. 0 - 1 = {}
    OBVIOUS
  <2> QED BY <2>1, <2>2
<1>4. DOMAIN fragTable = {}
  BY <1>1
<1>5. Wanted = {}
  BY <1>1, <1>3, <1>4 DEF Wanted
<1>6. Places
  <2>1. todo \in Stages
    BY <1>1 DEF Stages
  <2> QED BY <1>1, <1>2, <1>3, <1>4, <2>1 DEF Places, NoFile
<1>7. Labels
  <2>1. \A m \in 1 .. Len(toWriter) : FALSE
    BY <1>1
  <2>2. \A b \in WriterBuffers : ~(leaked[b] > 0)
    BY <1>1
  <2> QED BY <2>1, <2>2 DEF Labels
<1> QED BY <1>2, <1>5, <1>6, <1>7 DEF PlaceInv, Apart, Holds, AllGood, Reads

LEMMA PlaceKeeps ==
  ASSUME IInv, FragInv, PlaceInv, Reads, [Next]_vars
  PROVE  PlaceInv'
<1>1. CASE UNCHANGED vars
  BY <1>1, QuietPlaces
<1>2. CASE Main
  <2>1. CASE ReadFragment \/ FillFragment \/ LastFragment \/ Drain \/ UnlockDone \/ Duplicate \/ PutFragment \/ FillFull
    BY <2>1, QuietPlaces
  <2>2. CASE NextFile \/ EndBlocks
    BY <2>2, NextFilePlaces, EndBlocksPlaces
  <2>3. CASE WriteBlock
    BY <2>3, WriteBlockPlaces
  <2>4. CASE LookupBlock \/ PutBlock
    BY <2>4, LookupBlockPlaces, PutBlockPlaces
  <2>5. ASSUME NEW f \in 0 .. fragments - (IF open = None THEN 1 ELSE 0), GetFragment(f) PROVE PlaceInv'
    <3>1. f \in Nat
      BY <2>5
    <3> QED BY <2>5, <3>1, GetFragmentPlaces
  <2>6. CASE Unique \/ PutHeld \/ RollBack
    BY <2>6, UniquePlaces, PutHeldPlaces, RollBackPlaces
  <2>7. CASE Truncate \/ UnlockPending
    BY <2>7, TruncatePlaces, UnlockPendingPlaces
  <2> QED BY <1>2, <2>1, <2>2, <2>3, <2>4, <2>5, <2>6, <2>7, Zenon DEF Main
<1>3. ASSUME NEW d \in FragDeflators, FragDeflator(d) PROVE PlaceInv'
  <2>1. CASE FragTake(d) \/ FragPutBack(d)
    BY <2>1, DeflatorQuiet
  <2>2. CASE FragCompress(d) \/ FragPlace(d) \/ FragHandOver(d)
    BY <2>2, CompressPlaces, FragPlacePlaces, HandOverPlaces
  <2> QED BY <1>3, <2>1, <2>2, Zenon DEF FragDeflator
<1>4. CASE Writer
  BY <1>4, WritePlaces, WriterPutBackPlaces, Zenon DEF Writer
<1> QED BY <1>1, <1>2, <1>3, <1>4, Zenon DEF Next

LEMMA BlocksFound == IInv /\ PlaceInv => BlockFound
<1> SUFFICES ASSUME IInv, PlaceInv, NEW u \in committed \cup Units
             PROVE  IF Found(writerCache, AtPosition(u[1]))
                    THEN writerCache.buf[Find(writerCache, AtPosition(u[1]))].data = u[2]
                    ELSE u[1] \in DOMAIN disk /\ disk[u[1]] = u[2]
  BY DEF BlockFound
<1>1. PICK w, i : w = WantedBlock(u) /\ i = AtPosition(u[1])
  OBVIOUS
<1>2. w[1] = i /\ w[2] = u[1] /\ w[3] = u[2]
  BY <1>1 DEF WantedBlock
<1>3. Good(writerCache, toWriter, blocks, pins, deflator, disk, w)
  BY <1>1, WantedIs DEF PlaceInv, AllGood
<1>4. CASE Found(writerCache, i)
  <2>1. PICK e : e = Find(writerCache, i)
    OBVIOUS
  <2>2. e \in WriterBuffers /\ Newest(writerCache, i, e)
    BY <1>4, <2>1, Reuses
  <2>3. writerCache.buf[e].data = u[2]
    BY <1>2, <1>3, <2>2 DEF Good
  <2> QED BY <1>1, <1>4, <2>1, <2>3
<1>5. CASE ~Found(writerCache, i)
  <2>1. \A a : ~Newest(writerCache, w[1], a)
    <3>1. writerCache \in Caches(WriterBuffers, WriterIndexes) /\ CacheOK(writerCache) /\ i # None
      BY <1>1, UnitsAre, IndexIs DEF PlaceInv, IInv, CacheTypes
    <3>2. \A a : Newest(writerCache, i, a) => Found(writerCache, i)
      BY <3>1, NewestFacts
    <3> QED BY <1>2, <1>5, <3>2
  <2>2. Written(writerCache, toWriter, disk, w)
    BY <1>3, <2>1, Zenon DEF Good, Sent, Kept, Placed
  <2>3. u[1] \in DOMAIN disk /\ disk[u[1]] = u[2]
    BY <1>2, <2>2 DEF Written
  <2> QED BY <1>1, <1>5, <2>3
<1> QED BY <1>4, <1>5

LEMMA FragmentsFound == IInv /\ FragInv /\ PlaceInv => FragmentFound
<1> SUFFICES ASSUME IInv, FragInv, PlaceInv, NEW f \in 0 .. fragments - 1
             PROVE  \/ (IF Found(fragmentCache, f) THEN fragmentCache.buf[Find(fragmentCache, f)].data ELSE DataOf(f)) = FragUnit(f)
                    \/ f \in spoiled
                    \/ /\ f \notin DOMAIN fragTable /\ ~Found(fragmentCache, f)
                       /\ \E k \in DOMAIN pending : FragOf(pending[k]) = f
  BY DEF FragmentFound
<1>1. CASE Found(fragmentCache, f)
  <2>1. PICK e : e = Find(fragmentCache, f)
    OBVIOUS
  <2>2. e \in FragmentBuffers /\ fragmentCache.buf[e].index = f /\ f # None
    BY <1>1, <2>1, Reuses
  <2>3. fragmentCache.buf[e].data = FragUnit(f) \/ f \in spoiled
    BY <2>2 DEF FragInv, FragParts, FragBuffers
  <2> QED BY <1>1, <2>1, <2>3
<1>2. CASE ~Found(fragmentCache, f) /\ f \in DOMAIN fragTable
  BY <1>2, DataFound DEF PlaceInv
<1>3. CASE ~Found(fragmentCache, f) /\ f \notin DOMAIN fragTable
  <2>1. \A b \in FragmentBuffers : fragmentCache.buf[b].index # f
    <3>1. fragmentCache \in Caches(FragmentBuffers, Nat) /\ CacheOK(fragmentCache) /\ f # None
      <4>1. f \in Nat
        OBVIOUS
      <4> QED BY <4>1, NoneIsNone DEF IInv, CacheTypes
    <3>2. \A b \in FragmentBuffers : fragmentCache.buf[b].index = f => Found(fragmentCache, f)
      BY <3>1, NewestFacts
    <3> QED BY <1>3, <3>2
  <2>2. ~ \E k \in 1 .. Len(toFrag) : fragmentCache.buf[toFrag[k]].index = f
    BY <2>1, WhoUses
  <2>3. ~ \E d \in FragDeflators : deflator[d].step \in Unplaced /\ fragmentCache.buf[deflator[d].from].index = f
    <3>1. ASSUME NEW d \in FragDeflators, deflator[d].step \in Unplaced PROVE deflator[d].from \in FragmentBuffers
      BY <3>1, DeflatorIs DEF IInv, Unplaced
    <3> QED BY <2>1, <3>1
  <2>4. PICK k \in 1 .. Len(pending) : writerCache.buf[pending[k]].index = FragIndex(f)
    BY <1>3, <2>2, <2>3, OneWay
  <2>5. FragOf(pending[k]) = f
    BY <2>4 DEF FragOf, FragIndex
  <2>6. DOMAIN pending = 1 .. Len(pending)
    BY DEF IInv, HandTypes
  <2> QED BY <1>3, <2>5, <2>6
<1> QED BY <1>1, <1>2, <1>3

\* What the lookups need always holds: the main thread's plan agrees with the places
\* taken, each closed fragment is in one place, and every place that may be asked for
\* has its data in the newest buffer of its index, on the way to the destination, or there.
THEOREM PlacesInvariant == Spec => [](IInv /\ FragInv /\ PlaceInv /\ Reads)
<1>1. Init => IInv /\ FragInv /\ PlaceInv /\ Reads
  BY InitInv, FragInit, PlaceInit
<1>2. IInv /\ FragInv /\ PlaceInv /\ Reads /\ [Next]_vars => (IInv /\ FragInv /\ PlaceInv /\ Reads)'
  <2> SUFFICES ASSUME IInv, FragInv, PlaceInv, Reads, [Next]_vars PROVE IInv' /\ FragInv' /\ PlaceInv' /\ Reads'
    OBVIOUS
  <2>1. Places /\ AllGood
    BY DEF PlaceInv
  <2>2. IInv'
    BY NextKeeps
  <2>3. FragInv'
    BY <2>1, FragKeeps
  <2>4. Reads'
    BY <2>1, ReadsKept
  <2>5. PlaceInv'
    BY PlaceKeeps
  <2> QED BY <2>2, <2>3, <2>4, <2>5
<1> QED BY <1>1, <1>2, PTL DEF Spec

\* A block of the file in hand or of an earlier one is found where the comparison looks
\* for it, in a buffer or on the destination: never that of a file that was rolled back.
THEOREM AlwaysBlockFound == Spec => []BlockFound
<1>1. IInv /\ FragInv /\ PlaceInv /\ Reads => BlockFound
  BY BlocksFound
<1> QED BY <1>1, PlacesInvariant, PTL

\* A fragment that get_fragment asks for is found in one of its two buffers or on the
\* destination, unless it is put off, or was read when it was.
THEOREM AlwaysFragmentFound == Spec => []FragmentFound
<1>1. IInv /\ FragInv /\ PlaceInv /\ Reads => FragmentFound
  BY FragmentsFound
<1> QED BY <1>1, PlacesInvariant, PTL
===============================================================================
