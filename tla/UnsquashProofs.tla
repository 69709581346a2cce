----------------------------- MODULE UnsquashProofs -----------------------------
(***************************************************************************)
(* Proofs about Unsquash for any image, number of deflators and buffers,   *)
(* size of the writer's queue and choice of what fails: that the caches,   *)
(* threads and queues agree (Consistent), that when unsquashfs exits every *)
(* path is settled (ExitSettled), and that a file that was completed has   *)
(* the image's data (CompleteFiles).                                       *)
(***************************************************************************)
EXTENDS Unsquash, FiniteSetTheorems, SequenceTheorems, WellFoundedInduction, TLAPS

-----------------------------------------------------------------------------
(* The inductive invariant.                                                *)

\* What may be in the queues, the buffers and the threads' hands.
Sending == pc \in {"get", "read", "give"}
Hand == Buffers \cup {None}
Of(kind) == {b \in Buffers : KindOf(b) = kind}
Datas == STRING \cup {None, "nothing", "compressed"}
Slots == [block : Datas, used : Nat, pending : BOOLEAN, error : BOOLEAN, data : Datas]
Messages == [type : {"file"}, path : Nat] \cup [type : {"piece"}, piece : Pieces, buffer : Hand]
            \cup [type : {"end"}]
WriterStates == [step : {"idle", "file", "block"}, path : Nat, left : Nat, hole : Int, failed : BOOLEAN,
                 piece : Pieces \cup {None}, buffer : Hand]

ScanTypes ==
  /\ image \in Images
  /\ pc \in {"next", "get", "read", "give", "last", "exited", "aborted"}
  /\ at \in 1 .. Len(image) + 1
  /\ rest \in Seq(Pieces) /\ buffer \in Hand
  /\ created \in [{image[k].inode : k \in Paths} -> Paths \cup {0}]
  /\ names \in [Paths -> Paths \cup {0}]
CacheTypes ==
  /\ cache \in [Buffers -> Slots]
  /\ free \in [Kinds -> Seq(Buffers)] /\ \A k \in Kinds : free[k] \in Seq(Of(k))
  /\ waitFree \subseteq Kinds /\ waitPending \subseteq Kinds
  /\ toReader \in Seq(Buffers) /\ Len(toReader) <= Cardinality(Buffers)
  /\ toDeflate \in Seq(Buffers) /\ Len(toDeflate) <= Cardinality(Buffers)
  /\ reader \in Hand /\ deflator \in [Deflators -> Hand]
WriterTypes ==
  /\ toWriter \in Seq(Messages) /\ Len(toWriter) <= WriterQueue
  /\ fromWriter \in BOOLEAN
  /\ writer \in WriterStates /\ writer.hole \in -HalfInt .. HalfInt - 1
  /\ writer.step # "block" => writer.buffer = None
  /\ writer.step # "idle" => writer.path \in Paths
  /\ writer.step = "block" =>
       LET pieces == image[writer.path].pieces
       IN  /\ writer.buffer \in Buffers /\ writer.left \in 1 .. Len(pieces)
           /\ writer.piece = pieces[Len(pieces) - writer.left + 1]

\* What the main thread has still to send of the entry it is at.
Scan ==
  /\ Sending => /\ at \in Paths /\ Len(rest) \in 1 .. Len(Entry.pieces)
                /\ \A j \in 1 .. Len(rest) : rest[j] = Entry.pieces[Len(Entry.pieces) - Len(rest) + j]
  /\ pc \in {"read", "give"} => buffer \in Buffers
  /\ pc \in {"next", "get", "last", "exited"} => buffer = None
  /\ pc \in {"last", "exited"} => at = Len(image) + 1

\* In the writer's queue each file is followed by its pieces, up to what the main
\* thread has still to send: left is how many more the file of path gets.
Stages(img) == {a \in [path : Nat, left : Nat] :
                  a.left > 0 => a.path \in DOMAIN img /\ a.left <= Len(img[a.path].pieces)}
Follows(img, a, m, b) ==
  \/ /\ a.left > 0 /\ m.type = "piece"
     /\ m.piece = img[a.path].pieces[Len(img[a.path].pieces) - a.left + 1]
     /\ b = [path |-> a.path, left |-> a.left - 1]
  \/ /\ a.left = 0 /\ m.type = "file" /\ m.path \in DOMAIN img
     /\ b = [path |-> m.path, left |-> Len(img[m.path].pieces)]
  \/ a.left = 0 /\ m.type = "end" /\ b.left = 0
Owed == IF writer.step = "idle" THEN 0 ELSE IF writer.step = "block" THEN writer.left - 1 ELSE writer.left
Whole(s) ==
  /\ s \in [0 .. Len(toWriter) -> Stages(image)]
  /\ s[0] = [path |-> writer.path, left |-> Owed]
  /\ \A n \in 1 .. Len(toWriter) : Follows(image, s[n - 1], toWriter[n], s[n])
  /\ IF Sending THEN s[Len(toWriter)] = [path |-> at, left |-> Len(rest)] ELSE s[Len(toWriter)].left = 0
InOrder == pc # "aborted" => \E s : Whole(s)

\* The end is sent last, and when the writer has answered nothing is left.
Ending ==
  /\ pc = "next" \/ Sending => ~fromWriter /\ \A n \in 1 .. Len(toWriter) : toWriter[n].type # "end"
  /\ \A n \in 1 .. Len(toWriter) : toWriter[n].type = "end" => n = Len(toWriter)
  /\ fromWriter \/ pc = "exited" => toWriter = <<>> /\ writer.step = "idle"

\* How many of a sequence are in a set, and whether one thing is.
CountIn(s, S) == Cardinality({k \in 1 .. Len(s) : s[k] \in S})
Is(e, S) == IF e \in S THEN 1 ELSE 0

\* A buffer is used once for each piece with it, and free when it holds a block
\* that nobody uses.
With(b) == {m \in Messages : m.type = "piece" /\ m.buffer = b}
Using(b) == CountIn(toWriter, With(b)) + Is(buffer, {b}) + Is(writer.buffer, {b})
Free(b) == CountIn(free[KindOf(b)], {b})
CountOf(b) ==
  /\ cache[b].used = Using(b)
  /\ Free(b) = IF cache[b].used = 0 /\ cache[b].block # None THEN 1 ELSE 0
  /\ cache[b].used > 0 => cache[b].block # None
Counts == \A b \in Buffers : CountOf(b)

\* A buffer is pending while it is in one of these places, and then it is in use.
Reading(b) == IF pc = "read" /\ buffer = b THEN 1 ELSE 0
InHands(f, b) == Cardinality({d \in Deflators : f[d] = b})
Fills(b) == Reading(b) + Is(reader, {b}) + CountIn(toReader, {b}) + CountIn(toDeflate, {b}) + InHands(deflator, b)
PendingOf(b) == /\ Fills(b) = IF cache[b].pending THEN 1 ELSE 0
                /\ cache[b].pending => cache[b].used > 0
Pending == Running => \A b \in Buffers : PendingOf(b)

\* Whoever has a buffer for a piece finds the piece's block in it, and a failure has
\* its reason.
HasBlock(c, m) == m.type = "piece" /\ m.buffer # None => c[m.buffer].block = m.piece.block
Owned ==
  /\ \A n \in 1 .. Len(toWriter) : HasBlock(cache, toWriter[n])
  /\ writer.buffer # None => cache[writer.buffer].block = writer.piece.block
  /\ buffer # None => cache[buffer].block = Head(rest).block
Blamed == /\ \A b \in Buffers : cache[b].error => cache[b].block \in unread
          /\ writer.failed => Failed(writer.path)

\* Of the paths that the scan has taken, each is settled or its file is on its way
\* to the writer or with it; an inode's file is that of its first path.
Taken(k) == k < at \/ (k = at /\ Sending)
FilesSent == {toWriter[n].path : n \in {j \in 1 .. Len(toWriter) : toWriter[j].type = "file"}}
OnWay(f) == (writer.step # "idle" /\ writer.path = f) \/ f \in FilesSent
Gone(f) == Failed(f) /\ names[f] = 0
SettledPath(k) ==
  LET f == First(k)
  IN  {k, f} \cap refused # {} \/ Gone(f) \/ (names[k] = f /\ (f \in complete \/ OnWay(f)))
Firsts ==
  /\ pc # "aborted" => \A k \in Paths : created[image[k].inode] = IF Taken(First(k)) THEN First(k) ELSE 0
  /\ \A f \in FilesSent : f \in Paths /\ First(f) = f
  /\ writer.step # "idle" => First(writer.path) = writer.path
Settled == \A k \in Paths : Taken(k) => SettledPath(k)

Inductive == /\ ScanTypes /\ CacheTypes /\ WriterTypes /\ Scan /\ InOrder /\ Ending
             /\ Counts /\ Pending /\ Owned /\ Blamed /\ Firsts /\ Settled

-----------------------------------------------------------------------------
(* Sequences.                                                              *)


LEMMA TailFacts ==
  ASSUME NEW S, NEW s \in Seq(S), s # <<>>
  PROVE  /\ Head(s) = s[1] /\ s[1] \in S /\ 1 \in 1 .. Len(s)
         /\ Tail(s) \in Seq(S) /\ Len(Tail(s)) = Len(s) - 1
         /\ \A k \in 1 .. Len(Tail(s)) : k + 1 \in 1 .. Len(s) /\ Tail(s)[k] = s[k + 1]
OBVIOUS

LEMMA CountType ==
  ASSUME NEW T, NEW s \in Seq(T), NEW S
  PROVE  IsFiniteSet({k \in 1 .. Len(s) : s[k] \in S}) /\ CountIn(s, S) \in Nat
<1>1. Len(s) \in Nat /\ IsFiniteSet(1 .. Len(s))
  BY FS_Interval
<1>2. IsFiniteSet({k \in 1 .. Len(s) : s[k] \in S})
  BY <1>1, FS_Subset
<1> QED BY <1>2, FS_CardinalityType DEF CountIn

\* One more element, at the end or at the head, is counted when it is of the set.
LEMMA CountAppend ==
  ASSUME NEW T, NEW s \in Seq(T), NEW e \in T, NEW S
  PROVE  CountIn(Append(s, e), S) = CountIn(s, S) + Is(e, S)
<1> DEFINE A == {k \in 1 .. Len(s) : s[k] \in S}
           B == {k \in 1 .. Len(Append(s, e)) : Append(s, e)[k] \in S}
<1>1. Len(s) \in Nat /\ Len(Append(s, e)) = Len(s) + 1 /\ Append(s, e)[Len(s) + 1] = e
      /\ \A k \in 1 .. Len(s) : Append(s, e)[k] = s[k]
  OBVIOUS
<1>2. IsFiniteSet(A) /\ Len(s) + 1 \notin A
  <2>1. IsFiniteSet(A)
    BY CountType
  <2>2. Len(s) + 1 \notin A
    BY <1>1
  <2> QED BY <2>1, <2>2
<1>3. CASE e \in S
  <2>1. B = A \cup {Len(s) + 1}
    BY <1>1, <1>3
  <2> HIDE DEF A, B
  <2>2. Cardinality(B) = Cardinality(A) + 1
    BY <1>2, <2>1, FS_AddElement
  <2>3. CountIn(Append(s, e), S) = Cardinality(B) /\ CountIn(s, S) = Cardinality(A)
    BY DEF CountIn, A, B
  <2> QED BY <1>3, <2>2, <2>3 DEF Is
<1>4. CASE e \notin S
  <2>1. B = A
    BY <1>1, <1>4
  <2>2. Cardinality(A) \in Nat
    BY CountType DEF CountIn
  <2> HIDE DEF A, B
  <2>3. CountIn(Append(s, e), S) = Cardinality(B) /\ CountIn(s, S) = Cardinality(A)
    BY DEF CountIn, A, B
  <2>4. Is(e, S) = 0
    BY <1>4 DEF Is
  <2>5. Cardinality(B) = Cardinality(A)
    BY <2>1, Zenon
  <2> QED BY <2>2, <2>3, <2>4, <2>5
<1> QED BY <1>3, <1>4

LEMMA CountTail ==
  ASSUME NEW T, NEW s \in Seq(T), s # <<>>, NEW S
  PROVE  /\ CountIn(s, S) = CountIn(Tail(s), S) + Is(Head(s), S)
         /\ CountIn(Tail(s), S) \in Nat
<1> DEFINE A == {k \in 1 .. Len(Tail(s)) : Tail(s)[k] \in S}
           B == {k \in 1 .. Len(s) : s[k] \in S /\ k # 1}
           C == {k \in 1 .. Len(s) : s[k] \in S}
           f == [k \in A |-> k + 1]
<1>1. /\ Head(s) = s[1] /\ 1 \in 1 .. Len(s) /\ Len(s) \in Nat
      /\ Tail(s) \in Seq(T) /\ Len(Tail(s)) = Len(s) - 1
      /\ \A k \in 1 .. Len(Tail(s)) : k + 1 \in 1 .. Len(s) /\ Tail(s)[k] = s[k + 1]
  BY TailFacts
<1>2. IsFiniteSet(A) /\ IsFiniteSet(C)
  BY <1>1, CountType
<1>3. f \in [A -> B]
  BY <1>1
<1>4. \A j, k \in A : f[j] = f[k] => j = k
  BY <1>1
<1>5. \A b \in B : b - 1 \in A /\ f[b - 1] = b
  <2> TAKE b \in B
  <2>1. b - 1 \in 1 .. Len(Tail(s)) /\ (b - 1) + 1 = b /\ s[b] \in S
    BY <1>1
  <2>2. Tail(s)[b - 1] = s[b]
    BY <1>1, <2>1, Zenon
  <2> QED BY <2>1, <2>2
<1> HIDE DEF f
<1>6. f \in Bijection(A, B)
  <2>1. f \in Injection(A, B)
    BY <1>3, <1>4 DEF Injection, IsInjective
  <2>2. \A b \in B : \E a \in A : f[a] = b
    BY <1>5, Zenon
  <2> QED BY <1>3, <2>1, <2>2 DEF Bijection, Surjection
<1>7. C \ {1} = B /\ (1 \in C <=> Head(s) \in S)
  BY <1>1
<1> HIDE DEF A, B, C
<1>8. Cardinality(A) = Cardinality(B)
  BY <1>2, <1>6, FS_Bijection DEF ExistsBijection
<1>9. Cardinality(C \ {1}) = IF 1 \in C THEN Cardinality(C) - 1 ELSE Cardinality(C)
  BY <1>2, FS_RemoveElement
<1>10. Cardinality(C) \in Nat /\ Cardinality(A) \in Nat
  BY <1>2, FS_CardinalityType
<1>11. CountIn(s, S) = Cardinality(C) /\ CountIn(Tail(s), S) = Cardinality(A)
  BY DEF CountIn, A, C
<1>12. Cardinality(C) = Cardinality(A) + (IF Head(s) \in S THEN 1 ELSE 0)
  <2>1. Cardinality(A) = IF 1 \in C THEN Cardinality(C) - 1 ELSE Cardinality(C)
    BY <1>7, <1>8, <1>9, Zenon
  <2>2. 1 \in C <=> Head(s) \in S
    BY <1>7
  <2> QED BY <1>10, <2>1, <2>2
<1> QED BY <1>10, <1>11, <1>12 DEF Is


LEMMA CountConcat ==
  ASSUME NEW T, NEW s \in Seq(T), NEW t \in Seq(T), NEW S
  PROVE  CountIn(s \o t, S) = CountIn(s, S) + CountIn(t, S)
<1> DEFINE m == Len(s)
           n == Len(t)
           r == s \o t
           A == {k \in 1 .. m : s[k] \in S}
           B == {k \in 1 .. n : t[k] \in S}
           C == {k \in 1 .. m + n : r[k] \in S}
           D == {k \in m + 1 .. m + n : r[k] \in S}
           f == [k \in B |-> m + k]
<1>1. m \in Nat /\ n \in Nat
  OBVIOUS
<1>2. Len(r) = m + n /\ (\A k \in 1 .. m : r[k] = s[k]) /\ \A k \in 1 .. n : r[m + k] = t[k]
  <2>1. s \in Seq(T) /\ t \in Seq(T)
    OBVIOUS
  <2> QED BY <2>1, SMTT(20)
<1>3. IsFiniteSet(A) /\ IsFiniteSet(B)
  BY CountType
<1>4. CountIn(r, S) = Cardinality(C) /\ CountIn(s, S) = Cardinality(A) /\ CountIn(t, S) = Cardinality(B)
  BY <1>2 DEF CountIn
<1> HIDE DEF r, m, n
<1>5. f \in [B -> D] /\ \A j, k \in B : f[j] = f[k] => j = k
  BY <1>1, <1>2
<1>6. ASSUME NEW d \in D PROVE d - m \in B /\ f[d - m] = d
  <2>1. d - m \in 1 .. n /\ m + (d - m) = d
    BY <1>1
  <2>2. t[d - m] = r[d]
    BY <1>2, <2>1, Zenon
  <2> QED BY <2>1, <2>2
<1> HIDE DEF f
<1>7. f \in Bijection(B, D)
  <2>1. f \in Injection(B, D)
    BY <1>5 DEF Injection, IsInjective
  <2>2. \A d \in D : \E b \in B : f[b] = d
    BY <1>6, Zenon
  <2> QED BY <1>5, <2>1, <2>2 DEF Bijection, Surjection
<1>8. C = A \cup D /\ A \cap D = {}
  <2>1. \A k \in 1 .. m + n : k \in 1 .. m \/ k \in m + 1 .. m + n
    BY <1>1
  <2>2. \A k \in 1 .. m : k \in 1 .. m + n /\ k \notin m + 1 .. m + n
    BY <1>1
  <2>3. \A k \in m + 1 .. m + n : k \in 1 .. m + n
    BY <1>1
  <2> QED BY <1>2, <2>1, <2>2, <2>3
<1> HIDE DEF A, B, C, D
<1>9. IsFiniteSet(D) /\ Cardinality(D) = Cardinality(B)
  <2>1. ExistsBijection(B, D)
    BY <1>7 DEF ExistsBijection
  <2> QED BY <1>3, <2>1, FS_Bijection
<1>10. Cardinality(C) = Cardinality(A) + Cardinality(D) - Cardinality({})
  BY <1>3, <1>8, <1>9, FS_Union
<1>11. Cardinality({}) = 0 /\ Cardinality(A) \in Nat /\ Cardinality(B) \in Nat
  BY <1>3, FS_EmptySet, FS_CardinalityType
<1>12. Cardinality(C) = Cardinality(A) + Cardinality(B)
  BY <1>9, <1>10, <1>11
<1> QED BY <1>4, <1>12 DEF r

LEMMA CountSome ==
  ASSUME NEW T, NEW s \in Seq(T), NEW e
  PROVE  CountIn(s, {e}) > 0 <=> \E k \in 1 .. Len(s) : s[k] = e
<1> DEFINE A == {k \in 1 .. Len(s) : s[k] \in {e}}
<1>1. IsFiniteSet(A) /\ Cardinality(A) \in Nat
  BY CountType DEF CountIn
<1>2. Cardinality(A) = 0 <=> A = {}
  BY <1>1, FS_EmptySet
<1>3. A = {} <=> ~ \E k \in 1 .. Len(s) : s[k] = e
  OBVIOUS
<1> QED BY <1>1, <1>2, <1>3 DEF CountIn

\* A set of naturals has a least element.
LEMMA NatLeast ==
  ASSUME NEW T \in SUBSET Nat, T # {}
  PROVE  \E n \in T : \A m \in T : n <= m
<1> DEFINE R == OpToRel(<, Nat)
<1>1. IsWellFoundedOn(R, Nat)
  BY NatLessThanWellFounded
<1>2. \A x, y \in Nat : <<x, y>> \in R <=> x < y
  BY DEF OpToRel
<1> HIDE DEF R
<1>3. PICK n \in T : \A m \in T : ~(<<m, n>> \in R)
  BY <1>1, WFMin
<1>4. \A m \in T : n <= m
  <2> TAKE m \in T
  <2>1. ~(m < n)
    BY <1>2, <1>3, Zenon
  <2> QED BY <2>1
<1> QED BY <1>4, Zenon

\* RemoveFirst takes one e out, if there is one, and nothing else.
LEMMA RemoveFacts ==
  ASSUME NEW T, NEW s \in Seq(T), NEW e \in T
  PROVE  /\ RemoveFirst(s, e) \in Seq(T)
         /\ \A S : CountIn(s, S) = CountIn(RemoveFirst(s, e), S) + (IF CountIn(s, {e}) > 0 THEN Is(e, S) ELSE 0)
<1>1. CASE ~ \E k \in 1 .. Len(s) : s[k] = e
  <2>1. RemoveFirst(s, e) = s /\ ~(CountIn(s, {e}) > 0)
    BY <1>1, CountSome DEF RemoveFirst
  <2>2. \A S : CountIn(s, S) \in Nat
    BY CountType
  <2> QED BY <2>1, <2>2
<1>2. CASE \E k \in 1 .. Len(s) : s[k] = e
  <2> DEFINE I == {k \in 1 .. Len(s) : s[k] = e}
             i == Min(I)
             p == SubSeq(s, 1, i - 1)
             q == SubSeq(s, i + 1, Len(s))
  <2>1. i \in 1 .. Len(s) /\ s[i] = e
    <3>1. I \in SUBSET Nat /\ I # {}
      BY <1>2
    <3> HIDE DEF I
    <3>2. \E n \in I : \A m \in I : n <= m
      BY <3>1, NatLeast
    <3>3. Min(I) \in I
      BY <3>2 DEF Min
    <3> QED BY <3>3 DEF I
  <2>2. RemoveFirst(s, e) = p \o q
    <3>1. I # {}
      BY <1>2
    <3>2. SelectInSeq(s, LAMBDA v : v = e) = i
      BY <3>1 DEF SelectInSeq
    <3> HIDE DEF i
    <3> QED BY <1>2, <3>2 DEF RemoveFirst, RemoveAt
  <2> HIDE DEF i
  <2>3. /\ p \in Seq(T) /\ Len(p) = i - 1 /\ \A k \in 1 .. i - 1 : p[k] = s[k]
        /\ q \in Seq(T) /\ Len(q) = Len(s) - i /\ \A k \in 1 .. Len(s) - i : q[k] = s[i + k]
    <3>1. i \in Nat /\ Len(s) \in Nat /\ 1 <= i /\ i <= Len(s)
      BY <2>1
    <3>2. \A k \in 1 .. i - 1 : k \in 1 .. Len(s)
      BY <3>1
    <3>3. p = [k \in 1 .. i - 1 |-> s[k]] /\ p \in Seq(T) /\ Len(p) = i - 1
      BY <3>1
    <3>4. q \in Seq(T) /\ Len(q) = Len(s) - i
      BY <3>1
    <3>5. \A k \in 1 .. Len(s) - i : q[k] = s[i + k]
      BY <3>1
    <3> QED BY <3>3, <3>4, <3>5
  <2> HIDE DEF p, q
  <2>4. /\ Append(p, e) \in Seq(T) /\ Len(Append(p, e)) = i /\ Append(p, e)[i] = e
        /\ \A k \in 1 .. i - 1 : Append(p, e)[k] = s[k]
    BY <2>1, <2>3
  <2> DEFINE a == Append(p, e)
             r == a \o q
  <2>5. /\ r \in Seq(T) /\ Len(r) = i + (Len(s) - i)
        /\ (\A k \in 1 .. i : r[k] = a[k]) /\ \A k \in 1 .. Len(s) - i : r[i + k] = q[k]
    <3> HIDE DEF a
    <3>1. a \in Seq(T) /\ q \in Seq(T)
      BY <2>3, <2>4 DEF a
    <3>2. /\ r \in Seq(T) /\ Len(r) = Len(a) + Len(q)
          /\ (\A k \in 1 .. Len(a) : r[k] = a[k]) /\ \A k \in 1 .. Len(q) : r[Len(a) + k] = q[k]
      BY <3>1, SMTT(20)
    <3>3. Len(a) = i /\ Len(q) = Len(s) - i
      BY <2>3, <2>4 DEF a
    <3> HIDE DEF r
    <3> QED BY <3>2, <3>3
  <2>6. s = r
    <3> HIDE DEF r
    <3>1. Len(r) = Len(s)
      BY <2>1, <2>5
    <3>2. ASSUME NEW k \in 1 .. Len(s) PROVE r[k] = s[k]
      <4>1. CASE k < i
        <5>1. k \in 1 .. i - 1 /\ k \in 1 .. i
          BY <2>1, <4>1
        <5> QED BY <2>4, <2>5, <5>1
      <4>2. CASE k = i
        <5>1. k \in 1 .. i
          BY <2>1, <4>2
        <5> QED BY <2>1, <2>4, <2>5, <4>2, <5>1
      <4>3. CASE k > i
        <5>1. k - i \in 1 .. Len(s) - i /\ i + (k - i) = k
          BY <2>1, <4>3
        <5>2. r[i + (k - i)] = q[k - i] /\ q[k - i] = s[i + (k - i)]
          BY <2>3, <2>5, <5>1, Zenon
        <5> QED BY <5>1, <5>2
      <4> QED BY <2>1, <4>1, <4>2, <4>3
    <3> QED BY <2>5, <3>1, <3>2, SeqEqual
  <2>7. ASSUME NEW S PROVE CountIn(s, S) = CountIn(p \o q, S) + Is(e, S)
    <3>1. CountIn(s, S) = CountIn(a, S) + CountIn(q, S)
      <4>1. a \in Seq(T) /\ q \in Seq(T)
        BY <2>3, <2>4
      <4> HIDE DEF a
      <4>2. CountIn(r, S) = CountIn(a, S) + CountIn(q, S)
        BY <4>1, CountConcat
      <4> HIDE DEF r
      <4> QED BY <2>6, <4>2
    <3>2. CountIn(a, S) = CountIn(p, S) + Is(e, S)
      BY <2>3, CountAppend
    <3>3. CountIn(p \o q, S) = CountIn(p, S) + CountIn(q, S)
      BY <2>3, CountConcat
    <3>4. CountIn(p, S) \in Nat /\ CountIn(q, S) \in Nat /\ Is(e, S) \in Nat
      BY <2>3, CountType DEF Is
    <3> QED BY <3>1, <3>2, <3>3, <3>4
  <2>8. CountIn(s, {e}) > 0
    BY <1>2, CountSome
  <2>9. p \o q \in Seq(T)
    BY <2>3
  <2> QED BY <2>2, <2>7, <2>8, <2>9
<1> QED BY <1>1, <1>2


-----------------------------------------------------------------------------
(* The main thread.                                                        *)

LEMMA EntryFacts ==
  ASSUME ScanTypes
  PROVE  /\ image \in Seq(Entries) /\ Len(image) \in Nat /\ Paths = 1 .. Len(image)
         /\ \A k \in Paths : image[k] \in Entries /\ image[k].pieces \in Seq(Pieces) /\ Len(image[k].pieces) \in Nat
<1>1. image \in Seq(Entries)
  BY UnsquashAssumption DEF ScanTypes
<1>2. Len(image) \in Nat /\ Paths = 1 .. Len(image) /\ \A k \in Paths : image[k] \in Entries
  BY <1>1 DEF Paths
<1>3. \A k \in Paths : image[k].pieces \in Seq(Pieces) /\ Len(image[k].pieces) \in Nat
  BY <1>2 DEF Entries
<1> QED BY <1>1, <1>2, <1>3

LEMMA ImageSame ==
  ASSUME Next
  PROVE  image' = image /\ Paths' = Paths
<1>1. image' = image
  BY DEF Next, Main, Reader, Writer, Deflator, LinkTo, EntryFails, Link, Special, Open, OpenFails, GetHit, GetNew, GetSleep, PutToReader,
         Give, SendEnd, Exit, ReaderTake, Read, DeflatorTake, Inflate, Abort, WriterFile, WriterEnd, WriterTake,
         WriterSleep, WriterBlock, WriterClose, scanVars
<1> QED BY <1>1 DEF Paths

\* The first piece that has not been sent.
LEMMA RestFacts ==
  ASSUME ScanTypes, Scan, Sending
  PROVE  /\ rest # <<>> /\ Head(rest) = rest[1] /\ rest[1] \in Pieces /\ Len(rest) \in Nat \ {0}
         /\ rest[1] = Entry.pieces[Len(Entry.pieces) - Len(rest) + 1]
         /\ Tail(rest) \in Seq(Pieces) /\ Len(Tail(rest)) = Len(rest) - 1
         /\ \A k \in 1 .. Len(rest) - 1 : Tail(rest)[k] = rest[k + 1]
<1>1. Len(rest) \in 1 .. Len(Entry.pieces) /\ rest \in Seq(Pieces) /\ Len(rest) \in Nat
  BY DEF Scan, ScanTypes
<1>2. rest # <<>> /\ 1 \in 1 .. Len(rest)
  BY <1>1
<1>3. /\ Head(rest) = rest[1] /\ rest[1] \in Pieces /\ Tail(rest) \in Seq(Pieces) /\ Len(Tail(rest)) = Len(rest) - 1
      /\ \A k \in 1 .. Len(Tail(rest)) : Tail(rest)[k] = rest[k + 1]
  BY <1>1, <1>2, TailFacts
<1>4. rest[1] = Entry.pieces[Len(Entry.pieces) - Len(rest) + 1]
  BY <1>2 DEF Scan
<1> QED BY <1>1, <1>2, <1>3, <1>4

\* The buffer that cache_get takes is of the block's cache.
New(kind) == IF Unused(kind) # {} THEN CHOOSE u \in Unused(kind) : TRUE ELSE Head(free[kind])
LEMMA NewFacts ==
  ASSUME ScanTypes, CacheTypes, Scan, Getting, NEW kind, kind = Head(rest).kind,
         Unused(kind) # {} \/ free[kind] # <<>>
  PROVE  /\ kind \in Kinds /\ New(kind) \in Buffers /\ KindOf(New(kind)) = kind
         /\ IF Unused(kind) # {} THEN cache[New(kind)].block = None
            ELSE free[kind] # <<>> /\ New(kind) = free[kind][1] /\ 1 \in 1 .. Len(free[kind])
<1>1. kind \in Kinds
  <2>1. Head(rest) \in Pieces
    BY RestFacts DEF Getting, Sending
  <2> QED BY <2>1 DEF Pieces, Getting
<1>2. CASE Unused(kind) # {}
  <2>1. New(kind) \in Unused(kind)
    BY <1>2 DEF New
  <2> QED BY <1>1, <1>2, <2>1 DEF Unused
<1>3. CASE Unused(kind) = {}
  <2>1. free[kind] # <<>> /\ free[kind] \in Seq(Of(kind))
    BY <1>1, <1>3 DEF CacheTypes
  <2>2. Head(free[kind]) = free[kind][1] /\ free[kind][1] \in Of(kind) /\ 1 \in 1 .. Len(free[kind])
    BY <2>1, TailFacts
  <2> QED BY <1>1, <1>3, <2>1, <2>2 DEF New, Of
<1> QED BY <1>2, <1>3

LEMMA ScanSame ==
  ASSUME ScanTypes, Scan, UNCHANGED <<image, at, rest, buffer, created, names>>, pc' = pc \/ pc' = "aborted"
  PROVE  ScanTypes' /\ Scan'
<1>1. Paths' = Paths /\ Entry' = Entry
  BY DEF Paths, Entry
<1>2. ScanTypes'
  BY <1>1 DEF ScanTypes
<1>3. CASE pc' = pc
  BY <1>1, <1>2, <1>3 DEF Scan, Sending
<1>4. CASE pc' = "aborted"
  BY <1>2, <1>4 DEF Scan, Sending
<1> QED BY <1>3, <1>4

LEMMA ScanStep ==
  ASSUME ScanTypes, CacheTypes, WriterTypes, Scan, Next
  PROVE  ScanTypes' /\ Scan'
<1>0. image' = image /\ Paths' = Paths /\ Len(image) \in Nat /\ Paths = 1 .. Len(image) /\ at \in 1 .. Len(image) + 1
      /\ \A k \in Paths : image[k] \in Entries /\ image[k].pieces \in Seq(Pieces) /\ Len(image[k].pieces) \in Nat
  BY EntryFacts, ImageSame DEF ScanTypes
<1>1. More => at \in Paths /\ at + 1 \in 1 .. Len(image) + 1
  BY <1>0 DEF More
\* An entry is dealt with at once.
<1>2. ASSUME NextEntry, More, pc = "next", UNCHANGED <<image, rest, buffer>>,
             created' \in [{image[k].inode : k \in Paths} -> Paths \cup {0}],
             names' \in [Paths -> Paths \cup {0}]
      PROVE  ScanTypes' /\ Scan'
  <2>1. pc' = "next" /\ at' = at + 1 /\ buffer = None
    BY <1>2 DEF NextEntry, Scan
  <2> QED BY <1>0, <1>1, <1>2, <2>1 DEF ScanTypes, Scan, Sending
<1>3. CASE Link
  <2>1. More /\ created[Entry.inode] # 0 /\ NextEntry /\ pc = "next" /\ UNCHANGED <<image, rest, buffer, created>>
        /\ \E n \in {0, names[at], names[created[Entry.inode]]} : names' = [names EXCEPT ![at] = n]
    BY <1>3 DEF Link, LinkTo, EntryFails
  <2>2. created[Entry.inode] \in Paths /\ at \in Paths
    BY <1>1, <2>1 DEF ScanTypes, Entry
  <2>3. names' \in [Paths -> Paths \cup {0}]
    BY <1>1, <2>1, <2>2 DEF ScanTypes
  <2> QED BY <1>2, <2>1, <2>3 DEF ScanTypes
<1>4. Created /\ More => created' \in [{image[k].inode : k \in Paths} -> Paths \cup {0}]
  <2> SUFFICES ASSUME Created, More PROVE created' \in [{image[k].inode : k \in Paths} -> Paths \cup {0}]
    OBVIOUS
  <2>1. created' = [created EXCEPT ![Entry.inode] = at] /\ at \in Paths
    BY <1>1 DEF Created
  <2> QED BY <2>1 DEF ScanTypes
<1>5. CASE Special
  <2>1. pc = "next" /\ More /\ Created /\ NextEntry /\ UNCHANGED <<image, rest, buffer>>
        /\ \E n \in {at, 0, names[at]} : names' = [names EXCEPT ![at] = n]
    BY <1>5 DEF EntryFails, Special
  <2>2. names' \in [Paths -> Paths \cup {0}]
    BY <1>1, <2>1 DEF ScanTypes
  <2> QED BY <1>2, <1>4, <2>1, <2>2
<1>6. CASE Open
  <2>1. /\ pc = "next" /\ More /\ Created /\ names' = [names EXCEPT ![at] = at] /\ rest' = Entry.pieces
        /\ UNCHANGED <<image, buffer>>
        /\ IF Entry.pieces = <<>> THEN pc' = "next" /\ at' = at + 1 ELSE pc' = "get" /\ at' = at
    BY <1>6 DEF Open, NextEntry
  <2>2. names' \in [Paths -> Paths \cup {0}] /\ buffer = None
    BY <1>1, <2>1 DEF ScanTypes, Scan
  <2>3. rest' \in Seq(Pieces) /\ Len(rest') \in Nat /\ (rest' # <<>> => Len(rest') \in 1 .. Len(rest'))
    BY <1>0, <1>1, <2>1 DEF Entry
  <2>4. ScanTypes'
    BY <1>0, <1>1, <1>4, <2>1, <2>2, <2>3 DEF ScanTypes
  <2>5. CASE Entry.pieces = <<>>
    BY <2>1, <2>2, <2>4, <2>5 DEF Scan, Sending
  <2>6. CASE Entry.pieces # <<>>
    <3>1. Entry' = Entry /\ rest' = Entry.pieces /\ pc' = "get" /\ at' = at
      BY <2>1, <2>6 DEF Entry
    <3>2. \A j \in 1 .. Len(rest') : rest'[j] = Entry.pieces[Len(Entry.pieces) - Len(rest') + j]
      BY <2>3, <3>1
    <3> QED BY <1>0, <1>1, <2>1, <2>2, <2>3, <2>4, <3>1, <3>2 DEF Scan, Sending
  <2> QED BY <2>5, <2>6
<1>7. CASE OpenFails
  <2>1. pc = "next" /\ More /\ Created /\ NextEntry /\ UNCHANGED <<image, rest, buffer, names>>
    BY <1>7 DEF OpenFails, diskVars
  <2> QED BY <1>2, <1>4, <2>1 DEF ScanTypes
<1>8. ASSUME NEW b \in Buffers, pc = "get", buffer' = b, pc' \in {"give", "read"}, UNCHANGED <<image, at, rest, created, names>>
      PROVE  ScanTypes' /\ Scan'
  <2>1. Entry' = Entry
    BY <1>8 DEF Entry
  <2> QED BY <1>0, <1>8, <2>1 DEF ScanTypes, Scan, Sending, Hand
<1>9. CASE \E b \in Buffers : GetHit(b)
  <2>1. PICK b \in Buffers : GetHit(b)
    BY <1>9
  <2> QED BY <1>8, <2>1 DEF GetHit, Getting, diskVars
<1>10. CASE GetNew
  <2>1. /\ Getting /\ (Unused(Head(rest).kind) # {} \/ free[Head(rest).kind] # <<>>) /\ pc' = "read"
        /\ buffer' = New(Head(rest).kind) /\ UNCHANGED <<image, at, rest, created, names>>
    BY <1>10 DEF GetNew, New, diskVars
  <2>2. New(Head(rest).kind) \in Buffers
    BY <2>1, NewFacts
  <2> QED BY <1>8, <2>1, <2>2 DEF Getting
<1>11. CASE PutToReader
  <2>1. pc = "read" /\ pc' = "give" /\ UNCHANGED <<image, at, rest, buffer, created, names>>
    BY <1>11 DEF PutToReader, scanVars, diskVars
  <2>2. Entry' = Entry
    BY <2>1 DEF Entry
  <2> QED BY <1>0, <2>1, <2>2 DEF ScanTypes, Scan, Sending
<1>12. CASE Give
  <2>1. /\ Sending /\ buffer' = None /\ rest' = Tail(rest) /\ UNCHANGED <<image, created, names>>
        /\ IF Len(rest) = 1 THEN pc' = "next" /\ at' = at + 1 ELSE pc' = "get" /\ at' = at
    BY <1>12 DEF Give, Sending, NextEntry, diskVars
  <2>2. at \in Paths /\ Len(rest) \in Nat \ {0} /\ Tail(rest) \in Seq(Pieces) /\ Len(Tail(rest)) = Len(rest) - 1
        /\ \A k \in 1 .. Len(rest) - 1 : Tail(rest)[k] = rest[k + 1]
    BY <2>1, RestFacts DEF Scan
  <2>3. ScanTypes'
    BY <1>0, <2>1, <2>2 DEF ScanTypes, Hand
  <2>4. CASE Len(rest) = 1
    BY <2>1, <2>3, <2>4 DEF Scan, Sending
  <2>5. CASE Len(rest) # 1
    <3> DEFINE P == Entry.pieces
               m == Len(rest)
    <3>1. m \in 1 .. Len(P) /\ (\A j \in 1 .. m : rest[j] = P[Len(P) - m + j]) /\ Len(P) \in Nat
      BY <1>0, <2>1, <2>2 DEF Scan, Entry
    <3>2. rest' = Tail(rest) /\ Entry' = Entry /\ at' = at /\ pc' = "get" /\ Len(rest') = m - 1
      BY <2>1, <2>2, <2>5 DEF Entry
    <3>3. \A j \in 1 .. m - 1 : rest'[j] = P[Len(P) - (m - 1) + j]
      <4> HIDE DEF P, m
      <4> TAKE j \in 1 .. m - 1
      <4>1. j + 1 \in 1 .. m /\ Len(P) - m + (j + 1) = Len(P) - (m - 1) + j
        BY <2>2, <3>1 DEF m
      <4>2. rest'[j] = rest[j + 1] /\ rest[j + 1] = P[Len(P) - m + (j + 1)]
        BY <2>2, <3>1, <3>2, <4>1, Zenon DEF m
      <4> QED BY <4>1, <4>2
    <3>4. m - 1 \in 1 .. Len(P)
      BY <2>2, <2>5, <3>1
    <3>5. (\A j \in 1 .. Len(rest') : rest'[j] = P[Len(P) - Len(rest') + j]) /\ Len(rest') \in 1 .. Len(P)
      BY <3>2, <3>3, <3>4
    <3> QED BY <1>0, <2>1, <2>2, <2>3, <3>2, <3>5 DEF Scan, Sending
  <2> QED BY <2>4, <2>5
<1>13. CASE SendEnd
  <2>1. pc = "next" /\ ~More /\ pc' = LastStep /\ UNCHANGED <<image, at, rest, buffer, created, names>>
    BY <1>13 DEF SendEnd, scanVars, diskVars
  <2>2. at = Len(image) + 1
    BY <1>0, <2>1 DEF More
  <2>3. ScanTypes'
    BY <1>0, <2>1 DEF ScanTypes, LastStep
  <2>4. Scan'
    BY <1>0, <2>1, <2>2 DEF Scan, Sending, LastStep
  <2> QED BY <2>3, <2>4
<1>14. CASE Exit
  <2>1. pc = "last" /\ pc' = "exited" /\ UNCHANGED <<image, at, rest, buffer, created, names>>
    BY <1>14 DEF Exit, scanVars, diskVars
  <2> QED BY <1>0, <2>1 DEF ScanTypes, Scan, Sending
<1>15. CASE WriterClose
  <2>1. /\ writer.step = "file" /\ UNCHANGED <<image, at, rest, buffer, created, pc>>
        /\ names' = names \/ names' = [names EXCEPT ![writer.path] = 0]
    BY <1>15 DEF WriterClose, scanVars
  <2>2. writer.path \in Paths
    BY <2>1 DEF WriterTypes
  <2>3. names' \in [Paths -> Paths \cup {0}] /\ Entry' = Entry
    BY <2>1, <2>2 DEF ScanTypes, Entry
  <2>4. ScanTypes'
    BY <1>0, <2>1, <2>3 DEF ScanTypes
  <2>5. Scan'
    BY <1>0, <2>1, <2>3 DEF Scan, Sending
  <2> QED BY <2>4, <2>5
<1>16. CASE GetSleep \/ ReaderTake \/ Read \/ (\E d \in Deflators : DeflatorTake(d) \/ Inflate(d) \/ Abort(d))
            \/ WriterFile \/ WriterEnd \/ WriterTake \/ WriterSleep \/ WriterBlock
  <2>1. UNCHANGED <<image, at, rest, buffer, created, names>> /\ (pc' = pc \/ pc' = "aborted")
    BY <1>16 DEF GetSleep, ReaderTake, Read, DeflatorTake, Inflate, Abort, WriterFile, WriterEnd, WriterTake,
                WriterSleep, WriterBlock, scanVars, diskVars
  <2> QED BY <2>1, ScanSame
<1> QED BY <1>3, <1>5, <1>6, <1>7, <1>9, <1>10, <1>11, <1>12, <1>13, <1>14, <1>15, <1>16
        DEF Next, Main, Reader, Writer, Deflator


-----------------------------------------------------------------------------
(* The writer's queue.                                                     *)

LEMMA Int32Facts ==
  ASSUME NEW n \in Int
  PROVE  Int32(n) \in -HalfInt .. HalfInt - 1
<1>1. HalfInt \in Nat \ {0}
  BY HalfIntAssumption
<1>2. \A m \in Nat \ {0} : \A x \in Int : x % m \in 0 .. m - 1
  OBVIOUS
<1>3. (n + HalfInt) % (2 * HalfInt) \in 0 .. 2 * HalfInt - 1
  BY <1>1, <1>2
<1> DEFINE x == (n + HalfInt) % (2 * HalfInt)
<1> HIDE DEF x
<1>4. x \in 0 .. 2 * HalfInt - 1 /\ Int32(n) = x - HalfInt
  BY <1>3 DEF x, Int32
<1> QED BY <1>1, <1>4

LEMMA NextRuns ==
  ASSUME Next
  PROVE  Running
BY DEF Next, Main, Reader, Writer, Deflator, LinkTo, EntryFails, Link, Special, Open, OpenFails, GetHit, GetNew, GetSleep, Getting, PutToReader,
       Give, SendEnd, Exit, Running

\* A file begins and ends without a buffer in hand and without a failure.
LEMMA IdleFacts ==
  ASSUME WriterFile \/ WriterClose
  PROVE  writer'.buffer = None /\ ~writer'.failed
<1>1. CASE WriterFile
  <2>1. PICK p, l : writer' = [step |-> "file", path |-> p, left |-> l, hole |-> 0, failed |-> FALSE, piece |-> None, buffer |-> None]
    BY <1>1 DEF WriterFile, Idle
  <2> QED BY <2>1
<1>2. CASE WriterClose
  BY <1>2 DEF WriterClose, Idle
<1> QED BY <1>1, <1>2

LEMMA WholeSame ==
  ASSUME NEW s, Whole(s), UNCHANGED <<image, toWriter>>, writer'.path = writer.path, Owed' = Owed,
         IF Sending' THEN Sending /\ UNCHANGED <<at, rest>> ELSE ~Sending
  PROVE  InOrder'
<1>1. Whole(s)'
  BY DEF Whole
<1> QED BY <1>1 DEF InOrder

LEMMA WholeHead ==
  ASSUME NEW s, Whole(s), toWriter # <<>>, toWriter \in Seq(Messages)
  PROVE  /\ toWriter[1] \in Messages /\ Head(toWriter) = toWriter[1] /\ s[1] \in Stages(image)
         /\ s[0] = [path |-> writer.path, left |-> Owed] /\ s[0] \in Stages(image)
         /\ Follows(image, s[0], toWriter[1], s[1])
<1>1. toWriter[1] \in Messages /\ Head(toWriter) = toWriter[1] /\ 1 \in 1 .. Len(toWriter) /\ Len(toWriter) \in Nat
  BY TailFacts
<1>2. 0 \in 0 .. Len(toWriter) /\ 1 \in 0 .. Len(toWriter) /\ 1 - 1 = 0
  BY <1>1
<1>3. s[0] \in Stages(image) /\ s[1] \in Stages(image)
  BY <1>2, Zenon DEF Whole
<1>4. s[0] = [path |-> writer.path, left |-> Owed] /\ Follows(image, s[1 - 1], toWriter[1], s[1])
  BY <1>1, Zenon DEF Whole
<1> QED BY <1>1, <1>2, <1>3, <1>4

LEMMA WholeTail ==
  ASSUME NEW s, Whole(s), toWriter # <<>>, toWriter \in Seq(Messages), toWriter' = Tail(toWriter),
         UNCHANGED <<image, pc, at, rest>>, s[1] = [path |-> writer'.path, left |-> Owed']
  PROVE  InOrder'
<1> DEFINE n == Len(toWriter)
           t == [k \in 0 .. n - 1 |-> s[k + 1]]
<1>1. /\ n \in Nat \ {0} /\ Tail(toWriter) \in Seq(Messages) /\ Len(Tail(toWriter)) = n - 1
      /\ \A k \in 1 .. n - 1 : k + 1 \in 1 .. n /\ Tail(toWriter)[k] = toWriter[k + 1]
  BY TailFacts
<1>2. /\ s \in [0 .. n -> Stages(image)] /\ \A k \in 1 .. n : Follows(image, s[k - 1], toWriter[k], s[k])
      /\ IF Sending THEN s[n] = [path |-> at, left |-> Len(rest)] ELSE s[n].left = 0
  BY DEF Whole
<1> HIDE DEF n
<1>3. t \in [0 .. n - 1 -> Stages(image)] /\ \A k \in 0 .. n - 1 : t[k] = s[k + 1]
  BY <1>1, <1>2
<1>4. t[0] = s[1] /\ t[n - 1] = s[n]
  <2>1. 0 \in 0 .. n - 1 /\ n - 1 \in 0 .. n - 1 /\ 0 + 1 = 1 /\ (n - 1) + 1 = n
    BY <1>1
  <2>2. t[0] = s[0 + 1] /\ t[n - 1] = s[(n - 1) + 1]
    BY <1>3, <2>1, Zenon
  <2> QED BY <2>1, <2>2
<1>5. ASSUME NEW k \in 1 .. n - 1 PROVE Follows(image, t[k - 1], toWriter'[k], t[k])
  <2>1. k + 1 \in 1 .. n /\ k - 1 \in 0 .. n - 1 /\ k \in 0 .. n - 1 /\ (k - 1) + 1 = k /\ (k + 1) - 1 = k
    BY <1>1
  <2>2. t[k - 1] = s[(k - 1) + 1] /\ t[k] = s[k + 1] /\ toWriter'[k] = toWriter[k + 1]
    BY <1>1, <1>3, <2>1, Zenon
  <2>3. Follows(image, s[(k + 1) - 1], toWriter[k + 1], s[k + 1])
    BY <1>2, <2>1, Zenon
  <2> QED BY <2>1, <2>2, <2>3
<1> HIDE DEF t
<1>6. PICK u : u = t
  OBVIOUS
<1>7. Whole(u)'
  <2>1. Sending' = Sending /\ Len(toWriter') = n - 1
    BY <1>1 DEF Sending
  <2>2. u \in [0 .. Len(toWriter') -> Stages(image')] /\ u[0] = [path |-> writer.path, left |-> Owed]'
    BY <1>3, <1>4, <1>6, <2>1
  <2>3. \A k \in 1 .. Len(toWriter') : Follows(image', u[k - 1], toWriter'[k], u[k])
    BY <1>5, <1>6, <2>1
  <2>4. IF Sending' THEN u[Len(toWriter')] = [path |-> at, left |-> Len(rest)]' ELSE u[Len(toWriter')].left = 0
    BY <1>2, <1>4, <1>6, <2>1
  <2> QED BY <2>2, <2>3, <2>4 DEF Whole
<1> QED BY <1>7 DEF InOrder

LEMMA WholeAppend ==
  ASSUME NEW s, Whole(s), toWriter \in Seq(Messages), NEW m \in Messages, toWriter' = Append(toWriter, m),
         UNCHANGED <<image, writer>>, NEW e \in Stages(image), Follows(image, s[Len(toWriter)], m, e),
         IF Sending' THEN e = [path |-> at', left |-> Len(rest')] ELSE e.left = 0
  PROVE  InOrder'
<1> DEFINE n == Len(toWriter)
           t == [k \in 0 .. n + 1 |-> IF k = n + 1 THEN e ELSE s[k]]
<1>1. /\ n \in Nat /\ Len(Append(toWriter, m)) = n + 1 /\ Append(toWriter, m)[n + 1] = m
      /\ \A k \in 1 .. n : Append(toWriter, m)[k] = toWriter[k]
  OBVIOUS
<1>2. /\ s \in [0 .. n -> Stages(image)] /\ \A k \in 1 .. n : Follows(image, s[k - 1], toWriter[k], s[k])
      /\ s[0] = [path |-> writer.path, left |-> Owed]
  BY DEF Whole
<1>3. Follows(image, s[n], m, e)
  OBVIOUS
<1> HIDE DEF n
<1>4. t \in [0 .. n + 1 -> Stages(image)] /\ t[n + 1] = e /\ \A k \in 0 .. n : t[k] = s[k]
  BY <1>1, <1>2
<1>5. ASSUME NEW k \in 1 .. n + 1 PROVE Follows(image, t[k - 1], toWriter'[k], t[k])
  <2>1. CASE k = n + 1
    <3>1. k - 1 = n /\ n \in 0 .. n
      BY <1>1, <2>1
    <3>2. t[n] = s[n] /\ toWriter'[n + 1] = m
      BY <1>1, <1>4, <3>1, Zenon
    <3> QED BY <1>3, <1>4, <2>1, <3>1, <3>2
  <2>2. CASE k # n + 1
    <3>1. k \in 1 .. n /\ k \in 0 .. n /\ k - 1 \in 0 .. n
      BY <1>1, <2>2
    <3>2. t[k] = s[k] /\ t[k - 1] = s[k - 1] /\ toWriter'[k] = toWriter[k]
      BY <1>1, <1>4, <3>1, Zenon
    <3> QED BY <1>2, <3>1, <3>2
  <2> QED BY <2>1, <2>2
<1> HIDE DEF t
<1>6. PICK u : u = t
  OBVIOUS
<1>7. Whole(u)'
  <2>1. Len(toWriter') = n + 1 /\ Owed' = Owed /\ 0 \in 0 .. n
    BY <1>1 DEF Owed
  <2>2. u[0] = s[0]
    BY <1>4, <1>6, <2>1
  <2>3. u \in [0 .. Len(toWriter') -> Stages(image')] /\ u[0] = [path |-> writer.path, left |-> Owed]'
    BY <1>2, <1>4, <1>6, <2>1, <2>2
  <2>4. \A k \in 1 .. Len(toWriter') : Follows(image', u[k - 1], toWriter'[k], u[k])
    BY <1>5, <1>6, <2>1
  <2>5. IF Sending' THEN u[Len(toWriter')] = [path |-> at, left |-> Len(rest)]' ELSE u[Len(toWriter')].left = 0
    BY <1>4, <1>6, <2>1
  <2> QED BY <2>3, <2>4, <2>5 DEF Whole
<1> QED BY <1>7 DEF InOrder


\* A step that leaves the queue and the writer alone.
LEMMA QueueSame ==
  ASSUME ScanTypes, WriterTypes, InOrder, Ending, Running,
         UNCHANGED <<image, toWriter, fromWriter, writer>>,
         pc' = "aborted" \/ ((Sending' <=> Sending) /\ (Sending => UNCHANGED <<at, rest>>)),
         pc' # "exited", pc' = "next" => pc = "next"
  PROVE  WriterTypes' /\ InOrder' /\ Ending'
<1>1. WriterTypes'
  BY DEF WriterTypes, Paths
<1>2. InOrder'
  <2>1. CASE pc' = "aborted"
    BY <2>1 DEF InOrder
  <2>2. CASE pc' # "aborted"
    <3>1. PICK s : Whole(s)
      BY DEF InOrder, Running
    <3>2. Owed' = Owed /\ IF Sending' THEN Sending /\ UNCHANGED <<at, rest>> ELSE ~Sending
      BY <2>2 DEF Owed
    <3> QED BY <3>1, <3>2, WholeSame
  <2> QED BY <2>1, <2>2
<1>3. Ending'
  BY DEF Ending, Sending
<1> QED BY <1>1, <1>2, <1>3

\* The main thread sends a message that is not the end.
LEMMA QueuePut ==
  ASSUME ScanTypes, WriterTypes, InOrder, Ending, Running, Len(toWriter) < WriterQueue,
         NEW m \in Messages, toWriter' = Append(toWriter, m), UNCHANGED <<image, fromWriter, writer>>,
         pc = "next" \/ Sending, pc' \in {"next", "get", "read", "give"}, m.type # "end",
         NEW e \in Stages(image),
         \A a \in Stages(image) : (IF Sending THEN a = [path |-> at, left |-> Len(rest)] ELSE a.left = 0) => Follows(image, a, m, e),
         IF Sending' THEN e = [path |-> at', left |-> Len(rest')] ELSE e.left = 0
  PROVE  WriterTypes' /\ InOrder' /\ Ending'
<1>1. /\ Append(toWriter, m) \in Seq(Messages) /\ Len(Append(toWriter, m)) = Len(toWriter) + 1
      /\ Append(toWriter, m)[Len(toWriter) + 1] = m /\ \A k \in 1 .. Len(toWriter) : Append(toWriter, m)[k] = toWriter[k]
      /\ Len(toWriter) \in Nat
  BY DEF WriterTypes
<1>2. WriterTypes'
  <2>1. Len(toWriter') <= WriterQueue /\ toWriter' \in Seq(Messages)
    BY <1>1, UnsquashAssumption
  <2> QED BY <2>1 DEF WriterTypes, Paths
<1>3. PICK s : Whole(s)
  BY DEF InOrder, Running
<1>4. s[Len(toWriter)] \in Stages(image)
  <2>1. Len(toWriter) \in 0 .. Len(toWriter)
    BY <1>1
  <2> QED BY <1>3, <2>1 DEF Whole
<1>5. Follows(image, s[Len(toWriter)], m, e)
  BY <1>3, <1>4 DEF Whole
<1>6. InOrder'
  BY <1>3, <1>5, WholeAppend DEF WriterTypes
<1>7. Ending'
  <2>1. ~fromWriter /\ \A n \in 1 .. Len(toWriter) : toWriter[n].type # "end"
    BY DEF Ending
  <2>2. \A n \in 1 .. Len(toWriter') : toWriter'[n].type # "end"
    <3> TAKE n \in 1 .. Len(toWriter')
    <3>1. n \in 1 .. Len(toWriter) \/ n = Len(toWriter) + 1
      BY <1>1
    <3> QED BY <1>1, <2>1, <3>1
  <2> QED BY <2>1, <2>2 DEF Ending
<1> QED BY <1>2, <1>6, <1>7

LEMMA QueueMain ==
  ASSUME ScanTypes, CacheTypes, WriterTypes, Scan, InOrder, Ending, Main
  PROVE  WriterTypes' /\ InOrder' /\ Ending'
<1>0. /\ Running /\ at \in 1 .. Len(image) + 1 /\ image \in Seq(Entries)
      /\ Len(image) \in Nat /\ Paths = 1 .. Len(image)
      /\ \A k \in Paths : image[k] \in Entries /\ image[k].pieces \in Seq(Pieces) /\ Len(image[k].pieces) \in Nat
  BY EntryFacts, NextRuns DEF Next, ScanTypes
<1>1. More => at \in Paths
  BY <1>0 DEF More
<1>2. CASE Link \/ Special \/ OpenFails
  <2>1. /\ UNCHANGED <<image, toWriter, fromWriter, writer>> /\ pc = "next" /\ pc' = "next"
    BY <1>2 DEF LinkTo, EntryFails, Link, Special, OpenFails, NextEntry
  <2> QED BY <1>0, <2>1, QueueSame DEF Sending
<1>3. CASE Open
  <2> DEFINE m == [type |-> "file", path |-> at]
             e == [path |-> at, left |-> Len(Entry.pieces)]
  <2>1. /\ pc = "next" /\ More /\ Len(toWriter) < WriterQueue /\ toWriter' = Append(toWriter, m)
        /\ UNCHANGED <<image, fromWriter, writer>> /\ rest' = Entry.pieces
        /\ IF Entry.pieces = <<>> THEN pc' = "next" ELSE pc' = "get" /\ at' = at
    BY <1>3 DEF Open, NextEntry
  <2>2. m \in Messages /\ m.type = "file" /\ m.path = at
    BY <1>0 DEF Messages
  <2>3. at \in DOMAIN image /\ Entry.pieces \in Seq(Pieces) /\ Len(Entry.pieces) \in Nat /\ at \in Nat
    BY <1>0, <1>1, <2>1 DEF Entry, Paths
  <2>4. e \in Stages(image)
    BY <2>3 DEF Stages, Entry
  <2>5. ASSUME NEW a \in Stages(image), a.left = 0 PROVE Follows(image, a, m, e)
    BY <2>2, <2>3, <2>5 DEF Follows, Entry
  <2>6. IF Sending' THEN e = [path |-> at', left |-> Len(rest')] ELSE e.left = 0
    BY <2>1, <2>3 DEF Sending
  <2> HIDE DEF m, e
  <2>7. ~Sending /\ m.type # "end" /\ pc' \in {"next", "get", "read", "give"}
    BY <2>1, <2>2 DEF Sending
  <2> QED BY <1>0, <2>1, <2>2, <2>4, <2>5, <2>6, <2>7, QueuePut
<1>4. CASE (\E b \in Buffers : GetHit(b)) \/ GetNew \/ GetSleep \/ PutToReader
  <2>1. /\ UNCHANGED <<image, toWriter, fromWriter, writer, at, rest>> /\ Sending /\ Sending'
        /\ pc' \notin {"exited", "next"}
    BY <1>4 DEF GetHit, GetNew, GetSleep, PutToReader, Getting, Sending, scanVars
  <2> QED BY <1>0, <2>1, QueueSame
<1>5. CASE Give
  <2> DEFINE m == [type |-> "piece", piece |-> Head(rest), buffer |-> buffer]
             e == [path |-> at, left |-> Len(rest) - 1]
  <2>1. /\ Sending /\ Len(toWriter) < WriterQueue /\ toWriter' = Append(toWriter, m)
        /\ UNCHANGED <<image, fromWriter, writer>> /\ rest' = Tail(rest)
        /\ IF Len(rest) = 1 THEN pc' = "next" ELSE pc' = "get" /\ at' = at
    BY <1>5 DEF Give, NextEntry, Sending
  <2>2. /\ rest[1] \in Pieces /\ Head(rest) = rest[1] /\ Len(rest) \in Nat \ {0} /\ Len(Tail(rest)) = Len(rest) - 1
        /\ rest[1] = Entry.pieces[Len(Entry.pieces) - Len(rest) + 1]
        /\ at \in Paths /\ Len(rest) <= Len(Entry.pieces)
    BY <2>1, RestFacts DEF Scan
  <2>3. m \in Messages /\ m.type = "piece" /\ m.piece = rest[1]
    BY <2>2 DEF Messages, ScanTypes
  <2>4. e \in Stages(image)
    <3>1. at \in DOMAIN image /\ at \in Nat /\ Len(rest) - 1 \in Nat /\ Len(image[at].pieces) \in Nat
          /\ Len(rest) <= Len(image[at].pieces)
      BY <1>0, <2>2 DEF Paths, Entry
    <3>2. Len(rest) - 1 <= Len(image[at].pieces)
      BY <2>2, <3>1
    <3> QED BY <3>1, <3>2 DEF Stages
  <2>5. Follows(image, [path |-> at, left |-> Len(rest)], m, e)
    BY <2>2, <2>3 DEF Follows, Entry
  <2>6. IF Sending' THEN e = [path |-> at', left |-> Len(rest')] ELSE e.left = 0
    BY <2>1, <2>2 DEF Sending
  <2> HIDE DEF m, e
  <2>7. m.type # "end" /\ pc' \in {"next", "get", "read", "give"}
    BY <2>1, <2>3
  <2> QED BY <1>0, <2>1, <2>3, <2>4, <2>5, <2>6, <2>7, QueuePut
<1>6. CASE SendEnd
  <2> DEFINE m == [type |-> "end"]
  <2>1. /\ pc = "next" /\ Len(toWriter) < WriterQueue /\ toWriter' = Append(toWriter, m) /\ pc' = "last"
        /\ UNCHANGED <<image, fromWriter, writer>>
    BY <1>6 DEF SendEnd, LastStep, scanVars
  <2>2. m \in Messages /\ m.type = "end"
    BY DEF Messages
  <2> HIDE DEF m
  <2>3. /\ Append(toWriter, m) \in Seq(Messages) /\ Len(Append(toWriter, m)) = Len(toWriter) + 1
        /\ Append(toWriter, m)[Len(toWriter) + 1] = m /\ \A k \in 1 .. Len(toWriter) : Append(toWriter, m)[k] = toWriter[k]
        /\ Len(toWriter) \in Nat
    BY <2>2 DEF WriterTypes
  <2>4. WriterTypes'
    <3>1. Len(toWriter') <= WriterQueue /\ toWriter' \in Seq(Messages)
      BY <2>1, <2>3, UnsquashAssumption
    <3> QED BY <2>1, <3>1 DEF WriterTypes, Paths
  <2>5. PICK s : Whole(s)
    BY <1>0 DEF InOrder, Running
  <2>6. s[Len(toWriter)] \in Stages(image) /\ s[Len(toWriter)].left = 0
    <3>1. Len(toWriter) \in 0 .. Len(toWriter) /\ ~Sending
      BY <2>1, <2>3 DEF Sending
    <3> QED BY <2>5, <3>1 DEF Whole
  <2>7. Follows(image, s[Len(toWriter)], m, s[Len(toWriter)]) /\ ~Sending'
    BY <2>1, <2>2, <2>6 DEF Follows, Sending
  <2>8. InOrder'
    BY <2>1, <2>2, <2>5, <2>6, <2>7, WholeAppend DEF WriterTypes
  <2>9. Ending'
    <3>1. ~fromWriter /\ \A n \in 1 .. Len(toWriter) : toWriter[n].type # "end"
      BY <2>1 DEF Ending
    <3>2. \A n \in 1 .. Len(toWriter') : toWriter'[n].type = "end" => n = Len(toWriter')
      <4> TAKE n \in 1 .. Len(toWriter')
      <4>1. n \in 1 .. Len(toWriter) \/ n = Len(toWriter) + 1
        BY <2>1, <2>3
      <4> QED BY <2>1, <2>3, <3>1, <4>1
    <3> QED BY <2>1, <3>1, <3>2 DEF Ending, Sending
  <2> QED BY <2>4, <2>8, <2>9
<1>7. CASE Exit
  <2>1. pc = "last" /\ pc' = "exited" /\ fromWriter /\ fromWriter' = FALSE
        /\ UNCHANGED <<image, toWriter, writer, at, rest>>
    BY <1>7 DEF Exit, scanVars
  <2>2. PICK s : Whole(s)
    BY <1>0 DEF InOrder, Running
  <2>3. InOrder'
    BY <2>1, <2>2, WholeSame DEF Owed, Sending
  <2>4. WriterTypes' /\ Ending'
    BY <2>1 DEF WriterTypes, Ending, Sending, Paths
  <2> QED BY <2>3, <2>4
<1> QED BY <1>2, <1>3, <1>4, <1>5, <1>6, <1>7 DEF Main

LEMMA QueueWriter ==
  ASSUME ScanTypes, WriterTypes, Scan, InOrder, Ending, Writer
  PROVE  WriterTypes' /\ InOrder' /\ Ending'
<1>0. /\ Running /\ toWriter \in Seq(Messages) /\ Len(toWriter) \in Nat
      /\ Len(image) \in Nat /\ Paths = 1 .. Len(image) /\ Paths = DOMAIN image
      /\ \A k \in Paths : image[k] \in Entries /\ image[k].pieces \in Seq(Pieces) /\ Len(image[k].pieces) \in Nat
  BY EntryFacts DEF Writer, WriterTypes, Paths
<1>1. PICK s : Whole(s)
  BY <1>0 DEF InOrder, Running
<1>2. ASSUME toWriter # <<>>
      PROVE  /\ toWriter[1] \in Messages /\ Head(toWriter) = toWriter[1] /\ s[1] \in Stages(image)
             /\ s[0] = [path |-> writer.path, left |-> Owed] /\ s[0] \in Stages(image)
             /\ Follows(image, s[0], toWriter[1], s[1])
             /\ Tail(toWriter) \in Seq(Messages) /\ Len(Tail(toWriter)) = Len(toWriter) - 1 /\ Len(toWriter) > 0
             /\ \A k \in 1 .. Len(toWriter) - 1 : k + 1 \in 1 .. Len(toWriter) /\ Tail(toWriter)[k] = toWriter[k + 1]
  <2>1. /\ Tail(toWriter) \in Seq(Messages) /\ Len(Tail(toWriter)) = Len(toWriter) - 1 /\ Len(toWriter) > 0
        /\ \A k \in 1 .. Len(toWriter) - 1 : k + 1 \in 1 .. Len(toWriter) /\ Tail(toWriter)[k] = toWriter[k + 1]
    BY <1>0, <1>2, TailFacts
  <2> QED BY <1>0, <1>1, <1>2, <2>1, WholeHead
\* What a shorter queue keeps.
<1>3. ASSUME toWriter # <<>>, toWriter' = Tail(toWriter), UNCHANGED <<pc, fromWriter>>,
             toWriter[1].type # "end"
      PROVE  /\ Ending' /\ toWriter' \in Seq(Messages) /\ Len(toWriter') <= WriterQueue
  <2>1. \A k \in 1 .. Len(toWriter') : k + 1 \in 1 .. Len(toWriter) /\ toWriter'[k] = toWriter[k + 1]
    BY <1>2, <1>3
  <2>2. toWriter' \in Seq(Messages) /\ Len(toWriter') = Len(toWriter) - 1 /\ Len(toWriter') <= WriterQueue
    BY <1>0, <1>2, <1>3, UnsquashAssumption DEF WriterTypes
  <2>3. \A n \in 1 .. Len(toWriter') : toWriter'[n].type = "end" => n = Len(toWriter')
    <3> SUFFICES ASSUME NEW n \in 1 .. Len(toWriter'), toWriter'[n].type = "end" PROVE n = Len(toWriter')
      OBVIOUS
    <3>1. n + 1 \in 1 .. Len(toWriter) /\ toWriter[n + 1].type = "end"
      BY <2>1
    <3>2. n + 1 = Len(toWriter)
      BY <3>1 DEF Ending
    <3> QED BY <1>0, <2>2, <3>2
  <2>4. ~fromWriter /\ pc # "exited"
    BY <1>0, <1>3 DEF Ending
  <2>5. pc = "next" \/ Sending => \A n \in 1 .. Len(toWriter') : toWriter'[n].type # "end"
    BY <2>1 DEF Ending
  <2> QED BY <1>3, <2>2, <2>3, <2>4, <2>5 DEF Ending, Sending
<1>4. CASE WriterFile
  <2>1. /\ writer.step = "idle" /\ toWriter # <<>> /\ Head(toWriter).type = "file" /\ toWriter' = Tail(toWriter)
        /\ writer' = [step |-> "file", path |-> Head(toWriter).path, left |-> Len(image[Head(toWriter).path].pieces),
                      hole |-> 0, failed |-> FALSE, piece |-> None, buffer |-> None]
        /\ UNCHANGED <<image, pc, at, rest, fromWriter>>
    BY <1>4 DEF WriterFile, Idle, scanVars
  <2>2. /\ Head(toWriter) = toWriter[1] /\ toWriter[1].path \in Paths
        /\ s[1] = [path |-> toWriter[1].path, left |-> Len(image[toWriter[1].path].pieces)]
    BY <1>0, <1>2, <2>1 DEF Follows
  <2>3. s[1] = [path |-> writer'.path, left |-> Owed']
    BY <2>1, <2>2 DEF Owed
  <2>4. InOrder'
    BY <1>0, <1>1, <2>1, <2>3, WholeTail
  <2>5. Ending' /\ toWriter' \in Seq(Messages) /\ Len(toWriter') <= WriterQueue
    BY <1>2, <1>3, <2>1, <2>2
  <2>6. writer'.path \in Paths /\ writer'.left \in Nat /\ writer'.path \in Nat
    BY <1>0, <2>1, <2>2
  <2>7. 0 \in -HalfInt .. HalfInt - 1
    BY HalfIntAssumption
  <2>8. writer' \in WriterStates
    BY <2>1, <2>6 DEF WriterStates, Hand
  <2>9. WriterTypes'
    BY <2>1, <2>5, <2>6, <2>7, <2>8 DEF WriterTypes, Paths
  <2> QED BY <2>4, <2>5, <2>9
<1>5. CASE WriterEnd
  <2>1. /\ writer.step = "idle" /\ toWriter # <<>> /\ Head(toWriter).type = "end" /\ toWriter' = Tail(toWriter)
        /\ fromWriter' = TRUE /\ UNCHANGED <<image, pc, at, rest, writer>>
    BY <1>5 DEF WriterEnd, scanVars
  <2>2. toWriter[1].type = "end" /\ 1 \in 1 .. Len(toWriter) /\ Len(toWriter) = 1
    <3>1. toWriter[1].type = "end" /\ 1 \in 1 .. Len(toWriter)
      BY <1>0, <1>2, <2>1
    <3> QED BY <3>1 DEF Ending
  <2>3. toWriter' = <<>> /\ Len(toWriter') = 0
    BY <1>2, <2>1, <2>2
  <2>4. pc # "next" /\ ~Sending
    BY <2>2 DEF Ending
  <2>5. WriterTypes'
    BY <2>1, <2>3, UnsquashAssumption DEF WriterTypes, Paths
  <2>6. Ending'
    BY <2>1, <2>3, <2>4 DEF Ending, Sending
  <2>7. InOrder'
    <3>1. writer \in WriterStates
      BY DEF WriterTypes
    <3>2. PICK p : p = writer.path /\ p \in Nat
      BY <3>1 DEF WriterStates
    <3> DEFINE t == [n \in 0 .. 0 |-> [path |-> p, left |-> 0]]
    <3>3. t \in [0 .. 0 -> Stages(image)] /\ t[0] = [path |-> p, left |-> 0]
      BY <3>2 DEF Stages
    <3> HIDE DEF t
    <3>4. Owed' = 0 /\ ~Sending'
      BY <2>1, <2>4 DEF Owed, Sending
    <3>5. PICK u : u = t
      OBVIOUS
    <3>6. Whole(u)'
      <4>1. u \in [0 .. Len(toWriter') -> Stages(image')] /\ u[0] = [path |-> writer'.path, left |-> Owed']
            /\ u[Len(toWriter')].left = 0
        <5>1. Len(toWriter') = 0 /\ image' = image
          BY <2>1, <2>3
        <5>2. u \in [0 .. 0 -> Stages(image)] /\ u[0] = [path |-> p, left |-> 0] /\ u[0].left = 0
          BY <3>3, <3>5
        <5>3. writer'.path = p
          BY <2>1, <3>2
        <5> QED BY <3>4, <5>1, <5>2, <5>3
      <4>2. 1 .. Len(toWriter') = {}
        BY <2>3
      <4> QED BY <3>4, <4>1, <4>2, Zenon DEF Whole
    <3> QED BY <3>6 DEF InOrder
  <2> QED BY <2>5, <2>6, <2>7
<1>6. CASE WriterTake
  <2> DEFINE m == toWriter[1]
             P == image[writer.path].pieces
  <2>1. /\ writer.step = "file" /\ writer.left > 0 /\ toWriter # <<>> /\ toWriter' = Tail(toWriter)
        /\ writer' = IF Head(toWriter).buffer = None
                     THEN [writer EXCEPT !.left = @ - 1, !.hole = Int32(@ + Head(toWriter).piece.size)]
                     ELSE [writer EXCEPT !.step = "block", !.piece = Head(toWriter).piece, !.buffer = Head(toWriter).buffer]
        /\ UNCHANGED <<image, pc, at, rest, fromWriter>>
    BY <1>6 DEF WriterTake, scanVars
  <2>2. writer \in WriterStates /\ writer.left \in Nat /\ writer.path \in Paths /\ Owed = writer.left
    BY <2>1 DEF WriterTypes, WriterStates, Owed
  <2>3. /\ m.type = "piece" /\ m.piece = P[Len(P) - writer.left + 1] /\ Head(toWriter) = m
        /\ s[1] = [path |-> writer.path, left |-> writer.left - 1] /\ writer.left <= Len(P)
    <3>1. /\ Head(toWriter) = toWriter[1] /\ Follows(image, s[0], toWriter[1], s[1]) /\ s[0] \in Stages(image)
          /\ s[0] = [path |-> writer.path, left |-> writer.left]
      BY <1>2, <2>1, <2>2
    <3>2. s[0].path = writer.path /\ s[0].left = writer.left /\ writer.left # 0
      BY <2>1, <2>2, <3>1
    <3>3. m.type = "piece" /\ m.piece = P[Len(P) - writer.left + 1] /\ s[1] = [path |-> writer.path, left |-> writer.left - 1]
      BY <3>1, <3>2, Zenon DEF Follows
    <3>4. writer.left <= Len(P)
      BY <2>1, <3>1, <3>2 DEF Stages
    <3> QED BY <3>1, <3>3, <3>4
  <2>4. m.piece \in Pieces /\ m.buffer \in Hand
    BY <1>2, <2>1, <2>3 DEF Messages
  <2>5. m.piece.size \in Nat
    BY <2>4 DEF Pieces
  <2> HIDE DEF m
  <2>6. Ending' /\ toWriter' \in Seq(Messages) /\ Len(toWriter') <= WriterQueue
    BY <1>3, <2>1, <2>3 DEF m
  <2>7. CASE m.buffer = None
    <3>1. writer.hole + m.piece.size \in Int
      BY <2>2, <2>5 DEF WriterStates
    <3>2. Int32(writer.hole + m.piece.size) \in -HalfInt .. HalfInt - 1
      BY <3>1, Int32Facts
    <3>3. PICK h \in -HalfInt .. HalfInt - 1 : h = Int32(writer.hole + m.piece.size)
      BY <3>2
    <3>4. writer' = [writer EXCEPT !.left = @ - 1, !.hole = h]
      BY <2>1, <2>3, <2>7, <3>3
    <3>5. writer' \in WriterStates /\ writer'.hole = h /\ writer'.path = writer.path /\ writer'.step = "file"
          /\ writer'.left = writer.left - 1 /\ writer'.buffer = writer.buffer
      <4>1. h \in Int /\ writer.left - 1 \in Nat
        BY <2>1, <2>2, <3>3, HalfIntAssumption
      <4> QED BY <2>1, <2>2, <3>4, <4>1 DEF WriterStates
    <3>6. s[1] = [path |-> writer'.path, left |-> Owed']
      BY <2>3, <3>5 DEF Owed
    <3>7. InOrder'
      BY <1>0, <1>1, <2>1, <3>6, WholeTail
    <3>8. WriterTypes'
      BY <2>1, <2>2, <2>6, <3>3, <3>5 DEF WriterTypes, Paths
    <3> QED BY <2>6, <3>7, <3>8
  <2>8. CASE m.buffer # None
    <3>1. writer' = [writer EXCEPT !.step = "block", !.piece = m.piece, !.buffer = m.buffer] /\ m.buffer \in Buffers
      BY <2>1, <2>3, <2>4, <2>8 DEF Hand
    <3>2. /\ writer' \in WriterStates /\ writer'.step = "block" /\ writer'.path = writer.path /\ writer'.left = writer.left
          /\ writer'.piece = m.piece /\ writer'.buffer = m.buffer /\ writer'.hole = writer.hole
      BY <2>2, <2>4, <3>1 DEF WriterStates, Hand
    <3>3. s[1] = [path |-> writer'.path, left |-> Owed']
      BY <2>3, <3>2 DEF Owed
    <3>4. InOrder'
      BY <1>0, <1>1, <2>1, <3>3, WholeTail
    <3>5. writer.left \in 1 .. Len(P)
      BY <1>0, <2>1, <2>2, <2>3
    <3>6. image' = image /\ Paths' = Paths
      BY <2>1 DEF Paths
    <3>7. WriterTypes'
      BY <2>1, <2>2, <2>3, <2>6, <3>1, <3>2, <3>5, <3>6 DEF WriterTypes
    <3> QED BY <2>6, <3>4, <3>7
  <2> QED BY <2>7, <2>8
<1>7. CASE WriterSleep
  <2>1. UNCHANGED <<image, toWriter, fromWriter, writer, at, rest, pc>>
    BY <1>7 DEF WriterSleep, scanVars
  <2> QED BY <1>0, <2>1, QueueSame DEF Running, Sending
<1>8. CASE WriterBlock
  <2>1. /\ writer.step = "block" /\ (\E failed \in BOOLEAN : writer' = AfterBlock(failed))
        /\ UNCHANGED <<image, at, rest, pc, toWriter, fromWriter>>
    BY <1>8 DEF WriterBlock, scanVars
  <2>2. writer \in WriterStates /\ writer.left \in Nat \ {0} /\ writer.path \in Paths
    BY <1>0, <2>1 DEF WriterTypes, WriterStates
  <2>3. PICK failed \in BOOLEAN : writer' = [writer EXCEPT !.step = "file", !.left = @ - 1, !.hole = 0, !.failed = failed,
                                                         !.piece = None, !.buffer = None]
    BY <2>1 DEF AfterBlock
  <2>4. /\ writer' \in WriterStates /\ writer'.step = "file" /\ writer'.left = writer.left - 1 /\ writer'.path = writer.path
        /\ writer'.hole = 0 /\ writer'.buffer = None
    <3>1. writer.left - 1 \in Nat
      BY <2>2
    <3>2. PICK l \in Nat : l = writer.left - 1
      BY <3>1
    <3>3. writer' = [writer EXCEPT !.step = "file", !.left = l, !.hole = 0, !.failed = failed, !.piece = None, !.buffer = None]
      BY <2>3, <3>2
    <3>4. PICK p \in Nat : p = writer.path
      BY <2>2 DEF WriterStates
    <3>5. writer' = [step |-> "file", path |-> p, left |-> l, hole |-> 0, failed |-> failed, piece |-> None, buffer |-> None]
      BY <2>2, <3>3, <3>4 DEF WriterStates
    <3>6. writer' \in WriterStates
      BY <3>5 DEF WriterStates, Hand
    <3> QED BY <3>2, <3>4, <3>5, <3>6
  <2>5. Owed' = Owed
    BY <2>1, <2>4 DEF Owed
  <2>6. InOrder'
    BY <1>1, <2>1, <2>4, <2>5, WholeSame DEF Sending
  <2>7. 0 \in -HalfInt .. HalfInt - 1
    BY HalfIntAssumption
  <2>8. WriterTypes'
    BY <2>1, <2>2, <2>4, <2>7 DEF WriterTypes, Paths
  <2>9. Ending'
    BY <2>1 DEF Ending, Sending
  <2> QED BY <2>6, <2>8, <2>9
<1>9. CASE WriterClose
  <2>1. /\ writer.step = "file" /\ writer.left = 0 /\ writer' = Idle
        /\ UNCHANGED <<image, at, rest, pc, toWriter, fromWriter>>
    BY <1>9 DEF WriterClose, scanVars
  <2>2. /\ writer'.step = "idle" /\ writer'.path = 0 /\ writer'.buffer = None /\ writer'.hole = 0
        /\ writer' \in WriterStates /\ Owed' = 0 /\ ~writer'.failed
    BY <2>1 DEF Idle, WriterStates, Hand, Owed
  <2>3. 0 \in -HalfInt .. HalfInt - 1
    BY HalfIntAssumption
  <2>4. WriterTypes'
    BY <2>1, <2>2, <2>3 DEF WriterTypes, Paths
  <2>5. Ending'
    BY <2>1, <2>2 DEF Ending, Sending
  <2>6. InOrder'
    <3> DEFINE n == Len(toWriter)
               t == [k \in 0 .. n |-> IF k = 0 THEN [path |-> 0, left |-> 0] ELSE s[k]]
    <3>1. /\ s \in [0 .. n -> Stages(image)] /\ s[0] = [path |-> writer.path, left |-> 0]
          /\ (\A k \in 1 .. n : Follows(image, s[k - 1], toWriter[k], s[k]))
          /\ IF Sending THEN s[n] = [path |-> at, left |-> Len(rest)] ELSE s[n].left = 0
      BY <1>1, <2>1 DEF Whole, Owed
    <3>2. [path |-> 0, left |-> 0] \in Stages(image)
      BY DEF Stages
    <3> HIDE DEF n
    <3>3. n \in Nat
      BY <1>0 DEF n
    <3>4. t \in [0 .. n -> Stages(image)] /\ t[0] = [path |-> 0, left |-> 0] /\ \A k \in 1 .. n : t[k] = s[k]
      BY <3>1, <3>2, <3>3
    <3> HIDE DEF t
    <3>5. ASSUME NEW k \in 1 .. n PROVE Follows(image, t[k - 1], toWriter[k], t[k])
      <4>1. CASE k = 1
        <5>1. k - 1 = 0 /\ t[k] = s[k] /\ Follows(image, s[k - 1], toWriter[k], s[k])
          BY <3>1, <3>4, <4>1
        <5>2. s[k - 1].left = 0 /\ t[k - 1].left = 0
          BY <3>1, <3>4, <5>1
        <5>3. \A a, b : a.left = 0 /\ b.left = 0 => (Follows(image, a, toWriter[k], t[k]) => Follows(image, b, toWriter[k], t[k]))
          BY DEF Follows
        <5> QED BY <5>1, <5>2, <5>3, Zenon
      <4>2. CASE k # 1
        <5>1. k - 1 \in 1 .. n
          BY <3>3, <4>2
        <5>2. t[k] = s[k] /\ t[k - 1] = s[k - 1] /\ Follows(image, s[k - 1], toWriter[k], s[k])
          BY <3>1, <3>4, <5>1
        <5> QED BY <5>2
      <4> QED BY <4>1, <4>2
    <3>6. IF Sending THEN t[n] = [path |-> at, left |-> Len(rest)] ELSE t[n].left = 0
      <4>1. CASE n = 0
        <5>1. s[n].left = 0 /\ t[n].left = 0
          BY <3>1, <3>4, <4>1
        <5>2. ~Sending
          <6> SUFFICES ASSUME Sending PROVE FALSE
            OBVIOUS
          <6>1. Len(rest) = 0
            BY <3>1, <5>1
          <6> QED BY <6>1, RestFacts
        <5> QED BY <5>1, <5>2
      <4>2. CASE n # 0
        <5>1. n \in 1 .. n
          BY <3>3, <4>2
        <5> QED BY <3>1, <3>4, <5>1
      <4> QED BY <4>1, <4>2
    <3>7. PICK u : u = t
      OBVIOUS
    <3>8. Whole(u)'
      <4>1. Len(toWriter') = n /\ (Sending' <=> Sending)
        BY <2>1 DEF n, Sending
      <4>2. u \in [0 .. Len(toWriter') -> Stages(image')] /\ u[0] = [path |-> writer'.path, left |-> Owed']
        BY <2>1, <2>2, <3>4, <3>7, <4>1
      <4>3. \A k \in 1 .. Len(toWriter') : Follows(image', u[k - 1], toWriter'[k], u[k])
        BY <2>1, <3>5, <3>7, <4>1
      <4>4. IF Sending' THEN u[Len(toWriter')] = [path |-> at', left |-> Len(rest')] ELSE u[Len(toWriter')].left = 0
        BY <2>1, <3>6, <3>7, <4>1
      <4> QED BY <4>2, <4>3, <4>4 DEF Whole
    <3> QED BY <3>8 DEF InOrder
  <2> QED BY <2>4, <2>5, <2>6
<1> QED BY <1>4, <1>5, <1>6, <1>7, <1>8, <1>9 DEF Writer

LEMMA QueueStep ==
  ASSUME ScanTypes, CacheTypes, WriterTypes, Scan, InOrder, Ending, Next
  PROVE  WriterTypes' /\ InOrder' /\ Ending'
<1>1. CASE Reader \/ \E d \in Deflators : Deflator(d)
  <2>1. UNCHANGED <<image, toWriter, fromWriter, writer, at, rest>> /\ (pc' = pc \/ pc' = "aborted") /\ Running
    BY <1>1 DEF Reader, Deflator, ReaderTake, Read, DeflatorTake, Inflate, Abort, scanVars
  <2> QED BY <2>1, QueueSame DEF Running, Sending
<1> QED BY <1>1, QueueMain, QueueWriter DEF Next


-----------------------------------------------------------------------------
(* The caches.                                                             *)

LEMMA KindFacts ==
  ASSUME NEW b \in Buffers
  PROVE  KindOf(b) \in Kinds /\ b \in Of(KindOf(b)) /\ b # None
BY UnsquashAssumption DEF KindOf, Kinds, Of

\* One buffer gets another content.
LEMMA SlotSet ==
  ASSUME cache \in [Buffers -> Slots], NEW b \in Buffers, NEW r \in Slots, cache' = [cache EXCEPT ![b] = r]
  PROVE  cache' \in [Buffers -> Slots] /\ cache'[b] = r /\ \A c \in Buffers : c # b => cache'[c] = cache[c]
OBVIOUS

LEMMA SlotFacts ==
  ASSUME NEW r \in Slots
  PROVE  /\ r.block \in Datas /\ r.used \in Nat /\ r.pending \in BOOLEAN /\ r.error \in BOOLEAN /\ r.data \in Datas
         /\ \A n \in Nat : [r EXCEPT !.used = n] \in Slots
         /\ \A x \in Datas : \A e \in BOOLEAN : [r EXCEPT !.pending = FALSE, !.error = e, !.data = x] \in Slots
         /\ \A x \in Datas : [r EXCEPT !.data = x] \in Slots
         /\ \A x \in Datas : [r EXCEPT !.block = x, !.used = 1, !.error = FALSE, !.pending = TRUE] \in Slots
BY DEF Slots

\* cache_get of a block that is there.
LEMMA HitFacts ==
  ASSUME CacheTypes, NEW b \in Buffers, Hit(b)
  PROVE  /\ cache' \in [Buffers -> Slots] /\ free' \in [Kinds -> Seq(Buffers)] /\ \A k \in Kinds : free'[k] \in Seq(Of(k))
         /\ cache'[b] = [cache[b] EXCEPT !.used = @ + 1] /\ \A c \in Buffers : c # b => cache'[c] = cache[c]
         /\ free'[KindOf(b)] = RemoveFirst(free[KindOf(b)], b)
         /\ \A k \in Kinds : k # KindOf(b) => free'[k] = free[k]
<1>1. KindOf(b) \in Kinds /\ b \in Of(KindOf(b))
  BY KindFacts
<1>2. cache[b] \in Slots /\ cache[b].used + 1 \in Nat
  <2>1. cache[b] \in Slots
    BY DEF CacheTypes
  <2>2. cache[b].used \in Nat
    BY <2>1, SlotFacts
  <2> QED BY <2>1, <2>2
<1>3. [cache[b] EXCEPT !.used = @ + 1] \in Slots
  <2>1. PICK n \in Nat : n = cache[b].used + 1
    BY <1>2
  <2>2. [cache[b] EXCEPT !.used = n] \in Slots
    BY <1>2, SlotFacts
  <2> QED BY <2>1, <2>2
<1>4. cache' \in [Buffers -> Slots] /\ cache'[b] = [cache[b] EXCEPT !.used = @ + 1]
      /\ \A c \in Buffers : c # b => cache'[c] = cache[c]
  BY <1>3, SlotSet DEF Hit, CacheTypes
<1>5. RemoveFirst(free[KindOf(b)], b) \in Seq(Buffers) /\ RemoveFirst(free[KindOf(b)], b) \in Seq(Of(KindOf(b)))
  <2>1. free[KindOf(b)] \in Seq(Buffers) /\ free[KindOf(b)] \in Seq(Of(KindOf(b)))
    BY <1>1 DEF CacheTypes
  <2> QED BY <1>1, <2>1, RemoveFacts
<1>6. free' = [free EXCEPT ![KindOf(b)] = RemoveFirst(free[KindOf(b)], b)] /\ free \in [Kinds -> Seq(Buffers)]
      /\ \A k \in Kinds : free[k] \in Seq(Of(k))
  BY DEF Hit, CacheTypes
<1>7. free' \in [Kinds -> Seq(Buffers)] /\ free'[KindOf(b)] = RemoveFirst(free[KindOf(b)], b)
      /\ \A k \in Kinds : k # KindOf(b) => free'[k] = free[k]
  BY <1>1, <1>5, <1>6
<1>8. \A k \in Kinds : free'[k] \in Seq(Of(k))
  BY <1>1, <1>5, <1>6, <1>7
<1> QED BY <1>4, <1>7, <1>8

\* cache_get that takes a buffer.
LEMMA TakeFacts ==
  ASSUME CacheTypes, NEW b \in Buffers, NEW x \in STRING, Take(b, x)
  PROVE  /\ cache' \in [Buffers -> Slots] /\ free' \in [Kinds -> Seq(Buffers)] /\ \A k \in Kinds : free'[k] \in Seq(Of(k))
         /\ cache'[b] = [cache[b] EXCEPT !.block = x, !.used = 1, !.error = FALSE, !.pending = TRUE]
         /\ \A c \in Buffers : c # b => cache'[c] = cache[c]
         /\ free'[KindOf(b)] = RemoveFirst(free[KindOf(b)], b)
         /\ \A k \in Kinds : k # KindOf(b) => free'[k] = free[k]
<1>1. KindOf(b) \in Kinds /\ b \in Of(KindOf(b))
  BY KindFacts
<1>2. cache[b] \in Slots /\ x \in Datas
  BY DEF CacheTypes, Datas
<1>3. [cache[b] EXCEPT !.block = x, !.used = 1, !.error = FALSE, !.pending = TRUE] \in Slots
  BY <1>2, SlotFacts
<1>4. cache' \in [Buffers -> Slots] /\ cache'[b] = [cache[b] EXCEPT !.block = x, !.used = 1, !.error = FALSE, !.pending = TRUE]
      /\ \A c \in Buffers : c # b => cache'[c] = cache[c]
  <2>1. cache' = [cache EXCEPT ![b] = [cache[b] EXCEPT !.block = x, !.used = 1, !.error = FALSE, !.pending = TRUE]]
    BY DEF Take, CacheTypes
  <2> QED BY <1>3, <2>1, SlotSet DEF CacheTypes
<1>5. RemoveFirst(free[KindOf(b)], b) \in Seq(Buffers) /\ RemoveFirst(free[KindOf(b)], b) \in Seq(Of(KindOf(b)))
  <2>1. free[KindOf(b)] \in Seq(Buffers) /\ free[KindOf(b)] \in Seq(Of(KindOf(b)))
    BY <1>1 DEF CacheTypes
  <2> QED BY <1>1, <2>1, RemoveFacts
<1>6. free' = [free EXCEPT ![KindOf(b)] = RemoveFirst(free[KindOf(b)], b)] /\ free \in [Kinds -> Seq(Buffers)]
      /\ \A k \in Kinds : free[k] \in Seq(Of(k))
  BY DEF Take, CacheTypes
<1>7. free' \in [Kinds -> Seq(Buffers)] /\ free'[KindOf(b)] = RemoveFirst(free[KindOf(b)], b)
      /\ \A k \in Kinds : k # KindOf(b) => free'[k] = free[k]
  BY <1>1, <1>5, <1>6
<1>8. \A k \in Kinds : free'[k] \in Seq(Of(k))
  BY <1>1, <1>5, <1>6, <1>7
<1> QED BY <1>4, <1>7, <1>8

\* cache_block_put of a buffer in use.
LEMMA PutBackFacts ==
  ASSUME CacheTypes, NEW b \in Buffers, cache[b].used > 0, PutBack(b)
  PROVE  /\ cache' \in [Buffers -> Slots] /\ free' \in [Kinds -> Seq(Buffers)] /\ \A k \in Kinds : free'[k] \in Seq(Of(k))
         /\ cache'[b] = [cache[b] EXCEPT !.used = @ - 1]
         /\ \A c \in Buffers : c # b => cache'[c] = cache[c]
         /\ free'[KindOf(b)] = IF cache[b].used = 1 THEN Append(free[KindOf(b)], b) ELSE free[KindOf(b)]
         /\ \A k \in Kinds : k # KindOf(b) => free'[k] = free[k]
         /\ waitFree' \subseteq waitFree /\ waitPending' = waitPending
<1>1. KindOf(b) \in Kinds /\ b \in Of(KindOf(b))
  BY KindFacts
<1>2. cache[b] \in Slots /\ cache[b].used - 1 \in Nat
  <2>1. cache[b] \in Slots
    BY DEF CacheTypes
  <2>2. cache[b].used \in Nat
    BY <2>1, SlotFacts
  <2> QED BY <2>1, <2>2
<1>3. [cache[b] EXCEPT !.used = @ - 1] \in Slots
  <2>1. PICK n \in Nat : n = cache[b].used - 1
    BY <1>2
  <2>2. [cache[b] EXCEPT !.used = n] \in Slots
    BY <1>2, SlotFacts
  <2> QED BY <2>1, <2>2
<1>4. cache' \in [Buffers -> Slots] /\ cache'[b] = [cache[b] EXCEPT !.used = @ - 1]
      /\ \A c \in Buffers : c # b => cache'[c] = cache[c]
  BY <1>3, SlotSet DEF PutBack, CacheTypes
<1>5. free \in [Kinds -> Seq(Buffers)] /\ free[KindOf(b)] \in Seq(Buffers) /\ free[KindOf(b)] \in Seq(Of(KindOf(b)))
      /\ \A k \in Kinds : free[k] \in Seq(Of(k))
  BY <1>1 DEF CacheTypes
<1>6. CASE cache[b].used = 1
  <2>1. free' = [free EXCEPT ![KindOf(b)] = Append(free[KindOf(b)], b)] /\ waitFree' \subseteq waitFree /\ waitPending' = waitPending
    BY <1>6 DEF PutBack
  <2>2. Append(free[KindOf(b)], b) \in Seq(Buffers) /\ Append(free[KindOf(b)], b) \in Seq(Of(KindOf(b)))
    BY <1>1, <1>5
  <2>3. free' \in [Kinds -> Seq(Buffers)] /\ free'[KindOf(b)] = Append(free[KindOf(b)], b)
        /\ \A k \in Kinds : k # KindOf(b) => free'[k] = free[k]
    BY <1>1, <1>5, <2>1, <2>2
  <2>4. \A k \in Kinds : free'[k] \in Seq(Of(k))
    BY <1>1, <1>5, <2>2, <2>3
  <2> QED BY <1>4, <1>6, <2>1, <2>3, <2>4
<1>7. CASE cache[b].used # 1
  <2>1. free' = free /\ waitFree' = waitFree /\ waitPending' = waitPending
    BY <1>7 DEF PutBack
  <2> QED BY <1>4, <1>5, <1>7, <2>1
<1> QED BY <1>6, <1>7

\* cache_block_ready.
LEMMA ReadyFacts ==
  ASSUME CacheTypes, NEW b \in Buffers, NEW x \in Datas, NEW e \in BOOLEAN, Ready(b, x, e)
  PROVE  /\ cache' \in [Buffers -> Slots] /\ UNCHANGED <<free, waitFree>> /\ waitPending' \subseteq waitPending
         /\ cache'[b] = [cache[b] EXCEPT !.pending = FALSE, !.error = e, !.data = x]
         /\ \A c \in Buffers : c # b => cache'[c] = cache[c]
<1>1. cache[b] \in Slots
  BY DEF CacheTypes
<1>2. [cache[b] EXCEPT !.pending = FALSE, !.error = e, !.data = x] \in Slots
  BY <1>1, SlotFacts
<1>3. cache' = [cache EXCEPT ![b] = [cache[b] EXCEPT !.pending = FALSE, !.error = e, !.data = x]]
      /\ UNCHANGED <<free, waitFree>> /\ waitPending' \subseteq waitPending
  BY DEF Ready, CacheTypes
<1> QED BY <1>2, <1>3, SlotSet DEF CacheTypes


\* All that CacheTypes is about.
CacheRest == <<cache, free, waitFree, waitPending, toReader, toDeflate, reader, deflator>>
LEMMA CacheTypesStep ==
  ASSUME ScanTypes, CacheTypes, WriterTypes, Scan, Next,
         writer.step = "block" => cache[writer.buffer].used > 0
  PROVE  CacheTypes'
<1>0. Cardinality(Buffers) \in Nat /\ Len(toReader) \in Nat /\ Len(toDeflate) \in Nat
  BY UnsquashAssumption, FS_CardinalityType DEF CacheTypes
<1>1. CASE UNCHANGED CacheRest
  BY <1>1 DEF CacheTypes, CacheRest
<1>2. ASSUME NEW b \in Buffers, GetHit(b)
      PROVE  CacheTypes'
  <2>1. Hit(b) /\ UNCHANGED <<waitFree, waitPending, toReader, toDeflate, reader, deflator>>
    BY <1>2 DEF GetHit
  <2>2. cache' \in [Buffers -> Slots] /\ free' \in [Kinds -> Seq(Buffers)] /\ \A k \in Kinds : free'[k] \in Seq(Of(k))
    BY <2>1, HitFacts
  <2> QED BY <2>1, <2>2 DEF CacheTypes
<1>3. CASE GetNew
  <2>1. /\ Getting /\ (Unused(Head(rest).kind) # {} \/ free[Head(rest).kind] # <<>>)
        /\ Take(New(Head(rest).kind), Head(rest).block)
        /\ UNCHANGED <<waitFree, waitPending, toReader, toDeflate, reader, deflator>>
    BY <1>3 DEF GetNew, New
  <2>2. New(Head(rest).kind) \in Buffers
    BY <2>1, NewFacts
  <2>3. Head(rest) \in Pieces
    BY <2>1, RestFacts DEF Getting, Sending
  <2>4. Head(rest).block \in STRING
    BY <2>3 DEF Pieces
  <2>5. cache' \in [Buffers -> Slots] /\ free' \in [Kinds -> Seq(Buffers)] /\ \A k \in Kinds : free'[k] \in Seq(Of(k))
    BY <2>1, <2>2, <2>4, TakeFacts
  <2> QED BY <2>1, <2>5 DEF CacheTypes
<1>4. CASE GetSleep
  <2>1. /\ Getting /\ waitFree' = waitFree \cup {Head(rest).kind}
        /\ UNCHANGED <<cache, free, waitPending, toReader, toDeflate, reader, deflator>>
    BY <1>4 DEF GetSleep
  <2>2. Head(rest) \in Pieces /\ Head(rest).kind # "hole"
    BY <2>1, RestFacts DEF Getting, Sending
  <2>3. Head(rest).kind \in Kinds
    BY <2>2 DEF Pieces
  <2> QED BY <2>1, <2>3 DEF CacheTypes
<1>5. CASE PutToReader
  <2>1. /\ pc = "read" /\ Len(toReader) < Cardinality(Buffers) /\ toReader' = Append(toReader, buffer)
        /\ UNCHANGED <<cache, free, waitFree, waitPending, toDeflate, reader, deflator>>
    BY <1>5 DEF PutToReader, cacheVars
  <2>2. toReader' \in Seq(Buffers) /\ Len(toReader') = Len(toReader) + 1
    BY <2>1 DEF CacheTypes, Scan
  <2>3. Len(toReader') <= Cardinality(Buffers)
    BY <1>0, <2>1, <2>2
  <2> QED BY <2>1, <2>2, <2>3 DEF CacheTypes
<1>6. CASE ReaderTake
  <2>1. /\ toReader # <<>> /\ reader' = Head(toReader) /\ toReader' = Tail(toReader)
        /\ UNCHANGED <<cache, free, waitFree, waitPending, toDeflate, deflator>>
    BY <1>6 DEF ReaderTake, cacheVars
  <2>2. Head(toReader) \in Buffers /\ Tail(toReader) \in Seq(Buffers) /\ Len(Tail(toReader)) = Len(toReader) - 1
    BY <2>1, TailFacts DEF CacheTypes
  <2>3. Len(toReader') <= Cardinality(Buffers)
    BY <1>0, <2>1, <2>2 DEF CacheTypes
  <2> QED BY <2>1, <2>2, <2>3 DEF CacheTypes, Hand
<1>7. CASE Read
  <2>1. reader \in Buffers /\ cache[reader] \in Slots
    BY <1>7 DEF Read, CacheTypes, Hand
  <2>2. cache[reader].block \in Datas /\ cache[reader].data \in Datas
    BY <2>1, SlotFacts
  <2>3. reader' = None /\ UNCHANGED <<toReader, deflator>>
    BY <1>7 DEF Read
  <2>4. CASE Len(toDeflate) < Cardinality(Buffers) /\ toDeflate' = Append(toDeflate, reader)
             /\ cache' = [cache EXCEPT ![reader].data = "compressed"] /\ UNCHANGED <<free, waitFree, waitPending>>
    <3>1. [cache[reader] EXCEPT !.data = "compressed"] \in Slots
      <4>1. "compressed" \in Datas
        BY DEF Datas
      <4> QED BY <2>1, <4>1, SlotFacts
    <3>2. cache' \in [Buffers -> Slots]
      BY <2>1, <2>4, <3>1, SlotSet DEF CacheTypes
    <3>3. toDeflate' \in Seq(Buffers) /\ Len(toDeflate') = Len(toDeflate) + 1
      BY <2>1, <2>4 DEF CacheTypes
    <3>4. Len(toDeflate') <= Cardinality(Buffers)
      BY <1>0, <2>4, <3>3
    <3> QED BY <2>3, <2>4, <3>2, <3>3, <3>4 DEF CacheTypes, Hand
  <2>5. CASE (\E x \in Datas : \E e \in BOOLEAN : Ready(reader, x, e)) /\ toDeflate' = toDeflate
    <3>1. PICK x \in Datas, e \in BOOLEAN : Ready(reader, x, e)
      BY <2>5
    <3>2. cache' \in [Buffers -> Slots] /\ UNCHANGED <<free, waitFree>> /\ waitPending' \subseteq waitPending
      BY <2>1, <3>1, ReadyFacts
    <3> QED BY <2>3, <2>5, <3>2 DEF CacheTypes, Hand
  <2>6. \/ /\ Len(toDeflate) < Cardinality(Buffers) /\ toDeflate' = Append(toDeflate, reader)
           /\ cache' = [cache EXCEPT ![reader].data = "compressed"] /\ UNCHANGED <<free, waitFree, waitPending>>
        \/ Ready(reader, cache[reader].block, FALSE) /\ toDeflate' = toDeflate
        \/ Ready(reader, cache[reader].data, TRUE) /\ toDeflate' = toDeflate
    BY <1>7, Zenon DEF Read
  <2>7. TRUE \in BOOLEAN /\ FALSE \in BOOLEAN
    OBVIOUS
  <2> QED BY <2>2, <2>4, <2>5, <2>6, <2>7, Zenon
<1>8. ASSUME NEW d \in Deflators, DeflatorTake(d)
      PROVE  CacheTypes'
  <2>1. /\ toDeflate # <<>> /\ deflator' = [deflator EXCEPT ![d] = Head(toDeflate)] /\ toDeflate' = Tail(toDeflate)
        /\ UNCHANGED <<cache, free, waitFree, waitPending, toReader, reader>>
    BY <1>8 DEF DeflatorTake, cacheVars
  <2>2. Head(toDeflate) \in Buffers /\ Tail(toDeflate) \in Seq(Buffers) /\ Len(Tail(toDeflate)) = Len(toDeflate) - 1
    BY <2>1, TailFacts DEF CacheTypes
  <2>3. Len(toDeflate') <= Cardinality(Buffers)
    BY <1>0, <2>1, <2>2 DEF CacheTypes
  <2>4. deflator' \in [Deflators -> Hand]
    BY <2>1, <2>2 DEF CacheTypes, Hand
  <2> QED BY <2>1, <2>2, <2>3, <2>4 DEF CacheTypes
<1>9. ASSUME NEW d \in Deflators, Inflate(d)
      PROVE  CacheTypes'
  <2>1. /\ deflator[d] \in Buffers /\ Ready(deflator[d], cache[deflator[d]].block, FALSE)
        /\ deflator' = [deflator EXCEPT ![d] = None] /\ UNCHANGED <<toReader, toDeflate, reader>>
    BY <1>9 DEF Inflate, CacheTypes, Hand
  <2>2. cache[deflator[d]] \in Slots
    BY <2>1 DEF CacheTypes
  <2>3. cache[deflator[d]].block \in Datas
    BY <2>2, SlotFacts
  <2>4. cache' \in [Buffers -> Slots] /\ UNCHANGED <<free, waitFree>> /\ waitPending' \subseteq waitPending
    BY <2>1, <2>3, ReadyFacts
  <2>5. deflator' \in [Deflators -> Hand]
    BY <2>1 DEF CacheTypes, Hand
  <2> QED BY <2>1, <2>4, <2>5 DEF CacheTypes
<1>10. CASE WriterSleep
  <2>1. /\ writer.step = "block" /\ waitPending' = waitPending \cup {KindOf(writer.buffer)}
        /\ UNCHANGED <<cache, free, waitFree, toReader, toDeflate, reader, deflator>>
    BY <1>10 DEF WriterSleep
  <2>2. KindOf(writer.buffer) \in Kinds
    BY <2>1, KindFacts DEF WriterTypes
  <2> QED BY <2>1, <2>2 DEF CacheTypes
<1>11. CASE WriterBlock
  <2>1. /\ writer.step = "block" /\ PutBack(writer.buffer) /\ UNCHANGED <<toReader, toDeflate, reader, deflator>>
    BY <1>11 DEF WriterBlock
  <2>2. writer.buffer \in Buffers /\ cache[writer.buffer].used > 0
    BY <2>1 DEF WriterTypes
  <2>3. /\ cache' \in [Buffers -> Slots] /\ free' \in [Kinds -> Seq(Buffers)] /\ (\A k \in Kinds : free'[k] \in Seq(Of(k)))
        /\ waitFree' \subseteq waitFree /\ waitPending' = waitPending
    BY <2>1, <2>2, PutBackFacts
  <2> QED BY <2>1, <2>3 DEF CacheTypes
<1>12. CASE Link \/ Special \/ Open \/ OpenFails \/ Give \/ SendEnd \/ Exit \/ WriterFile \/ WriterEnd \/ WriterTake \/ WriterClose
            \/ \E d \in Deflators : Abort(d)
  <2>1. UNCHANGED CacheRest
    BY <1>12 DEF LinkTo, EntryFails, Link, Special, Open, OpenFails, Give, SendEnd, Exit, WriterFile, WriterEnd, WriterTake, WriterClose, Abort,
                 CacheRest, cacheVars
  <2> QED BY <1>1, <2>1
<1> QED BY <1>2, <1>3, <1>4, <1>5, <1>6, <1>7, <1>8, <1>9, <1>10, <1>11, <1>12
        DEF Next, Main, Reader, Writer, Deflator


-----------------------------------------------------------------------------
(* The use counts.                                                         *)

LEMMA UsingType ==
  ASSUME CacheTypes, WriterTypes, NEW b \in Buffers
  PROVE  /\ cache[b].used \in Nat /\ CountIn(toWriter, With(b)) \in Nat /\ Free(b) \in Nat
         /\ Is(buffer, {b}) \in Nat /\ Is(writer.buffer, {b}) \in Nat /\ Using(b) \in Nat
<1>1. cache[b] \in Slots /\ toWriter \in Seq(Messages) /\ free[KindOf(b)] \in Seq(Buffers)
  BY KindFacts DEF CacheTypes, WriterTypes
<1>2. cache[b].used \in Nat
  BY <1>1, SlotFacts
<1>3. CountIn(toWriter, With(b)) \in Nat /\ CountIn(free[KindOf(b)], {b}) \in Nat
  BY <1>1, CountType
<1>4. Is(buffer, {b}) \in Nat /\ Is(writer.buffer, {b}) \in Nat
  BY DEF Is
<1> QED BY <1>2, <1>3, <1>4 DEF Free, Using

\* A buffer whose count changes, or whose users change, but not both ways.
LEMMA CountSame ==
  ASSUME CacheTypes, WriterTypes, NEW b \in Buffers, CountOf(b),
         cache'[b].used = cache[b].used, cache'[b].block = cache[b].block, Free(b)' = Free(b), Using(b)' = Using(b)
  PROVE  CountOf(b)'
BY DEF CountOf

\* Messages that go to the writer or come from its queue.
LEMMA UsingSent ==
  ASSUME WriterTypes, NEW b \in Buffers, NEW m \in Messages, toWriter' = Append(toWriter, m),
         writer'.buffer = writer.buffer, Is(buffer', {b}) + Is(m, With(b)) = Is(buffer, {b})
  PROVE  Using(b)' = Using(b)
<1>1. toWriter \in Seq(Messages)
  BY DEF WriterTypes
<1>2. CountIn(toWriter', With(b)) = CountIn(toWriter, With(b)) + Is(m, With(b))
  BY <1>1, CountAppend
<1>3. CountIn(toWriter, With(b)) \in Nat
  BY <1>1, CountType
<1>4. Is(m, With(b)) \in Nat /\ Is(buffer, {b}) \in Nat /\ Is(buffer', {b}) \in Nat /\ Is(writer.buffer, {b}) \in Nat
  BY DEF Is
<1>5. Is(writer'.buffer, {b}) = Is(writer.buffer, {b})
  OBVIOUS
<1>6. Using(b)' = CountIn(toWriter', With(b)) + Is(buffer', {b}) + Is(writer'.buffer, {b})
  BY DEF Using, With, Is, CountIn
<1> QED BY <1>2, <1>3, <1>4, <1>5, <1>6 DEF Using

LEMMA UsingTaken ==
  ASSUME WriterTypes, NEW b \in Buffers, toWriter # <<>>, toWriter' = Tail(toWriter), buffer' = buffer,
         Is(writer'.buffer, {b}) = Is(writer.buffer, {b}) + Is(Head(toWriter), With(b))
  PROVE  Using(b)' = Using(b)
<1>1. toWriter \in Seq(Messages)
  BY DEF WriterTypes
<1>2. CountIn(toWriter, With(b)) = CountIn(toWriter', With(b)) + Is(Head(toWriter), With(b))
      /\ CountIn(toWriter', With(b)) \in Nat
  BY <1>1, CountTail
<1>3. Is(Head(toWriter), With(b)) \in Nat /\ Is(buffer, {b}) \in Nat /\ Is(writer.buffer, {b}) \in Nat
  BY DEF Is
<1>4. Using(b)' = CountIn(toWriter', With(b)) + Is(buffer', {b}) + Is(writer'.buffer, {b})
  BY DEF Using, With, Is, CountIn
<1>5. Is(buffer', {b}) = Is(buffer, {b})
  OBVIOUS
<1> HIDE DEF Is
<1> QED BY <1>2, <1>3, <1>4, <1>5 DEF Using

\* A buffer that is taken away from the free list is there no more.
LEMMA FreeRemoved ==
  ASSUME CacheTypes, NEW b \in Buffers, CountOf(b), NEW c \in Buffers,
         free'[KindOf(c)] = RemoveFirst(free[KindOf(c)], c),
         \A k \in Kinds : k # KindOf(c) => free'[k] = free[k]
  PROVE  Free(b)' = IF b = c THEN 0 ELSE Free(b)
<1>1. KindOf(b) \in Kinds /\ KindOf(c) \in Kinds /\ free[KindOf(c)] \in Seq(Buffers) /\ free[KindOf(b)] \in Seq(Buffers)
  BY KindFacts DEF CacheTypes
<1>2. Free(b)' = CountIn(free'[KindOf(b)], {b}) /\ Free(b) = CountIn(free[KindOf(b)], {b})
  BY DEF Free, CountIn
<1>3. CASE KindOf(b) # KindOf(c)
  BY <1>1, <1>2, <1>3
<1>4. CASE KindOf(b) = KindOf(c)
  <2> DEFINE s == free[KindOf(c)]
             r == RemoveFirst(s, c)
  <2>1. r \in Seq(Buffers) /\ CountIn(s, {b}) = CountIn(r, {b}) + (IF CountIn(s, {c}) > 0 THEN Is(c, {b}) ELSE 0)
    <3>1. s \in Seq(Buffers) /\ c \in Buffers
      BY <1>1
    <3> HIDE DEF s
    <3>2. r \in Seq(Buffers) /\ \A S : CountIn(s, S) = CountIn(r, S) + (IF CountIn(s, {c}) > 0 THEN Is(c, S) ELSE 0)
      BY <3>1, RemoveFacts
    <3> HIDE DEF r
    <3> QED BY <3>2, Zenon
  <2>2. CountIn(s, {b}) \in Nat /\ CountIn(r, {b}) \in Nat
    BY <1>1, <2>1, CountType
  <2>3. Free(b)' = CountIn(r, {b}) /\ Free(b) = CountIn(s, {b}) /\ Free(b) \in {0, 1}
    BY <1>2, <1>4 DEF CountOf
  <2> HIDE DEF s, r
  <2>4. CASE b = c
    BY <2>1, <2>2, <2>3, <2>4 DEF Is
  <2>5. CASE b # c
    BY <2>1, <2>2, <2>3, <2>5 DEF Is
  <2> QED BY <2>4, <2>5
<1> QED BY <1>3, <1>4

LEMMA FreeSame ==
  ASSUME NEW b \in Buffers, free'[KindOf(b)] = free[KindOf(b)]
  PROVE  Free(b)' = Free(b)
BY DEF Free, CountIn


\* While it owes pieces, the writer gets a piece of its file.
LEMMA TakesPiece ==
  ASSUME ScanTypes, WriterTypes, InOrder, Running, WriterTake
  PROVE  /\ Head(toWriter) = toWriter[1] /\ toWriter[1] \in Messages /\ toWriter[1].type = "piece"
         /\ toWriter[1].piece \in Pieces /\ toWriter[1].buffer \in Hand
<1>1. toWriter # <<>> /\ writer.step = "file" /\ writer.left > 0 /\ toWriter \in Seq(Messages)
  BY DEF WriterTake, WriterTypes
<1>2. PICK s : Whole(s)
  BY DEF InOrder, Running
<1>3. /\ Head(toWriter) = toWriter[1] /\ toWriter[1] \in Messages
      /\ s[0] = [path |-> writer.path, left |-> writer.left] /\ Follows(image, s[0], toWriter[1], s[1])
  BY <1>1, <1>2, WholeHead DEF Owed
<1>4. s[0].left # 0
  BY <1>1, <1>3
<1>5. toWriter[1].type = "piece"
  BY <1>3, <1>4, Zenon DEF Follows
<1> QED BY <1>3, <1>5 DEF Messages

\* Nobody uses the buffer that cache_get takes.
LEMMA NewUnused ==
  ASSUME ScanTypes, CacheTypes, WriterTypes, Scan, Counts, Getting,
         Unused(Head(rest).kind) # {} \/ free[Head(rest).kind] # <<>>
  PROVE  cache[New(Head(rest).kind)].used = 0
<1> DEFINE c == New(Head(rest).kind)
<1>1. /\ c \in Buffers /\ KindOf(c) = Head(rest).kind /\ Head(rest).kind \in Kinds
      /\ IF Unused(Head(rest).kind) # {} THEN cache[c].block = None
         ELSE c = free[KindOf(c)][1] /\ 1 \in 1 .. Len(free[KindOf(c)])
  BY NewFacts
<1> HIDE DEF c
<1>2. CountOf(c) /\ cache[c].used \in Nat
  BY <1>1, UsingType DEF Counts
<1>3. CASE cache[c].block = None
  BY <1>2, <1>3 DEF CountOf, c
<1>4. CASE c = free[KindOf(c)][1] /\ 1 \in 1 .. Len(free[KindOf(c)])
  <2>1. free[KindOf(c)] \in Seq(Buffers)
    BY <1>1 DEF CacheTypes
  <2>2. CountIn(free[KindOf(c)], {c}) > 0
    BY <1>4, <2>1, CountSome
  <2> QED BY <1>2, <2>2 DEF CountOf, Free, c
<1> QED BY <1>1, <1>3, <1>4

LEMMA CountsStep ==
  ASSUME ScanTypes, CacheTypes, WriterTypes, Scan, InOrder, Counts, Next
  PROVE  Counts'
<1> USE DEF Counts
\* Nothing that is counted changes.
<1>1. ASSUME free' = free, UNCHANGED <<toWriter, buffer>>, writer'.buffer = writer.buffer,
             \A b \in Buffers : cache'[b].used = cache[b].used /\ cache'[b].block = cache[b].block
      PROVE  Counts'
  <2> TAKE b \in Buffers
  <2>1. CountOf(b) /\ Using(b)' = Using(b) /\ Free(b)' = Free(b)
    BY <1>1, FreeSame DEF Using, With, Is, CountIn
  <2> QED BY <1>1, <2>1, CountSame
<1>2. CASE Link \/ Special \/ OpenFails \/ GetSleep \/ PutToReader \/ Exit \/ ReaderTake \/ WriterSleep
           \/ \E d \in Deflators : DeflatorTake(d) \/ Abort(d)
  <2>1. UNCHANGED <<cache, free, toWriter, buffer, writer>>
    BY <1>2 DEF LinkTo, EntryFails, Link, Special, OpenFails, GetSleep, PutToReader, Exit, ReaderTake, WriterSleep, DeflatorTake, Abort,
                cacheVars, scanVars
  <2> QED BY <1>1, <2>1
<1>3. CASE WriterClose
  <2>1. UNCHANGED <<cache, free, toWriter, buffer>> /\ writer'.buffer = None /\ writer.buffer = None
    BY <1>3 DEF WriterClose, cacheVars, scanVars, Idle, WriterTypes
  <2> QED BY <1>1, <2>1
<1>4. CASE Read
  <2>1. reader \in Buffers /\ cache[reader] \in Slots /\ UNCHANGED <<toWriter, buffer, writer>>
    BY <1>4 DEF Read, CacheTypes, Hand, scanVars
  <2>2. /\ free' = free
        /\ \/ cache' = [cache EXCEPT ![reader].data = "compressed"]
           \/ \E x \in {cache[reader].block, cache[reader].data}, e \in BOOLEAN :
                cache' = [cache EXCEPT ![reader].pending = FALSE, ![reader].error = e, ![reader].data = x]
    BY <1>4 DEF Read, Ready
  <2>3. \A b \in Buffers : cache'[b].used = cache[b].used /\ cache'[b].block = cache[b].block
    <3>1. \A b \in Buffers : cache[b] \in Slots
      BY DEF CacheTypes
    <3>2. CASE cache' = [cache EXCEPT ![reader].data = "compressed"]
      BY <2>1, <3>1, <3>2 DEF CacheTypes, Slots
    <3>3. ASSUME NEW x, NEW e,
                 cache' = [cache EXCEPT ![reader].pending = FALSE, ![reader].error = e, ![reader].data = x]
          PROVE  \A b \in Buffers : cache'[b].used = cache[b].used /\ cache'[b].block = cache[b].block
      BY <2>1, <3>1, <3>3 DEF CacheTypes, Slots
    <3> QED BY <2>2, <3>2, <3>3
  <2> QED BY <1>1, <2>1, <2>2, <2>3
<1>5. ASSUME NEW d \in Deflators, Inflate(d) PROVE Counts'
  <2>1. /\ deflator[d] \in Buffers /\ free' = free /\ UNCHANGED <<toWriter, buffer, writer>>
        /\ cache' = [cache EXCEPT ![deflator[d]].pending = FALSE, ![deflator[d]].error = FALSE,
                                  ![deflator[d]].data = cache[deflator[d]].block]
    BY <1>5 DEF Inflate, Ready, CacheTypes, Hand, scanVars
  <2>2. \A b \in Buffers : cache'[b].used = cache[b].used /\ cache'[b].block = cache[b].block
    BY <2>1 DEF CacheTypes, Slots
  <2> QED BY <1>1, <2>1, <2>2
\* Messages move, with the buffers they have.
<1>6. ASSUME UNCHANGED <<cache, free>>, \A b \in Buffers : Using(b)' = Using(b)
      PROVE  Counts'
  <2> TAKE b \in Buffers
  <2> QED BY <1>6, CountSame, FreeSame
<1>7. CASE Open \/ SendEnd
  <2>1. PICK m \in Messages : m.type # "piece" /\ toWriter' = Append(toWriter, m)
    <3>1. CASE Open
      <4>1. at \in Nat
        BY EntryFacts DEF ScanTypes
      <4>2. toWriter' = Append(toWriter, [type |-> "file", path |-> at]) /\ [type |-> "file", path |-> at] \in Messages
        BY <3>1, <4>1 DEF Open, Messages
      <4> QED BY <4>2
    <3>2. CASE SendEnd
      BY <3>2 DEF SendEnd, Messages
    <3> QED BY <1>7, <3>1, <3>2
  <2>2. UNCHANGED <<cache, free, writer, buffer>>
    BY <1>7 DEF Open, SendEnd, cacheVars, scanVars
  <2>3. ASSUME NEW b \in Buffers PROVE Is(buffer', {b}) + Is(m, With(b)) = Is(buffer, {b})
    BY <2>1, <2>2 DEF Is, With
  <2> QED BY <1>6, <2>1, <2>2, <2>3, UsingSent
<1>8. CASE Give
  <2>1. /\ Sending /\ toWriter' = Append(toWriter, [type |-> "piece", piece |-> Head(rest), buffer |-> buffer])
        /\ buffer' = None /\ UNCHANGED <<cache, free, writer>>
    BY <1>8 DEF Give, Sending, cacheVars
  <2>2. Head(rest) \in Pieces /\ buffer \in Hand
    BY <2>1, RestFacts DEF ScanTypes
  <2>3. PICK m \in Messages : m.type = "piece" /\ m.buffer = buffer /\ toWriter' = Append(toWriter, m)
    BY <2>1, <2>2 DEF Messages
  <2>4. ASSUME NEW b \in Buffers PROVE Is(buffer', {b}) + Is(m, With(b)) = Is(buffer, {b})
    <3>1. b # None
      BY KindFacts
    <3> QED BY <2>1, <2>3, <3>1 DEF Is, With
  <2> QED BY <1>6, <2>1, <2>3, <2>4, UsingSent
<1>9. CASE WriterFile \/ WriterEnd
  <2>1. /\ toWriter # <<>> /\ toWriter' = Tail(toWriter) /\ Head(toWriter).type # "piece" /\ writer.buffer = None
        /\ writer'.buffer = None /\ UNCHANGED <<cache, free, buffer>>
    BY <1>9 DEF WriterFile, WriterEnd, Idle, WriterTypes, cacheVars, scanVars
  <2>2. ASSUME NEW b \in Buffers PROVE Is(writer'.buffer, {b}) = Is(writer.buffer, {b}) + Is(Head(toWriter), With(b))
    BY <2>1 DEF Is, With
  <2> QED BY <1>6, <2>1, <2>2, UsingTaken
<1>10. CASE WriterTake /\ Running
  <2>1. /\ toWriter # <<>> /\ toWriter' = Tail(toWriter) /\ writer.buffer = None
        /\ writer'.buffer = Head(toWriter).buffer /\ UNCHANGED <<cache, free, buffer>>
    BY <1>10 DEF WriterTake, WriterTypes, WriterStates, cacheVars, scanVars
  <2>2. Head(toWriter) \in Messages /\ Head(toWriter).type = "piece"
    BY <1>10, TakesPiece
  <2>3. ASSUME NEW b \in Buffers PROVE Is(writer'.buffer, {b}) = Is(writer.buffer, {b}) + Is(Head(toWriter), With(b))
    <3>1. b # None
      BY KindFacts
    <3> QED BY <2>1, <2>2, <3>1 DEF Is, With
  <2> QED BY <1>6, <2>1, <2>3, UsingTaken
\* cache_get and cache_block_put.
<1>11. ASSUME NEW c \in Buffers, GetHit(c) PROVE Counts'
  <2>1. /\ Getting /\ c \in Holding(Head(rest)) /\ Hit(c) /\ buffer' = c /\ UNCHANGED <<toWriter, writer>>
    BY <1>11 DEF GetHit
  <2>2. cache[c].block # None /\ buffer = None
    <3>1. Head(rest) \in Pieces
      BY <2>1, RestFacts DEF Getting, Sending
    <3> QED BY <2>1, <3>1, UnsquashAssumption DEF Holding, Pieces, Getting
  <2>3. /\ cache'[c] = [cache[c] EXCEPT !.used = @ + 1] /\ (\A b \in Buffers : b # c => cache'[b] = cache[b])
        /\ free'[KindOf(c)] = RemoveFirst(free[KindOf(c)], c)
        /\ \A k \in Kinds : k # KindOf(c) => free'[k] = free[k]
    BY <2>1, HitFacts
  <2>4. cache'[c].used = cache[c].used + 1 /\ cache'[c].block = cache[c].block
    BY <2>3 DEF CacheTypes, Slots
  <2> TAKE b \in Buffers
  <2>5. CountOf(b) /\ Free(b)' = IF b = c THEN 0 ELSE Free(b)
    BY <2>3, FreeRemoved
  <2>6. CountIn(toWriter, With(b))' = CountIn(toWriter, With(b)) /\ Is(writer.buffer, {b})' = Is(writer.buffer, {b})
        /\ Is(buffer, {b}) = 0 /\ Is(buffer, {b})' = IF b = c THEN 1 ELSE 0
    <3>1. b # None
      BY KindFacts
    <3> QED BY <2>1, <2>2, <3>1 DEF Is, With, CountIn
  <2>7. cache[b].used \in Nat /\ CountIn(toWriter, With(b)) \in Nat /\ Is(writer.buffer, {b}) \in Nat
    BY UsingType
  <2>8. Using(b)' = IF b = c THEN Using(b) + 1 ELSE Using(b)
    BY <2>6, <2>7 DEF Using
  <2>9. CASE b = c
    BY <2>2, <2>4, <2>5, <2>7, <2>8, <2>9 DEF CountOf
  <2>10. CASE b # c
    BY <2>3, <2>5, <2>8, <2>10 DEF CountOf
  <2> QED BY <2>9, <2>10
<1>12. CASE GetNew
  <2> DEFINE c == New(Head(rest).kind)
  <2>1. /\ Getting /\ (Unused(Head(rest).kind) # {} \/ free[Head(rest).kind] # <<>>)
        /\ Take(c, Head(rest).block) /\ buffer' = c /\ UNCHANGED <<toWriter, writer>>
    BY <1>12 DEF GetNew, New
  <2>2. Head(rest) \in Pieces /\ buffer = None
    BY <2>1, RestFacts DEF Getting, Sending
  <2>3. Head(rest).block \in STRING /\ Head(rest).block # None
    BY <2>2, UnsquashAssumption DEF Pieces
  <2>4. c \in Buffers
    BY <2>1, NewFacts
  <2> HIDE DEF c
  <2>5. cache[c].used = 0
    BY <2>1, NewUnused DEF c
  <2>6. /\ cache'[c] = [cache[c] EXCEPT !.block = Head(rest).block, !.used = 1, !.error = FALSE, !.pending = TRUE]
        /\ (\A b \in Buffers : b # c => cache'[b] = cache[b])
        /\ free'[KindOf(c)] = RemoveFirst(free[KindOf(c)], c)
        /\ \A k \in Kinds : k # KindOf(c) => free'[k] = free[k]
    BY <2>1, <2>3, <2>4, TakeFacts
  <2>7. cache'[c].used = 1 /\ cache'[c].block # None
    BY <2>3, <2>4, <2>6 DEF CacheTypes, Slots
  <2> TAKE b \in Buffers
  <2>8. CountOf(b) /\ Free(b)' = IF b = c THEN 0 ELSE Free(b)
    BY <2>4, <2>6, FreeRemoved
  <2>9. CountIn(toWriter, With(b))' = CountIn(toWriter, With(b)) /\ Is(writer.buffer, {b})' = Is(writer.buffer, {b})
        /\ Is(buffer, {b}) = 0 /\ Is(buffer, {b})' = IF b = c THEN 1 ELSE 0
    <3>1. b # None
      BY KindFacts
    <3> QED BY <2>1, <2>2, <3>1 DEF Is, With, CountIn
  <2>10. cache[b].used \in Nat /\ CountIn(toWriter, With(b)) \in Nat /\ Is(writer.buffer, {b}) \in Nat
    BY UsingType
  <2>11. Using(b)' = IF b = c THEN Using(b) + 1 ELSE Using(b)
    BY <2>9, <2>10 DEF Using
  <2>12. CASE b = c
    BY <2>5, <2>7, <2>8, <2>10, <2>11, <2>12 DEF CountOf
  <2>13. CASE b # c
    BY <2>6, <2>8, <2>11, <2>13 DEF CountOf
  <2> QED BY <2>12, <2>13
<1>13. CASE WriterBlock
  <2> DEFINE c == writer.buffer
  <2>1. /\ writer.step = "block" /\ PutBack(c) /\ writer'.buffer = None /\ UNCHANGED <<toWriter, buffer>>
    <3>1. writer.step = "block" /\ PutBack(c) /\ UNCHANGED <<toWriter, buffer>> /\ \E failed \in BOOLEAN : writer' = AfterBlock(failed)
      BY <1>13 DEF WriterBlock, scanVars
    <3>2. writer'.buffer = None
      BY <3>1 DEF AfterBlock, WriterTypes, WriterStates
    <3> QED BY <3>1, <3>2
  <2>2. c \in Buffers /\ c # None
    BY <2>1, KindFacts DEF WriterTypes
  <2>3. ASSUME NEW b \in Buffers
        PROVE  /\ CountIn(toWriter, With(b))' = CountIn(toWriter, With(b)) /\ Is(buffer, {b})' = Is(buffer, {b})
               /\ Is(writer.buffer, {b}) = (IF b = c THEN 1 ELSE 0) /\ Is(writer.buffer, {b})' = 0
    <3>1. b # None
      BY KindFacts
    <3> QED BY <2>1, <3>1 DEF Is, With, CountIn
  <2>4. ASSUME NEW b \in Buffers
        PROVE  /\ cache[b].used \in Nat /\ CountIn(toWriter, With(b)) \in Nat /\ Is(buffer, {b}) \in Nat /\ Free(b) \in Nat
               /\ CountOf(b)
    BY UsingType
  <2>5. cache[c].used > 0
    <3>1. cache[c].used = CountIn(toWriter, With(c)) + Is(buffer, {c}) + 1
      BY <2>2, <2>3, <2>4 DEF CountOf, Using
    <3> QED BY <2>2, <2>4, <3>1
  <2>6. /\ cache'[c] = [cache[c] EXCEPT !.used = @ - 1] /\ (\A b \in Buffers : b # c => cache'[b] = cache[b])
        /\ free'[KindOf(c)] = IF cache[c].used = 1 THEN Append(free[KindOf(c)], c) ELSE free[KindOf(c)]
        /\ \A k \in Kinds : k # KindOf(c) => free'[k] = free[k]
    BY <2>1, <2>2, <2>5, PutBackFacts
  <2>7. cache'[c].used = cache[c].used - 1 /\ cache'[c].block = cache[c].block
    BY <2>2, <2>6 DEF CacheTypes, Slots
  <2> HIDE DEF c
  <2> TAKE b \in Buffers
  <2>8. Using(b) = IF b = c THEN Using(b)' + 1 ELSE Using(b)'
    BY <2>3, <2>4 DEF Using
  <2>9. Free(b)' = Free(b) + (IF b = c /\ cache[c].used = 1 THEN 1 ELSE 0)
    <3>1. free[KindOf(b)] \in Seq(Buffers) /\ free[KindOf(c)] \in Seq(Buffers) /\ KindOf(b) \in Kinds
      BY <2>2, KindFacts DEF CacheTypes
    <3>2. CountIn(Append(free[KindOf(c)], c), {b}) = CountIn(free[KindOf(c)], {b}) + Is(c, {b})
      BY <2>2, <3>1, CountAppend
    <3>3. Free(b)' = CountIn(free'[KindOf(b)], {b}) /\ Free(b) = CountIn(free[KindOf(b)], {b}) /\ Free(b) \in Nat
      BY <2>4 DEF Free, CountIn
    <3>4. CASE KindOf(b) # KindOf(c)
      BY <2>6, <3>1, <3>3, <3>4
    <3>5. CASE KindOf(b) = KindOf(c) /\ cache[c].used = 1
      <4>1. free'[KindOf(b)] = Append(free[KindOf(c)], c)
        BY <2>6, <3>5
      <4>2. Free(b)' = Free(b) + Is(c, {b})
        BY <3>2, <3>3, <3>5, <4>1
      <4> QED BY <3>3, <3>5, <4>2 DEF Is
    <3>6. CASE KindOf(b) = KindOf(c) /\ cache[c].used # 1
      BY <2>6, <3>3, <3>6
    <3> QED BY <3>4, <3>5, <3>6
  <2>10. CASE b = c
    <3>1. /\ cache[b].used \in Nat /\ cache[b].used > 0 /\ cache[b].used = Using(b) /\ cache[b].block # None
          /\ Free(b) = 0
      <4>1. CountOf(b) /\ cache[b].used \in Nat /\ cache[b].used > 0
        BY <2>4, <2>5, <2>10
      <4>2. cache[b].used # 0
        BY <4>1
      <4> QED BY <4>1, <4>2, Zenon DEF CountOf
    <3>2. cache'[b].used = cache[b].used - 1 /\ cache'[b].block # None
      BY <2>7, <2>10, <3>1
    <3>3. Using(b)' = cache[b].used - 1
      <4>1. Using(b)' \in Nat
        <5>1. Using(b)' = CountIn(toWriter, With(b)) + Is(buffer, {b}) + 0
          BY <2>3 DEF Using
        <5> QED BY <2>4, <5>1
      <4> QED BY <2>8, <2>10, <3>1, <4>1
    <3>4. Free(b)' = IF cache[b].used = 1 THEN 1 ELSE 0
      BY <2>9, <2>10, <3>1
    <3> QED BY <3>1, <3>2, <3>3, <3>4 DEF CountOf
  <2>11. CASE b # c
    BY <2>4, <2>6, <2>8, <2>9, <2>11 DEF CountOf
  <2> QED BY <2>10, <2>11
<1> QED BY <1>2, <1>3, <1>4, <1>5, <1>7, <1>8, <1>9, <1>10, <1>11, <1>12, <1>13
        DEF Next, Main, Reader, Writer, Deflator


-----------------------------------------------------------------------------
(* Who fills a buffer.                                                     *)

LEMMA InHandsSet ==
  ASSUME NEW f \in [Deflators -> Hand], NEW d \in Deflators, NEW v \in Hand, NEW b
  PROVE  /\ InHands(f, b) \in Nat /\ InHands([f EXCEPT ![d] = v], b) \in Nat
         /\ InHands([f EXCEPT ![d] = v], b) + Is(f[d], {b}) = InHands(f, b) + Is(v, {b})
<1> DEFINE A == {e \in Deflators : f[e] = b}
           B == {e \in Deflators : [f EXCEPT ![d] = v][e] = b}
<1>1. IsFiniteSet(A) /\ IsFiniteSet(B)
  BY UnsquashAssumption, FS_Subset
<1>2. A \ {d} = B \ {d} /\ (d \in A <=> f[d] = b) /\ (d \in B <=> v = b)
  OBVIOUS
<1>3. InHands(f, b) = Cardinality(A) /\ InHands([f EXCEPT ![d] = v], b) = Cardinality(B)
  BY DEF InHands
<1> HIDE DEF A, B
<1>4. Cardinality(A) \in Nat /\ Cardinality(B) \in Nat
  BY <1>1, FS_CardinalityType
<1>5. Cardinality(A \ {d}) = (IF d \in A THEN Cardinality(A) - 1 ELSE Cardinality(A))
      /\ Cardinality(B \ {d}) = (IF d \in B THEN Cardinality(B) - 1 ELSE Cardinality(B))
  BY <1>1, FS_RemoveElement
<1>6. Is(f[d], {b}) = (IF d \in A THEN 1 ELSE 0) /\ Is(v, {b}) = (IF d \in B THEN 1 ELSE 0)
  BY <1>2 DEF Is
<1>7. Cardinality(A \ {d}) = Cardinality(B \ {d})
  BY <1>2
<1>8. Cardinality(B) + (IF d \in A THEN 1 ELSE 0) = Cardinality(A) + (IF d \in B THEN 1 ELSE 0)
  BY <1>4, <1>5, <1>7
<1> QED BY <1>3, <1>4, <1>6, <1>8

LEMMA FillsType ==
  ASSUME CacheTypes, NEW b \in Buffers
  PROVE  /\ Reading(b) \in Nat /\ Is(reader, {b}) \in Nat /\ CountIn(toReader, {b}) \in Nat
         /\ CountIn(toDeflate, {b}) \in Nat /\ InHands(deflator, b) \in Nat
<1>1. CountIn(toReader, {b}) \in Nat /\ CountIn(toDeflate, {b}) \in Nat
  BY CountType DEF CacheTypes
<1>2. InHands(deflator, b) \in Nat
  <2>1. IsFiniteSet({d \in Deflators : deflator[d] = b})
    BY UnsquashAssumption, FS_Subset
  <2> QED BY <2>1, FS_CardinalityType DEF InHands
<1> QED BY <1>1, <1>2 DEF Reading, Is

LEMMA PendingStep ==
  ASSUME ScanTypes, CacheTypes, WriterTypes, Scan, InOrder, Counts, Pending, Next
  PROVE  Pending'
<1> SUFFICES ASSUME Running' PROVE \A b \in Buffers : PendingOf(b)'
  BY DEF Pending
<1>0. \A b \in Buffers : PendingOf(b)
  BY NextRuns DEF Pending
<1>1. \A b \in Buffers : cache[b] \in Slots /\ cache[b].used \in Nat /\ cache[b].pending \in BOOLEAN
  BY SlotFacts DEF CacheTypes
\* No buffer goes from one place to another.
<1>2. ASSUME UNCHANGED <<toReader, toDeflate, reader, deflator>>, pc # "read" /\ pc' # "read",
             \A b \in Buffers : cache'[b].pending = cache[b].pending /\ (cache[b].pending => cache'[b].used > 0)
      PROVE  \A b \in Buffers : PendingOf(b)'
  <2> TAKE b \in Buffers
  <2>1. Fills(b)' = Fills(b)
    BY <1>2 DEF Fills, Reading, Is, CountIn, InHands
  <2> QED BY <1>0, <1>2, <2>1 DEF PendingOf
<1>3. ASSUME UNCHANGED <<toReader, toDeflate, reader, deflator>>, UNCHANGED <<pc, buffer>>,
             \A b \in Buffers : cache'[b].pending = cache[b].pending /\ (cache[b].pending => cache'[b].used > 0)
      PROVE  \A b \in Buffers : PendingOf(b)'
  <2> TAKE b \in Buffers
  <2>1. Fills(b)' = Fills(b)
    BY <1>3 DEF Fills, Reading, Is, CountIn, InHands
  <2> QED BY <1>0, <1>3, <2>1 DEF PendingOf
<1>4. CASE Link \/ Special \/ Open \/ OpenFails \/ Give \/ SendEnd
  <2>1. pc # "read" /\ pc' # "read" /\ UNCHANGED <<cache, toReader, toDeflate, reader, deflator>>
    BY <1>4 DEF LinkTo, EntryFails, Link, Special, Open, OpenFails, Give, SendEnd, NextEntry, LastStep, cacheVars
  <2> QED BY <1>0, <1>2, <2>1 DEF PendingOf
<1>5. CASE GetSleep \/ WriterFile \/ WriterEnd \/ WriterTake \/ WriterSleep \/ WriterClose
  <2>1. UNCHANGED <<cache, toReader, toDeflate, reader, deflator, pc, buffer>>
    BY <1>5 DEF GetSleep, WriterFile, WriterEnd, WriterTake, WriterSleep, WriterClose, cacheVars, scanVars
  <2> QED BY <1>0, <1>3, <2>1 DEF PendingOf
<1>6. CASE Exit \/ \E d \in Deflators : Abort(d)
  <2>1. ~Running'
    BY <1>6 DEF Exit, Abort, Running
  <2> QED BY <2>1
<1>7. ASSUME NEW c \in Buffers, GetHit(c) PROVE \A b \in Buffers : PendingOf(b)'
  <2>1. Hit(c) /\ pc = "get" /\ pc' = "give" /\ UNCHANGED <<toReader, toDeflate, reader, deflator>>
    BY <1>7 DEF GetHit, Getting
  <2>2. cache'[c] = [cache[c] EXCEPT !.used = @ + 1] /\ \A b \in Buffers : b # c => cache'[b] = cache[b]
    BY <2>1, HitFacts
  <2>3. cache'[c].used = cache[c].used + 1 /\ cache'[c].pending = cache[c].pending
    BY <1>1, <2>2 DEF Slots
  <2>4. cache'[c].used > 0
    BY <1>1, <2>3
  <2> QED BY <1>0, <1>2, <2>1, <2>2, <2>3, <2>4 DEF PendingOf
<1>8. CASE WriterBlock
  <2> DEFINE c == writer.buffer
  <2>1. /\ writer.step = "block" /\ c \in Buffers /\ ~cache[c].pending /\ PutBack(c)
        /\ UNCHANGED <<toReader, toDeflate, reader, deflator, pc, buffer>>
    BY <1>8 DEF WriterBlock, MustWait, WriterTypes, scanVars
  <2>2. cache' = [cache EXCEPT ![c].used = @ - 1]
    BY <2>1 DEF PutBack
  <2> HIDE DEF c
  <2>3. \A b \in Buffers : cache'[b].pending = cache[b].pending /\ (cache[b].pending => cache'[b].used > 0)
    <3> TAKE b \in Buffers
    <3>1. CASE b = c
      BY <1>1, <2>1, <2>2, <3>1 DEF CacheTypes, Slots
    <3>2. CASE b # c
      <4>1. cache'[b] = cache[b]
        BY <2>1, <2>2, <3>2 DEF CacheTypes
      <4> QED BY <1>0, <4>1 DEF PendingOf
    <3> QED BY <3>1, <3>2
  <2> QED BY <1>3, <2>1, <2>3
<1>9. CASE GetNew
  <2> DEFINE c == New(Head(rest).kind)
  <2>1. /\ Getting /\ (Unused(Head(rest).kind) # {} \/ free[Head(rest).kind] # <<>>)
        /\ Take(c, Head(rest).block) /\ buffer' = c /\ pc' = "read" /\ UNCHANGED <<toReader, toDeflate, reader, deflator>>
    BY <1>9 DEF GetNew, New
  <2>2. Head(rest) \in Pieces /\ pc = "get"
    BY <2>1, RestFacts DEF Getting, Sending
  <2>3. Head(rest).block \in STRING
    BY <2>2 DEF Pieces
  <2>4. c \in Buffers /\ cache[c].used = 0
    BY <2>1, NewFacts, NewUnused
  <2> HIDE DEF c
  <2>5. /\ cache'[c] = [cache[c] EXCEPT !.block = Head(rest).block, !.used = 1, !.error = FALSE, !.pending = TRUE]
        /\ \A b \in Buffers : b # c => cache'[b] = cache[b]
    <3>1. PICK x \in STRING : x = Head(rest).block
      BY <2>3
    <3>2. Take(c, x) /\ c \in Buffers
      BY <2>1, <2>4, <3>1
    <3>3. /\ cache'[c] = [cache[c] EXCEPT !.block = x, !.used = 1, !.error = FALSE, !.pending = TRUE]
          /\ \A b \in Buffers : b # c => cache'[b] = cache[b]
      BY <3>2, TakeFacts
    <3> QED BY <3>1, <3>3
  <2>6. cache'[c].used = 1 /\ cache'[c].pending = TRUE
    BY <1>1, <2>4, <2>5 DEF Slots
  <2>7. ~cache[c].pending
    BY <1>0, <2>4 DEF PendingOf
  <2> TAKE b \in Buffers
  <2>8. Reading(b) = 0 /\ Reading(b)' = (IF b = c THEN 1 ELSE 0) /\ Is(reader, {b})' = Is(reader, {b})
        /\ CountIn(toReader, {b})' = CountIn(toReader, {b}) /\ CountIn(toDeflate, {b})' = CountIn(toDeflate, {b})
        /\ InHands(deflator, b)' = InHands(deflator, b)
    BY <2>1, <2>2 DEF Reading, Is, CountIn, InHands
  <2>9. Fills(b)' = Fills(b) + (IF b = c THEN 1 ELSE 0)
    BY <2>8, FillsType DEF Fills
  <2>10. CASE b = c
    BY <1>0, <2>6, <2>7, <2>9, <2>10 DEF PendingOf
  <2>11. CASE b # c
    <3>1. Fills(b) \in Nat
      BY FillsType DEF Fills
    <3> QED BY <1>0, <2>5, <2>9, <2>11, <3>1 DEF PendingOf
  <2> QED BY <2>10, <2>11
\* A buffer goes to the next place.
<1>10. ASSUME \A b \in Buffers : Fills(b)' = Fills(b),
              \A b \in Buffers : cache'[b].pending = cache[b].pending /\ cache'[b].used = cache[b].used
       PROVE  \A b \in Buffers : PendingOf(b)'
  BY <1>0, <1>10 DEF PendingOf
<1>11. CASE PutToReader
  <2>1. /\ pc = "read" /\ pc' = "give" /\ toReader' = Append(toReader, buffer) /\ UNCHANGED <<cache, toDeflate, reader, deflator>>
        /\ buffer \in Buffers /\ toReader \in Seq(Buffers)
    BY <1>11 DEF PutToReader, cacheVars, Scan, CacheTypes
  <2>2. ASSUME NEW b \in Buffers PROVE Fills(b)' = Fills(b)
    <3>1. CountIn(toReader', {b}) = CountIn(toReader, {b}) + Is(buffer, {b})
      BY <2>1, CountAppend
    <3>2. Reading(b) = Is(buffer, {b}) /\ Reading(b)' = 0
      BY <2>1 DEF Reading, Is
    <3>3. CountIn(toReader, {b})' = CountIn(toReader', {b}) /\ Is(reader, {b})' = Is(reader, {b})
          /\ CountIn(toDeflate, {b})' = CountIn(toDeflate, {b}) /\ InHands(deflator, b)' = InHands(deflator, b)
      BY <2>1 DEF Is, CountIn, InHands
    <3> QED BY <3>1, <3>2, <3>3, FillsType DEF Fills
  <2> QED BY <1>10, <2>1, <2>2
<1>12. CASE ReaderTake
  <2>1. /\ toReader # <<>> /\ reader = None /\ reader' = Head(toReader) /\ toReader' = Tail(toReader)
        /\ UNCHANGED <<pc, buffer, cache, toDeflate, deflator>> /\ toReader \in Seq(Buffers)
    BY <1>12 DEF ReaderTake, cacheVars, scanVars, CacheTypes
  <2>2. ASSUME NEW b \in Buffers PROVE Fills(b)' = Fills(b)
    <3>1. CountIn(toReader, {b}) = CountIn(Tail(toReader), {b}) + Is(Head(toReader), {b}) /\ CountIn(Tail(toReader), {b}) \in Nat
      BY <2>1, CountTail
    <3>2. Is(reader, {b}) = 0 /\ Is(reader, {b})' = Is(Head(toReader), {b}) /\ Is(Head(toReader), {b}) \in Nat
      BY <2>1, KindFacts DEF Is
    <3>3. CountIn(toReader, {b})' = CountIn(Tail(toReader), {b}) /\ Reading(b)' = Reading(b)
          /\ CountIn(toDeflate, {b})' = CountIn(toDeflate, {b}) /\ InHands(deflator, b)' = InHands(deflator, b)
      BY <2>1 DEF Reading, CountIn, InHands
    <3> QED BY <3>1, <3>2, <3>3, FillsType DEF Fills
  <2> QED BY <1>10, <2>1, <2>2
<1>13. ASSUME NEW d \in Deflators, DeflatorTake(d) PROVE \A b \in Buffers : PendingOf(b)'
  <2>1. /\ toDeflate # <<>> /\ deflator[d] = None /\ deflator' = [deflator EXCEPT ![d] = Head(toDeflate)]
        /\ toDeflate' = Tail(toDeflate) /\ UNCHANGED <<pc, buffer, cache, toReader, reader>> /\ toDeflate \in Seq(Buffers)
        /\ deflator \in [Deflators -> Hand]
    BY <1>13 DEF DeflatorTake, cacheVars, scanVars, CacheTypes
  <2>2. ASSUME NEW b \in Buffers PROVE Fills(b)' = Fills(b)
    <3>1. CountIn(toDeflate, {b}) = CountIn(Tail(toDeflate), {b}) + Is(Head(toDeflate), {b}) /\ CountIn(Tail(toDeflate), {b}) \in Nat
      BY <2>1, CountTail
    <3>2. Head(toDeflate) \in Hand
      BY <2>1, TailFacts DEF Hand
    <3>3. InHands(deflator', b) + Is(deflator[d], {b}) = InHands(deflator, b) + Is(Head(toDeflate), {b}) /\ InHands(deflator', b) \in Nat
      BY <2>1, <3>2, InHandsSet
    <3>4. Is(deflator[d], {b}) = 0 /\ Is(Head(toDeflate), {b}) \in Nat
      BY <2>1, KindFacts DEF Is
    <3>5. CountIn(toDeflate, {b})' = CountIn(Tail(toDeflate), {b}) /\ Reading(b)' = Reading(b) /\ Is(reader, {b})' = Is(reader, {b})
          /\ CountIn(toReader, {b})' = CountIn(toReader, {b}) /\ InHands(deflator, b)' = InHands(deflator', b)
      BY <2>1 DEF Reading, CountIn, InHands, Is
    <3> QED BY <3>1, <3>3, <3>4, <3>5, FillsType DEF Fills
  <2> QED BY <1>10, <2>1, <2>2
\* A buffer is ready.
<1>14. ASSUME NEW c \in Buffers, ~cache'[c].pending, \A b \in Buffers : b # c => cache'[b] = cache[b],
              \A b \in Buffers : Fills(b)' \in Nat /\ Fills(b) = Fills(b)' + Is(c, {b})
       PROVE  \A b \in Buffers : PendingOf(b)'
  <2> TAKE b \in Buffers
  <2>1. Fills(b) = Fills(b)' + Is(c, {b}) /\ PendingOf(b) /\ Fills(b) \in Nat
    BY <1>0, <1>14, FillsType DEF Fills
  <2>3. Fills(b)' \in Nat
    BY <1>14
  <2>4. CASE b = c
    BY <1>14, <2>1, <2>3, <2>4 DEF PendingOf, Is
  <2>5. CASE b # c
    BY <1>14, <2>1, <2>3, <2>5 DEF PendingOf, Is
  <2> QED BY <2>4, <2>5
<1>15. CASE Read
  <2>1. /\ reader \in Buffers /\ cache[reader] \in Slots /\ reader' = None
        /\ UNCHANGED <<pc, buffer, toReader, deflator>> /\ toDeflate \in Seq(Buffers)
    BY <1>15 DEF Read, CacheTypes, Hand, scanVars
  <2>2. ASSUME NEW b \in Buffers
        PROVE  /\ Is(reader, {b})' = 0 /\ Reading(b)' = Reading(b) /\ CountIn(toReader, {b})' = CountIn(toReader, {b})
               /\ InHands(deflator, b)' = InHands(deflator, b)
    BY <2>1, KindFacts DEF Reading, CountIn, InHands, Is
  <2>3. CASE toDeflate' = Append(toDeflate, reader) /\ cache' = [cache EXCEPT ![reader].data = "compressed"]
    <3>1. ASSUME NEW b \in Buffers PROVE Fills(b)' = Fills(b)
      <4>1. CountIn(toDeflate, {b})' = CountIn(toDeflate, {b}) + Is(reader, {b})
        <5>1. CountIn(Append(toDeflate, reader), {b}) = CountIn(toDeflate, {b}) + Is(reader, {b})
          BY <2>1, CountAppend
        <5> QED BY <2>3, <5>1 DEF CountIn
      <4> QED BY <2>2, <4>1, FillsType DEF Fills
    <3>2. \A b \in Buffers : cache'[b].pending = cache[b].pending /\ cache'[b].used = cache[b].used
      BY <1>1, <2>1, <2>3 DEF CacheTypes, Slots
    <3> QED BY <1>10, <3>1, <3>2
  <2>4. CASE (\E x, e : Ready(reader, x, e)) /\ toDeflate' = toDeflate
    <3>1. PICK x, e : cache' = [cache EXCEPT ![reader].pending = FALSE, ![reader].error = e, ![reader].data = x]
      BY <2>4 DEF Ready
    <3>2. ~cache'[reader].pending /\ \A b \in Buffers : b # reader => cache'[b] = cache[b]
      BY <2>1, <3>1 DEF CacheTypes, Slots
    <3>3. ASSUME NEW b \in Buffers PROVE Fills(b)' \in Nat /\ Fills(b) = Fills(b)' + Is(reader, {b})
      <4>1. CountIn(toDeflate, {b})' = CountIn(toDeflate, {b})
        BY <2>4 DEF CountIn
      <4> QED BY <2>2, <4>1, FillsType DEF Fills
    <3> QED BY <1>14, <2>1, <3>2, <3>3
  <2>5. \/ toDeflate' = Append(toDeflate, reader) /\ cache' = [cache EXCEPT ![reader].data = "compressed"]
        \/ Ready(reader, cache[reader].block, FALSE) /\ toDeflate' = toDeflate
        \/ Ready(reader, cache[reader].data, TRUE) /\ toDeflate' = toDeflate
    BY <1>15, Zenon DEF Read
  <2> QED BY <2>3, <2>4, <2>5, Zenon
<1>16. ASSUME NEW d \in Deflators, Inflate(d) PROVE \A b \in Buffers : PendingOf(b)'
  <2> DEFINE c == deflator[d]
  <2>1. /\ c \in Buffers /\ Ready(c, cache[c].block, FALSE) /\ deflator' = [deflator EXCEPT ![d] = None]
        /\ deflator \in [Deflators -> Hand] /\ UNCHANGED <<pc, buffer, toReader, toDeflate, reader>>
    BY <1>16 DEF Inflate, CacheTypes, Hand, scanVars
  <2> HIDE DEF c
  <2>2. cache' = [cache EXCEPT ![c].pending = FALSE, ![c].error = FALSE, ![c].data = cache[c].block]
    BY <2>1 DEF Ready
  <2>3. ~cache'[c].pending /\ \A b \in Buffers : b # c => cache'[b] = cache[b]
    BY <1>1, <2>1, <2>2 DEF CacheTypes, Slots
  <2>4. ASSUME NEW b \in Buffers PROVE Fills(b)' \in Nat /\ Fills(b) = Fills(b)' + Is(c, {b})
    <3>1. InHands(deflator', b) + Is(deflator[d], {b}) = InHands(deflator, b) + Is(None, {b}) /\ InHands(deflator', b) \in Nat
      <4>1. None \in Hand
        BY DEF Hand
      <4> QED BY <2>1, <4>1, InHandsSet
    <3>2. Is(None, {b}) = 0 /\ Is(c, {b}) \in Nat /\ c = deflator[d]
      BY KindFacts DEF Is, c
    <3>3. CountIn(toDeflate, {b})' = CountIn(toDeflate, {b}) /\ Reading(b)' = Reading(b) /\ Is(reader, {b})' = Is(reader, {b})
          /\ CountIn(toReader, {b})' = CountIn(toReader, {b}) /\ InHands(deflator, b)' = InHands(deflator', b)
      BY <2>1 DEF Reading, CountIn, InHands, Is
    <3> QED BY <3>1, <3>2, <3>3, FillsType DEF Fills
  <2> QED BY <1>14, <2>1, <2>3, <2>4
<1> QED BY <1>4, <1>5, <1>6, <1>7, <1>8, <1>9, <1>11, <1>12, <1>13, <1>15, <1>16
        DEF Next, Main, Reader, Writer, Deflator

\* The writer uses the buffer it waits for.
LEMMA WriterUses ==
  ASSUME CacheTypes, WriterTypes, Counts
  PROVE  writer.step = "block" => cache[writer.buffer].used > 0
<1> SUFFICES ASSUME writer.step = "block" PROVE cache[writer.buffer].used > 0
  OBVIOUS
<1> DEFINE c == writer.buffer
<1>1. c \in Buffers
  BY DEF WriterTypes
<1>2. cache[c].used = CountIn(toWriter, With(c)) + Is(buffer, {c}) + Is(writer.buffer, {c})
  BY <1>1 DEF Counts, CountOf, Using
<1>3. Is(writer.buffer, {c}) = 1
  BY DEF Is
<1> HIDE DEF c
<1>4. CountIn(toWriter, With(c)) \in Nat /\ Is(buffer, {c}) \in Nat
  BY <1>1, UsingType
<1>5. cache[c].used > 0
  BY <1>2, <1>3, <1>4
<1> QED BY <1>5 DEF c


-----------------------------------------------------------------------------
(* Buffers and the blocks of the pieces they are for.                      *)

LEMMA CountAny ==
  ASSUME NEW T, NEW s \in Seq(T), NEW S, NEW k \in 1 .. Len(s), s[k] \in S
  PROVE  CountIn(s, S) > 0
<1> DEFINE A == {j \in 1 .. Len(s) : s[j] \in S}
<1>1. IsFiniteSet(A) /\ Cardinality(A) \in Nat
  BY CountType DEF CountIn
<1>2. k \in A
  OBVIOUS
<1>3. Cardinality(A) # 0
  BY <1>1, <1>2, FS_EmptySet
<1> QED BY <1>1, <1>3 DEF CountIn

\* A buffer for a piece is in use, so its block stays.
LEMMA InUse ==
  ASSUME CacheTypes, WriterTypes, Counts, NEW b \in Buffers,
         buffer = b \/ writer.buffer = b
           \/ \E n \in 1 .. Len(toWriter) : toWriter[n].type = "piece" /\ toWriter[n].buffer = b
  PROVE  cache[b].used > 0
<1>1. /\ cache[b].used = CountIn(toWriter, With(b)) + Is(buffer, {b}) + Is(writer.buffer, {b})
      /\ CountIn(toWriter, With(b)) \in Nat /\ Is(buffer, {b}) \in Nat /\ Is(writer.buffer, {b}) \in Nat
  BY UsingType DEF Counts, CountOf, Using
<1>2. CASE buffer = b
  <2>1. Is(buffer, {b}) = 1
    BY <1>2 DEF Is
  <2> QED BY <1>1, <2>1
<1>3. CASE writer.buffer = b
  <2>1. Is(writer.buffer, {b}) = 1
    BY <1>3 DEF Is
  <2> QED BY <1>1, <2>1
<1>4. CASE \E n \in 1 .. Len(toWriter) : toWriter[n].type = "piece" /\ toWriter[n].buffer = b
  <2>1. PICK n \in 1 .. Len(toWriter) : toWriter[n].type = "piece" /\ toWriter[n].buffer = b
    BY <1>4
  <2>2. toWriter \in Seq(Messages) /\ toWriter[n] \in Messages
    BY DEF WriterTypes
  <2>3. toWriter[n] \in With(b)
    BY <2>1, <2>2 DEF With
  <2>4. CountIn(toWriter, With(b)) > 0
    BY <2>2, <2>3, CountAny
  <2> QED BY <1>1, <2>4
<1> QED BY <1>2, <1>3, <1>4

LEMMA BlockKept ==
  ASSUME ScanTypes, CacheTypes, WriterTypes, Scan, Counts, Next
  PROVE  \A b \in Buffers : cache[b].used > 0 => cache'[b].block = cache[b].block
<1>1. \A b \in Buffers : cache[b] \in Slots
  BY DEF CacheTypes
<1>2. CASE \E c \in Buffers : GetHit(c)
  <2>1. PICK c \in Buffers : cache' = [cache EXCEPT ![c].used = @ + 1]
    BY <1>2 DEF GetHit, Hit
  <2> QED BY <1>1, <2>1 DEF CacheTypes, Slots
<1>3. CASE GetNew
  <2> DEFINE c == New(Head(rest).kind)
  <2>1. /\ Getting /\ (Unused(Head(rest).kind) # {} \/ free[Head(rest).kind] # <<>>)
        /\ Take(c, Head(rest).block)
    BY <1>3 DEF GetNew, New
  <2>2. c \in Buffers /\ cache[c].used = 0
    BY <2>1, NewFacts, NewUnused
  <2> HIDE DEF c
  <2>3. \A b \in Buffers : b # c => cache'[b] = cache[b]
    BY <2>1, <2>2 DEF Take, CacheTypes
  <2>4. ~(cache[c].used > 0)
    BY <2>2
  <2> QED BY <2>3, <2>4
<1>4. CASE Read
  <2>1. reader \in Buffers
    BY <1>4 DEF Read, CacheTypes, Hand
  <2>2. CASE cache' = [cache EXCEPT ![reader].data = "compressed"]
    BY <1>1, <2>1, <2>2 DEF CacheTypes, Slots
  <2>3. ASSUME NEW x, NEW e, Ready(reader, x, e)
        PROVE  \A b \in Buffers : cache[b].used > 0 => cache'[b].block = cache[b].block
    BY <1>1, <2>1, <2>3 DEF Ready, CacheTypes, Slots
  <2> QED BY <1>4, <2>2, <2>3, Zenon DEF Read
<1>5. CASE \E d \in Deflators : Inflate(d)
  <2>1. PICK d \in Deflators : Inflate(d)
    BY <1>5
  <2>2. PICK c \in Buffers : cache' = [cache EXCEPT ![c].pending = FALSE, ![c].error = FALSE, ![c].data = cache[c].block]
    BY <2>1 DEF Inflate, Ready, CacheTypes, Hand
  <2> QED BY <1>1, <2>2 DEF CacheTypes, Slots
<1>6. CASE WriterBlock
  <2>1. PICK c \in Buffers : cache' = [cache EXCEPT ![c].used = @ - 1]
    BY <1>6 DEF WriterBlock, PutBack, WriterTypes
  <2> QED BY <1>1, <2>1 DEF CacheTypes, Slots
<1>7. CASE Link \/ Special \/ Open \/ OpenFails \/ GetSleep \/ PutToReader \/ Give \/ SendEnd \/ Exit \/ ReaderTake
           \/ WriterFile \/ WriterEnd \/ WriterTake \/ WriterSleep \/ WriterClose \/ \E d \in Deflators : DeflatorTake(d) \/ Abort(d)
  <2>1. cache' = cache
    BY <1>7 DEF LinkTo, EntryFails, Link, Special, Open, OpenFails, GetSleep, PutToReader, Give, SendEnd, Exit, ReaderTake, WriterFile,
                WriterEnd, WriterTake, WriterSleep, WriterClose, DeflatorTake, Abort, cacheVars
  <2> QED BY <2>1
<1> QED BY <1>2, <1>3, <1>4, <1>5, <1>6, <1>7 DEF Next, Main, Reader, Writer, Deflator

\* What becomes of the queue in a step.
LEMMA QueueMoves ==
  ASSUME WriterTypes, Next
  PROVE  \/ toWriter' = toWriter
         \/ toWriter # <<>> /\ toWriter' = Tail(toWriter)
         \/ Open /\ toWriter' = Append(toWriter, [type |-> "file", path |-> at])
         \/ Give /\ toWriter' = Append(toWriter, [type |-> "piece", piece |-> Head(rest), buffer |-> buffer])
         \/ SendEnd /\ toWriter' = Append(toWriter, [type |-> "end"])
<1>1. CASE Link \/ Special \/ OpenFails \/ (\E b \in Buffers : GetHit(b)) \/ GetNew \/ GetSleep \/ PutToReader \/ Exit
           \/ ReaderTake \/ Read \/ WriterSleep \/ WriterBlock \/ WriterClose
           \/ \E d \in Deflators : DeflatorTake(d) \/ Inflate(d) \/ Abort(d)
  BY <1>1 DEF LinkTo, EntryFails, Link, Special, OpenFails, GetHit, GetNew, GetSleep, PutToReader, Exit, ReaderTake, Read, WriterSleep,
              WriterBlock, WriterClose, DeflatorTake, Inflate, Abort
<1>2. CASE Open \/ Give \/ SendEnd \/ WriterFile \/ WriterEnd \/ WriterTake
  BY <1>2 DEF Open, Give, SendEnd, WriterFile, WriterEnd, WriterTake
<1> QED BY <1>1, <1>2 DEF Next, Main, Reader, Writer, Deflator

LEMMA OwnedStep ==
  ASSUME ScanTypes, CacheTypes, WriterTypes, Scan, InOrder, Counts, Owned, Next
  PROVE  Owned'
<1>0. \A b \in Buffers : cache[b].used > 0 => cache'[b].block = cache[b].block
  BY BlockKept
<1>1. toWriter \in Seq(Messages) /\ Len(toWriter) \in Nat /\ \A n \in 1 .. Len(toWriter) : toWriter[n] \in Messages
  BY DEF WriterTypes
\* The messages in the queue.
<1>2. ASSUME NEW n \in 1 .. Len(toWriter) PROVE HasBlock(cache', toWriter[n])
  <2> DEFINE m == toWriter[n]
  <2> SUFFICES ASSUME m.type = "piece", m.buffer # None PROVE cache'[m.buffer].block = m.piece.block
    BY DEF HasBlock
  <2>1. m \in Messages /\ HasBlock(cache, m)
    BY <1>1 DEF Owned
  <2>2. m.buffer \in Buffers /\ cache[m.buffer].block = m.piece.block
    BY <2>1 DEF Messages, Hand, HasBlock
  <2>3. cache[m.buffer].used > 0
    BY <2>2, InUse
  <2> QED BY <1>0, <2>2, <2>3
<1>3. \A n \in 1 .. Len(toWriter') : HasBlock(cache', toWriter'[n])
  <2>1. CASE toWriter' = toWriter
    BY <1>2, <2>1
  <2>2. CASE toWriter # <<>> /\ toWriter' = Tail(toWriter)
    <3>1. \A k \in 1 .. Len(toWriter') : k + 1 \in 1 .. Len(toWriter) /\ toWriter'[k] = toWriter[k + 1]
      BY <1>1, <2>2, TailFacts
    <3> QED BY <1>2, <3>1
  <2>3. ASSUME NEW m, toWriter' = Append(toWriter, m), HasBlock(cache', m)
        PROVE  \A n \in 1 .. Len(toWriter') : HasBlock(cache', toWriter'[n])
    <3> TAKE n \in 1 .. Len(toWriter')
    <3>1. Len(toWriter') = Len(toWriter) + 1
      BY <1>1, <2>3
    <3>2. CASE n = Len(toWriter) + 1
      BY <1>1, <2>3, <3>2
    <3>3. CASE n # Len(toWriter) + 1
      <4>1. n \in 1 .. Len(toWriter)
        BY <1>1, <3>1, <3>3
      <4>2. toWriter'[n] = toWriter[n]
        BY <1>1, <2>3, <4>1
      <4> QED BY <1>2, <4>1, <4>2
    <3> QED BY <3>2, <3>3
  <2>4. CASE Give /\ toWriter' = Append(toWriter, [type |-> "piece", piece |-> Head(rest), buffer |-> buffer])
    <3>1. cache' = cache
      BY <2>4 DEF Give, cacheVars
    <3>2. HasBlock(cache', [type |-> "piece", piece |-> Head(rest), buffer |-> buffer])
      BY <3>1 DEF Owned, HasBlock
    <3> QED BY <2>3, <2>4, <3>2
  <2>5. HasBlock(cache', [type |-> "file", path |-> at]) /\ HasBlock(cache', [type |-> "end"])
    BY DEF HasBlock
  <2> QED BY <2>1, <2>2, <2>3, <2>4, <2>5, QueueMoves
\* The piece the writer has.
<1>4. writer'.buffer # None => cache'[writer'.buffer].block = writer'.piece.block
  <2>1. CASE writer' = writer
    <3> SUFFICES ASSUME writer.buffer # None PROVE cache'[writer.buffer].block = writer.piece.block
      BY <2>1
    <3>1. writer.buffer \in Buffers
      BY DEF WriterTypes
    <3>2. cache[writer.buffer].used > 0
      BY <3>1, InUse
    <3> QED BY <1>0, <3>1, <3>2 DEF Owned
  <2>2. CASE WriterTake
    <3>1. Running
      BY NextRuns
    <3>2. /\ Head(toWriter) = toWriter[1] /\ toWriter[1] \in Messages /\ toWriter[1].type = "piece"
      BY <2>2, <3>1, TakesPiece
    <3>3. 1 \in 1 .. Len(toWriter) /\ writer.buffer = None /\ writer \in WriterStates
      BY <1>1, <2>2, TailFacts DEF WriterTake, WriterTypes
    <3>4. HasBlock(cache', toWriter[1])
      BY <1>2, <3>3
    <3>5. writer'.buffer = None \/ (writer'.buffer = toWriter[1].buffer /\ writer'.piece = toWriter[1].piece)
      BY <2>2, <3>2, <3>3 DEF WriterTake, WriterStates
    <3>6. toWriter[1].buffer # None => cache'[toWriter[1].buffer].block = toWriter[1].piece.block
      BY <3>2, <3>4, Zenon DEF HasBlock
    <3>7. CASE writer'.buffer = None
      BY <3>7
    <3>8. CASE writer'.buffer = toWriter[1].buffer /\ writer'.piece = toWriter[1].piece
      <4>1. toWriter[1].buffer # None => cache'[writer'.buffer].block = writer'.piece.block
        BY <3>6, <3>8
      <4> QED BY <3>8, <4>1
    <3> QED BY <3>5, <3>7, <3>8
  <2>3. CASE WriterFile \/ WriterClose
    <3>1. writer'.buffer = None /\ ~writer'.failed
      BY <2>3, IdleFacts
    <3> QED BY <3>1
  <2>4. CASE WriterBlock
    <3>1. PICK failed : writer' = AfterBlock(failed)
      BY <2>4 DEF WriterBlock
    <3>2. writer'.buffer = None
      BY <3>1 DEF AfterBlock, WriterTypes, WriterStates
    <3> QED BY <3>2
  <2> QED BY <2>1, <2>2, <2>3, <2>4 DEF Next, Main, Reader, Writer, Deflator, LinkTo, EntryFails, Link, Special, Open, OpenFails, GetHit, GetNew,
             GetSleep, PutToReader, Give, SendEnd, Exit, ReaderTake, Read, DeflatorTake, Inflate, Abort, WriterEnd, WriterSleep
\* The buffer the main thread has.
<1>5. buffer' # None => cache'[buffer'].block = Head(rest').block
  <2>1. CASE UNCHANGED <<rest, buffer>>
    <3> SUFFICES ASSUME buffer # None PROVE cache'[buffer].block = Head(rest).block
      BY <2>1
    <3>1. buffer \in Buffers
      BY DEF ScanTypes, Hand
    <3>2. cache[buffer].used > 0
      BY <3>1, InUse
    <3> QED BY <1>0, <3>1, <3>2 DEF Owned
  <2>2. ASSUME NEW c \in Buffers, GetHit(c) PROVE cache'[buffer'].block = Head(rest').block
    <3>1. c \in Holding(Head(rest)) /\ Hit(c) /\ buffer' = c /\ rest' = rest
      BY <2>2 DEF GetHit
    <3>2. cache'[c].block = cache[c].block
      BY <3>1 DEF Hit, CacheTypes, Slots
    <3> QED BY <3>1, <3>2 DEF Holding
  <2>3. CASE GetNew
    <3> DEFINE c == New(Head(rest).kind)
    <3>1. /\ Getting /\ (Unused(Head(rest).kind) # {} \/ free[Head(rest).kind] # <<>>)
          /\ Take(c, Head(rest).block) /\ buffer' = c /\ rest' = rest
      BY <2>3 DEF GetNew, New
    <3>2. c \in Buffers
      BY <3>1, NewFacts
    <3> HIDE DEF c
    <3>3. cache'[c].block = Head(rest).block
      BY <3>1, <3>2 DEF Take, CacheTypes, Slots
    <3> QED BY <3>1, <3>3
  <2>4. CASE Give \/ Open
    BY <2>4 DEF Give, Open, Scan
  <2> QED BY <2>1, <2>2, <2>3, <2>4 DEF Next, Main, Reader, Writer, Deflator, LinkTo, EntryFails, Link, Special, OpenFails,
             GetSleep, PutToReader, SendEnd, Exit, ReaderTake, Read, DeflatorTake, Inflate, Abort, WriterFile, WriterEnd,
             WriterTake, WriterSleep, WriterBlock, WriterClose, scanVars
<1> QED BY <1>3, <1>4, <1>5 DEF Owned


\* A failure stays one.
LEMMA FailedKept ==
  ASSUME Next
  PROVE  /\ unread \subseteq unread' /\ unwritten \subseteq unwritten' /\ refused \subseteq refused'
         /\ complete \subseteq complete' /\ \A k : Failed(k) => Failed(k)'
<1>1. /\ unread \subseteq unread' /\ unwritten \subseteq unwritten' /\ refused \subseteq refused'
      /\ complete \subseteq complete'
  <2>1. CASE Link \/ Special \/ Open \/ OpenFails \/ (\E b \in Buffers : GetHit(b)) \/ GetNew \/ GetSleep \/ PutToReader \/ Give \/ SendEnd \/ Exit
    BY <2>1 DEF LinkTo, EntryFails, Link, Special, Open, OpenFails, GetHit, GetNew, GetSleep, PutToReader, Give, SendEnd, Exit, diskVars, failVars
  <2>2. CASE ReaderTake \/ Read \/ \E d \in Deflators : DeflatorTake(d) \/ Inflate(d) \/ Abort(d)
    BY <2>2 DEF ReaderTake, Read, DeflatorTake, Inflate, Abort, diskVars, failVars
  <2>3. CASE WriterFile \/ WriterEnd \/ WriterTake \/ WriterSleep \/ WriterBlock
    BY <2>3 DEF WriterFile, WriterEnd, WriterTake, WriterSleep, WriterBlock, diskVars, failVars
  <2>4. CASE WriterClose
    <3>1. unread' = unread /\ (complete' = complete \/ complete' = complete \cup {writer.path})
          /\ (refused' = refused \/ refused' = refused \cup {writer.path})
          /\ (unwritten' = unwritten \/ unwritten' = unwritten \cup {writer.path})
      BY <2>4 DEF WriterClose
    <3> QED BY <3>1
  <2> QED BY <2>1, <2>2, <2>3, <2>4 DEF Next, Main, Reader, Writer, Deflator
<1>2. image' = image
  BY ImageSame
<1> QED BY <1>1, <1>2 DEF Failed

LEMMA BlamedStep ==
  ASSUME ScanTypes, CacheTypes, WriterTypes, Scan, Counts, Owned, Blamed, Next
  PROVE  Blamed'
<1>0. (\A b \in Buffers : cache[b] \in Slots) /\ unread \subseteq unread' /\ \A b \in Buffers : cache[b].error => cache[b].block \in unread
  BY FailedKept DEF CacheTypes, Blamed
<1>1. \A b \in Buffers : cache'[b].error => cache'[b].block \in unread'
  <2>1. CASE UNCHANGED cache
    BY <1>0, <2>1
  <2>2. ASSUME NEW c \in Buffers, NEW n, cache' = [cache EXCEPT ![c].used = n]
        PROVE  \A b \in Buffers : cache'[b].error => cache'[b].block \in unread'
    <3>1. \A b \in Buffers : cache'[b].error = cache[b].error /\ cache'[b].block = cache[b].block
      BY <1>0, <2>2 DEF CacheTypes, Slots
    <3> QED BY <1>0, <3>1
  <2>3. CASE \E c \in Buffers : GetHit(c)
    <3>1. PICK c \in Buffers : cache' = [cache EXCEPT ![c].used = cache[c].used + 1]
      BY <2>3 DEF GetHit, Hit, CacheTypes
    <3> QED BY <2>2, <3>1
  <2>4. CASE WriterBlock
    <3>1. PICK c \in Buffers : cache' = [cache EXCEPT ![c].used = cache[c].used - 1]
      BY <2>4 DEF WriterBlock, PutBack, WriterTypes, CacheTypes
    <3> QED BY <2>2, <3>1
  <2>5. CASE GetNew
    <3> DEFINE c == New(Head(rest).kind)
    <3>1. /\ Getting /\ (Unused(Head(rest).kind) # {} \/ free[Head(rest).kind] # <<>>)
          /\ Take(c, Head(rest).block)
      BY <2>5 DEF GetNew, New
    <3>2. c \in Buffers
      BY <3>1, NewFacts
    <3> HIDE DEF c
    <3>3. ~cache'[c].error /\ \A b \in Buffers : b # c => cache'[b] = cache[b]
      BY <1>0, <3>1, <3>2 DEF Take, CacheTypes, Slots
    <3> QED BY <1>0, <3>3
  <2>6. CASE Read
    <3>1. reader \in Buffers /\ cache[reader] \in Slots
      BY <1>0, <2>6 DEF Read, CacheTypes, Hand
    <3>2. CASE cache' = [cache EXCEPT ![reader].data = "compressed"]
      <4>1. \A b \in Buffers : cache'[b].error = cache[b].error /\ cache'[b].block = cache[b].block
        BY <1>0, <3>1, <3>2 DEF CacheTypes, Slots
      <4> QED BY <1>0, <4>1
    <3>3. ASSUME NEW x, NEW e, Ready(reader, x, e), e => cache[reader].block \in unread'
          PROVE  \A b \in Buffers : cache'[b].error => cache'[b].block \in unread'
      <4>1. cache'[reader].error = e /\ cache'[reader].block = cache[reader].block /\ \A b \in Buffers : b # reader => cache'[b] = cache[b]
        BY <1>0, <3>1, <3>3 DEF Ready, CacheTypes, Slots
      <4> QED BY <1>0, <3>3, <4>1
    <3>4. \/ cache' = [cache EXCEPT ![reader].data = "compressed"]
          \/ Ready(reader, cache[reader].block, FALSE)
          \/ Ready(reader, cache[reader].data, TRUE) /\ cache[reader].block \in unread'
      BY <2>6 DEF Read
    <3> QED BY <3>2, <3>3, <3>4
  <2>7. CASE \E d \in Deflators : Inflate(d)
    <3>1. PICK d \in Deflators : Inflate(d)
      BY <2>7
    <3>2. PICK c \in Buffers : Ready(c, cache[c].block, FALSE)
      BY <3>1 DEF Inflate, CacheTypes, Hand
    <3>3. ~cache'[c].error /\ \A b \in Buffers : b # c => cache'[b] = cache[b]
      BY <1>0, <3>2 DEF Ready, CacheTypes, Slots
    <3> QED BY <1>0, <3>3
  <2> QED BY <2>1, <2>3, <2>4, <2>5, <2>6, <2>7 DEF Next, Main, Reader, Writer, Deflator, LinkTo, EntryFails, Link, Special, Open, OpenFails,
             GetSleep, PutToReader, Give, SendEnd, Exit, ReaderTake, DeflatorTake, Abort, WriterFile, WriterEnd,
             WriterTake, WriterSleep, WriterClose, cacheVars
<1> DEFINE Fails(k) == k \in unwritten' \/ \E n \in DOMAIN image[k].pieces : image[k].pieces[n].block \in unread'
<1>2. \A k : Failed(k) => Fails(k)
  BY <1>0, FailedKept DEF Failed
<1>3. writer'.failed => Fails(writer'.path)
  <2>1. CASE writer'.path = writer.path /\ writer'.failed = writer.failed
    BY <1>2, <2>1 DEF Blamed
  <2>2. CASE WriterTake
    <3>1. writer'.path = writer.path /\ writer'.failed = writer.failed
      BY <2>2 DEF WriterTake, WriterTypes, WriterStates
    <3> QED BY <2>1, <3>1
  <2>3. CASE WriterFile \/ WriterClose
    <3>1. writer'.buffer = None /\ ~writer'.failed
      BY <2>3, IdleFacts
    <3> QED BY <3>1
  <2>4. CASE WriterBlock
    <3>1. /\ writer.step = "block" /\ writer \in WriterStates /\ writer.path \in Paths /\ writer.buffer \in Buffers
          /\ writer.left \in 1 .. Len(image[writer.path].pieces)
          /\ writer.piece = image[writer.path].pieces[Len(image[writer.path].pieces) - writer.left + 1]
      BY <2>4 DEF WriterBlock, WriterTypes
    <3>2. \/ writer' = AfterBlock(TRUE) /\ (writer.failed \/ cache[writer.buffer].error)
          \/ writer' = AfterBlock(FALSE)
          \/ writer' = AfterBlock(TRUE) /\ writer.path \in unwritten'
      BY <2>4 DEF WriterBlock
    <3>3. \A failed \in BOOLEAN : AfterBlock(failed).path = writer.path /\ AfterBlock(failed).failed = failed
      BY <3>1 DEF AfterBlock, WriterStates
    <3>4. CASE writer.failed
      BY <1>2, <3>2, <3>3, <3>4 DEF Blamed
    <3>5. CASE cache[writer.buffer].error
      <4>1. writer.piece.block \in unread
        BY <1>0, <3>1, <3>5, KindFacts DEF Owned
      <4>2. image[writer.path].pieces \in Seq(Pieces) /\ Len(image[writer.path].pieces) \in Nat
        BY <3>1, EntryFacts
      <4>3. Len(image[writer.path].pieces) - writer.left + 1 \in DOMAIN image[writer.path].pieces
        BY <3>1, <4>2
      <4>4. Failed(writer.path)
        BY <3>1, <4>1, <4>3 DEF Failed
      <4> QED BY <1>2, <3>2, <3>3, <4>4
    <3>6. CASE writer.path \in unwritten'
      BY <3>2, <3>3, <3>6
    <3>7. CASE writer' = AfterBlock(FALSE)
      BY <3>3, <3>7
    <3> QED BY <3>2, <3>4, <3>5, <3>6, <3>7
  <2> QED BY <2>1, <2>2, <2>3, <2>4 DEF Next, Main, Reader, Writer, Deflator, LinkTo, EntryFails, Link, Special, Open, OpenFails, GetHit, GetNew,
             GetSleep, PutToReader, Give, SendEnd, Exit, ReaderTake, Read, DeflatorTake, Inflate, Abort, WriterEnd, WriterSleep
<1>4. (writer.failed => Failed(writer.path))'
  <2>1. image' = image
    BY ImageSame
  <2> QED BY <1>3, <2>1 DEF Failed
<1> QED BY <1>1, <1>4 DEF Blamed


-----------------------------------------------------------------------------
(* Every path is settled.                                                  *)

LEMMA FirstFacts ==
  ASSUME ScanTypes, NEW k \in Paths
  PROVE  /\ First(k) \in Paths /\ First(k) \in Nat \ {0} /\ First(k) <= k
         /\ image[First(k)].inode = image[k].inode
         /\ \A j \in Paths : image[j].inode = image[k].inode => First(k) <= j
<1> DEFINE S == {j \in Paths : image[j].inode = image[k].inode}
<1>1. Paths = 1 .. Len(image) /\ Len(image) \in Nat
  BY EntryFacts
<1>2. S \in SUBSET Nat /\ S # {}
  BY <1>1
<1> HIDE DEF S
<1>3. PICK m \in S : \A j \in S : m <= j
  BY <1>2, NatLeast
<1>4. m \in Paths /\ image[m].inode = image[k].inode /\ \A j \in Paths : image[j].inode = image[k].inode => m <= j
  BY <1>3 DEF S
<1>5. First(k) \in Paths /\ image[First(k)].inode = image[k].inode
      /\ \A j \in Paths : image[j].inode = image[First(k)].inode => First(k) <= j
  BY <1>4 DEF First
<1> QED BY <1>1, <1>5

LEMMA SameFirst ==
  ASSUME ScanTypes, NEW k \in Paths, NEW j \in Paths, image[j].inode = image[k].inode
  PROVE  First(j) = First(k)
<1>1. /\ First(k) \in Paths /\ First(j) \in Paths /\ First(k) \in Nat /\ First(j) \in Nat
      /\ image[First(k)].inode = image[j].inode /\ image[First(j)].inode = image[k].inode
  BY FirstFacts
<1>2. First(j) <= First(k) /\ First(k) <= First(j)
  BY <1>1, FirstFacts
<1> QED BY <1>1, <1>2

\* The inode of an entry is new when its path is the first of it.
LEMMA NewFirst ==
  ASSUME ScanTypes, Firsts, pc = "next", More
  PROVE  /\ at \in Paths /\ at \in Nat
         /\ created[Entry.inode] = 0 => First(at) = at
         /\ created[Entry.inode] # 0 => created[Entry.inode] = First(at) /\ First(at) < at
<1>1. at \in Paths /\ at \in Nat /\ Paths = 1 .. Len(image)
  BY EntryFacts DEF More, ScanTypes
<1>2. created[Entry.inode] = IF First(at) < at THEN First(at) ELSE 0
  BY <1>1 DEF Firsts, Taken, Sending, Entry
<1>3. First(at) \in Nat \ {0} /\ First(at) <= at
  BY <1>1, FirstFacts
<1> QED BY <1>1, <1>2, <1>3

LEMMA SentAppend ==
  ASSUME toWriter \in Seq(Messages), NEW m \in Messages, toWriter' = Append(toWriter, m)
  PROVE  FilesSent' = FilesSent \cup (IF m.type = "file" THEN {m.path} ELSE {})
<1> DEFINE F(s) == {s[n].path : n \in {j \in 1 .. Len(s) : s[j].type = "file"}}
           r == Append(toWriter, m)
<1>1. /\ Len(toWriter) \in Nat /\ Len(r) = Len(toWriter) + 1 /\ r[Len(toWriter) + 1] = m
      /\ \A n \in 1 .. Len(toWriter) : r[n] = toWriter[n]
  OBVIOUS
<1> HIDE DEF r
<1>2. \A n \in 1 .. Len(r) : n \in 1 .. Len(toWriter) \/ n = Len(toWriter) + 1
  BY <1>1
<1>3. Len(toWriter) + 1 \in 1 .. Len(r) /\ \A n \in 1 .. Len(toWriter) : n \in 1 .. Len(r)
  BY <1>1
<1>4. F(r) = F(toWriter) \cup (IF m.type = "file" THEN {m.path} ELSE {})
  <2>1. F(r) \subseteq F(toWriter) \cup (IF m.type = "file" THEN {m.path} ELSE {})
    BY <1>1, <1>2
  <2>2. F(toWriter) \subseteq F(r)
    BY <1>1, <1>3
  <2>3. m.type = "file" => m.path \in F(r)
    BY <1>1, <1>3
  <2> QED BY <2>1, <2>2, <2>3
<1>5. FilesSent' = F(r) /\ FilesSent = F(toWriter)
  BY DEF FilesSent, r
<1> QED BY <1>4, <1>5

LEMMA SentTail ==
  ASSUME toWriter \in Seq(Messages), toWriter # <<>>, toWriter' = Tail(toWriter)
  PROVE  /\ FilesSent' \subseteq FilesSent
         /\ \A f \in FilesSent : f \in FilesSent' \/ (Head(toWriter).type = "file" /\ Head(toWriter).path = f)
         /\ Head(toWriter).type = "file" => Head(toWriter).path \in FilesSent
<1>1. /\ Head(toWriter) = toWriter[1] /\ 1 \in 1 .. Len(toWriter) /\ Len(toWriter) \in Nat
      /\ Len(toWriter') = Len(toWriter) - 1
      /\ \A k \in 1 .. Len(toWriter') : k + 1 \in 1 .. Len(toWriter) /\ toWriter'[k] = toWriter[k + 1]
  BY TailFacts
<1>2. FilesSent' \subseteq FilesSent
  BY <1>1 DEF FilesSent
<1>3. ASSUME NEW n \in 1 .. Len(toWriter), toWriter[n].type = "file", n # 1
      PROVE  toWriter[n].path \in FilesSent'
  <2>1. n - 1 \in 1 .. Len(toWriter') /\ (n - 1) + 1 = n
    BY <1>1, <1>3
  <2>2. toWriter'[n - 1] = toWriter[(n - 1) + 1]
    BY <1>1, <2>1, Zenon
  <2> QED BY <1>3, <2>1, <2>2 DEF FilesSent
<1>4. \A f \in FilesSent : f \in FilesSent' \/ (Head(toWriter).type = "file" /\ Head(toWriter).path = f)
  BY <1>1, <1>3 DEF FilesSent
<1>5. Head(toWriter).type = "file" => Head(toWriter).path \in FilesSent
  BY <1>1 DEF FilesSent
<1> QED BY <1>2, <1>4, <1>5

\* The writer's file while it takes pieces and writes blocks.
LEMMA WriterMoves ==
  ASSUME WriterTypes
  PROVE  /\ WriterClose => writer'.step = "idle"
         /\ WriterTake \/ WriterBlock => writer'.path = writer.path /\ writer.step # "idle" /\ writer'.step # "idle"
<1>0. writer \in WriterStates
  BY DEF WriterTypes
<1>1. WriterClose => writer'.step = "idle"
  BY DEF WriterClose, Idle
<1>2. ASSUME WriterTake PROVE writer'.path = writer.path /\ writer.step # "idle" /\ writer'.step # "idle"
  <2>1. writer.step = "file" /\ \E l, h, p, b : writer' = [writer EXCEPT !.left = l, !.hole = h]
                                             \/ writer' = [writer EXCEPT !.step = "block", !.piece = p, !.buffer = b]
    BY <1>2 DEF WriterTake
  <2> QED BY <1>0, <2>1 DEF WriterStates
<1>3. ASSUME WriterBlock PROVE writer'.path = writer.path /\ writer.step # "idle" /\ writer'.step # "idle"
  <2>1. writer.step = "block" /\ \E failed : writer' = AfterBlock(failed)
    BY <1>3 DEF WriterBlock
  <2> QED BY <1>0, <2>1 DEF AfterBlock, WriterStates
<1> QED BY <1>1, <1>2, <1>3

LEMMA SentOpen ==
  ASSUME ScanTypes, WriterTypes, Open
  PROVE  FilesSent' = FilesSent \cup {at}
<1>1. toWriter \in Seq(Messages) /\ at \in Nat
  BY EntryFacts DEF WriterTypes, ScanTypes
<1>2. [type |-> "file", path |-> at] \in Messages /\ toWriter' = Append(toWriter, [type |-> "file", path |-> at])
  BY <1>1 DEF Messages, Open
<1> QED BY <1>1, <1>2, SentAppend

LEMMA SentFile ==
  ASSUME WriterTypes, WriterFile
  PROVE  /\ FilesSent' \subseteq FilesSent /\ Head(toWriter).path \in FilesSent
         /\ \A f \in FilesSent : f \in FilesSent' \/ Head(toWriter).path = f
BY SentTail DEF WriterTypes, WriterFile

LEMMA SentSame ==
  ASSUME ScanTypes, WriterTypes, Scan, InOrder, Next,
         toWriter' = toWriter \/ Give \/ SendEnd \/ WriterEnd \/ WriterTake
  PROVE  FilesSent' = FilesSent
<1>1. toWriter \in Seq(Messages)
  BY DEF WriterTypes
<1>2. CASE Give \/ SendEnd
  <2>1. PICK m \in Messages : m.type # "file" /\ toWriter' = Append(toWriter, m)
    <3>1. CASE Give
      <4>1. /\ Sending /\ toWriter' = Append(toWriter, [type |-> "piece", piece |-> Head(rest), buffer |-> buffer])
        BY <3>1 DEF Give, Sending
      <4>2. Head(rest) \in Pieces /\ buffer \in Hand
        BY <4>1, RestFacts DEF ScanTypes
      <4> QED BY <4>1, <4>2 DEF Messages
    <3>2. CASE SendEnd
      BY <3>2 DEF SendEnd, Messages
    <3> QED BY <1>2, <3>1, <3>2
  <2> QED BY <1>1, <2>1, SentAppend
<1>3. CASE WriterEnd \/ WriterTake
  <2>1. toWriter # <<>> /\ toWriter' = Tail(toWriter)
    BY <1>3 DEF WriterEnd, WriterTake
  <2>2. Head(toWriter).type # "file"
    BY <1>3, TakesPiece, NextRuns DEF WriterEnd
  <2> QED BY <1>1, <2>1, <2>2, SentTail
<1>4. CASE toWriter' = toWriter
  BY <1>4 DEF FilesSent
<1> QED BY <1>2, <1>3, <1>4

LEMMA FirstsStep ==
  ASSUME ScanTypes, CacheTypes, WriterTypes, Scan, InOrder, Firsts, Next
  PROVE  Firsts'
<1>0. /\ image' = image /\ Paths' = Paths /\ Paths = 1 .. Len(image) /\ Len(image) \in Nat /\ at \in 1 .. Len(image) + 1
      /\ Running /\ pc # "aborted" /\ (\A k : First(k)' = First(k))
  BY EntryFacts, ImageSame, NextRuns DEF ScanTypes, Running, First
<1> DEFINE Its == \A k \in Paths : created[image[k].inode] = IF Taken(First(k)) THEN First(k) ELSE 0
           Files == \A f \in FilesSent : f \in Paths /\ First(f) = f
           Mine == writer.step # "idle" => First(writer.path) = writer.path
<1>1. Its /\ Files /\ Mine
  BY <1>0 DEF Firsts
<1> SUFFICES (pc' # "aborted" => Its') /\ Files' /\ Mine'
  BY DEF Firsts
\* The scan stays where it is.
<1>2. ASSUME created' = created, \A k \in Paths : Taken(k)' <=> Taken(k)
      PROVE  Its'
  <2>1. \A k \in Paths : First(k) \in Paths
    BY FirstFacts
  <2> QED BY <1>0, <1>1, <1>2, <2>1
<1>3. CASE Link
  <2>1. /\ pc = "next" /\ More /\ created[Entry.inode] # 0 /\ pc' = "next" /\ at' = at + 1 /\ created' = created
        /\ UNCHANGED <<toWriter, writer>>
    BY <1>3 DEF LinkTo, EntryFails, Link, NextEntry
  <2>2. at \in Paths /\ at \in Nat /\ First(at) < at
    BY <2>1, NewFirst
  <2>3. Its'
    <3> SUFFICES ASSUME NEW k \in Paths PROVE Taken(First(k))' <=> Taken(First(k))
      BY <1>0, <1>1, <2>1
    <3>1. First(k) \in Paths /\ First(k) \in Nat /\ image[First(k)].inode = image[k].inode
      BY FirstFacts
    <3>2. First(k) # at
      <4>1. CASE First(k) = at
        <5>1. First(at) = First(k)
          BY <2>2, <3>1, <4>1, SameFirst
        <5> QED BY <2>2, <4>1, <5>1
      <4> QED BY <4>1
    <3> QED BY <1>0, <2>1, <2>2, <3>1, <3>2 DEF Taken, Sending
  <2>4. FilesSent' = FilesSent
    BY <2>1 DEF FilesSent
  <2> QED BY <1>0, <1>1, <2>1, <2>3, <2>4
\* A new inode.
<1>4. ASSUME pc = "next", More, created[Entry.inode] = 0, Created,
             NextEntry \/ (pc' = "get" /\ at' = at), pc' # "exited"
      PROVE  Its' /\ at \in Paths /\ First(at) = at
  <2>1. at \in Paths /\ at \in Nat /\ First(at) = at
    BY <1>4, NewFirst
  <2>2. created' = [created EXCEPT ![image[at].inode] = at] /\ created \in [{image[k].inode : k \in Paths} -> Paths \cup {0}]
    BY <1>4 DEF Created, Entry, ScanTypes
  <2> SUFFICES ASSUME NEW k \in Paths
               PROVE  created'[image[k].inode] = IF Taken(First(k))' THEN First(k) ELSE 0
    BY <1>0, <2>1
  <2>3. First(k) \in Paths /\ First(k) \in Nat /\ image[First(k)].inode = image[k].inode
    BY FirstFacts
  <2>4. CASE image[k].inode = image[at].inode
    <3>1. First(k) = at
      BY <2>1, <2>4, SameFirst
    <3>2. created'[image[k].inode] = at
      BY <2>1, <2>2, <2>4
    <3>3. Taken(First(k))'
      BY <1>0, <1>4, <2>1, <3>1 DEF Taken, Sending, NextEntry
    <3> QED BY <3>1, <3>2, <3>3
  <2>5. CASE image[k].inode # image[at].inode
    <3>1. First(k) # at
      BY <2>3, <2>5
    <3>2. created'[image[k].inode] = created[image[k].inode]
      BY <2>1, <2>2, <2>5
    <3>3. Taken(First(k))' <=> Taken(First(k))
      BY <1>0, <1>4, <2>1, <2>3, <3>1 DEF Taken, Sending, NextEntry
    <3> QED BY <1>1, <3>2, <3>3
  <2> QED BY <2>4, <2>5
<1>5. CASE Special \/ OpenFails
  <2>1. /\ pc = "next" /\ More /\ created[Entry.inode] = 0 /\ Created /\ NextEntry /\ UNCHANGED <<toWriter, writer>>
    BY <1>5 DEF EntryFails, Special, OpenFails
  <2>2. pc' # "exited"
    BY <2>1 DEF NextEntry
  <2>3. Its'
    BY <1>4, <2>1, <2>2
  <2>4. FilesSent' = FilesSent
    BY <2>1 DEF FilesSent
  <2> QED BY <1>0, <1>1, <2>1, <2>3, <2>4
<1>6. CASE Open
  <2>1. /\ pc = "next" /\ More /\ created[Entry.inode] = 0 /\ Created /\ (NextEntry \/ (pc' = "get" /\ at' = at))
        /\ pc' # "exited" /\ writer' = writer
    BY <1>6 DEF Open, NextEntry
  <2>2. Its' /\ at \in Paths /\ First(at) = at
    BY <1>4, <2>1
  <2>3. FilesSent' = FilesSent \cup {at}
    BY <1>6, SentOpen
  <2> QED BY <1>0, <1>1, <2>1, <2>2, <2>3
<1>7. CASE Give \/ SendEnd \/ Exit
  <2>1. \A k \in Paths : Taken(k)' <=> Taken(k)
    <3>1. CASE Give
      <4>1. Sending /\ at \in Paths
        BY <3>1 DEF Give, Sending, Scan
      <4>2. (pc' = "next" /\ at' = at + 1) \/ (pc' = "get" /\ at' = at)
        BY <3>1 DEF Give, NextEntry
      <4> QED BY <1>0, <4>1, <4>2 DEF Taken, Sending
    <3>2. CASE SendEnd
      BY <1>0, <3>2 DEF SendEnd, LastStep, Taken, Sending, scanVars
    <3>3. CASE Exit
      BY <1>0, <3>3 DEF Exit, Taken, Sending, scanVars
    <3> QED BY <1>7, <3>1, <3>2, <3>3
  <2>2. created' = created /\ writer' = writer /\ FilesSent' = FilesSent
    BY <1>7, SentSame DEF Give, SendEnd, Exit, scanVars
  <2> QED BY <1>0, <1>1, <1>2, <2>1, <2>2
\* The other threads do not move it.
<1>8. ASSUME UNCHANGED <<at, created>>, pc' = "aborted" \/ pc' = pc \/ (Sending /\ Sending')
      PROVE  pc' # "aborted" => Its'
  <2> SUFFICES ASSUME pc' # "aborted" PROVE Its'
    OBVIOUS
  <2>1. \A k \in Paths : Taken(k)' <=> Taken(k)
    BY <1>8 DEF Taken, Sending
  <2> QED BY <1>2, <1>8, <2>1
<1>9. CASE WriterFile
  <2>1. UNCHANGED <<at, created, pc>> /\ writer'.path = Head(toWriter).path
    <3>1. UNCHANGED <<at, created, pc>> /\ \E l : writer' = [Idle EXCEPT !.step = "file", !.path = Head(toWriter).path, !.left = l]
      BY <1>9 DEF WriterFile, scanVars
    <3> QED BY <3>1 DEF Idle
  <2>2. FilesSent' \subseteq FilesSent /\ Head(toWriter).path \in FilesSent
    BY <1>9, SentFile
  <2> QED BY <1>0, <1>1, <1>8, <2>1, <2>2
<1>10. CASE (\E b \in Buffers : GetHit(b)) \/ GetNew \/ GetSleep \/ PutToReader \/ ReaderTake \/ Read
            \/ (\E d \in Deflators : DeflatorTake(d) \/ Inflate(d) \/ Abort(d))
            \/ WriterEnd \/ WriterTake \/ WriterSleep \/ WriterBlock \/ WriterClose
  <2>1. UNCHANGED <<at, created>>
    BY <1>10 DEF GetHit, GetNew, GetSleep, PutToReader, ReaderTake, Read, DeflatorTake, Inflate, Abort, WriterEnd,
                 WriterTake, WriterSleep, WriterBlock, WriterClose, scanVars
  <2>2. pc' = "aborted" \/ pc' = pc \/ (Sending /\ Sending')
    BY <1>10 DEF GetHit, GetNew, GetSleep, PutToReader, ReaderTake, Read, DeflatorTake, Inflate, Abort, WriterEnd,
                 WriterTake, WriterSleep, WriterBlock, WriterClose, scanVars, Sending, Getting
  <2>3. FilesSent' = FilesSent
    <3>1. toWriter' = toWriter \/ WriterEnd \/ WriterTake
      BY <1>10 DEF GetHit, GetNew, GetSleep, PutToReader, ReaderTake, Read, DeflatorTake, Inflate, Abort,
                   WriterSleep, WriterBlock, WriterClose
    <3> QED BY <3>1, SentSame
  <2>4. writer'.step = "idle" \/ (writer'.path = writer.path /\ writer.step # "idle") \/ writer' = writer
    BY <1>10, WriterMoves DEF GetHit, GetNew, GetSleep, PutToReader, ReaderTake, Read, DeflatorTake, Inflate, Abort, WriterEnd,
                 WriterSleep
  <2> QED BY <1>0, <1>1, <1>8, <2>1, <2>2, <2>3, <2>4
<1> QED BY <1>3, <1>5, <1>6, <1>7, <1>9, <1>10 DEF Next, Main, Reader, Writer, Deflator


\* A path whose file is on its way stays so until the writer closes it.
LEMMA OnWayKept ==
  ASSUME ScanTypes, WriterTypes, Scan, InOrder, Next, NEW f, OnWay(f)
  PROVE  OnWay(f)' \/ (WriterClose /\ writer.path = f)
<1> DEFINE Mine == writer.step # "idle" /\ writer.path = f
<1>1. OnWay(f) <=> Mine \/ f \in FilesSent
  BY DEF OnWay
<1>2. OnWay(f)' <=> Mine' \/ f \in FilesSent'
  BY DEF OnWay
<1>3. ASSUME FilesSent \subseteq FilesSent', Mine => Mine' PROVE OnWay(f)'
  BY <1>1, <1>2, <1>3
<1>4. CASE Open
  <2>1. FilesSent' = FilesSent \cup {at} /\ writer' = writer
    BY <1>4, SentOpen DEF Open
  <2> QED BY <1>3, <2>1
<1>5. CASE WriterFile
  <2>1. writer.step = "idle" /\ writer'.step = "file" /\ writer'.path = Head(toWriter).path
    <3>1. writer.step = "idle" /\ \E l : writer' = [Idle EXCEPT !.step = "file", !.path = Head(toWriter).path, !.left = l]
      BY <1>5 DEF WriterFile
    <3> QED BY <3>1 DEF Idle
  <2>2. \A g \in FilesSent : g \in FilesSent' \/ Head(toWriter).path = g
    BY <1>5, SentFile
  <2> QED BY <1>1, <1>2, <2>1, <2>2
<1>6. CASE WriterClose
  <2>1. FilesSent' = FilesSent
    BY <1>6 DEF WriterClose, FilesSent
  <2> QED BY <1>1, <1>2, <1>6, <2>1
<1>7. CASE WriterEnd \/ WriterTake \/ WriterBlock
  <2>1. FilesSent' = FilesSent
    <3>1. toWriter' = toWriter \/ WriterEnd \/ WriterTake
      BY <1>7 DEF WriterBlock
    <3> QED BY <3>1, SentSame
  <2>2. Mine => Mine'
    BY <1>7, WriterMoves DEF WriterEnd
  <2> QED BY <1>3, <2>1, <2>2
<1>8. CASE Link \/ Special \/ OpenFails \/ (\E b \in Buffers : GetHit(b)) \/ GetNew \/ GetSleep \/ PutToReader \/ Give \/ SendEnd
           \/ Exit \/ ReaderTake \/ Read \/ (\E d \in Deflators : DeflatorTake(d) \/ Inflate(d) \/ Abort(d)) \/ WriterSleep
  <2>1. writer' = writer /\ (toWriter' = toWriter \/ Give \/ SendEnd)
    BY <1>8 DEF LinkTo, EntryFails, Link, Special, OpenFails, GetHit, GetNew, GetSleep, PutToReader, Give, SendEnd, Exit, ReaderTake, Read,
                DeflatorTake, Inflate, Abort, WriterSleep
  <2>2. FilesSent' = FilesSent
    BY <2>1, SentSame
  <2> QED BY <1>3, <2>1, <2>2
<1> QED BY <1>4, <1>5, <1>6, <1>7, <1>8 DEF Next, Main, Reader, Writer, Deflator

\* A file that is closed has its attributes or is gone.
LEMMA CloseFacts ==
  ASSUME WriterTypes, Blamed, Next, WriterClose, NEW p, p = writer.path
  PROVE  \/ p \in complete' /\ names' = names
         \/ names' = [names EXCEPT ![p] = 0] /\ Failed(p)'
         \/ p \in refused' /\ names' = names
<1>1. CASE ~writer.failed /\ complete' = complete \cup {writer.path} /\ UNCHANGED names
  BY <1>1
<1>2. CASE (writer.failed \/ p \in unwritten') /\ names' = [names EXCEPT ![writer.path] = 0]
  <2>1. Failed(p)'
    BY <1>2, FailedKept DEF Blamed, Failed
  <2> QED BY <1>2, <2>1
<1>3. CASE refused' = refused \cup {writer.path} /\ UNCHANGED names
  BY <1>3
<1> QED BY <1>1, <1>2, <1>3 DEF WriterClose

LEMMA SettledStep ==
  ASSUME ScanTypes, CacheTypes, WriterTypes, Scan, InOrder, Blamed, Firsts, Settled, Next
  PROVE  Settled'
<1>0. /\ image' = image /\ Paths' = Paths /\ Paths = 1 .. Len(image) /\ Len(image) \in Nat /\ at \in 1 .. Len(image) + 1
      /\ Running /\ pc # "aborted" /\ (\A k : First(k)' = First(k)) /\ names \in [Paths -> Paths \cup {0}]
  BY EntryFacts, ImageSame, NextRuns DEF ScanTypes, Running, First
<1>1. /\ refused \subseteq refused' /\ complete \subseteq complete' /\ \A k : Failed(k) => Failed(k)'
  BY FailedKept
\* What a path needs.
<1>2. ASSUME NEW k \in Paths, NEW f, f = First(k),
             \/ {k, f} \cap refused' # {}
             \/ Failed(f)' /\ names'[f] = 0
             \/ names'[k] = f /\ (f \in complete' \/ OnWay(f)')
      PROVE  SettledPath(k)'
  <2>1. First(k)' = f
    BY <1>0, <1>2
  <2> QED BY <1>2, <2>1 DEF SettledPath, Gone
\* A path that the scan took before.
<1>3. ASSUME NEW k \in Paths, Taken(k), ~WriterClose => names'[k] = names[k] /\ names'[First(k)] = names[First(k)]
      PROVE  SettledPath(k)'
  <2>1. PICK f : f = First(k)
    OBVIOUS
  <2>2. f \in Paths /\ First(f) = f
    BY <2>1, FirstFacts, SameFirst
  <2>3. {k, f} \cap refused # {} \/ (Failed(f) /\ names[f] = 0) \/ (names[k] = f /\ (f \in complete \/ OnWay(f)))
    BY <1>3, <2>1 DEF Settled, SettledPath, Gone
  <2>4. CASE {k, f} \cap refused # {}
    BY <1>1, <1>2, <2>1, <2>4
  <2>5. CASE Failed(f) /\ names[f] = 0
    <3>1. names'[f] = 0
      <4>1. CASE WriterClose
        <5>1. names' = names \/ names' = [names EXCEPT ![writer.path] = 0]
          BY <4>1 DEF WriterClose
        <5> QED BY <1>0, <2>2, <2>5, <5>1
      <4>2. CASE ~WriterClose
        BY <1>3, <2>1, <2>5, <4>2
      <4> QED BY <4>1, <4>2
    <3>2. Failed(f)'
      BY <1>1, <2>5
    <3> QED BY <1>2, <2>1, <3>1, <3>2
  <2>6. CASE names[k] = f /\ (f \in complete \/ OnWay(f))
    <3>1. CASE ~WriterClose
      <4>1. f \in complete' \/ OnWay(f)'
        BY <1>1, <2>6, <3>1, OnWayKept
      <4>2. names'[k] = f
        BY <1>3, <2>6, <3>1
      <4> QED BY <1>2, <2>1, <4>1, <4>2
    <3>2. CASE WriterClose
      <4>1. PICK p : p = writer.path
        OBVIOUS
      <4>2. p \in Paths /\ First(p) = p
        BY <3>2, <4>1 DEF Firsts, WriterClose, WriterTypes
      <4>3. (p \in complete' /\ names' = names) \/ (names' = [names EXCEPT ![p] = 0] /\ Failed(p)') \/ (p \in refused' /\ names' = names)
        BY <3>2, <4>1, CloseFacts
      <4>4. CASE f # p
        <5>1. k # p
          BY <2>1, <4>2, <4>4
        <5>2. names'[k] = f
          BY <1>0, <2>6, <4>3, <5>1
        <5>3. f \in complete' \/ OnWay(f)'
          BY <1>1, <2>6, <4>1, <4>4, OnWayKept
        <5> QED BY <1>2, <2>1, <5>2, <5>3
      <4>5. CASE f = p /\ p \in complete' /\ names' = names
        BY <1>2, <2>1, <2>6, <4>5
      <4>6. CASE f = p /\ names' = [names EXCEPT ![p] = 0] /\ Failed(p)'
        <5>1. names'[f] = 0 /\ Failed(f)'
          BY <1>0, <4>2, <4>6
        <5> QED BY <1>2, <2>1, <5>1
      <4>7. CASE f = p /\ p \in refused'
        BY <1>2, <2>1, <4>7
      <4> QED BY <4>3, <4>4, <4>5, <4>6, <4>7
    <3> QED BY <3>1, <3>2
  <2> QED BY <2>3, <2>4, <2>5, <2>6
\* The scan takes a path.
<1>4. ASSUME NEW a, a = at, pc = "next", More, NextEntry \/ (pc' = "get" /\ at' = at), SettledPath(a)',
             \A j \in Paths : j # at => names'[j] = names[j], \A k \in Paths : k < at => First(k) # at
      PROVE  Settled'
  <2> SUFFICES ASSUME NEW k \in Paths, Taken(k)' PROVE SettledPath(k)'
    BY <1>0 DEF Settled
  <2>1. k < at \/ k = at
    BY <1>0, <1>4 DEF Taken, Sending, NextEntry
  <2>2. CASE k < at
    <3>1. Taken(k) /\ k # at /\ First(k) # at /\ First(k) \in Paths
      BY <1>0, <1>4, <2>2, FirstFacts DEF Taken
    <3> QED BY <1>3, <1>4, <3>1
  <2>3. CASE k = at
    <3>1. k = a
      BY <1>4, <2>3
    <3> QED BY <1>4, <3>1
  <2> QED BY <2>1, <2>2, <2>3
<1>5. More => \A k \in Paths : k < at => First(k) # at
  <2> SUFFICES ASSUME NEW k \in Paths, k < at PROVE First(k) # at
    OBVIOUS
  <2>1. First(k) \in Nat /\ First(k) <= k
    BY FirstFacts
  <2> QED BY <1>0, <2>1
<1>6. CASE Link
  <2> DEFINE f == created[Entry.inode]
  <2>1. /\ pc = "next" /\ More /\ f # 0 /\ NextEntry /\ ~WriterClose /\ \E n : names' = [names EXCEPT ![at] = n]
        /\ names' = [names EXCEPT ![at] = names[f]] \/ at \in refused'
    <3>1. pc' = "next" /\ at' = at + 1 /\ at \in Nat
      BY <1>0, <1>6 DEF LinkTo, EntryFails, Link, NextEntry
    <3>2. ~WriterClose
      BY <3>1 DEF WriterClose, scanVars
    <3> QED BY <1>6, <3>2 DEF LinkTo, EntryFails, Link
  <2>2. at \in Paths /\ f = First(at) /\ f < at
    BY <2>1, NewFirst
  <2>3. PICK a : a = at
    OBVIOUS
  <2>4. PICK g : g = First(a)
    OBVIOUS
  <2>5. a \in Paths /\ g \in Paths /\ g < at /\ g # a /\ First(g) = g /\ f = g
    <3>1. f = g /\ a \in Paths /\ g < at
      BY <2>2, <2>3, <2>4
    <3>2. g \in Paths /\ First(g) = g
      BY <2>4, <3>1, FirstFacts, SameFirst
    <3> QED BY <1>0, <2>3, <3>1, <3>2
  <2>6. (names'[a] = names[g] \/ a \in refused') /\ \A j \in Paths : j # at => names'[j] = names[j]
    BY <1>0, <2>1, <2>3, <2>5
  <2>7. SettledPath(g)'
    BY <1>3, <2>3, <2>5, <2>6 DEF Taken
  <2>8. g \in refused' \/ (Failed(g)' /\ names'[g] = 0) \/ (names'[g] = g /\ (g \in complete' \/ OnWay(g)'))
    <3>1. First(g)' = g
      BY <1>0, <2>5
    <3> QED BY <2>7, <3>1 DEF SettledPath, Gone
  <2>9. SettledPath(a)'
    <3>1. CASE a \in refused'
      BY <1>2, <2>4, <2>5, <3>1
    <3>2. CASE names'[a] = names[g]
      <4>1. names'[g] = g => names'[a] = g
        BY <2>3, <2>5, <2>6, <3>2
      <4> QED BY <1>2, <2>4, <2>5, <2>8, <4>1
    <3> QED BY <2>6, <3>1, <3>2
  <2> QED BY <1>4, <1>5, <2>1, <2>3, <2>6, <2>9
<1>7. CASE Special \/ Open \/ OpenFails
  <2>1. PICK a : a = at
    OBVIOUS
  <2>2. /\ pc = "next" /\ More /\ created[Entry.inode] = 0 /\ (NextEntry \/ (pc' = "get" /\ at' = at))
    BY <1>7 DEF EntryFails, Special, Open, OpenFails
  <2>3. a \in Paths /\ a = First(a)
    BY <2>1, <2>2, NewFirst
  <2>4. {a} \cap refused' # {} \/ (names'[a] = a /\ (a \in complete' \/ OnWay(a)'))
    <3>1. CASE Special
      <4>1. a \in refused' \/ (names' = [names EXCEPT ![at] = at] /\ a \in complete')
        BY <2>1, <3>1 DEF EntryFails, Special
      <4> QED BY <1>0, <2>1, <2>3, <4>1
    <3>2. CASE Open
      <4>1. names' = [names EXCEPT ![at] = at] /\ a \in FilesSent'
        BY <2>1, <3>2, SentOpen DEF Open
      <4> QED BY <1>0, <2>1, <2>3, <4>1 DEF OnWay
    <3>3. CASE OpenFails
      BY <2>1, <3>3 DEF OpenFails
    <3> QED BY <1>7, <3>1, <3>2, <3>3
  <2>5. \A j \in Paths : j # at => names'[j] = names[j]
    <3>1. names' = names \/ \E n : names' = [names EXCEPT ![at] = n]
      BY <1>7 DEF EntryFails, Special, Open, OpenFails, diskVars
    <3> QED BY <1>0, <3>1
  <2>6. SettledPath(a)'
    BY <1>2, <2>3, <2>4
  <2> QED BY <1>4, <1>5, <2>1, <2>2, <2>5, <2>6
\* Nothing is taken.
<1>8. ASSUME \A k \in Paths : Taken(k)' => Taken(k), names' = names \/ WriterClose
      PROVE  Settled'
  <2> SUFFICES ASSUME NEW k \in Paths, Taken(k)' PROVE SettledPath(k)'
    BY <1>0 DEF Settled
  <2>1. Taken(k)
    BY <1>8
  <2> QED BY <1>3, <1>8, <2>1
<1>9. CASE Give
  <2>1. Sending /\ at \in Paths
    BY <1>9 DEF Give, Sending, Scan
  <2>2. ((pc' = "next" /\ at' = at + 1) \/ (pc' = "get" /\ at' = at)) /\ names' = names
    BY <1>9 DEF Give, NextEntry, diskVars
  <2>3. \A k \in Paths : Taken(k)' => Taken(k)
    BY <1>0, <2>1, <2>2 DEF Taken, Sending
  <2> QED BY <1>8, <2>2, <2>3
<1>10. CASE (\E b \in Buffers : GetHit(b)) \/ GetNew \/ GetSleep \/ PutToReader \/ SendEnd \/ Exit \/ ReaderTake \/ Read
            \/ (\E d \in Deflators : DeflatorTake(d) \/ Inflate(d) \/ Abort(d))
            \/ WriterFile \/ WriterEnd \/ WriterTake \/ WriterSleep \/ WriterBlock \/ WriterClose
  <2>1. at' = at /\ (pc' = pc \/ pc' \in {"aborted", "last", "exited"} \/ (Sending /\ Sending'))
    BY <1>10 DEF GetHit, GetNew, GetSleep, PutToReader, SendEnd, Exit, ReaderTake, Read, DeflatorTake, Inflate, Abort,
                 WriterFile, WriterEnd, WriterTake, WriterSleep, WriterBlock, WriterClose, scanVars, Sending, Getting, LastStep
  <2>2. names' = names \/ WriterClose
    BY <1>10 DEF GetHit, GetNew, GetSleep, PutToReader, SendEnd, Exit, ReaderTake, Read, DeflatorTake, Inflate, Abort,
                 WriterFile, WriterEnd, WriterTake, WriterSleep, WriterBlock, diskVars
  <2>3. \A k \in Paths : Taken(k)' => Taken(k)
    BY <2>1 DEF Taken, Sending
  <2> QED BY <1>8, <2>2, <2>3
<1> QED BY <1>6, <1>7, <1>9, <1>10 DEF Next, Main, Reader, Writer, Deflator

-----------------------------------------------------------------------------
(* The caches, their threads and queues are consistent.                    *)

LEMMA CountNone ==
  ASSUME NEW S
  PROVE  CountIn(<<>>, S) = 0
<1>1. {k \in 1 .. Len(<<>>) : <<>>[k] \in S} = {}
  OBVIOUS
<1> QED BY <1>1, FS_EmptySet DEF CountIn

LEMMA CountMax ==
  ASSUME NEW T, NEW s \in Seq(T), NEW S
  PROVE  CountIn(s, S) <= Len(s)
<1>1. IsFiniteSet(1 .. Len(s)) /\ Cardinality(1 .. Len(s)) = Len(s)
  <2>1. Len(s) \in Nat /\ 1 \in Int /\ Len(s) \in Int
    OBVIOUS
  <2>2. IsFiniteSet(1 .. Len(s)) /\ Cardinality(1 .. Len(s)) = IF 1 > Len(s) THEN 0 ELSE Len(s) - 1 + 1
    BY <2>1, FS_Interval
  <2> QED BY <2>1, <2>2
<1>2. {k \in 1 .. Len(s) : s[k] \in S} \subseteq 1 .. Len(s)
  OBVIOUS
<1> QED BY <1>1, <1>2, FS_Subset DEF CountIn

LEMMA InductiveInit ==
  ASSUME Init
  PROVE  Inductive
<1>1. /\ image \in Images /\ image \in Seq(Entries) /\ Len(image) \in Nat /\ Paths = 1 .. Len(image)
      /\ pc = "next" /\ at = 1 /\ rest = <<>> /\ buffer = None
      /\ toReader = <<>> /\ toDeflate = <<>> /\ toWriter = <<>> /\ fromWriter = FALSE
      /\ reader = None /\ deflator = [d \in Deflators |-> None] /\ waitFree = {} /\ waitPending = {}
      /\ cache = [b \in Buffers |-> Empty] /\ free = [k \in Kinds |-> <<>>]
      /\ writer = [step |-> "idle", path |-> 0, left |-> 0, hole |-> 0, failed |-> FALSE, piece |-> None, buffer |-> None]
  BY UnsquashAssumption DEF Init, Idle, Paths
<1>2. ScanTypes
  <2>1. created \in [{image[k].inode : k \in Paths} -> Paths \cup {0}]
    BY DEF Init
  <2>2. names \in [Paths -> Paths \cup {0}]
    BY DEF Init
  <2> QED BY <1>1, <2>1, <2>2 DEF ScanTypes, Hand
<1>3. CacheTypes
  <2>1. Empty \in Slots
    BY DEF Empty, Slots, Datas
  <2>2. Cardinality(Buffers) \in Nat
    BY UnsquashAssumption, FS_CardinalityType
  <2> QED BY <1>1, <2>1, <2>2 DEF CacheTypes, Hand
<1>4. WriterTypes
  <2>1. 0 \in -HalfInt .. HalfInt - 1
    BY HalfIntAssumption
  <2>2. writer \in WriterStates
    BY <1>1 DEF WriterStates, Hand
  <2>3. toWriter \in Seq(Messages) /\ Len(toWriter) = 0 /\ WriterQueue \in Nat
    BY <1>1, UnsquashAssumption
  <2>4. fromWriter \in BOOLEAN /\ writer.step = "idle" /\ writer.buffer = None /\ writer.hole = 0
    BY <1>1
  <2> QED BY <2>1, <2>2, <2>3, <2>4 DEF WriterTypes
<1>5. Scan
  BY <1>1 DEF Scan, Sending
<1>6. InOrder
  <2> DEFINE s == [n \in 0 .. 0 |-> [path |-> 0, left |-> 0]]
  <2>1. s \in [0 .. Len(toWriter) -> Stages(image)] /\ s[0] = [path |-> writer.path, left |-> Owed]
        /\ s[Len(toWriter)].left = 0
    BY <1>1 DEF Stages, Owed
  <2>2. 1 .. Len(toWriter) = {} /\ ~Sending
    BY <1>1 DEF Sending
  <2> HIDE DEF s
  <2>3. Whole(s)
    BY <2>1, <2>2, Zenon DEF Whole
  <2> QED BY <2>3 DEF InOrder
<1>7. Ending
  BY <1>1 DEF Ending
<1>8. ASSUME NEW b \in Buffers
      PROVE  cache[b].used = 0 /\ cache[b].block = None /\ cache[b].pending = FALSE /\ b # None /\ KindOf(b) \in Kinds
  BY <1>1, KindFacts DEF Empty
<1>9. Counts
  <2> SUFFICES ASSUME NEW b \in Buffers PROVE CountOf(b)
    BY DEF Counts
  <2>1. free[KindOf(b)] = <<>>
    BY <1>1, <1>8
  <2>2. Free(b) = 0 /\ CountIn(toWriter, With(b)) = 0
    BY <1>1, <2>1, CountNone DEF Free
  <2>3. Is(buffer, {b}) = 0 /\ Is(writer.buffer, {b}) = 0
    BY <1>1, <1>8 DEF Is
  <2>4. Using(b) = 0
    BY <2>2, <2>3 DEF Using
  <2>5. cache[b].used = 0 /\ cache[b].block = None /\ ~(cache[b].used > 0)
    <3>1. cache[b].used = 0 /\ cache[b].block = None
      BY <1>8, Zenon
    <3>2. ~(0 > 0)
      OBVIOUS
    <3> QED BY <3>1, <3>2, Zenon
  <2> QED BY <2>2, <2>4, <2>5, Zenon DEF CountOf
<1>10. Pending
  <2> SUFFICES ASSUME NEW b \in Buffers PROVE PendingOf(b)
    BY DEF Pending
  <2>1. CountIn(toReader, {b}) = 0 /\ CountIn(toDeflate, {b}) = 0
    BY <1>1, CountNone
  <2>2. Reading(b) = 0 /\ Is(reader, {b}) = 0
    BY <1>1, <1>8 DEF Is, Reading
  <2>3. InHands(deflator, b) = 0
    <3>1. {d \in Deflators : deflator[d] = b} = {}
      BY <1>1, <1>8
    <3> QED BY <3>1, FS_EmptySet DEF InHands
  <2>4. Fills(b) = 0
    BY <2>1, <2>2, <2>3 DEF Fills
  <2>5. ~cache[b].pending
    BY <1>8
  <2> QED BY <2>4, <2>5, Zenon DEF PendingOf
<1>11. Owned
  <2>1. Len(toWriter) = 0 /\ writer.buffer = None
    BY <1>1
  <2> QED BY <1>1, <2>1 DEF Owned
<1>12. Blamed
  <2>1. (\A b \in Buffers : ~cache[b].error) /\ ~writer.failed
    BY <1>1 DEF Empty
  <2> QED BY <2>1 DEF Blamed
<1>13. \A k \in Paths : k \in Nat \ {0} /\ ~Taken(k)
  BY <1>1 DEF Taken, Sending
<1>14. Firsts
  <2>1. FilesSent = {}
    BY <1>1 DEF FilesSent
  <2>2. ASSUME NEW k \in Paths PROVE created[image[k].inode] = 0 /\ ~Taken(First(k))
    <3>1. First(k) \in Paths
      BY <1>2, FirstFacts
    <3> QED BY <1>13, <3>1 DEF Init
  <2>3. writer.step = "idle"
    BY <1>1
  <2> QED BY <2>1, <2>2, <2>3 DEF Firsts
<1>15. Settled
  BY <1>13 DEF Settled
<1> QED BY <1>2, <1>3, <1>4, <1>5, <1>6, <1>7, <1>9, <1>10, <1>11, <1>12, <1>14, <1>15 DEF Inductive

LEMMA InductiveStep ==
  ASSUME Inductive, [Next]_vars
  PROVE  Inductive'
<1>1. CASE Next
  <2> USE DEF Inductive
  <2>1. ScanTypes' /\ Scan'
    BY <1>1, ScanStep
  <2>2. CacheTypes'
    BY <1>1, WriterUses, CacheTypesStep
  <2>3. WriterTypes' /\ InOrder' /\ Ending'
    BY <1>1, QueueStep
  <2>4. Counts' /\ Pending'
    BY <1>1, CountsStep, PendingStep
  <2>5. Owned' /\ Blamed'
    BY <1>1, OwnedStep, BlamedStep
  <2>6. Firsts' /\ Settled'
    BY <1>1, FirstsStep, SettledStep
  <2> QED BY <2>1, <2>2, <2>3, <2>4, <2>5, <2>6
<1>2. CASE UNCHANGED vars
  <2>1. ScanTypes' /\ Scan'
    BY <1>2, ScanSame DEF vars, Inductive
  <2>2. CacheTypes'
    BY <1>2 DEF vars, Inductive, CacheTypes
  <2>3. WriterTypes' /\ InOrder' /\ Ending'
    <3>1. WriterTypes' /\ Ending'
      BY <1>2 DEF vars, Inductive, WriterTypes, Ending, Sending, Paths
    <3>2. CASE pc = "aborted"
      BY <1>2, <3>1, <3>2 DEF vars, InOrder
    <3>3. CASE pc # "aborted"
      <4>1. PICK s : Whole(s)
        BY <3>3 DEF Inductive, InOrder
      <4>2. Whole(s)'
        BY <1>2, <4>1 DEF vars, Whole, Owed, Sending
      <4> QED BY <3>1, <4>2 DEF InOrder
    <3> QED BY <3>2, <3>3
  <2>4. Counts'
    <3>1. ASSUME NEW b \in Buffers PROVE CountOf(b)'
      <4>1. CountOf(b)
        BY DEF Inductive, Counts
      <4>2. Using(b)' = Using(b) /\ Free(b)' = Free(b) /\ cache' = cache
        BY <1>2 DEF vars, Using, Free, CountIn, With, Is
      <4> QED BY <4>1, <4>2 DEF CountOf
    <3> QED BY <3>1 DEF Counts
  <2>5. Pending'
    BY <1>2 DEF vars, Inductive, Pending, PendingOf, Fills, Reading, InHands, CountIn, Is, Running
  <2>6. Owned'
    BY <1>2 DEF vars, Inductive, Owned, HasBlock
  <2>7. Blamed'
    BY <1>2 DEF vars, Inductive, Blamed, Failed
  <2>8. Firsts'
    <3>1. Paths' = Paths /\ FilesSent' = FilesSent /\ \A k : First(k)' = First(k) /\ (Taken(k)' <=> Taken(k))
      BY <1>2 DEF vars, Paths, FilesSent, First, Taken, Sending
    <3> QED BY <1>2, <3>1 DEF vars, Inductive, Firsts, Taken, Sending
  <2>9. Settled'
    <3> SUFFICES ASSUME NEW k \in Paths, Taken(k) PROVE SettledPath(k)'
      BY <1>2 DEF vars, Settled, Paths, Taken, Sending
    <3>1. SettledPath(k)
      BY DEF Inductive, Settled
    <3>2. PICK f : f = First(k)
      OBVIOUS
    <3>3. {k, f} \cap refused # {} \/ Gone(f) \/ (names[k] = f /\ (f \in complete \/ OnWay(f)))
      BY <3>1, <3>2 DEF SettledPath
    <3>4. Gone(f)' = Gone(f) /\ OnWay(f)' = OnWay(f) /\ First(k)' = f
      BY <1>2, <3>2 DEF vars, Gone, Failed, OnWay, FilesSent, First, Paths
    <3> QED BY <1>2, <3>3, <3>4 DEF vars, SettledPath
  <2> QED BY <2>1, <2>2, <2>3, <2>4, <2>5, <2>6, <2>7, <2>8, <2>9 DEF Inductive
<1> QED BY <1>1, <1>2

LEMMA InductiveConsistent ==
  ASSUME Inductive
  PROVE  Consistent
<1>1. ScanTypes /\ CacheTypes /\ WriterTypes /\ Counts /\ Pending /\ toWriter \in Seq(Messages) /\ Len(toWriter) \in Nat
  BY DEF Inductive, WriterTypes
<1>2. TypeOK
  <2>1. ASSUME NEW b \in Buffers PROVE cache[b].used \in 0 .. WriterQueue + 2
    <3>1. /\ cache[b].used = Using(b) /\ CountIn(toWriter, With(b)) \in Nat
          /\ Is(buffer, {b}) \in {0, 1} /\ Is(writer.buffer, {b}) \in {0, 1}
      BY <1>1, UsingType DEF Counts, CountOf, Is
    <3>2. CountIn(toWriter, With(b)) <= Len(toWriter) /\ Len(toWriter) <= WriterQueue
      BY <1>1, CountMax DEF WriterTypes
    <3> QED BY <1>1, <3>1, <3>2, UnsquashAssumption DEF Using
  <2> QED BY <1>1, <2>1 DEF TypeOK, ScanTypes, CacheTypes, WriterTypes, InHand, Hand
<1>3. UseCounts
  <2> SUFFICES ASSUME NEW b \in Buffers
               PROVE  /\ cache[b].used = Given(b) + (IF buffer = b THEN 1 ELSE 0) + (IF writer.buffer = b THEN 1 ELSE 0)
                      /\ Cardinality({n \in DOMAIN free[KindOf(b)] : free[KindOf(b)][n] = b})
                           = (IF cache[b].used = 0 /\ cache[b].block # None THEN 1 ELSE 0)
    BY DEF UseCounts
  <2>1. CountOf(b)
    BY <1>1 DEF Counts
  <2>2. Given(b) = CountIn(toWriter, With(b))
    <3>1. {n \in DOMAIN toWriter : toWriter[n].type = "piece" /\ toWriter[n].buffer = b} = {n \in 1 .. Len(toWriter) : toWriter[n] \in With(b)}
      BY <1>1 DEF With
    <3> QED BY <3>1, Zenon DEF Given, CountIn
  <2>3. Cardinality({n \in DOMAIN free[KindOf(b)] : free[KindOf(b)][n] = b}) = Free(b)
    <3>1. free[KindOf(b)] \in Seq(Buffers)
      BY <1>1, KindFacts DEF CacheTypes
    <3>2. {n \in DOMAIN free[KindOf(b)] : free[KindOf(b)][n] = b} = {n \in 1 .. Len(free[KindOf(b)]) : free[KindOf(b)][n] \in {b}}
      BY <3>1
    <3> QED BY <3>2, Zenon DEF Free, CountIn
  <2> QED BY <2>1, <2>2, <2>3 DEF CountOf, Using, Is
<1>4. PendingUsed
  <2> SUFFICES ASSUME Running, NEW b \in Buffers
               PROVE  /\ Filling(b) = (IF cache[b].pending THEN 1 ELSE 0)
                      /\ cache[b].pending => cache[b].used > 0
    BY DEF PendingUsed
  <2>1. PendingOf(b)
    BY <1>1 DEF Pending
  <2>2. Cardinality({n \in DOMAIN toReader : toReader[n] = b}) = CountIn(toReader, {b})
        /\ Cardinality({n \in DOMAIN toDeflate : toDeflate[n] = b}) = CountIn(toDeflate, {b})
    <3>1. toReader \in Seq(Buffers) /\ toDeflate \in Seq(Buffers)
      BY <1>1 DEF CacheTypes
    <3>2. {n \in DOMAIN toReader : toReader[n] = b} = {n \in 1 .. Len(toReader) : toReader[n] \in {b}}
          /\ {n \in DOMAIN toDeflate : toDeflate[n] = b} = {n \in 1 .. Len(toDeflate) : toDeflate[n] \in {b}}
      BY <3>1
    <3> QED BY <3>2, Zenon DEF CountIn
  <2>3. Filling(b) = Fills(b)
    BY <2>2 DEF Filling, Fills, Reading, InHands, Is
  <2> QED BY <2>1, <2>3 DEF PendingOf
<1> QED BY <1>2, <1>3, <1>4 DEF Consistent

\* The invariant from which the rest follows: what is in each queue, hand and
\* buffer, and how they agree.
THEOREM InductiveInvariant == Spec => []Inductive
<1>1. Init => Inductive
  BY InductiveInit
<1>2. Inductive /\ [Next]_vars => Inductive'
  BY InductiveStep
<1> QED BY <1>1, <1>2, PTL DEF Spec

\* Every buffer is counted once for each piece on its way to the writer, is pending
\* exactly while one thread or queue fills it, and is taken for another block only
\* when nobody has it: cache_get, cache_block_put, cache_block_ready and
\* cache_block_wait, whatever the threads' order.
THEOREM AlwaysConsistent == Spec => []Consistent
<1>1. Inductive => Consistent
  BY InductiveConsistent
<1> QED BY <1>1, InductiveInvariant, PTL

LEMMA InductiveExit ==
  ASSUME Inductive
  PROVE  ExitSettled
<1> SUFFICES ASSUME pc = "exited", NEW k \in Paths
             PROVE  \/ {k, First(k)} \cap refused # {}
                    \/ First(k) \in complete /\ names[k] = First(k)
                    \/ Failed(First(k)) /\ names[First(k)] = 0
  BY DEF ExitSettled
<1>1. at = Len(image) + 1 /\ toWriter = <<>> /\ writer.step = "idle"
  BY DEF Inductive, Scan, Ending
<1>2. Taken(k)
  BY <1>1, EntryFacts DEF Taken, Inductive
<1>3. ~OnWay(First(k))
  BY <1>1 DEF OnWay, FilesSent
<1> QED BY <1>2, <1>3 DEF Inductive, Settled, SettledPath, Gone

\* When unsquashfs exits, every path names its inode's file, with its attributes, or
\* the system refused to make, link or unlink this path or the file's first one, or
\* failed on one of the file's blocks or its data and the first path is gone: the
\* scan's created_inode, whose links create_inode does not try again, the failures the
\* writer remembers until it closes a file, and the wait for the writer at the end.
THEOREM AlwaysExitSettled == Spec => []ExitSettled
<1>1. Inductive => ExitSettled
  BY InductiveExit
<1> QED BY <1>1, InductiveInvariant, PTL

-----------------------------------------------------------------------------
(* The files' data.                                                        *)

\* What a file's bytes are.
Cells == (Datas \cup {"zero"}) \X Nat
Parts(pieces) == [n \in 1 .. Len(pieces) |-> Bytes(pieces[n], pieces[n].block)]
DataUpTo(pieces) ==
  LET upTo[n \in 0 .. Len(pieces)] == IF n = 0 THEN <<>> ELSE upTo[n - 1] \o Parts(pieces)[n]
  IN  upTo

\* A buffer that is neither pending nor failed has its block.
Filled == \A b \in Buffers : cache[b].block # None /\ ~cache[b].pending /\ ~cache[b].error => cache[b].data = cache[b].block

\* A piece has a buffer unless it is a hole.
Matched ==
  /\ \A n \in 1 .. Len(toWriter) : toWriter[n].type = "piece" => (toWriter[n].buffer = None <=> toWriter[n].piece.kind = "hole")
  /\ writer.step = "block" => writer.piece.kind # "hole"
  /\ pc \in {"read", "give"} => Head(rest).kind # "hole"

\* Files are sent once, in the order of their paths, and are empty until the writer
\* has them; one with its attributes is left alone.
Rising ==
  /\ \A i, j \in 1 .. Len(toWriter) :
        i < j /\ toWriter[i].type = "file" /\ toWriter[j].type = "file" => toWriter[i].path < toWriter[j].path
  /\ \A f \in FilesSent : Taken(f) /\ content[f] = <<>> /\ (writer.step # "idle" => writer.path < f)
  /\ writer.step # "idle" => Taken(writer.path)
Kept == \A k \in complete : k \in Paths /\ Taken(k) /\ ~OnWay(k)

\* What the writer has written of its file, and the hole it has to add, are the
\* file's data up to the pieces that are left.
Fits(k) == HoleSize(k) < HalfInt
HasWritten(pieces, done, hole, data, f) ==
  /\ done \in 0 .. Len(pieces)
  /\ data = f.content /\ f.content \in Seq(Cells) /\ f.pos = Len(f.content)
  /\ hole \in 0 .. HolesUpTo(pieces)[done]
  /\ DataUpTo(pieces)[done] = f.content \o Zeros(hole)
Written ==
  writer.step # "idle" /\ ~writer.failed /\ Fits(writer.path) =>
    LET pieces == image[writer.path].pieces
    IN  HasWritten(pieces, Len(pieces) - writer.left, writer.hole, content[writer.path], out)
FilesKept ==
  /\ DOMAIN content = Paths
  /\ out = [content |-> out.content, pos |-> out.pos, broken |-> out.broken, past |-> out.past]
  /\ CompleteFiles
  /\ Running => Filled /\ Matched /\ Rising /\ Kept /\ Written

-----------------------------------------------------------------------------
(* Induction and recursive functions.                                      *)

\* Induction over the naturals, for a set of them.
LEMMA NatInd ==
  ASSUME NEW S \in SUBSET Nat, 0 \in S, \A n \in S : n + 1 \in S
  PROVE  S = Nat
<1> SUFFICES ASSUME Nat \ S # {} PROVE FALSE
  OBVIOUS
<1>1. PICK n \in Nat \ S : \A m \in Nat \ S : n <= m
  BY NatLeast
<1> QED BY <1>1

\* A function defined by its value at 0 and a step exists,
Unrolls(g, N, T, b, F) == g \in [0 .. N -> T] /\ g[0] = b /\ \A n \in 1 .. N : g[n] = F[n][g[n - 1]]
LEMMA Unroll ==
  ASSUME NEW N \in Nat, NEW T, NEW b \in T, NEW F \in [1 .. N -> [T -> T]]
  PROVE  \E g : Unrolls(g, N, T, b, F)
<1> DEFINE Eq(g, m) == \A n \in 0 .. m : g[n] = IF n = 0 THEN b ELSE F[n][g[n - 1]]
           Has(m) == m <= N => \E g \in [0 .. m -> T] : Eq(g, m)
           Ns == {n \in Nat : Has(n)}
<1>1. Has(0)
  <2> DEFINE h == [i \in 0 .. 0 |-> b]
  <2>1. h \in [0 .. 0 -> T] /\ Eq(h, 0)
    OBVIOUS
  <2> QED BY <2>1
<1>2. ASSUME NEW m \in Nat, Has(m) PROVE Has(m + 1)
  <2> SUFFICES ASSUME m + 1 <= N PROVE \E g \in [0 .. m + 1 -> T] : Eq(g, m + 1)
    OBVIOUS
  <2>1. PICK g \in [0 .. m -> T] : Eq(g, m)
    BY <1>2
  <2> DEFINE v == F[m + 1][g[m]]
             h == [i \in 0 .. m + 1 |-> IF i = m + 1 THEN v ELSE g[i]]
  <2>2. g[m] \in T /\ m + 1 \in 1 .. N
    BY <2>1
  <2>3. v \in T
    BY <2>2
  <2> HIDE DEF v
  <2>4. h \in [0 .. m + 1 -> T]
    BY <2>1, <2>3
  <2>5. h[m + 1] = v /\ \A i \in 0 .. m : h[i] = g[i]
    OBVIOUS
  <2> HIDE DEF h
  <2>6. ASSUME NEW n \in 0 .. m + 1 PROVE h[n] = IF n = 0 THEN b ELSE F[n][h[n - 1]]
    <3>1. CASE n = m + 1
      <4>1. n # 0 /\ n - 1 = m /\ m \in 0 .. m
        BY <3>1
      <4>2. h[n - 1] = g[m]
        BY <2>5, <4>1
      <4> QED BY <2>5, <3>1, <4>1, <4>2 DEF v
    <3>2. CASE n # m + 1
      <4>1. n \in 0 .. m /\ (n # 0 => n - 1 \in 0 .. m)
        BY <3>2
      <4>2. g[n] = IF n = 0 THEN b ELSE F[n][g[n - 1]]
        BY <2>1, <4>1
      <4> QED BY <2>5, <4>1, <4>2
    <3> QED BY <3>1, <3>2
  <2>7. Eq(h, m + 1)
    BY <2>6
  <2> QED BY <2>4, <2>7, Zenon
<1>3. Has(N)
  <2> HIDE DEF Has
  <2>1. Ns \in SUBSET Nat /\ 0 \in Ns /\ \A n \in Ns : n + 1 \in Ns
    BY <1>1, <1>2
  <2> HIDE DEF Ns
  <2>2. Ns = Nat
    BY <2>1, NatInd
  <2> QED BY <2>2 DEF Ns
<1>4. PICK g \in [0 .. N -> T] : Eq(g, N)
  BY <1>3
<1>5. g[0] = b /\ \A n \in 1 .. N : g[n] = F[n][g[n - 1]]
  <2>1. 0 \in 0 .. N /\ \A n \in 1 .. N : n \in 0 .. N /\ n # 0
    OBVIOUS
  <2>2. \A n \in 0 .. N : g[n] = IF n = 0 THEN b ELSE F[n][g[n - 1]]
    BY <1>4
  <2> QED BY <2>1, <2>2, Zenon
<1> QED BY <1>4, <1>5 DEF Unrolls

\* and has all its values where the step keeps them.
LEMMA UnrollType ==
  ASSUME NEW N \in Nat, NEW T, NEW f, f[0] \in T, \A n \in 1 .. N : f[n - 1] \in T => f[n] \in T
  PROVE  \A n \in 0 .. N : f[n] \in T
<1> DEFINE Ns == {n \in Nat : n <= N => f[n] \in T}
<1>1. 0 \in Ns
  OBVIOUS
<1>2. ASSUME NEW n \in Ns PROVE n + 1 \in Ns
  <2> SUFFICES ASSUME n + 1 <= N PROVE f[n + 1] \in T
    OBVIOUS
  <2>1. n + 1 \in 1 .. N /\ (n + 1) - 1 = n /\ f[n] \in T
    OBVIOUS
  <2>2. f[(n + 1) - 1] \in T => f[n + 1] \in T
    BY <2>1, Zenon
  <2> QED BY <2>1, <2>2
<1>3. Ns \in SUBSET Nat
  OBVIOUS
<1> HIDE DEF Ns
<1>4. Ns = Nat
  BY <1>1, <1>2, <1>3, NatInd
<1> QED BY <1>4 DEF Ns

-----------------------------------------------------------------------------
(* A file's holes and its data, up to a piece.                             *)

HoleOf(piece) == IF piece.kind = "hole" THEN piece.size ELSE 0
LEMMA HolesFacts ==
  ASSUME NEW pieces \in Seq(Pieces)
  PROVE  /\ HolesUpTo(pieces)[0] = 0
         /\ \A n \in 1 .. Len(pieces) : HolesUpTo(pieces)[n] = HolesUpTo(pieces)[n - 1] + HoleOf(pieces[n])
         /\ \A n \in 0 .. Len(pieces) : HolesUpTo(pieces)[n] \in Nat /\ HolesUpTo(pieces)[n] <= HolesUpTo(pieces)[Len(pieces)]
<1> DEFINE N == Len(pieces)
           Eq(f) == f = [n \in 0 .. N |-> IF n = 0 THEN 0 ELSE f[n - 1] + HoleOf(pieces[n])]
           F == [n \in 1 .. N |-> [a \in Nat |-> a + HoleOf(pieces[n])]]
           c == CHOOSE f : Eq(f)
<1>1. N \in Nat /\ \A n \in 1 .. N : HoleOf(pieces[n]) \in Nat
  <2>1. \A piece \in Pieces : HoleOf(piece) \in Nat
    BY DEF Pieces, HoleOf
  <2>2. N \in Nat /\ \A n \in 1 .. N : pieces[n] \in Pieces
    OBVIOUS
  <2> QED BY <2>1, <2>2
<1>2. HolesUpTo(pieces) = c
  BY DEF HolesUpTo, HoleOf
<1>3. F \in [1 .. N -> [Nat -> Nat]] /\ \A a \in Nat, n \in 1 .. N : F[n][a] = a + HoleOf(pieces[n])
  <2> HIDE DEF N
  <2> QED BY <1>1
<1> HIDE DEF F, N
<1>4. PICK g : Unrolls(g, N, Nat, 0, F)
  BY <1>1, <1>3, Unroll
<1>5. g \in [0 .. N -> Nat] /\ g[0] = 0 /\ \A n \in 1 .. N : g[n] = F[n][g[n - 1]]
  BY <1>4 DEF Unrolls
<1>6. Eq(g)
  <2>1. \A n \in 0 .. N : n # 0 => n \in 1 .. N /\ n - 1 \in 0 .. N
    BY <1>1
  <2>2. \A n \in 0 .. N : g[n] = IF n = 0 THEN 0 ELSE g[n - 1] + HoleOf(pieces[n])
    BY <1>3, <1>5, <2>1
  <2> QED BY <1>5, <2>2
<1>7. Eq(c)
  <2> HIDE DEF Eq
  <2> QED BY <1>6
<1> HIDE DEF c
<1>8. c[0] = 0 /\ \A n \in 1 .. N : c[n] = c[n - 1] + HoleOf(pieces[n])
  BY <1>1, <1>7
<1>9. \A n \in 0 .. N : c[n] \in Nat
  <2>1. c[0] \in Nat /\ \A n \in 1 .. N : c[n - 1] \in Nat => c[n] \in Nat
    BY <1>1, <1>8
  <2> QED BY <1>1, <2>1, UnrollType
<1>10. \A n \in 0 .. N : c[n] <= c[N]
  <2> DEFINE Up(k) == k <= N => c[N - k] <= c[N]
             Ns == {k \in Nat : Up(k)}
  <2>1. Up(0)
    BY <1>1, <1>9
  <2>2. ASSUME NEW k \in Nat, Up(k) PROVE Up(k + 1)
    <3> SUFFICES ASSUME k + 1 <= N PROVE c[N - (k + 1)] <= c[N]
      OBVIOUS
    <3>1. N - k \in 1 .. N /\ (N - k) - 1 = N - (k + 1) /\ N - (k + 1) \in 0 .. N /\ N - k \in 0 .. N /\ N \in 0 .. N
      BY <1>1
    <3>2. c[N - k] = c[N - (k + 1)] + HoleOf(pieces[N - k]) /\ HoleOf(pieces[N - k]) \in Nat
      BY <1>1, <1>8, <3>1
    <3>3. c[N - k] <= c[N]
      BY <1>1, <2>2
    <3>4. c[N - (k + 1)] \in Nat /\ c[N - k] \in Nat /\ c[N] \in Nat
      BY <1>9, <3>1, Zenon
    <3>5. PICK x, y : x = c[N - (k + 1)] /\ y = HoleOf(pieces[N - k])
      OBVIOUS
    <3> QED BY <3>2, <3>3, <3>4, <3>5
  <2> HIDE DEF Up
  <2>3. Ns \in SUBSET Nat /\ 0 \in Ns /\ \A k \in Ns : k + 1 \in Ns
    BY <2>1, <2>2
  <2> HIDE DEF Ns
  <2>4. Ns = Nat
    BY <2>3, NatInd
  <2>5. ASSUME NEW n \in 0 .. N PROVE c[n] <= c[N]
    <3>1. N - n \in Nat /\ N - n <= N /\ N - (N - n) = n
      BY <1>1
    <3>2. Up(N - n)
      BY <2>4, <3>1 DEF Ns
    <3> QED BY <3>1, <3>2 DEF Up
  <2> QED BY <2>5
<1> QED BY <1>2, <1>8, <1>9, <1>10 DEF N

LEMMA ZerosFacts ==
  ASSUME NEW n \in Nat
  PROVE  Zeros(n) \in Seq(Cells) /\ Len(Zeros(n)) = n /\ \A k \in 1 .. n : Zeros(n)[k] = Zero
<1>1. Zeros(n) = [k \in 1 .. n |-> Zero]
  BY DEF Zeros
<1>2. Zero \in Cells
  BY DEF Zero, Cells
<1> QED BY <1>1, <1>2

LEMMA BytesFacts ==
  ASSUME NEW piece \in Pieces, NEW data \in Datas
  PROVE  /\ Bytes(piece, data) \in Seq(Cells) /\ Len(Bytes(piece, data)) = piece.size /\ piece.size \in Nat
         /\ piece.kind = "hole" => Bytes(piece, data) = Zeros(piece.size)
<1> DEFINE size == piece.size
           cell(n) == IF piece.kind = "hole" THEN Zero ELSE Byte(data, piece.offset + n)
<1>1. size \in Nat \ {0} /\ piece.offset \in Nat
  BY DEF Pieces
<1>2. Bytes(piece, data) = [n \in 1 .. size |-> cell(n)]
  BY DEF Bytes
<1>3. \A n \in 1 .. size : cell(n) \in Cells
  BY <1>1 DEF Zero, Byte, Cells
<1>4. piece.kind = "hole" => Bytes(piece, data) = Zeros(size)
  BY <1>1, <1>2 DEF Zeros
<1> HIDE DEF cell, size
<1>5. Bytes(piece, data) \in Seq(Cells) /\ Len(Bytes(piece, data)) = size
  BY <1>1, <1>2, <1>3
<1> QED BY <1>1, <1>4, <1>5 DEF size

LEMMA PartsFacts ==
  ASSUME NEW pieces \in Seq(Pieces)
  PROVE  /\ Parts(pieces) \in Seq(Seq(Cells)) /\ Len(Parts(pieces)) = Len(pieces)
         /\ \A n \in 1 .. Len(pieces) : /\ pieces[n] \in Pieces /\ pieces[n].block \in Datas
                                        /\ Parts(pieces)[n] = Bytes(pieces[n], pieces[n].block)
<1>1. Len(pieces) \in Nat /\ \A n \in 1 .. Len(pieces) : pieces[n] \in Pieces
  OBVIOUS
<1>2. \A piece \in Pieces : piece.block \in Datas
  BY DEF Pieces, Datas
<1>3. \A n \in 1 .. Len(pieces) : Bytes(pieces[n], pieces[n].block) \in Seq(Cells)
  BY <1>1, <1>2, BytesFacts
<1>4. Parts(pieces) = [n \in 1 .. Len(pieces) |-> Bytes(pieces[n], pieces[n].block)]
  BY DEF Parts
<1>5. Parts(pieces) \in Seq(Seq(Cells)) /\ Len(Parts(pieces)) = Len(pieces)
  BY <1>1, <1>3, <1>4
<1> QED BY <1>1, <1>2, <1>4, <1>5

LEMMA DataFacts ==
  ASSUME NEW pieces \in Seq(Pieces)
  PROVE  /\ DataUpTo(pieces)[0] = <<>>
         /\ \A n \in 1 .. Len(pieces) :
               DataUpTo(pieces)[n] = DataUpTo(pieces)[n - 1] \o Bytes(pieces[n], pieces[n].block)
         /\ \A n \in 0 .. Len(pieces) : DataUpTo(pieces)[n] \in Seq(Cells)
<1> DEFINE N == Len(pieces)
           p == Parts(pieces)
           Eq(f) == f = [n \in 0 .. N |-> IF n = 0 THEN <<>> ELSE f[n - 1] \o p[n]]
           F == [n \in 1 .. N |-> [a \in Seq(Cells) |-> a \o p[n]]]
           c == CHOOSE f : Eq(f)
<1>1. N \in Nat /\ \A n \in 1 .. N : p[n] \in Seq(Cells) /\ p[n] = Bytes(pieces[n], pieces[n].block)
  BY PartsFacts, BytesFacts
<1>2. DataUpTo(pieces) = c
  BY DEF DataUpTo
<1> HIDE DEF p
<1>3. F \in [1 .. N -> [Seq(Cells) -> Seq(Cells)]] /\ \A a \in Seq(Cells), n \in 1 .. N : F[n][a] = a \o p[n]
  <2> HIDE DEF N
  <2> QED BY <1>1
<1> HIDE DEF F, N
<1>4. PICK g : Unrolls(g, N, Seq(Cells), <<>>, F)
  <2>1. <<>> \in Seq(Cells)
    OBVIOUS
  <2> QED BY <1>1, <1>3, <2>1, Unroll, Zenon
<1>5. g \in [0 .. N -> Seq(Cells)] /\ g[0] = <<>> /\ \A n \in 1 .. N : g[n] = F[n][g[n - 1]]
  BY <1>4 DEF Unrolls
<1>6. Eq(g)
  <2>1. \A n \in 0 .. N : n # 0 => n \in 1 .. N /\ n - 1 \in 0 .. N
    BY <1>1
  <2>2. \A n \in 0 .. N : g[n] = IF n = 0 THEN <<>> ELSE g[n - 1] \o p[n]
    BY <1>3, <1>5, <2>1
  <2> QED BY <1>5, <2>2
<1>7. Eq(c)
  <2> HIDE DEF Eq
  <2> QED BY <1>6
<1> HIDE DEF c
<1>8. c[0] = <<>> /\ \A n \in 1 .. N : c[n] = c[n - 1] \o p[n]
  <2>1. \A n \in 0 .. N : c[n] = IF n = 0 THEN <<>> ELSE c[n - 1] \o p[n]
    BY <1>7
  <2>2. 0 \in 0 .. N /\ \A n \in 1 .. N : n \in 0 .. N /\ n # 0
    BY <1>1
  <2> QED BY <2>1, <2>2, Zenon
<1>9. \A n \in 0 .. N : c[n] \in Seq(Cells)
  <2>1. c[0] \in Seq(Cells)
    BY <1>8
  <2>2. ASSUME NEW n \in 1 .. N, c[n - 1] \in Seq(Cells) PROVE c[n] \in Seq(Cells)
    <3>1. p[n] \in Seq(Cells) /\ c[n] = c[n - 1] \o p[n]
      BY <1>1, <1>8, Zenon
    <3> QED BY <2>2, <3>1
  <2> QED BY <1>1, <2>1, <2>2, UnrollType
<1> QED BY <1>1, <1>2, <1>8, <1>9 DEF N

\* All the pieces are the file's data.
LEMMA DataWhole ==
  ASSUME ScanTypes, NEW k \in Paths
  PROVE  Data(k) = DataUpTo(image[k].pieces)[Len(image[k].pieces)]
<1> DEFINE pieces == image[k].pieces
           N == Len(pieces)
           p == Parts(pieces)
           d == DataUpTo(pieces)
           Eq(f) == f = [i \in 1 .. N |-> IF i = 1 THEN p[i] ELSE f[i - 1] \o p[i]]
           c == CHOOSE f : Eq(f)
<1>1. pieces \in Seq(Pieces) /\ N \in Nat /\ DOMAIN pieces = 1 .. N
  BY EntryFacts
<1>2. p \in Seq(Seq(Cells)) /\ Len(p) = N /\ \A n \in 1 .. N : p[n] = Bytes(pieces[n], pieces[n].block)
  BY <1>1, PartsFacts
<1>3. Data(k) = FlattenSeq(p)
  BY <1>1 DEF Data, Parts
<1>4. /\ d[0] = <<>> /\ \A n \in 1 .. N : d[n] = d[n - 1] \o p[n]
      /\ \A n \in 0 .. N : d[n] \in Seq(Cells)
  BY <1>1, <1>2, DataFacts
<1>5. CASE N = 0
  <2>1. FlattenSeq(p) = p /\ p = <<>>
    BY <1>2, <1>5 DEF FlattenSeq
  <2> QED BY <1>3, <1>4, <1>5, <2>1
<1>6. CASE N # 0
  <2>1. FlattenSeq(p) = c[N]
    BY <1>2, <1>6 DEF FlattenSeq
  <2> HIDE DEF pieces, N, p, d
  <2>2. \A i \in 1 .. N : i - 1 \in 0 .. N /\ p[i] \in Seq(Cells) /\ (i # 1 => i - 1 \in 1 .. N)
    BY <1>1, <1>2
  <2>3. 1 \in 1 .. N => d[1] = p[1]
    <3> SUFFICES ASSUME 1 \in 1 .. N PROVE d[1] = p[1]
      OBVIOUS
    <3>1. d[1] = d[1 - 1] \o p[1] /\ p[1] \in Seq(Cells)
      BY <1>4, <2>2, Zenon
    <3>2. d[1 - 1] = <<>>
      BY <1>4
    <3> QED BY <3>1, <3>2
  <2>4. Eq([i \in 1 .. N |-> d[i]])
    BY <1>1, <1>4, <2>2, <2>3
  <2>5. Eq(c)
    <3> DEFINE g == [i \in 1 .. N |-> d[i]]
    <3>1. Eq(g)
      BY <2>4
    <3> HIDE DEF Eq, g
    <3> QED BY <3>1
  <2> HIDE DEF c
  <2> DEFINE Same(i) == i + 1 <= N => c[i + 1] = d[i + 1]
             Ns == {i \in Nat : Same(i)}
  <2>6. Same(0)
    BY <1>1, <2>3, <2>5
  <2>7. ASSUME NEW i \in Nat, Same(i) PROVE Same(i + 1)
    <3> SUFFICES ASSUME (i + 1) + 1 <= N PROVE c[(i + 1) + 1] = d[(i + 1) + 1]
      OBVIOUS
    <3>1. (i + 1) + 1 \in 1 .. N /\ (i + 1) + 1 # 1 /\ ((i + 1) + 1) - 1 = i + 1 /\ i + 1 <= N
      BY <1>1
    <3>2. c[i + 1] = d[i + 1]
      BY <2>7, <3>1
    <3>3. c[(i + 1) + 1] = c[((i + 1) + 1) - 1] \o p[(i + 1) + 1]
      BY <2>5, <3>1
    <3>4. d[(i + 1) + 1] = d[((i + 1) + 1) - 1] \o p[(i + 1) + 1]
      BY <1>4, <3>1, Zenon
    <3> QED BY <3>1, <3>2, <3>3, <3>4
  <2> HIDE DEF Same
  <2>8. Ns \in SUBSET Nat /\ 0 \in Ns /\ \A i \in Ns : i + 1 \in Ns
    BY <2>6, <2>7
  <2> HIDE DEF Ns
  <2>9. Ns = Nat
    BY <2>8, NatInd
  <2>10. N - 1 \in Nat /\ (N - 1) + 1 = N /\ N <= N
    BY <1>1, <1>6
  <2>11. Same(N - 1)
    BY <2>9, <2>10 DEF Ns
  <2>12. c[N] = d[N]
    BY <2>10, <2>11 DEF Same
  <2> QED BY <1>3, <2>1, <2>12 DEF N, d, pieces
<1> QED BY <1>5, <1>6


-----------------------------------------------------------------------------
(* Writing a file with holes.                                              *)

IsFile(f) == f = [content |-> f.content, pos |-> f.pos, broken |-> f.broken, past |-> f.past]

\* Every call leaves a file a file.
LEMMA StaysFile ==
  ASSUME NEW f, IsFile(f)
  PROVE  /\ \A bytes : IsFile(Put(f, bytes)) /\ Put(f, bytes).broken = f.broken /\ Put(f, bytes).past = f.past
         /\ \A broken : IsFile([f EXCEPT !.broken = broken])
         /\ \A data : IsFile(Opened(data, f))
         /\ \A off : IsFile([f EXCEPT !.pos = @ + off])
<1>1. ASSUME NEW bytes PROVE IsFile(Put(f, bytes)) /\ Put(f, bytes).broken = f.broken /\ Put(f, bytes).past = f.past
  <2>1. PICK p, c : Put(f, bytes) = [f EXCEPT !.pos = p, !.content = c]
    BY DEF Put
  <2> QED BY <2>1 DEF IsFile
<1>2. \A broken : IsFile([f EXCEPT !.broken = broken])
  BY DEF IsFile
<1>3. \A data : IsFile(Opened(data, f))
  BY DEF IsFile, Opened
<1>4. \A off : IsFile([f EXCEPT !.pos = @ + off])
  BY DEF IsFile
<1> QED BY <1>1, <1>2, <1>3, <1>4

LEMMA WriteStaysFile ==
  ASSUME NEW f, IsFile(f), NEW bytes, NEW hole
  PROVE  IsFile(Skip(f, hole)) /\ IsFile(WriteBlock(f, bytes, hole))
<1>1. IsFile(Skip(f, hole))
  <2>1. CASE Skip(f, hole) = f
    BY <2>1
  <2>2. CASE Skip(f, hole) = [Put(f, Zeros(hole)) EXCEPT !.broken = TRUE]
    <3>1. PICK g : g = Put(f, Zeros(hole)) /\ IsFile(g)
      BY StaysFile
    <3>2. IsFile([g EXCEPT !.broken = TRUE])
      BY <3>1, StaysFile
    <3> QED BY <2>2, <3>1, <3>2
  <2>3. CASE Skip(f, hole) = [f EXCEPT !.pos = @ + hole]
    BY <2>3, StaysFile
  <2> QED BY <2>1, <2>2, <2>3 DEF Skip
<1>2. PICK g : g = Skip(f, hole) /\ IsFile(g)
  BY <1>1
<1>3. IsFile(Put(g, bytes))
  BY <1>2, StaysFile
<1> QED BY <1>1, <1>2, <1>3 DEF WriteBlock

LEMMA EndStaysFile ==
  ASSUME NEW f, IsFile(f), NEW hole, NEW size
  PROVE  IsFile(EndHole(f, hole, size))
<1>1. CASE EndHole(f, hole, size) = WriteBlock(f, <<Zero>>, Int32(hole - 1))
  BY <1>1, WriteStaysFile
<1>2. CASE EndHole(f, hole, size) = [f EXCEPT !.pos = @ + hole, !.content = Resize(@, size)]
  BY <1>2 DEF IsFile
<1> QED BY <1>1, <1>2 DEF EndHole

\* r is s followed by t, which are a and b cells.
Joins(r, s, a, t, b) ==
  /\ r \in Seq(Cells) /\ Len(r) = a + b
  /\ \A k \in 1 .. a : r[k] = s[k]
  /\ \A k \in 1 .. b : r[a + k] = t[k]
LEMMA ConcatFacts ==
  ASSUME NEW s \in Seq(Cells), NEW t \in Seq(Cells), NEW a, a = Len(s), NEW b, b = Len(t)
  PROVE  Joins(s \o t, s, a, t, b)
BY DEF Joins

LEMMA ZerosAdd ==
  ASSUME NEW s \in Seq(Cells), NEW a \in Nat, NEW b \in Nat
  PROVE  (s \o Zeros(a)) \o Zeros(b) = s \o Zeros(a + b)
<1> DEFINE x == Zeros(a)
           y == Zeros(b)
           z == Zeros(a + b)
<1>1. /\ x \in Seq(Cells) /\ Len(x) = a /\ (\A k \in 1 .. a : x[k] = Zero)
      /\ y \in Seq(Cells) /\ Len(y) = b /\ (\A k \in 1 .. b : y[k] = Zero)
      /\ z \in Seq(Cells) /\ Len(z) = a + b /\ \A k \in 1 .. a + b : z[k] = Zero
  BY ZerosFacts
<1> HIDE DEF x, y, z
<1>2. PICK q, l, r : q = s \o x /\ l = q \o y /\ r = s \o z
  OBVIOUS
<1>3. PICK m \in Nat : m = Len(s)
  OBVIOUS
<1>4. Joins(q, s, m, x, a) /\ q \in Seq(Cells) /\ Len(q) = m + a
  <2>1. Joins(q, s, m, x, a)
    BY <1>1, <1>2, <1>3, ConcatFacts
  <2> QED BY <2>1 DEF Joins
<1>5. Joins(l, q, m + a, y, b) /\ Joins(r, s, m, z, a + b)
  BY <1>1, <1>2, <1>3, <1>4, ConcatFacts
<1>6. ASSUME NEW k \in 1 .. m + a + b PROVE l[k] = r[k]
  <2>1. CASE k \in 1 .. m
    BY <1>4, <1>5, <2>1 DEF Joins
  <2>2. CASE k \in m + 1 .. m + a
    <3>1. k - m \in 1 .. a /\ k - m \in 1 .. a + b /\ m + (k - m) = k /\ k \in 1 .. m + a
      BY <2>2
    <3>2. q[m + (k - m)] = x[k - m] /\ r[m + (k - m)] = z[k - m] /\ l[k] = q[k]
      BY <1>4, <1>5, <3>1, Zenon DEF Joins
    <3> QED BY <1>1, <3>1, <3>2
  <2>3. CASE k \in m + a + 1 .. m + a + b
    <3>1. k - (m + a) \in 1 .. b /\ k - m \in 1 .. a + b /\ m + (k - m) = k /\ (m + a) + (k - (m + a)) = k
      BY <2>3
    <3>2. l[(m + a) + (k - (m + a))] = y[k - (m + a)] /\ r[m + (k - m)] = z[k - m]
      BY <1>5, <3>1, Zenon DEF Joins
    <3> QED BY <1>1, <3>1, <3>2
  <2> QED BY <2>1, <2>2, <2>3
<1>7. l \in Seq(Cells) /\ r \in Seq(Cells) /\ Len(l) = m + a + b /\ Len(r) = m + a + b
  BY <1>5 DEF Joins
<1>8. l = r
  BY <1>6, <1>7, SeqEqual
<1> QED BY <1>2, <1>8 DEF x, y, z

\* What lies between the end and the offset is zero.
LEMMA PutFacts ==
  ASSUME NEW f, IsFile(f), f.content \in Seq(Cells), f.pos \in Nat, Len(f.content) <= f.pos, NEW bytes \in Seq(Cells)
  PROVE  /\ Put(f, bytes).content = (f.content \o Zeros(f.pos - Len(f.content))) \o bytes
         /\ Put(f, bytes).pos = f.pos + Len(bytes)
<1> DEFINE c == f.content
           n == f.pos - Len(c)
           z == Zeros(n)
           end == f.pos + Len(bytes)
           size == IF end > Len(c) THEN end ELSE Len(c)
           cell(k) == IF k \in f.pos + 1 .. end THEN bytes[k - f.pos] ELSE IF k <= Len(c) THEN c[k] ELSE Zero
           w == [k \in 1 .. size |-> cell(k)]
<1>1. Put(f, bytes).content = w /\ Put(f, bytes).pos = end
  BY DEF Put, IsFile
<1>2. c \in Seq(Cells) /\ Len(c) \in Nat /\ f.pos \in Nat /\ n \in Nat /\ f.pos = Len(c) + n /\ Len(bytes) \in Nat
  OBVIOUS
<1>3. z \in Seq(Cells) /\ Len(z) = n /\ \A k \in 1 .. n : z[k] = Zero
  BY <1>2, ZerosFacts
<1>4. size = end /\ end = Len(c) + n + Len(bytes)
  BY <1>2
<1> HIDE DEF c, n, z
<1>5. PICK q, r : q = c \o z /\ r = q \o bytes
  OBVIOUS
<1>6. PICK m \in Nat, o \in Nat : m = Len(c) /\ o = Len(bytes)
  BY <1>2
<1>7. Joins(q, c, m, z, n) /\ q \in Seq(Cells) /\ Len(q) = f.pos
  <2>1. Joins(q, c, m, z, n)
    BY <1>2, <1>3, <1>5, <1>6, ConcatFacts
  <2> QED BY <1>2, <1>6, <2>1 DEF Joins
<1>8. Joins(r, q, f.pos, bytes, o)
  BY <1>5, <1>6, <1>7, ConcatFacts
<1>9. ASSUME NEW k \in 1 .. end PROVE r[k] = cell(k)
  <2>1. CASE k \in f.pos + 1 .. end
    <3>1. k - f.pos \in 1 .. o /\ f.pos + (k - f.pos) = k
      BY <1>2, <1>6, <2>1
    <3>2. r[f.pos + (k - f.pos)] = bytes[k - f.pos]
      BY <1>8, <3>1, Zenon DEF Joins
    <3> QED BY <2>1, <3>1, <3>2
  <2>2. CASE k \in 1 .. m
    <3>1. k \in 1 .. f.pos /\ k \notin f.pos + 1 .. end /\ k <= Len(c)
      BY <1>2, <1>6, <2>2
    <3> QED BY <1>7, <1>8, <2>2, <3>1 DEF Joins
  <2>3. CASE k \in m + 1 .. f.pos
    <3>1. k - m \in 1 .. n /\ m + (k - m) = k /\ k \in 1 .. f.pos
          /\ k \notin f.pos + 1 .. end /\ ~(k <= Len(c))
      BY <1>2, <1>6, <2>3
    <3>2. q[m + (k - m)] = z[k - m] /\ r[k] = q[k]
      BY <1>7, <1>8, <3>1, Zenon DEF Joins
    <3> QED BY <1>3, <3>1, <3>2
  <2> QED BY <1>2, <1>4, <1>6, <2>1, <2>2, <2>3
<1>10. r = w
  <2>1. r = [k \in 1 .. end |-> r[k]]
    <3>1. \A x \in Seq(Cells) : x = [k \in 1 .. Len(x) |-> x[k]]
      OBVIOUS
    <3>2. r \in Seq(Cells) /\ Len(r) = end
      BY <1>6, <1>8 DEF Joins
    <3> QED BY <3>1, <3>2
  <2> HIDE DEF cell
  <2> QED BY <1>4, <1>9, <2>1
<1> QED BY <1>1, <1>5, <1>10 DEF c, n, z

LEMMA ConcatType ==
  ASSUME NEW s \in Seq(Cells), NEW t \in Seq(Cells)
  PROVE  s \o t \in Seq(Cells) /\ Len(s \o t) = Len(s) + Len(t) /\ Len(s) \in Nat /\ Len(t) \in Nat
OBVIOUS

LEMMA ZerosNone ==
  ASSUME NEW s \in Seq(Cells)
  PROVE  s \o Zeros(0) = s
<1>1. Zeros(0) = <<>>
  BY DEF Zeros
<1>2. s \o <<>> = s
  OBVIOUS
<1> QED BY <1>1, <1>2

\* A block is written behind the hole, however that is made.
LEMMA WriteBlockFacts ==
  ASSUME NEW f, IsFile(f), f.content \in Seq(Cells), f.pos = Len(f.content), NEW hole \in Nat, NEW bytes \in Seq(Cells)
  PROVE  LET w == WriteBlock(f, bytes, hole)
         IN  /\ w.content = (f.content \o Zeros(hole)) \o bytes
             /\ w.content \in Seq(Cells) /\ w.pos = Len(w.content)
<1> DEFINE w == WriteBlock(f, bytes, hole)
           c == f.content
           n == Len(c)
<1>1. n \in Nat /\ f.pos = n /\ f.pos \in Nat /\ n - n = 0
  OBVIOUS
<1>2. Zeros(hole) \in Seq(Cells) /\ Len(Zeros(hole)) = hole
  BY ZerosFacts
<1>3. /\ c \o Zeros(hole) \in Seq(Cells) /\ Len(c \o Zeros(hole)) = n + hole
      /\ (c \o Zeros(hole)) \o bytes \in Seq(Cells) /\ Len((c \o Zeros(hole)) \o bytes) = n + hole + Len(bytes)
  <2>1. PICK q : q = c \o Zeros(hole)
    OBVIOUS
  <2>2. q \in Seq(Cells) /\ Len(q) = n + hole
    BY <1>1, <1>2, <2>1, ConcatType
  <2>3. q \o bytes \in Seq(Cells) /\ Len(q \o bytes) = Len(q) + Len(bytes)
    BY <2>2, ConcatType
  <2> QED BY <2>1, <2>2, <2>3
<1>4. PICK g : g = Skip(f, hole) /\ IsFile(g)
  BY WriteStaysFile
\* Either the zeros are there, or the offset is behind them.
<1>5. /\ g.pos = n + hole
      /\ g.content = c \o Zeros(hole) \/ g.content = c
  <2>1. CASE hole = 0
    BY <1>1, <1>4, <2>1, ZerosNone DEF Skip
  <2>2. CASE hole # 0 /\ (f.broken \/ ~CanSeek(f, hole))
    <3>1. PICK h : h = Put(f, Zeros(hole)) /\ IsFile(h)
      BY StaysFile
    <3>2. h.content = (c \o Zeros(0)) \o Zeros(hole) /\ h.pos = n + hole
      <4>1. Len(c) <= f.pos /\ f.pos - Len(c) = 0
        BY <1>1
      <4>2. h.content = (c \o Zeros(f.pos - Len(c))) \o Zeros(hole) /\ h.pos = f.pos + Len(Zeros(hole))
        BY <1>1, <1>2, <3>1, <4>1, PutFacts
      <4> QED BY <1>1, <1>2, <4>1, <4>2
    <3>3. g = [h EXCEPT !.broken = TRUE]
      BY <1>4, <2>2, <3>1 DEF Skip
    <3>4. g.content = h.content /\ g.pos = h.pos
      BY <3>1, <3>3 DEF IsFile
    <3> QED BY <1>1, <3>2, <3>4, ZerosNone
  <2>3. CASE hole # 0 /\ ~(f.broken \/ ~CanSeek(f, hole))
    <3>1. g = [f EXCEPT !.pos = @ + hole]
      BY <1>4, <2>3 DEF Skip
    <3>2. g.content = c /\ g.pos = f.pos + hole
      BY <3>1 DEF IsFile
    <3> QED BY <1>1, <3>2
  <2> QED BY <2>1, <2>2, <2>3
<1>6. w = Put(g, bytes)
  BY <1>4 DEF WriteBlock
<1>7. g.pos \in Nat
  BY <1>1, <1>5
<1>8. w.content = (c \o Zeros(hole)) \o bytes /\ w.pos = n + hole + Len(bytes)
  <2>1. CASE g.content = c \o Zeros(hole)
    <3>1. g.content \in Seq(Cells) /\ Len(g.content) <= g.pos /\ g.pos - Len(g.content) = 0
      BY <1>1, <1>3, <1>5, <2>1
    <3>2. w.content = (g.content \o Zeros(0)) \o bytes /\ w.pos = g.pos + Len(bytes)
      BY <1>4, <1>6, <1>7, <3>1, PutFacts
    <3> QED BY <1>5, <2>1, <3>1, <3>2, ZerosNone
  <2>2. CASE g.content = c
    <3>1. g.content \in Seq(Cells) /\ Len(g.content) <= g.pos /\ g.pos - Len(g.content) = hole
      BY <1>1, <1>5, <2>2
    <3>2. w.content = (g.content \o Zeros(hole)) \o bytes /\ w.pos = g.pos + Len(bytes)
      BY <1>4, <1>6, <1>7, <3>1, PutFacts
    <3> QED BY <1>5, <2>2, <3>2
  <2> QED BY <1>5, <2>1, <2>2
<1> QED BY <1>3, <1>8

\* The last hole, made by the file's size or by a zero at its end.
LEMMA EndHoleFacts ==
  ASSUME NEW f, IsFile(f), f.content \in Seq(Cells), f.pos = Len(f.content), NEW hole \in 1 .. HalfInt - 1
  PROVE  EndHole(f, hole, Len(f.content) + hole).content = f.content \o Zeros(hole)
<1> DEFINE c == f.content
           n == Len(c)
           e == EndHole(f, hole, n + hole)
<1>1. n \in Nat /\ f.pos = n /\ hole \in Nat /\ hole - 1 \in Nat
  BY HalfIntAssumption
<1>2. CASE CanSeek(f, hole)
  <2>1. e.content = Resize(c, n + hole)
    BY <1>2 DEF EndHole, IsFile
  <2>2. PICK r : r = c \o Zeros(hole) /\ Joins(r, c, n, Zeros(hole), hole)
    BY <1>1, ZerosFacts, ConcatFacts
  <2>3. ASSUME NEW k \in 1 .. n + hole PROVE r[k] = IF k <= n THEN c[k] ELSE Zero
    <3>1. CASE k \in 1 .. n
      BY <1>1, <2>2, <3>1 DEF Joins
    <3>2. CASE k \in n + 1 .. n + hole
      <4>1. k - n \in 1 .. hole /\ n + (k - n) = k /\ ~(k <= n)
        BY <1>1, <3>2
      <4>2. r[n + (k - n)] = Zeros(hole)[k - n] /\ Zeros(hole)[k - n] = Zero
        BY <1>1, <2>2, <4>1, ZerosFacts, Zenon DEF Joins
      <4> QED BY <4>1, <4>2
    <3> QED BY <1>1, <3>1, <3>2
  <2>4. r = [k \in 1 .. n + hole |-> r[k]]
    <3>1. \A x \in Seq(Cells) : x = [k \in 1 .. Len(x) |-> x[k]]
      OBVIOUS
    <3>2. r \in Seq(Cells) /\ Len(r) = n + hole
      BY <2>2 DEF Joins
    <3> QED BY <3>1, <3>2
  <2>5. r = Resize(c, n + hole)
    BY <2>3, <2>4 DEF Resize
  <2> QED BY <2>1, <2>2, <2>5
<1>3. CASE ~CanSeek(f, hole)
  <2>1. Int32(hole - 1) = hole - 1
    <3>1. HalfInt \in Nat \ {0} /\ hole - 1 + HalfInt \in 0 .. 2 * HalfInt - 1
      BY <1>1, HalfIntAssumption
    <3>2. PICK m, x : m = 2 * HalfInt /\ x = hole - 1 + HalfInt
      OBVIOUS
    <3>3. m \in Nat \ {0} /\ x \in 0 .. m - 1
      BY <3>1, <3>2
    <3>4. x % m = x
      BY <3>3
    <3>5. (hole - 1 + HalfInt) % (2 * HalfInt) = hole - 1 + HalfInt
      BY <3>2, <3>4
    <3> QED BY <1>1, <3>1, <3>5 DEF Int32
  <2>2. e = WriteBlock(f, <<Zero>>, hole - 1)
    BY <1>3, <2>1 DEF EndHole
  <2>3. <<Zero>> \in Seq(Cells) /\ <<Zero>> = Zeros(1)
    <3>1. Zero \in Cells
      BY DEF Zero, Cells
    <3>2. <<Zero>> = [k \in 1 .. 1 |-> Zero]
      OBVIOUS
    <3> QED BY <3>1, <3>2 DEF Zeros
  <2>4. e.content = (c \o Zeros(hole - 1)) \o Zeros(1)
    <3>1. WriteBlock(f, <<Zero>>, hole - 1).content = (f.content \o Zeros(hole - 1)) \o <<Zero>>
      BY <1>1, <2>3, WriteBlockFacts
    <3> QED BY <2>2, <2>3, <3>1
  <2>5. (c \o Zeros(hole - 1)) \o Zeros(1) = c \o Zeros((hole - 1) + 1)
    BY <1>1, ZerosAdd
  <2>6. (hole - 1) + 1 = hole
    BY <1>1
  <2>7. e.content = c \o Zeros(hole)
    BY <2>4, <2>5, <2>6
  <2> QED BY <2>7
<1> QED BY <1>2, <1>3


-----------------------------------------------------------------------------
(* What is in the buffers, and which pieces have one.                      *)

LEMMA FilledStep ==
  ASSUME ScanTypes, CacheTypes, WriterTypes, Scan, Counts, Pending, Filled, Next
  PROVE  Filled'
<1>0. \A b \in Buffers : cache[b] \in Slots
  BY DEF CacheTypes
<1> SUFFICES ASSUME NEW b \in Buffers, cache'[b].block # None, ~cache'[b].pending, ~cache'[b].error
             PROVE  cache'[b].data = cache'[b].block
  BY DEF Filled
<1>1. cache[b].block # None /\ ~cache[b].pending /\ ~cache[b].error => cache[b].data = cache[b].block
  BY DEF Filled
\* Only its use count changes, or nothing.
<1>2. CASE \E n : cache'[b] = [cache[b] EXCEPT !.used = n]
  BY <1>0, <1>1, <1>2 DEF Slots
<1>3. CASE cache'[b] = cache[b]
  BY <1>1, <1>3
<1>4. CASE \E c \in Buffers : GetHit(c)
  <2>1. PICK c \in Buffers : cache' = [cache EXCEPT ![c].used = @ + 1]
    BY <1>4 DEF GetHit, Hit
  <2>2. cache'[b] = cache[b] \/ cache'[b] = [cache[b] EXCEPT !.used = @ + 1]
    BY <2>1 DEF CacheTypes
  <2> QED BY <1>2, <1>3, <2>2
<1>5. CASE GetNew
  <2> DEFINE c == New(Head(rest).kind)
  <2>1. /\ Getting /\ (Unused(Head(rest).kind) # {} \/ free[Head(rest).kind] # <<>>)
        /\ Take(c, Head(rest).block)
    BY <1>5 DEF GetNew, New
  <2>2. c \in Buffers
    BY <2>1, NewFacts
  <2> HIDE DEF c
  <2>3. b # c => cache'[b] = cache[b]
    BY <2>1, <2>2 DEF Take, CacheTypes
  <2>4. cache'[c].pending
    BY <1>0, <2>1, <2>2 DEF Take, CacheTypes, Slots
  <2> QED BY <1>3, <2>3, <2>4
<1>6. CASE Read
  <2>1. reader \in Buffers
    BY <1>6 DEF Read, CacheTypes, Hand
  <2>2. CASE b # reader
    <3>1. cache'[b] = cache[b]
      BY <1>6, <2>1, <2>2 DEF Read, Ready, CacheTypes
    <3> QED BY <1>3, <3>1
  <2>3. CASE b = reader
    <3>1. cache[b].pending
      <4>1. Is(reader, {b}) = 1
        BY <2>3 DEF Is
      <4>2. Fills(b) # 0
        BY <4>1, FillsType DEF Fills
      <4>3. PendingOf(b)
        BY NextRuns DEF Pending
      <4> QED BY <4>2, <4>3 DEF PendingOf
    <3>2. CASE cache' = [cache EXCEPT ![reader].data = "compressed"]
      BY <1>0, <2>3, <3>1, <3>2 DEF CacheTypes, Slots
    <3>3. CASE Ready(reader, cache[reader].block, FALSE)
      BY <1>0, <2>3, <3>3 DEF Ready, CacheTypes, Slots
    <3>4. CASE Ready(reader, cache[reader].data, TRUE)
      BY <1>0, <2>3, <3>4 DEF Ready, CacheTypes, Slots
    <3> QED BY <1>6, <3>2, <3>3, <3>4, Zenon DEF Read
  <2> QED BY <2>2, <2>3
<1>7. CASE \E d \in Deflators : Inflate(d)
  <2>1. PICK d \in Deflators : Inflate(d)
    BY <1>7
  <2>2. PICK c \in Buffers : Ready(c, cache[c].block, FALSE)
    BY <2>1 DEF Inflate, CacheTypes, Hand
  <2>3. CASE b # c
    <3>1. cache'[b] = cache[b]
      BY <2>2, <2>3 DEF Ready, CacheTypes
    <3> QED BY <1>3, <3>1
  <2>4. CASE b = c
    BY <1>0, <2>2, <2>4 DEF Ready, CacheTypes, Slots
  <2> QED BY <2>3, <2>4
<1>8. CASE WriterBlock
  <2>1. PICK c \in Buffers : cache' = [cache EXCEPT ![c].used = @ - 1]
    BY <1>8 DEF WriterBlock, PutBack, WriterTypes
  <2>2. cache'[b] = cache[b] \/ cache'[b] = [cache[b] EXCEPT !.used = @ - 1]
    BY <2>1 DEF CacheTypes
  <2> QED BY <1>2, <1>3, <2>2
<1>9. CASE Link \/ Special \/ Open \/ OpenFails \/ GetSleep \/ PutToReader \/ Give \/ SendEnd \/ Exit \/ ReaderTake
           \/ WriterFile \/ WriterEnd \/ WriterTake \/ WriterSleep \/ WriterClose \/ \E d \in Deflators : DeflatorTake(d) \/ Abort(d)
  <2>1. cache' = cache
    BY <1>9 DEF LinkTo, EntryFails, Link, Special, Open, OpenFails, GetSleep, PutToReader, Give, SendEnd, Exit, ReaderTake, WriterFile,
                WriterEnd, WriterTake, WriterSleep, WriterClose, DeflatorTake, Abort, cacheVars
  <2> QED BY <1>3, <2>1
<1> QED BY <1>4, <1>5, <1>6, <1>7, <1>8, <1>9 DEF Next, Main, Reader, Writer, Deflator

IsMatched(m) == m.type = "piece" => (m.buffer = None <=> m.piece.kind = "hole")
LEMMA MatchedStep ==
  ASSUME ScanTypes, CacheTypes, WriterTypes, Scan, InOrder, Matched, Next
  PROVE  Matched'
<1>1. toWriter \in Seq(Messages) /\ Len(toWriter) \in Nat
  BY DEF WriterTypes
<1>2. \A n \in 1 .. Len(toWriter) : IsMatched(toWriter[n])
  BY DEF Matched, IsMatched
<1>3. ASSUME Give PROVE IsMatched([type |-> "piece", piece |-> Head(rest), buffer |-> buffer])
  <2>1. CASE pc = "give"
    BY <2>1, KindFacts DEF Matched, Scan, IsMatched
  <2>2. CASE pc = "get" /\ Head(rest).kind = "hole"
    BY <2>2 DEF Scan, IsMatched
  <2> QED BY <1>3, <2>1, <2>2 DEF Give
<1>4. \A n \in 1 .. Len(toWriter') : IsMatched(toWriter'[n])
  <2>1. CASE toWriter' = toWriter
    BY <1>2, <2>1
  <2>2. CASE toWriter # <<>> /\ toWriter' = Tail(toWriter)
    <3>1. \A k \in 1 .. Len(toWriter') : k + 1 \in 1 .. Len(toWriter) /\ toWriter'[k] = toWriter[k + 1]
      BY <1>1, <2>2, TailFacts
    <3> QED BY <1>2, <3>1
  <2>3. ASSUME NEW m, toWriter' = Append(toWriter, m), IsMatched(m)
        PROVE  \A n \in 1 .. Len(toWriter') : IsMatched(toWriter'[n])
    <3> TAKE n \in 1 .. Len(toWriter')
    <3>1. CASE n = Len(toWriter) + 1
      BY <1>1, <2>3, <3>1
    <3>2. CASE n # Len(toWriter) + 1
      <4>1. n \in 1 .. Len(toWriter)
        BY <1>1, <2>3, <3>2
      <4>2. toWriter'[n] = toWriter[n]
        BY <1>1, <2>3, <4>1
      <4> QED BY <1>2, <4>1, <4>2
    <3> QED BY <3>1, <3>2
  <2>4. IsMatched([type |-> "file", path |-> at]) /\ IsMatched([type |-> "end"])
    BY DEF IsMatched
  <2> QED BY <1>3, <2>1, <2>2, <2>3, <2>4, QueueMoves
<1>5. writer'.step = "block" => writer'.piece.kind # "hole"
  <2>1. CASE writer' = writer
    BY <2>1 DEF Matched
  <2>2. CASE WriterTake
    <3>1. Running
      BY NextRuns
    <3>2. Head(toWriter) = toWriter[1] /\ toWriter[1] \in Messages /\ toWriter[1].type = "piece"
      BY <2>2, <3>1, TakesPiece
    <3>3. 1 \in 1 .. Len(toWriter) /\ writer \in WriterStates /\ writer.step = "file"
      BY <1>1, <2>2, TailFacts DEF WriterTake, WriterTypes
    <3>4. IsMatched(toWriter[1])
      BY <1>2, <3>3
    <3>5. CASE toWriter[1].buffer = None
      <4>1. writer'.step = "file"
        BY <2>2, <3>2, <3>3, <3>5 DEF WriterTake, WriterStates
      <4> QED BY <4>1
    <3>6. CASE toWriter[1].buffer # None
      <4>1. writer'.piece = toWriter[1].piece
        BY <2>2, <3>2, <3>3, <3>6 DEF WriterTake, WriterStates
      <4>2. toWriter[1].piece.kind # "hole"
        BY <3>2, <3>4, <3>6 DEF IsMatched
      <4> QED BY <4>1, <4>2
    <3> QED BY <3>5, <3>6
  <2>3. CASE WriterFile
    <3>1. \E p, l : writer' = [Idle EXCEPT !.step = "file", !.path = p, !.left = l]
      BY <2>3 DEF WriterFile
    <3> QED BY <3>1 DEF Idle
  <2>4. CASE WriterClose
    BY <2>4, WriterMoves
  <2>5. CASE WriterBlock
    <3>1. PICK failed : writer' = AfterBlock(failed)
      BY <2>5 DEF WriterBlock
    <3>2. writer'.step = "file"
      BY <3>1 DEF AfterBlock, WriterTypes, WriterStates
    <3> QED BY <3>2
  <2> QED BY <2>1, <2>2, <2>3, <2>4, <2>5 DEF Next, Main, Reader, Writer, Deflator, LinkTo, EntryFails, Link, Special, Open, OpenFails, GetHit, GetNew,
             GetSleep, PutToReader, Give, SendEnd, Exit, ReaderTake, Read, DeflatorTake, Inflate, Abort, WriterEnd, WriterSleep
<1>6. pc' \in {"read", "give"} => Head(rest').kind # "hole"
  <2>1. CASE (pc' = pc \/ pc = "read") /\ rest' = rest
    BY <2>1 DEF Matched
  <2>2. CASE pc' \notin {"read", "give"}
    BY <2>2
  <2>3. CASE Getting /\ rest' = rest
    BY <2>3 DEF Getting
  <2>4. CASE Give \/ Open
    <3>1. pc' \notin {"read", "give"}
      BY <2>4 DEF Give, Open, NextEntry
    <3> QED BY <3>1
  <2> QED BY <2>1, <2>2, <2>3, <2>4 DEF Next, Main, Reader, Writer, Deflator, LinkTo, EntryFails, Link, Special, OpenFails, GetHit, GetNew,
             GetSleep, PutToReader, SendEnd, Exit, ReaderTake, Read, DeflatorTake, Inflate, Abort, WriterFile, WriterEnd,
             WriterTake, WriterSleep, WriterBlock, WriterClose, scanVars, NextEntry, LastStep
<1> QED BY <1>4, <1>5, <1>6 DEF Matched, IsMatched


-----------------------------------------------------------------------------
(* Files are sent in the order of their paths, and no file twice.           *)

LEMMA TakenKept ==
  ASSUME ScanTypes, Scan, Next, NEW k \in Paths, Taken(k), pc' # "aborted"
  PROVE  Taken(k)'
<1>1. k \in Nat /\ at \in Nat
  BY EntryFacts DEF ScanTypes
<1>2. CASE UNCHANGED at /\ (Sending => Sending')
  BY <1>2 DEF Taken
<1>3. CASE at' = at + 1
  BY <1>1, <1>3 DEF Taken
<1> QED BY <1>2, <1>3 DEF Next, Main, Reader, Writer, Deflator, LinkTo, EntryFails, Link, Special, Open, OpenFails, GetHit, GetNew,
       GetSleep, PutToReader, Give, SendEnd, Exit, ReaderTake, Read, DeflatorTake, Inflate, Abort, WriterFile, WriterEnd,
       WriterTake, WriterSleep, WriterBlock, WriterClose, scanVars, NextEntry, Sending, Getting

\* Of the files that are created, only the writer's changes.
LEMMA ContentKept ==
  ASSUME ScanTypes, WriterTypes, Next, DOMAIN content = Paths
  PROVE  /\ DOMAIN content' = Paths
         /\ \A k \in Paths : Taken(k) /\ (writer.step = "idle" \/ writer.path # k) => content'[k] = content[k]
         /\ ~(WriterBlock \/ WriterClose) => \A k \in Paths : Taken(k) => content'[k] = content[k]
<1>0. Paths = 1 .. Len(image) /\ Len(image) \in Nat
  BY EntryFacts
<1>1. CASE Special \/ Open
  <2>1. pc = "next" /\ (content' = content \/ content' = [content EXCEPT ![at] = <<>>])
    BY <1>1 DEF EntryFails, Special, Open, OpenFile
  <2>2. \A k \in Paths : Taken(k) => k # at
    BY <1>0, <2>1 DEF Taken, Sending
  <2> QED BY <2>1, <2>2
<1>2. CASE WriterBlock \/ WriterClose
  <2>1. writer.step # "idle" /\ (content' = content \/ \E c : content' = [content EXCEPT ![writer.path] = c])
    BY <1>2 DEF WriterBlock, WriterClose
  <2>2. \E c, p : p = writer.path /\ (content' = content \/ content' = [content EXCEPT ![p] = c])
    BY <2>1
  <2>3. PICK c, p : p = writer.path /\ (content' = content \/ content' = [content EXCEPT ![p] = c])
    BY <2>2
  <2>4. DOMAIN content' = Paths /\ \A k \in Paths : k # p => content'[k] = content[k]
    BY <2>3
  <2> QED BY <1>2, <2>1, <2>3, <2>4
<1>3. CASE content' = content
  BY <1>3
<1> QED BY <1>1, <1>2, <1>3 DEF Next, Main, Reader, Writer, Deflator, LinkTo, EntryFails, Link, OpenFails, GetHit, GetNew, diskVars,
       GetSleep, PutToReader, Give, SendEnd, Exit, ReaderTake, Read, DeflatorTake, Inflate, Abort, WriterFile, WriterEnd,
       WriterTake, WriterSleep

\* A file that is new to the queue is the scan's.
LEMMA SentNew ==
  ASSUME ScanTypes, WriterTypes, Scan, InOrder, Next
  PROVE  \A f \in FilesSent' : f \in FilesSent \/ (Open /\ f = at)
<1>1. CASE Open
  BY <1>1, SentOpen
<1>2. CASE toWriter' = toWriter \/ Give \/ SendEnd
  BY <1>2, SentSame
<1>3. CASE toWriter # <<>> /\ toWriter' = Tail(toWriter)
  BY <1>3, SentTail DEF WriterTypes
<1> QED BY <1>1, <1>2, <1>3, QueueMoves

\* The writer's file is the one it had, or the first in the queue.
LEMMA WriterPath ==
  ASSUME WriterTypes, Next
  PROVE  \/ writer'.step = "idle"
         \/ writer.step # "idle" /\ writer'.path = writer.path
         \/ WriterFile /\ writer'.path = Head(toWriter).path
<1>1. CASE WriterFile
  <2>1. \E l : writer' = [Idle EXCEPT !.step = "file", !.path = Head(toWriter).path, !.left = l]
    BY <1>1 DEF WriterFile
  <2>2. writer'.path = Head(toWriter).path
    BY <2>1 DEF Idle
  <2> QED BY <1>1, <2>2
<1>2. CASE WriterTake \/ WriterBlock \/ WriterClose
  BY <1>2, WriterMoves
<1>3. CASE writer' = writer
  <2>1. writer.step # "idle" \/ writer.step = "idle"
    OBVIOUS
  <2> QED BY <1>3, <2>1
<1> QED BY <1>1, <1>2, <1>3 DEF Next, Main, Reader, Writer, Deflator, LinkTo, EntryFails, Link, Special, Open, OpenFails, GetHit, GetNew,
       GetSleep, PutToReader, Give, SendEnd, Exit, ReaderTake, Read, DeflatorTake, Inflate, Abort, WriterEnd, WriterSleep

Before(m, n) == m.type = "file" /\ n.type = "file" => m.path < n.path
LEMMA RisingStep ==
  ASSUME ScanTypes, CacheTypes, WriterTypes, Scan, InOrder, Firsts, DOMAIN content = Paths, Rising, Next, pc' # "aborted"
  PROVE  Rising'
<1>0. /\ toWriter \in Seq(Messages) /\ Len(toWriter) \in Nat /\ Paths = 1 .. Len(image) /\ Len(image) \in Nat
      /\ FilesSent \subseteq Paths /\ (writer.step # "idle" => writer.path \in Paths) /\ at \in Nat
  BY EntryFacts DEF WriterTypes, Firsts, ScanTypes
<1>1. \A i, j \in 1 .. Len(toWriter) : i < j => Before(toWriter[i], toWriter[j])
  BY DEF Rising, Before
<1>2. \A f \in FilesSent : Taken(f) /\ content[f] = <<>> /\ (writer.step # "idle" => writer.path < f)
  BY DEF Rising
<1> PICK new : new = at
  OBVIOUS
<1>3. Open => /\ pc = "next" /\ at \in Paths /\ content'[new] = <<>> /\ Taken(new)' /\ \A k \in Paths : Taken(k) => k < at
  <2> SUFFICES ASSUME Open
               PROVE  pc = "next" /\ at \in Paths /\ content'[new] = <<>> /\ Taken(new)' /\ \A k \in Paths : Taken(k) => k < at
    OBVIOUS
  <2>1. pc = "next" /\ More /\ content' = [content EXCEPT ![at] = <<>>]
        /\ ((pc' = "get" /\ at' = at) \/ (pc' = "next" /\ at' = at + 1))
    BY DEF Open, OpenFile, NextEntry
  <2>2. at \in Paths
    BY <1>0, <2>1 DEF More, ScanTypes
  <2> QED BY <1>0, <2>1, <2>2 DEF Taken, Sending
\* The queue stays in order.
<1>4. \A i, j \in 1 .. Len(toWriter') : i < j => Before(toWriter'[i], toWriter'[j])
  <2>1. CASE toWriter' = toWriter
    BY <1>1, <2>1
  <2>2. CASE toWriter # <<>> /\ toWriter' = Tail(toWriter)
    <3>1. \A k \in 1 .. Len(toWriter') : k + 1 \in 1 .. Len(toWriter) /\ toWriter'[k] = toWriter[k + 1]
      BY <1>0, <2>2, TailFacts
    <3>2. \A i, j \in Int : i < j => i + 1 < j + 1
      OBVIOUS
    <3> QED BY <1>1, <3>1, <3>2
  <2>3. ASSUME NEW m, toWriter' = Append(toWriter, m), m.type = "file" => Open /\ m.path = at
        PROVE  \A i, j \in 1 .. Len(toWriter') : i < j => Before(toWriter'[i], toWriter'[j])
    <3> SUFFICES ASSUME NEW i \in 1 .. Len(toWriter'), NEW j \in 1 .. Len(toWriter'), i < j
                 PROVE  Before(toWriter'[i], toWriter'[j])
      OBVIOUS
    <3>1. i \in 1 .. Len(toWriter) /\ toWriter'[i] = toWriter[i]
      BY <1>0, <2>3
    <3>2. CASE j = Len(toWriter) + 1
      <4>1. toWriter'[j] = m
        BY <1>0, <2>3, <3>2
      <4>2. toWriter[i].type = "file" => toWriter[i].path \in FilesSent
        BY <3>1 DEF FilesSent
      <4>3. toWriter[i].type = "file" /\ m.type = "file" => toWriter[i].path < at
        BY <1>0, <1>2, <1>3, <2>3, <4>2
      <4> QED BY <2>3, <3>1, <4>1, <4>3 DEF Before
    <3>3. CASE j # Len(toWriter) + 1
      <4>1. j \in 1 .. Len(toWriter) /\ toWriter'[j] = toWriter[j]
        BY <1>0, <2>3, <3>3
      <4> QED BY <1>1, <3>1, <4>1
    <3> QED BY <3>2, <3>3
  <2> QED BY <2>1, <2>2, <2>3, QueueMoves
<1>5. ASSUME NEW f \in FilesSent' PROVE Taken(f)' /\ content'[f] = <<>> /\ (writer'.step # "idle" => writer'.path < f)
  <2>1. f \in FilesSent \/ (Open /\ f = at)
    BY SentNew
  <2>2. Taken(f)' /\ content'[f] = <<>>
    <3>1. CASE f \in FilesSent
      <4>1. f \in Paths /\ Taken(f) /\ content[f] = <<>> /\ (writer.step = "idle" \/ writer.path # f)
        BY <1>0, <1>2, <3>1
      <4> QED BY <4>1, TakenKept, ContentKept
    <3> QED BY <1>3, <2>1, <3>1
  <2>3. ASSUME writer'.step # "idle" PROVE writer'.path < f
    <3>1. CASE writer.step # "idle" /\ writer'.path = writer.path
      BY <1>0, <1>2, <1>3, <2>1, <3>1 DEF Rising
    <3>2. CASE WriterFile /\ writer'.path = Head(toWriter).path
      <4>1. /\ toWriter # <<>> /\ Head(toWriter).type = "file" /\ toWriter' = Tail(toWriter)
        BY <3>2 DEF WriterFile
      <4>2. /\ Head(toWriter) = toWriter[1] /\ 1 \in 1 .. Len(toWriter)
            /\ \A k \in 1 .. Len(toWriter') : k + 1 \in 1 .. Len(toWriter) /\ toWriter'[k] = toWriter[k + 1]
        BY <1>0, <4>1, TailFacts
      <4>3. PICK k \in 1 .. Len(toWriter') : toWriter'[k].type = "file" /\ toWriter'[k].path = f
        BY DEF FilesSent
      <4>4. 1 < k + 1
        OBVIOUS
      <4>5. Before(toWriter[1], toWriter[k + 1])
        BY <1>1, <4>2, <4>4
      <4> QED BY <3>2, <4>1, <4>2, <4>3, <4>5 DEF Before
    <3> QED BY <2>3, <3>1, <3>2, WriterPath
  <2> QED BY <2>2, <2>3
<1>7. ASSUME writer'.step # "idle", NEW p, p = writer'.path PROVE Taken(p)'
  <2>1. CASE writer.step # "idle" /\ writer'.path = writer.path
    BY <1>0, <1>7, <2>1, TakenKept DEF Rising
  <2>2. CASE WriterFile /\ writer'.path = Head(toWriter).path
    <3>1. p \in FilesSent
      BY <1>7, <2>2, SentFile
    <3> QED BY <1>0, <1>2, <3>1, TakenKept
  <2> QED BY <1>7, <2>1, <2>2, WriterPath
<1> QED BY <1>4, <1>5, <1>7 DEF Rising, Before, Taken, Sending


LEMMA Completes ==
  ASSUME Next
  PROVE  \/ complete' = complete
         \/ Special /\ complete' = complete \cup {at}
         \/ WriterClose /\ complete' = complete \cup {writer.path}
<1>1. CASE Special
  BY <1>1 DEF EntryFails, Special
<1>2. CASE WriterClose
  BY <1>2 DEF WriterClose
<1>3. CASE Link \/ Open \/ OpenFails \/ GetNew \/ GetSleep \/ PutToReader \/ Give \/ SendEnd \/ Exit \/ \E b \in Buffers : GetHit(b)
  BY <1>3 DEF LinkTo, EntryFails, Link, Open, OpenFails, GetHit, GetNew, GetSleep, PutToReader, Give, SendEnd, Exit, diskVars
<1>4. CASE ReaderTake \/ Read \/ \E d \in Deflators : DeflatorTake(d) \/ Inflate(d) \/ Abort(d)
  BY <1>4 DEF ReaderTake, Read, DeflatorTake, Inflate, Abort, diskVars
<1>5. CASE WriterFile \/ WriterEnd \/ WriterTake \/ WriterSleep \/ WriterBlock
  BY <1>5 DEF WriterFile, WriterEnd, WriterTake, WriterSleep, WriterBlock, diskVars
<1> QED BY <1>1, <1>2, <1>3, <1>4, <1>5 DEF Next, Main, Reader, Writer, Deflator

LEMMA KeptStep ==
  ASSUME ScanTypes, WriterTypes, Scan, InOrder, Firsts, Rising, Kept, Next, pc' # "aborted"
  PROVE  Kept'
<1>0. /\ Paths = 1 .. Len(image) /\ Len(image) \in Nat /\ at \in Nat /\ Paths' = Paths
      /\ FilesSent \subseteq Paths /\ (writer.step # "idle" => writer.path \in Paths)
  BY EntryFacts, ImageSame DEF WriterTypes, Firsts, ScanTypes
<1>1. pc = "next" => \A k \in Paths : Taken(k) => k < at
  BY DEF Taken, Sending
<1> SUFFICES ASSUME NEW k \in complete' PROVE k \in Paths /\ Taken(k)' /\ ~OnWay(k)'
  BY <1>0 DEF Kept, Taken, OnWay
<1>2. k \in complete \/ (Special /\ k = at) \/ (WriterClose /\ k = writer.path)
  BY Completes
\* What is on its way after the step was so before, or is new.
<1>3. OnWay(k)' => OnWay(k) \/ (Open /\ k = at)
  <2>1. k \in FilesSent' => k \in FilesSent \/ (Open /\ k = at)
    BY SentNew
  <2>2. writer'.step # "idle" /\ writer'.path = k => OnWay(k)
    <3>1. CASE WriterFile /\ writer'.path = Head(toWriter).path
      BY <3>1, SentFile DEF OnWay
    <3> QED BY <3>1, WriterPath DEF OnWay
  <2> QED BY <2>1, <2>2 DEF OnWay
<1>4. CASE k \in complete
  <2>1. k \in Paths /\ Taken(k) /\ ~OnWay(k)
    BY <1>4 DEF Kept
  <2>2. ~(Open /\ k = at)
    BY <1>0, <1>1, <2>1 DEF Open
  <2> QED BY <1>3, <2>1, <2>2, TakenKept
<1>5. CASE Special /\ k = at
  <2>1. pc = "next" /\ More /\ at' = at + 1 /\ UNCHANGED <<toWriter, writer>>
    BY <1>5 DEF EntryFails, Special, NextEntry
  <2>2. k \in Paths
    BY <1>0, <1>5, <2>1 DEF More, ScanTypes
  <2>3. Taken(k)'
    BY <1>0, <1>5, <2>1 DEF Taken
  <2>4. \A f \in FilesSent : f < at
    BY <1>0, <1>1, <2>1 DEF Rising
  <2>5. writer.step # "idle" => writer.path < at
    <3> SUFFICES ASSUME writer.step # "idle" PROVE writer.path < at
      OBVIOUS
    <3>1. PICK p : p = writer.path
      OBVIOUS
    <3>2. p \in Paths /\ Taken(p)
      BY <1>0, <3>1 DEF Rising
    <3> QED BY <1>1, <2>1, <3>1, <3>2
  <2>6. ~OnWay(k)
    BY <1>0, <1>5, <2>4, <2>5 DEF OnWay
  <2>7. OnWay(k)' = OnWay(k)
    BY <2>1 DEF OnWay, FilesSent
  <2> QED BY <2>2, <2>3, <2>6, <2>7
<1>6. CASE WriterClose /\ k = writer.path
  <2>1. writer.step # "idle" /\ writer'.step = "idle" /\ toWriter' = toWriter
    BY <1>6, WriterMoves DEF WriterClose
  <2>2. k \in Paths /\ Taken(k)
    BY <1>0, <1>6, <2>1 DEF Rising
  <2>3. FilesSent' = FilesSent /\ \A f \in FilesSent : k < f
    BY <1>6, <2>1 DEF Rising, FilesSent
  <2>4. k \notin FilesSent'
    <3>1. k \in Nat /\ ~(k < k)
      BY <1>0, <2>2
    <3> QED BY <2>3, <3>1
  <2> QED BY <2>1, <2>2, <2>4, TakenKept DEF OnWay
<1> QED BY <1>2, <1>4, <1>5, <1>6

-----------------------------------------------------------------------------
(* What the writer has written.                                            *)

LEMMA Int32Same ==
  ASSUME NEW n \in 0 .. HalfInt - 1
  PROVE  Int32(n) = n
<1>1. HalfInt \in Nat \ {0}
  BY HalfIntAssumption
<1>2. PICK m, x : m = 2 * HalfInt /\ x = n + HalfInt
  OBVIOUS
<1>3. m \in Nat \ {0} /\ x \in 0 .. m - 1
  BY <1>1, <1>2
<1>4. x % m = x
  BY <1>3
<1> QED BY <1>1, <1>2, <1>4 DEF Int32

\* A hole adds up with the one before.
LEMMA WrittenHole ==
  ASSUME NEW pieces \in Seq(Pieces), NEW done \in 0 .. Len(pieces) - 1, NEW hole, NEW data, NEW f,
         HasWritten(pieces, done, hole, data, f), pieces[done + 1].kind = "hole",
         HolesUpTo(pieces)[Len(pieces)] < HalfInt
  PROVE  HasWritten(pieces, done + 1, Int32(hole + pieces[done + 1].size), data, f)
<1> DEFINE piece == pieces[done + 1]
           size == piece.size
           n == done + 1
           holes == HolesUpTo(pieces)
<1>1. n \in 1 .. Len(pieces) /\ n \in 0 .. Len(pieces) /\ n - 1 = done /\ done \in 0 .. Len(pieces) /\ Len(pieces) \in 0 .. Len(pieces)
  OBVIOUS
<1>2. piece \in Pieces /\ size \in Nat /\ piece.block \in Datas
  BY <1>1, PartsFacts, BytesFacts
<1>3. /\ holes[n] = holes[n - 1] + HoleOf(piece) /\ holes[n] \in Nat /\ holes[n] <= holes[Len(pieces)]
      /\ holes[n - 1] \in Nat /\ holes[Len(pieces)] \in Nat
  BY <1>1, HolesFacts
<1>4. HoleOf(piece) = size
  BY DEF HoleOf
<1>5. hole \in 0 .. holes[done] /\ f.content \in Seq(Cells) /\ DataUpTo(pieces)[done] = f.content \o Zeros(hole)
      /\ data = f.content /\ f.pos = Len(f.content)
  BY DEF HasWritten
<1> HIDE DEF holes
<1>6. hole \in Nat /\ hole + size \in 0 .. holes[n] /\ hole + size \in 0 .. HalfInt - 1
  <2>1. PICK a, b, c : a = holes[n] /\ b = holes[n - 1] /\ c = holes[Len(pieces)]
    OBVIOUS
  <2>2. a \in Nat /\ b \in Nat /\ c \in Nat /\ a = b + size /\ a <= c /\ c < HalfInt /\ hole \in 0 .. b
    BY <1>1, <1>3, <1>4, <1>5, <2>1 DEF holes
  <2> HIDE DEF size, n
  <2>3. size \in Nat /\ HalfInt \in Nat
    BY <1>2, HalfIntAssumption
  <2>4. hole \in Nat /\ hole + size \in 0 .. a /\ hole + size \in 0 .. HalfInt - 1
    BY <2>2, <2>3
  <2> QED BY <2>1, <2>4
<1>7. Int32(hole + size) = hole + size
  BY <1>6, Int32Same
<1>8. DataUpTo(pieces)[n] = f.content \o Zeros(hole + size)
  <2>1. DataUpTo(pieces)[n] = DataUpTo(pieces)[n - 1] \o Bytes(piece, piece.block)
    BY <1>1, DataFacts
  <2>2. Bytes(piece, piece.block) = Zeros(size)
    BY <1>2, BytesFacts
  <2>3. DataUpTo(pieces)[n] = (f.content \o Zeros(hole)) \o Zeros(size)
    BY <1>1, <1>5, <2>1, <2>2
  <2> QED BY <1>2, <1>5, <1>6, <2>3, ZerosAdd
<1>9. HasWritten(pieces, n, hole + size, data, f)
  BY <1>1, <1>5, <1>6, <1>8 DEF HasWritten, holes
<1> QED BY <1>7, <1>9

\* A block is written behind the hole.
LEMMA WrittenBlock ==
  ASSUME NEW pieces \in Seq(Pieces), NEW done \in 0 .. Len(pieces) - 1, NEW hole, NEW data, NEW f, IsFile(f),
         HasWritten(pieces, done, hole, data, f),
         NEW w, w = WriteBlock(f, Bytes(pieces[done + 1], pieces[done + 1].block), hole)
  PROVE  HasWritten(pieces, done + 1, 0, w.content, w)
<1> DEFINE piece == pieces[done + 1]
           n == done + 1
           bytes == Bytes(piece, piece.block)
<1>1. n \in 1 .. Len(pieces) /\ n \in 0 .. Len(pieces) /\ n - 1 = done /\ done \in 0 .. Len(pieces)
  OBVIOUS
<1>2. piece \in Pieces /\ bytes \in Seq(Cells)
  BY <1>1, PartsFacts, BytesFacts
<1>3. HolesUpTo(pieces)[n] \in Nat /\ HolesUpTo(pieces)[done] \in Nat
  BY <1>1, HolesFacts
<1>4. hole \in Nat /\ f.content \in Seq(Cells) /\ DataUpTo(pieces)[done] = f.content \o Zeros(hole)
      /\ f.pos = Len(f.content)
  BY <1>3 DEF HasWritten
<1>5. w.content = (f.content \o Zeros(hole)) \o bytes /\ w.content \in Seq(Cells) /\ w.pos = Len(w.content)
  BY <1>2, <1>4, WriteBlockFacts
<1>6. DataUpTo(pieces)[n] = DataUpTo(pieces)[n - 1] \o bytes
  BY <1>1, DataFacts
<1>7. DataUpTo(pieces)[n] = w.content \o Zeros(0)
  BY <1>1, <1>4, <1>5, <1>6, ZerosNone
<1>8. 0 \in 0 .. HolesUpTo(pieces)[n]
  BY <1>3
<1> QED BY <1>1, <1>5, <1>7, <1>8 DEF HasWritten

\* The hole at the end makes the file whole.
LEMMA WrittenEnd ==
  ASSUME NEW pieces \in Seq(Pieces), NEW hole, NEW data, NEW f, IsFile(f),
         HasWritten(pieces, Len(pieces), hole, data, f), HolesUpTo(pieces)[Len(pieces)] < HalfInt
  PROVE  LET whole == DataUpTo(pieces)[Len(pieces)]
         IN  (IF hole # 0 THEN EndHole(f, hole, Len(whole)) ELSE f).content = whole
<1> DEFINE n == Len(pieces)
           whole == DataUpTo(pieces)[n]
<1>1. n \in 0 .. Len(pieces) /\ HolesUpTo(pieces)[n] \in Nat /\ HalfInt \in Nat
  BY HolesFacts, HalfIntAssumption
<1>2. /\ hole \in 0 .. HolesUpTo(pieces)[n] /\ f.content \in Seq(Cells) /\ f.pos = Len(f.content)
      /\ whole = f.content \o Zeros(hole)
  BY DEF HasWritten
<1>3. hole \in Nat /\ hole < HalfInt
  BY <1>1, <1>2
<1>4. CASE hole = 0
  BY <1>2, <1>4, ZerosNone
<1>5. CASE hole # 0
  <2>1. hole \in 1 .. HalfInt - 1
    BY <1>1, <1>3, <1>5
  <2>2. Len(whole) = Len(f.content) + hole
    BY <1>2, <1>3, ZerosFacts, ConcatType
  <2>3. EndHole(f, hole, Len(f.content) + hole).content = whole
    BY <1>2, <2>1, EndHoleFacts
  <2> QED BY <1>5, <2>2, <2>3
<1> QED BY <1>4, <1>5


\* The piece that the writer takes is the next of its file.
LEMMA NextPiece ==
  ASSUME ScanTypes, WriterTypes, InOrder, Running, WriterTake
  PROVE  /\ writer.path \in Paths /\ writer.left \in 1 .. Len(image[writer.path].pieces)
         /\ Head(toWriter).piece = image[writer.path].pieces[Len(image[writer.path].pieces) - writer.left + 1]
<1>1. /\ toWriter # <<>> /\ writer.step = "file" /\ writer.left > 0 /\ toWriter \in Seq(Messages)
      /\ writer \in WriterStates /\ writer.path \in Paths
  BY DEF WriterTake, WriterTypes
<1>2. PICK s : Whole(s)
  BY DEF InOrder, Running
<1>3. /\ Head(toWriter) = toWriter[1] /\ s[0] \in Stages(image)
      /\ s[0] = [path |-> writer.path, left |-> writer.left] /\ Follows(image, s[0], toWriter[1], s[1])
  BY <1>1, <1>2, WholeHead DEF Owed
<1>4. s[0].left = writer.left /\ s[0].path = writer.path /\ s[0].left > 0
  BY <1>1, <1>3
<1>5. toWriter[1].piece = image[s[0].path].pieces[Len(image[s[0].path].pieces) - s[0].left + 1]
  <2>1. ~(s[0].left = 0)
    BY <1>4
  <2> QED BY <1>3, <2>1, Zenon DEF Follows
<1>6. writer.left <= Len(image[writer.path].pieces) /\ writer.left \in Nat
  BY <1>1, <1>3, <1>4 DEF Stages, WriterStates
<1>7. Len(image[writer.path].pieces) \in Nat
  BY <1>1, EntryFacts
<1> QED BY <1>1, <1>3, <1>4, <1>5, <1>6, <1>7

LEMMA WrittenStep ==
  ASSUME ScanTypes, CacheTypes, WriterTypes, Scan, InOrder, Counts, Owned, Firsts,
         DOMAIN content = Paths, IsFile(out), Filled, Matched, Rising, Written, Next, pc' # "aborted"
  PROVE  Written'
<1>0. /\ image' = image /\ Paths' = Paths /\ Running /\ writer \in WriterStates
      /\ toWriter \in Seq(Messages)
      /\ FilesSent \subseteq Paths /\ (writer.step # "idle" => writer.path \in Paths /\ Taken(writer.path))
  BY ImageSame, NextRuns DEF WriterTypes, Firsts, Rising
<1> SUFFICES ASSUME writer'.step # "idle", ~writer'.failed, NEW p, p = writer'.path,
                    HolesUpTo(image[p].pieces)[Len(image[p].pieces)] < HalfInt
             PROVE  HasWritten(image[p].pieces, Len(image[p].pieces) - writer'.left, writer'.hole, content'[p], out')
  BY <1>0 DEF Written, Fits, HoleSize
<1> DEFINE pieces == image[p].pieces
           n == Len(pieces)
\* The file is the one the writer had.
<1>1. ASSUME writer.step # "idle", ~writer.failed, p = writer.path
      PROVE  /\ p \in Paths /\ Taken(p) /\ pieces \in Seq(Pieces) /\ n \in Nat
             /\ HasWritten(pieces, n - writer.left, writer.hole, content[p], out)
  <2>1. p \in Paths /\ Taken(p)
    BY <1>0, <1>1
  <2>2. pieces \in Seq(Pieces) /\ n \in Nat
    BY <2>1, EntryFacts
  <2>3. HasWritten(pieces, n - writer.left, writer.hole, content[p], out)
    BY <1>1 DEF Written, Fits, HoleSize
  <2> QED BY <2>1, <2>2, <2>3
<1>2. CASE WriterFile
  <2>1. /\ toWriter # <<>> /\ Head(toWriter).type = "file" /\ UNCHANGED content
        /\ writer' = [step |-> "file", path |-> Head(toWriter).path, left |-> Len(image[Head(toWriter).path].pieces),
                      hole |-> 0, failed |-> FALSE, piece |-> None, buffer |-> None]
        /\ out' = Opened(content[Head(toWriter).path], out)
    BY <1>2 DEF WriterFile, Idle, diskVars
  <2>2. p = Head(toWriter).path /\ p \in FilesSent
    BY <1>2, <2>1, SentFile
  <2>3. p \in Paths /\ content[p] = <<>>
    BY <1>0, <2>2 DEF Rising
  <2>4. pieces \in Seq(Pieces) /\ n \in Nat
    BY <2>3, EntryFacts
  <2>5. out'.content = <<>> /\ out'.pos = 0 /\ content'[p] = <<>> /\ writer'.left = n /\ writer'.hole = 0
    BY <2>1, <2>2, <2>3 DEF Opened
  <2>6. <<>> \in Seq(Cells) /\ Len(<<>>) = 0 /\ 0 \in 0 .. n /\ n - n = 0
    BY <2>4
  <2>7. DataUpTo(pieces)[0] = <<>> /\ HolesUpTo(pieces)[0] = 0
    BY <2>4, DataFacts, HolesFacts
  <2>8. HasWritten(pieces, 0, 0, <<>>, out')
    <3>1. <<>> \o Zeros(0) = <<>>
      BY <2>6, ZerosNone, Zenon
    <3>0. 0 \in 0 .. 0
      OBVIOUS
    <3>2. out'.content \in Seq(Cells) /\ out'.pos = Len(out'.content) /\ DataUpTo(pieces)[0] = out'.content \o Zeros(0)
          /\ 0 \in 0 .. HolesUpTo(pieces)[0] /\ 0 \in 0 .. Len(pieces)
      BY <2>5, <2>6, <2>7, <3>0, <3>1
    <3> QED BY <2>5, <3>2 DEF HasWritten
  <2> QED BY <2>5, <2>6, <2>8
<1>3. CASE WriterTake
  <2>1. /\ writer.step = "file" /\ UNCHANGED <<out, content>>
        /\ writer' = IF Head(toWriter).buffer = None
                     THEN [writer EXCEPT !.left = @ - 1, !.hole = Int32(@ + Head(toWriter).piece.size)]
                     ELSE [writer EXCEPT !.step = "block", !.piece = Head(toWriter).piece, !.buffer = Head(toWriter).buffer]
    BY <1>3 DEF WriterTake, diskVars
  <2>2. writer'.path = writer.path /\ writer'.failed = writer.failed
    BY <1>0, <2>1 DEF WriterStates
  <2>3. /\ p \in Paths /\ pieces \in Seq(Pieces) /\ n \in Nat
        /\ HasWritten(pieces, n - writer.left, writer.hole, content[p], out)
    BY <1>1, <2>1, <2>2
  <2>4. writer.left \in 1 .. n /\ Head(toWriter).piece = pieces[n - writer.left + 1]
    BY <1>0, <1>3, <2>2, NextPiece
  <2>5. CASE Head(toWriter).buffer # None
    <3>1. writer'.left = writer.left /\ writer'.hole = writer.hole
      BY <1>0, <2>1, <2>5 DEF WriterStates
    <3> QED BY <2>1, <2>3, <3>1
  <2>6. CASE Head(toWriter).buffer = None
    <3>1. PICK done : done = n - writer.left
      OBVIOUS
    <3>2. done \in 0 .. n - 1 /\ n - (writer.left - 1) = done + 1
      BY <2>3, <2>4, <3>1
    <3>3. writer'.left = writer.left - 1 /\ writer'.hole = Int32(writer.hole + pieces[done + 1].size)
      BY <1>0, <2>1, <2>4, <2>6, <3>1 DEF WriterStates
    <3>4. pieces[done + 1].kind = "hole"
      <4>1. /\ Head(toWriter) = toWriter[1] /\ toWriter[1].type = "piece" /\ 1 \in 1 .. Len(toWriter)
        BY <1>0, <1>3, TakesPiece, TailFacts DEF WriterTake
      <4> QED BY <2>4, <2>6, <3>1, <4>1 DEF Matched
    <3>5. HasWritten(pieces, done + 1, Int32(writer.hole + pieces[done + 1].size), content[p], out)
      BY <2>3, <3>1, <3>2, <3>4, WrittenHole
    <3> QED BY <2>1, <3>2, <3>3, <3>5
  <2> QED BY <2>5, <2>6
<1>4. CASE WriterBlock
  <2>1. PICK b, w : b = writer.buffer /\ w = WriteBlock(out, Bytes(writer.piece, cache[b].data), writer.hole)
    OBVIOUS
  <2>2. writer.step = "block" /\ ~cache[b].pending
    BY <1>4, <2>1 DEF WriterBlock, MustWait
  <2>3. \A failed : AfterBlock(failed).failed = failed
    BY <1>0 DEF AfterBlock, WriterStates
  <2>4. /\ ~writer.failed /\ ~cache[b].error /\ writer' = AfterBlock(FALSE) /\ out' = w
        /\ content' = [content EXCEPT ![writer.path] = w.content]
    BY <1>4, <2>1, <2>3 DEF WriterBlock
  <2>5. writer'.path = writer.path /\ writer'.left = writer.left - 1 /\ writer'.hole = 0
    BY <1>0, <2>4 DEF AfterBlock, WriterStates
  <2>6. /\ p \in Paths /\ pieces \in Seq(Pieces) /\ n \in Nat
        /\ HasWritten(pieces, n - writer.left, writer.hole, content[p], out)
    BY <1>1, <2>2, <2>4, <2>5
  <2>7. b \in Buffers /\ writer.left \in 1 .. n /\ writer.piece = pieces[n - writer.left + 1]
    BY <2>1, <2>2, <2>5 DEF WriterTypes
  <2>8. PICK done : done = n - writer.left
    OBVIOUS
  <2>9. done \in 0 .. n - 1 /\ n - (writer.left - 1) = done + 1
    <3>1. PICK left, m : left = writer.left /\ m = n
      OBVIOUS
    <3>2. m \in Nat /\ left \in 1 .. m /\ done = m - left
      BY <2>6, <2>7, <2>8, <3>1
    <3>3. done \in 0 .. m - 1 /\ m - (left - 1) = done + 1
      BY <3>2
    <3> QED BY <3>1, <3>3
\* The buffer has the piece's block.
  <2>10. cache[b].data = writer.piece.block
    <3>1. cache[b].used > 0 /\ cache[b].block = writer.piece.block
      BY <2>1, <2>7, InUse, KindFacts DEF Owned
    <3>2. cache[b].block # None
      BY <2>7, <3>1 DEF Counts, CountOf
    <3> QED BY <2>2, <2>4, <2>7, <3>1, <3>2 DEF Filled
  <2>11. w = WriteBlock(out, Bytes(pieces[done + 1], pieces[done + 1].block), writer.hole)
    BY <2>1, <2>7, <2>8, <2>10
  <2>12. HasWritten(pieces, done + 1, 0, w.content, w)
    BY <2>6, <2>8, <2>9, <2>11, WrittenBlock
  <2>13. content'[p] = w.content
    BY <2>4, <2>5, <2>6
  <2> QED BY <2>4, <2>5, <2>9, <2>12, <2>13
<1>5. CASE WriterClose
  BY <1>5, WriterMoves
<1>6. CASE UNCHANGED <<writer, out>> /\ ~(WriterBlock \/ WriterClose)
  <2>1. /\ p \in Paths /\ Taken(p) /\ HasWritten(pieces, n - writer.left, writer.hole, content[p], out)
    BY <1>1, <1>6
  <2>2. content'[p] = content[p]
    BY <1>6, <2>1, ContentKept
  <2> QED BY <1>6, <2>1, <2>2
<1> QED BY <1>2, <1>3, <1>4, <1>5, <1>6 DEF Next, Main, Reader, Writer, Deflator, LinkTo, EntryFails, Link, Special, Open, OpenFails, GetHit, GetNew,
       GetSleep, PutToReader, Give, SendEnd, Exit, ReaderTake, Read, DeflatorTake, Inflate, Abort, WriterEnd, WriterSleep


LEMMA FileStep ==
  ASSUME IsFile(out), Next
  PROVE  IsFile(out')
<1>1. CASE WriterFile
  <2>1. out' = Opened(content[Head(toWriter).path], out)
    BY <1>1 DEF WriterFile
  <2> QED BY <2>1, StaysFile
<1>2. CASE WriterBlock
  <2>1. PICK w : w = WriteBlock(out, Bytes(writer.piece, cache[writer.buffer].data), writer.hole) /\ IsFile(w)
    BY WriteStaysFile
  <2>2. out' = out \/ out' = w \/ out' = [out EXCEPT !.broken = w.broken]
    BY <1>2, <2>1 DEF WriterBlock
  <2> QED BY <2>1, <2>2, StaysFile
<1>3. CASE WriterClose
  <2>1. PICK e : e = EndHole(out, writer.hole, Len(Data(writer.path))) /\ IsFile(e)
    BY EndStaysFile
  <2>2. out' = Opened(<<>>, e) \/ out' = Opened(<<>>, out)
    BY <1>3, <2>1 DEF WriterClose
  <2> QED BY <2>1, <2>2, StaysFile
<1>4. CASE out' = out
  BY <1>4
<1> QED BY <1>1, <1>2, <1>3, <1>4 DEF Next, Main, Reader, Writer, Deflator, LinkTo, EntryFails, Link, Special, Open, OpenFails, GetHit, GetNew,
       GetSleep, PutToReader, Give, SendEnd, Exit, ReaderTake, Read, DeflatorTake, Inflate, Abort, WriterEnd, WriterTake, WriterSleep

LEMMA CompleteStep ==
  ASSUME ScanTypes, WriterTypes, Scan, InOrder, Firsts,
         DOMAIN content = Paths, IsFile(out), Kept, Written, CompleteFiles, Next
  PROVE  CompleteFiles'
<1>0. image' = image /\ Paths' = Paths
  BY ImageSame
<1>1. \A k : HoleSize(k)' = HoleSize(k) /\ Data(k)' = Data(k)
  BY <1>0 DEF HoleSize, Data
<1> SUFFICES ASSUME NEW k \in complete', HoleSize(k) < HalfInt PROVE content'[k] = Data(k)
  BY <1>1 DEF CompleteFiles
<1>2. k \in complete \/ (Special /\ complete' = complete \cup {at} /\ k = at) \/ (WriterClose /\ k = writer.path /\ k \notin complete)
  BY Completes
<1>3. CASE k \in complete
  <2>1. k \in Paths /\ Taken(k) /\ ~OnWay(k) /\ content[k] = Data(k)
    BY <1>3 DEF Kept, CompleteFiles
  <2>2. content'[k] = content[k]
    BY <2>1, ContentKept DEF OnWay
  <2> QED BY <2>1, <2>2
<1>4. CASE Special /\ complete' = complete \cup {at} /\ k = at /\ k \notin complete
  <2>1. pc = "next" /\ More /\ ~Entry.file /\ content' = [content EXCEPT ![at] = <<>>]
    BY <1>4 DEF EntryFails, Special
  <2>2. at \in Paths
    BY <2>1, EntryFacts DEF More, ScanTypes
  <2>3. image[k].pieces = <<>>
    BY <1>4, <2>1, <2>2, UnsquashAssumption DEF Entry, ScanTypes, Paths
  <2>4. Data(k) = DataUpTo(image[k].pieces)[Len(image[k].pieces)]
    BY <1>4, <2>2, DataWhole
  <2>5. <<>> \in Seq(Pieces) /\ Len(<<>>) = 0
    OBVIOUS
  <2>6. Data(k) = <<>>
    BY <2>3, <2>4, <2>5, DataFacts
  <2> QED BY <1>4, <2>1, <2>2, <2>6
<1>5. CASE WriterClose /\ k = writer.path /\ k \notin complete
  <2> DEFINE pieces == image[k].pieces
  <2>1. PICK ended : ended = IF writer.hole # 0 /\ ~writer.failed THEN EndHole(out, writer.hole, Len(Data(k))) ELSE out
    OBVIOUS
  <2>2. /\ writer.step = "file" /\ writer.left = 0 /\ ~writer.failed
        /\ content' = [content EXCEPT ![k] = ended.content]
    BY <1>5, <2>1 DEF WriterClose
  <2>3. k \in Paths
    BY <1>5, <2>2 DEF WriterTypes
  <2>4. pieces \in Seq(Pieces) /\ Len(pieces) \in Nat /\ Len(pieces) - 0 = Len(pieces)
    BY <2>3, EntryFacts
  <2>5. HasWritten(pieces, Len(pieces), writer.hole, content[k], out)
    BY <1>5, <2>2, <2>4 DEF Written, Fits
  <2>6. Data(k) = DataUpTo(pieces)[Len(pieces)]
    BY <2>3, DataWhole
  <2>7. HolesUpTo(pieces)[Len(pieces)] < HalfInt
    BY DEF HoleSize
  <2>8. (IF writer.hole # 0 THEN EndHole(out, writer.hole, Len(Data(k))) ELSE out).content = Data(k)
    BY <2>4, <2>5, <2>6, <2>7, WrittenEnd
  <2>9. ended.content = Data(k)
    BY <2>1, <2>2, <2>8
  <2> QED BY <2>2, <2>3, <2>9
<1> QED BY <1>2, <1>3, <1>4, <1>5

LEMMA FilesInit ==
  ASSUME Init
  PROVE  FilesKept
<1>1. /\ DOMAIN content = Paths /\ complete = {} /\ toWriter = <<>> /\ writer.step = "idle" /\ pc = "next"
      /\ cache = [b \in Buffers |-> Empty]
  BY DEF Init, Idle
<1>2. IsFile(out)
  BY DEF Init, IsFile
<1>3. CompleteFiles /\ Kept /\ Written
  BY <1>1 DEF CompleteFiles, Kept, Written
<1>4. Filled
  BY <1>1 DEF Filled, Empty
<1>5. FilesSent = {} /\ 1 .. Len(toWriter) = {}
  BY <1>1 DEF FilesSent
<1>6. Matched /\ Rising
  BY <1>1, <1>5 DEF Matched, Rising
<1> QED BY <1>1, <1>2, <1>3, <1>4, <1>6 DEF FilesKept, IsFile

LEMMA FilesStep ==
  ASSUME Inductive, FilesKept, [Next]_vars
  PROVE  FilesKept'
<1>1. CASE Next
  <2> USE DEF Inductive
  <2>1. /\ DOMAIN content = Paths /\ IsFile(out) /\ CompleteFiles /\ Filled /\ Matched /\ Rising /\ Kept /\ Written
    BY <1>1, NextRuns DEF FilesKept, IsFile
  <2>2. DOMAIN content' = Paths /\ Paths' = Paths
    BY <1>1, <2>1, ContentKept, ImageSame
  <2>3. IsFile(out') /\ CompleteFiles'
    BY <1>1, <2>1, FileStep, CompleteStep
  <2>4. Filled' /\ Matched'
    BY <1>1, <2>1, FilledStep, MatchedStep
  <2>5. ASSUME Running' PROVE Rising' /\ Kept' /\ Written'
    <3>1. pc' # "aborted"
      BY <2>5 DEF Running
    <3> QED BY <1>1, <2>1, <3>1, RisingStep, KeptStep, WrittenStep
  <2> QED BY <2>2, <2>3, <2>4, <2>5 DEF FilesKept, IsFile
<1>2. CASE UNCHANGED vars
  <2>1. DOMAIN content' = Paths' /\ IsFile(out') /\ CompleteFiles'
    BY <1>2 DEF vars, FilesKept, IsFile, CompleteFiles, HoleSize, Data, Paths
  <2>2. Filled' = Filled /\ Matched' = Matched /\ Kept' = Kept /\ Running' = Running
    BY <1>2 DEF vars, Filled, Matched, Kept, Running, Taken, OnWay, FilesSent, Sending, Paths
  <2>3. Rising' = Rising
    BY <1>2 DEF vars, Rising, Taken, FilesSent, Sending
  <2>4. Written' = Written
    BY <1>2 DEF vars, Written, HasWritten, Fits, HoleSize
  <2> QED BY <2>1, <2>2, <2>3, <2>4 DEF FilesKept, IsFile
<1> QED BY <1>1, <1>2

\* A file that was given its attributes has the data of the image, whatever its cache
\* buffers and the file on the disk held before, and wherever its holes are: the
\* blocks the deflators leave in the buffers, write_block's seeks or zeros and the
\* last hole of writer, if the holes together fit an int.
THEOREM AlwaysCompleteFiles == Spec => []CompleteFiles
<1>1. Init => FilesKept
  BY FilesInit
<1>2. Inductive /\ FilesKept /\ [Next]_vars => FilesKept'
  BY FilesStep
<1>3. FilesKept => CompleteFiles
  BY DEF FilesKept
<1> QED BY <1>1, <1>2, <1>3, InductiveInvariant, PTL DEF Spec
=============================================================================
