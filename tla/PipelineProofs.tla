----------------------------- MODULE PipelineProofs -----------------------------
(***************************************************************************)
(* Proofs about Pipeline for any number of threads, buffers and tails in a *)
(* fragment, and for every source: that the main thread uses the source in *)
(* its order (OrderKept), that no buffer is lost to its cache or given     *)
(* back twice, and that while the blocks of a possible duplicate are held  *)
(* there is room for the next (Consistent).                                *)
(***************************************************************************)
EXTENDS Pipeline, FiniteSetTheorems, SequenceTheorems, WellFoundedInduction, TLAPS

-----------------------------------------------------------------------------
(* The inductive invariant.                                                *)

\* The threads' steps and what the queues hold.
Types ==
  /\ TypeOK /\ source \in Sources
  /\ reading \in BOOLEAN /\ locked \in BOOLEAN /\ fromWriter \in BOOLEAN
  /\ thresh \in Nat
  /\ fromReader \in Seq(Nat) /\ fromDeflate \in Seq(Nat) /\ toWriter \in Seq({"buffer", "flush"})
  /\ deflator \in [Deflators -> [step : {"idle", "taken", "deflated"}, seq : Int]]
  /\ fragDeflator \in [FragDeflators -> {"idle", "taken", "deflated", "deferred", "placed"}]

\* A number that the reader has given out and the main thread has not used is in one
\* place: in a queue, in a deflator's hands or in the hash.
Elems(s) == {s[k] : k \in 1 .. Len(s)}
Distinct(s) == \A j, k \in 1 .. Len(s) : s[j] = s[k] => j = k
Busy == {d \in Deflators : deflator[d].step # "idle"}
Hands == {deflator[d].seq : d \in Busy}
Blocks == {n \in Nat : ~Item(n).tail}
Tails == {n \in Nat : Item(n).tail}

Known ==
  /\ sequence <= next
  /\ Elems(fromReader) \cup Hands \cup Elems(fromDeflate) \cup blockHash \subseteq sequence .. next - 1
  /\ Elems(fromReader) \cup Hands \subseteq Blocks
Once ==
  /\ Distinct(fromReader) /\ Distinct(fromDeflate)
  /\ \A c, d \in Busy : deflator[c].seq = deflator[d].seq => c = d
  /\ Elems(fromReader) \cap Hands = {} /\ Elems(fromReader) \cap Elems(fromDeflate) = {}
  /\ Hands \cap Elems(fromDeflate) = {}
  /\ blockHash \cap (Elems(fromReader) \cup Hands \cup Elems(fromDeflate)) = {}

\* The main thread's steps follow one another, and what it has used is the source up
\* to its number.
InStep ==
  /\ done = [k \in 1 .. sequence |-> k - 1]
  /\ after = "drain" => (sequence = Total /\ pc \in {"unlock", "drain", "lastflush", "exited"})
  /\ pc \in {"drain", "lastflush", "exited"} => after = "drain"
  /\ pc \in {"compare", "flush"} => after = "take"
  /\ reading => next < Total

\* The buffers, counted by who has them.
CountIn(s, S) == Cardinality({k \in 1 .. Len(s) : s[k] \in S})
FragsAt(steps) == Cardinality({d \in FragDeflators : fragDeflator[d] \in steps})
One(b) == IF b THEN 1 ELSE 0
Is(e, S) == IF e \in S THEN 1 ELSE 0
TailInHand == pc = "fill" \/ (pc = "unlock" /\ after = "fill")

Queued(S) == CountIn(fromDeflate, S)
Hashed(S) == Cardinality(blockHash \cap S)
Flow(S) == Queued(S) + Hashed(S)
ToWrite == CountIn(toWriter, {"buffer"})

ReaderSum == One(reading) + Len(fromReader) + AtStep("taken") + Flow(Tails) + One(TailInHand)
WriterSum == AtStep("deflated") + held + pending + Flow(Blocks) + ToWrite
             + FragsAt({"deflated", "deferred", "placed"})
ReaderCounted == readerUsed = ReaderSum
WriterCounted == writerUsed = WriterSum
FragmentCounted ==
  fragmentUsed = One(fill > 0) + toFrag + FragsAt({"taken", "deflated", "deferred", "placed"})
OutstandingCounted == outstanding = toFrag + pending + FragsAt({"taken", "deflated", "deferred"})

\* Between two blocks of a file the main thread holds those from thresh on, and for a
\* possible duplicate the rest of the file fits into what the fragments leave.
Inside == sequence > 0 /\ ~LastOfFile(Item(sequence - 1))
HeldOf(it) == IF it.block + 1 > thresh THEN it.block + 1 - thresh ELSE 0
Room ==
  /\ Inside => pc = "take"
  /\ held > 0 => pc = "compare" \/ Inside
  /\ Inside => held = HeldOf(Item(sequence - 1))
  /\ Inside => IF Item(sequence - 1).file.dup
               THEN Item(sequence - 1).file.blocks - thresh <= WriterBuffers - outstanding
               ELSE thresh = Item(sequence - 1).file.blocks

IInv == /\ Types /\ Known /\ Once /\ InStep
        /\ ReaderCounted /\ WriterCounted /\ FragmentCounted /\ OutstandingCounted /\ Room

-----------------------------------------------------------------------------
(* Induction, and what FlattenSeq returns.                                 *)

\* A set of naturals has a least element.
LEMMA NatLeast ==
  ASSUME NEW T \in SUBSET Nat, T # {}
  PROVE  \E n \in T : \A m \in T : n <= m
<1> DEFINE R == OpToRel(<, Nat)
<1>1. IsWellFoundedOn(R, Nat)
  BY NatLessThanWellFounded
<1>2. \A x, y \in Nat : <<x, y>> \in R <=> x < y
  BY DEF OpToRel
<1> HIDE DEF R
<1>3. PICK n \in T : \A m \in T : ~(<<m, n>> \in R)
  BY <1>1, WFMin
<1>4. \A m \in T : n <= m
  <2> TAKE m \in T
  <2>1. ~(m < n)
    BY <1>2, <1>3, Zenon
  <2> QED BY <2>1
<1> QED BY <1>4, Zenon

\* Induction over the naturals, for a set of them.
LEMMA NatInd ==
  ASSUME NEW S \in SUBSET Nat, 0 \in S, \A n \in S : n + 1 \in S
  PROVE  S = Nat
<1> SUFFICES ASSUME Nat \ S # {} PROVE FALSE
  OBVIOUS
<1>1. PICK n \in Nat \ S : \A m \in Nat \ S : n <= m
  BY NatLeast
<1> QED BY <1>1

\* What concatenation keeps in a set of sequences is kept there by FlattenSeq.
LEMMA FlattenClosed ==
  ASSUME NEW T, \A a, b \in T : a \o b \in T, NEW seqs \in Seq(T), seqs # <<>>
  PROVE  FlattenSeq(seqs) \in T
<1> DEFINE Eq(g, n) == \A i \in 1 .. n : g[i] = IF i = 1 THEN seqs[i] ELSE g[i - 1] \o seqs[i]
           Has(n) == n <= Len(seqs) => \E g \in [1 .. n -> T] : Eq(g, n)
           Ns == {n \in Nat : Has(n + 1)}
<1>0. Len(seqs) \in Nat \ {0} /\ \A i \in 1 .. Len(seqs) : seqs[i] \in T
  OBVIOUS
<1>1. 0 \in Ns
  <2> DEFINE h == [i \in 1 .. 1 |-> seqs[1]]
  <2>1. seqs[1] \in T
    BY <1>0
  <2>2. h \in [1 .. 1 -> T] /\ Eq(h, 1)
    BY <2>1
  <2>3. Has(1)
    BY <2>2
  <2> QED BY <2>3
<1>2. ASSUME NEW n \in Nat, Has(n), n # 0
      PROVE  Has(n + 1)
  <2> SUFFICES ASSUME n + 1 <= Len(seqs) PROVE \E g \in [1 .. n + 1 -> T] : Eq(g, n + 1)
    OBVIOUS
  <2>0. n <= Len(seqs) /\ n # 0 /\ n \in 1 .. n
    BY <1>0, <1>2
  <2>1. PICK g \in [1 .. n -> T] : Eq(g, n)
    BY <1>2, <2>0
  <2> DEFINE h == [i \in 1 .. n + 1 |-> IF i = n + 1 THEN g[n] \o seqs[n + 1] ELSE g[i]]
  <2>2. g[n] \in T /\ seqs[n + 1] \in T
    BY <1>0, <2>0, <2>1
  <2>3. g[n] \o seqs[n + 1] \in T
    BY <2>2
  <2>4. h \in [1 .. n + 1 -> T]
    BY <2>3, <2>1
  <2>5. ASSUME NEW i \in 1 .. n + 1
        PROVE  h[i] = IF i = 1 THEN seqs[i] ELSE h[i - 1] \o seqs[i]
    <3>1. CASE i = n + 1
      <4>1. i # 1 /\ i - 1 = n /\ n \in 1 .. n + 1 /\ n + 1 \in 1 .. n + 1 /\ n # n + 1
        BY <2>0, <3>1
      <4>2. h[n] = g[n] /\ h[n + 1] = g[n] \o seqs[n + 1]
        BY <4>1
      <4> HIDE DEF h
      <4> QED BY <3>1, <4>1, <4>2
    <3>2. CASE i # n + 1
      <4>1. i \in 1 .. n /\ h[i] = g[i] /\ (i # 1 => h[i - 1] = g[i - 1])
        BY <3>2
      <4>2. g[i] = IF i = 1 THEN seqs[i] ELSE g[i - 1] \o seqs[i]
        BY <2>1, <4>1
      <4> HIDE DEF h
      <4> QED BY <4>1, <4>2
    <3> QED BY <3>1, <3>2
  <2>6. Eq(h, n + 1)
    <3> HIDE DEF h
    <3> QED BY <2>5
  <2> QED BY <2>4, <2>6, Zenon
<1>12. \A n \in Ns : n + 1 \in Ns
  <2> HIDE DEF Has
  <2> QED BY <1>2
<1>3. Has(Len(seqs))
  <2> HIDE DEF Has
  <2>1. Ns = Nat
    <3> HIDE DEF Ns
    <3>1. Ns \subseteq Nat
      BY DEF Ns
    <3> QED BY <1>1, <1>12, <3>1, NatInd
  <2>2. Len(seqs) - 1 \in Nat /\ (Len(seqs) - 1) + 1 = Len(seqs)
    BY <1>0
  <2>3. Has((Len(seqs) - 1) + 1)
    BY <2>1, <2>2
  <2> QED BY <2>2, <2>3
<1>4. PICK g \in [1 .. Len(seqs) -> T] : Eq(g, Len(seqs))
  BY <1>0, <1>3
<1> DEFINE F(f) == f = [i \in 1 .. Len(seqs) |-> IF i = 1 THEN seqs[i] ELSE f[i - 1] \o seqs[i]]
           c == CHOOSE f : F(f)
<1>5. F(g)
  BY <1>4
<1>6. F(c)
  <2> HIDE DEF F
  <2> QED BY <1>5
<1>7. FlattenSeq(seqs) = c[Len(seqs)]
  BY <1>0 DEF FlattenSeq
<1>8. \A i \in 1 .. Len(seqs) : c[i] = IF i = 1 THEN seqs[i] ELSE c[i - 1] \o seqs[i]
  <2> HIDE DEF c
  <2> QED BY <1>6
<1> DEFINE In(n) == n <= Len(seqs) => c[n] \in T
           Ms == {n \in Nat : In(n + 1)}
<1> HIDE DEF c
<1>9. 0 \in Ms
  BY <1>0, <1>8
<1>10. \A n \in Ms : n + 1 \in Ms
  <2> SUFFICES ASSUME NEW n \in Nat, In(n), n # 0, n + 1 <= Len(seqs) PROVE c[n + 1] \in T
    OBVIOUS
  <2>1. c[n] \in T /\ seqs[n + 1] \in T /\ n + 1 \in 1 .. Len(seqs) /\ n + 1 # 1 /\ (n + 1) - 1 = n
    BY <1>0
  <2>2. c[n + 1] = c[n] \o seqs[n + 1]
    BY <1>8, <2>1
  <2> QED BY <2>1, <2>2
<1>11. In(Len(seqs))
  <2> HIDE DEF In
  <2>1. Ms = Nat
    <3> HIDE DEF Ms
    <3>1. Ms \subseteq Nat
      BY DEF Ms
    <3> QED BY <1>9, <1>10, <3>1, NatInd
  <2>2. Len(seqs) - 1 \in Nat /\ (Len(seqs) - 1) + 1 = Len(seqs)
    BY <1>0
  <2>3. In((Len(seqs) - 1) + 1)
    BY <2>1, <2>2
  <2> QED BY <2>2, <2>3
<1> QED BY <1>0, <1>7, <1>11

-----------------------------------------------------------------------------
(* The source, cut into blocks and tails.                                  *)

Files == {f \in FileKinds : (f.dup => ~f.tail) /\ (f.blocks = 0 => f.tail)}
Items == [file : Files, block : Nat, tail : BOOLEAN]
FileItems(f) == [k \in 1 .. f.blocks + (IF f.tail THEN 1 ELSE 0) |->
                   [file |-> f, block |-> k - 1, tail |-> k > f.blocks]]

\* Each file from its first block to its last, and then the next file.
Follows(a, b) == IF LastOfFile(a) THEN b.block = 0 ELSE b.file = a.file /\ b.block = a.block + 1
Fits(it) == /\ it.tail = (it.block >= it.file.blocks)
            /\ it.block < it.file.blocks + (IF it.file.tail THEN 1 ELSE 0)
Whole(s) ==
  /\ \A k \in 1 .. Len(s) : Fits(s[k])
  /\ \A k \in 1 .. Len(s) - 1 : Follows(s[k], s[k + 1])
  /\ Len(s) > 0 => s[1].block = 0 /\ LastOfFile(s[Len(s)])
Cuts == {s \in Seq(Items) : Whole(s)}

\* Two sequences of whole files make one.
LEMMA CutsConcat == \A a, b \in Cuts : a \o b \in Cuts
<1> TAKE a \in Cuts, b \in Cuts
<1> DEFINE c == a \o b
           m == Len(a)
           n == Len(b)
<1>1. /\ a \in Seq(Items) /\ b \in Seq(Items) /\ c \in Seq(Items) /\ m \in Nat /\ n \in Nat
      /\ Len(c) = m + n
      /\ \A k \in 1 .. m : c[k] = a[k]
      /\ \A k \in 1 .. n : c[m + k] = b[k]
  BY DEF Cuts
<1>2. Whole(a) /\ Whole(b)
  BY DEF Cuts
<1> HIDE DEF c, m, n
<1>3. \A k \in 1 .. m + n : k \in 1 .. m \/ \E j \in 1 .. n : k = m + j
  <2> SUFFICES ASSUME NEW k \in 1 .. m + n, ~(k \in 1 .. m) PROVE \E j \in 1 .. n : k = m + j
    OBVIOUS
  <2>1. k - m \in 1 .. n /\ k = m + (k - m)
    BY <1>1
  <2> QED BY <2>1
<1>4. \A k \in 1 .. Len(c) : Fits(c[k])
  <2> TAKE k \in 1 .. Len(c)
  <2>1. CASE k \in 1 .. m
    BY <1>1, <1>2, <2>1, Zenon DEF Whole, m
  <2>2. CASE \E j \in 1 .. n : k = m + j
    <3>1. PICK j \in 1 .. n : k = m + j
      BY <2>2
    <3>2. c[k] = b[j] /\ Fits(b[j])
      BY <1>1, <1>2, <3>1, Zenon DEF Whole, n
    <3> QED BY <3>2
  <2>3. k \in 1 .. m + n
    BY <1>1
  <2> QED BY <1>3, <2>1, <2>2, <2>3, Zenon
<1>5. \A k \in 1 .. Len(c) - 1 : Follows(c[k], c[k + 1])
  <2> TAKE k \in 1 .. Len(c) - 1
  <2>1. CASE k \in 1 .. m - 1
    <3>1. k \in 1 .. m /\ k + 1 \in 1 .. m /\ k \in 1 .. Len(a) - 1
      BY <1>1, <2>1 DEF m
    <3> QED BY <1>1, <1>2, <3>1, Zenon DEF Whole
  <2>2. CASE k = m
    <3>1. m \in 1 .. m /\ 1 \in 1 .. n /\ Len(a) > 0 /\ Len(b) > 0
      BY <1>1, <2>2 DEF m, n
    <3>2. LastOfFile(a[m]) /\ b[1].block = 0
      BY <1>2, <3>1, Zenon DEF Whole, m
    <3>3. c[k] = a[m] /\ c[k + 1] = b[1]
      BY <1>1, <2>2, <3>1, Zenon
    <3> QED BY <3>2, <3>3, Zenon DEF Follows
  <2>3. CASE k > m
    <3>1. k - m \in 1 .. n /\ (k - m) + 1 \in 1 .. n /\ k - m \in 1 .. Len(b) - 1
          /\ m + (k - m) = k /\ m + ((k - m) + 1) = k + 1
      BY <1>1, <2>3 DEF n
    <3>2. c[k] = b[k - m] /\ c[k + 1] = b[(k - m) + 1]
      BY <1>1, <3>1
    <3>3. Follows(b[k - m], b[(k - m) + 1])
      BY <1>2, <3>1, Zenon DEF Whole
    <3> QED BY <3>2, <3>3
  <2>4. k \in 1 .. m - 1 \/ k = m \/ k > m
    BY <1>1
  <2> QED BY <2>1, <2>2, <2>3, <2>4
<1>6. Len(c) > 0 => c[1].block = 0 /\ LastOfFile(c[Len(c)])
  <2> SUFFICES ASSUME m + n > 0 PROVE c[1].block = 0 /\ LastOfFile(c[m + n])
    BY <1>1
  <2>1. c[1].block = 0
    <3>1. CASE m > 0
      <4>1. 1 \in 1 .. m
        BY <1>1, <3>1
      <4> QED BY <1>1, <1>2, <3>1, <4>1 DEF Whole, m
    <3>2. CASE m = 0
      <4>1. 1 \in 1 .. n /\ m + 1 = 1 /\ Len(b) > 0
        BY <1>1, <3>2 DEF n
      <4> QED BY <1>1, <1>2, <4>1 DEF Whole
    <3> QED BY <1>1, <3>1, <3>2
  <2>2. LastOfFile(c[m + n])
    <3>1. CASE n > 0
      <4>1. n \in 1 .. n /\ Len(b) > 0 /\ c[m + n] = b[n] /\ n = Len(b)
        BY <1>1, <3>1 DEF n
      <4> QED BY <1>2, <4>1 DEF Whole
    <3>2. CASE n = 0
      <4>1. m \in 1 .. m /\ Len(a) > 0 /\ c[m + n] = a[m] /\ m = Len(a)
        BY <1>1, <3>2 DEF m
      <4> QED BY <1>2, <4>1 DEF Whole
    <3> QED BY <1>1, <3>1, <3>2
  <2> QED BY <2>1, <2>2
<1>7. c \in Cuts
  BY <1>1, <1>4, <1>5, <1>6 DEF Cuts, Whole
<1> QED BY <1>7 DEF c

LEMMA CutsFile == \A f \in Files : FileItems(f) \in Cuts
<1> TAKE f \in Files
<1> DEFINE n == f.blocks + (IF f.tail THEN 1 ELSE 0)
           s == FileItems(f)
<1>1. f \in FileKinds /\ f.blocks \in Nat /\ f.tail \in BOOLEAN /\ n \in Nat /\ n > 0
  BY DEF Files, FileKinds
<1>2. \A k \in 1 .. n : s[k] = [file |-> f, block |-> k - 1, tail |-> k > f.blocks]
  BY DEF FileItems
<1>3. s \in [1 .. n -> Items]
  <2>1. \A k \in 1 .. n : [file |-> f, block |-> k - 1, tail |-> k > f.blocks] \in Items
    BY <1>1 DEF Items
  <2> HIDE DEF n
  <2> QED BY <2>1 DEF FileItems, n
<1> HIDE DEF s, n
<1>4. s \in Seq(Items) /\ Len(s) = n
  BY <1>1, <1>3, SeqDef
<1>5. \A k \in 1 .. Len(s) : Fits(s[k])
  <2> TAKE k \in 1 .. Len(s)
  <2>1. (k > f.blocks) = (k - 1 >= f.blocks) /\ k - 1 < n
    BY <1>1, <1>4
  <2> QED BY <1>2, <1>4, <2>1 DEF Fits, n
<1>6. \A k \in 1 .. Len(s) - 1 : Follows(s[k], s[k + 1])
  <2> TAKE k \in 1 .. Len(s) - 1
  <2>1. k \in 1 .. n /\ k + 1 \in 1 .. n /\ (k + 1) - 1 = (k - 1) + 1 /\ (k - 1) + 1 # n
    BY <1>1, <1>4
  <2>2. s[k].file = f /\ s[k].block = k - 1 /\ s[k + 1].file = f /\ s[k + 1].block = (k - 1) + 1
    <3>1. s[k] = [file |-> f, block |-> k - 1, tail |-> k > f.blocks]
      BY <1>2, <2>1, Zenon
    <3>2. s[k + 1] = [file |-> f, block |-> (k + 1) - 1, tail |-> k + 1 > f.blocks]
      BY <1>2, <2>1, Zenon
    <3> QED BY <2>1, <3>1, <3>2
  <2>3. ~LastOfFile(s[k])
    BY <2>1, <2>2, Zenon DEF LastOfFile, n
  <2> QED BY <2>2, <2>3, Zenon DEF Follows
<1>7. s[1].block = 0 /\ LastOfFile(s[Len(s)])
  <2>1. 1 \in 1 .. n /\ n \in 1 .. n /\ 1 - 1 = 0 /\ (n - 1) + 1 = n
    BY <1>1
  <2> QED BY <1>2, <1>4, <2>1 DEF LastOfFile, n
<1>8. s \in Cuts
  BY <1>4, <1>5, <1>6, <1>7 DEF Cuts, Whole
<1> QED BY <1>8 DEF s

LEMMA StreamCut == ASSUME source \in Sources PROVE Stream \in Cuts
<1> DEFINE seqs == [k \in 1 .. Len(source) |-> FileItems(source[k])]
<1>1. source \in Seq(FileKinds) /\ \A f \in ToSet(source) : (f.dup => ~f.tail) /\ (f.blocks = 0 => f.tail)
  BY PipelineAssumption
<1>2. \A k \in 1 .. Len(source) : source[k] \in Files
  BY <1>1 DEF ToSet, Files
<1>3. \A k \in 1 .. Len(source) : FileItems(source[k]) \in Cuts
  BY <1>2, CutsFile
<1>4. Len(source) \in Nat /\ seqs \in [1 .. Len(source) -> Cuts]
  BY <1>1, <1>3
<1>5. seqs \in Seq(Cuts)
  <2> HIDE DEF seqs
  <2> QED BY <1>4, SeqDef
<1>6. Stream = FlattenSeq(seqs)
  BY DEF Stream, FileItems
<1> HIDE DEF seqs
<1>7. CASE seqs = <<>>
  <2>1. Stream = <<>>
    BY <1>6, <1>7 DEF FlattenSeq
  <2>2. <<>> \in Seq(Items) /\ Len(<<>>) = 0 /\ 1 .. 0 = {} /\ 1 .. 0 - 1 = {}
    OBVIOUS
  <2>3. Whole(<<>>)
    BY <2>2 DEF Whole
  <2> QED BY <2>1, <2>2, <2>3 DEF Cuts
<1>8. CASE seqs # <<>>
  BY <1>5, <1>6, <1>8, CutsConcat, FlattenClosed
<1> QED BY <1>7, <1>8

\* What the later proofs use of the source.
LEMMA StreamFacts ==
  ASSUME source \in Sources
  PROVE  /\ Total \in Nat
         /\ \A n \in 0 .. Total - 1 :
              /\ Item(n) \in Items
              /\ Fits(Item(n))
              /\ n = 0 => Item(n).block = 0
              /\ n + 1 = Total => LastOfFile(Item(n))
         /\ \A n \in 1 .. Total - 1 : Follows(Item(n - 1), Item(n))
<1>1. Stream \in Seq(Items) /\ Whole(Stream)
  BY StreamCut DEF Cuts
<1>2. Total \in Nat /\ Total = Len(Stream)
  BY <1>1 DEF Total
<1>3. ASSUME NEW n \in 0 .. Total - 1
      PROVE  /\ Item(n) \in Items
             /\ Fits(Item(n))
             /\ n = 0 => Item(n).block = 0
             /\ n + 1 = Total => LastOfFile(Item(n))
  <2>1. n + 1 \in 1 .. Len(Stream) /\ Len(Stream) > 0 /\ Item(n) = Stream[n + 1]
    BY <1>2 DEF Item
  <2>2. Item(n) \in Items /\ Fits(Item(n))
    BY <1>1, <2>1 DEF Whole
  <2>3. Stream[1].block = 0 /\ LastOfFile(Stream[Total])
    BY <1>1, <1>2, <2>1 DEF Whole
  <2> QED BY <2>1, <2>2, <2>3
<1>4. ASSUME NEW n \in 1 .. Total - 1 PROVE Follows(Item(n - 1), Item(n))
  <2>1. n \in 1 .. Len(Stream) - 1 /\ (n - 1) + 1 = n
    BY <1>2
  <2> QED BY <1>1, <2>1 DEF Whole, Item
<1> QED BY <1>2, <1>3, <1>4

-----------------------------------------------------------------------------
(* Counting.                                                               *)

\* Taking the head of a sequence.
LEMMA TailFacts ==
  ASSUME NEW S, NEW s \in Seq(S), s # <<>>
  PROVE  /\ Head(s) = s[1] /\ s[1] \in S /\ 1 \in 1 .. Len(s)
         /\ Tail(s) \in Seq(S) /\ Len(Tail(s)) = Len(s) - 1
         /\ \A k \in 1 .. Len(Tail(s)) : k + 1 \in 1 .. Len(s) /\ Tail(s)[k] = s[k + 1]
OBVIOUS

LEMMA CountType ==
  ASSUME NEW T, NEW s \in Seq(T), NEW S
  PROVE  IsFiniteSet({k \in 1 .. Len(s) : s[k] \in S}) /\ CountIn(s, S) \in Nat
<1>1. Len(s) \in Nat /\ IsFiniteSet(1 .. Len(s))
  BY FS_Interval
<1>2. IsFiniteSet({k \in 1 .. Len(s) : s[k] \in S})
  BY <1>1, FS_Subset
<1> QED BY <1>2, FS_CardinalityType DEF CountIn

\* One more element, at the end or at the head, is counted when it is of the set.
LEMMA CountAppend ==
  ASSUME NEW T, NEW s \in Seq(T), NEW e \in T, NEW S
  PROVE  CountIn(Append(s, e), S) = CountIn(s, S) + Is(e, S)
<1> DEFINE A == {k \in 1 .. Len(s) : s[k] \in S}
           B == {k \in 1 .. Len(Append(s, e)) : Append(s, e)[k] \in S}
<1>1. Len(s) \in Nat /\ Len(Append(s, e)) = Len(s) + 1 /\ Append(s, e)[Len(s) + 1] = e
      /\ \A k \in 1 .. Len(s) : Append(s, e)[k] = s[k]
  OBVIOUS
<1>2. IsFiniteSet(A) /\ Len(s) + 1 \notin A
  <2>1. IsFiniteSet(A)
    BY CountType
  <2>2. Len(s) + 1 \notin A
    BY <1>1
  <2> QED BY <2>1, <2>2
<1>3. CASE e \in S
  <2>1. B = A \cup {Len(s) + 1}
    BY <1>1, <1>3
  <2> HIDE DEF A, B
  <2>2. Cardinality(B) = Cardinality(A) + 1
    BY <1>2, <2>1, FS_AddElement
  <2>3. CountIn(Append(s, e), S) = Cardinality(B) /\ CountIn(s, S) = Cardinality(A)
    BY DEF CountIn, A, B
  <2> QED BY <1>3, <2>2, <2>3 DEF Is
<1>4. CASE e \notin S
  <2>1. B = A
    BY <1>1, <1>4
  <2>2. Cardinality(A) \in Nat
    BY CountType DEF CountIn
  <2> HIDE DEF A, B
  <2>3. CountIn(Append(s, e), S) = Cardinality(B) /\ CountIn(s, S) = Cardinality(A)
    BY DEF CountIn, A, B
  <2>4. Is(e, S) = 0
    BY <1>4 DEF Is
  <2>5. Cardinality(B) = Cardinality(A)
    BY <2>1, Zenon
  <2> QED BY <2>2, <2>3, <2>4, <2>5
<1> QED BY <1>3, <1>4

LEMMA CountTail ==
  ASSUME NEW T, NEW s \in Seq(T), s # <<>>, NEW S
  PROVE  /\ CountIn(s, S) = CountIn(Tail(s), S) + Is(Head(s), S)
         /\ CountIn(Tail(s), S) \in Nat
<1> DEFINE A == {k \in 1 .. Len(Tail(s)) : Tail(s)[k] \in S}
           B == {k \in 1 .. Len(s) : s[k] \in S /\ k # 1}
           C == {k \in 1 .. Len(s) : s[k] \in S}
           f == [k \in A |-> k + 1]
<1>1. /\ Head(s) = s[1] /\ 1 \in 1 .. Len(s) /\ Len(s) \in Nat
      /\ Tail(s) \in Seq(T) /\ Len(Tail(s)) = Len(s) - 1
      /\ \A k \in 1 .. Len(Tail(s)) : k + 1 \in 1 .. Len(s) /\ Tail(s)[k] = s[k + 1]
  BY TailFacts
<1>2. IsFiniteSet(A) /\ IsFiniteSet(C)
  BY <1>1, CountType
<1>3. f \in [A -> B]
  BY <1>1
<1>4. \A j, k \in A : f[j] = f[k] => j = k
  BY <1>1
<1>5. \A b \in B : b - 1 \in A /\ f[b - 1] = b
  <2> TAKE b \in B
  <2>1. b - 1 \in 1 .. Len(Tail(s)) /\ (b - 1) + 1 = b /\ s[b] \in S
    BY <1>1
  <2>2. Tail(s)[b - 1] = s[b]
    BY <1>1, <2>1, Zenon
  <2> QED BY <2>1, <2>2
<1> HIDE DEF f
<1>6. f \in Bijection(A, B)
  <2>1. f \in Injection(A, B)
    BY <1>3, <1>4 DEF Injection, IsInjective
  <2>2. \A b \in B : \E a \in A : f[a] = b
    BY <1>5, Zenon
  <2> QED BY <1>3, <2>1, <2>2 DEF Bijection, Surjection
<1>7. C \ {1} = B /\ (1 \in C <=> Head(s) \in S)
  BY <1>1
<1> HIDE DEF A, B, C
<1>8. Cardinality(A) = Cardinality(B)
  BY <1>2, <1>6, FS_Bijection DEF ExistsBijection
<1>9. Cardinality(C \ {1}) = IF 1 \in C THEN Cardinality(C) - 1 ELSE Cardinality(C)
  BY <1>2, FS_RemoveElement
<1>10. Cardinality(C) \in Nat /\ Cardinality(A) \in Nat
  BY <1>2, FS_CardinalityType
<1>11. CountIn(s, S) = Cardinality(C) /\ CountIn(Tail(s), S) = Cardinality(A)
  BY DEF CountIn, A, C
<1>12. Cardinality(C) = Cardinality(A) + (IF Head(s) \in S THEN 1 ELSE 0)
  <2>1. Cardinality(A) = IF 1 \in C THEN Cardinality(C) - 1 ELSE Cardinality(C)
    BY <1>7, <1>8, <1>9, Zenon
  <2>2. 1 \in C <=> Head(s) \in S
    BY <1>7
  <2> QED BY <1>10, <2>1, <2>2
<1> QED BY <1>10, <1>11, <1>12 DEF One, Is

\* n more of one kind.
LEMMA CountConcat ==
  ASSUME NEW T, NEW s \in Seq(T), NEW e \in T, NEW r \in Seq(T), \A k \in 1 .. Len(r) : r[k] = e
  PROVE  CountIn(s \o r, {e}) = CountIn(s, {e}) + Len(r)
<1> DEFINE n == Len(r)
           t == s \o r
           A == {k \in 1 .. Len(s) : s[k] \in {e}}
           B == Len(s) + 1 .. Len(s) + n
           C == {k \in 1 .. Len(t) : t[k] \in {e}}
<1>1. \A k \in 1 .. n : r[k] = e
  OBVIOUS
<1>2. r \in Seq(T) /\ Len(r) = n /\ n \in Nat
  OBVIOUS
<1>3. /\ t \in Seq(T) /\ Len(s) \in Nat /\ n \in Nat /\ Len(t) = Len(s) + n
      /\ \A k \in 1 .. Len(s) : t[k] = s[k]
      /\ \A k \in 1 .. n : t[Len(s) + k] = r[k]
  BY <1>2
<1> HIDE DEF t, n
<1>4. \A k \in B : k \in 1 .. Len(t) /\ t[k] = e
  <2> TAKE k \in B
  <2>1. k - Len(s) \in 1 .. n /\ Len(s) + (k - Len(s)) = k /\ k \in 1 .. Len(t)
    BY <1>3
  <2>2. t[Len(s) + (k - Len(s))] = e
    BY <1>1, <1>3, <2>1, Zenon
  <2> QED BY <2>1, <2>2
<1>5. \A k \in 1 .. Len(t) : k \in 1 .. Len(s) \/ k \in B
  BY <1>3
<1>6. \A k \in 1 .. Len(s) : k \in 1 .. Len(t) /\ k \notin B
  BY <1>3
<1>7. C = A \cup B /\ A \cap B = {}
  BY <1>3, <1>4, <1>5, <1>6
<1>8. IsFiniteSet(A) /\ IsFiniteSet(B) /\ Cardinality(A) \in Nat
  <2>1. IsFiniteSet(A) /\ CountIn(s, {e}) \in Nat
    BY CountType
  <2>2. IsFiniteSet(B)
    BY <1>3, FS_Interval
  <2> QED BY <2>1, <2>2 DEF CountIn
<1>9. Cardinality(B) = n
  BY <1>3, FS_Interval
<1> HIDE DEF A, B, C
<1>10. Cardinality(C) = Cardinality(A) + Cardinality(B) - Cardinality({})
  BY <1>7, <1>8, FS_Union
<1>11. Cardinality(C) = Cardinality(A) + n
  BY <1>3, <1>8, <1>9, <1>10, FS_EmptySet
<1>12. CountIn(t, {e}) = Cardinality(C) /\ CountIn(s, {e}) = Cardinality(A)
  BY DEF CountIn, A, C
<1> QED BY <1>11, <1>12 DEF t, n

\* One other value of a function.
ValuesIn(f, D, S) == Cardinality({x \in D : f[x] \in S})

LEMMA CountExcept ==
  ASSUME NEW D, IsFiniteSet(D), NEW f, NEW g, NEW d \in D, NEW S,
         \A x \in D : x # d => g[x] = f[x]
  PROVE  /\ ValuesIn(f, D, S) \in Nat /\ ValuesIn(g, D, S) \in Nat
         /\ ValuesIn(g, D, S) + Is(f[d], S) = ValuesIn(f, D, S) + Is(g[d], S)
<1> DEFINE A == {x \in D : f[x] \in S}
           B == {x \in D : g[x] \in S}
           C == A \ {d}
<1>1. IsFiniteSet(A) /\ IsFiniteSet(B) /\ IsFiniteSet(C)
  BY FS_Subset
<1>2. (d \in A <=> f[d] \in S) /\ (d \in B <=> g[d] \in S) /\ B \ {d} = C
  OBVIOUS
<1> HIDE DEF A, B, C
<1>3. Cardinality(A) \in Nat /\ Cardinality(B) \in Nat /\ Cardinality(C) \in Nat
  BY <1>1, FS_CardinalityType
<1>4. Cardinality(C) = IF d \in A THEN Cardinality(A) - 1 ELSE Cardinality(A)
  BY <1>1, FS_RemoveElement DEF C
<1>5. Cardinality(C) = IF d \in B THEN Cardinality(B) - 1 ELSE Cardinality(B)
  BY <1>1, <1>2, FS_RemoveElement
<1>6. Cardinality(B) + Is(f[d], S) = Cardinality(A) + Is(g[d], S)
  BY <1>2, <1>3, <1>4, <1>5 DEF One, Is
<1>7. ValuesIn(f, D, S) = Cardinality(A) /\ ValuesIn(g, D, S) = Cardinality(B)
  BY Zenon DEF ValuesIn, A, B
<1> QED BY <1>3, <1>6, <1>7

-----------------------------------------------------------------------------
(* The steps.                                                              *)

LEMMA SourceKept ==
  ASSUME source' = source
  PROVE  /\ Total' = Total /\ Blocks' = Blocks /\ Tails' = Tails
         /\ \A n : Item(n)' = Item(n)
<1>1. Stream' = Stream
  BY DEF Stream
<1>2. Total' = Total
  BY <1>1 DEF Total
<1>3. \A n : Item(n)' = Item(n)
  BY <1>1, Zenon DEF Item
<1>4. Blocks' = Blocks /\ Tails' = Tails
  BY <1>3 DEF Blocks, Tails
<1> QED BY <1>2, <1>3, <1>4

LEMMA SourceSame == ASSUME Next PROVE source' = source
<1> USE DEF readerVars, orderVars, mainVars, fragVars, writeVars
<1>1. CASE Reader
  BY <1>1 DEF Reader, ReaderGet, ReaderPut
<1>2. CASE \E d \in Deflators : Deflator(d)
  BY <1>2 DEF Deflator, DeflatorTake, Deflate, DeflatorPut
<1>3. CASE \E d \in FragDeflators : FragDeflator(d)
  BY <1>3 DEF FragDeflator, FragDeflatorTake, FragDeflate, FragPlace, FragEnd
<1>4. CASE Writer
  BY <1>4 DEF Writer, Write
<1>5. CASE Main
  <2>1. CASE \E n \in 0 .. Total - 1 : TakeBlock(n) \/ TakeTail(n)
    BY <2>1 DEF TakeBlock, TakeTail, Got
  <2>2. CASE PushBuffer \/ Unique \/ Duplicate \/ Flushed \/ UnlockPending \/ Unlock
    BY <2>2 DEF PushBuffer, Unique, Duplicate, Flushed, UnlockPending, Unlock
  <2>3. CASE FillFull \/ Fill \/ LastFragment \/ Drain
    BY <2>3 DEF FillFull, Fill, LastFragment, Drain, WriteFragment
  <2> QED BY <1>5, <2>1, <2>2, <2>3 DEF Main
<1> QED BY <1>1, <1>2, <1>3, <1>4, <1>5 DEF Next

\* Elements of a queue, at its end and at its head.
LEMMA ElemsAppend ==
  ASSUME NEW T, NEW s \in Seq(T), NEW e \in T
  PROVE  /\ Elems(Append(s, e)) = Elems(s) \cup {e}
         /\ Distinct(s) /\ e \notin Elems(s) => Distinct(Append(s, e))
<1>1. Len(s) \in Nat /\ Len(Append(s, e)) = Len(s) + 1 /\ Append(s, e)[Len(s) + 1] = e
      /\ \A k \in 1 .. Len(s) : Append(s, e)[k] = s[k]
  OBVIOUS
<1>2. \A k \in 1 .. Len(s) + 1 : k \in 1 .. Len(s) \/ k = Len(s) + 1
  BY <1>1
<1>3. \A k \in 1 .. Len(s) : k \in 1 .. Len(s) + 1
  BY <1>1
<1>4. Len(s) + 1 \in 1 .. Len(s) + 1
  BY <1>1
<1>5. Elems(Append(s, e)) = Elems(s) \cup {e}
  BY <1>1, <1>2, <1>3, <1>4 DEF Elems
<1>6. ASSUME Distinct(s), e \notin Elems(s) PROVE Distinct(Append(s, e))
  <2>1. \A k \in 1 .. Len(s) : s[k] # e
    BY <1>6 DEF Elems
  <2>2. \A j, k \in 1 .. Len(s) : s[j] = s[k] => j = k
    BY <1>6 DEF Distinct
  <2> QED BY <1>1, <1>2, <2>1, <2>2 DEF Distinct
<1> QED BY <1>5, <1>6

LEMMA ElemsTail ==
  ASSUME NEW T, NEW s \in Seq(T), s # <<>>, Distinct(s)
  PROVE  /\ Head(s) \in Elems(s) /\ Head(s) \in T
         /\ Elems(Tail(s)) = Elems(s) \ {Head(s)}
         /\ Distinct(Tail(s))
<1>1. /\ Head(s) = s[1] /\ s[1] \in T /\ 1 \in 1 .. Len(s) /\ Len(s) \in Nat
      /\ Tail(s) \in Seq(T) /\ Len(Tail(s)) = Len(s) - 1
      /\ \A k \in 1 .. Len(Tail(s)) : k + 1 \in 1 .. Len(s) /\ Tail(s)[k] = s[k + 1]
  BY TailFacts
<1>2. \A j, k \in 1 .. Len(s) : s[j] = s[k] => j = k
  BY DEF Distinct
<1>3. \A e \in Elems(Tail(s)) : e \in Elems(s) \ {Head(s)}
  <2> TAKE e \in Elems(Tail(s))
  <2>1. PICK k \in 1 .. Len(Tail(s)) : e = Tail(s)[k]
    BY DEF Elems
  <2>2. k + 1 \in 1 .. Len(s) /\ k + 1 # 1 /\ e = s[k + 1]
    BY <1>1, <2>1
  <2> QED BY <1>1, <1>2, <2>2 DEF Elems
<1>4. \A e \in Elems(s) \ {Head(s)} : e \in Elems(Tail(s))
  <2> TAKE e \in Elems(s) \ {Head(s)}
  <2>1. PICK k \in 1 .. Len(s) : e = s[k]
    BY DEF Elems
  <2>2. k - 1 \in 1 .. Len(Tail(s)) /\ (k - 1) + 1 = k
    BY <1>1, <2>1
  <2>3. Tail(s)[k - 1] = e
    BY <1>1, <2>1, <2>2, Zenon
  <2> QED BY <2>2, <2>3 DEF Elems
<1>5. Distinct(Tail(s))
  <2> SUFFICES ASSUME NEW j \in 1 .. Len(Tail(s)), NEW k \in 1 .. Len(Tail(s)), Tail(s)[j] = Tail(s)[k]
               PROVE  j = k
    BY DEF Distinct
  <2>1. j + 1 = k + 1
    BY <1>1, <1>2
  <2> QED BY <1>1, <2>1
<1> QED BY <1>1, <1>3, <1>4, <1>5 DEF Elems

\* The deflators' hands.
LEMMA HandsStep ==
  ASSUME Types, Once, NEW d \in Deflators,
         NEW e \in [step : {"idle", "taken", "deflated"}, seq : Int], deflator' = [deflator EXCEPT ![d] = e]
  PROVE  /\ deflator' \in [Deflators -> [step : {"idle", "taken", "deflated"}, seq : Int]]
         /\ e.step # "idle" => Busy' = Busy \cup {d}
         /\ e.step = "idle" => Busy' = Busy \ {d}
         /\ deflator'[d] = e /\ \A c \in Deflators : c # d => deflator'[c] = deflator[c]
BY DEF Types, Busy

LEMMA OrderSame ==
  ASSUME Known, Once, source' = source, next' = next, fromReader' = fromReader, fromDeflate' = fromDeflate,
         sequence' = sequence, blockHash' = blockHash, Busy' = Busy,
         \A d \in Busy : deflator'[d].seq = deflator[d].seq
  PROVE  Known' /\ Once'
<1>1. Hands' = Hands
  BY DEF Hands
<1>2. Elems(fromReader)' = Elems(fromReader) /\ Elems(fromDeflate)' = Elems(fromDeflate)
      /\ Distinct(fromReader)' = Distinct(fromReader) /\ Distinct(fromDeflate)' = Distinct(fromDeflate)
  BY DEF Elems, Distinct
<1>3. Blocks' = Blocks
  BY SourceKept
<1>4. Known'
  BY <1>1, <1>2, <1>3 DEF Known
<1>5. Once'
  BY <1>1, <1>2 DEF Once
<1> QED BY <1>4, <1>5

LEMMA OrderReader ==
  ASSUME Types, Known, Once, InStep, Reader
  PROVE  Known' /\ Once'
<1>1. CASE ReaderGet
  BY <1>1, OrderSame DEF ReaderGet, orderVars, Busy
<1>2. CASE ReaderPut
  <2>1. /\ source' = source /\ deflator' = deflator /\ sequence' = sequence /\ blockHash' = blockHash
        /\ next' = next + 1 /\ reading
    BY <1>2 DEF ReaderPut, orderVars
  <2>2. Hands' = Hands /\ Busy' = Busy /\ Blocks' = Blocks
    BY <2>1, SourceKept DEF Hands, Busy
  <2>3. next \in Nat /\ sequence \in Nat /\ fromReader \in Seq(Nat) /\ fromDeflate \in Seq(Nat)
    BY StreamFacts DEF Types, TypeOK
  <2>4. next \in sequence' .. next' - 1 /\ \A n \in sequence .. next - 1 : n \in sequence' .. next' - 1 /\ n # next
    BY <2>1, <2>3 DEF Known
  <2>5. next \notin Elems(fromReader) \cup Hands \cup Elems(fromDeflate) \cup blockHash
    BY <2>4 DEF Known
  <2>6. sequence' <= next'
    BY <2>1, <2>3 DEF Known
  <2>7. CASE Item(next).tail
    <3>1. fromDeflate' = Append(fromDeflate, next) /\ fromReader' = fromReader
      BY <1>2, <2>7 DEF ReaderPut
    <3>2. Elems(fromDeflate)' = Elems(fromDeflate) \cup {next} /\ Distinct(fromDeflate)'
          /\ Elems(fromReader)' = Elems(fromReader) /\ Distinct(fromReader)'
      BY <2>3, <2>5, <3>1, ElemsAppend DEF Once, Elems, Distinct
    <3>3. Known'
      BY <2>1, <2>2, <2>4, <2>6, <3>2 DEF Known
    <3>4. Once'
      BY <2>1, <2>2, <2>5, <3>2 DEF Once
    <3> QED BY <3>3, <3>4
  <2>8. CASE ~Item(next).tail
    <3>1. fromReader' = Append(fromReader, next) /\ fromDeflate' = fromDeflate
      BY <1>2, <2>8 DEF ReaderPut
    <3>2. Elems(fromReader)' = Elems(fromReader) \cup {next} /\ Distinct(fromReader)'
          /\ Elems(fromDeflate)' = Elems(fromDeflate) /\ Distinct(fromDeflate)'
      BY SMTT(30), <2>3, <2>5, <3>1, ElemsAppend DEF Once, Elems, Distinct
    <3>3. next \in Blocks
      BY <2>3, <2>8 DEF Blocks
    <3>4. Known'
      BY <2>1, <2>2, <2>4, <2>6, <3>2, <3>3 DEF Known
    <3>5. Once'
      BY <2>1, <2>2, <2>5, <3>2 DEF Once
    <3> QED BY <3>4, <3>5
  <2> QED BY <2>7, <2>8
<1> QED BY <1>1, <1>2 DEF Reader

LEMMA OrderDeflator ==
  ASSUME Types, Known, Once, NEW d \in Deflators, Deflator(d)
  PROVE  Known' /\ Once'
<1>0. sequence \in Nat /\ next \in Nat /\ fromReader \in Seq(Nat) /\ fromDeflate \in Seq(Nat)
  BY StreamFacts DEF Types, TypeOK
<1>1. CASE DeflatorTake(d)
  <2> DEFINE n == Head(fromReader)
             e == [step |-> "taken", seq |-> n]
  <2>1. /\ source' = source /\ next' = next /\ sequence' = sequence /\ blockHash' = blockHash
        /\ fromDeflate' = fromDeflate /\ fromReader' = Tail(fromReader) /\ fromReader # <<>>
        /\ deflator' = [deflator EXCEPT ![d] = e] /\ d \notin Busy
    BY <1>1 DEF DeflatorTake, orderVars, Busy
  <2>2. /\ n \in Elems(fromReader) /\ n \in Nat
        /\ Elems(fromReader)' = Elems(fromReader) \ {n} /\ Distinct(fromReader)'
        /\ Elems(fromDeflate)' = Elems(fromDeflate) /\ Distinct(fromDeflate)'
    <3>1. Distinct(fromReader)
      BY DEF Once
    <3>2. n \in Elems(fromReader) /\ n \in Nat /\ Elems(Tail(fromReader)) = Elems(fromReader) \ {n}
          /\ Distinct(Tail(fromReader))
      BY <1>0, <2>1, <3>1, ElemsTail
    <3>3. Elems(fromDeflate)' = Elems(fromDeflate) /\ Distinct(fromDeflate)'
      BY <2>1 DEF Once, Elems, Distinct
    <3>4. Elems(fromReader)' = Elems(Tail(fromReader)) /\ Distinct(fromReader)' = Distinct(Tail(fromReader))
      BY <2>1 DEF Elems, Distinct
    <3> QED BY <3>2, <3>3, <3>4
  <2>3. Busy' = Busy \cup {d} /\ deflator'[d] = e /\ \A c \in Deflators : c # d => deflator'[c] = deflator[c]
    <3>1. e \in [step : {"idle", "taken", "deflated"}, seq : Int] /\ e.step # "idle"
      BY <2>2
    <3> HIDE DEF e
    <3> QED BY <2>1, <3>1, HandsStep
  <2>4. e.seq = n
    OBVIOUS
  <2> HIDE DEF e, n
  <2>5. Hands' = Hands \cup {n}
    BY <2>1, <2>3, <2>4 DEF Hands, Busy
  <2>6. Blocks' = Blocks
    BY <2>1, SourceKept
  <2>7. Known'
    BY <2>1, <2>2, <2>5, <2>6 DEF Known
  <2>8. n \notin Hands
    BY <2>2 DEF Once
  <2>9. \A b, c \in Busy' : deflator'[b].seq = deflator'[c].seq => b = c
    <3>1. \A c \in Busy : c # d /\ deflator'[c].seq = deflator[c].seq /\ deflator[c].seq # n
      BY <2>1, <2>3, <2>8 DEF Busy, Hands
    <3> QED BY <2>3, <2>4, <3>1 DEF Once
  <2>10. Once'
    BY <2>1, <2>2, <2>5, <2>9 DEF Once
  <2> QED BY <2>7, <2>10
<1>2. CASE Deflate(d)
  <2>1. /\ UNCHANGED <<source, next, fromReader, fromDeflate, sequence, blockHash>>
        /\ deflator' = [deflator EXCEPT ![d].step = "deflated"] /\ d \in Busy
    BY <1>2 DEF Deflate, orderVars, readerVars, Busy
  <2>2. Busy' = Busy /\ \A c \in Busy : deflator'[c].seq = deflator[c].seq
    BY <2>1 DEF Busy, Types
  <2> QED BY <2>1, <2>2, OrderSame
<1>3. CASE DeflatorPut(d)
  <2> DEFINE n == deflator[d].seq
  <2>1. /\ source' = source /\ next' = next /\ sequence' = sequence /\ blockHash' = blockHash
        /\ fromReader' = fromReader /\ fromDeflate' = Append(fromDeflate, n)
        /\ deflator' = [deflator EXCEPT ![d] = Idle] /\ d \in Busy
    BY <1>3 DEF DeflatorPut, orderVars, readerVars, Busy
  <2>2. Idle \in [step : {"idle", "taken", "deflated"}, seq : Int] /\ Idle.step = "idle"
    BY DEF Idle
  <2>3. Busy' = Busy \ {d} /\ \A c \in Deflators : c # d => deflator'[c] = deflator[c]
    BY <2>1, <2>2, HandsStep
  <2>4. n \in Hands /\ \A c \in Busy : deflator[c].seq = n => c = d
    BY <2>1 DEF Hands, Once
  <2>5. n \in Nat /\ n \notin Elems(fromDeflate)
    BY <1>0, <2>4 DEF Known, Once
  <2> HIDE DEF n
  <2>6. Hands' = Hands \ {n}
    <3>1. Hands' = {deflator[c].seq : c \in Busy \ {d}}
      BY <2>3 DEF Hands, Busy
    <3>2. n = deflator[d].seq
      BY DEF n
    <3> QED BY <2>4, <3>1, <3>2 DEF Hands
  <2>7. /\ Elems(fromDeflate)' = Elems(fromDeflate) \cup {n} /\ Distinct(fromDeflate)'
        /\ Elems(fromReader)' = Elems(fromReader) /\ Distinct(fromReader)'
    BY <1>0, <2>1, <2>5, ElemsAppend DEF Once, Elems, Distinct
  <2>8. Blocks' = Blocks
    BY <2>1, SourceKept
  <2>9. Known'
    BY <2>1, <2>4, <2>6, <2>7, <2>8 DEF Known
  <2>10. \A b, c \in Busy' : deflator'[b].seq = deflator'[c].seq => b = c
    BY <2>3 DEF Once, Busy
  <2>11. Once'
    BY <2>1, <2>4, <2>6, <2>7, <2>10 DEF Once
  <2> QED BY <2>9, <2>11
<1> QED BY <1>1, <1>2, <1>3 DEF Deflator

LEMMA OrderPush ==
  ASSUME Types, Known, Once, PushBuffer
  PROVE  Known' /\ Once' /\ Head(fromDeflate) \notin blockHash /\ Head(fromDeflate) \in Nat
<1> DEFINE n == Head(fromDeflate)
<1>0. sequence \in Nat /\ next \in Nat /\ fromReader \in Seq(Nat) /\ fromDeflate \in Seq(Nat)
  BY StreamFacts DEF Types, TypeOK
<1>1. /\ source' = source /\ next' = next /\ sequence' = sequence /\ blockHash' = blockHash \cup {n}
      /\ fromReader' = fromReader /\ fromDeflate' = Tail(fromDeflate) /\ fromDeflate # <<>>
      /\ deflator' = deflator
  BY DEF PushBuffer, readerVars
<1>2. /\ n \in Elems(fromDeflate) /\ n \in Nat
      /\ Elems(fromDeflate)' = Elems(fromDeflate) \ {n} /\ Distinct(fromDeflate)'
      /\ Elems(fromReader)' = Elems(fromReader) /\ Distinct(fromReader)'
  <2>1. Distinct(fromDeflate)
    BY DEF Once
  <2>2. n \in Elems(fromDeflate) /\ n \in Nat /\ Elems(Tail(fromDeflate)) = Elems(fromDeflate) \ {n}
        /\ Distinct(Tail(fromDeflate))
    BY <1>0, <1>1, <2>1, ElemsTail
  <2>3. Elems(fromReader)' = Elems(fromReader) /\ Distinct(fromReader)'
    BY <1>1 DEF Once, Elems, Distinct
  <2>4. Elems(fromDeflate)' = Elems(Tail(fromDeflate)) /\ Distinct(fromDeflate)' = Distinct(Tail(fromDeflate))
    BY <1>1 DEF Elems, Distinct
  <2> QED BY <2>2, <2>3, <2>4
<1> HIDE DEF n
<1>3. Hands' = Hands /\ Busy' = Busy
  BY <1>1 DEF Hands, Busy
<1>4. Blocks' = Blocks
  BY <1>1, SourceKept
<1>5. Known'
  BY <1>1, <1>2, <1>3, <1>4 DEF Known
<1>6. Once' /\ n \notin blockHash
  BY <1>1, <1>2, <1>3 DEF Once
<1> QED BY <1>2, <1>5, <1>6 DEF n

\* The main thread gets the number it waits for, from the hash or from the queue.
LEMMA GotFacts ==
  ASSUME Types, Known, Once, NEW n \in 0 .. Total - 1, Got(n)
  PROVE  /\ n = sequence /\ pc = "take"
         /\ \/ n \in blockHash /\ blockHash' = blockHash \ {n} /\ fromDeflate' = fromDeflate
            \/ /\ n \notin blockHash /\ fromDeflate # <<>> /\ n = Head(fromDeflate)
               /\ fromDeflate' = Tail(fromDeflate) /\ blockHash' = blockHash
         /\ sequence' = sequence + 1 /\ done' = Append(done, n)
         /\ UNCHANGED <<source, next, reading, fromReader, deflator, toFrag, fragDeflator, readerUsed, fragmentUsed>>
BY DEF Got, InOrder, readerVars

LEMMA OrderGot ==
  ASSUME Types, Known, Once, NEW n \in 0 .. Total - 1, Got(n)
  PROVE  Known' /\ Once' /\ n < next
<1>0. sequence \in Nat /\ next \in Nat /\ fromReader \in Seq(Nat) /\ fromDeflate \in Seq(Nat)
  BY StreamFacts DEF Types, TypeOK
<1>1. n = sequence /\ sequence' = sequence + 1 /\ UNCHANGED <<source, next, fromReader, deflator>>
  BY GotFacts
<1>2. Hands' = Hands /\ Busy' = Busy /\ Blocks' = Blocks
  BY <1>1, SourceKept DEF Hands, Busy
<1>3. /\ n \in Elems(fromDeflate) \cup blockHash
      /\ Elems(fromDeflate)' \cup blockHash' = (Elems(fromDeflate) \cup blockHash) \ {n}
      /\ Elems(fromDeflate)' \subseteq Elems(fromDeflate) /\ blockHash' \subseteq blockHash
      /\ Distinct(fromDeflate)' /\ Distinct(fromReader)' /\ Elems(fromReader)' = Elems(fromReader)
  <2>1. Distinct(fromReader)' /\ Elems(fromReader)' = Elems(fromReader)
    BY <1>1 DEF Once, Elems, Distinct
  <2>2. CASE n \in blockHash /\ blockHash' = blockHash \ {n} /\ fromDeflate' = fromDeflate
    <3>1. Elems(fromDeflate)' = Elems(fromDeflate) /\ Distinct(fromDeflate)'
      BY <2>2 DEF Once, Elems, Distinct
    <3>2. n \notin Elems(fromDeflate)
      BY <2>2 DEF Once
    <3> QED BY <2>1, <2>2, <3>1, <3>2
  <2>3. CASE /\ n \notin blockHash /\ fromDeflate # <<>> /\ n = Head(fromDeflate)
             /\ fromDeflate' = Tail(fromDeflate) /\ blockHash' = blockHash
    <3>1. n \in Elems(fromDeflate) /\ Elems(fromDeflate)' = Elems(fromDeflate) \ {n} /\ Distinct(fromDeflate)'
      <4>1. Distinct(fromDeflate)
        BY DEF Once
      <4>2. n \in Elems(fromDeflate) /\ Elems(Tail(fromDeflate)) = Elems(fromDeflate) \ {n}
            /\ Distinct(Tail(fromDeflate))
        BY <1>0, <2>3, <4>1, ElemsTail
      <4>3. Elems(fromDeflate)' = Elems(Tail(fromDeflate)) /\ Distinct(fromDeflate)' = Distinct(Tail(fromDeflate))
        BY <2>3 DEF Elems, Distinct
      <4> QED BY <4>2, <4>3
    <3> QED BY <2>1, <2>3, <3>1
  <2> QED BY <2>2, <2>3, GotFacts
<1>4. n \notin Elems(fromReader) \cup Hands
  BY <1>3 DEF Once
<1>5. n < next /\ sequence' <= next'
  BY <1>0, <1>1, <1>3 DEF Known
<1>6. \A m \in sequence .. next - 1 : m # n => m \in sequence' .. next' - 1
  BY <1>0, <1>1
<1>7. Known'
  <2>1. \A m \in Elems(fromReader) \cup Hands \cup Elems(fromDeflate)' \cup blockHash' :
          m \in sequence .. next - 1 /\ m # n
    BY <1>3, <1>4 DEF Known
  <2> QED BY <1>2, <1>3, <1>5, <1>6, <2>1 DEF Known
<1>8. Once'
  BY <1>1, <1>2, <1>3 DEF Once
<1> QED BY <1>5, <1>7, <1>8

\* What the main thread has used, and where it stands.
LEMMA InStepSame ==
  ASSUME Types, InStep, source' = source, UNCHANGED <<done, sequence, pc, after>>,
         reading' => next' < Total
  PROVE  InStep'
BY SourceKept DEF InStep

LEMMA InStepStep ==
  ASSUME Types, Known, Once, InStep, Next
  PROVE  InStep'
<1>0. source' = source /\ Total' = Total /\ sequence \in Nat
  BY SourceSame, SourceKept, StreamFacts DEF Types, TypeOK
<1>1. CASE Reader
  <2>1. CASE ReaderGet
    BY <1>0, <2>1, InStepSame DEF ReaderGet, orderVars, mainVars
  <2>2. CASE ReaderPut
    BY <1>0, <2>2, InStepSame DEF ReaderPut, orderVars, mainVars
  <2> QED BY <1>1, <2>1, <2>2 DEF Reader
<1>2. CASE \/ \E d \in Deflators : Deflator(d)
           \/ \E d \in FragDeflators : FragDeflator(d)
           \/ Writer \/ PushBuffer \/ UnlockPending
  <2>1. UNCHANGED <<done, sequence, pc, after, reading, next>>
    <3> USE DEF readerVars, orderVars, mainVars
    <3>1. CASE \E d \in Deflators : Deflator(d)
      BY <3>1 DEF Deflator, DeflatorTake, Deflate, DeflatorPut
    <3>2. CASE \E d \in FragDeflators : FragDeflator(d)
      BY <3>2 DEF FragDeflator, FragDeflatorTake, FragDeflate, FragPlace, FragEnd
    <3>3. CASE Writer \/ PushBuffer \/ UnlockPending
      BY <3>3 DEF Writer, Write, PushBuffer, UnlockPending
    <3> QED BY <1>2, <3>1, <3>2, <3>3
  <2> QED BY <1>0, <2>1, InStepSame DEF InStep
<1>3. CASE \E n \in 0 .. Total - 1 : TakeBlock(n) \/ TakeTail(n)
  <2>1. PICK n \in 0 .. Total - 1 : TakeBlock(n) \/ TakeTail(n)
    BY <1>3
  <2>2. Got(n)
    BY <2>1 DEF TakeBlock, TakeTail
  <2>3. n = sequence /\ sequence' = sequence + 1 /\ done' = Append(done, sequence) /\ UNCHANGED <<next, reading>>
        /\ pc = "take"
    BY <2>2, GotFacts
  <2>4. done' = [k \in 1 .. sequence' |-> k - 1]
    BY <1>0, <2>3 DEF InStep
  <2>5. after' \in {"take", "fill"} /\ pc' \in {"take", "compare", "unlock", "fill"}
        /\ (pc' = "compare" => after' = "take")
    BY <2>1 DEF TakeBlock, TakeTail, FileEnd
  <2> QED BY <1>0, <2>3, <2>4, <2>5 DEF InStep
<1>4. CASE Unique \/ Duplicate \/ Flushed \/ Unlock \/ FillFull \/ Fill
  <2>1. UNCHANGED <<done, sequence, reading, next, after>>
    BY <1>4 DEF Unique, Duplicate, Flushed, Unlock, FillFull, Fill, WriteFragment, readerVars, orderVars
  <2>2. \/ pc \in {"compare", "fill"} /\ pc' \in {"unlock", "flush", "fill", "take"} /\ (pc' = "flush" => pc = "compare")
        \/ pc = "flush" /\ pc' = "unlock"
        \/ pc = "lastflush" /\ pc' = "exited"
        \/ pc = "unlock" /\ pc' = after
    BY <1>4 DEF Unique, Duplicate, Flushed, Unlock, FillFull, Fill
  <2>3. after \in {"take", "fill", "drain"}
    BY DEF Types, TypeOK
  <2> QED BY <1>0, <2>1, <2>2, <2>3 DEF InStep
<1>5. CASE LastFragment \/ Drain
  <2>1. UNCHANGED <<done, sequence, reading, next>>
    BY <1>5 DEF LastFragment, Drain, WriteFragment, readerVars, orderVars
  <2>2. \/ sequence = Total /\ pc' = "unlock" /\ after' = "drain"
        \/ pc = "drain" /\ pc' = "lastflush" /\ after' = after
    BY <1>5 DEF LastFragment, Drain
  <2> QED BY <1>0, <2>1, <2>2 DEF InStep
<1> QED BY <1>1, <1>2, <1>3, <1>4, <1>5 DEF Next, Main

-----------------------------------------------------------------------------
(* Room for the next block.                                                *)

LEMMA ThreshFacts ==
  ASSUME Types, NEW f \in Files
  PROVE  /\ Thresh(f) \in Nat
         /\ IF f.dup THEN f.blocks - Thresh(f) <= WriterBuffers - outstanding ELSE Thresh(f) = f.blocks
<1>1. f.blocks \in Nat /\ f.dup \in BOOLEAN /\ WriterBuffers \in Nat /\ outstanding \in Nat
  BY PipelineAssumption DEF Files, FileKinds, Types, TypeOK
<1> QED BY <1>1 DEF Thresh

LEMMA InsideSame ==
  ASSUME source' = source, sequence' = sequence
  PROVE  Inside' = Inside /\ Item(sequence - 1)' = Item(sequence - 1)
<1>1. Item(sequence - 1)' = Item(sequence - 1)
  BY SourceKept DEF Item, Stream
<1> QED BY <1>1 DEF Inside, LastOfFile

\* Neither a step between two blocks nor one outside a file takes the room away.
LEMMA RoomSame ==
  ASSUME Types, Room, source' = source, UNCHANGED <<sequence, pc, thresh, held>>,
         outstanding' \in Nat, outstanding' <= outstanding
  PROVE  Room'
<1>1. Inside' = Inside /\ Item(sequence - 1)' = Item(sequence - 1)
  BY InsideSame
<1>2. CASE Inside
  <2> DEFINE it == Item(sequence - 1)
  <2>1. it \in Items
    <3>1. sequence - 1 \in 0 .. Total - 1
      BY <1>2, StreamFacts DEF Types, TypeOK, Inside
    <3> QED BY <3>1, StreamFacts DEF Types
  <2>2. it.file.blocks \in Nat /\ thresh \in Nat /\ WriterBuffers \in Nat /\ outstanding \in Nat
    BY <2>1, PipelineAssumption DEF Items, Files, FileKinds, Types, TypeOK
  <2>3. it.file.blocks - thresh <= WriterBuffers - outstanding
          => it.file.blocks - thresh <= WriterBuffers - outstanding'
    <3> HIDE DEF it
    <3> QED BY <2>2
  <2>4. HeldOf(it)' = HeldOf(it)
    BY <1>1 DEF HeldOf
  <2> QED BY <1>1, <1>2, <2>3, <2>4 DEF Room
<1>3. CASE ~Inside
  BY <1>1, <1>3 DEF Room
<1> QED BY <1>2, <1>3

LEMMA RoomOutside ==
  ASSUME Types, source' = source, sequence' = sequence, ~Inside, held' = 0
  PROVE  Room'
BY InsideSame DEF Room

LEMMA RoomTake ==
  ASSUME Types, Known, Once, Room, NEW n \in 0 .. Total - 1, TakeBlock(n)
  PROVE  Room' /\ thresh' \in Nat /\ held' \in Nat
<1> DEFINE it == Item(n)
           b == it.block
           m == it.file.blocks
           th == IF b = 0 THEN Thresh(it.file) ELSE thresh
           Fit(x) == IF it.file.dup THEN m - x <= WriterBuffers - outstanding ELSE x = m
           H(x) == IF b + 1 > x THEN b + 1 - x ELSE 0
<1>1. n = sequence /\ sequence' = sequence + 1 /\ source' = source /\ pc = "take"
  BY GotFacts DEF TakeBlock
<1>2. /\ ~it.tail /\ thresh' = th /\ outstanding' = outstanding
      /\ IF b < th THEN held' = held ELSE held' = held + 1
      /\ pc' = IF LastOfFile(it) THEN FileEnd(it) ELSE "take"
  BY DEF TakeBlock
<1>3. it \in Items /\ Fits(it) /\ it.file \in Files
  BY StreamFacts DEF Types, Items
<1>4. b \in Nat /\ m \in Nat /\ thresh \in Nat /\ held \in Nat /\ it.file.dup \in BOOLEAN /\ b < m
  BY <1>2, <1>3 DEF Items, Files, FileKinds, Types, TypeOK, Fits
<1>5. (Item(sequence - 1))' = it /\ (Inside' <=> ~LastOfFile(it))
  <2>1. sequence' - 1 = n /\ sequence' > 0
    BY <1>1
  <2>2. (Item(sequence - 1))' = it
    BY <1>1, <2>1, SourceKept DEF Item, Stream
  <2> QED BY <2>1, <2>2 DEF Inside, LastOfFile
<1>6. th \in Nat /\ Fit(th) /\ held = (IF b > th THEN b - th ELSE 0)
  <2>1. CASE Inside
    <3> DEFINE prev == Item(sequence - 1)
    <3>1. n \in 1 .. Total - 1 /\ ~LastOfFile(prev)
      BY <1>1, <2>1 DEF Inside
    <3>2. Follows(prev, it)
      BY <1>1, <3>1, StreamFacts DEF Types
    <3>3. it.file = prev.file /\ b = prev.block + 1
      BY <3>1, <3>2 DEF Follows
    <3>4. prev \in Items
      BY <1>1, <3>1, StreamFacts DEF Types
    <3>5. prev.block \in Nat
      BY <3>4 DEF Items
    <3>6. b # 0 /\ th = thresh
      BY <3>3, <3>5
    <3>7. held = HeldOf(prev)
      BY <2>1 DEF Room
    <3>8. IF prev.file.dup THEN prev.file.blocks - thresh <= WriterBuffers - outstanding ELSE thresh = prev.file.blocks
      BY <2>1 DEF Room
    <3>9. held = (IF b > th THEN b - th ELSE 0)
      <4>1. held = IF prev.block + 1 > thresh THEN prev.block + 1 - thresh ELSE 0
        BY <3>7 DEF HeldOf
      <4> HIDE DEF th, b, prev
      <4> QED BY <1>4, <3>3, <3>5, <3>6, <4>1
    <3> QED BY <1>4, <3>3, <3>6, <3>8, <3>9
  <2>2. CASE ~Inside
    <3>1. b = 0
      <4>1. CASE n = 0
        BY <1>1, <4>1, StreamFacts DEF Types
      <4>2. CASE n # 0
        <5>1. n \in 1 .. Total - 1 /\ LastOfFile(Item(n - 1))
          BY <1>1, <2>2, <4>2 DEF Inside
        <5>2. Follows(Item(n - 1), it)
          BY <5>1, StreamFacts DEF Types
        <5> QED BY <5>1, <5>2 DEF Follows
      <4> QED BY <4>1, <4>2
    <3>2. held = 0
      BY <1>1, <1>4, <2>2 DEF Room
    <3>3. th = Thresh(it.file) /\ th \in Nat /\ Fit(th)
      BY <1>3, <3>1, ThreshFacts
    <3> HIDE DEF th, b
    <3> QED BY <3>1, <3>2, <3>3
  <2> QED BY <2>1, <2>2
<1>7. held' = H(th) /\ held' \in Nat
  <2> HIDE DEF th, b
  <2>1. b \in Nat /\ th \in Nat /\ held = (IF b > th THEN b - th ELSE 0)
        /\ IF b < th THEN held' = held ELSE held' = held + 1
    BY <1>2, <1>4, <1>6
  <2> QED BY <2>1
<1>8. LastOfFile(it) /\ ~it.file.dup => held' = 0
  <2> HIDE DEF th, b, m, it
  <2>1. b \in Nat /\ m \in Nat /\ b < m /\ (~it.file.dup => th = m) /\ held' = H(th)
    BY <1>4, <1>6, <1>7
  <2> QED BY <2>1
<1>9. HeldOf(it)' = H(th)
  <2>1. it' = it
    BY <1>1, SourceKept DEF Item
  <2> QED BY <1>2, <2>1 DEF HeldOf
<1>10. Inside' => pc' = "take"
  BY <1>2, <1>5
<1>11. held' > 0 => pc' = "compare" \/ Inside'
  <2> SUFFICES ASSUME held' > 0, LastOfFile(it) PROVE pc' = "compare"
    BY <1>5
  <2>1. it.file.dup
    BY <1>8, <1>7
  <2> QED BY <1>2, <2>1 DEF FileEnd
<1>12. (HeldOf(Item(sequence - 1)))' = H(th)
  BY <1>2, <1>5 DEF HeldOf
<1>13. Fit(thresh') /\ outstanding' = outstanding
  BY <1>2, <1>6
<1> HIDE DEF th, b, H, it, m
<1>14. Room'
  BY <1>5, <1>7, <1>10, <1>11, <1>12, <1>13 DEF Room, it, m
<1> QED BY <1>2, <1>6, <1>7, <1>14

-----------------------------------------------------------------------------
(* The fragments under way.                                                *)

LEMMA FragCount ==
  ASSUME NEW d \in FragDeflators, NEW S,
         \A x \in FragDeflators : x # d => fragDeflator'[x] = fragDeflator[x]
  PROVE  /\ FragsAt(S) \in Nat /\ FragsAt(S)' \in Nat
         /\ FragsAt(S)' + Is(fragDeflator[d], S) = FragsAt(S) + Is(fragDeflator'[d], S)
<1>1. IsFiniteSet(FragDeflators)
  BY PipelineAssumption
<1>2. FragsAt(S) = ValuesIn(fragDeflator, FragDeflators, S)
      /\ FragsAt(S)' = ValuesIn(fragDeflator', FragDeflators, S)
  BY DEF FragsAt, ValuesIn
<1>3. ValuesIn(fragDeflator, FragDeflators, S) \in Nat
  BY <1>1, CountExcept
<1>4. ValuesIn(fragDeflator', FragDeflators, S) \in Nat
  BY <1>1, CountExcept
<1>5. ValuesIn(fragDeflator', FragDeflators, S) + Is(fragDeflator[d], S)
        = ValuesIn(fragDeflator, FragDeflators, S) + Is(fragDeflator'[d], S)
  BY <1>1, CountExcept
<1> QED BY <1>2, <1>3, <1>4, <1>5

LEMMA FragType == ASSUME Types, NEW S PROVE FragsAt(S) \in Nat
<1>1. IsFiniteSet({d \in FragDeflators : fragDeflator[d] \in S})
  BY PipelineAssumption, FS_Subset
<1> QED BY <1>1, FS_CardinalityType DEF FragsAt

\* What each step does to the fragments.
FragSame == UNCHANGED <<fill, toFrag, pending, outstanding, fragDeflator, fragmentUsed>>
LEMMA FragSteps ==
  ASSUME Next
  PROVE  \/ FragSame
         \/ Fill
         \/ WriteFragment /\ fill > 0
         \/ UnlockPending
         \/ \E d \in FragDeflators : FragDeflator(d)
<1> USE DEF readerVars, orderVars, mainVars, fragVars, writeVars, FragSame
<1>1. CASE Reader
  BY <1>1 DEF Reader, ReaderGet, ReaderPut
<1>2. CASE \E d \in Deflators : Deflator(d)
  BY <1>2 DEF Deflator, DeflatorTake, Deflate, DeflatorPut
<1>3. CASE Writer
  BY <1>3 DEF Writer, Write
<1>4. CASE \E n \in 0 .. Total - 1 : TakeBlock(n) \/ TakeTail(n)
  BY <1>4 DEF TakeBlock, TakeTail, Got
<1>5. CASE PushBuffer \/ Unique \/ Duplicate \/ Flushed \/ Unlock \/ Drain
  BY <1>5 DEF PushBuffer, Unique, Duplicate, Flushed, Unlock, Drain
<1>6. CASE FillFull \/ LastFragment
  BY <1>6, PipelineAssumption DEF FillFull, LastFragment
<1> QED BY <1>1, <1>2, <1>3, <1>4, <1>5, <1>6 DEF Next, Main

LEMMA FragsStep ==
  ASSUME Types, OutstandingCounted, FragmentCounted, Next
  PROVE  /\ OutstandingCounted' /\ FragmentCounted'
         /\ toFrag' \in Nat /\ pending' \in Nat /\ outstanding' \in Nat /\ fill' \in 0 .. PerFragment
         /\ fragDeflator' \in [FragDeflators -> {"idle", "taken", "deflated", "deferred", "placed"}]
         /\ fragmentUsed' \in 0 .. FragmentBuffers
<1> DEFINE O == {"taken", "deflated", "deferred"}
           F == {"taken", "deflated", "deferred", "placed"}
           Steps == {"idle", "taken", "deflated", "deferred", "placed"}
           Out == FragsAt(O)
           Frag == FragsAt(F)
<1>0. /\ toFrag \in Nat /\ pending \in Nat /\ outstanding \in Nat /\ fill \in 0 .. PerFragment
      /\ fragDeflator \in [FragDeflators -> Steps] /\ fragmentUsed \in 0 .. FragmentBuffers
      /\ PerFragment \in Nat \ {0} /\ FragmentBuffers \in Nat
      /\ Out \in Nat /\ Frag \in Nat
      /\ outstanding = toFrag + pending + Out
      /\ fragmentUsed = One(fill > 0) + toFrag + Frag
  BY PipelineAssumption, FragType DEF Types, TypeOK, OutstandingCounted, FragmentCounted
<1> DEFINE Goal ==
             /\ toFrag' \in Nat /\ pending' \in Nat /\ outstanding' \in Nat /\ fill' \in 0 .. PerFragment
             /\ fragDeflator' \in [FragDeflators -> Steps] /\ fragmentUsed' \in 0 .. FragmentBuffers
             /\ outstanding' = toFrag' + pending' + Out'
             /\ fragmentUsed' = One(fill > 0)' + toFrag' + Frag'
<1> SUFFICES Goal
  BY DEF OutstandingCounted, FragmentCounted
<1>1. fragDeflator' = fragDeflator => Out' = Out /\ Frag' = Frag
  BY DEF FragsAt
<1> HIDE DEF Out, Frag
<1>2. CASE FragSame
  BY <1>0, <1>1, <1>2 DEF FragSame, One
<1>3. CASE Fill
  BY <1>0, <1>1, <1>3 DEF Fill, One
<1>4. CASE WriteFragment /\ fill > 0
  <2>1. UNCHANGED <<pending, fragDeflator, fragmentUsed>> /\ toFrag' = toFrag + 1 /\ outstanding' = outstanding + 1
        /\ fill' = 0
    BY <1>4 DEF WriteFragment
  <2> QED BY <1>0, <1>1, <1>4, <2>1 DEF One, Is
<1>5. CASE UnlockPending
  <2>1. UNCHANGED <<fill, toFrag, fragDeflator, fragmentUsed>> /\ pending > 0 /\ pending' = pending - 1
        /\ outstanding' = outstanding - 1
    BY <1>5 DEF UnlockPending
  <2> QED BY <1>0, <1>1, <2>1 DEF One, Is
<1>6. CASE \E d \in FragDeflators : FragDeflator(d)
  <2> PICK d \in FragDeflators : FragDeflator(d)
    BY <1>6
  <2> USE DEF readerVars, orderVars, mainVars, fragVars, writeVars
  <2>0. ASSUME NEW v \in Steps, fragDeflator' = [fragDeflator EXCEPT ![d] = v]
        PROVE  /\ fragDeflator' \in [FragDeflators -> Steps] /\ Out' \in Nat /\ Frag' \in Nat
               /\ Out' + Is(fragDeflator[d], O) = Out + Is(v, O)
               /\ Frag' + Is(fragDeflator[d], F) = Frag + Is(v, F)
    <3>1. fragDeflator' \in [FragDeflators -> Steps] /\ fragDeflator'[d] = v
          /\ \A x \in FragDeflators : x # d => fragDeflator'[x] = fragDeflator[x]
      BY <1>0, <2>0
    <3>2. \A S : /\ FragsAt(S) \in Nat /\ FragsAt(S)' \in Nat
                 /\ FragsAt(S)' + Is(fragDeflator[d], S) = FragsAt(S) + Is(fragDeflator'[d], S)
      BY <3>1, FragCount, Zenon
    <3> QED BY <3>1, <3>2, Zenon DEF Out, Frag
  <2>1. CASE FragDeflatorTake(d)
    <3>1. /\ fragDeflator[d] = "idle" /\ toFrag > 0 /\ toFrag' = toFrag - 1
          /\ fragDeflator' = [fragDeflator EXCEPT ![d] = "taken"]
          /\ UNCHANGED <<fill, pending, outstanding, fragmentUsed>>
      BY <2>1 DEF FragDeflatorTake
    <3>2. /\ fragDeflator' \in [FragDeflators -> Steps] /\ Out' \in Nat /\ Frag' \in Nat
          /\ Out' = Out + 1 /\ Frag' = Frag + 1
      BY <1>0, <2>0, <3>1 DEF One, Is
    <3> QED BY <1>0, <3>1, <3>2 DEF One, Is
  <2>2. CASE FragDeflate(d)
    <3>1. /\ fragDeflator[d] = "taken" /\ fragDeflator' = [fragDeflator EXCEPT ![d] = "deflated"]
          /\ UNCHANGED <<fill, toFrag, pending, outstanding, fragmentUsed>>
      BY <2>2 DEF FragDeflate
    <3>2. /\ fragDeflator' \in [FragDeflators -> Steps] /\ Out' \in Nat /\ Frag' \in Nat
          /\ Out' = Out /\ Frag' = Frag
      BY <1>0, <2>0, <3>1 DEF One, Is
    <3> QED BY <1>0, <3>1, <3>2 DEF One, Is
  <2>3. CASE FragPlace(d)
    <3>1. /\ fragDeflator[d] = "deflated"
          /\ outstanding' = IF locked THEN outstanding ELSE outstanding - 1
          /\ fragDeflator' = [fragDeflator EXCEPT ![d] = IF locked THEN "deferred" ELSE "placed"]
          /\ UNCHANGED <<fill, toFrag, pending, fragmentUsed>>
      BY <2>3 DEF FragPlace
    <3>2. /\ fragDeflator' \in [FragDeflators -> Steps] /\ Out' \in Nat /\ Frag' \in Nat
          /\ Frag' = Frag
          /\ (outstanding' = outstanding /\ Out' = Out) \/ (outstanding' = outstanding - 1 /\ Out' = Out - 1)
      <4>1. CASE locked
        BY <1>0, <2>0, <3>1, <4>1 DEF One, Is
      <4>2. CASE ~locked
        BY <1>0, <2>0, <3>1, <4>2 DEF One, Is
      <4> QED BY <4>1, <4>2
    <3>3. UNCHANGED <<fill, toFrag, pending, fragmentUsed>>
      BY <3>1
    <3>4. CASE outstanding' = outstanding /\ Out' = Out
      BY <1>0, <3>2, <3>3, <3>4 DEF One, Is
    <3>5. CASE outstanding' = outstanding - 1 /\ Out' = Out - 1
      <4>1. outstanding' = toFrag' + pending' + Out' /\ outstanding' \in Nat
        BY <1>0, <3>2, <3>3, <3>5
      <4>2. fragmentUsed' = One(fill > 0)' + toFrag' + Frag' /\ fragmentUsed' \in 0 .. FragmentBuffers
        BY <1>0, <3>2, <3>3, <3>5 DEF One, Is
      <4> QED BY <1>0, <3>2, <3>3, <3>5, <4>1, <4>2
    <3> QED BY <3>2, <3>4, <3>5
  <2>4. CASE FragEnd(d)
    <3>1. /\ fragDeflator[d] \in {"placed", "deferred"}
          /\ pending' = IF fragDeflator[d] = "placed" THEN pending ELSE pending + 1
          /\ fragDeflator' = [fragDeflator EXCEPT ![d] = "idle"] /\ fragmentUsed' = fragmentUsed - 1
          /\ UNCHANGED <<fill, toFrag, outstanding>>
      BY <2>4 DEF FragEnd, PutBack
    <3>2. /\ fragDeflator' \in [FragDeflators -> Steps] /\ Out' \in Nat /\ Frag' \in Nat
          /\ Frag' = Frag - 1
          /\ (pending' = pending /\ Out' = Out) \/ (pending' = pending + 1 /\ Out' = Out - 1)
      BY <1>0, <2>0, <3>1 DEF One, Is
    <3>3. UNCHANGED <<fill, toFrag, outstanding>> /\ fragmentUsed' = fragmentUsed - 1
      BY <3>1
    <3>4. CASE pending' = pending /\ Out' = Out
      BY <1>0, <3>2, <3>3, <3>4 DEF One, Is
    <3>5. CASE pending' = pending + 1 /\ Out' = Out - 1
      <4>1. outstanding' = toFrag' + pending' + Out' /\ outstanding' \in Nat
        BY <1>0, <3>2, <3>3, <3>5
      <4>2. fragmentUsed' = One(fill > 0)' + toFrag' + Frag' /\ fragmentUsed' \in 0 .. FragmentBuffers
        BY <1>0, <3>2, <3>3, <3>5 DEF One, Is
      <4> QED BY <1>0, <3>2, <3>3, <3>5, <4>1, <4>2
    <3> QED BY <3>2, <3>4, <3>5
  <2> QED BY <2>1, <2>2, <2>3, <2>4 DEF FragDeflator
<1> QED BY <1>2, <1>3, <1>4, <1>5, <1>6, FragSteps

\* A tail ends its file, and the file is no duplicate: nothing is held.
LEMMA RoomTail ==
  ASSUME Types, Known, Once, Room, NEW n \in 0 .. Total - 1, TakeTail(n)
  PROVE  Room' /\ thresh' \in Nat /\ held' \in Nat
<1> DEFINE it == Item(n)
           b == it.block
           m == it.file.blocks
<1>1. n = sequence /\ sequence' = sequence + 1 /\ source' = source /\ pc = "take"
  BY GotFacts DEF TakeTail
<1>2. it.tail /\ held' = held /\ thresh' = thresh
  BY DEF TakeTail
<1>3. it \in Items /\ Fits(it) /\ it.file \in Files
  BY StreamFacts DEF Types, Items
<1>4. b \in Nat /\ m \in Nat /\ thresh \in Nat /\ held \in Nat /\ it.file.tail \in BOOLEAN
  BY <1>3 DEF Items, Files, FileKinds, Types, TypeOK
<1>5. it.file.tail /\ b = m
  <2>1. b >= m /\ b < m + (IF it.file.tail THEN 1 ELSE 0)
    BY <1>2, <1>3 DEF Fits
  <2> QED BY <1>4, <2>1
<1>6. LastOfFile(it) /\ ~it.file.dup
  <2>1. LastOfFile(it)
    BY <1>4, <1>5 DEF LastOfFile
  <2>2. ~it.file.dup
    BY <1>3, <1>5 DEF Files
  <2> QED BY <2>1, <2>2
<1>7. ~Inside'
  <2>1. sequence' - 1 = n /\ sequence' > 0
    BY <1>1
  <2>2. (Item(sequence - 1))' = it
    BY <1>1, <2>1, SourceKept DEF Item, Stream
  <2> QED BY <1>6, <2>1, <2>2 DEF Inside, LastOfFile
<1>8. held = 0
  <2>1. CASE Inside
    <3> DEFINE prev == Item(sequence - 1)
    <3>1. n \in 1 .. Total - 1 /\ ~LastOfFile(prev)
      BY <1>1, <2>1 DEF Inside
    <3>2. Follows(prev, it)
      BY <1>1, <3>1, StreamFacts DEF Types
    <3>3. it.file = prev.file /\ b = prev.block + 1
      BY <3>1, <3>2 DEF Follows
    <3>4. held = IF prev.block + 1 > thresh THEN prev.block + 1 - thresh ELSE 0
      BY <2>1 DEF Room, HeldOf
    <3>5. thresh = m
      BY <1>6, <2>1, <3>3 DEF Room
    <3>6. held = IF b > thresh THEN b - thresh ELSE 0
      <4>1. b = prev.block + 1 /\ prev.block \in Nat /\ thresh \in Nat
        BY <1>1, <1>4, <3>1, <3>3, StreamFacts DEF Types, Items
      <4> HIDE DEF b, prev
      <4> QED BY <3>4, <4>1
    <3> QED BY <1>4, <1>5, <3>5, <3>6
  <2>2. CASE ~Inside
    BY <1>1, <1>4, <2>2 DEF Room
  <2> QED BY <2>1, <2>2
<1> QED BY <1>2, <1>4, <1>7, <1>8 DEF Room

LEMMA RoomStep ==
  ASSUME Types, Known, Once, OutstandingCounted, FragmentCounted, Room, Next
  PROVE  Room' /\ thresh' \in Nat /\ held' \in Nat
<1> USE DEF readerVars, orderVars, mainVars, fragVars, writeVars
<1>0. /\ thresh \in Nat /\ held \in Nat /\ outstanding \in Nat /\ sequence \in Nat /\ source' = source
      /\ (pc # "take" => ~Inside) /\ (pc # "take" /\ pc # "compare" => held = 0)
  BY SourceSame, StreamFacts DEF Types, TypeOK, Room
<1>1. ASSUME UNCHANGED <<sequence, pc, thresh, held>>, outstanding' \in {outstanding, outstanding - 1}, outstanding' \in Nat
      PROVE  Room' /\ thresh' \in Nat /\ held' \in Nat
  <2>1. outstanding' <= outstanding
    BY <1>0, <1>1
  <2> QED BY <1>0, <1>1, <2>1, RoomSame
<1>2. ASSUME UNCHANGED <<sequence, thresh>>, held' \in {held, 0}, pc # "take", pc = "compare" => held' = 0
      PROVE  Room' /\ thresh' \in Nat /\ held' \in Nat
  <2>1. held' = 0 /\ ~Inside
    BY <1>0, <1>2
  <2> QED BY <1>0, <1>2, <2>1, RoomOutside
<1>3. CASE Reader
  <2>1. UNCHANGED <<sequence, pc, thresh, held, outstanding>>
    BY <1>3 DEF Reader, ReaderGet, ReaderPut
  <2> QED BY <1>0, <1>1, <2>1
<1>4. CASE Writer \/ PushBuffer \/ \E d \in Deflators : Deflator(d)
  <2>1. UNCHANGED <<sequence, pc, thresh, held, outstanding>>
    BY <1>4 DEF Writer, Write, PushBuffer, Deflator, DeflatorTake, Deflate, DeflatorPut
  <2> QED BY <1>0, <1>1, <2>1
<1>5. CASE \E d \in FragDeflators : FragDeflator(d)
  <2>1. UNCHANGED <<sequence, pc, thresh, held>> /\ outstanding' \in {outstanding, outstanding - 1}
    BY <1>5 DEF FragDeflator, FragDeflatorTake, FragDeflate, FragPlace, FragEnd
  <2>2. outstanding' \in Nat
    BY <1>5, FragsStep DEF Next
  <2> QED BY <1>1, <2>1, <2>2
<1>6. CASE UnlockPending
  <2>1. UNCHANGED <<sequence, pc, thresh, held>> /\ outstanding' \in {outstanding, outstanding - 1}
    BY <1>6 DEF UnlockPending
  <2>2. outstanding' \in Nat
    BY <1>6, FragsStep DEF Next, Main
  <2> QED BY <1>1, <2>1, <2>2
<1>7. CASE \E n \in 0 .. Total - 1 : TakeBlock(n) \/ TakeTail(n)
  BY <1>7, RoomTake, RoomTail
<1>8. CASE Unique \/ Duplicate \/ Flushed \/ Unlock
  <2>1. /\ UNCHANGED <<sequence, thresh>> /\ held' \in {held, 0} /\ pc # "take"
        /\ pc = "compare" => held' = 0
    BY <1>8 DEF Unique, Duplicate, Flushed, Unlock
  <2> QED BY <1>2, <2>1
<1>9. CASE FillFull \/ Fill \/ Drain
  <2>1. /\ UNCHANGED <<sequence, thresh>> /\ held' = held /\ pc # "take" /\ pc # "compare"
    BY <1>9 DEF FillFull, Fill, Drain, WriteFragment
  <2> QED BY <1>2, <2>1
<1>10. CASE LastFragment
  <2>1. /\ UNCHANGED <<sequence, thresh>> /\ held' = held /\ pc = "take" /\ sequence = Total
    BY <1>10 DEF LastFragment, WriteFragment
  <2>2. ~Inside
    <3>1. CASE sequence = 0
      BY <3>1 DEF Inside
    <3>2. CASE sequence # 0
      <4>1. sequence - 1 \in 0 .. Total - 1 /\ (sequence - 1) + 1 = Total
        BY <1>0, <2>1, <3>2
      <4> QED BY <4>1, StreamFacts DEF Types, Inside
    <3> QED BY <3>1, <3>2
  <2>3. held' = 0
    BY <1>0, <2>1, <2>2 DEF Room
  <2> QED BY <1>0, <2>1, <2>2, <2>3, RoomOutside
<1> QED BY <1>3, <1>4, <1>5, <1>6, <1>7, <1>8, <1>9, <1>10 DEF Next, Main

-----------------------------------------------------------------------------
(* The buffers of the reader's and of the writer's cache.                  *)

LEMMA DeflatorCount ==
  ASSUME NEW d \in Deflators, NEW s,
         \A x \in Deflators : x # d => deflator'[x] = deflator[x]
  PROVE  /\ AtStep(s) \in Nat /\ AtStep(s)' \in Nat
         /\ AtStep(s)' + Is(deflator[d].step, {s}) = AtStep(s) + Is(deflator'[d].step, {s})
<1> DEFINE f == [x \in Deflators |-> deflator[x].step]
           g == [x \in Deflators |-> deflator'[x].step]
<1>1. /\ IsFiniteSet(Deflators) /\ \A x \in Deflators : x # d => g[x] = f[x]
      /\ f[d] = deflator[d].step /\ g[d] = deflator'[d].step
  BY PipelineAssumption
<1>2. AtStep(s) = ValuesIn(f, Deflators, {s})
  <2>1. {x \in Deflators : f[x] \in {s}} = {x \in Deflators : deflator[x].step = s}
    OBVIOUS
  <2> QED BY <2>1 DEF AtStep, ValuesIn
<1>3. AtStep(s)' = ValuesIn(g, Deflators, {s})
  <2>1. {x \in Deflators : g[x] \in {s}} = {x \in Deflators : deflator'[x].step = s}
    OBVIOUS
  <2> QED BY <2>1 DEF AtStep, ValuesIn
<1> HIDE DEF f, g
<1>4. ValuesIn(f, Deflators, {s}) \in Nat
  BY <1>1, CountExcept
<1>5. ValuesIn(g, Deflators, {s}) \in Nat
  BY <1>1, CountExcept
<1>6. ValuesIn(g, Deflators, {s}) + Is(f[d], {s}) = ValuesIn(f, Deflators, {s}) + Is(g[d], {s})
  BY <1>1, CountExcept
<1> QED BY <1>1, <1>2, <1>3, <1>4, <1>5, <1>6, Zenon

LEMMA AtStepType == ASSUME NEW s PROVE AtStep(s) \in Nat
<1>1. IsFiniteSet({d \in Deflators : deflator[d].step = s})
  BY PipelineAssumption, FS_Subset
<1> QED BY <1>1, FS_CardinalityType DEF AtStep

\* One number more or less in the hash.
LEMMA HashAdd ==
  ASSUME NEW H, IsFiniteSet(H), NEW e, e \notin H, NEW S, NEW G, G = H \cup {e}
  PROVE  Cardinality(G \cap S) = Cardinality(H \cap S) + Is(e, S)
<1>1. IsFiniteSet(H \cap S)
  BY FS_Subset
<1>2. Cardinality(H \cap S) \in Nat
  BY <1>1, FS_CardinalityType
<1>3. CASE e \in S
  <2>1. Is(e, S) = 1 /\ G \cap S = (H \cap S) \cup {e} /\ e \notin H \cap S
    BY <1>3 DEF Is
  <2>2. Cardinality((H \cap S) \cup {e}) = Cardinality(H \cap S) + 1
    BY <1>1, <2>1, FS_AddElement
  <2> QED BY <2>1, <2>2, Zenon
<1>4. CASE e \notin S
  <2>1. Is(e, S) = 0 /\ G \cap S = H \cap S
    BY <1>4 DEF Is
  <2>2. \A n \in Nat : n = n + 0
    OBVIOUS
  <2> QED BY <1>2, <2>1, <2>2, Zenon
<1> QED BY <1>3, <1>4

LEMMA HashRemove ==
  ASSUME NEW H, IsFiniteSet(H), NEW e \in H, NEW S, NEW G, G = H \ {e}
  PROVE  Cardinality(G \cap S) = Cardinality(H \cap S) - Is(e, S)
<1>1. IsFiniteSet(H \cap S)
  BY FS_Subset
<1>2. Cardinality(H \cap S) \in Nat
  BY <1>1, FS_CardinalityType
<1>3. CASE e \in S
  <2>1. Is(e, S) = 1 /\ G \cap S = (H \cap S) \ {e} /\ e \in H \cap S
    BY <1>3 DEF Is
  <2>2. Cardinality((H \cap S) \ {e}) = Cardinality(H \cap S) - 1
    BY <1>1, <2>1, FS_RemoveElement
  <2> QED BY <2>1, <2>2, Zenon
<1>4. CASE e \notin S
  <2>1. Is(e, S) = 0 /\ G \cap S = H \cap S
    BY <1>4 DEF Is
  <2>2. \A n \in Nat : n = n - 0
    OBVIOUS
  <2> QED BY <1>2, <2>1, <2>2, Zenon
<1> QED BY <1>3, <1>4

LEMMA HashFinite == ASSUME Types, Known PROVE IsFiniteSet(blockHash)
<1>1. sequence \in Int /\ next - 1 \in Int
  BY StreamFacts DEF Types, TypeOK
<1>2. IsFiniteSet(sequence .. next - 1)
  BY <1>1, FS_Interval
<1> QED BY <1>2, FS_Subset DEF Known

LEMMA FlowType == ASSUME Types, Known, NEW S PROVE Queued(S) \in Nat /\ Hashed(S) \in Nat /\ Flow(S) \in Nat
<1>1. Queued(S) \in Nat
  BY CountType DEF Queued, Types
<1>2. Hashed(S) \in Nat
  <2>1. IsFiniteSet(blockHash \cap S)
    BY HashFinite, FS_Subset
  <2> QED BY <2>1, FS_CardinalityType DEF Hashed
<1> QED BY <1>1, <1>2 DEF Flow

\* What the main thread takes leaves the queue or the hash; what the hash gets, the queue gives.
LEMMA FlowPush ==
  ASSUME Types, Known, Once, PushBuffer, NEW S
  PROVE  Flow(S)' = Flow(S)
<1> DEFINE n == Head(fromDeflate)
<1>1. /\ fromDeflate \in Seq(Nat) /\ fromDeflate # <<>> /\ fromDeflate' = Tail(fromDeflate)
      /\ blockHash' = blockHash \cup {n} /\ n \notin blockHash
  BY OrderPush DEF PushBuffer, Types
<1>2. Queued(S) = Queued(S)' + Is(n, S) /\ Queued(S)' \in Nat
  BY <1>1, CountTail DEF Queued
<1>3. Hashed(S)' = Hashed(S) + Is(n, S)
  <2>1. IsFiniteSet(blockHash) /\ n \notin blockHash /\ blockHash' = blockHash \cup {n}
    BY <1>1, HashFinite
  <2> HIDE DEF n
  <2>2. Cardinality(blockHash' \cap S) = Cardinality(blockHash \cap S) + Is(n, S)
    BY <2>1, HashAdd
  <2> QED BY <2>2 DEF Hashed
<1>4. Hashed(S) \in Nat /\ Is(n, S) \in Nat
  BY FlowType DEF Is
<1> HIDE DEF n
<1> QED BY <1>2, <1>3, <1>4 DEF Flow

LEMMA FlowGot ==
  ASSUME Types, Known, Once, NEW n \in 0 .. Total - 1, Got(n), NEW S
  PROVE  Flow(S)' = Flow(S) - Is(n, S)
<1>0. Queued(S) \in Nat /\ Hashed(S) \in Nat /\ Is(n, S) \in Nat
  BY FlowType DEF Is
<1>1. CASE n \in blockHash /\ blockHash' = blockHash \ {n} /\ fromDeflate' = fromDeflate
  <2>1. Queued(S)' = Queued(S)
    BY <1>1 DEF Queued
  <2>2. IsFiniteSet(blockHash) /\ n \in blockHash /\ blockHash' = blockHash \ {n}
    BY <1>1, HashFinite
  <2>3. Hashed(S)' = Hashed(S) - Is(n, S)
    BY <2>2, HashRemove DEF Hashed
  <2> QED BY <1>0, <2>1, <2>3 DEF Flow
<1>2. CASE /\ n \notin blockHash /\ fromDeflate # <<>> /\ n = Head(fromDeflate)
           /\ fromDeflate' = Tail(fromDeflate) /\ blockHash' = blockHash
  <2>1. fromDeflate \in Seq(Nat)
    BY DEF Types
  <2>2. Queued(S) = Queued(S)' + Is(n, S) /\ Queued(S)' \in Nat
    BY <1>2, <2>1, CountTail DEF Queued
  <2>3. Hashed(S)' = Hashed(S)
    BY <1>2 DEF Hashed
  <2> QED BY <1>0, <2>2, <2>3 DEF Flow
<1> QED BY <1>1, <1>2, GotFacts

LEMMA FlowAppend ==
  ASSUME Types, Known, NEW e \in Nat, fromDeflate' = Append(fromDeflate, e), blockHash' = blockHash, NEW S
  PROVE  Flow(S)' = Flow(S) + Is(e, S)
<1>0. Queued(S) \in Nat /\ Hashed(S) \in Nat /\ Is(e, S) \in Nat
  BY FlowType DEF Is
<1>1. fromDeflate \in Seq(Nat)
  BY DEF Types
<1>2. Queued(S)' = Queued(S) + Is(e, S)
  BY <1>1, CountAppend DEF Queued
<1>3. Hashed(S)' = Hashed(S)
  BY DEF Hashed
<1> QED BY <1>0, <1>2, <1>3 DEF Flow

LEMMA FlowSame ==
  ASSUME fromDeflate' = fromDeflate, blockHash' = blockHash, NEW S
  PROVE  Flow(S)' = Flow(S)
BY DEF Flow, Queued, Hashed

LEMMA CountFacts ==
  ASSUME Types, Known, ReaderCounted, WriterCounted
  PROVE  /\ Len(fromReader) \in Nat /\ AtStep("taken") \in Nat /\ AtStep("deflated") \in Nat
         /\ Flow(Tails) \in Nat /\ Flow(Blocks) \in Nat /\ ToWrite \in Nat
         /\ FragsAt({"deflated", "deferred", "placed"}) \in Nat
         /\ held \in Nat /\ pending \in Nat
         /\ ReaderBuffers \in Nat /\ WriterBuffers \in Nat
         /\ readerUsed \in 0 .. ReaderBuffers /\ writerUsed \in 0 .. WriterBuffers
         /\ One(reading) \in Nat /\ One(TailInHand) \in Nat
         /\ readerUsed = One(reading) + Len(fromReader) + AtStep("taken") + Flow(Tails) + One(TailInHand)
         /\ writerUsed = AtStep("deflated") + held + pending + Flow(Blocks) + ToWrite
                         + FragsAt({"deflated", "deferred", "placed"})
<1>1. Len(fromReader) \in Nat
  BY DEF Types
<1>2. ToWrite \in Nat
  BY CountType DEF Types, ToWrite
<1> QED BY <1>1, <1>2, PipelineAssumption, AtStepType, FlowType, FragType
     DEF Types, TypeOK, One, ReaderCounted, WriterCounted, ReaderSum, WriterSum

LEMMA Kinds ==
  ASSUME NEW n \in Nat
  PROVE  /\ Item(n).tail => Is(n, Tails) = 1 /\ Is(n, Blocks) = 0
         /\ ~Item(n).tail => Is(n, Tails) = 0 /\ Is(n, Blocks) = 1
BY DEF Is, Tails, Blocks

ReaderFits == ReaderCounted /\ readerUsed \in 0 .. ReaderBuffers
WriterFits == WriterCounted /\ writerUsed \in 0 .. WriterBuffers

\* What the others do to each of the two counts.
LEMMA ReaderSame ==
  ASSUME Types, ReaderCounted, source' = source, UNCHANGED <<readerUsed, reading, fromReader>>,
         AtStep("taken")' = AtStep("taken"), Flow(Tails)' = Flow(Tails), TailInHand' = TailInHand
  PROVE  ReaderFits'
<1>1. Len(fromReader)' = Len(fromReader) /\ One(reading)' = One(reading) /\ One(TailInHand)' = One(TailInHand)
  BY DEF One
<1> QED BY <1>1 DEF ReaderFits, ReaderCounted, ReaderSum, Types, TypeOK

LEMMA WriterSame ==
  ASSUME Types, WriterCounted, source' = source, UNCHANGED <<writerUsed, held, pending, toWriter, fragDeflator>>,
         AtStep("deflated")' = AtStep("deflated"), Flow(Blocks)' = Flow(Blocks)
  PROVE  WriterFits'
<1>1. ToWrite' = ToWrite
  BY DEF ToWrite, CountIn
<1>2. FragsAt({"deflated", "deferred", "placed"})' = FragsAt({"deflated", "deferred", "placed"})
  BY DEF FragsAt
<1> QED BY <1>1, <1>2 DEF WriterFits, WriterCounted, WriterSum, Types, TypeOK

LEMMA CountReader ==
  ASSUME Types, Known, Once, InStep, ReaderCounted, WriterCounted, Reader
  PROVE  ReaderFits' /\ WriterFits'
<1> USE DEF readerVars, orderVars, mainVars, fragVars, writeVars
<1> DEFINE R == One(reading) + Len(fromReader) + AtStep("taken") + Flow(Tails) + One(TailInHand)
<1>0. ReaderFits' <=> readerUsed' = R' /\ readerUsed' \in 0 .. ReaderBuffers
  BY DEF ReaderFits, ReaderCounted, ReaderSum
<1>3. /\ Len(fromReader) \in Nat /\ AtStep("taken") \in Nat /\ Flow(Tails) \in Nat /\ Flow(Blocks) \in Nat
      /\ One(reading) \in Nat /\ One(TailInHand) \in Nat /\ ReaderBuffers \in Nat
      /\ readerUsed \in 0 .. ReaderBuffers /\ readerUsed = R
  BY CountFacts
<1>1. CASE ReaderGet
  <2>1. /\ source' = source /\ reading = FALSE /\ reading' = TRUE /\ readerUsed < ReaderBuffers
        /\ readerUsed' = readerUsed + 1
        /\ UNCHANGED <<fromReader, fromDeflate, blockHash, deflator, pc, after>>
        /\ UNCHANGED <<writerUsed, held, pending, toWriter, fragDeflator>>
    BY <1>1 DEF ReaderGet, Types
  <2>2. AtStep("taken")' = AtStep("taken") /\ AtStep("deflated")' = AtStep("deflated")
    BY <2>1 DEF AtStep
  <2>3. Tails' = Tails /\ Blocks' = Blocks /\ \A S : Flow(S)' = Flow(S)
    BY <2>1, SourceKept, FlowSame
  <2>4. Flow(Tails)' = Flow(Tails) /\ Flow(Blocks)' = Flow(Blocks)
    BY <2>3, Zenon
  <2>5. WriterFits'
    BY <2>1, <2>2, <2>4, WriterSame
  <2>6. Len(fromReader)' = Len(fromReader) /\ One(reading) = 0 /\ One(reading)' = 1 /\ One(TailInHand)' = One(TailInHand)
    BY <2>1 DEF One, TailInHand
  <2>7. readerUsed' = R' /\ readerUsed' \in 0 .. ReaderBuffers
    BY <2>1, <2>2, <2>4, <2>6, <1>3
  <2> QED BY <1>0, <2>5, <2>7
<1>2. CASE ReaderPut
  <2>1. /\ source' = source /\ reading /\ reading' = FALSE
        /\ UNCHANGED <<readerUsed, blockHash, deflator, pc, after>>
        /\ UNCHANGED <<writerUsed, held, pending, toWriter, fragDeflator>>
    BY <1>2 DEF ReaderPut
  <2>2. AtStep("taken")' = AtStep("taken") /\ AtStep("deflated")' = AtStep("deflated")
    BY <2>1 DEF AtStep
  <2>3. Tails' = Tails /\ Blocks' = Blocks
    BY <2>1, SourceKept
  <2>4. next \in Nat /\ fromReader \in Seq(Nat)
    BY StreamFacts DEF Types, TypeOK
  <2>5. One(reading) = 1 /\ One(reading)' = 0 /\ One(TailInHand)' = One(TailInHand)
    BY <2>1 DEF One, TailInHand
  <2>6. CASE Item(next).tail
    <3>1. fromDeflate' = Append(fromDeflate, next) /\ fromReader' = fromReader
      BY <1>2, <2>6 DEF ReaderPut
    <3>2. \A S : Flow(S)' = Flow(S) + Is(next, S)
      BY <2>1, <2>4, <3>1, FlowAppend
    <3>3. Flow(Tails)' = Flow(Tails) + Is(next, Tails) /\ Flow(Blocks)' = Flow(Blocks) + Is(next, Blocks)
      BY <2>3, <3>2, Zenon
    <3>4. Flow(Tails)' = Flow(Tails) + 1 /\ Flow(Blocks)' = Flow(Blocks) /\ Len(fromReader)' = Len(fromReader)
      <4>1. Is(next, Tails) = 1 /\ Is(next, Blocks) = 0
        BY <2>4, <2>6, Kinds
      <4> QED BY <1>3, <3>1, <3>3, <4>1
    <3>5. readerUsed' = R' /\ readerUsed' \in 0 .. ReaderBuffers
      BY SMTT(30), <2>1, <2>2, <2>5, <3>4, <1>3
    <3>6. WriterFits'
      BY <2>1, <2>2, <3>4, WriterSame
    <3> QED BY <1>0, <3>5, <3>6
  <2>7. CASE ~Item(next).tail
    <3>1. fromReader' = Append(fromReader, next) /\ fromDeflate' = fromDeflate
      BY <1>2, <2>7 DEF ReaderPut
    <3>2. \A S : Flow(S)' = Flow(S)
      BY <2>1, <3>1, FlowSame
    <3>3. Flow(Tails)' = Flow(Tails) /\ Flow(Blocks)' = Flow(Blocks)
      BY <2>3, <3>2, Zenon
    <3>4. Len(fromReader)' = Len(fromReader) + 1
      BY <2>4, <3>1
    <3>5. readerUsed' = R' /\ readerUsed' \in 0 .. ReaderBuffers
      BY <2>1, <2>2, <2>5, <3>3, <3>4, <1>3
    <3>6. WriterFits'
      BY <2>1, <2>2, <3>3, WriterSame
    <3> QED BY <1>0, <3>5, <3>6
  <2> QED BY <2>6, <2>7
<1> QED BY <1>1, <1>2 DEF Reader

LEMMA CountDeflator ==
  ASSUME Types, Known, Once, ReaderCounted, WriterCounted, NEW d \in Deflators, Deflator(d)
  PROVE  ReaderFits' /\ WriterFits'
<1> DEFINE R == One(reading) + Len(fromReader) + AtStep("taken") + Flow(Tails) + One(TailInHand)
           F == FragsAt({"deflated", "deferred", "placed"})
           W == AtStep("deflated") + held + pending + Flow(Blocks) + ToWrite + F
<1>0. /\ ReaderFits' <=> readerUsed' = R' /\ readerUsed' \in 0 .. ReaderBuffers
      /\ WriterFits' <=> writerUsed' = W' /\ writerUsed' \in 0 .. WriterBuffers
  BY DEF ReaderFits, ReaderCounted, ReaderSum, WriterFits, WriterCounted, WriterSum
<1>1. /\ Len(fromReader) \in Nat /\ AtStep("taken") \in Nat /\ Flow(Tails) \in Nat
      /\ One(reading) \in Nat /\ One(TailInHand) \in Nat /\ ReaderBuffers \in Nat
      /\ readerUsed \in 0 .. ReaderBuffers /\ readerUsed = R
  BY CountFacts
<1>2. /\ AtStep("deflated") \in Nat /\ Flow(Blocks) \in Nat /\ ToWrite \in Nat /\ F \in Nat
      /\ held \in Nat /\ pending \in Nat /\ WriterBuffers \in Nat
      /\ writerUsed \in 0 .. WriterBuffers /\ writerUsed = W
  BY CountFacts
<1>3. /\ source' = source /\ UNCHANGED <<reading, pc, after, blockHash, held, pending, toWriter, fragDeflator>>
      /\ Tails' = Tails /\ Blocks' = Blocks
      /\ One(reading)' = One(reading) /\ One(TailInHand)' = One(TailInHand) /\ ToWrite' = ToWrite /\ F' = F
  <2>1. source' = source /\ UNCHANGED <<reading, pc, after, blockHash, held, pending, toWriter, fragDeflator>>
    BY DEF Deflator, DeflatorTake, Deflate, DeflatorPut, readerVars, orderVars, mainVars, fragVars, writeVars
  <2>2. Tails' = Tails /\ Blocks' = Blocks
    BY <2>1, SourceKept
  <2>3. One(reading)' = One(reading) /\ One(TailInHand)' = One(TailInHand) /\ ToWrite' = ToWrite /\ F' = F
    BY <2>1 DEF One, TailInHand, ToWrite, CountIn, FragsAt
  <2> QED BY <2>1, <2>2, <2>3
<1> HIDE DEF F
<1>4. \A x \in Deflators : x # d => deflator'[x] = deflator[x]
  BY DEF Deflator, DeflatorTake, Deflate, DeflatorPut, Types
<1>5. /\ AtStep("taken")' \in Nat /\ AtStep("deflated")' \in Nat
      /\ AtStep("taken")' + Is(deflator[d].step, {"taken"}) = AtStep("taken") + Is(deflator'[d].step, {"taken"})
      /\ AtStep("deflated")' + Is(deflator[d].step, {"deflated"}) = AtStep("deflated") + Is(deflator'[d].step, {"deflated"})
  <2>1. \A s : AtStep(s)' \in Nat
    BY <1>4, DeflatorCount
  <2>2. \A s : AtStep(s)' + Is(deflator[d].step, {s}) = AtStep(s) + Is(deflator'[d].step, {s})
    BY <1>4, DeflatorCount
  <2> QED BY <2>1, <2>2
<1>6. fromReader \in Seq(Nat) /\ fromDeflate \in Seq(Nat)
  BY DEF Types
<1>7. CASE DeflatorTake(d)
  <2>1. /\ deflator[d].step = "idle" /\ fromReader # <<>> /\ deflator'[d].step = "taken"
        /\ fromReader' = Tail(fromReader) /\ UNCHANGED <<fromDeflate, readerUsed, writerUsed>>
    BY <1>7 DEF DeflatorTake, Types
  <2>2. \A S : Flow(S)' = Flow(S)
    BY <1>3, <2>1, FlowSame
  <2>3. Flow(Tails)' = Flow(Tails) /\ Flow(Blocks)' = Flow(Blocks)
    BY <1>3, <2>2, Zenon
  <2>4. Len(fromReader)' = Len(fromReader) - 1
    BY <1>6, <2>1
  <2>5. AtStep("taken")' = AtStep("taken") + 1 /\ AtStep("deflated")' = AtStep("deflated")
    BY SMTT(30), <1>1, <1>2, <1>5, <2>1 DEF Is
  <2>6. readerUsed' = R' /\ readerUsed' \in 0 .. ReaderBuffers
    BY <1>1, <1>3, <2>1, <2>3, <2>4, <2>5
  <2>7. writerUsed' = W' /\ writerUsed' \in 0 .. WriterBuffers
    BY <1>2, <1>3, <2>1, <2>3, <2>5
  <2> QED BY <1>0, <2>6, <2>7
<1>8. CASE Deflate(d)
  <2>1. /\ deflator[d].step = "taken" /\ deflator'[d].step = "deflated" /\ writerUsed < WriterBuffers
        /\ writerUsed' = writerUsed + 1 /\ readerUsed' = readerUsed - 1
        /\ UNCHANGED <<fromReader, fromDeflate>>
    BY <1>8 DEF Deflate, Types, PutBack, readerVars
  <2>2. \A S : Flow(S)' = Flow(S)
    BY <1>3, <2>1, FlowSame
  <2>3. Flow(Tails)' = Flow(Tails) /\ Flow(Blocks)' = Flow(Blocks)
    BY <1>3, <2>2, Zenon
  <2>4. Len(fromReader)' = Len(fromReader)
    BY <2>1
  <2>5. AtStep("taken")' = AtStep("taken") - 1 /\ AtStep("deflated")' = AtStep("deflated") + 1
    <3>1. /\ Is(deflator[d].step, {"taken"}) = 1 /\ Is(deflator'[d].step, {"taken"}) = 0
          /\ Is(deflator[d].step, {"deflated"}) = 0 /\ Is(deflator'[d].step, {"deflated"}) = 1
      BY <2>1 DEF Is
    <3>2. \A a, b \in Nat : /\ a + 1 = b + 0 => a = b - 1
                            /\ a + 0 = b + 1 => a = b + 1
                            /\ a + 0 = b + 0 => a = b
      OBVIOUS
    <3>3. AtStep("taken")' + 1 = AtStep("taken") + 0
      BY <1>5, <3>1
    <3>4. AtStep("deflated")' + 0 = AtStep("deflated") + 1
      BY <1>5, <3>1
    <3>5. /\ AtStep("taken") \in Nat /\ AtStep("taken")' \in Nat
          /\ AtStep("deflated") \in Nat /\ AtStep("deflated")' \in Nat
      BY <1>1, <1>2, <1>5
    <3> QED BY <3>2, <3>3, <3>4, <3>5, Zenon
  <2>6. readerUsed' = R' /\ readerUsed' \in 0 .. ReaderBuffers
    <3>1. readerUsed' = readerUsed - 1 /\ AtStep("taken")' \in Nat
      BY <1>5, <2>1
    <3> QED BY SMTT(30), <1>1, <1>3, <2>3, <2>4, <2>5, <3>1
  <2>7. writerUsed' = W' /\ writerUsed' \in 0 .. WriterBuffers
    BY <1>2, <1>3, <2>1, <2>3, <2>5
  <2> QED BY <1>0, <2>6, <2>7
<1>9. CASE DeflatorPut(d)
  <2> DEFINE n == deflator[d].seq
  <2>1. /\ deflator[d].step = "deflated" /\ deflator'[d].step = "idle"
        /\ fromDeflate' = Append(fromDeflate, n) /\ UNCHANGED <<fromReader, readerUsed, writerUsed>>
    BY <1>9 DEF DeflatorPut, Types, Idle, readerVars
  <2>2. n \in Nat /\ ~Item(n).tail
    <3>1. n \in Hands
      BY <2>1 DEF Hands, Busy
    <3> QED BY <3>1 DEF Known, Blocks
  <2> HIDE DEF n
  <2>3. \A S : Flow(S)' = Flow(S) + Is(n, S)
    BY <1>3, <2>1, <2>2, FlowAppend
  <2>4. Flow(Tails)' = Flow(Tails) + Is(n, Tails) /\ Flow(Blocks)' = Flow(Blocks) + Is(n, Blocks)
    BY <1>3, <2>3, Zenon
  <2>5. Is(n, Tails) = 0 /\ Is(n, Blocks) = 1
    BY <2>2, Kinds
  <2>6. Flow(Tails)' = Flow(Tails) /\ Flow(Blocks)' = Flow(Blocks) + 1
    BY <1>1, <1>2, <2>4, <2>5
  <2>7. AtStep("taken")' = AtStep("taken") /\ AtStep("deflated")' = AtStep("deflated") - 1
    <3>1. /\ Is(deflator[d].step, {"taken"}) = 0 /\ Is(deflator'[d].step, {"taken"}) = 0
          /\ Is(deflator[d].step, {"deflated"}) = 1 /\ Is(deflator'[d].step, {"deflated"}) = 0
      BY <2>1 DEF Is
    <3>2. \A a, b \in Nat : /\ a + 1 = b + 0 => a = b - 1
                            /\ a + 0 = b + 1 => a = b + 1
                            /\ a + 0 = b + 0 => a = b
      OBVIOUS
    <3>3. AtStep("taken")' + 0 = AtStep("taken") + 0
      BY <1>5, <3>1
    <3>4. AtStep("deflated")' + 1 = AtStep("deflated") + 0
      BY <1>5, <3>1
    <3>5. /\ AtStep("taken") \in Nat /\ AtStep("taken")' \in Nat
          /\ AtStep("deflated") \in Nat /\ AtStep("deflated")' \in Nat
      BY <1>1, <1>2, <1>5
    <3> QED BY <3>2, <3>3, <3>4, <3>5, Zenon
  <2>8. Len(fromReader)' = Len(fromReader)
    BY <2>1
  <2>9. readerUsed' = R' /\ readerUsed' \in 0 .. ReaderBuffers
    BY <1>1, <1>3, <2>1, <2>6, <2>7, <2>8
  <2>10. writerUsed' = W' /\ writerUsed' \in 0 .. WriterBuffers
    BY <1>2, <1>3, <2>1, <2>6, <2>7
  <2> QED BY <1>0, <2>9, <2>10
<1> QED BY <1>7, <1>8, <1>9 DEF Deflator

\* The writer's queue.
LEMMA ToWriteAppend ==
  ASSUME Types, NEW m \in {"buffer", "flush"}, toWriter' = Append(toWriter, m)
  PROVE  ToWrite' = IF m = "buffer" THEN ToWrite + 1 ELSE ToWrite
<1>1. toWriter \in Seq({"buffer", "flush"})
  BY DEF Types
<1>2. CountIn(Append(toWriter, m), {"buffer"}) = CountIn(toWriter, {"buffer"}) + Is(m, {"buffer"})
  BY <1>1, CountAppend
<1>3. ToWrite' = ToWrite + Is(m, {"buffer"})
  BY <1>2 DEF ToWrite
<1>4. ToWrite \in Nat
  BY <1>1, CountType DEF ToWrite
<1> QED BY <1>3, <1>4 DEF Is

LEMMA CountPush ==
  ASSUME Types, Known, Once, ReaderCounted, WriterCounted, PushBuffer
  PROVE  ReaderFits' /\ WriterFits'
<1>1. /\ source' = source /\ UNCHANGED <<readerUsed, reading, fromReader, deflator, pc, after>>
      /\ UNCHANGED <<writerUsed, held, pending, toWriter, fragDeflator>>
  BY DEF PushBuffer, readerVars, mainVars, fragVars, writeVars
<1>2. AtStep("taken")' = AtStep("taken") /\ AtStep("deflated")' = AtStep("deflated") /\ TailInHand' = TailInHand
  BY <1>1 DEF AtStep, TailInHand
<1>3. Tails' = Tails /\ Blocks' = Blocks /\ \A S : Flow(S)' = Flow(S)
  BY <1>1, SourceKept, FlowPush
<1>4. Flow(Tails)' = Flow(Tails) /\ Flow(Blocks)' = Flow(Blocks)
  BY <1>3, Zenon
<1> QED BY <1>1, <1>2, <1>4, ReaderSame, WriterSame

LEMMA CountTake ==
  ASSUME Types, Known, Once, InStep, ReaderCounted, WriterCounted,
         NEW n \in 0 .. Total - 1, TakeBlock(n) \/ TakeTail(n)
  PROVE  ReaderFits' /\ WriterFits'
<1> DEFINE R == One(reading) + Len(fromReader) + AtStep("taken") + Flow(Tails) + One(TailInHand)
           F == FragsAt({"deflated", "deferred", "placed"})
           W == AtStep("deflated") + held + pending + Flow(Blocks) + ToWrite + F
<1>0. /\ ReaderFits' <=> readerUsed' = R' /\ readerUsed' \in 0 .. ReaderBuffers
      /\ WriterFits' <=> writerUsed' = W' /\ writerUsed' \in 0 .. WriterBuffers
  BY DEF ReaderFits, ReaderCounted, ReaderSum, WriterFits, WriterCounted, WriterSum
<1>1. /\ Len(fromReader) \in Nat /\ AtStep("taken") \in Nat /\ Flow(Tails) \in Nat
      /\ One(reading) \in Nat /\ One(TailInHand) \in Nat /\ ReaderBuffers \in Nat
      /\ readerUsed \in 0 .. ReaderBuffers /\ readerUsed = R
  BY CountFacts
<1>2. /\ AtStep("deflated") \in Nat /\ Flow(Blocks) \in Nat /\ ToWrite \in Nat /\ F \in Nat
      /\ held \in Nat /\ pending \in Nat /\ WriterBuffers \in Nat
      /\ writerUsed \in 0 .. WriterBuffers /\ writerUsed = W
  BY CountFacts
<1>3. Got(n)
  BY DEF TakeBlock, TakeTail
<1>4. /\ UNCHANGED <<source, reading, fromReader, deflator, fragDeflator, readerUsed>> /\ pc = "take"
      /\ UNCHANGED <<pending, writerUsed>>
  BY <1>3, GotFacts DEF TakeBlock, TakeTail
<1>5. /\ Tails' = Tails /\ Blocks' = Blocks /\ One(reading)' = One(reading) /\ One(TailInHand) = 0 /\ F' = F
      /\ AtStep("taken")' = AtStep("taken") /\ AtStep("deflated")' = AtStep("deflated")
      /\ Len(fromReader)' = Len(fromReader)
  BY <1>4, SourceKept DEF One, TailInHand, FragsAt, AtStep
<1>6. Flow(Tails)' = Flow(Tails) - Is(n, Tails) /\ Flow(Blocks)' = Flow(Blocks) - Is(n, Blocks)
  <2>1. \A S : Flow(S)' = Flow(S) - Is(n, S)
    BY <1>3, FlowGot
  <2> QED BY <1>5, <2>1, Zenon
<1>7. n \in Nat /\ Flow(Tails)' \in Nat /\ Flow(Blocks)' \in Nat
  <2>1. n \in Nat
    BY StreamFacts DEF Types
  <2>2. \A S : Flow(S)' \in Nat
    <3>1. Types /\ Known /\ Once
      OBVIOUS
    <3>2. CASE blockHash' = blockHash \ {n} /\ fromDeflate' = fromDeflate
      <4>1. \A S : IsFiniteSet(blockHash' \cap S)
        BY <3>2, HashFinite, FS_Subset
      <4>2. \A S : Hashed(S)' \in Nat
        BY <4>1, FS_CardinalityType DEF Hashed
      <4>3. \A S : Queued(S)' \in Nat
        BY <3>2, CountType DEF Queued, Types
      <4> QED BY <4>2, <4>3 DEF Flow
    <3>3. CASE fromDeflate # <<>> /\ fromDeflate' = Tail(fromDeflate) /\ blockHash' = blockHash
      <4>1. \A S : Hashed(S)' \in Nat
        BY <3>3, FlowType DEF Hashed
      <4>2. \A S : Queued(S)' \in Nat
        BY <3>3, CountTail DEF Queued, Types
      <4> QED BY <4>1, <4>2 DEF Flow
    <3> QED BY <1>3, <3>2, <3>3, GotFacts
  <2> QED BY <2>1, <2>2
<1> HIDE DEF F
<1>8. CASE TakeBlock(n)
  <2>1. Is(n, Tails) = 0 /\ Is(n, Blocks) = 1
    BY <1>7, <1>8, Kinds DEF TakeBlock
  <2>2. Flow(Tails)' = Flow(Tails) /\ Flow(Blocks)' = Flow(Blocks) - 1
    BY <1>1, <1>6, <2>1
  <2>3. One(TailInHand)' = 0
    BY <1>8 DEF TakeBlock, FileEnd, TailInHand, One
  <2>4. readerUsed' = R' /\ readerUsed' \in 0 .. ReaderBuffers
    BY <1>1, <1>4, <1>5, <2>2, <2>3
  <2>5. \/ toWriter' = Append(toWriter, "buffer") /\ held' = held
        \/ held' = held + 1 /\ toWriter' = toWriter
    BY <1>8 DEF TakeBlock
  <2>6. \/ ToWrite' = ToWrite + 1 /\ held' = held
        \/ held' = held + 1 /\ ToWrite' = ToWrite
    <3>1. CASE toWriter' = Append(toWriter, "buffer") /\ held' = held
      BY <3>1, ToWriteAppend, <1>2
    <3>2. CASE held' = held + 1 /\ toWriter' = toWriter
      BY <3>2 DEF ToWrite, CountIn
    <3> QED BY <2>5, <3>1, <3>2
  <2>7. writerUsed' = W' /\ writerUsed' \in 0 .. WriterBuffers
    <3>1. CASE ToWrite' = ToWrite + 1 /\ held' = held
      BY <1>2, <1>4, <1>5, <1>7, <2>2, <3>1
    <3>2. CASE held' = held + 1 /\ ToWrite' = ToWrite
      BY <1>2, <1>4, <1>5, <1>7, <2>2, <3>2
    <3> QED BY <2>6, <3>1, <3>2
  <2> QED BY <1>0, <2>4, <2>7
<1>9. CASE TakeTail(n)
  <2>1. Is(n, Tails) = 1 /\ Is(n, Blocks) = 0
    BY <1>7, <1>9, Kinds DEF TakeTail
  <2>2. Flow(Tails)' = Flow(Tails) - 1 /\ Flow(Blocks)' = Flow(Blocks)
    BY <1>2, <1>6, <2>1
  <2>3. One(TailInHand)' = 1
    BY <1>9 DEF TakeTail, TailInHand, One
  <2>4. held' = held /\ toWriter' = toWriter
    BY <1>9 DEF TakeTail, writeVars
  <2>5. ToWrite' = ToWrite
    BY <2>4 DEF ToWrite, CountIn
  <2>6. readerUsed' = R' /\ readerUsed' \in 0 .. ReaderBuffers
    BY <1>1, <1>4, <1>5, <1>7, <2>2, <2>3
  <2>7. writerUsed' = W' /\ writerUsed' \in 0 .. WriterBuffers
    BY <1>2, <1>4, <1>5, <2>2, <2>4, <2>5
  <2> QED BY <1>0, <2>6, <2>7
<1> QED BY <1>8, <1>9

LEMMA CountMain ==
  ASSUME Types, Known, Once, InStep, ReaderCounted, WriterCounted,
         \/ Unique \/ Duplicate \/ Flushed \/ UnlockPending \/ Unlock
         \/ FillFull \/ Fill \/ LastFragment \/ Drain
  PROVE  ReaderFits' /\ WriterFits'
<1> DEFINE R == One(reading) + Len(fromReader) + AtStep("taken") + Flow(Tails) + One(TailInHand)
           F == FragsAt({"deflated", "deferred", "placed"})
           W == AtStep("deflated") + held + pending + Flow(Blocks) + ToWrite + F
<1> USE DEF readerVars, orderVars, mainVars, fragVars, writeVars
<1>0. /\ ReaderFits' <=> readerUsed' = R' /\ readerUsed' \in 0 .. ReaderBuffers
      /\ WriterFits' <=> writerUsed' = W' /\ writerUsed' \in 0 .. WriterBuffers
  BY DEF ReaderFits, ReaderCounted, ReaderSum, WriterFits, WriterCounted, WriterSum
<1>1. /\ Len(fromReader) \in Nat /\ AtStep("taken") \in Nat /\ Flow(Tails) \in Nat
      /\ One(reading) \in Nat /\ One(TailInHand) \in Nat /\ ReaderBuffers \in Nat
      /\ readerUsed \in 0 .. ReaderBuffers /\ readerUsed = R
  BY CountFacts
<1>2. /\ AtStep("deflated") \in Nat /\ Flow(Blocks) \in Nat /\ ToWrite \in Nat /\ F \in Nat
      /\ held \in Nat /\ pending \in Nat /\ WriterBuffers \in Nat
      /\ writerUsed \in 0 .. WriterBuffers /\ writerUsed = W
  BY CountFacts
<1>3. UNCHANGED <<source, reading, fromReader, fromDeflate, blockHash, deflator, fragDeflator>>
  <2>1. CASE Unique \/ Duplicate \/ Flushed \/ UnlockPending \/ Unlock
    BY <2>1 DEF Unique, Duplicate, Flushed, UnlockPending, Unlock
  <2>2. CASE FillFull \/ Fill \/ LastFragment \/ Drain
    BY <2>2 DEF FillFull, Fill, LastFragment, Drain, WriteFragment
  <2> QED BY <2>1, <2>2
<1>4. /\ One(reading)' = One(reading) /\ F' = F
      /\ AtStep("taken")' = AtStep("taken") /\ AtStep("deflated")' = AtStep("deflated")
      /\ Len(fromReader)' = Len(fromReader)
  BY <1>3 DEF One, FragsAt, AtStep
<1>5. Flow(Tails)' = Flow(Tails) /\ Flow(Blocks)' = Flow(Blocks)
  <2>1. Tails' = Tails /\ Blocks' = Blocks /\ \A S : Flow(S)' = Flow(S)
    BY <1>3, SourceKept, FlowSame
  <2> QED BY <2>1, Zenon
<1> HIDE DEF F
<1>6. ReaderFits'
  <2>1. CASE Fill
    <3>1. One(TailInHand) = 1 /\ One(TailInHand)' = 0 /\ readerUsed' = readerUsed - 1
      BY <2>1 DEF Fill, TailInHand, One, PutBack
    <3>2. readerUsed' = R' /\ readerUsed' \in 0 .. ReaderBuffers
      BY <1>1, <1>4, <1>5, <3>1
    <3> QED BY <1>0, <3>2
  <2>2. CASE ~Fill
    <3>1. readerUsed' = readerUsed
      <4>1. CASE Unique \/ Duplicate \/ Flushed \/ UnlockPending \/ Unlock
        BY <4>1 DEF Unique, Duplicate, Flushed, UnlockPending, Unlock
      <4>2. CASE FillFull \/ LastFragment \/ Drain
        BY <4>2 DEF FillFull, LastFragment, Drain, WriteFragment
      <4> QED BY <2>2, <4>1, <4>2
    <3>2. TailInHand' <=> TailInHand
      <4> USE DEF TailInHand, InStep, Types, TypeOK
      <4>1. CASE Unique \/ Duplicate
        BY <4>1 DEF Unique, Duplicate
      <4>2. CASE Flushed
        BY <4>2 DEF Flushed
      <4>3. CASE UnlockPending
        BY <4>3 DEF UnlockPending
      <4>4. CASE Unlock
        BY <4>4 DEF Unlock
      <4>5. CASE FillFull
        BY <4>5 DEF FillFull
      <4>6. CASE LastFragment \/ Drain
        BY <4>6 DEF LastFragment, Drain
      <4> QED BY <2>2, <4>1, <4>2, <4>3, <4>4, <4>5, <4>6
    <3>3. One(TailInHand)' = One(TailInHand)
      BY <3>2 DEF One
    <3>4. readerUsed' = R' /\ readerUsed' \in 0 .. ReaderBuffers
      BY <1>1, <1>4, <1>5, <3>1, <3>3
    <3> QED BY <1>0, <3>4
  <2> QED BY <2>1, <2>2
<1>7. WriterFits'
  <2>1. CASE Unique
    <3>1. /\ toWriter' = toWriter \o [k \in 1 .. held |-> "buffer"] /\ held' = 0
          /\ UNCHANGED <<pending, writerUsed>>
      BY <2>1 DEF Unique
    <3>2. toWriter \in Seq({"buffer", "flush"}) /\ "buffer" \in {"buffer", "flush"}
      BY DEF Types
    <3>3. CountIn(toWriter', {"buffer"}) = CountIn(toWriter, {"buffer"}) + held
      <4> DEFINE e == "buffer"
                 T == {"buffer", "flush"}
                 r == [k \in 1 .. held |-> e]
                 t == toWriter'
      <4>1. e \in T /\ toWriter \in Seq(T) /\ held \in Nat
        BY <1>2, <3>2
      <4>2. t = toWriter \o r
        BY <3>1
      <4>3. r \in [1 .. held -> T] /\ \A k \in 1 .. held : r[k] = e
        BY <4>1
      <4> HIDE DEF e, T, r, t
      <4>4. r \in Seq(T) /\ Len(r) = held
        BY <4>1, <4>3, SeqDef
      <4>5. CountIn(toWriter \o r, {e}) = CountIn(toWriter, {e}) + Len(r)
        BY <4>1, <4>3, <4>4, CountConcat
      <4>6. CountIn(t, {e}) = CountIn(toWriter, {e}) + held
        BY <4>2, <4>4, <4>5
      <4> QED BY <4>6 DEF e, t
    <3>4. ToWrite' = ToWrite + held
      BY <3>3, Zenon DEF ToWrite
    <3>5. writerUsed' = W' /\ writerUsed' \in 0 .. WriterBuffers
      <4>1. held' = 0 /\ UNCHANGED <<pending, writerUsed>>
        BY <3>1
      <4> QED BY <1>2, <1>4, <1>5, <3>4, <4>1
    <3> QED BY <1>0, <3>5
  <2>2. CASE Duplicate
    <3>1. /\ writerUsed' = writerUsed - held /\ held' = 0 /\ pending' = pending
          /\ toWriter' = toWriter \/ toWriter' = Append(toWriter, "flush")
      BY <2>2 DEF Duplicate
    <3>2. ToWrite' = ToWrite
      <4>1. CASE toWriter' = toWriter
        BY <4>1 DEF ToWrite, CountIn
      <4>2. CASE toWriter' = Append(toWriter, "flush")
        BY <4>2, ToWriteAppend
      <4> QED BY <3>1, <4>1, <4>2
    <3>3. writerUsed' = W' /\ writerUsed' \in 0 .. WriterBuffers
      <4>1. writerUsed' = writerUsed - held /\ held' = 0 /\ pending' = pending
        BY <3>1
      <4>2. W' = AtStep("deflated") + 0 + pending + Flow(Blocks) + ToWrite + F
        BY <1>4, <1>5, <3>2, <4>1
      <4> QED BY <1>2, <4>1, <4>2
    <3> QED BY <1>0, <3>3
  <2>3. CASE UnlockPending
    <3>1. /\ pending > 0 /\ pending' = pending - 1 /\ toWriter' = Append(toWriter, "buffer")
          /\ UNCHANGED <<held, writerUsed>>
      BY <2>3 DEF UnlockPending
    <3>2. ToWrite' = ToWrite + 1
      BY <3>1, ToWriteAppend
    <3>3. writerUsed' = W' /\ writerUsed' \in 0 .. WriterBuffers
      <4>1. W' = AtStep("deflated") + held + (pending - 1) + Flow(Blocks) + (ToWrite + 1) + F
        BY <1>4, <1>5, <3>1, <3>2
      <4>2. writerUsed' = writerUsed
        BY <3>1
      <4> QED BY <1>2, <4>1, <4>2
    <3> QED BY <1>0, <3>3
  <2>4. CASE Flushed \/ Unlock \/ FillFull \/ Fill \/ LastFragment
    <3>1. UNCHANGED <<pending, writerUsed, held, toWriter>>
      BY <2>4 DEF Flushed, Unlock, FillFull, Fill, LastFragment, WriteFragment
    <3> QED BY <1>3, <1>4, <1>5, <3>1, WriterSame
  <2>5. CASE Drain
    <3>1. UNCHANGED <<pending, writerUsed, held>> /\ toWriter' = Append(toWriter, "flush")
      BY <2>5 DEF Drain
    <3>2. ToWrite' = ToWrite
      BY <3>1, ToWriteAppend
    <3>3. writerUsed' = W' /\ writerUsed' \in 0 .. WriterBuffers
      BY <1>2, <1>4, <1>5, <3>1, <3>2
    <3> QED BY <1>0, <3>3
  <2> QED BY <2>1, <2>2, <2>3, <2>4, <2>5
<1> QED BY <1>6, <1>7

LEMMA CountFrag ==
  ASSUME Types, Known, ReaderCounted, WriterCounted, NEW d \in FragDeflators, FragDeflator(d)
  PROVE  ReaderFits' /\ WriterFits'
<1> DEFINE FS == {"deflated", "deferred", "placed"}
           F == FragsAt(FS)
           W == AtStep("deflated") + held + pending + Flow(Blocks) + ToWrite + F
<1> USE DEF readerVars, orderVars, mainVars, fragVars, writeVars
<1>0. WriterFits' <=> writerUsed' = W' /\ writerUsed' \in 0 .. WriterBuffers
  BY DEF WriterFits, WriterCounted, WriterSum
<1>1. /\ AtStep("deflated") \in Nat /\ Flow(Blocks) \in Nat /\ ToWrite \in Nat /\ F \in Nat
      /\ held \in Nat /\ pending \in Nat /\ WriterBuffers \in Nat
      /\ writerUsed \in 0 .. WriterBuffers /\ writerUsed = W
  BY CountFacts
<1>2. /\ UNCHANGED <<source, reading, fromReader, fromDeflate, blockHash, deflator, pc, after, held, readerUsed>>
      /\ \A x \in FragDeflators : x # d => fragDeflator'[x] = fragDeflator[x]
  BY DEF FragDeflator, FragDeflatorTake, FragDeflate, FragPlace, FragEnd, Types
<1>3. AtStep("taken")' = AtStep("taken") /\ AtStep("deflated")' = AtStep("deflated") /\ TailInHand' = TailInHand
  BY <1>2 DEF AtStep, TailInHand
<1>4. Flow(Tails)' = Flow(Tails) /\ Flow(Blocks)' = Flow(Blocks)
  <2>1. Tails' = Tails /\ Blocks' = Blocks /\ \A S : Flow(S)' = Flow(S)
    BY <1>2, SourceKept, FlowSame
  <2> QED BY <2>1, Zenon
<1>5. ReaderFits'
  BY <1>2, <1>3, <1>4, ReaderSame
<1>6. F' \in Nat /\ F' + Is(fragDeflator[d], FS) = F + Is(fragDeflator'[d], FS)
  <2>1. \A S : FragsAt(S)' \in Nat
    BY <1>2, FragCount
  <2>2. \A S : FragsAt(S)' + Is(fragDeflator[d], S) = FragsAt(S) + Is(fragDeflator'[d], S)
    BY <1>2, FragCount
  <2> QED BY <2>1, <2>2
<1> HIDE DEF F
<1>7. \A a, b \in Nat : /\ a + 1 = b + 0 => a = b - 1
                        /\ a + 0 = b + 1 => a = b + 1
                        /\ a + 0 = b + 0 => a = b
                        /\ a + 1 = b + 1 => a = b
  OBVIOUS
<1>8. CASE FragDeflatorTake(d)
  <2>1. UNCHANGED <<writerUsed, pending, toWriter>> /\ fragDeflator[d] = "idle" /\ fragDeflator'[d] = "taken"
    BY <1>8 DEF FragDeflatorTake, Types
  <2>2. Is(fragDeflator[d], FS) = 0 /\ Is(fragDeflator'[d], FS) = 0 /\ ToWrite' = ToWrite
    BY <2>1 DEF Is, ToWrite, CountIn
  <2>3. F' = F
    BY <1>1, <1>6, <1>7, <2>2
  <2>4. writerUsed' = W' /\ writerUsed' \in 0 .. WriterBuffers
    BY <1>1, <1>2, <1>3, <1>4, <2>1, <2>2, <2>3
  <2> QED BY <1>0, <1>5, <2>4
<1>9. CASE FragDeflate(d)
  <2>1. /\ UNCHANGED <<pending, toWriter>> /\ fragDeflator[d] = "taken" /\ fragDeflator'[d] = "deflated"
        /\ writerUsed < WriterBuffers /\ writerUsed' = writerUsed + 1
    BY <1>9 DEF FragDeflate, Types
  <2>2. Is(fragDeflator[d], FS) = 0 /\ Is(fragDeflator'[d], FS) = 1 /\ ToWrite' = ToWrite
    BY <2>1 DEF Is, ToWrite, CountIn
  <2>3. F' = F + 1
    BY <1>1, <1>6, <1>7, <2>2
  <2>4. writerUsed' = W' /\ writerUsed' \in 0 .. WriterBuffers
    BY <1>1, <1>2, <1>3, <1>4, <2>1, <2>2, <2>3
  <2> QED BY <1>0, <1>5, <2>4
<1>10. CASE FragPlace(d)
  <2>1. /\ UNCHANGED <<writerUsed, pending, toWriter>> /\ fragDeflator[d] = "deflated"
        /\ fragDeflator'[d] \in {"deferred", "placed"}
    BY <1>10 DEF FragPlace, Types
  <2>2. Is(fragDeflator[d], FS) = 1 /\ Is(fragDeflator'[d], FS) = 1 /\ ToWrite' = ToWrite
    BY <2>1 DEF Is, ToWrite, CountIn
  <2>3. F' = F
    BY <1>1, <1>6, <1>7, <2>2
  <2>4. writerUsed' = W' /\ writerUsed' \in 0 .. WriterBuffers
    BY <1>1, <1>2, <1>3, <1>4, <2>1, <2>2, <2>3
  <2> QED BY <1>0, <1>5, <2>4
<1>11. CASE FragEnd(d)
  <2>1. /\ writerUsed' = writerUsed /\ fragDeflator[d] \in {"deferred", "placed"} /\ fragDeflator'[d] = "idle"
        /\ \/ toWriter' = Append(toWriter, "buffer") /\ pending' = pending
           \/ pending' = pending + 1 /\ toWriter' = toWriter
    BY <1>11 DEF FragEnd, Types
  <2>2. Is(fragDeflator[d], FS) = 1 /\ Is(fragDeflator'[d], FS) = 0
    BY <2>1 DEF Is
  <2>3. F' = F - 1
    BY <1>1, <1>6, <1>7, <2>2
  <2>4. CASE toWriter' = Append(toWriter, "buffer") /\ pending' = pending
    <3>1. ToWrite' = ToWrite + 1
      BY <2>4, ToWriteAppend
    <3>2. writerUsed' = W' /\ writerUsed' \in 0 .. WriterBuffers
      BY SMTT(30), <1>1, <1>2, <1>3, <1>4, <2>1, <2>3, <2>4, <3>1
    <3> QED BY <1>0, <1>5, <3>2
  <2>5. CASE pending' = pending + 1 /\ toWriter' = toWriter
    <3>1. ToWrite' = ToWrite
      BY <2>5 DEF ToWrite, CountIn
    <3>2. writerUsed' = W' /\ writerUsed' \in 0 .. WriterBuffers
      BY <1>1, <1>2, <1>3, <1>4, <2>1, <2>3, <2>5, <3>1
    <3> QED BY <1>0, <1>5, <3>2
  <2> QED BY <2>1, <2>4, <2>5
<1> QED BY <1>8, <1>9, <1>10, <1>11 DEF FragDeflator

LEMMA CountWriter ==
  ASSUME Types, Known, ReaderCounted, WriterCounted, Write
  PROVE  ReaderFits' /\ WriterFits'
<1> DEFINE F == FragsAt({"deflated", "deferred", "placed"})
           W == AtStep("deflated") + held + pending + Flow(Blocks) + ToWrite + F
<1> USE DEF readerVars, orderVars, mainVars, fragVars, writeVars
<1>0. WriterFits' <=> writerUsed' = W' /\ writerUsed' \in 0 .. WriterBuffers
  BY DEF WriterFits, WriterCounted, WriterSum
<1>1. /\ AtStep("deflated") \in Nat /\ Flow(Blocks) \in Nat /\ ToWrite \in Nat /\ F \in Nat
      /\ held \in Nat /\ pending \in Nat /\ WriterBuffers \in Nat
      /\ writerUsed \in 0 .. WriterBuffers /\ writerUsed = W
  BY CountFacts
<1>2. UNCHANGED <<source, reading, fromReader, fromDeflate, blockHash, deflator, pc, after, held, pending, readerUsed,
                  fragDeflator>>
  BY DEF Write
<1>3. AtStep("taken")' = AtStep("taken") /\ AtStep("deflated")' = AtStep("deflated") /\ TailInHand' = TailInHand /\ F' = F
  BY <1>2 DEF AtStep, TailInHand, FragsAt
<1>4. Flow(Tails)' = Flow(Tails) /\ Flow(Blocks)' = Flow(Blocks)
  <2>1. Tails' = Tails /\ Blocks' = Blocks /\ \A S : Flow(S)' = Flow(S)
    BY <1>2, SourceKept, FlowSame
  <2> QED BY <2>1, Zenon
<1>5. ReaderFits'
  BY <1>2, <1>3, <1>4, ReaderSame
<1> HIDE DEF F
<1>6. toWriter \in Seq({"buffer", "flush"}) /\ toWriter # <<>> /\ toWriter' = Tail(toWriter)
  BY DEF Types, Write
<1>7. ToWrite = ToWrite' + Is(Head(toWriter), {"buffer"})
  BY <1>6, CountTail DEF ToWrite
<1>8. ToWrite' \in Nat
  BY <1>6, CountTail DEF ToWrite
<1>9. CASE Head(toWriter) = "flush"
  <2>1. Is(Head(toWriter), {"buffer"}) = 0 /\ writerUsed' = writerUsed
    BY <1>9 DEF Is, Write
  <2>2. ToWrite' = ToWrite
    BY <1>7, <1>8, <2>1
  <2>3. writerUsed' = W' /\ writerUsed' \in 0 .. WriterBuffers
    BY <1>1, <1>2, <1>3, <1>4, <2>1, <2>2
  <2> QED BY <1>0, <1>5, <2>3
<1>10. CASE Head(toWriter) # "flush"
  <2>1. Head(toWriter) = "buffer"
    BY <1>6, <1>10, TailFacts
  <2>2. Is(Head(toWriter), {"buffer"}) = 1 /\ writerUsed' = writerUsed - 1
    BY <1>10, <2>1 DEF Is, Write, PutBack
  <2>3. ToWrite' = ToWrite - 1
    BY <1>7, <1>8, <2>2
  <2>4. writerUsed' = W' /\ writerUsed' \in 0 .. WriterBuffers
    BY <1>1, <1>2, <1>3, <1>4, <1>8, <2>2, <2>3
  <2> QED BY <1>0, <1>5, <2>4
<1> QED BY <1>9, <1>10


-----------------------------------------------------------------------------
(* The order of the numbers, at every step.                                *)

LEMMA OrderStep ==
  ASSUME Types, Known, Once, InStep, Next
  PROVE  Known' /\ Once'
<1> USE DEF readerVars, orderVars, mainVars, fragVars, writeVars
<1>1. CASE Reader
  BY <1>1, OrderReader
<1>2. CASE \E d \in Deflators : Deflator(d)
  BY <1>2, OrderDeflator
<1>3. CASE PushBuffer
  BY <1>3, OrderPush
<1>4. CASE \E n \in 0 .. Total - 1 : TakeBlock(n) \/ TakeTail(n)
  BY <1>4, OrderGot DEF TakeBlock, TakeTail
<1>5. CASE \/ Writer \/ \E d \in FragDeflators : FragDeflator(d)
           \/ Unique \/ Duplicate \/ Flushed \/ UnlockPending \/ Unlock \/ FillFull \/ Fill \/ LastFragment \/ Drain
  <2>1. UNCHANGED <<source, next, fromReader, fromDeflate, sequence, blockHash, deflator>>
    <3>1. CASE Writer \/ \E d \in FragDeflators : FragDeflator(d)
      BY <3>1 DEF Writer, Write, FragDeflator, FragDeflatorTake, FragDeflate, FragPlace, FragEnd
    <3>2. CASE Unique \/ Duplicate \/ Flushed \/ UnlockPending \/ Unlock
      BY <3>2 DEF Unique, Duplicate, Flushed, UnlockPending, Unlock
    <3>3. CASE FillFull \/ Fill \/ LastFragment \/ Drain
      BY <3>3 DEF FillFull, Fill, LastFragment, Drain, WriteFragment
    <3> QED BY <1>5, <3>1, <3>2, <3>3
  <2>2. Busy' = Busy
    BY <2>1 DEF Busy
  <2> QED BY <2>1, <2>2, OrderSame
<1> QED BY <1>1, <1>2, <1>3, <1>4, <1>5 DEF Next, Main

\* The counts, at every step.
LEMMA CountStep ==
  ASSUME Types, Known, Once, InStep, ReaderCounted, WriterCounted, Next
  PROVE  ReaderFits' /\ WriterFits'
<1>1. CASE Reader
  BY <1>1, CountReader
<1>2. CASE \E d \in Deflators : Deflator(d)
  BY <1>2, CountDeflator
<1>3. CASE PushBuffer
  BY <1>3, CountPush
<1>4. CASE \E n \in 0 .. Total - 1 : TakeBlock(n) \/ TakeTail(n)
  BY <1>4, CountTake
<1>5. CASE \/ Unique \/ Duplicate \/ Flushed \/ UnlockPending \/ Unlock
           \/ FillFull \/ Fill \/ LastFragment \/ Drain
  BY <1>5, CountMain
<1>6. CASE \E d \in FragDeflators : FragDeflator(d)
  BY <1>6, CountFrag
<1>7. CASE Writer
  BY <1>7, CountWriter DEF Writer
<1> QED BY <1>1, <1>2, <1>3, <1>4, <1>5, <1>6, <1>7 DEF Next, Main


\* The types, at every step.
LEMMA ThreadTypes ==
  ASSUME Types, Known, Once, InStep, Next
  PROVE  /\ reading' \in BOOLEAN /\ locked' \in BOOLEAN /\ fromWriter' \in BOOLEAN
         /\ pc' \in {"take", "fill", "compare", "flush", "unlock", "drain", "lastflush", "exited"}
         /\ after' \in {"take", "fill", "drain"}
         /\ deflator' \in [Deflators -> [step : {"idle", "taken", "deflated"}, seq : Int]]
<1> USE DEF readerVars, orderVars, mainVars, fragVars, writeVars
<1> DEFINE Entries == [step : {"idle", "taken", "deflated"}, seq : Int]
<1>0. /\ reading \in BOOLEAN /\ locked \in BOOLEAN /\ fromWriter \in BOOLEAN
      /\ pc \in {"take", "fill", "compare", "flush", "unlock", "drain", "lastflush", "exited"}
      /\ after \in {"take", "fill", "drain"}
      /\ deflator \in [Deflators -> Entries] /\ fromReader \in Seq(Nat)
  BY DEF Types, TypeOK
<1>1. CASE Reader
  BY <1>0, <1>1 DEF Reader, ReaderGet, ReaderPut
<1>2. CASE \E d \in Deflators : Deflator(d)
  <2>1. UNCHANGED <<reading, locked, fromWriter, pc, after>>
    BY <1>2 DEF Deflator, DeflatorTake, Deflate, DeflatorPut
  <2>2. PICK d \in Deflators : Deflator(d)
    BY <1>2
  <2>3. \E e \in Entries : deflator' = [deflator EXCEPT ![d] = e]
    <3>1. CASE DeflatorTake(d)
      <4>1. Head(fromReader) \in Int
        BY <1>0, <3>1 DEF DeflatorTake
      <4> QED BY <3>1, <4>1 DEF DeflatorTake
    <3>2. CASE Deflate(d)
      <4>1. deflator' = [deflator EXCEPT ![d] = [deflator[d] EXCEPT !.step = "deflated"]]
        BY <3>2 DEF Deflate
      <4>2. [deflator[d] EXCEPT !.step = "deflated"] \in Entries
        BY <1>0
      <4> QED BY <4>1, <4>2
    <3>3. CASE DeflatorPut(d)
      <4>1. Idle \in Entries
        BY DEF Idle
      <4> QED BY <3>3, <4>1 DEF DeflatorPut
    <3> QED BY <2>2, <3>1, <3>2, <3>3 DEF Deflator
  <2>4. deflator' \in [Deflators -> Entries]
    BY <1>0, <2>3
  <2> QED BY <1>0, <2>1, <2>4
<1>3. CASE \E n \in 0 .. Total - 1 : TakeBlock(n) \/ TakeTail(n)
  <2>1. UNCHANGED <<reading, deflator, fromWriter>> /\ locked' \in {locked, TRUE}
    BY <1>3 DEF TakeBlock, TakeTail, Got
  <2>2. pc' \in {"take", "compare", "unlock", "fill"} /\ after' \in {"take", "fill"}
    BY <1>3 DEF TakeBlock, TakeTail, FileEnd
  <2> QED BY <1>0, <2>1, <2>2
<1>4. CASE \/ Writer \/ \E d \in FragDeflators : FragDeflator(d)
  <2>1. UNCHANGED <<reading, deflator, locked, pc, after>> /\ fromWriter' \in {fromWriter, TRUE}
    BY <1>4 DEF Writer, Write, FragDeflator, FragDeflatorTake, FragDeflate, FragPlace, FragEnd
  <2> QED BY <1>0, <2>1
<1>5. CASE PushBuffer \/ Unique \/ Duplicate \/ Flushed \/ UnlockPending \/ Unlock
  BY <1>0, <1>5 DEF PushBuffer, Unique, Duplicate, Flushed, UnlockPending, Unlock
<1>6. CASE FillFull \/ Fill \/ LastFragment \/ Drain
  BY <1>0, <1>6 DEF FillFull, Fill, LastFragment, Drain, WriteFragment
<1> QED BY <1>1, <1>2, <1>3, <1>4, <1>5, <1>6 DEF Next, Main

LEMMA QueueTypes ==
  ASSUME Types, Known, Once, InStep, Next
  PROVE  /\ fromReader' \in Seq(Nat) /\ Len(fromReader') <= ReaderBuffers
         /\ fromDeflate' \in Seq(Nat) /\ Len(fromDeflate') <= ReaderBuffers
         /\ next' \in 0 .. Total' /\ sequence' \in 0 .. Total'
<1> USE DEF readerVars, orderVars, mainVars, fragVars, writeVars
<1>0. /\ fromReader \in Seq(Nat) /\ Len(fromReader) <= ReaderBuffers
      /\ fromDeflate \in Seq(Nat) /\ Len(fromDeflate) <= ReaderBuffers
      /\ next \in 0 .. Total /\ sequence \in 0 .. Total /\ Total \in Nat /\ Total' = Total
      /\ ReaderBuffers \in Nat
  BY SourceSame, SourceKept, StreamFacts, PipelineAssumption DEF Types, TypeOK
<1>1. ASSUME NEW s \in Seq(Nat), Len(s) <= ReaderBuffers
      PROVE  /\ \A n \in Nat : Len(s) < ReaderBuffers => Append(s, n) \in Seq(Nat) /\ Len(Append(s, n)) <= ReaderBuffers
             /\ s # <<>> => Tail(s) \in Seq(Nat) /\ Len(Tail(s)) <= ReaderBuffers /\ Head(s) \in Nat
  <2>1. \A n \in Nat : Append(s, n) \in Seq(Nat) /\ Len(Append(s, n)) = Len(s) + 1
    OBVIOUS
  <2>2. s # <<>> => Tail(s) \in Seq(Nat) /\ Len(Tail(s)) = Len(s) - 1 /\ Head(s) \in Nat
    OBVIOUS
  <2> QED BY <1>0, <1>1, <2>1, <2>2
<1>2. CASE Reader
  <2>1. CASE ReaderGet
    BY <1>0, <2>1 DEF ReaderGet
  <2>2. CASE ReaderPut
    <3>1. next' = next + 1 /\ sequence' = sequence /\ next < Total
      BY <2>2 DEF ReaderPut, InStep
    <3>2. \/ fromDeflate' = Append(fromDeflate, next) /\ Len(fromDeflate) < ReaderBuffers /\ fromReader' = fromReader
          \/ fromReader' = Append(fromReader, next) /\ Len(fromReader) < ReaderBuffers /\ fromDeflate' = fromDeflate
      BY <2>2 DEF ReaderPut
    <3>3. next \in Nat
      BY <1>0
    <3>4. next' \in 0 .. Total'
      BY <1>0, <3>1
    <3> QED BY <1>0, <1>1, <3>1, <3>2, <3>3, <3>4
  <2> QED BY <1>2, <2>1, <2>2 DEF Reader
<1>3. CASE \E d \in Deflators : Deflator(d)
  <2>1. UNCHANGED <<next, sequence>>
    BY <1>3 DEF Deflator, DeflatorTake, Deflate, DeflatorPut
  <2>2. PICK d \in Deflators : Deflator(d)
    BY <1>3
  <2>3. CASE DeflatorTake(d)
    BY <1>0, <1>1, <2>1, <2>3 DEF DeflatorTake
  <2>4. CASE Deflate(d)
    BY <1>0, <2>1, <2>4 DEF Deflate
  <2>5. CASE DeflatorPut(d)
    <3>1. d \in Busy
      BY <2>5 DEF DeflatorPut, Busy
    <3>2. deflator[d].seq \in Nat
      BY <1>0, <3>1 DEF Known, Hands, Blocks
    <3> QED BY <1>0, <1>1, <2>1, <2>5, <3>2 DEF DeflatorPut
  <2> QED BY <2>2, <2>3, <2>4, <2>5 DEF Deflator
<1>4. CASE PushBuffer
  BY <1>0, <1>1, <1>4 DEF PushBuffer
<1>5. CASE \E n \in 0 .. Total - 1 : TakeBlock(n) \/ TakeTail(n)
  <2>1. PICK n \in 0 .. Total - 1 : Got(n)
    BY <1>5 DEF TakeBlock, TakeTail
  <2>2. /\ n = sequence /\ sequence' = sequence + 1 /\ UNCHANGED <<next, fromReader>>
        /\ fromDeflate' = fromDeflate \/ (fromDeflate # <<>> /\ fromDeflate' = Tail(fromDeflate))
    BY <2>1, GotFacts
  <2>3. sequence' \in 0 .. Total'
    BY <1>0, <2>2
  <2> QED BY <1>0, <1>1, <2>2, <2>3
<1>6. CASE \/ Writer \/ \E d \in FragDeflators : FragDeflator(d)
           \/ Unique \/ Duplicate \/ Flushed \/ UnlockPending \/ Unlock \/ FillFull \/ Fill \/ LastFragment \/ Drain
  <2>1. UNCHANGED <<next, sequence, fromReader, fromDeflate>>
    <3>1. CASE Writer \/ \E d \in FragDeflators : FragDeflator(d)
      BY <3>1 DEF Writer, Write, FragDeflator, FragDeflatorTake, FragDeflate, FragPlace, FragEnd
    <3>2. CASE Unique \/ Duplicate \/ Flushed \/ UnlockPending \/ Unlock
      BY <3>2 DEF Unique, Duplicate, Flushed, UnlockPending, Unlock
    <3>3. CASE FillFull \/ Fill \/ LastFragment \/ Drain
      BY <3>3 DEF FillFull, Fill, LastFragment, Drain, WriteFragment
    <3> QED BY <1>6, <3>1, <3>2, <3>3
  <2> QED BY <1>0, <2>1
<1> QED BY <1>2, <1>3, <1>4, <1>5, <1>6 DEF Next, Main


LEMMA WriterTypes ==
  ASSUME Types, Known, Once, Next
  PROVE  toWriter' \in Seq({"buffer", "flush"})
<1> USE DEF readerVars, orderVars, mainVars, fragVars, writeVars
<1> DEFINE Messages == {"buffer", "flush"}
<1>0. toWriter \in Seq(Messages) /\ held \in Nat
  BY DEF Types, TypeOK
<1>1. \A m \in Messages : Append(toWriter, m) \in Seq(Messages)
  BY <1>0
<1>2. CASE Unique
  <2> DEFINE r == [k \in 1 .. held |-> "buffer"]
  <2>1. r \in [1 .. held -> Messages] /\ toWriter' = toWriter \o r
    BY <1>2 DEF Unique
  <2> HIDE DEF r
  <2>2. r \in Seq(Messages)
    BY <1>0, <2>1, SeqDef
  <2> QED BY <1>0, <2>1, <2>2
<1>3. CASE Writer
  <2>1. toWriter # <<>> /\ toWriter' = Tail(toWriter)
    BY <1>3 DEF Writer, Write
  <2> QED BY <1>0, <2>1
<1>4. CASE ~Unique /\ ~Writer
  <2>1. toWriter' = toWriter \/ \E m \in Messages : toWriter' = Append(toWriter, m)
    <3>1. CASE Reader \/ PushBuffer \/ \E d \in Deflators : Deflator(d)
      BY <3>1 DEF Reader, ReaderGet, ReaderPut, PushBuffer, Deflator, DeflatorTake, Deflate, DeflatorPut
    <3>2. CASE \E d \in FragDeflators : FragDeflator(d)
      BY <3>2 DEF FragDeflator, FragDeflatorTake, FragDeflate, FragPlace, FragEnd
    <3>3. CASE \E n \in 0 .. Total - 1 : TakeBlock(n) \/ TakeTail(n)
      BY <3>3 DEF TakeBlock, TakeTail
    <3>4. CASE Duplicate \/ Flushed \/ UnlockPending \/ Unlock
      BY <3>4 DEF Duplicate, Flushed, UnlockPending, Unlock
    <3>5. CASE FillFull \/ Fill \/ LastFragment \/ Drain
      BY <3>5 DEF FillFull, Fill, LastFragment, Drain, WriteFragment
    <3> QED BY <1>4, <3>1, <3>2, <3>3, <3>4, <3>5 DEF Next, Main
  <2> QED BY <1>0, <1>1, <2>1
<1> QED BY <1>2, <1>3, <1>4

-----------------------------------------------------------------------------
(* The invariant is inductive.                                             *)

LEMMA InitIInv == Init => IInv
<1> SUFFICES ASSUME Init PROVE IInv
  OBVIOUS
<1>0. /\ Total \in Nat /\ source \in Sources
      /\ {ReaderBuffers, WriterBuffers, FragmentBuffers, PerFragment} \subseteq Nat \ {0}
  BY StreamFacts, PipelineAssumption DEF Init
<1>1. Types
  <2>1. Idle \in [step : {"idle", "taken", "deflated"}, seq : Int]
    BY DEF Idle
  <2>2. TypeOK
    BY <1>0 DEF Init, TypeOK
  <2>3. fromReader \in Seq(Nat) /\ fromDeflate \in Seq(Nat) /\ toWriter \in Seq({"buffer", "flush"})
    BY DEF Init
  <2>4. deflator \in [Deflators -> [step : {"idle", "taken", "deflated"}, seq : Int]]
    BY <2>1 DEF Init
  <2>5. fragDeflator \in [FragDeflators -> {"idle", "taken", "deflated", "deferred", "placed"}]
    BY DEF Init
  <2>6. reading \in BOOLEAN /\ locked \in BOOLEAN /\ fromWriter \in BOOLEAN /\ thresh \in Nat
    BY DEF Init
  <2> QED BY <1>0, <2>2, <2>3, <2>4, <2>5, <2>6 DEF Types
<1>2. Busy = {} /\ Hands = {} /\ Elems(fromReader) = {} /\ Elems(fromDeflate) = {}
  BY DEF Init, Idle, Busy, Hands, Elems
<1>3. Known /\ Once
  BY <1>0, <1>2 DEF Init, Known, Once, Distinct
<1>4. InStep
  BY <1>0 DEF Init, InStep
<1>5. Cardinality({}) = 0
  BY FS_EmptySet
<1>6. \A S : CountIn(<<>>, S) = 0
  BY <1>5 DEF CountIn
<1>7. AtStep("taken") = 0 /\ AtStep("deflated") = 0
  <2>1. {d \in Deflators : deflator[d].step = "taken"} = {} /\ {d \in Deflators : deflator[d].step = "deflated"} = {}
    BY DEF Init, Idle
  <2> QED BY <1>5, <2>1 DEF AtStep
<1>8. \A S : "idle" \notin S => FragsAt(S) = 0
  <2> TAKE S
  <2> SUFFICES ASSUME "idle" \notin S PROVE FragsAt(S) = 0
    OBVIOUS
  <2>1. {d \in FragDeflators : fragDeflator[d] \in S} = {}
    BY DEF Init
  <2> QED BY <1>5, <2>1 DEF FragsAt
<1>9. \A S : Flow(S) = 0
  BY <1>5, <1>6 DEF Init, Flow, Queued, Hashed
<1>10. ReaderCounted
  BY <1>7, <1>9 DEF Init, ReaderCounted, ReaderSum, One, TailInHand
<1>11. WriterCounted
  <2>1. ToWrite = 0 /\ FragsAt({"deflated", "deferred", "placed"}) = 0
    BY <1>6, <1>8 DEF Init, ToWrite
  <2> QED BY <1>7, <1>9, <2>1 DEF Init, WriterCounted, WriterSum
<1>12. FragmentCounted /\ OutstandingCounted
  <2>1. FragsAt({"taken", "deflated", "deferred", "placed"}) = 0 /\ FragsAt({"taken", "deflated", "deferred"}) = 0
    BY <1>8
  <2> QED BY <2>1 DEF Init, FragmentCounted, OutstandingCounted, One
<1>13. Room
  BY DEF Init, Room, Inside
<1> QED BY <1>1, <1>3, <1>4, <1>10, <1>11, <1>12, <1>13 DEF IInv

LEMMA NextIInv == IInv /\ Next => IInv'
<1> SUFFICES ASSUME IInv, Next PROVE IInv'
  OBVIOUS
<1>0. Types /\ Known /\ Once /\ InStep /\ ReaderCounted /\ WriterCounted /\ FragmentCounted /\ OutstandingCounted /\ Room
  BY DEF IInv
<1>1. Known' /\ Once' /\ InStep'
  BY <1>0, OrderStep, InStepStep
<1>2. /\ OutstandingCounted' /\ FragmentCounted'
      /\ toFrag' \in Nat /\ pending' \in Nat /\ outstanding' \in Nat /\ fill' \in 0 .. PerFragment
      /\ fragDeflator' \in [FragDeflators -> {"idle", "taken", "deflated", "deferred", "placed"}]
      /\ fragmentUsed' \in 0 .. FragmentBuffers
  BY <1>0, FragsStep
<1>3. Room' /\ thresh' \in Nat /\ held' \in Nat
  BY <1>0, RoomStep
<1>4. /\ ReaderCounted' /\ readerUsed' \in 0 .. ReaderBuffers
      /\ WriterCounted' /\ writerUsed' \in 0 .. WriterBuffers
  BY <1>0, CountStep DEF ReaderFits, WriterFits
<1>5. Types'
  <2>1. source' \in Sources
    BY <1>0, SourceSame DEF Types
  <2>2. TypeOK'
    BY <1>0, <1>2, <1>3, <1>4, ThreadTypes, QueueTypes DEF TypeOK
  <2> QED BY <1>0, <1>2, <1>3, <2>1, <2>2, ThreadTypes, QueueTypes, WriterTypes DEF Types
<1> QED BY <1>1, <1>2, <1>3, <1>4, <1>5 DEF IInv


LEMMA StutterIInv == IInv /\ UNCHANGED vars => IInv'
<1> SUFFICES ASSUME IInv, UNCHANGED vars PROVE IInv'
  OBVIOUS
<1> USE DEF IInv, vars, fragVars
<1>1. UNCHANGED <<source, next, reading, fromReader, fromDeflate, deflator, sequence, blockHash, pc, after, thresh,
                  held, done, fill, locked, pending, outstanding, toFrag, fragDeflator, toWriter, fromWriter,
                  readerUsed, writerUsed, fragmentUsed>>
  BY Zenon
<1>2. Total' = Total /\ Blocks' = Blocks /\ Tails' = Tails /\ Busy' = Busy
      /\ Inside' = Inside /\ Item(sequence - 1)' = Item(sequence - 1)
  BY <1>1, SourceKept, InsideSame DEF Busy
<1>3. Types'
  BY <1>1, <1>2 DEF Types, TypeOK
<1>4. Known' /\ Once'
  BY <1>1, <1>2, OrderSame
<1>5. InStep'
  BY <1>1, <1>2 DEF InStep
<1>6. AtStep("taken")' = AtStep("taken") /\ AtStep("deflated")' = AtStep("deflated") /\ TailInHand' = TailInHand
  BY <1>1 DEF AtStep, TailInHand
<1>7. Flow(Tails)' = Flow(Tails) /\ Flow(Blocks)' = Flow(Blocks)
  <2>1. \A S : Flow(S)' = Flow(S)
    BY <1>1, FlowSame
  <2> QED BY <1>2, <2>1, Zenon
<1>8. ReaderCounted' /\ WriterCounted'
  BY <1>1, <1>6, <1>7, ReaderSame, WriterSame DEF ReaderFits, WriterFits
<1>9. FragmentCounted' /\ OutstandingCounted'
  BY <1>1 DEF FragmentCounted, OutstandingCounted, FragsAt, One
<1>10. Room'
  <2>1. outstanding' \in Nat /\ outstanding' <= outstanding
    BY <1>1 DEF Types, TypeOK
  <2> QED BY <1>1, <2>1, RoomSame
<1> QED BY <1>3, <1>4, <1>5, <1>8, <1>9, <1>10

\* In every behaviour: each number given out is in one place, each cache's use is the
\* count of who has its buffers, and blocks held leave room for the next.
THEOREM InductiveInvariant == Spec => []IInv
<1>1. IInv /\ [Next]_vars => IInv'
  BY NextIInv, StutterIInv
<1> QED BY <1>1, InitIInv, PTL DEF Spec

-----------------------------------------------------------------------------
(* What the runs check.                                                    *)

\* The order in which get_file_buffer gives out blocks and tails is that of the
\* source, whatever order the deflators finish in, and at the end all have been used.
LEMMA InvOrder == IInv => OrderKept
<1> SUFFICES ASSUME IInv PROVE OrderKept
  OBVIOUS
<1>1. sequence \in Nat /\ Total \in Nat
  BY StreamFacts DEF IInv, Types, TypeOK
<1>2. done = [k \in 1 .. sequence |-> k - 1]
  BY DEF IInv, InStep
<1>3. Len(done) = sequence
  <2>1. done \in [1 .. sequence -> Int]
    BY <1>1, <1>2
  <2> QED BY <1>1, <2>1, SeqDef
<1>4. pc = "exited" => sequence = Total
  BY DEF IInv, InStep
<1> QED BY <1>2, <1>3, <1>4 DEF OrderKept

\* Whatever order the deflators finish in, the main thread gets the source's blocks
\* in their order, each once, and at the end all of them.
THEOREM OrderAlwaysKept == Spec => []OrderKept
BY InductiveInvariant, InvOrder, PTL

\* The counts of the invariant are those of BuffersAccounted.
LEMMA InvAccounted == IInv => BuffersAccounted
<1> SUFFICES ASSUME IInv PROVE BuffersAccounted
  OBVIOUS
<1> USE DEF IInv
<1>1. sequence \in Nat /\ fromDeflate \in Seq(Nat) /\ toWriter \in Seq({"buffer", "flush"})
      /\ fragDeflator \in [FragDeflators -> {"idle", "taken", "deflated", "deferred", "placed"}]
  BY StreamFacts DEF Types, TypeOK
<1>2. \A n \in blockHash : n \in Nat
  BY <1>1 DEF Known
<1>3. Queued(Tails) = Count(fromDeflate, IsTail) /\ Queued(Blocks) = Count(fromDeflate, IsBlock)
  <2>1. DOMAIN fromDeflate = 1 .. Len(fromDeflate) /\ \A k \in 1 .. Len(fromDeflate) : fromDeflate[k] \in Nat
    BY <1>1
  <2>2. {k \in 1 .. Len(fromDeflate) : fromDeflate[k] \in Tails} = {k \in DOMAIN fromDeflate : IsTail(fromDeflate[k])}
    BY <2>1 DEF Tails, IsTail
  <2>3. {k \in 1 .. Len(fromDeflate) : fromDeflate[k] \in Blocks} = {k \in DOMAIN fromDeflate : IsBlock(fromDeflate[k])}
    BY <2>1 DEF Blocks, IsBlock
  <2> QED BY <2>2, <2>3 DEF Queued, CountIn, Count
<1>4. Hashed(Tails) = Cardinality({n \in blockHash : IsTail(n)})
      /\ Hashed(Blocks) = Cardinality({n \in blockHash : IsBlock(n)})
  <2>1. blockHash \cap Tails = {n \in blockHash : IsTail(n)}
    BY <1>2 DEF Tails, IsTail
  <2>2. blockHash \cap Blocks = {n \in blockHash : IsBlock(n)}
    BY <1>2 DEF Blocks, IsBlock
  <2> QED BY <2>1, <2>2 DEF Hashed
<1>5. ToWrite = Cardinality({k \in DOMAIN toWriter : toWriter[k] = "buffer"})
  <2>1. {k \in 1 .. Len(toWriter) : toWriter[k] \in {"buffer"}} = {k \in DOMAIN toWriter : toWriter[k] = "buffer"}
    BY <1>1
  <2> QED BY <2>1 DEF ToWrite, CountIn
<1>6. FragsAt({"deflated", "deferred", "placed"}) = Cardinality({d \in FragDeflators : fragDeflator[d] \notin {"idle", "taken"}})
      /\ FragsAt({"taken", "deflated", "deferred", "placed"}) = Cardinality({d \in FragDeflators : fragDeflator[d] # "idle"})
  <2>1. {d \in FragDeflators : fragDeflator[d] \in {"deflated", "deferred", "placed"}}
          = {d \in FragDeflators : fragDeflator[d] \notin {"idle", "taken"}}
    BY <1>1
  <2>2. {d \in FragDeflators : fragDeflator[d] \in {"taken", "deflated", "deferred", "placed"}}
          = {d \in FragDeflators : fragDeflator[d] # "idle"}
    BY <1>1
  <2> QED BY <2>1, <2>2 DEF FragsAt
<1>7. /\ Queued(Tails) \in Nat /\ Hashed(Tails) \in Nat /\ Queued(Blocks) \in Nat /\ Hashed(Blocks) \in Nat
      /\ Len(fromReader) \in Nat /\ AtStep("taken") \in Nat /\ AtStep("deflated") \in Nat
      /\ One(reading) \in Nat /\ One(TailInHand) \in Nat /\ held \in Nat /\ pending \in Nat /\ ToWrite \in Nat
      /\ FragsAt({"deflated", "deferred", "placed"}) \in Nat
  BY FlowType, CountFacts
<1>8. readerUsed = One(reading) + Len(fromReader) + AtStep("taken") + Queued(Tails) + Hashed(Tails) + One(TailInHand)
  <2>1. readerUsed = One(reading) + Len(fromReader) + AtStep("taken") + (Queued(Tails) + Hashed(Tails)) + One(TailInHand)
    BY DEF ReaderCounted, ReaderSum, Flow
  <2> QED BY <1>7, <2>1
<1>9. writerUsed = AtStep("deflated") + held + pending + Queued(Blocks) + Hashed(Blocks) + ToWrite
                   + FragsAt({"deflated", "deferred", "placed"})
  <2>1. writerUsed = AtStep("deflated") + held + pending + (Queued(Blocks) + Hashed(Blocks)) + ToWrite
                     + FragsAt({"deflated", "deferred", "placed"})
    BY DEF WriterCounted, WriterSum, Flow
  <2> QED BY <1>7, <2>1
<1>10. fragmentUsed = One(fill > 0) + toFrag + FragsAt({"taken", "deflated", "deferred", "placed"})
  BY DEF FragmentCounted
<1> QED BY <1>3, <1>4, <1>5, <1>6, <1>8, <1>9, <1>10 DEF BuffersAccounted, One, TailInHand

\* A possible duplicate's blocks are held between two of them, and the rest of the
\* file had room when its first block was taken.
LEMMA InvRoom == IInv => RoomForNext
<1> SUFFICES ASSUME IInv, pc = "take", held > 0 PROVE held + outstanding < WriterBuffers
  BY DEF RoomForNext
<1> USE DEF IInv
<1> DEFINE it == Item(sequence - 1)
           m == it.file.blocks
<1>1. Inside /\ held = HeldOf(it)
      /\ IF it.file.dup THEN m - thresh <= WriterBuffers - outstanding ELSE thresh = m
  BY DEF Room
<1>2. sequence - 1 \in 0 .. Total - 1 /\ ~LastOfFile(it)
  BY <1>1, StreamFacts DEF Types, TypeOK, Inside
<1>3. it \in Items /\ Fits(it)
  BY <1>2, StreamFacts DEF Types
<1>4. /\ it.block \in Nat /\ m \in Nat /\ thresh \in Nat /\ outstanding \in Nat /\ WriterBuffers \in Nat
      /\ it.file.dup \in BOOLEAN /\ it.file.tail \in BOOLEAN
  BY <1>3, PipelineAssumption DEF Items, Files, FileKinds, Types, TypeOK
<1>5. held = IF it.block + 1 > thresh THEN it.block + 1 - thresh ELSE 0
  BY <1>1 DEF HeldOf
<1>6. it.block < m + (IF it.file.tail THEN 1 ELSE 0) /\ it.block + 1 # m + (IF it.file.tail THEN 1 ELSE 0)
  BY <1>2, <1>3 DEF Fits, LastOfFile
<1>7. it.file.dup => ~it.file.tail
  BY <1>3 DEF Items, Files
<1>8. it.file.dup \/ thresh = m
  BY <1>1
<1>9. it.file.dup => m - thresh <= WriterBuffers - outstanding
  BY <1>1
<1> HIDE DEF it, m
<1>10. it.block + 1 <= m
  BY <1>4, <1>6
<1>11. it.file.dup /\ held = it.block + 1 - thresh /\ it.block + 1 < m
  BY <1>4, <1>5, <1>6, <1>7, <1>8, <1>10
<1> QED BY <1>4, <1>9, <1>11

\* Every buffer in use is in one place, however the threads interleave, and while
\* blocks of a possible duplicate are held there is room for the next.
THEOREM AlwaysConsistent == Spec => []Consistent
<1>1. IInv => Consistent
  BY InvAccounted, InvRoom DEF IInv, Types, Consistent
<1> QED BY <1>1, InductiveInvariant, PTL
=============================================================================
