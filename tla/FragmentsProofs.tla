----------------------------- MODULE FragmentsProofs -----------------------------
(***************************************************************************)
(* Proofs about Fragments for every finite set of fragment deflators, all  *)
(* sizes of files and any number of them: that fragments_outstanding       *)
(* counts what it should (Consistent), that no place is given twice        *)
(* (Placement), and that what has a place gets there (Settled).            *)
(***************************************************************************)
EXTENDS Fragments, FiniteSetTheorems, SequenceTheorems, TLAPS

-----------------------------------------------------------------------------
(* The inductive invariant.                                                *)

Fragment == {"fragment"} \X Nat
Block == {"block"} \X Nat \X Nat
Units == Fragment \cup Block
Messages == {Flush} \cup ({"buffer"} \X Units \X Nat)
Files == [number : Nat, size : Nat, tail : BOOLEAN, dup : BOOLEAN, start : Nat, thresh : Nat]
Deflators == [step : {"idle", "compressed", "deferred", "placed"}, frag : Int]

Types ==
  /\ TypeOK
  /\ file \in Files /\ blockPos \in Seq(Nat) /\ committed \subseteq Nat \X Block
  /\ fragments \in Nat /\ fragTable \in [DOMAIN fragTable -> Nat]
  /\ toFrag \in Seq(Nat) /\ pending \in Seq(Nat) /\ toWriter \in Seq(Messages)
  /\ deflator \in [FragDeflators -> Deflators]

\* Every fragment under way has a number that was given out, and one that is about to
\* be put has its place.
Known ==
  /\ \A k \in 1 .. Len(toFrag) : toFrag[k] < fragments
  /\ \A k \in 1 .. Len(pending) : pending[k] < fragments
  /\ \A d \in FragDeflators : deflator[d].step # "idle" => deflator[d].frag \in 0 .. fragments - 1
  /\ \A d \in FragDeflators : deflator[d].step = "placed" => deflator[d].frag \in DOMAIN fragTable
  /\ IF pc = "unlockput" THEN hand \in DOMAIN fragTable ELSE hand = -1

\* While a file is written no fragment takes a place.
Blocks ==
  pc = "blocks" =>
    /\ locked /\ block <= file.size /\ bytes = file.start + block
    /\ Len(blockPos) = block /\ \A b \in 1 .. block : blockPos[b] = file.start + b - 1
    /\ ~file.dup => file.thresh = file.size

\* What has its place for good lies before the file in hand, each unit at its own place.
Fixed == PlacedFragments \cup committed
Base == IF pc = "blocks" THEN file.start ELSE bytes
Apart ==
  /\ \A u, v \in Fixed : u[1] = v[1] => u = v
  /\ \A u \in Fixed : u[1] < Base

\* The writer has the unit, and nothing behind it for the same place; or it has written
\* it, and has nothing for that place.
At(m, p) == m # Flush /\ m[3] = p
InQueue(q, u) == \E i \in 1 .. Len(q) : q[i] = Buffer(u[2], u[1]) /\ \A j \in i + 1 .. Len(q) : ~At(q[j], u[1])
OnDisk(q, d, u) == u[1] \in DOMAIN d /\ d[u[1]] = u[2] /\ \A j \in 1 .. Len(q) : ~At(q[j], u[1])
Sent(q, d, u) == InQueue(q, u) \/ OnDisk(q, d, u)

\* A fragment with a place that is still to be put.
ToPut(u) ==
  \/ \E d \in FragDeflators : deflator[d].step = "placed" /\ u[2] = FragUnit(deflator[d].frag)
  \/ hand # -1 /\ u[2] = FragUnit(hand)

HandUnit(b) == <<blockPos[b], BlockUnit(file, b - 1)>>
OnWay ==
  /\ \A u \in Fixed : Sent(toWriter, disk, u) \/ ToPut(u)
  /\ pc = "blocks" => \A b \in 1 .. block : b <= file.thresh => Sent(toWriter, disk, HandUnit(b))

IInv == Types /\ Known /\ OutstandingCounted /\ Blocks /\ Apart /\ OnWay

-----------------------------------------------------------------------------
(* Types.                                                                  *)

\* write_fragment and get_and_fill_fragment give out the next fragment or none.
LEMMA WriteFragmentFacts ==
  ASSUME Types, Known, WriteFragment
  PROVE  /\ outstanding' = outstanding + 1 /\ outstanding' \in Nat /\ fragments' = fragments + 1 /\ fragments' \in Nat
         /\ toFrag' \in Seq(Nat) /\ Len(toFrag') = Len(toFrag) + 1
         /\ \A k \in 1 .. Len(toFrag') : toFrag'[k] < fragments'
<1>1. toFrag \in Seq(Nat) /\ fragments \in Nat /\ outstanding \in Nat
  BY DEF Types, TypeOK
<1>2. /\ outstanding' = outstanding + 1 /\ fragments' = fragments + 1 /\ toFrag' = Append(toFrag, fragments)
  BY DEF WriteFragment
<1>3. toFrag' \in Seq(Nat) /\ Len(toFrag') = Len(toFrag) + 1
  BY <1>1, <1>2
<1>4. \A k \in 1 .. Len(toFrag') : toFrag'[k] < fragments'
  <2> TAKE k \in 1 .. Len(toFrag')
  <2>1. CASE k \in 1 .. Len(toFrag)
    <3>1. toFrag'[k] = toFrag[k] /\ toFrag[k] \in Nat
      BY <1>1, <1>2, <2>1
    <3> QED BY <1>1, <1>2, <2>1, <3>1 DEF Known
  <2>2. CASE k = Len(toFrag) + 1
    BY <1>1, <1>2, <2>2
  <2> QED BY <1>1, <1>3, <2>1, <2>2
<1> QED BY <1>1, <1>2, <1>3, <1>4

LEMMA FillFacts ==
  ASSUME Types, Known, FillFragment
  PROVE  /\ fill' \in 0 .. PerFragment /\ outstanding' \in Nat /\ fragments' \in Nat /\ fragments' >= fragments
         /\ toFrag' \in Seq(Nat) /\ outstanding' - outstanding = Len(toFrag') - Len(toFrag)
         /\ \A k \in 1 .. Len(toFrag') : toFrag'[k] < fragments'
<1>1. /\ fill \in 0 .. PerFragment /\ PerFragment \in Nat \ {0} /\ fragments \in Nat /\ outstanding \in Nat
      /\ toFrag \in Seq(Nat)
  BY FragmentsAssumption DEF Types, TypeOK
<1>2. CASE fill = PerFragment
  <2>1. WriteFragment /\ fill' = 1
    BY <1>2 DEF FillFragment
  <2> QED BY <1>1, <2>1, WriteFragmentFacts
<1>3. CASE fill # PerFragment
  BY <1>1, <1>3 DEF FillFragment, Known
<1> QED BY <1>2, <1>3

LEMMA TailFacts ==
  ASSUME NEW S, NEW s \in Seq(S), s # <<>>
  PROVE  /\ Head(s) = s[1] /\ s[1] \in S /\ 1 \in 1 .. Len(s)
         /\ Tail(s) \in Seq(S) /\ Len(Tail(s)) = Len(s) - 1
         /\ \A k \in 1 .. Len(Tail(s)) : k + 1 \in 1 .. Len(s) /\ Tail(s)[k] = s[k + 1]
OBVIOUS

\* A function with one more, or one other, value.
LEMMA WithFacts ==
  ASSUME NEW f, NEW x, NEW y
  PROVE  /\ DOMAIN With(f, x, y) = DOMAIN f \cup {x} /\ With(f, x, y)[x] = y
         /\ \A z \in DOMAIN f : z # x => With(f, x, y)[z] = f[z]
BY DEF With

\* A fragment takes the place at the output position.
LEMMA AssignFacts ==
  ASSUME Types, NEW f \in 0 .. fragments - 1, Assign(f), outstanding > 0
  PROVE  /\ bytes' = bytes + 1 /\ outstanding' = outstanding - 1 /\ bytes' \in Nat /\ outstanding' \in Nat
         /\ DOMAIN fragTable' = DOMAIN fragTable \cup {f} /\ DOMAIN fragTable' \subseteq 0 .. fragments - 1
         /\ fragTable' \in [DOMAIN fragTable' -> Nat] /\ fragTable'[f] = bytes
         /\ \A g \in DOMAIN fragTable : g # f => fragTable'[g] = fragTable[g]
<1>1. bytes \in Nat /\ outstanding \in Nat /\ DOMAIN fragTable \subseteq 0 .. fragments - 1 /\ fragTable \in [DOMAIN fragTable -> Nat]
  BY DEF Types, TypeOK
<1>2. fragTable' = With(fragTable, f, bytes) /\ bytes' = bytes + 1 /\ outstanding' = outstanding - 1
  BY DEF Assign
<1>3. fragTable' = [g \in DOMAIN fragTable \cup {f} |-> IF g = f THEN bytes ELSE fragTable[g]]
  BY <1>2 DEF With
<1> QED BY <1>1, <1>2, <1>3

-----------------------------------------------------------------------------
(* The writer's queue and the destination.                                 *)

LEMMA BufferFacts ==
  ASSUME NEW w, NEW p
  PROVE  /\ Buffer(w, p) # Flush /\ Buffer(w, p)[2] = w /\ Buffer(w, p)[3] = p
         /\ \A v, r : Buffer(w, p) = Buffer(v, r) => w = v /\ p = r
BY DEF Buffer, Flush

\* A unit that the writer has, or has written, stays so when what is queued behind it
\* is for other places.
LEMMA SentJoin ==
  ASSUME NEW q \in Seq(Messages), NEW r \in Seq(Messages), NEW d, NEW u, Sent(q, d, u),
         \A j \in 1 .. Len(r) : ~At(r[j], u[1])
  PROVE  Sent(q \o r, d, u)
<1>1. /\ q \o r \in Seq(Messages) /\ Len(q \o r) = Len(q) + Len(r) /\ Len(q) \in Nat /\ Len(r) \in Nat
      /\ \A i \in 1 .. Len(q) : (q \o r)[i] = q[i]
      /\ \A i \in Len(q) + 1 .. Len(q) + Len(r) : (q \o r)[i] = r[i - Len(q)]
  OBVIOUS
<1>2. \A i \in Len(q) + 1 .. Len(q \o r) : ~At((q \o r)[i], u[1])
  <2> TAKE i \in Len(q) + 1 .. Len(q \o r)
  <2>1. i - Len(q) \in 1 .. Len(r) /\ (q \o r)[i] = r[i - Len(q)]
    BY <1>1
  <2> QED BY <2>1, Zenon
<1>3. CASE InQueue(q, u)
  <2>1. PICK i \in 1 .. Len(q) : q[i] = Buffer(u[2], u[1]) /\ \A j \in i + 1 .. Len(q) : ~At(q[j], u[1])
    BY <1>3 DEF InQueue
  <2>2. i \in 1 .. Len(q \o r) /\ (q \o r)[i] = Buffer(u[2], u[1])
    BY <1>1, <2>1
  <2>3. \A j \in i + 1 .. Len(q \o r) : ~At((q \o r)[j], u[1])
    <3> TAKE j \in i + 1 .. Len(q \o r)
    <3>1. CASE j <= Len(q)
      <4>1. j \in i + 1 .. Len(q) /\ (q \o r)[j] = q[j]
        BY <1>1, <2>2, <3>1
      <4> QED BY <4>1, <2>1, Zenon
    <3>2. CASE j > Len(q)
      <4>1. j \in Len(q) + 1 .. Len(q \o r)
        BY <1>1, <2>2, <3>2
      <4> QED BY <4>1, <1>2
    <3> QED BY <1>1, <2>2, <3>1, <3>2
  <2> QED BY <2>2, <2>3 DEF Sent, InQueue
<1>4. CASE OnDisk(q, d, u)
  <2>1. \A j \in 1 .. Len(q \o r) : ~At((q \o r)[j], u[1])
    <3> TAKE j \in 1 .. Len(q \o r)
    <3>1. CASE j <= Len(q)
      <4>1. j \in 1 .. Len(q) /\ (q \o r)[j] = q[j]
        BY <1>1, <3>1
      <4> QED BY <4>1, <1>4, Zenon DEF OnDisk
    <3>2. CASE j > Len(q)
      <4>1. j \in Len(q) + 1 .. Len(q \o r)
        BY <1>1, <3>2
      <4> QED BY <4>1, <1>2
    <3> QED BY <1>1, <3>1, <3>2
  <2> QED BY <1>4, <2>1 DEF Sent, OnDisk
<1> QED BY <1>3, <1>4 DEF Sent

\* A unit that is queued last of those for its place is on its way.
LEMMA SentPut ==
  ASSUME NEW q \in Seq(Messages), NEW r \in Seq(Messages), NEW d, NEW u, InQueue(r, u)
  PROVE  Sent(q \o r, d, u)
<1>1. /\ q \o r \in Seq(Messages) /\ Len(q \o r) = Len(q) + Len(r) /\ Len(q) \in Nat /\ Len(r) \in Nat
      /\ \A i \in Len(q) + 1 .. Len(q) + Len(r) : (q \o r)[i] = r[i - Len(q)]
  OBVIOUS
<1>2. PICK i \in 1 .. Len(r) : r[i] = Buffer(u[2], u[1]) /\ \A j \in i + 1 .. Len(r) : ~At(r[j], u[1])
  BY DEF InQueue
<1>3. \A k \in Nat : i \in 1 .. k => i + Len(q) \in Len(q) + 1 .. Len(q) + k /\ (i + Len(q)) - Len(q) = i
  BY <1>1, <1>2
<1>4. i + Len(q) \in 1 .. Len(q \o r) /\ (q \o r)[i + Len(q)] = r[i]
  BY <1>1, <1>2, <1>3
<1>5. \A j \in i + Len(q) + 1 .. Len(q \o r) : ~At((q \o r)[j], u[1])
  <2> TAKE j \in i + Len(q) + 1 .. Len(q \o r)
  <2>1. j - Len(q) \in i + 1 .. Len(r) /\ (q \o r)[j] = r[j - Len(q)]
    BY <1>1, <1>2
  <2> QED BY <2>1, <1>2, Zenon
<1>6. InQueue(q \o r, u)
  BY <1>2, <1>4, <1>5 DEF InQueue
<1> QED BY <1>6 DEF Sent

\* The same for one message.
LEMMA SentAppend ==
  ASSUME NEW q \in Seq(Messages), NEW m \in Messages, NEW d, NEW u
  PROVE  /\ Sent(q, d, u) /\ ~At(m, u[1]) => Sent(Append(q, m), d, u)
         /\ m = Buffer(u[2], u[1]) => Sent(Append(q, m), d, u)
<1>1. Append(q, m) = q \o <<m>> /\ <<m>> \in Seq(Messages) /\ Len(<<m>>) = 1 /\ <<m>>[1] = m
  OBVIOUS
<1>2. ASSUME Sent(q, d, u), ~At(m, u[1]) PROVE Sent(Append(q, m), d, u)
  <2>1. \A j \in 1 .. Len(<<m>>) : ~At(<<m>>[j], u[1])
    <3> TAKE j \in 1 .. Len(<<m>>)
    <3>1. j = 1
      BY <1>1
    <3> QED BY <1>1, <1>2, <3>1, Zenon
  <2> QED BY <1>1, <1>2, <2>1, SentJoin
<1>3. ASSUME m = Buffer(u[2], u[1]) PROVE Sent(Append(q, m), d, u)
  <2>1. 1 \in 1 .. Len(<<m>>) /\ \A j \in 1 + 1 .. Len(<<m>>) : ~At(<<m>>[j], u[1])
    BY <1>1
  <2>2. InQueue(<<m>>, u)
    BY <1>1, <1>3, <2>1 DEF InQueue
  <2> QED BY <1>1, <2>2, SentPut
<1> QED BY <1>2, <1>3

\* The writer writes the head of its queue.
LEMMA SentWrite ==
  ASSUME NEW q \in Seq(Messages), q # <<>>, NEW d, NEW e, NEW u, Sent(q, d, u),
         IF Head(q) = Flush THEN e = d ELSE e = With(d, Head(q)[3], Head(q)[2])
  PROVE  Sent(Tail(q), e, u)
<1>1. /\ Tail(q) \in Seq(Messages) /\ Len(Tail(q)) = Len(q) - 1 /\ Len(q) \in Nat /\ Len(q) >= 1 /\ Head(q) = q[1]
      /\ \A i \in 1 .. Len(q) - 1 : Tail(q)[i] = q[i + 1]
  OBVIOUS
<1>2. CASE InQueue(q, u)
  <2>1. PICK i \in 1 .. Len(q) : q[i] = Buffer(u[2], u[1]) /\ \A j \in i + 1 .. Len(q) : ~At(q[j], u[1])
    BY <1>2 DEF InQueue
  <2>2. \A j \in i .. Len(Tail(q)) : j \in 1 .. Len(q) - 1 => ~At(Tail(q)[j], u[1])
    <3> TAKE j \in i .. Len(Tail(q))
    <3>1. SUFFICES ASSUME j \in 1 .. Len(q) - 1 PROVE ~At(Tail(q)[j], u[1])
      OBVIOUS
    <3>2. j + 1 \in i + 1 .. Len(q) /\ Tail(q)[j] = q[j + 1]
      BY <1>1, <2>1, <3>1
    <3> QED BY <2>1, <3>2, Zenon
  <2>3. CASE i = 1
    <3>1. Head(q) = Buffer(u[2], u[1])
      BY <1>1, <2>1, <2>3
    <3>2. e = With(d, u[1], u[2])
      BY <3>1, BufferFacts
    <3>3. \A j \in 1 .. Len(Tail(q)) : ~At(Tail(q)[j], u[1])
      BY <1>1, <2>2, <2>3
    <3>4. u[1] \in DOMAIN e /\ e[u[1]] = u[2]
      <4>1. /\ DOMAIN With(d, u[1], u[2]) = DOMAIN d \cup {u[1]}
            /\ With(d, u[1], u[2])[u[1]] = u[2]
        BY DEF With
      <4> QED BY <3>2, <4>1, Zenon
    <3> QED BY <3>3, <3>4, Zenon DEF Sent, OnDisk
  <2>4. CASE i # 1
    <3>1. i - 1 \in 1 .. Len(Tail(q)) /\ Tail(q)[i - 1] = q[i]
      BY <1>1, <2>1, <2>4
    <3>2. \A j \in (i - 1) + 1 .. Len(Tail(q)) : ~At(Tail(q)[j], u[1])
      BY <1>1, <2>1, <2>2, <2>4
    <3> QED BY <2>1, <3>1, <3>2 DEF Sent, InQueue
  <2> QED BY <2>3, <2>4
<1>3. CASE OnDisk(q, d, u)
  <2>1. \A j \in 1 .. Len(Tail(q)) : ~At(Tail(q)[j], u[1])
    <3> TAKE j \in 1 .. Len(Tail(q))
    <3>1. j + 1 \in 1 .. Len(q) /\ Tail(q)[j] = q[j + 1]
      BY <1>1
    <3> QED BY <1>3, <3>1, Zenon DEF OnDisk
  <2>2. ~At(Head(q), u[1])
    BY <1>1, <1>3 DEF OnDisk
  <2>3. u[1] \in DOMAIN e /\ e[u[1]] = u[2]
    <3>1. u[1] \in DOMAIN d /\ d[u[1]] = u[2]
      BY <1>3 DEF OnDisk
    <3>2. CASE Head(q) = Flush
      BY <3>1, <3>2
    <3>3. CASE Head(q) # Flush
      <4> DEFINE x == Head(q)[3]  y == Head(q)[2]
      <4>1. e = With(d, x, y) /\ u[1] # x
        BY <2>2, <3>3 DEF At
      <4>2. DOMAIN With(d, x, y) = DOMAIN d \cup {x} /\ \A z \in DOMAIN d : z # x => With(d, x, y)[z] = d[z]
        BY DEF With
      <4> HIDE DEF x, y
      <4> QED BY <3>1, <4>1, <4>2, Zenon
    <3> QED BY <3>2, <3>3
  <2> QED BY <2>1, <2>3 DEF Sent, OnDisk
<1> QED BY <1>2, <1>3 DEF Sent

\* The destination is cut off behind the unit.
LEMMA SentCut ==
  ASSUME NEW q, NEW d, NEW u, NEW n, Sent(q, d, u), u[1] < n
  PROVE  Sent(q, [p \in {r \in DOMAIN d : r < n} |-> d[p]], u)
BY DEF Sent, OnDisk

-----------------------------------------------------------------------------
(* The steps.                                                              *)

\* A step of the main thread between files that changes nothing it shares but the lock
\* and the writer's answer.
Turn ==
  /\ pc \notin {"blocks", "unlockput"}
  /\ pc' \in {"next", "again", "fill", "drain", "unlock", "tables", "exited"}
  /\ locked' \in BOOLEAN /\ fromWriter' \in BOOLEAN
  /\ UNCHANGED <<after, hand, fileVars, fragVars, sharedVars, pending, toWriter, deflator, disk>>

LEMMA Cases ==
  ASSUME Types, Next
  PROVE  \/ Turn
         \/ pc \in {"next", "again"} /\ SmallFile
         \/ pc \in {"next", "again"} /\ BlocksFile
         \/ WriteBlock \/ EndBlocks \/ Fill \/ Unique \/ Truncate \/ UnlockPlace \/ UnlockPut \/ LastFragment \/ Drain
         \/ pc = "blocks" /\ RollBack /\ after' \in {"next", "again"}
         \/ \E d \in FragDeflators : Compress(d) \/ Place(d) \/ AddPending(d) \/ PutPlaced(d)
         \/ Write
<1>1. locked \in BOOLEAN /\ fromWriter \in BOOLEAN /\ after \in {"next", "again", "fill", "drain"}
  BY DEF Types, TypeOK
<1>2. CASE UnlockDone
  BY <1>1, <1>2 DEF UnlockDone, Turn
<1>3. CASE Flushed
  BY <1>1, <1>3 DEF Flushed, Turn
<1>4. CASE Exit
  BY <1>1, <1>4 DEF Exit, Turn
<1>5. CASE Again
  <2>1. CASE ReadFile
    BY <1>5, <2>1 DEF Again, ReadFile
  <2>2. CASE ~ReadFile
    BY <1>1, <1>5, <2>2 DEF Again, Turn
  <2> QED BY <2>1, <2>2
<1>6. CASE NextFile
  BY <1>6 DEF NextFile, ReadFile
<1>7. CASE Duplicate \/ ReadError
  BY <1>7 DEF Duplicate, ReadError, BlocksDone
<1> QED BY <1>2, <1>3, <1>4, <1>5, <1>6, <1>7 DEF Next, Main, FragDeflator, Writer, Running

-----------------------------------------------------------------------------
(* Types and numbers.                                                      *)

LEMMA MessageFacts ==
  /\ Flush \in Messages
  /\ \A p \in Nat : /\ \A n \in Nat : Buffer(FragUnit(n), p) \in Messages
                    /\ \A f \in Files, b \in Nat : Buffer(BlockUnit(f, b), p) \in Messages /\ BlockUnit(f, b) \in Block
<1>1. \A w \in Units, p \in Nat : Buffer(w, p) \in Messages
  BY DEF Messages, Buffer
<1>2. \A n \in Nat : FragUnit(n) \in Units
  BY DEF FragUnit, Units, Fragment
<1>3. \A f \in Files, b \in Nat : BlockUnit(f, b) \in Units /\ BlockUnit(f, b) \in Block
  BY DEF BlockUnit, Units, Block, Files
<1> QED BY <1>1, <1>2, <1>3 DEF Messages

\* What a fragment to the deflators leaves alone.
KnownButHand ==
  /\ \A k \in 1 .. Len(toFrag) : toFrag[k] < fragments
  /\ \A k \in 1 .. Len(pending) : pending[k] < fragments
  /\ \A d \in FragDeflators : deflator[d].step # "idle" => deflator[d].frag \in 0 .. fragments - 1
  /\ \A d \in FragDeflators : deflator[d].step = "placed" => deflator[d].frag \in DOMAIN fragTable
LEMMA FillKnown ==
  ASSUME Types, Known, FillFragment \/ WriteFragment, UNCHANGED <<pending, deflator, fragTable>>
  PROVE  /\ KnownButHand' /\ DOMAIN fragTable' \subseteq 0 .. fragments' - 1
         /\ outstanding' \in Nat /\ fragments' \in Nat /\ toFrag' \in Seq(Nat)
         /\ FillFragment => fill' \in 0 .. PerFragment
<1>1. /\ outstanding' \in Nat /\ fragments' \in Nat /\ fragments' >= fragments /\ toFrag' \in Seq(Nat)
      /\ \A k \in 1 .. Len(toFrag') : toFrag'[k] < fragments'
      /\ FillFragment => fill' \in 0 .. PerFragment
  <2>1. fragments \in Nat
    BY DEF Types
  <2>2. CASE FillFragment
    BY <2>2, FillFacts
  <2>3. CASE WriteFragment /\ ~FillFragment
    BY <2>1, <2>3, WriteFragmentFacts
  <2> QED BY <2>2, <2>3
<1>2. fragments \in Nat /\ pending \in Seq(Nat) /\ DOMAIN fragTable \subseteq 0 .. fragments - 1
  BY DEF Types, TypeOK
<1>3. \A n \in Nat : n < fragments => n < fragments'
  BY <1>1, <1>2
<1>4. \A n \in 0 .. fragments - 1 : n \in 0 .. fragments' - 1
  <2>1. fragments \in Nat /\ fragments' \in Nat /\ fragments' >= fragments
    BY <1>1, <1>2
  <2>2. \A a, b \in Nat : b >= a => \A n \in 0 .. a - 1 : n \in 0 .. b - 1
    OBVIOUS
  <2> QED BY <2>1, <2>2, Zenon
<1>5. \A k \in 1 .. Len(pending') : pending'[k] < fragments'
  <2> TAKE k \in 1 .. Len(pending')
  <2>1. pending' = pending /\ pending[k] \in Nat /\ pending[k] < fragments
    BY <1>2 DEF Known
  <2> QED BY <2>1, <1>3
<1>6. \A d \in FragDeflators : deflator'[d].step # "idle" => deflator'[d].frag \in 0 .. fragments' - 1
  BY <1>4 DEF Known
<1>7. \A d \in FragDeflators : deflator'[d].step = "placed" => deflator'[d].frag \in DOMAIN fragTable'
  BY DEF Known
<1>8. KnownButHand'
  BY <1>1, <1>5, <1>6, <1>7, Zenon DEF KnownButHand
<1> QED BY <1>1, <1>2, <1>4, <1>8, Zenon

LEMMA TypesMain ==
  ASSUME Types, Known, Blocks, OutstandingCounted,
         \/ Turn
         \/ pc \in {"next", "again"} /\ SmallFile
         \/ pc \in {"next", "again"} /\ BlocksFile
         \/ Fill \/ Truncate \/ LastFragment \/ Drain
         \/ pc = "blocks" /\ RollBack /\ after' \in {"next", "again"}
  PROVE  Types' /\ Known'
<1> USE DEF fragVars, sharedVars, mainVars, fileVars
<1>1. CASE Turn
  BY <1>1 DEF Turn, Types, TypeOK, Known
<1>2. CASE pc \in {"next", "again"} /\ SmallFile
  <2>1. file' \in Files
    <3>1. file.number \in Nat
      BY DEF Types, Files
    <3>2. file' = [NoFile EXCEPT !.number = file.number + 1] /\ NoFile \in Files
      BY <1>2 DEF SmallFile, NoFile, Files
    <3> QED BY <3>1, <3>2 DEF Files
  <2>2. FillFragment
    BY <1>2 DEF SmallFile
  <2>3. KnownButHand' /\ fill' \in 0 .. PerFragment /\ outstanding' \in Nat /\ fragments' \in Nat /\ toFrag' \in Seq(Nat)
        /\ DOMAIN fragTable' \subseteq 0 .. fragments' - 1
    BY <1>2, <2>2, FillKnown DEF SmallFile
  <2> QED BY <1>2, <2>1, <2>3 DEF SmallFile, Types, TypeOK, Known, KnownButHand
<1>3. CASE pc \in {"next", "again"} /\ BlocksFile
  <2>1. PICK size \in Sizes, tail \in BOOLEAN, dup \in BOOLEAN :
               file' = [number |-> file.number + 1, size |-> size, tail |-> tail, dup |-> dup,
                        start |-> bytes, thresh |-> IF dup THEN Thresh(size) ELSE size]
    BY <1>3 DEF BlocksFile
  <2>2. size \in Nat /\ WriterBuffers \in Nat /\ outstanding \in Nat /\ bytes \in Nat /\ file.number \in Nat
    BY FragmentsAssumption DEF Types, TypeOK, Files
  <2>3. (IF dup THEN Thresh(size) ELSE size) \in Nat
    BY <2>2 DEF Thresh
  <2>4. file' \in Files
    BY <2>1, <2>2, <2>3 DEF Files
  <2>5. blockPos' = <<>> /\ <<>> \in Seq(Nat) /\ block' = 0
    BY <1>3 DEF BlocksFile
  <2>6. /\ locked' = TRUE /\ pc' = "blocks"
        /\ UNCHANGED <<after, hand, committed, fragVars, sharedVars, pending, toWriter, fromWriter, deflator, disk>>
    BY <1>3 DEF BlocksFile
  <2> QED BY <1>3, <2>4, <2>5, <2>6 DEF Types, TypeOK, Known
<1>4. CASE Fill
  <2>1. KnownButHand' /\ fill' \in 0 .. PerFragment /\ outstanding' \in Nat /\ fragments' \in Nat /\ toFrag' \in Seq(Nat)
        /\ DOMAIN fragTable' \subseteq 0 .. fragments' - 1
    BY <1>4, FillKnown DEF Fill
  <2> QED BY <1>4, <2>1 DEF Fill, Types, TypeOK, Known, KnownButHand
<1>5. CASE Truncate
  BY <1>5 DEF Truncate, Types, TypeOK, Known
<1>6. CASE LastFragment
  <2>1. fill' \in 0 .. PerFragment
    BY <1>6, FragmentsAssumption DEF LastFragment, Types, TypeOK
  <2>2. CASE fill > 0
    <3>1. WriteFragment
      BY <1>6, <2>2 DEF LastFragment
    <3>2. KnownButHand' /\ outstanding' \in Nat /\ fragments' \in Nat /\ toFrag' \in Seq(Nat)
          /\ DOMAIN fragTable' \subseteq 0 .. fragments' - 1
      BY <1>6, <3>1, FillKnown DEF LastFragment
    <3> QED BY <1>6, <2>1, <3>2 DEF LastFragment, Types, TypeOK, Known, KnownButHand
  <2>3. CASE ~(fill > 0)
    BY <1>6, <2>1, <2>3 DEF LastFragment, Types, TypeOK, Known
  <2> QED BY <2>2, <2>3
<1>7. CASE Drain
  BY <1>7, MessageFacts DEF Drain, Types, TypeOK, Known
<1>8. CASE pc = "blocks" /\ RollBack /\ after' \in {"next", "again"}
  BY SMTT(30), <1>8, MessageFacts DEF RollBack, Types, TypeOK, Known, Files
<1> QED BY <1>1, <1>2, <1>3, <1>4, <1>5, <1>6, <1>7, <1>8

\* The fragments that a deflator has in hand without a place.
LEMMA DeferredFacts ==
  ASSUME Types
  PROVE  /\ IsFiniteSet(Deferred) /\ Cardinality(Deferred) \in Nat
         /\ Deferred # {} => Cardinality(Deferred) > 0
         /\ \A d \in FragDeflators : d \notin Deferred => Cardinality(Deferred \cup {d}) = Cardinality(Deferred) + 1
         /\ \A d \in FragDeflators : d \in Deferred => Cardinality(Deferred \ {d}) = Cardinality(Deferred) - 1
<1>1. IsFiniteSet(Deferred)
  BY FragmentsAssumption, FS_Subset DEF Deferred
<1>2. Cardinality(Deferred) \in Nat /\ (Cardinality(Deferred) = 0 <=> Deferred = {})
  BY <1>1, FS_CardinalityType, FS_EmptySet
<1>3. \A d \in FragDeflators : d \notin Deferred => Cardinality(Deferred \cup {d}) = Cardinality(Deferred) + 1
  BY <1>1, FS_AddElement
<1>4. \A d \in FragDeflators : d \in Deferred => Cardinality(Deferred \ {d}) = Cardinality(Deferred) - 1
  BY <1>1, FS_RemoveElement
<1> QED BY <1>1, <1>2, <1>3, <1>4

LEMMA DeferredStep ==
  ASSUME Types, NEW d \in FragDeflators, NEW e \in Deflators, deflator' = [deflator EXCEPT ![d] = e]
  PROVE  /\ deflator' \in [FragDeflators -> Deflators]
         /\ e.step \in {"compressed", "deferred"} => Deferred' = Deferred \cup {d}
         /\ e.step \notin {"compressed", "deferred"} => Deferred' = Deferred \ {d}
BY DEF Types, Deferred

\* A fragment without a place is counted.
LEMMA SomeOutstanding ==
  ASSUME Types, OutstandingCounted
  PROVE  /\ \A d \in FragDeflators : deflator[d].step = "compressed" => outstanding > 0
         /\ pending # <<>> => outstanding > 0
<1>1. /\ Len(toFrag) \in Nat /\ Len(pending) \in Nat /\ Cardinality(Deferred) \in Nat
      /\ outstanding = Len(toFrag) + Cardinality(Deferred) + Len(pending)
      /\ pending # <<>> => Len(pending) > 0
  BY DeferredFacts DEF Types, OutstandingCounted
<1>2. \A d \in FragDeflators : deflator[d].step = "compressed" => Cardinality(Deferred) > 0
  BY DeferredFacts DEF Deferred
<1>3. \A a, b, c \in Nat : (b > 0 \/ c > 0) => a + b + c > 0
  OBVIOUS
<1> QED BY <1>1, <1>2, <1>3

LEMMA CountedStep ==
  ASSUME Types, Known, OutstandingCounted, Next
  PROVE  OutstandingCounted'
<1> DEFINE Same == UNCHANGED <<outstanding, toFrag, deflator, pending>>
           Given == (FillFragment \/ WriteFragment) /\ UNCHANGED <<deflator, pending>>
<1>1. /\ toFrag \in Seq(Nat) /\ pending \in Seq(Nat) /\ outstanding \in Nat /\ deflator \in [FragDeflators -> Deflators]
      /\ Len(toFrag) \in Nat /\ Len(pending) \in Nat /\ Cardinality(Deferred) \in Nat
      /\ outstanding = Len(toFrag) + Cardinality(Deferred) + Len(pending)
  BY DeferredFacts DEF Types, TypeOK, OutstandingCounted
<1>2. SUFFICES ASSUME \/ Same \/ Given \/ UnlockPlace
                      \/ \E d \in FragDeflators : Compress(d) \/ Place(d) \/ AddPending(d) \/ PutPlaced(d)
               PROVE  OutstandingCounted'
  <2> USE DEF fragVars, sharedVars, mainVars, fileVars
  <2>1. CASE Turn
    BY <1>2, <2>1 DEF Turn
  <2>2. CASE SmallFile
    BY <1>2, <2>2 DEF SmallFile
  <2>3. CASE BlocksFile
    BY <1>2, <2>3 DEF BlocksFile
  <2>4. CASE WriteBlock \/ EndBlocks \/ Truncate \/ UnlockPut \/ Drain \/ RollBack \/ Write
    BY <1>2, <2>4 DEF WriteBlock, EndBlocks, Truncate, UnlockPut, Drain, RollBack, Write
  <2>5. CASE Fill
    BY <1>2, <2>5 DEF Fill
  <2>6. CASE Unique
    BY <1>2, <2>6 DEF Unique
  <2>7. CASE LastFragment
    BY <1>2, <2>7 DEF LastFragment
  <2> HIDE DEF Same, Given
  <2> QED BY <1>2, <2>1, <2>2, <2>3, <2>4, <2>5, <2>6, <2>7, Cases
<1>3. CASE Same
  <2>1. Deferred' = Deferred
    BY <1>3 DEF Deferred
  <2> QED BY <1>3, <2>1 DEF OutstandingCounted
<1>4. CASE Given
  <2>1. Deferred' = Deferred /\ pending' = pending
    BY <1>4 DEF Deferred
  <2>2. toFrag' \in Seq(Nat) /\ Len(toFrag') \in Nat /\ outstanding' \in Nat /\ outstanding' - outstanding = Len(toFrag') - Len(toFrag)
    <3>1. CASE WriteFragment
      BY <1>1, <3>1, WriteFragmentFacts
    <3>2. CASE FillFragment
      BY <1>1, <3>2, FillFacts
    <3> QED BY <1>4, <3>1, <3>2
  <2> QED BY <1>1, <2>1, <2>2 DEF OutstandingCounted
<1>5. CASE UnlockPlace
  <2>1. Deferred' = Deferred /\ pending' = Tail(pending) /\ pending # <<>> /\ toFrag' = toFrag /\ outstanding' = outstanding - 1
    BY <1>5 DEF UnlockPlace, Assign, Deferred, fragVars
  <2>2. Len(pending') = Len(pending) - 1
    BY <1>1, <2>1
  <2> QED BY <1>1, <2>1, <2>2 DEF OutstandingCounted
<1>6. ASSUME NEW d \in FragDeflators, Compress(d) PROVE OutstandingCounted'
  <2> DEFINE e == [step |-> "compressed", frag |-> Head(toFrag)]
  <2>1. /\ toFrag # <<>> /\ toFrag' = Tail(toFrag) /\ deflator' = [deflator EXCEPT ![d] = e] /\ d \notin Deferred
        /\ pending' = pending /\ outstanding' = outstanding
    BY <1>6 DEF Compress, Deferred, sharedVars
  <2>2. e \in Deflators /\ e.step = "compressed"
    BY <1>1, <2>1 DEF Deflators
  <2>3. Len(toFrag') = Len(toFrag) - 1
    BY <1>1, <2>1
  <2>4. Deferred' = Deferred \cup {d}
    BY <2>1, <2>2, DeferredStep
  <2>5. Cardinality(Deferred') = Cardinality(Deferred) + 1
    BY <2>1, <2>4, DeferredFacts
  <2> QED BY <1>1, <2>1, <2>3, <2>5 DEF OutstandingCounted
<1>7. ASSUME NEW d \in FragDeflators, Place(d) PROVE OutstandingCounted'
  <2>1. deflator[d].step = "compressed" /\ d \in Deferred /\ toFrag' = toFrag /\ pending' = pending
    BY <1>7 DEF Place, Deferred, fragVars
  <2>2. CASE locked
    <3> DEFINE e == [deflator[d] EXCEPT !.step = "deferred"]
    <3>1. e \in Deflators /\ e.step = "deferred"
      BY <1>1 DEF Deflators
    <3>2. deflator' = [deflator EXCEPT ![d] = e] /\ outstanding' = outstanding
      BY <1>7, <2>2 DEF Place, MustDefer, sharedVars
    <3> HIDE DEF e
    <3>3. Deferred' = Deferred \cup {d}
      BY <3>1, <3>2, DeferredStep
    <3>4. Deferred' = Deferred
      BY <2>1, <3>3
    <3> QED BY <1>1, <2>1, <3>2, <3>4 DEF OutstandingCounted
  <2>3. CASE ~locked
    <3> DEFINE e == [deflator[d] EXCEPT !.step = "placed"]
    <3>1. e \in Deflators /\ e.step = "placed"
      BY <1>1 DEF Deflators
    <3>2. deflator' = [deflator EXCEPT ![d] = e] /\ outstanding' = outstanding - 1
      BY <1>7, <2>3 DEF Place, MustDefer, Assign
    <3>3. Deferred' = Deferred \ {d}
      BY <3>1, <3>2, DeferredStep
    <3>4. Cardinality(Deferred') = Cardinality(Deferred) - 1
      BY <2>1, <3>3, DeferredFacts
    <3> QED BY <1>1, <2>1, <3>2, <3>4 DEF OutstandingCounted
  <2> QED BY <2>2, <2>3
<1>8. ASSUME NEW d \in FragDeflators, AddPending(d) PROVE OutstandingCounted'
  <2>1. /\ d \in Deferred /\ pending' = Append(pending, deflator[d].frag) /\ toFrag' = toFrag /\ outstanding' = outstanding
        /\ deflator' = [deflator EXCEPT ![d] = Idle]
    BY <1>8 DEF AddPending, Deferred, fragVars, sharedVars
  <2>2. Idle \in Deflators /\ Idle.step = "idle"
    BY DEF Idle, Deflators
  <2>3. Len(pending') = Len(pending) + 1
    BY <1>1, <2>1
  <2>4. Deferred' = Deferred \ {d}
    BY <2>1, <2>2, DeferredStep
  <2>5. Cardinality(Deferred') = Cardinality(Deferred) - 1
    BY <2>1, <2>4, DeferredFacts
  <2> QED BY <1>1, <2>1, <2>3, <2>5 DEF OutstandingCounted
<1>9. ASSUME NEW d \in FragDeflators, PutPlaced(d) PROVE OutstandingCounted'
  <2>1. /\ d \notin Deferred /\ UNCHANGED <<pending, toFrag, outstanding>>
        /\ deflator' = [deflator EXCEPT ![d] = Idle]
    BY <1>9 DEF PutPlaced, Deferred, fragVars, sharedVars
  <2>2. Idle \in Deflators /\ Idle.step = "idle"
    BY DEF Idle, Deflators
  <2>3. Deferred' = Deferred
    <3>1. Idle.step \notin {"compressed", "deferred"}
      BY <2>2
    <3>2. Deferred' = Deferred \ {d}
      BY <2>1, <2>2, <3>1, DeferredStep
    <3> QED BY <2>1, <3>2
  <2> QED BY <1>1, <2>1, <2>3 DEF OutstandingCounted
<1> HIDE DEF Same, Given
<1> QED BY <1>2, <1>3, <1>4, <1>5, <1>6, <1>7, <1>8, <1>9

LEMMA TypesDeflator ==
  ASSUME Types, Known, OutstandingCounted, NEW d \in FragDeflators,
         Compress(d) \/ Place(d) \/ AddPending(d) \/ PutPlaced(d)
  PROVE  Types' /\ Known'
<1>1. /\ toFrag \in Seq(Nat) /\ pending \in Seq(Nat) /\ fragments \in Nat /\ deflator \in [FragDeflators -> Deflators]
      /\ toWriter \in Seq(Messages) /\ fragTable \in [DOMAIN fragTable -> Nat] /\ DOMAIN fragTable \subseteq 0 .. fragments - 1
  BY DEF Types, TypeOK
<1>2. Idle \in Deflators /\ Idle.step = "idle"
  BY DEF Idle, Deflators
<1> USE DEF fragVars, sharedVars, mainVars, fileVars
<1>3. CASE Compress(d)
  <2> DEFINE e == [step |-> "compressed", frag |-> Head(toFrag)]
  <2>1. toFrag # <<>> /\ Head(toFrag) = toFrag[1] /\ 1 \in 1 .. Len(toFrag) /\ toFrag[1] \in Nat
    BY <1>1, <1>3, TailFacts DEF Compress
  <2>2. Head(toFrag) \in 0 .. fragments - 1
    <3>1. toFrag[1] < fragments
      BY <2>1 DEF Known
    <3> QED BY <1>1, <2>1, <3>1
  <2>3. e \in Deflators /\ e.step = "compressed" /\ e.frag \in 0 .. fragments - 1
    BY <2>1, <2>2 DEF Deflators
  <2>4. deflator' = [deflator EXCEPT ![d] = e] /\ toFrag' = Tail(toFrag)
    BY <1>3 DEF Compress
  <2>5. toFrag' \in Seq(Nat) /\ \A k \in 1 .. Len(toFrag') : k + 1 \in 1 .. Len(toFrag) /\ toFrag'[k] = toFrag[k + 1]
    BY <1>1, <2>1, <2>4, TailFacts
  <2>6. \A k \in 1 .. Len(toFrag') : toFrag'[k] < fragments
    BY <2>5, Zenon DEF Known
  <2> HIDE DEF e
  <2>7. deflator' \in [FragDeflators -> Deflators]
    BY <1>1, <2>3, <2>4
  <2>8. Types'
    BY <1>3, <2>5, <2>7 DEF Compress, Types, TypeOK
  <2>9. /\ \A c \in FragDeflators : deflator'[c].step # "idle" => deflator'[c].frag \in 0 .. fragments - 1
        /\ \A c \in FragDeflators : deflator'[c].step = "placed" => deflator'[c].frag \in DOMAIN fragTable
    <3>1. \A c \in FragDeflators : deflator'[c] = IF c = d THEN e ELSE deflator[c]
      BY <1>1, <2>4
    <3> QED BY <2>3, <3>1 DEF Known
  <2> QED BY <1>3, <2>6, <2>8, <2>9 DEF Compress, Known
<1>4. CASE Place(d)
  <2>1. deflator[d].step = "compressed" /\ deflator[d].frag \in 0 .. fragments - 1 /\ outstanding > 0
    BY <1>4, SomeOutstanding DEF Place, Known
  <2>2. CASE locked
    <3> DEFINE e == [deflator[d] EXCEPT !.step = "deferred"]
    <3>1. e \in Deflators /\ e.step = "deferred" /\ e.frag = deflator[d].frag
      BY <1>1 DEF Deflators
    <3>2. deflator' = [deflator EXCEPT ![d] = e] /\ UNCHANGED sharedVars
      BY <1>4, <2>2 DEF Place, MustDefer
    <3> HIDE DEF e
    <3>3. Types'
      BY <1>1, <1>4, <3>1, <3>2 DEF Place, Types, TypeOK
    <3>4. /\ \A c \in FragDeflators : deflator'[c].step # "idle" => deflator'[c].frag \in 0 .. fragments - 1
          /\ \A c \in FragDeflators : deflator'[c].step = "placed" => deflator'[c].frag \in DOMAIN fragTable
      BY <1>1, <2>1, <3>1, <3>2 DEF Known
    <3> QED BY <1>4, <3>2, <3>3, <3>4 DEF Place, Known
  <2>3. CASE ~locked
    <3> DEFINE e == [deflator[d] EXCEPT !.step = "placed"]
    <3>1. e \in Deflators /\ e.step = "placed" /\ e.frag = deflator[d].frag
      BY <1>1 DEF Deflators
    <3>2. deflator' = [deflator EXCEPT ![d] = e] /\ Assign(deflator[d].frag)
      BY <1>4, <2>3 DEF Place, MustDefer
    <3> HIDE DEF e
    <3>3. /\ bytes' \in Nat /\ outstanding' \in Nat
          /\ DOMAIN fragTable' = DOMAIN fragTable \cup {deflator[d].frag} /\ DOMAIN fragTable' \subseteq 0 .. fragments - 1
          /\ fragTable' \in [DOMAIN fragTable' -> Nat]
      BY <2>1, <3>2, AssignFacts
    <3>4. Types'
      BY <1>1, <1>4, <3>1, <3>2, <3>3 DEF Place, Types, TypeOK
    <3>5. \A c \in FragDeflators : deflator'[c].step # "idle" => deflator'[c].frag \in 0 .. fragments - 1
      BY <1>1, <2>1, <3>1, <3>2 DEF Known
    <3>6. \A c \in FragDeflators : deflator'[c].step = "placed" => deflator'[c].frag \in DOMAIN fragTable'
      BY <1>1, <3>1, <3>2, <3>3 DEF Known
    <3>7. IF pc' = "unlockput" THEN hand' \in DOMAIN fragTable' ELSE hand' = -1
      BY <1>4, <3>3 DEF Place, Known
    <3> QED BY <1>4, <3>2, <3>4, <3>5, <3>6, <3>7 DEF Place, Known
  <2> QED BY <2>2, <2>3
<1>5. CASE AddPending(d)
  <2>1. deflator[d].frag \in 0 .. fragments - 1
    BY <1>5 DEF AddPending, Known
  <2>2. pending' = Append(pending, deflator[d].frag) /\ deflator' = [deflator EXCEPT ![d] = Idle]
    BY <1>5 DEF AddPending
  <2>3. pending' \in Seq(Nat) /\ deflator' \in [FragDeflators -> Deflators]
    BY <1>1, <1>2, <2>1, <2>2
  <2>4. \A k \in 1 .. Len(pending') : pending'[k] < fragments
    <3> TAKE k \in 1 .. Len(pending')
    <3>1. CASE k \in 1 .. Len(pending)
      <4>1. pending'[k] = pending[k]
        BY <1>1, <2>1, <2>2, <3>1
      <4> QED BY <4>1, <3>1, Zenon DEF Known
    <3>2. CASE k \notin 1 .. Len(pending)
      <4>1. pending'[k] = deflator[d].frag
        BY <1>1, <2>1, <2>2, <3>2
      <4> QED BY <1>1, <4>1, <2>1
    <3> QED BY <3>1, <3>2
  <2>5. Types'
    BY <1>5, <2>3 DEF AddPending, Types, TypeOK
  <2>6. /\ \A c \in FragDeflators : deflator'[c].step # "idle" => deflator'[c].frag \in 0 .. fragments - 1
        /\ \A c \in FragDeflators : deflator'[c].step = "placed" => deflator'[c].frag \in DOMAIN fragTable
    BY <1>1, <1>2, <2>2 DEF Known
  <2> QED BY <1>5, <2>4, <2>5, <2>6 DEF AddPending, Known
<1>6. CASE PutPlaced(d)
  <2>1. deflator[d].frag \in DOMAIN fragTable /\ deflator[d].frag \in Nat /\ fragTable[deflator[d].frag] \in Nat
    BY <1>1, <1>6 DEF PutPlaced, Known
  <2>2. toWriter' \in Seq(Messages)
    BY <1>1, <1>6, <2>1, MessageFacts DEF PutPlaced
  <2>3. deflator' = [deflator EXCEPT ![d] = Idle] /\ deflator' \in [FragDeflators -> Deflators]
    BY <1>1, <1>2, <1>6 DEF PutPlaced
  <2>4. Types'
    BY <1>6, <2>2, <2>3 DEF PutPlaced, Types, TypeOK
  <2>5. /\ \A c \in FragDeflators : deflator'[c].step # "idle" => deflator'[c].frag \in 0 .. fragments - 1
        /\ \A c \in FragDeflators : deflator'[c].step = "placed" => deflator'[c].frag \in DOMAIN fragTable
    BY <1>1, <1>2, <2>3 DEF Known
  <2> QED BY <1>6, <2>4, <2>5 DEF PutPlaced, Known
<1> QED BY <1>3, <1>4, <1>5, <1>6

\* The blocks that a possible duplicate held back, as Unique gives them to the writer.
Held == [k \in 1 .. file.size - file.thresh |->
           LET b == file.thresh + k - 1 IN Buffer(BlockUnit(file, b), blockPos[b + 1])]
LEMMA HeldFacts ==
  ASSUME Types, Blocks, pc = "blocks", block = file.size
  PROVE  /\ Held \in Seq(Messages)
         /\ \A k \in 1 .. Len(Held) : /\ file.thresh + k \in 1 .. file.size /\ k <= file.size - file.thresh
                                     /\ Held[k] = Buffer(HandUnit(file.thresh + k)[2], HandUnit(file.thresh + k)[1])
         /\ \A b \in 1 .. file.size : b > file.thresh => b - file.thresh \in 1 .. Len(Held)
<1> DEFINE n == file.size - file.thresh
<1>1. /\ file \in Files /\ file.size \in Nat /\ file.thresh \in Nat /\ blockPos \in Seq(Nat) /\ Len(blockPos) = file.size
      /\ n \in Int
  BY DEF Types, Files, Blocks
<1>2. \A k \in 1 .. n : /\ file.thresh + k \in 1 .. file.size /\ k <= n
                        /\ Held[k] = Buffer(HandUnit(file.thresh + k)[2], HandUnit(file.thresh + k)[1])
                        /\ Held[k] \in Messages
  <2> TAKE k \in 1 .. n
  <2>1. \A s, t \in Nat : k \in 1 .. s - t => /\ t + k - 1 \in Nat /\ (t + k - 1) + 1 = t + k
                                           /\ (t + k) - 1 = t + k - 1 /\ t + k \in 1 .. s /\ k <= s - t
    OBVIOUS
  <2>2. /\ (file.thresh + k) - 1 = file.thresh + k - 1 /\ file.thresh + k - 1 \in Nat /\ (file.thresh + k - 1) + 1 = file.thresh + k
        /\ file.thresh + k \in 1 .. Len(blockPos) /\ k <= n
    BY <1>1, <2>1
  <2>3. blockPos[file.thresh + k] \in Nat
    <3>1. \A j \in 1 .. Len(blockPos) : blockPos[j] \in Nat
      BY <1>1
    <3> QED BY <2>2, <3>1, Zenon
  <2>4. Held[k] = Buffer(BlockUnit(file, file.thresh + k - 1), blockPos[file.thresh + k])
    <3>1. Held[k] = Buffer(BlockUnit(file, file.thresh + k - 1), blockPos[(file.thresh + k - 1) + 1])
      BY DEF Held
    <3> QED BY <2>2, <3>1
  <2>5. Held[k] \in Messages
    BY <1>1, <2>2, <2>3, <2>4, MessageFacts, Zenon
  <2>6. HandUnit(file.thresh + k)[1] = blockPos[file.thresh + k] /\ HandUnit(file.thresh + k)[2] = BlockUnit(file, file.thresh + k - 1)
    BY <2>2 DEF HandUnit
  <2> QED BY <1>1, <2>2, <2>4, <2>5, <2>6
<1>3. CASE n \in Nat
  <2>1. Held \in [1 .. n -> Messages]
    BY <1>2 DEF Held
  <2>2. Held \in Seq(Messages)
    <3> HIDE DEF n
    <3> QED BY <1>3, <2>1, SeqDef
  <2>3. Len(Held) = n
    <3> HIDE DEF n
    <3> QED BY <1>3, <2>1
  <2>4. \A b \in 1 .. file.size : b > file.thresh => b - file.thresh \in 1 .. n
    BY <1>1
  <2> HIDE DEF n
  <2>5. \A k \in 1 .. n : k <= n
    BY <1>3
  <2> QED BY <1>2, <2>2, <2>3, <2>4 DEF n
<1>4. CASE n \notin Nat
  <2>1. 1 .. n = 1 .. 0 /\ \A b \in 1 .. file.size : ~(b > file.thresh)
    BY <1>1, <1>4
  <2>2. Held = <<>> /\ <<>> \in Seq(Messages) /\ Len(<<>>) = 0
    BY <2>1 DEF Held
  <2> QED BY <2>1, <2>2
<1> QED BY <1>3, <1>4

LEMMA TypesPlaces ==
  ASSUME Types, Known, OutstandingCounted, Blocks,
         WriteBlock \/ EndBlocks \/ Unique \/ UnlockPlace \/ UnlockPut \/ Write
  PROVE  Types' /\ Known'
<1>1. /\ toFrag \in Seq(Nat) /\ pending \in Seq(Nat) /\ fragments \in Nat /\ toWriter \in Seq(Messages) /\ bytes \in Nat
      /\ fragTable \in [DOMAIN fragTable -> Nat] /\ DOMAIN fragTable \subseteq 0 .. fragments - 1
      /\ file \in Files /\ block \in Nat /\ blockPos \in Seq(Nat) /\ committed \subseteq Nat \X Block
      /\ file.size \in Nat /\ file.thresh \in Nat
  BY DEF Types, TypeOK, Files
<1> USE DEF fragVars, sharedVars, mainVars, fileVars
<1>2. ASSUME pc = "blocks", block = file.size PROVE Commit => committed' \subseteq Nat \X Block
  <2>1. Len(blockPos) = file.size
    BY <1>2 DEF Blocks
  <2>2. \A b \in 0 .. file.size - 1 : blockPos[b + 1] \in Nat /\ BlockUnit(file, b) \in Block
    <3> TAKE b \in 0 .. file.size - 1
    <3>1. b + 1 \in 1 .. Len(blockPos) /\ b \in Nat
      BY <1>1, <2>1
    <3> QED BY SMTT(30), <1>1, <3>1, MessageFacts
  <2> QED BY <1>1, <2>2 DEF Commit
<1>3. CASE WriteBlock
  <2>1. /\ blockPos' = Append(blockPos, bytes) /\ bytes' = bytes + 1 /\ block' = block + 1
        /\ toWriter' = IF block < file.thresh THEN Append(toWriter, Buffer(BlockUnit(file, block), bytes)) ELSE toWriter
    BY <1>3 DEF WriteBlock
  <2>2. blockPos' \in Seq(Nat) /\ bytes' \in Nat /\ block' \in Nat
    BY SMTT(30), <1>1, <2>1
  <2>3. toWriter' \in Seq(Messages)
    BY <1>1, <2>1, MessageFacts
  <2> QED BY <1>3, <2>2, <2>3 DEF WriteBlock, Types, TypeOK, Known
<1>4. CASE EndBlocks
  <2>1. committed' \subseteq Nat \X Block
    BY <1>2, <1>4 DEF EndBlocks, BlocksDone
  <2>2. after' \in {"fill", "next"}
    BY <1>4 DEF EndBlocks
  <2> QED BY <1>4, <2>1, <2>2 DEF EndBlocks, BlocksDone, Types, TypeOK, Known
<1>5. CASE Unique
  <2>1. committed' \subseteq Nat \X Block
    BY <1>2, <1>5 DEF Unique, BlocksDone
  <2>5. toWriter' = toWriter \o Held
    BY <1>5 DEF Unique, FirstHeld, Held
  <2>6. toWriter' \in Seq(Messages)
    <3>1. Held \in Seq(Messages)
      BY <1>5, HeldFacts DEF Unique, BlocksDone
    <3> QED BY <1>1, <2>5, <3>1
  <2>7. KnownButHand' /\ fill' \in 0 .. PerFragment /\ outstanding' \in Nat /\ fragments' \in Nat /\ toFrag' \in Seq(Nat)
        /\ DOMAIN fragTable' \subseteq 0 .. fragments' - 1
    <3>1. CASE file.tail
      BY <1>5, <3>1, FillKnown DEF Unique
    <3>2. CASE ~file.tail
      <4>1. UNCHANGED <<fill, outstanding, toFrag, fragments, fragTable, pending, deflator>>
        BY <1>5, <3>2 DEF Unique
      <4> QED BY <4>1 DEF Types, TypeOK, Known, KnownButHand
    <3> QED BY <3>1, <3>2
  <2> QED BY <1>5, <2>1, <2>6, <2>7 DEF Unique, BlocksDone, Types, TypeOK, Known, KnownButHand
<1>6. CASE UnlockPlace
  <2> DEFINE f == Head(pending)
  <2>1. pending # <<>> /\ f = pending[1] /\ 1 \in 1 .. Len(pending) /\ f \in Nat
    BY <1>1, <1>6, TailFacts DEF UnlockPlace
  <2>2. f \in 0 .. fragments - 1 /\ outstanding > 0
    <3>1. pending[1] < fragments
      BY <2>1 DEF Known
    <3> QED BY <1>1, <2>1, <3>1, SomeOutstanding
  <2>3. Assign(f) /\ hand' = f /\ pending' = Tail(pending)
    BY <1>6 DEF UnlockPlace
  <2> HIDE DEF f
  <2>4. /\ bytes' \in Nat /\ outstanding' \in Nat
        /\ DOMAIN fragTable' = DOMAIN fragTable \cup {f} /\ DOMAIN fragTable' \subseteq 0 .. fragments - 1
        /\ fragTable' \in [DOMAIN fragTable' -> Nat]
    BY <2>2, <2>3, AssignFacts
  <2>5. pending' \in Seq(Nat) /\ \A k \in 1 .. Len(pending') : k + 1 \in 1 .. Len(pending) /\ pending'[k] = pending[k + 1]
    BY <1>1, <2>1, <2>3, TailFacts
  <2>6. \A k \in 1 .. Len(pending') : pending'[k] < fragments
    BY <2>5, Zenon DEF Known
  <2>7. Types'
    BY <1>6, <2>4, <2>5 DEF UnlockPlace, Types, TypeOK
  <2>8. \A c \in FragDeflators : deflator'[c].step = "placed" => deflator'[c].frag \in DOMAIN fragTable'
    BY <1>6, <2>4 DEF UnlockPlace, Known
  <2> QED BY <1>6, <2>3, <2>4, <2>6, <2>7, <2>8 DEF UnlockPlace, Known
<1>7. CASE UnlockPut
  <2>1. hand \in DOMAIN fragTable /\ hand \in Nat /\ fragTable[hand] \in Nat
    BY <1>1, <1>7 DEF UnlockPut, Known
  <2>2. toWriter' \in Seq(Messages)
    BY <1>1, <1>7, <2>1, MessageFacts DEF UnlockPut
  <2> QED BY <1>7, <2>2 DEF UnlockPut, Types, TypeOK, Known
<1>8. CASE Write
  <2>1. toWriter' \in Seq(Messages) /\ fromWriter' \in BOOLEAN
    <3>1. toWriter # <<>> /\ toWriter' = Tail(toWriter) /\ (fromWriter' = TRUE \/ fromWriter' = fromWriter)
      BY <1>8 DEF Write
    <3>2. Tail(toWriter) \in Seq(Messages)
      BY <1>1, <3>1, TailFacts
    <3>3. fromWriter \in BOOLEAN
      BY DEF Types, TypeOK
    <3> QED BY <3>1, <3>2, <3>3
  <2> QED BY <1>8, <2>1 DEF Write, Types, TypeOK, Known
<1> QED BY <1>3, <1>4, <1>5, <1>6, <1>7, <1>8

LEMMA TypesStep ==
  ASSUME Types, Known, OutstandingCounted, Blocks, Next
  PROVE  Types' /\ Known'
BY Cases, TypesMain, TypesDeflator, TypesPlaces

-----------------------------------------------------------------------------
(* Places.                                                                 *)

\* While a file is written its blocks take all the places from its start on: the lock
\* keeps the deflators away.
LEMMA BlocksStep ==
  ASSUME Types, Blocks, Next
  PROVE  Blocks'
<1>1. /\ file \in Files /\ block \in Nat /\ blockPos \in Seq(Nat) /\ bytes \in Nat /\ file.start \in Nat /\ file.size \in Nat
  BY DEF Types, TypeOK, Files
<1> USE DEF fragVars, sharedVars, mainVars, fileVars
<1>2. CASE BlocksFile
  <2>1. PICK size \in Sizes, tail \in BOOLEAN, dup \in BOOLEAN :
               file' = [number |-> file.number + 1, size |-> size, tail |-> tail, dup |-> dup,
                        start |-> bytes, thresh |-> IF dup THEN Thresh(size) ELSE size]
    BY <1>2 DEF BlocksFile
  <2>2. file'.size \in Nat /\ file'.start = bytes /\ (~file'.dup => file'.thresh = file'.size)
    BY <2>1, FragmentsAssumption
  <2>3. block' = 0 /\ blockPos' = <<>> /\ locked' = TRUE /\ bytes' = bytes
    BY <1>2 DEF BlocksFile
  <2>4. Len(blockPos') = 0 /\ bytes' = file'.start + block' /\ block' <= file'.size
    BY <1>1, <2>2, <2>3
  <2> QED BY <2>2, <2>3, <2>4 DEF Blocks
<1>3. CASE WriteBlock
  <2>1. /\ pc = "blocks" /\ block < file.size /\ blockPos' = Append(blockPos, bytes) /\ bytes' = bytes + 1
        /\ block' = block + 1 /\ file' = file /\ locked' = locked
    BY <1>3 DEF WriteBlock
  <2>2. /\ locked /\ bytes = file.start + block /\ Len(blockPos) = block /\ \A b \in 1 .. block : blockPos[b] = file.start + b - 1
        /\ ~file.dup => file.thresh = file.size
    BY <2>1 DEF Blocks
  <2>3. Len(blockPos') = block' /\ bytes' = file'.start + block' /\ block' <= file'.size
    <3>1. Len(blockPos') = block'
      BY <1>1, <2>1, <2>2
    <3>2. bytes = file.start + block
      BY <2>2
    <3> QED BY <1>1, <2>1, <3>1, <3>2
  <2>4. \A b \in 1 .. block' : blockPos'[b] = file'.start + b - 1
    <3> TAKE b \in 1 .. block'
    <3>1. CASE b \in 1 .. block
      <4>1. blockPos'[b] = blockPos[b]
        BY <1>1, <2>1, <2>2, <3>1
      <4> QED BY <2>1, <2>2, <3>1, <4>1, Zenon
    <3>2. CASE b \notin 1 .. block
      <4>1. b = block + 1
        BY <1>1, <2>1, <3>2
      <4>2. blockPos'[b] = bytes
        BY <1>1, <2>1, <2>2, <4>1
      <4>3. \A s, n \in Nat : s + n = s + (n + 1) - 1
        OBVIOUS
      <4> QED BY <1>1, <2>1, <2>2, <4>1, <4>2, <4>3, Zenon
    <3> QED BY <3>1, <3>2
  <2> QED BY <2>1, <2>2, <2>3, <2>4 DEF Blocks
<1>4. CASE Turn
  BY <1>4 DEF Turn, Blocks
<1>5. CASE SmallFile \/ EndBlocks \/ Fill \/ Unique \/ Truncate \/ UnlockPlace \/ UnlockPut \/ LastFragment \/ Drain \/ RollBack
  BY <1>5 DEF SmallFile, EndBlocks, Fill, Unique, Truncate, UnlockPlace, UnlockPut, LastFragment, Drain, RollBack, Blocks
<1>6. ASSUME NEW d \in FragDeflators, Compress(d) \/ Place(d) \/ AddPending(d) \/ PutPlaced(d) PROVE Blocks'
  <2>1. UNCHANGED <<pc, locked, file, block, blockPos>> /\ (locked => bytes' = bytes)
    BY <1>6 DEF Compress, Place, MustDefer, AddPending, PutPlaced
  <2> QED BY <2>1 DEF Blocks
<1>7. CASE Write
  BY <1>7 DEF Write, Blocks
<1> QED BY <1>2, <1>3, <1>4, <1>5, <1>6, <1>7, Cases

LEMMA FixedFacts ==
  ASSUME Types, NEW u \in Fixed
  PROVE  u[1] \in Nat /\ u = <<u[1], u[2]>> /\ (u \in PlacedFragments \/ u[2][1] = "block")
<1>1. CASE u \in PlacedFragments
  <2>1. PICK f \in DOMAIN fragTable : u = <<fragTable[f], FragUnit(f)>>
    BY <1>1 DEF PlacedFragments
  <2> QED BY <1>1, <2>1 DEF Types
<1>2. CASE u \in committed
  <2>1. u \in Nat \X Block
    BY <1>2 DEF Types
  <2> QED BY <2>1 DEF Block
<1> QED BY <1>1, <1>2 DEF Fixed

\* A fragment has one place.
LEMMA PlacedFacts ==
  ASSUME Types
  PROVE  \A u \in Fixed, f \in Nat : u[2] = FragUnit(f) => f \in DOMAIN fragTable /\ u = <<fragTable[f], FragUnit(f)>>
<1> TAKE u \in Fixed, f \in Nat
<1>1. SUFFICES ASSUME u[2] = FragUnit(f) PROVE f \in DOMAIN fragTable /\ u = <<fragTable[f], FragUnit(f)>>
  OBVIOUS
<1>2. u \in PlacedFragments
  BY <1>1, FixedFacts DEF FragUnit
<1>3. PICK g \in DOMAIN fragTable : u = <<fragTable[g], FragUnit(g)>>
  BY <1>2 DEF PlacedFragments
<1>4. g = f
  BY <1>1, <1>3 DEF FragUnit
<1> QED BY <1>3, <1>4

\* The block of the file in hand at each place from its start on.
LEMMA HandFacts ==
  ASSUME Types, Blocks, pc = "blocks", NEW b \in 1 .. block
  PROVE  /\ HandUnit(b)[1] = file.start + b - 1 /\ HandUnit(b)[2] = BlockUnit(file, b - 1)
         /\ HandUnit(b)[1] \in Nat /\ HandUnit(b)[1] >= file.start /\ HandUnit(b)[1] < bytes
<1>1. block \in Nat /\ file.start \in Nat /\ bytes = file.start + block /\ blockPos[b] = file.start + b - 1
  BY DEF Types, TypeOK, Files, Blocks
<1>2. \A s, n \in Nat : b \in 1 .. n => s + b - 1 \in Nat /\ s + b - 1 >= s /\ s + b - 1 < s + n
  OBVIOUS
<1> QED BY <1>1, <1>2 DEF HandUnit

\* What EndBlocks and Unique add to the file system.
LEMMA CommitFacts ==
  ASSUME Types, Blocks, pc = "blocks", block = file.size, Commit, UNCHANGED fragTable
  PROVE  Fixed' = Fixed \cup {HandUnit(b) : b \in 1 .. file.size}
<1>1. file.size \in Nat
  BY DEF Types, Files
<1>2. {<<blockPos[b + 1], BlockUnit(file, b)>> : b \in 0 .. file.size - 1} = {HandUnit(b) : b \in 1 .. file.size}
  <2>1. ASSUME NEW b \in 0 .. file.size - 1
        PROVE  <<blockPos[b + 1], BlockUnit(file, b)>> \in {HandUnit(c) : c \in 1 .. file.size}
    <3>1. b + 1 \in 1 .. file.size /\ (b + 1) - 1 = b
      BY <1>1
    <3>2. <<blockPos[b + 1], BlockUnit(file, b)>> = HandUnit(b + 1)
      BY <3>1 DEF HandUnit
    <3> QED BY <3>1, <3>2, Zenon
  <2>2. ASSUME NEW b \in 1 .. file.size
        PROVE  HandUnit(b) \in {<<blockPos[c + 1], BlockUnit(file, c)>> : c \in 0 .. file.size - 1}
    <3>1. b - 1 \in 0 .. file.size - 1 /\ (b - 1) + 1 = b
      BY <1>1
    <3>2. HandUnit(b) = <<blockPos[(b - 1) + 1], BlockUnit(file, b - 1)>>
      BY <3>1 DEF HandUnit
    <3> QED BY <3>1, <3>2, Zenon
  <2> QED BY <2>1, <2>2
<1>3. committed' = committed \cup {HandUnit(b) : b \in 1 .. file.size}
  BY <1>2 DEF Commit
<1> QED BY <1>3 DEF Fixed, PlacedFragments

\* What giving a fragment its place adds.
LEMMA AssignFixed ==
  ASSUME Types, OutstandingCounted, NEW f \in 0 .. fragments - 1, Assign(f), outstanding > 0, UNCHANGED committed
  PROVE  \A u \in Fixed' : (u \in Fixed /\ u[2] # FragUnit(f)) \/ u = <<bytes, FragUnit(f)>>
<1> TAKE u \in Fixed'
<1>1. /\ DOMAIN fragTable' = DOMAIN fragTable \cup {f} /\ fragTable'[f] = bytes
      /\ \A g \in DOMAIN fragTable : g # f => fragTable'[g] = fragTable[g]
  BY AssignFacts
<1>2. CASE u \in PlacedFragments'
  <2>1. PICK g \in DOMAIN fragTable' : u = <<fragTable'[g], FragUnit(g)>>
    BY <1>2 DEF PlacedFragments
  <2>2. CASE g = f
    BY <1>1, <2>1, <2>2
  <2>3. CASE g # f
    <3>1. g \in DOMAIN fragTable /\ u = <<fragTable[g], FragUnit(g)>>
      BY <1>1, <2>1, <2>3
    <3>2. u \in Fixed
      BY <3>1 DEF Fixed, PlacedFragments
    <3> QED BY <2>3, <3>1, <3>2 DEF FragUnit
  <2> QED BY <2>2, <2>3
<1>3. CASE u \in committed
  <2>1. u \in Fixed /\ u \in Nat \X Block
    BY <1>3 DEF Fixed, Types
  <2> QED BY <2>1 DEF Block, FragUnit
<1> QED BY <1>2, <1>3 DEF Fixed

LEMMA ApartStep ==
  ASSUME Types, Known, OutstandingCounted, Blocks, Apart, Next
  PROVE  Apart'
<1> USE DEF fragVars, sharedVars, mainVars, fileVars
<1>1. bytes \in Nat /\ file.start \in Nat /\ block \in Nat /\ bytes' \in Nat
  <2>1. Types'
    BY TypesStep
  <2> QED BY <2>1 DEF Types, TypeOK, Files
<1>2. /\ pc = "blocks" => Base = file.start /\ bytes = file.start + block
      /\ pc # "blocks" => Base = bytes
  BY DEF Base, Blocks
<1>3. \A u \in Fixed : u[1] \in Nat /\ u[1] < Base
  BY FixedFacts DEF Apart
<1>4. Base \in Nat /\ Base <= bytes
  BY <1>1, <1>2
<1>5. ASSUME UNCHANGED <<fragTable, committed>>, Base' \in Nat, Base' >= Base
      PROVE  Apart'
  <2>1. Fixed' = Fixed
    BY <1>5 DEF Fixed, PlacedFragments
  <2>2. \A n \in Nat : n < Base => n < Base'
    BY <1>4, <1>5
  <2>3. \A u \in Fixed : u[1] < Base'
    BY <1>3, <2>2
  <2> QED BY <2>1, <2>3 DEF Apart
<1>6. ASSUME NEW f \in 0 .. fragments - 1, Assign(f), outstanding > 0, UNCHANGED committed, pc # "blocks", pc' # "blocks"
      PROVE  Apart'
  <2>1. \A u \in Fixed' : (u \in Fixed /\ u[2] # FragUnit(f)) \/ u = <<bytes, FragUnit(f)>>
    BY <1>6, AssignFixed
  <2>2. Base = bytes /\ Base' = bytes + 1
    BY <1>6 DEF Base, Assign
  <2>3. \A u \in Fixed : u[1] # bytes /\ u[1] < Base'
    BY <1>1, <1>3, <2>2
  <2>4. bytes < Base'
    BY <1>1, <2>2
  <2>5. \A u, v \in Fixed' : u[1] = v[1] => u = v
    BY <2>1, <2>3 DEF Apart
  <2>6. \A u \in Fixed' : u[1] < Base'
    BY <2>1, <2>3, <2>4
  <2> QED BY <2>5, <2>6 DEF Apart
<1>7. ASSUME pc = "blocks", block = file.size, Commit, UNCHANGED <<fragTable, bytes>>, pc' # "blocks"
      PROVE  Apart'
  <2>1. Fixed' = Fixed \cup {HandUnit(b) : b \in 1 .. file.size}
    BY <1>7, CommitFacts
  <2>2. Base = file.start /\ Base' = bytes
    BY <1>7 DEF Base
  <2>3. \A b \in 1 .. file.size : /\ HandUnit(b)[1] = file.start + b - 1 /\ HandUnit(b)[1] \in Nat
                                  /\ HandUnit(b)[1] >= Base /\ HandUnit(b)[1] < Base'
    BY <1>7, <2>2, HandFacts
  <2>4. \A b, c \in 1 .. file.size : HandUnit(b)[1] = HandUnit(c)[1] => b = c
    <3> TAKE b, c \in 1 .. file.size
    <3>1. HandUnit(b)[1] = file.start + b - 1 /\ HandUnit(c)[1] = file.start + c - 1
      BY <2>3
    <3>2. \A s \in Nat : s + b - 1 = s + c - 1 => b = c
      OBVIOUS
    <3> QED BY <1>1, <3>1, <3>2, Zenon
  <2>5. \A u \in Fixed, b \in 1 .. file.size : u[1] # HandUnit(b)[1]
    <3> TAKE u \in Fixed, b \in 1 .. file.size
    <3>1. HandUnit(b)[1] \in Nat /\ HandUnit(b)[1] >= Base
      BY <2>3
    <3>2. u[1] \in Nat /\ u[1] < Base
      BY <1>3
    <3> QED BY <1>4, <3>1, <3>2
  <2>6. \A u \in Fixed : u[1] < Base'
    <3> TAKE u \in Fixed
    <3>1. u[1] \in Nat /\ u[1] < Base
      BY <1>3
    <3> QED BY <1>1, <1>4, <2>2, <3>1
  <2>7. \A u, v \in Fixed' : u[1] = v[1] => u = v
    BY <2>1, <2>4, <2>5 DEF Apart
  <2>8. \A u \in Fixed' : u[1] < Base'
    BY <2>1, <2>3, <2>6
  <2> QED BY <2>7, <2>8 DEF Apart
<1>8. CASE EndBlocks \/ Unique
  BY <1>7, <1>8 DEF EndBlocks, Unique, BlocksDone
<1>9. CASE UnlockPlace
  <2>1. pending # <<>> /\ pending \in Seq(Nat) /\ fragments \in Nat
    BY <1>9 DEF UnlockPlace, Types
  <2>2. Head(pending) = pending[1] /\ pending[1] \in Nat /\ 1 \in 1 .. Len(pending)
    BY <2>1, TailFacts
  <2>3. pending[1] < fragments
    BY <2>2 DEF Known
  <2>4. Head(pending) \in 0 .. fragments - 1 /\ outstanding > 0
    BY <2>1, <2>2, <2>3, SomeOutstanding
  <2> QED BY <1>6, <1>9, <2>4 DEF UnlockPlace
<1>10. ASSUME NEW d \in FragDeflators, Place(d), ~locked PROVE Apart'
  <2>1. Assign(deflator[d].frag) /\ deflator[d].frag \in 0 .. fragments - 1 /\ outstanding > 0
    BY <1>10, SomeOutstanding DEF Place, MustDefer, Known
  <2>2. pc # "blocks" /\ pc' = pc /\ committed' = committed
    BY <1>10 DEF Place, Blocks
  <2> QED BY <1>6, <2>1, <2>2
<1>11. ASSUME NEW d \in FragDeflators, Compress(d) \/ (Place(d) /\ locked) \/ AddPending(d) \/ PutPlaced(d) PROVE Apart'
  <2>1. UNCHANGED <<fragTable, committed, bytes, pc, file>>
    BY <1>11 DEF Compress, Place, MustDefer, AddPending, PutPlaced
  <2>2. Base' = Base
    BY <2>1 DEF Base
  <2> QED BY <1>4, <1>5, <2>1, <2>2
<1>12. CASE (pc \in {"next", "again"} /\ (SmallFile \/ BlocksFile)) \/ Turn \/ Fill \/ Truncate \/ UnlockPut \/ LastFragment \/ Drain \/ Write
            \/ WriteBlock \/ (pc = "blocks" /\ RollBack)
  <2>1. UNCHANGED <<fragTable, committed>> /\ Base' = Base
    <3>1. CASE WriteBlock
      BY <3>1 DEF WriteBlock, Base
    <3>2. CASE RollBack /\ pc = "blocks"
      BY <3>2 DEF RollBack, Base
    <3>3. CASE pc \in {"next", "again"} /\ BlocksFile
      BY <3>3 DEF BlocksFile, Base
    <3>4. CASE (pc \in {"next", "again"} /\ SmallFile) \/ Turn \/ Fill \/ Truncate \/ UnlockPut \/ LastFragment \/ Drain \/ Write
      BY <3>4 DEF SmallFile, Turn, Fill, Truncate, UnlockPut, LastFragment, Drain, Write, Base
    <3> QED BY <1>12, <3>1, <3>2, <3>3, <3>4
  <2> QED BY <1>4, <1>5, <2>1
<1> QED BY <1>8, <1>9, <1>10, <1>11, <1>12, Cases

-----------------------------------------------------------------------------
(* The way to the destination.                                             *)

\* A buffer for a fragment with a place goes to the writer.
LEMMA PutFacts ==
  ASSUME Types, Apart, NEW f \in DOMAIN fragTable, toWriter' = Append(toWriter, Buffer(FragUnit(f), fragTable[f])),
         UNCHANGED disk
  PROVE  /\ \A u \in Fixed : (Sent(toWriter, disk, u) \/ u[2] = FragUnit(f)) => Sent(toWriter', disk', u)
         /\ \A u : u[1] # fragTable[f] /\ Sent(toWriter, disk, u) => Sent(toWriter', disk', u)
<1>1. /\ toWriter \in Seq(Messages) /\ f \in Nat /\ Buffer(FragUnit(f), fragTable[f]) \in Messages
      /\ <<fragTable[f], FragUnit(f)>> \in Fixed
  <2>1. toWriter \in Seq(Messages) /\ f \in Nat /\ fragTable[f] \in Nat
    BY DEF Types, TypeOK
  <2> QED BY <2>1, MessageFacts DEF Fixed, PlacedFragments
<1>2. \A u : u[1] # fragTable[f] => ~At(Buffer(FragUnit(f), fragTable[f]), u[1])
  BY BufferFacts DEF At
<1>3. \A u : u[1] # fragTable[f] /\ Sent(toWriter, disk, u) => Sent(toWriter', disk', u)
  <2> TAKE u
  <2> QED BY <1>1, <1>2, SentAppend
<1>4. ASSUME NEW u \in Fixed, Sent(toWriter, disk, u) \/ u[2] = FragUnit(f) PROVE Sent(toWriter', disk', u)
  <2>1. CASE u = <<fragTable[f], FragUnit(f)>>
    <3>1. Buffer(FragUnit(f), fragTable[f]) = Buffer(u[2], u[1])
      BY <2>1
    <3> QED BY <1>1, <3>1, SentAppend
  <2>2. CASE u # <<fragTable[f], FragUnit(f)>>
    <3>1. u[1] # fragTable[f]
      BY <1>1, <2>2 DEF Apart
    <3>2. u[2] # FragUnit(f)
      BY <1>1, <2>2, PlacedFacts
    <3> QED BY <1>3, <1>4, <3>1, <3>2
  <2> QED BY <2>1, <2>2
<1> QED BY <1>3, <1>4

\* The two parts of OnWay.
OnWayFixed == \A u \in Fixed : Sent(toWriter, disk, u) \/ ToPut(u)
OnWayHand == pc = "blocks" => \A b \in 1 .. block : b <= file.thresh => Sent(toWriter, disk, HandUnit(b))

\* Steps that put no block and give no place.
LEMMA OnWayMain ==
  ASSUME Types, Apart, OnWay,
         \/ Turn
         \/ pc \in {"next", "again"} /\ (SmallFile \/ BlocksFile)
         \/ Fill \/ Truncate \/ LastFragment \/ Drain
         \/ pc = "blocks" /\ RollBack
  PROVE  OnWay'
<1> USE DEF fragVars, sharedVars, mainVars, fileVars
<1>1. toWriter \in Seq(Messages) /\ Flush \in Messages /\ \A p : ~At(Flush, p)
  BY MessageFacts DEF Types, At
<1>2. UNCHANGED <<fragTable, committed, deflator, hand>>
  BY DEF Turn, SmallFile, BlocksFile, Fill, Truncate, LastFragment, Drain, RollBack
<1>3. Fixed' = Fixed /\ \A u : ToPut(u)' <=> ToPut(u)
  BY <1>2 DEF Fixed, PlacedFragments, ToPut
<1>4. \A u : Sent(toWriter, disk, u) => Sent(Append(toWriter, Flush), disk, u)
  BY <1>1, SentAppend
<1>5. \A u \in Fixed : Sent(toWriter, disk, u) => Sent(toWriter', disk', u)
  <2>1. CASE Truncate
    <3>1. toWriter' = toWriter /\ disk' = [p \in {r \in DOMAIN disk : r < bytes} |-> disk[p]] /\ Base = bytes
      BY <2>1 DEF Truncate, Cut, Base
    <3>2. \A u \in Fixed : u[1] < bytes
      BY <3>1 DEF Apart
    <3> QED BY <3>1, <3>2, SentCut
  <2>2. CASE ~Truncate
    <3>1. disk' = disk /\ (toWriter' = toWriter \/ toWriter' = Append(toWriter, Flush))
      BY <2>2 DEF Turn, SmallFile, BlocksFile, Fill, LastFragment, Drain, RollBack
    <3> QED BY <1>4, <3>1
  <2> QED BY <2>1, <2>2
<1>6. OnWayFixed'
  <2>1. \A u \in Fixed' : Sent(toWriter', disk', u) \/ ToPut(u)'
    BY <1>3, <1>5, Zenon DEF OnWay
  <2> QED BY <2>1, Zenon DEF OnWayFixed
<1>7. OnWayHand'
  <2>1. pc' # "blocks" \/ block' = 0
    BY DEF Turn, SmallFile, BlocksFile, Fill, Truncate, LastFragment, Drain, RollBack
  <2> QED BY <2>1 DEF OnWayHand
<1> QED BY <1>6, <1>7, Zenon DEF OnWay, OnWayFixed, OnWayHand

\* A fragment takes its place and is still to be put.
LEMMA OnWayAssign ==
  ASSUME Types, OutstandingCounted, OnWay, NEW f \in 0 .. fragments - 1, Assign(f), outstanding > 0,
         UNCHANGED <<committed, toWriter, disk>>, pc' # "blocks",
         \A u : ToPut(u) => ToPut(u)', \A u : u[2] = FragUnit(f) => ToPut(u)'
  PROVE  OnWay'
<1>1. \A u \in Fixed' : u \in Fixed \/ u = <<bytes, FragUnit(f)>>
  BY AssignFixed
<1>2. \A u \in Fixed' : Sent(toWriter', disk', u) \/ ToPut(u)'
  <2> TAKE u \in Fixed'
  <2> USE DEF OnWay
  <2>1. CASE u \in Fixed
    <3>1. Sent(toWriter, disk, u) \/ ToPut(u)
      BY <2>1
    <3>2. toWriter' = toWriter /\ disk' = disk
      OBVIOUS
    <3> QED BY <3>1, <3>2, Zenon
  <2>2. CASE u = <<bytes, FragUnit(f)>>
    BY <2>2
  <2> QED BY <1>1, <2>1, <2>2
<1> QED BY <1>2, Zenon DEF OnWay

LEMMA OnWayDeflator ==
  ASSUME Types, Known, OutstandingCounted, Blocks, Apart, OnWay, NEW d \in FragDeflators,
         Compress(d) \/ Place(d) \/ AddPending(d) \/ PutPlaced(d)
  PROVE  OnWay'
<1> USE DEF fragVars, sharedVars, mainVars, fileVars
<1>1. deflator \in [FragDeflators -> Deflators]
  BY DEF Types
<1>2. CASE Compress(d) \/ (Place(d) /\ locked) \/ AddPending(d)
  <2>1. UNCHANGED <<fragTable, committed, hand, toWriter, disk, pc, block, blockPos, file>>
    BY <1>2 DEF Compress, Place, MustDefer, AddPending
  <2>2. deflator[d].step # "placed" /\ \A c \in FragDeflators : c # d => deflator'[c] = deflator[c]
    BY <1>1, <1>2 DEF Compress, Place, MustDefer, AddPending
  <2>3. Fixed' = Fixed /\ \A b : HandUnit(b)' = HandUnit(b)
    BY <2>1 DEF Fixed, PlacedFragments, HandUnit, BlockUnit
  <2>4. \A u : ToPut(u) => ToPut(u)'
    BY <2>1, <2>2 DEF ToPut
  <2>5. \A u \in Fixed' : Sent(toWriter', disk', u) \/ ToPut(u)'
    BY <2>1, <2>3, <2>4, Zenon DEF OnWay
  <2>6. pc' = "blocks" => \A b \in 1 .. block' : b <= file'.thresh => Sent(toWriter', disk', HandUnit(b)')
    BY <2>1, <2>3, Zenon DEF OnWay
  <2> QED BY <2>5, <2>6, Zenon DEF OnWay
<1>3. CASE Place(d) /\ ~locked
  <2> DEFINE f == deflator[d].frag
  <2>1. /\ deflator[d].step = "compressed" /\ f \in 0 .. fragments - 1 /\ outstanding > 0 /\ Assign(f)
        /\ deflator' = [deflator EXCEPT ![d].step = "placed"]
    BY <1>3, SomeOutstanding DEF Place, MustDefer, Known
  <2>2. UNCHANGED <<committed, toWriter, disk>> /\ hand' = hand /\ pc' # "blocks"
    BY <1>3 DEF Place, Blocks
  <2>3. \A u : ToPut(u) => ToPut(u)'
    BY <1>1, <2>1, <2>2 DEF ToPut
  <2>4. deflator'[d].step = "placed" /\ deflator'[d].frag = f
    BY <1>1, <2>1 DEF Deflators
  <2>5. \A u : u[2] = FragUnit(f) => ToPut(u)'
    BY <2>4 DEF ToPut
  <2> HIDE DEF f
  <2> QED BY <2>1, <2>2, <2>3, <2>5, OnWayAssign, Zenon
<1>4. CASE PutPlaced(d)
  <2> DEFINE f == deflator[d].frag
  <2>1. /\ deflator[d].step = "placed" /\ f \in DOMAIN fragTable
        /\ toWriter' = Append(toWriter, Buffer(FragUnit(f), fragTable[f]))
        /\ deflator' = [deflator EXCEPT ![d] = Idle]
        /\ UNCHANGED <<fragTable, committed, hand, disk, pc, block, blockPos, file>>
    BY <1>4 DEF PutPlaced, Known
  <2>2. \A c \in FragDeflators : c # d => deflator'[c] = deflator[c]
    BY <1>1, <2>1
  <2>3. \A u : ToPut(u) => ToPut(u)' \/ u[2] = FragUnit(f)
    BY <2>1, <2>2 DEF ToPut
  <2> HIDE DEF f
  <2>4. /\ \A u \in Fixed : (Sent(toWriter, disk, u) \/ u[2] = FragUnit(f)) => Sent(toWriter', disk', u)
        /\ \A u : u[1] # fragTable[f] /\ Sent(toWriter, disk, u) => Sent(toWriter', disk', u)
    BY <2>1, PutFacts
  <2>5. Fixed' = Fixed /\ \A b : HandUnit(b)' = HandUnit(b)
    BY <2>1 DEF Fixed, PlacedFragments, HandUnit, BlockUnit
  <2>6. \A u \in Fixed' : Sent(toWriter', disk', u) \/ ToPut(u)'
    <3> TAKE u \in Fixed'
    <3>1. u \in Fixed
      BY <2>5
    <3>2. Sent(toWriter, disk, u) \/ ToPut(u)
      BY <3>1 DEF OnWay
    <3> QED BY <2>3, <2>4, <3>1, <3>2, Zenon
  <2>7. ASSUME pc = "blocks", NEW b \in 1 .. block, b <= file.thresh PROVE Sent(toWriter', disk', HandUnit(b))
    <3>1. Sent(toWriter, disk, HandUnit(b))
      BY <2>7 DEF OnWay
    <3>2. HandUnit(b)[1] \in Nat /\ HandUnit(b)[1] >= file.start
      BY <2>7, HandFacts
    <3>3. fragTable[f] \in Nat /\ file.start \in Nat /\ fragTable[f] < file.start
      <4>1. <<fragTable[f], FragUnit(f)>> \in Fixed
        BY <2>1 DEF Fixed, PlacedFragments
      <4> QED BY <2>1, <2>7, <4>1 DEF Apart, Base, Types, Files
    <3>4. HandUnit(b)[1] # fragTable[f]
      BY <3>2, <3>3
    <3> QED BY <2>4, <3>1, <3>4
  <2>8. pc' = "blocks" => \A b \in 1 .. block' : b <= file'.thresh => Sent(toWriter', disk', HandUnit(b)')
    BY <2>1, <2>5, <2>7, Zenon
  <2> QED BY <2>6, <2>8, Zenon DEF OnWay
<1> QED BY <1>2, <1>3, <1>4

LEMMA OnWayUnlock ==
  ASSUME Types, Known, OutstandingCounted, Apart, OnWay, UnlockPlace \/ UnlockPut
  PROVE  OnWay'
<1> USE DEF fragVars, sharedVars, mainVars, fileVars
<1>1. CASE UnlockPlace
  <2> DEFINE f == Head(pending)
  <2>1. pending # <<>> /\ pending \in Seq(Nat) /\ fragments \in Nat
    BY <1>1 DEF UnlockPlace, Types
  <2>2. f = pending[1] /\ pending[1] \in Nat /\ 1 \in 1 .. Len(pending)
    BY <2>1, TailFacts
  <2>3. pending[1] < fragments
    BY <2>2 DEF Known
  <2>4. f \in 0 .. fragments - 1 /\ outstanding > 0
    BY <2>1, <2>2, <2>3, SomeOutstanding
  <2>5. /\ Assign(f) /\ hand = -1 /\ hand' = f /\ pc' # "blocks"
        /\ UNCHANGED <<committed, toWriter, disk>> /\ deflator' = deflator
    BY <1>1 DEF UnlockPlace, Known
  <2>6. \A u : ToPut(u) => ToPut(u)'
    BY <2>5 DEF ToPut
  <2>7. hand' # -1
    BY <2>1, <2>4, <2>5
  <2>8. \A u : u[2] = FragUnit(f) => ToPut(u)'
    BY <2>5, <2>7 DEF ToPut
  <2> HIDE DEF f
  <2> QED BY <2>4, <2>5, <2>6, <2>8, OnWayAssign, Zenon
<1>2. CASE UnlockPut
  <2>1. /\ hand \in DOMAIN fragTable /\ hand' = -1 /\ pc' # "blocks"
        /\ toWriter' = Append(toWriter, Buffer(FragUnit(hand), fragTable[hand]))
        /\ UNCHANGED <<fragTable, committed, disk, deflator>>
    BY <1>2 DEF UnlockPut, Known
  <2>2. \A u : ToPut(u) => ToPut(u)' \/ u[2] = FragUnit(hand)
    BY <2>1 DEF ToPut
  <2>3. \A u \in Fixed : (Sent(toWriter, disk, u) \/ u[2] = FragUnit(hand)) => Sent(toWriter', disk', u)
    BY <2>1, PutFacts
  <2>4. Fixed' = Fixed
    BY <2>1 DEF Fixed, PlacedFragments
  <2>5. \A u \in Fixed' : Sent(toWriter', disk', u) \/ ToPut(u)'
    <3> TAKE u \in Fixed'
    <3>1. u \in Fixed
      BY <2>4
    <3>2. Sent(toWriter, disk, u) \/ ToPut(u)
      BY <3>1 DEF OnWay
    <3> QED BY <2>2, <2>3, <3>1, <3>2, Zenon
  <2> QED BY <2>1, <2>5, Zenon DEF OnWay
<1> QED BY <1>1, <1>2

LEMMA OnWayWrite ==
  ASSUME Types, OnWay, Write
  PROVE  OnWay'
<1> USE DEF fragVars, sharedVars, mainVars, fileVars
<1>1. /\ toWriter \in Seq(Messages) /\ toWriter # <<>> /\ toWriter' = Tail(toWriter)
      /\ IF Head(toWriter) = Flush THEN disk' = disk ELSE disk' = With(disk, Head(toWriter)[3], Head(toWriter)[2])
  BY DEF Write, Types
<1>2. \A u : Sent(toWriter, disk, u) => Sent(toWriter', disk', u)
  BY <1>1, SentWrite
<1>3. UNCHANGED <<fragTable, committed, hand, deflator, pc, block, blockPos, file>>
  BY DEF Write
<1>4. Fixed' = Fixed /\ (\A u : ToPut(u)' <=> ToPut(u)) /\ \A b : HandUnit(b)' = HandUnit(b)
  BY <1>3 DEF Fixed, PlacedFragments, ToPut, HandUnit, BlockUnit
<1>5. \A u \in Fixed' : Sent(toWriter', disk', u) \/ ToPut(u)'
  BY <1>2, <1>4, Zenon DEF OnWay
<1>6. pc' = "blocks" => \A b \in 1 .. block' : b <= file'.thresh => Sent(toWriter', disk', HandUnit(b)')
  <2>1. pc' = pc /\ block' = block /\ file' = file
    BY <1>3
  <2> QED BY <1>2, <1>4, <2>1, Zenon DEF OnWay
<1> QED BY <1>5, <1>6, Zenon DEF OnWay

LEMMA OnWayWriteBlock ==
  ASSUME Types, Blocks, Apart, OnWay, WriteBlock
  PROVE  OnWay'
<1> USE DEF fragVars, sharedVars, mainVars, fileVars
<1> DEFINE m == Buffer(BlockUnit(file, block), bytes)
<1>1. /\ toWriter \in Seq(Messages) /\ file \in Files /\ block \in Nat /\ bytes \in Nat /\ file.start \in Nat /\ file.thresh \in Nat
      /\ blockPos \in Seq(Nat)
  BY DEF Types, TypeOK, Files
<1>2. /\ pc = "blocks" /\ pc' = pc /\ file' = file /\ block' = block + 1 /\ blockPos' = Append(blockPos, bytes) /\ disk' = disk
      /\ toWriter' = IF block < file.thresh THEN Append(toWriter, m) ELSE toWriter
      /\ UNCHANGED <<fragTable, committed, hand, deflator>>
  BY DEF WriteBlock
<1>3. m \in Messages /\ \A u : u[1] # bytes => ~At(m, u[1])
  BY <1>1, MessageFacts, BufferFacts DEF At
<1>4. \A u : u[1] # bytes /\ Sent(toWriter, disk, u) => Sent(toWriter', disk', u)
  <2> TAKE u
  <2>1. SUFFICES ASSUME u[1] # bytes, Sent(toWriter, disk, u) PROVE Sent(toWriter', disk', u)
    OBVIOUS
  <2> HIDE DEF m
  <2>2. Sent(Append(toWriter, m), disk, u)
    BY <1>1, <1>3, <2>1, SentAppend
  <2> QED BY <1>2, <2>1, <2>2
<1>5. Fixed' = Fixed /\ \A u : ToPut(u)' <=> ToPut(u)
  BY <1>2 DEF Fixed, PlacedFragments, ToPut
<1>6. Len(blockPos) = block /\ bytes = file.start + block /\ Base = file.start
  BY <1>2 DEF Blocks, Base
<1>7. \A u \in Fixed : u[1] # bytes
  <2> TAKE u \in Fixed
  <2>1. u[1] \in Nat /\ u[1] < file.start
    BY <1>6, FixedFacts DEF Apart
  <2> QED BY <1>1, <1>6, <2>1
<1>8. \A u \in Fixed' : Sent(toWriter', disk', u) \/ ToPut(u)'
  BY <1>4, <1>5, <1>7, Zenon DEF OnWay
<1>9. ASSUME NEW b \in 1 .. block', b <= file.thresh PROVE Sent(toWriter', disk', HandUnit(b)')
  <2>1. CASE b \in 1 .. block
    <3>1. Sent(toWriter, disk, HandUnit(b))
      BY <1>2, <1>9, <2>1 DEF OnWay
    <3>2. HandUnit(b)[1] # bytes
      <4>1. HandUnit(b)[1] \in Nat /\ HandUnit(b)[1] < bytes
        BY <1>2, <2>1, HandFacts
      <4> QED BY <1>1, <4>1
    <3>3. HandUnit(b)' = HandUnit(b)
      <4>1. blockPos'[b] = blockPos[b]
        BY <1>1, <1>2, <1>6, <2>1
      <4> QED BY <1>2, <4>1 DEF HandUnit, BlockUnit
    <3> QED BY <1>4, <3>1, <3>2, <3>3, Zenon
  <2>2. CASE b \notin 1 .. block
    <3>1. b = block + 1 /\ b - 1 = block /\ block < file.thresh
      BY <1>1, <1>2, <1>9, <2>2
    <3>2. blockPos'[b] = bytes
      BY <1>1, <1>2, <1>6, <3>1
    <3>3. HandUnit(b)' = <<bytes, BlockUnit(file, block)>>
      BY <1>2, <3>1, <3>2 DEF HandUnit
    <3>4. toWriter' = Append(toWriter, m) /\ m = Buffer((HandUnit(b)')[2], (HandUnit(b)')[1])
      BY <1>2, <3>1, <3>3
    <3> HIDE DEF m
    <3>5. \A u : m = Buffer(u[2], u[1]) => Sent(Append(toWriter, m), disk, u)
      BY <1>1, <1>3, SentAppend
    <3> QED BY <1>2, <3>4, <3>5, Zenon
  <2> QED BY <2>1, <2>2
<1>10. pc' = "blocks" => \A b \in 1 .. block' : b <= file'.thresh => Sent(toWriter', disk', HandUnit(b)')
  BY <1>2, <1>9, Zenon
<1> QED BY <1>8, <1>10, Zenon DEF OnWay

LEMMA OnWayCommit ==
  ASSUME Types, Blocks, Apart, OnWay, EndBlocks \/ Unique
  PROVE  OnWay'
<1> USE DEF fragVars, sharedVars, mainVars, fileVars
<1>1. /\ pc = "blocks" /\ block = file.size /\ Commit /\ pc' # "blocks"
      /\ UNCHANGED <<fragTable, hand, deflator, disk>>
  BY DEF EndBlocks, Unique, BlocksDone
<1>2. Fixed' = Fixed \cup {HandUnit(b) : b \in 1 .. file.size}
  BY <1>1, CommitFacts
<1>3. \A u : ToPut(u)' <=> ToPut(u)
  BY <1>1 DEF ToPut
<1>4. SUFFICES ASSUME /\ \A u \in Fixed : Sent(toWriter, disk, u) => Sent(toWriter', disk', u)
                      /\ \A b \in 1 .. file.size : Sent(toWriter', disk', HandUnit(b))
               PROVE  OnWay'
  <2>1. CASE EndBlocks
    <3>1. toWriter' = toWriter /\ disk' = disk /\ file.thresh = file.size
      BY <1>1, <2>1 DEF EndBlocks, Blocks
    <3>2. \A b \in 1 .. file.size : b <= file.thresh
      BY <3>1 DEF Types, Files
    <3>3. \A b \in 1 .. file.size : Sent(toWriter, disk, HandUnit(b))
      BY <1>1, <3>2 DEF OnWay
    <3> QED BY <1>4, <3>1, <3>3
  <2>2. CASE Unique
    <3>1. toWriter' = toWriter \o Held /\ disk' = disk /\ toWriter \in Seq(Messages) /\ Held \in Seq(Messages)
      BY <1>1, <2>2, HeldFacts DEF Unique, FirstHeld, Held, Types
    <3>2. file.thresh \in Nat /\ file.start \in Nat /\ Base = file.start /\ file.size \in Nat
      BY <1>1 DEF Types, Files, Base
    <3>3. \A k \in 1 .. Len(Held) : /\ Held[k] = Buffer(HandUnit(file.thresh + k)[2], HandUnit(file.thresh + k)[1])
                                    /\ file.thresh + k \in 1 .. file.size /\ k <= file.size - file.thresh
      BY <1>1, HeldFacts
    <3>4. \A b \in 1 .. file.size : /\ HandUnit(b)[1] = file.start + b - 1 /\ HandUnit(b)[1] \in Nat
                                    /\ HandUnit(b)[1] >= file.start
      BY <1>1, HandFacts
    <3>5. \A k \in 1 .. Len(Held) : \A p : At(Held[k], p) => p = HandUnit(file.thresh + k)[1]
      <4> TAKE k \in 1 .. Len(Held)
      <4> TAKE p
      <4>1. Held[k] = Buffer(HandUnit(file.thresh + k)[2], HandUnit(file.thresh + k)[1])
        BY <3>3
      <4>2. Held[k][3] = HandUnit(file.thresh + k)[1]
        BY <4>1, BufferFacts
      <4> QED BY <4>2, Zenon DEF At
    <3>6. \A b, c \in 1 .. file.size : HandUnit(b)[1] = HandUnit(c)[1] => b = c
      <4> TAKE b, c \in 1 .. file.size
      <4>1. HandUnit(b)[1] = file.start + b - 1 /\ HandUnit(c)[1] = file.start + c - 1
        BY <3>4
      <4>2. \A s \in Nat : s + b - 1 = s + c - 1 => b = c
        OBVIOUS
      <4> QED BY <3>2, <4>1, <4>2, Zenon
    <3>7. \A u \in Fixed : Sent(toWriter, disk, u) => Sent(toWriter', disk', u)
      <4> TAKE u \in Fixed
      <4>1. u[1] \in Nat /\ u[1] < file.start
        BY <3>2, FixedFacts DEF Apart
      <4>2. \A k \in 1 .. Len(Held) : ~At(Held[k], u[1])
        <5> TAKE k \in 1 .. Len(Held)
        <5>1. HandUnit(file.thresh + k)[1] \in Nat /\ HandUnit(file.thresh + k)[1] >= file.start
          BY <3>3, <3>4, Zenon
        <5>2. u[1] # HandUnit(file.thresh + k)[1]
          BY <3>2, <4>1, <5>1
        <5> QED BY <3>5, <5>2, Zenon
      <4> QED BY <3>1, <4>2, SentJoin
    <3>8. ASSUME NEW b \in 1 .. file.size PROVE Sent(toWriter', disk', HandUnit(b))
      <4>1. CASE b <= file.thresh
        <5>1. Sent(toWriter, disk, HandUnit(b))
          BY <1>1, <4>1 DEF OnWay
        <5>2. \A k \in 1 .. Len(Held) : ~At(Held[k], HandUnit(b)[1])
          <6> TAKE k \in 1 .. Len(Held)
          <6>1. file.thresh + k \in 1 .. file.size /\ file.thresh + k # b
            <7>1. \A t \in Nat : b <= t => t + k # b
              OBVIOUS
            <7> QED BY <3>2, <3>3, <4>1, <7>1, Zenon
          <6> QED BY <3>5, <3>6, <6>1, Zenon
        <5> QED BY <3>1, <5>1, <5>2, SentJoin
      <4>2. CASE ~(b <= file.thresh)
        <5> DEFINE k == b - file.thresh
        <5>1. b > file.thresh /\ file.thresh + k = b
          BY <3>2, <4>2
        <5>2. k \in 1 .. Len(Held)
          BY <1>1, <5>1, HeldFacts
        <5>3. Held[k] = Buffer(HandUnit(b)[2], HandUnit(b)[1])
          BY <3>3, <5>1, <5>2
        <5> HIDE DEF k
        <5>4. \A j \in k + 1 .. Len(Held) : ~At(Held[j], HandUnit(b)[1])
          <6> TAKE j \in k + 1 .. Len(Held)
          <6>1. j \in 1 .. Len(Held) /\ j > k
            <7>1. Len(Held) \in Nat
              BY <3>1
            <7> QED BY <5>2, <7>1
          <6>2. file.thresh + j # b
            <7>1. \A t \in Nat : j > k => t + j # t + k
              BY <5>2
            <7> QED BY <3>2, <5>1, <6>1, <7>1, Zenon
          <6>3. file.thresh + j \in 1 .. file.size
            BY <3>3, <6>1
          <6> QED BY <3>5, <3>6, <6>1, <6>2, <6>3, Zenon
        <5>5. InQueue(Held, HandUnit(b))
          BY <5>2, <5>3, <5>4 DEF InQueue
        <5> QED BY <3>1, <5>5, SentPut
      <4> QED BY <4>1, <4>2
    <3> QED BY <1>4, <3>7, <3>8
  <2> QED BY <2>1, <2>2
<1>5. \A u \in Fixed' : Sent(toWriter', disk', u) \/ ToPut(u)'
  BY <1>2, <1>3, <1>4, Zenon DEF OnWay
<1> QED BY <1>1, <1>5, Zenon DEF OnWay

LEMMA OnWayStep ==
  ASSUME Types, Known, OutstandingCounted, Blocks, Apart, OnWay, Next
  PROVE  OnWay'
BY Cases, OnWayMain, OnWayDeflator, OnWayUnlock, OnWayWrite, OnWayWriteBlock, OnWayCommit

-----------------------------------------------------------------------------
(* The theorems.                                                           *)

LEMMA InitIInv == Init => IInv
<1> SUFFICES ASSUME Init PROVE IInv
  OBVIOUS
<1>1. <<>> \in Seq(Nat) /\ <<>> \in Seq(Messages) /\ Len(<<>>) = 0 /\ PerFragment \in Nat
  BY FragmentsAssumption
<1>2. DOMAIN fragTable = {} /\ fragTable \in [DOMAIN fragTable -> Nat] /\ Idle \in Deflators /\ Idle.step = "idle" /\ NoFile \in Files
  BY DEF Init, Idle, Deflators, NoFile, Files
<1>3. Types
  <2>1. TypeOK
    <3>1. 0 \in 0 .. PerFragment
      BY <1>1
    <3>2. /\ pc = "next" /\ after = "next" /\ block = 0 /\ fill = 0 /\ locked = FALSE /\ fromWriter = FALSE /\ bytes = 0
          /\ outstanding = 0
      BY DEF Init
    <3> QED BY <1>2, <3>1, <3>2 DEF TypeOK
  <2>2. /\ file = NoFile /\ blockPos = <<>> /\ committed = {} /\ fragments = 0 /\ toFrag = <<>> /\ pending = <<>> /\ toWriter = <<>>
        /\ deflator = [d \in FragDeflators |-> Idle]
    BY DEF Init
  <2>3. deflator \in [FragDeflators -> Deflators]
    BY <1>2, <2>2
  <2> QED BY <1>1, <1>2, <2>1, <2>2, <2>3 DEF Types
<1>4. deflator = [d \in FragDeflators |-> Idle] /\ toFrag = <<>> /\ pending = <<>> /\ outstanding = 0 /\ pc = "next" /\ hand = -1
      /\ committed = {}
  BY DEF Init
<1>5. Known
  BY <1>1, <1>2, <1>4 DEF Known
<1>6. OutstandingCounted
  <2>1. Deferred = {}
    BY <1>2, <1>4 DEF Deferred
  <2> QED BY <1>1, <1>4, <2>1, FS_EmptySet DEF OutstandingCounted
<1>7. Fixed = {}
  BY <1>2, <1>4 DEF Fixed, PlacedFragments
<1>8. Blocks /\ Apart /\ OnWay
  BY <1>4, <1>7 DEF Blocks, Apart, OnWay
<1> QED BY <1>3, <1>5, <1>6, <1>8 DEF IInv

LEMMA NextIInv == IInv /\ [Next]_vars => IInv'
<1> SUFFICES ASSUME IInv, [Next]_vars PROVE IInv'
  OBVIOUS
<1>1. CASE Next
  <2>1. Types /\ Known /\ OutstandingCounted /\ Blocks /\ Apart /\ OnWay
    BY DEF IInv
  <2>2. Types' /\ Known' /\ OutstandingCounted' /\ Blocks' /\ Apart' /\ OnWay'
    BY <1>1, <2>1, TypesStep, CountedStep, BlocksStep, ApartStep, OnWayStep
  <2> QED BY <2>2, Zenon DEF IInv
<1>2. CASE UNCHANGED vars
  <2> USE <1>2 DEF vars, IInv
  <2>1. Types' /\ Known'
    BY DEF Types, TypeOK, Known
  <2>2. OutstandingCounted' /\ Blocks'
    BY DEF OutstandingCounted, Deferred, Blocks
  <2>3. Fixed' = Fixed /\ Base' = Base
    BY DEF Fixed, PlacedFragments, Base
  <2>4. Apart'
    BY <2>3 DEF Apart
  <2>5. (\A u : ToPut(u)' <=> ToPut(u)) /\ \A b : HandUnit(b)' = HandUnit(b)
    BY DEF ToPut, HandUnit, BlockUnit
  <2>6. toWriter' = toWriter /\ disk' = disk /\ pc' = pc /\ block' = block /\ file' = file
    OBVIOUS
  <2>7. OnWay'
    BY <2>3, <2>5, <2>6, Zenon DEF OnWay
  <2> QED BY <2>1, <2>2, <2>4, <2>7, Zenon
<1> QED BY <1>1, <1>2

\* Every reachable state satisfies the inductive invariant.
THEOREM InductiveInvariant == Spec => []IInv
<1> QED BY InitIInv, NextIInv, PTL DEF Spec

\* However the threads interleave, fragments_outstanding counts the fragments without a
\* place, and the shared variables keep their types.
THEOREM FragmentsConsistent == Spec => []Consistent
<1>1. IInv => Consistent
  BY DEF IInv, Types, Consistent
<1> QED BY <1>1, InductiveInvariant, PTL

\* No place of the output is given to two units, the position is behind all of them, and
\* the blocks of a file are next to each other.
THEOREM NoPlaceTwice == Spec => []Placement
<1>1. IInv => Placement
  <2> SUFFICES ASSUME IInv PROVE Placement
    OBVIOUS
  <2>1. Types /\ Blocks /\ Apart
    BY DEF IInv
  <2>2. bytes \in Nat /\ Base \in Nat /\ Base <= bytes
    BY <2>1 DEF Types, TypeOK, Files, Blocks, Base
  <2>3. \A u \in Fixed : u[1] \in Nat /\ u[1] < Base /\ u[1] < bytes
    <3> TAKE u \in Fixed
    <3>1. u[1] \in Nat /\ u[1] < Base
      BY <2>1, FixedFacts DEF Apart
    <3> QED BY <2>2, <3>1
  <2>4. CASE pc # "blocks"
    <3>1. Live = Fixed
      BY <2>4 DEF Live, InHand, Fixed
    <3> QED BY <2>1, <2>3, <2>4, <3>1 DEF Placement, NoOverlap, FileContiguous, Apart
  <2>5. CASE pc = "blocks"
    <3>1. Live = Fixed \cup {HandUnit(b) : b \in 1 .. block} /\ Base = file.start
      BY <2>5 DEF Live, InHand, Fixed, HandUnit, Base
    <3>2. \A b \in 1 .. block : /\ HandUnit(b)[1] = file.start + b - 1 /\ HandUnit(b)[1] \in Nat
                                /\ HandUnit(b)[1] >= Base /\ HandUnit(b)[1] < bytes
      BY <2>1, <2>5, <3>1, HandFacts
    <3>3. \A b, c \in 1 .. block : HandUnit(b)[1] = HandUnit(c)[1] => b = c
      <4> TAKE b, c \in 1 .. block
      <4>1. HandUnit(b)[1] = file.start + b - 1 /\ HandUnit(c)[1] = file.start + c - 1
        BY <3>2
      <4>2. \A s \in Nat : s + b - 1 = s + c - 1 => b = c
        OBVIOUS
      <4> QED BY <2>2, <3>1, <4>1, <4>2, Zenon
    <3>4. \A u \in Fixed, b \in 1 .. block : u[1] # HandUnit(b)[1]
      <4> TAKE u \in Fixed, b \in 1 .. block
      <4>1. HandUnit(b)[1] \in Nat /\ HandUnit(b)[1] >= Base
        BY <3>2
      <4>2. u[1] \in Nat /\ u[1] < Base
        BY <2>3
      <4> QED BY <2>2, <4>1, <4>2
    <3>5. \A u, v \in Live : u[1] = v[1] => u = v
      BY <2>1, <3>1, <3>3, <3>4 DEF Apart
    <3>6. \A u \in Live : u[1] < bytes
      BY <2>3, <3>1, <3>2
    <3> QED BY <2>1, <2>5, <3>5, <3>6 DEF Placement, NoOverlap, FileContiguous, Blocks
  <2> QED BY <2>4, <2>5
<1> QED BY <1>1, InductiveInvariant, PTL

\* What has a place is on its way there or has been written there, and nothing behind it
\* in the writer's queue is for that place: no roll back, truncation or late write of a
\* rolled back block destroys it.
THEOREM NothingLost == Spec => []Settled
<1>1. IInv => Settled
  <2> SUFFICES ASSUME IInv, NEW u \in Live PROVE OnItsWay(u) \/ Written(u)
    BY DEF Settled
  <2>1. CASE u \in InHand
    BY <2>1 DEF OnItsWay
  <2>2. CASE u \in Fixed
    <3>1. Sent(toWriter, disk, u) \/ ToPut(u)
      BY <2>2 DEF IInv, OnWay
    <3>2. CASE ToPut(u)
      BY <3>2 DEF ToPut, OnItsWay
    <3>3. CASE OnDisk(toWriter, disk, u)
      BY <3>3 DEF OnDisk, Written
    <3>4. CASE InQueue(toWriter, u)
      BY <3>4 DEF InQueue, OnItsWay, ToSet
    <3> QED BY <3>1, <3>2, <3>3, <3>4 DEF Sent
  <2> QED BY <2>1, <2>2 DEF Live, Fixed
<1> QED BY <1>1, InductiveInvariant, PTL
=============================================================================
