----------------------------- MODULE FirmwareProofs -----------------------------
(***************************************************************************)
(* Proofs about Firmware for images of any modules, with any number of     *)
(* blocks, and any types: that a dump which reports success has read and   *)
(* verified all of the image (SuccessMeansVerified), that the descriptors  *)
(* and the files behind them are each round's own (Consistent), and that   *)
(* what was dumped is in the files (DumpKept).                             *)
(***************************************************************************)
EXTENDS Firmware, FiniteSetTheorems, SequenceTheorems, TLAPS

-----------------------------------------------------------------------------
(* The inductive invariant.                                                *)

\* Where a module's units begin in an image of two.
Start(m) == IF m = 0 THEN 2
            ELSE IF m = 1 THEN 3 + image[1].blocks ELSE 4 + image[1].blocks + image[2].blocks

\* ReadHeader is content with images of two modules only, so that these are the
\* ones the loop sees.
Known2 == image \in Images /\ Len(image) = 2

Units == [kind : {"table", "hdr", "data"}, mod : Nat, block : Nat]
Round == pc \in {"mdulhdr", "magic", "data"}
Working == err = 0 /\ (Round \/ pc \in {"loop", "returned"})

\* The loop's module, and what of the image has been read: all that is before it, and
\* of the module as much as its step has come to.
Progress ==
  /\ image \in Images /\ split \in BOOLEAN /\ lost \in BOOLEAN
  /\ pc \in {"prepare", "header", "loop", "mdulhdr", "magic", "data", "returned", "died"}
  /\ err \in {-1, 0, 1}
  /\ pc \in {"prepare", "header"} => err = 0 /\ pos = 0 /\ i = 0 /\ mdl = -1
  /\ Round => err = 0
  /\ Working => /\ Known2
                /\ \A m \in 0 .. i - 1 : Module(m).digest = "good"
                /\ IF Round THEN mdl = i /\ i \in {0, 1} ELSE mdl = i - 1 /\ i \in {0, 1, 2} /\ pos = Start(i)
  /\ pc = "returned" /\ err = 0 => i = 2
  /\ pc = "mdulhdr" => pos = Start(i)
  /\ pc = "magic" => pos = Start(i) + 1
  /\ pc = "data" => pos \in Start(i) + 1 .. Start(i + 1)

\* The files of a round, and the descriptors: before the first round none is open, and
\* then those of the last round are.
Body(t) == <<dir, t, "x.out">>
Hdr(t) == <<dir, t, "x-out">>
RoundFiles(t) == IF split THEN {Body(t), Hdr(t)} ELSE {Body(t)}
Type == open[4][2]
Descriptors ==
  /\ ~split => lastcurDumpFd = 0
  /\ IF mdl = -1 THEN curDumpFd = 0 /\ curHdrDumpFd = 0 /\ DOMAIN open = {} /\ Files = {}
     ELSE /\ curDumpFd = 4 /\ curHdrDumpFd = IF split THEN 5 ELSE 0
          /\ DOMAIN open = (IF split THEN {4, 5} ELSE {4})
          /\ open[4] = Body(Type) /\ (split => open[5] = Hdr(Type))
          /\ RoundFiles(Type) \subseteq Files
  /\ mdl \in {-1, 0, 1}

\* The file for the module's next block: it has no unit of the block or of another
\* module, nor with -s of another kind.
Target == IF split THEN Hdr(Type) ELSE Body(Type)
Before(u) == u.mod = mdl /\ u.block < pos - Start(mdl) /\ (split => u.kind = "data")
Good(s) == \A a, b \in 1 .. Len(s) : /\ s[a].mod = s[b].mod
                                     /\ a < b => s[a].block < s[b].block
                                     /\ split => s[a].kind = s[b].kind
InFiles ==
  /\ \A f \in Files : files[f] \in Seq(Units) /\ Good(files[f])
  /\ pc = "mdulhdr" => lastcurDumpFd = 0 /\ \A f \in RoundFiles(Type) : files[f] = <<>>
  /\ pc \in {"magic", "data"} => /\ split => lastcurDumpFd = 4
                                 /\ \A k \in 1 .. Len(files[Target]) : Before(files[Target][k])

\* Unless a write failed, the units read of the module are in the round's files, and
\* those of the module before it in its own if these have other names.
Holds(names, first, last) ==
  \A k \in first + 1 .. last : \E f \in names : Stream(image)[k] \in ToSet(files[f])
Kept1 ==
  /\ Working /\ mdl # -1 /\ ~lost => Holds(RoundFiles(Type), Start(mdl), pos)
  /\ mdl = 0 => Files = RoundFiles(Type)
  /\ Working /\ mdl = 1 => \E t : /\ Files = RoundFiles(t) \cup RoundFiles(Type)
                                  /\ t # Type /\ ~lost => Holds(RoundFiles(t), Start(0), Start(1))

IInv == Progress /\ Descriptors /\ InFiles /\ Kept1

-----------------------------------------------------------------------------
(* The image as a stream.                                                  *)

UnitsOf(m) == <<Unit("hdr", m, 0)>> \o [b \in 1 .. image[m + 1].blocks |-> Unit("data", m, b)]

LEMMA StreamTwo ==
  ASSUME Known2
  PROVE  Stream(image) = [m \in 1 .. Len(image) |-> Unit("table", m - 1, 0)] \o (UnitsOf(0) \o (UnitsOf(1) \o <<>>))
<1> DEFINE U(m) == <<Unit("hdr", m - 1, 0)>> \o [b \in 1 .. image[m].blocks |-> Unit("data", m - 1, b)]
           F(f) == f = [m \in Nat |-> IF m > Len(image) THEN <<>> ELSE U(m) \o f[m + 1]]
           c == CHOOSE f : F(f)
           g == [m \in Nat |-> IF m > 2 THEN <<>>
                               ELSE IF m = 2 THEN U(2) \o <<>>
                               ELSE IF m = 1 THEN U(1) \o (U(2) \o <<>>)
                               ELSE U(0) \o (U(1) \o (U(2) \o <<>>))]
<1>1. Len(image) = 2
  BY DEF Known2
<1>2. U(1) = UnitsOf(0) /\ U(2) = UnitsOf(1)
  BY DEF UnitsOf
<1>3. Stream(image) = [m \in 1 .. Len(image) |-> Unit("table", m - 1, 0)] \o c[1]
  BY DEF Stream
<1> HIDE DEF U
<1>4. F(g)
  <2>1. /\ g[0] = U(0) \o (U(1) \o (U(2) \o <<>>)) /\ g[1] = U(1) \o (U(2) \o <<>>)
        /\ g[2] = U(2) \o <<>> /\ \A m \in Nat : m > 2 => g[m] = <<>>
    OBVIOUS
  <2> HIDE DEF g
  <2>2. \A m \in Nat : g[m] = IF m > Len(image) THEN <<>> ELSE U(m) \o g[m + 1]
    <3> TAKE m \in Nat
    <3>1. CASE m > 2
      BY <1>1, <2>1, <3>1
    <3>2. CASE m = 2
      <4>1. m + 1 = 3 /\ g[3] = <<>>
        BY <2>1, <3>2
      <4> QED BY <1>1, <2>1, <3>2, <4>1
    <3>3. CASE m = 1
      BY <1>1, <2>1, <3>3
    <3>4. CASE m = 0
      <4>1. m + 1 = 1 /\ ~(m > Len(image))
        BY <1>1, <3>4
      <4> QED BY <2>1, <3>4, <4>1
    <3> QED BY <3>1, <3>2, <3>3, <3>4
  <2>3. g = [m \in Nat |-> IF m > Len(image) THEN <<>> ELSE U(m) \o g[m + 1]]
    BY <2>2 DEF g
  <2> QED BY <2>3
<1>5. F(c)
  <2> HIDE DEF g, F
  <2> QED BY <1>4
<1>6. \A m \in Nat : c[m] = IF m > Len(image) THEN <<>> ELSE U(m) \o c[m + 1]
  <2> HIDE DEF c
  <2> QED BY <1>5
<1> HIDE DEF c, F
<1>7. c[3] = <<>>
  BY <1>1, <1>6
<1>8. c[2] = U(2) \o c[3]
  <2>1. 2 \in Nat /\ ~(2 > Len(image)) /\ 2 + 1 = 3
    BY <1>1
  <2> QED BY <1>6, <2>1
<1>9. c[1] = U(1) \o c[2]
  <2>1. 1 \in Nat /\ ~(1 > Len(image)) /\ 1 + 1 = 2
    BY <1>1
  <2> QED BY <1>6, <2>1
<1> QED BY <1>2, <1>3, <1>7, <1>8, <1>9, Zenon

\* A function from 1 to n is a sequence.
LEMMA SeqOfMap ==
  ASSUME NEW T, NEW n \in Nat, NEW s \in [1 .. n -> T]
  PROVE  s \in Seq(T) /\ Len(s) = n
<1>1. s \in Seq(T)
  BY SeqDef
<1> QED BY <1>1

LEMMA UnitsFacts ==
  ASSUME Known2, NEW m \in {0, 1}
  PROVE  /\ UnitsOf(m) \in Seq(Units) /\ image[m + 1].blocks \in Nat
         /\ Len(UnitsOf(m)) = 1 + image[m + 1].blocks
         /\ UnitsOf(m)[1] = Unit("hdr", m, 0)
         /\ \A b \in 1 .. image[m + 1].blocks : UnitsOf(m)[1 + b] = Unit("data", m, b)
<1> DEFINE n == image[m + 1].blocks
           h == <<Unit("hdr", m, 0)>>
           d == [b \in 1 .. n |-> Unit("data", m, b)]
<1>1. n \in Nat
  <2>1. image \in Seq(Modules) /\ m + 1 \in 1 .. Len(image)
    BY FirmwareAssumption DEF Known2
  <2>2. image[m + 1] \in Modules
    BY <2>1
  <2> QED BY <2>2 DEF Modules
<1>2. Unit("hdr", m, 0) \in Units /\ \A b \in 1 .. n : Unit("data", m, b) \in Units
  BY DEF Unit, Units
<1>3. UnitsOf(m) = h \o d
  BY DEF UnitsOf
<1>4. h \in Seq(Units) /\ Len(h) = 1 /\ h[1] = Unit("hdr", m, 0)
  BY <1>2
<1>5. d \in [1 .. n -> Units] /\ \A b \in 1 .. n : d[b] = Unit("data", m, b)
  BY <1>2
<1> HIDE DEF h, d, n
<1>6. d \in Seq(Units) /\ Len(d) = n
  BY <1>1, <1>5, SeqOfMap
<1>7. /\ h \o d \in Seq(Units) /\ Len(h \o d) = 1 + n
      /\ \A k \in 1 .. 1 : (h \o d)[k] = h[k]
      /\ \A k \in 1 .. n : (h \o d)[1 + k] = d[k]
  <2>1. h \in Seq(Units) /\ d \in Seq(Units)
    BY <1>4, <1>6
  <2>2. /\ h \o d \in Seq(Units) /\ Len(h \o d) = Len(h) + Len(d)
        /\ \A k \in 1 .. Len(h) : (h \o d)[k] = h[k]
        /\ \A k \in 1 .. Len(d) : (h \o d)[Len(h) + k] = d[k]
    BY <2>1
  <2> QED BY <1>1, <1>4, <1>6, <2>2
<1>8. (h \o d)[1] = Unit("hdr", m, 0)
  BY <1>4, <1>7
<1> QED BY <1>1, <1>3, <1>5, <1>7, <1>8 DEF n

LEMMA StreamFacts ==
  ASSUME Known2
  PROVE  /\ Stream(image) \in Seq(Units) /\ Len(Stream(image)) = Start(2)
         /\ \A m \in {0, 1} : /\ Start(m) \in Nat /\ image[m + 1].blocks \in Nat
                              /\ Start(m + 1) = Start(m) + 1 + image[m + 1].blocks
                              /\ Stream(image)[Start(m) + 1] = Unit("hdr", m, 0)
                              /\ \A b \in 1 .. image[m + 1].blocks :
                                   Stream(image)[Start(m) + 1 + b] = Unit("data", m, b)
         /\ Start(0) = 2 /\ \A k \in 1 .. 2 : Stream(image)[k].kind = "table"
<1> DEFINE table == [m \in 1 .. Len(image) |-> Unit("table", m - 1, 0)]
           n == image[1].blocks
           o == image[2].blocks
           a == UnitsOf(0)
           b == UnitsOf(1)
           ab == a \o b
           S == table \o ab
<1>1. 2 \in Nat /\ table \in [1 .. 2 -> Units] /\ \A k \in 1 .. 2 : table[k].kind = "table"
  <2>1. \A k \in 1 .. 2 : Unit("table", k - 1, 0) \in Units /\ Unit("table", k - 1, 0).kind = "table"
    BY DEF Unit, Units
  <2>2. Len(image) = 2
    BY DEF Known2
  <2> QED BY <2>1, <2>2
<1>2. /\ a \in Seq(Units) /\ Len(a) = 1 + n /\ a[1] = Unit("hdr", 0, 0)
      /\ \A k \in 1 .. n : a[1 + k] = Unit("data", 0, k)
      /\ n \in Nat
  BY UnitsFacts
<1>3. /\ b \in Seq(Units) /\ Len(b) = 1 + o /\ b[1] = Unit("hdr", 1, 0)
      /\ \A k \in 1 .. o : b[1 + k] = Unit("data", 1, k)
      /\ o \in Nat
  BY UnitsFacts
<1>4. Stream(image) = table \o (a \o (b \o <<>>))
  BY StreamTwo
<1> HIDE DEF table, a, b, n, o
<1>5. table \in Seq(Units) /\ Len(table) = 2
  BY <1>1, SeqOfMap
<1>6. Stream(image) = S
  <2>1. b \o <<>> = b
    BY <1>3
  <2> QED BY <1>4, <2>1
<1>7. /\ ab \in Seq(Units) /\ Len(ab) = 2 + n + o
      /\ \A k \in 1 .. 1 + n : ab[k] = a[k]
      /\ \A k \in 1 .. 1 + o : ab[1 + n + k] = b[k]
  <2>1. /\ ab \in Seq(Units) /\ Len(ab) = Len(a) + Len(b)
        /\ \A k \in 1 .. Len(a) : ab[k] = a[k]
        /\ \A k \in 1 .. Len(b) : ab[Len(a) + k] = b[k]
    <3>1. a \in Seq(Units) /\ b \in Seq(Units)
      BY <1>2, <1>3
    <3> QED BY <3>1, SMTT(20)
  <2> HIDE DEF ab
  <2> QED BY <1>2, <1>3, <2>1
<1> HIDE DEF ab
<1>8. /\ S \in Seq(Units) /\ Len(S) = 4 + n + o
      /\ \A k \in 1 .. 2 : S[k] = table[k]
      /\ \A k \in 1 .. 2 + n + o : S[2 + k] = ab[k]
  <2>1. table \in Seq(Units) /\ ab \in Seq(Units)
    BY <1>5, <1>7
  <2>2. /\ S \in Seq(Units) /\ Len(S) = Len(table) + Len(ab)
        /\ \A k \in 1 .. Len(table) : S[k] = table[k]
        /\ \A k \in 1 .. Len(ab) : S[Len(table) + k] = ab[k]
    BY <2>1
  <2> HIDE DEF S
  <2> QED BY <1>2, <1>3, <1>5, <1>7, <2>2
<1> HIDE DEF S
<1>9. \A k \in 1 .. 1 + n : S[2 + k] = a[k]
  BY <1>2, <1>3, <1>7, <1>8
<1>10. \A k \in 1 .. 1 + o : S[3 + n + k] = b[k]
  <2> TAKE k \in 1 .. 1 + o
  <2>1. 1 + n + k \in 1 .. 2 + n + o /\ 2 + (1 + n + k) = 3 + n + k
    BY <1>2, <1>3
  <2> QED BY <1>7, <1>8, <2>1
<1>11. S[3] = Unit("hdr", 0, 0) /\ \A k \in 1 .. n : S[3 + k] = Unit("data", 0, k)
  <2>1. S[2 + 1] = a[1]
    BY <1>2, <1>9
  <2>2. ASSUME NEW k \in 1 .. n PROVE S[3 + k] = Unit("data", 0, k)
    <3>1. 1 + k \in 1 .. 1 + n /\ 2 + (1 + k) = 3 + k
      BY <1>2
    <3> QED BY <1>2, <1>9, <3>1
  <2> QED BY <1>2, <2>1, <2>2
<1>12. S[4 + n] = Unit("hdr", 1, 0) /\ \A k \in 1 .. o : S[4 + n + k] = Unit("data", 1, k)
  <2>1. S[4 + n] = b[1]
    <3>1. 1 \in 1 .. 1 + o /\ 3 + n + 1 = 4 + n
      BY <1>2, <1>3
    <3> QED BY <1>10, <3>1
  <2>2. ASSUME NEW k \in 1 .. o PROVE S[4 + n + k] = Unit("data", 1, k)
    <3>1. 1 + k \in 1 .. 1 + o /\ 3 + n + (1 + k) = 4 + n + k
      BY <1>2, <1>3
    <3> QED BY <1>3, <1>10, <3>1
  <2> QED BY <1>3, <2>1, <2>2
<1>13. Start(0) = 2 /\ Start(1) = 3 + n /\ Start(2) = 4 + n + o
  BY DEF Start, n, o
<1>14. image[0 + 1].blocks = n /\ image[1 + 1].blocks = o
  BY DEF n, o
<1>15. /\ Start(0) \in Nat /\ Start(0 + 1) = Start(0) + 1 + n /\ S[Start(0) + 1] = Unit("hdr", 0, 0)
       /\ \A k \in 1 .. n : S[Start(0) + 1 + k] = Unit("data", 0, k)
  BY <1>2, <1>11, <1>13
<1>16. /\ Start(1) \in Nat /\ Start(1 + 1) = Start(1) + 1 + o /\ S[Start(1) + 1] = Unit("hdr", 1, 0)
       /\ \A k \in 1 .. o : S[Start(1) + 1 + k] = Unit("data", 1, k)
  <2>1. Start(1) + 1 = 4 + n
    BY <1>2, <1>13
  <2> QED BY <1>2, <1>3, <1>12, <1>13, <2>1
<1>17. \A m \in {0, 1} : /\ Start(m) \in Nat /\ image[m + 1].blocks \in Nat
                         /\ Start(m + 1) = Start(m) + 1 + image[m + 1].blocks
                         /\ S[Start(m) + 1] = Unit("hdr", m, 0)
                         /\ \A k \in 1 .. image[m + 1].blocks : S[Start(m) + 1 + k] = Unit("data", m, k)
  <2> TAKE m \in {0, 1}
  <2>1. CASE m = 0
    BY <1>2, <1>14, <1>15, <2>1
  <2>2. CASE m = 1
    BY <1>3, <1>14, <1>16, <2>2
  <2> QED BY <2>1, <2>2
<1>18. \A k \in 1 .. 2 : S[k].kind = "table"
  BY <1>1, <1>8
<1>19. Len(S) = Start(2)
  BY <1>8, <1>13
<1> QED BY <1>6, <1>8, <1>13, <1>17, <1>18, <1>19

-----------------------------------------------------------------------------
(* What has been read.                                                     *)

\* The unit after the position, while a module's data is read.
LEMMA NextUnit ==
  ASSUME Known2, mdl = i, i \in {0, 1}, pos \in Start(i) + 1 .. Start(i + 1)
  PROVE  /\ BlocksLeft => pos < Start(i + 1) /\ Stream(image)[pos + 1] = Unit("data", i, pos - Start(i))
         /\ ~BlocksLeft /\ DigestOk(mdl) => pos = Start(i + 1)
<1> DEFINE n == image[i + 1].blocks
           S == Stream(image)
<1>1. /\ Start(i) \in Nat /\ n \in Nat /\ Start(i + 1) = Start(i) + 1 + n /\ S[Start(i) + 1] = Unit("hdr", i, 0)
      /\ \A b \in 1 .. n : S[Start(i) + 1 + b] = Unit("data", i, b)
  BY StreamFacts
<1>2. pos \in Nat
  BY <1>1
<1>3. ASSUME pos < Start(i + 1)
      PROVE  S[pos + 1] = Unit("data", i, pos - Start(i)) /\ pos < Len(S)
  <2>1. pos - Start(i) \in 1 .. n /\ Start(i) + 1 + (pos - Start(i)) = pos + 1
    BY <1>1, <1>2, <1>3
  <2>2. S[pos + 1] = Unit("data", i, pos - Start(i))
    BY <1>1, <2>1, Zenon
  <2>3. Len(S) = Start(2) /\ (i = 0 => Start(1) <= Start(2))
    <3>1. Len(S) = Start(2) /\ Start(1) \in Nat /\ Start(1 + 1) = Start(1) + 1 + image[1 + 1].blocks /\ image[1 + 1].blocks \in Nat
      BY StreamFacts
    <3> QED BY <3>1
  <2>4. pos < Len(S)
    <3>1. CASE i = 0
      BY <1>1, <1>2, <1>3, <2>3, <3>1, StreamFacts
    <3>2. CASE i = 1
      BY <1>3, <2>3, <3>2
    <3> QED BY <3>1, <3>2
  <2> QED BY <2>2, <2>4
<1>4. ASSUME pos = Start(i + 1)
      PROVE  ~(pos < Len(S) /\ S[pos + 1].mod = i)
  <2>1. CASE i = 0
    <3>1. pos = Start(1) /\ S[Start(1) + 1] = Unit("hdr", 1, 0)
      BY <1>4, <2>1, StreamFacts
    <3> QED BY <2>1, <3>1 DEF Unit
  <2>2. CASE i = 1
    <3>1. pos = Len(S)
      BY <1>4, <2>2, StreamFacts
    <3> QED BY <1>2, <3>1
  <2> QED BY <2>1, <2>2
<1>5. BlocksLeft <=> Module(mdl).digest # "good0" /\ pos < Len(S) /\ S[pos + 1].mod = i
  BY DEF BlocksLeft
<1>6. pos < Start(i + 1) \/ pos = Start(i + 1)
  BY <1>1, <1>2
<1>7. Unit("data", i, pos - Start(i)).mod = i
  BY DEF Unit
<1> HIDE DEF S
<1>8. BlocksLeft => pos < Start(i + 1) /\ S[pos + 1] = Unit("data", i, pos - Start(i))
  BY <1>3, <1>4, <1>5, <1>6
<1>9. ~BlocksLeft /\ DigestOk(mdl) => pos = Start(i + 1)
  BY <1>3, <1>5, <1>6, <1>7 DEF DigestOk
<1> QED BY <1>8, <1>9 DEF S

LEMMA StartFacts ==
  ASSUME Known2
  PROVE  Start(0) = 2 /\ Start(1) \in Nat /\ Start(2) \in Nat /\ Start(0) < Start(1) /\ Start(1) < Start(2)
         /\ Len(Stream(image)) = Start(2)
<1>1. /\ Start(0) = 2 /\ Len(Stream(image)) = Start(2)
      /\ image[0 + 1].blocks \in Nat /\ Start(0 + 1) = Start(0) + 1 + image[0 + 1].blocks
      /\ image[1 + 1].blocks \in Nat /\ Start(1 + 1) = Start(1) + 1 + image[1 + 1].blocks
  BY StreamFacts
<1> QED BY <1>1

LEMMA ProgressStep ==
  ASSUME Progress, Next
  PROVE  Progress'
<1> USE DEF args, fds
<1>0. /\ UNCHANGED <<image, split>> /\ \A m : Start(m)' = Start(m) /\ Module(m)' = Module(m)
      /\ Known2' = Known2
  <2>1. UNCHANGED <<image, split>>
    BY DEF Next, PrepareOutputDir, ReadHeader, CreateFiles, CreateFails, ReadModuleHeader, CheckMagic, DumpBlock,
           CheckDigest, Return, Die
  <2> QED BY <2>1 DEF Start, Module, Known2
<1>1. ASSUME Die PROVE Progress'
  BY <1>0, <1>1 DEF Die, Progress, Round, Working
<1>2. CASE PrepareOutputDir
  BY <1>0, <1>1, <1>2 DEF PrepareOutputDir, Progress, Round, Working
<1>3. CASE ReadHeader
  <2>1. CASE Die
    BY <1>1, <2>1
  <2>2. CASE ~Die
    <3>1. /\ pos' = 2 /\ err' = (IF Len(image) = 2 THEN 0 ELSE -1) /\ pc' = "loop" /\ UNCHANGED <<i, mdl, lost>>
          /\ i = 0 /\ mdl = -1
      BY <1>3, <2>2 DEF ReadHeader, Progress
    <3>2. err' = 0 => Known2
      BY <3>1 DEF Progress, Known2
    <3>3. Known2 => Start(0) = 2
      BY StartFacts
    <3> QED BY <1>0, <3>1, <3>2, <3>3 DEF Progress, Round, Working
  <2> QED BY <2>1, <2>2
<1>4. CASE CreateFiles
  <2>1. /\ pc = "loop" /\ err = 0 /\ i < Len(image) /\ mdl' = i /\ pc' = "mdulhdr"
        /\ UNCHANGED <<pos, i, err, lost>>
    BY <1>4 DEF CreateFiles
  <2>2. i \in {0, 1}
    <3>1. i \in {0, 1, 2} /\ Len(image) = 2
      BY <2>1 DEF Progress, Working, Round, Known2
    <3> QED BY <2>1, <3>1
  <2> QED BY <1>0, <2>1, <2>2 DEF Progress, Round, Working
<1>5. CASE CreateFails
  BY <1>1, <1>5 DEF CreateFails
<1>6. CASE ReadModuleHeader
  <2>1. CASE Die
    BY <1>1, <2>1
  <2>2. CASE ~Die
    <3>1. pc = "mdulhdr" /\ pos' = pos + 1 /\ pc' = "magic" /\ UNCHANGED <<i, mdl, err>>
      BY <1>6, <2>2 DEF ReadModuleHeader
    <3>2. lost' \in BOOLEAN
      BY <1>6, <2>2 DEF ReadModuleHeader, Dump, Progress
    <3> QED BY <1>0, <3>1, <3>2 DEF Progress, Round, Working
  <2> QED BY <2>1, <2>2
<1>7. CASE CheckMagic
  <2>1. pc = "magic" /\ UNCHANGED <<pos, mdl, lost>> /\ pos = Start(i) + 1 /\ Known2 /\ i \in {0, 1} /\ mdl = i /\ err = 0
    BY <1>7 DEF CheckMagic, Progress, Round, Working
  <2>2. \/ pc' = "data" /\ UNCHANGED <<err, i>>
        \/ err' = 1 /\ pc' = "loop" /\ i' = i + 1
    BY <1>7 DEF CheckMagic
  <2>3. Start(i) + 1 \in Start(i) + 1 .. Start(i + 1)
    BY <2>1, StartFacts
  <2> QED BY <1>0, <2>1, <2>2, <2>3 DEF Progress, Round, Working
<1>8. CASE DumpBlock
  <2>1. CASE Die
    BY <1>1, <2>1
  <2>2. CASE ~Die
    <3>1. pc = "data" /\ BlocksLeft /\ pos' = pos + 1 /\ UNCHANGED <<i, mdl, err, pc>>
      BY <1>8, <2>2 DEF DumpBlock
    <3>2. lost' \in BOOLEAN
      BY <1>8, <2>2 DEF DumpBlock, Dump, Progress
    <3>3. Known2 /\ mdl = i /\ i \in {0, 1} /\ pos \in Start(i) + 1 .. Start(i + 1)
      BY <3>1 DEF Progress, Round, Working
    <3>4. Start(i) \in Nat /\ Start(i + 1) \in Nat /\ pos < Start(i + 1)
      BY <3>1, <3>3, NextUnit, StartFacts
    <3>5. pos' \in Start(i) + 1 .. Start(i + 1)
      BY <3>1, <3>3, <3>4
    <3> QED BY <1>0, <3>1, <3>2, <3>3, <3>5 DEF Progress, Round, Working
  <2> QED BY <2>1, <2>2
<1>9. CASE CheckDigest
  <2>1. CASE Die
    BY <1>1, <2>1
  <2>2. CASE ~Die
    <3>1. pc = "data" /\ ~BlocksLeft /\ DigestOk(mdl) /\ i' = i + 1 /\ pc' = "loop" /\ UNCHANGED <<pos, mdl, err, lost>>
      BY <1>9, <2>2 DEF CheckDigest
    <3>2. /\ Known2 /\ mdl = i /\ i \in {0, 1} /\ pos \in Start(i) + 1 .. Start(i + 1)
          /\ \A m \in 0 .. i - 1 : Module(m).digest = "good"
      BY <3>1 DEF Progress, Round, Working
    <3>3. pos = Start(i + 1)
      BY <3>1, <3>2, NextUnit
    <3>4. \A m \in 0 .. i' - 1 : Module(m).digest = "good"
      <4> TAKE m \in 0 .. i' - 1
      <4>1. m \in 0 .. i - 1 \/ m = i
        BY <3>1, <3>2
      <4> QED BY <3>1, <3>2, <4>1 DEF DigestOk
    <3> QED BY <1>0, <3>1, <3>2, <3>3, <3>4 DEF Progress, Round, Working
  <2> QED BY <2>1, <2>2
<1>10. CASE Return
  <2>1. pc = "loop" /\ pc' = "returned" /\ (err # 0 \/ i = Len(image)) /\ UNCHANGED <<pos, i, mdl, err, lost>>
    BY <1>10 DEF Return
  <2>2. err = 0 => i = 2
    BY <2>1 DEF Progress, Working, Known2
  <2> QED BY <1>0, <2>1, <2>2 DEF Progress, Round, Working
<1> QED BY <1>2, <1>3, <1>4, <1>5, <1>6, <1>7, <1>8, <1>9, <1>10 DEF Next

-----------------------------------------------------------------------------
(* The descriptors.                                                        *)

LEMMA FreeFacts ==
  ASSUME NEW tab
  PROVE  /\ DOMAIN tab = {} => Free(tab) = 4
         /\ DOMAIN tab = {4} => Free(tab) = 5
<1> DEFINE P(fd) == fd \in 4 .. 7 /\ fd \notin DOMAIN tab /\ \A g \in 4 .. fd - 1 : g \in DOMAIN tab
<1>1. Free(tab) = CHOOSE fd : P(fd)
  BY DEF Free
<1>2. ASSUME DOMAIN tab = {} PROVE P(4) /\ \A fd : P(fd) => fd = 4
  <2>1. P(4)
    BY <1>2
  <2>2. ASSUME NEW fd, P(fd) PROVE fd = 4
    <3>1. ~(4 \in 4 .. fd - 1)
      BY <1>2, <2>2
    <3> QED BY <2>2, <3>1
  <2> QED BY <2>1, <2>2
<1>3. ASSUME DOMAIN tab = {4} PROVE P(5) /\ \A fd : P(fd) => fd = 5
  <2>1. P(5)
    BY <1>3
  <2>2. ASSUME NEW fd, P(fd) PROVE fd = 5
    <3>1. ~(5 \in 4 .. fd - 1) /\ fd # 4
      BY <1>3, <2>2
    <3> QED BY <2>2, <3>1
  <2> QED BY <2>1, <2>2
<1>4. ASSUME DOMAIN tab = {} PROVE Free(tab) = 4
  <2> HIDE DEF P
  <2> QED BY <1>1, <1>2, <1>4
<1>5. ASSUME DOMAIN tab = {4} PROVE Free(tab) = 5
  <2> HIDE DEF P
  <2> QED BY <1>1, <1>3, <1>5
<1> QED BY <1>4, <1>5

\* A round closes the last one's descriptors, gets the same numbers again, and truncates
\* its own files.
LEMMA CreateFacts ==
  ASSUME Progress, Descriptors, CreateFiles
  PROVE  /\ curDumpFd' = 4 /\ curHdrDumpFd' = (IF split THEN 5 ELSE 0) /\ lastcurDumpFd' = 0
         /\ DOMAIN open' = (IF split THEN {4, 5} ELSE {4})
         /\ open'[4] = Body(Type') /\ (split => open'[5] = Hdr(Type'))
         /\ files' = [f \in Files \cup RoundFiles(Type') |-> IF f \in RoundFiles(Type') THEN <<>> ELSE files[f]]
         /\ mdl' = i /\ pc' = "mdulhdr" /\ UNCHANGED <<image, split, pos, dir, i, err, lost>>
         /\ pc = "loop" /\ err = 0 /\ i < Len(image)
<1> DEFINE closed == Closed(Closed(open, curDumpFd), curHdrDumpFd)
<1>1. DOMAIN closed = {}
  <2>1. CASE mdl = -1
    BY <2>1 DEF Descriptors, Closed
  <2>2. CASE mdl # -1 /\ split
    BY <2>2 DEF Descriptors, Closed
  <2>3. CASE mdl # -1 /\ ~split
    BY <2>3 DEF Descriptors, Closed
  <2> QED BY <2>1, <2>2, <2>3
<1> DEFINE body == Free(closed)
           one(t) == Opened(closed, body, <<dir, t, "x.out">>)
           hdr(t) == Free(one(t))
           two(t) == Opened(one(t), hdr(t), <<dir, t, "x-out">>)
           tab(t) == IF split THEN two(t) ELSE one(t)
           created(t) == {tab(t)[fd] : fd \in {body} \cup (IF split THEN {hdr(t)} ELSE {})}
<1>2. PICK type \in NameTypes :
           /\ curDumpFd' = body
           /\ curHdrDumpFd' = IF split THEN hdr(type) ELSE 0
           /\ lastcurDumpFd' = CurrentDumpFd(0, 0, lastcurDumpFd).last
           /\ open' = tab(type)
           /\ files' = [f \in Files \cup created(type) |-> IF f \in created(type) THEN <<>> ELSE files[f]]
  BY DEF CreateFiles
<1> HIDE DEF closed
<1>3. body = 4
  BY <1>1, FreeFacts
<1> HIDE DEF body
<1>4. DOMAIN one(type) = {4} /\ one(type)[4] = Body(type)
  BY <1>1, <1>3 DEF Opened, Body
<1> HIDE DEF one
<1>5. hdr(type) = 5
  BY <1>4, FreeFacts
<1> HIDE DEF hdr
<1>6. DOMAIN two(type) = {4, 5} /\ two(type)[4] = Body(type) /\ two(type)[5] = Hdr(type)
  BY <1>4, <1>5 DEF Opened, Hdr
<1> HIDE DEF two
<1>7. lastcurDumpFd' = 0
  BY <1>2 DEF CurrentDumpFd, Descriptors
<1>9. DOMAIN tab(type) = (IF split THEN {4, 5} ELSE {4}) /\ tab(type)[4] = Body(type) /\ (split => tab(type)[5] = Hdr(type))
  BY <1>4, <1>6
<1> HIDE DEF tab
<1>10. created(type) = RoundFiles(type)
  <2>1. CASE split
    BY <1>3, <1>5, <1>9, <2>1 DEF RoundFiles
  <2>2. CASE ~split
    BY <1>3, <1>9, <2>2 DEF RoundFiles
  <2> QED BY <2>1, <2>2
<1> HIDE DEF created
<1>11. UNCHANGED <<image, split, pos, dir, i, err, lost>> /\ mdl' = i /\ pc' = "mdulhdr"
       /\ pc = "loop" /\ err = 0 /\ i < Len(image)
  BY DEF CreateFiles, args
<1>12. Type' = type
  BY <1>2, <1>9 DEF Type, Body
<1> QED BY <1>2, <1>3, <1>5, <1>7, <1>9, <1>10, <1>11, <1>12

\* A dump goes to the round's first descriptor for the header, and for a block with -s
\* to the other.
At == IF pc = "mdulhdr" THEN Body(Type) ELSE Target

LEMMA DumpFacts ==
  ASSUME Progress, Descriptors, InFiles, pc \in {"mdulhdr", "data"}, NEW u, Dump(u)
  PROVE  /\ UNCHANGED <<curDumpFd, curHdrDumpFd, open>> /\ lastcurDumpFd' = (IF split THEN 4 ELSE 0)
         /\ At \in RoundFiles(Type) /\ At \in Files
         /\ \/ files' = [files EXCEPT ![At] = Append(@, u)] /\ lost' = lost
            \/ files' = files /\ lost' = TRUE
<1> DEFINE current == CurrentDumpFd(curDumpFd, curHdrDumpFd, lastcurDumpFd)
<1>1. mdl \in {0, 1}
  BY DEF Progress, Round, Working
<1>2. /\ curDumpFd = 4 /\ curHdrDumpFd = (IF split THEN 5 ELSE 0)
      /\ open[4] = Body(Type) /\ (split => open[5] = Hdr(Type)) /\ RoundFiles(Type) \subseteq Files
      /\ (~split => lastcurDumpFd = 0)
  BY <1>1 DEF Descriptors
<1>3. current.last = (IF split THEN 4 ELSE 0) /\ open[current.fd] = At
  <2>1. CASE ~split
    BY <1>2, <2>1 DEF CurrentDumpFd, At, Target
  <2>2. CASE split /\ pc = "mdulhdr"
    <3>1. lastcurDumpFd = 0
      BY <2>2 DEF InFiles
    <3> QED BY <1>2, <2>2, <3>1 DEF CurrentDumpFd, At
  <2>3. CASE split /\ pc = "data"
    <3>1. lastcurDumpFd = 4
      BY <2>3 DEF InFiles
    <3> QED BY <1>2, <2>3, <3>1 DEF CurrentDumpFd, At, Target
  <2> QED BY <2>1, <2>2, <2>3
<1>4. At \in RoundFiles(Type) /\ At \in Files
  BY <1>2 DEF At, Target, RoundFiles
<1>5. /\ lastcurDumpFd' = current.last /\ UNCHANGED <<curDumpFd, curHdrDumpFd, open>>
      /\ \/ files' = [files EXCEPT ![open[current.fd]] = Append(@, u)] /\ UNCHANGED lost
         \/ lost' = TRUE /\ UNCHANGED files
  BY Zenon DEF Dump
<1> QED BY <1>3, <1>4, <1>5

LEMMA DescriptorsStep ==
  ASSUME Progress, Descriptors, InFiles, Next
  PROVE  Descriptors'
<1> USE DEF args, fds
<1>1. ASSUME UNCHANGED <<split, dir, mdl, curDumpFd, curHdrDumpFd, lastcurDumpFd, open, files>> PROVE Descriptors'
  BY <1>1 DEF Descriptors, Type, RoundFiles, Body, Hdr, Files
<1>2. CASE PrepareOutputDir \/ ReadHeader
  <2>1. pc \in {"prepare", "header"} /\ UNCHANGED <<split, mdl, curDumpFd, curHdrDumpFd, lastcurDumpFd, open, files>>
    BY <1>2 DEF PrepareOutputDir, ReadHeader, Die
  <2> QED BY <2>1 DEF Descriptors, Progress, Files
<1>3. CASE CreateFails \/ CheckMagic \/ CheckDigest \/ Return
  BY <1>1, <1>3 DEF CreateFails, CheckMagic, CheckDigest, Return, Die
<1>4. CASE CreateFiles
  <2>1. mdl' \in {0, 1}
    <3>1. i \in {0, 1, 2} /\ Len(image) = 2 /\ i < Len(image) /\ mdl' = i
      BY <1>4 DEF CreateFiles, Progress, Working, Round, Known2
    <3> QED BY <3>1
  <2>2. /\ curDumpFd' = 4 /\ curHdrDumpFd' = (IF split THEN 5 ELSE 0) /\ lastcurDumpFd' = 0
        /\ DOMAIN open' = (IF split THEN {4, 5} ELSE {4})
        /\ open'[4] = Body(Type') /\ (split => open'[5] = Hdr(Type'))
        /\ files' = [f \in Files \cup RoundFiles(Type') |-> IF f \in RoundFiles(Type') THEN <<>> ELSE files[f]]
        /\ UNCHANGED <<split, dir>>
    BY <1>4, CreateFacts
  <2>3. DOMAIN files' = Files \cup RoundFiles(Type')
    BY <2>2
  <2>4. Body(Type)' = Body(Type') /\ Hdr(Type)' = Hdr(Type') /\ RoundFiles(Type)' = RoundFiles(Type')
    BY <2>2 DEF Body, Hdr, RoundFiles
  <2>5. mdl' # -1
    BY <2>1
  <2> QED BY <2>1, <2>2, <2>3, <2>4, <2>5 DEF Descriptors, Files
<1>5. CASE ReadModuleHeader \/ DumpBlock
  <2>1. CASE Die
    BY <1>1, <2>1 DEF Die
  <2>2. CASE ~Die
    <3>1. PICK u : Dump(u) /\ pc \in {"mdulhdr", "data"} /\ UNCHANGED <<split, dir, mdl>>
      BY <1>5, <2>2 DEF ReadModuleHeader, DumpBlock
    <3>2. /\ UNCHANGED <<curDumpFd, curHdrDumpFd, open>> /\ lastcurDumpFd' = (IF split THEN 4 ELSE 0)
          /\ DOMAIN files' = DOMAIN files
      BY <3>1, DumpFacts
    <3> QED BY <3>1, <3>2 DEF Descriptors, Type, RoundFiles, Body, Hdr, Files
  <2> QED BY <2>1, <2>2
<1> QED BY <1>2, <1>3, <1>4, <1>5 DEF Next

-----------------------------------------------------------------------------
(* The units in the files.                                                 *)

LEMMA GoodAppend ==
  ASSUME NEW s \in Seq(Units), Good(s), NEW u \in Units,
         \A k \in 1 .. Len(s) : s[k].mod = u.mod /\ s[k].block < u.block /\ (split => s[k].kind = u.kind)
  PROVE  Good(Append(s, u))
<1> DEFINE n == Len(s)
           t == Append(s, u)
<1>1. n \in Nat /\ Len(t) = n + 1 /\ t[n + 1] = u /\ \A k \in 1 .. n : t[k] = s[k]
  OBVIOUS
<1>2. u.block \in Nat /\ \A k \in 1 .. n : s[k].block \in Nat
  <2>1. \A k \in 1 .. n : s[k] \in Units
    OBVIOUS
  <2> QED BY <2>1 DEF Units
<1> HIDE DEF t, n
<1>3. ASSUME NEW a \in 1 .. Len(t), NEW b \in 1 .. Len(t)
      PROVE  t[a].mod = t[b].mod /\ (a < b => t[a].block < t[b].block) /\ (split => t[a].kind = t[b].kind)
  <2>1. (a \in 1 .. n \/ a = n + 1) /\ (b \in 1 .. n \/ b = n + 1)
    BY <1>1
  <2>2. CASE a \in 1 .. n /\ b \in 1 .. n
    BY <1>1, <2>2 DEF Good, n
  <2>3. CASE a \in 1 .. n /\ b = n + 1
    BY <1>1, <2>3 DEF n
  <2>4. CASE a = n + 1 /\ b \in 1 .. n
    <3>1. ~(a < b)
      BY <1>1, <2>4
    <3> QED BY <1>1, <2>4, <3>1 DEF n
  <2>5. CASE a = n + 1 /\ b = n + 1
    <3>1. ~(a < b)
      BY <1>1, <2>5
    <3> QED BY <2>5, <3>1
  <2> QED BY <2>1, <2>2, <2>3, <2>4, <2>5
<1> QED BY <1>3 DEF Good, t

\* What a dump that is not refused does to the files.
LEMMA DumpFiles ==
  ASSUME Progress, Descriptors, InFiles, pc \in {"mdulhdr", "data"}, NEW u \in Units, Dump(u), split' = split,
         \A k \in 1 .. Len(files[At]) :
           files[At][k].mod = u.mod /\ files[At][k].block < u.block /\ (split => files[At][k].kind = u.kind)
  PROVE  /\ \A f \in Files' : files'[f] \in Seq(Units) /\ Good(files[f])'
         /\ \A f \in Files : f # At => files'[f] = files[f]
         /\ files'[At] = files[At] \/ files'[At] = Append(files[At], u)
<1>1. /\ At \in Files
      /\ \/ files' = [files EXCEPT ![At] = Append(@, u)] /\ lost' = lost
         \/ files' = files /\ lost' = TRUE
  BY DumpFacts
<1>2. \A s : Good(s)' <=> Good(s)
  BY DEF Good
<1>3. \A f \in Files : files[f] \in Seq(Units) /\ Good(files[f])
  BY DEF InFiles
<1>4. Append(files[At], u) \in Seq(Units) /\ Good(Append(files[At], u))
  <2>1. files[At] \in Seq(Units) /\ Good(files[At])
    BY <1>1, <1>3
  <2> QED BY <2>1, GoodAppend
<1>5. DOMAIN files' = DOMAIN files
  BY <1>1
<1>6. \A f \in Files : f # At => files'[f] = files[f]
  BY <1>1 DEF Files
<1>7. files'[At] = files[At] \/ files'[At] = Append(files[At], u)
  BY <1>1 DEF Files
<1>8. ASSUME NEW f \in Files' PROVE files'[f] \in Seq(Units) /\ Good(files'[f])
  <2>1. f \in Files
    BY <1>5 DEF Files
  <2>2. CASE f = At
    BY <1>1, <1>3, <1>4, <1>7, <2>2
  <2>3. CASE f # At
    BY <1>3, <1>6, <2>1, <2>3
  <2> QED BY <2>2, <2>3
<1>9. ASSUME NEW f \in Files' PROVE Good(files[f])'
  BY <1>8, <1>9 DEF Good
<1> QED BY <1>6, <1>7, <1>8, <1>9

LEMMA FilesStep ==
  ASSUME Progress, Descriptors, InFiles, Next
  PROVE  InFiles'
<1> USE DEF args, fds
<1>1. ASSUME UNCHANGED <<split, files>>, pc' \notin {"mdulhdr", "magic", "data"} PROVE InFiles'
  BY <1>1 DEF InFiles, Files, Good
<1>2. CASE PrepareOutputDir \/ ReadHeader \/ CreateFails \/ CheckDigest \/ Return
  BY <1>1, <1>2 DEF PrepareOutputDir, ReadHeader, CreateFails, CheckDigest, Return, Die
<1>3. CASE CheckMagic
  <2>1. /\ pc = "magic" /\ pc' \in {"data", "loop"}
        /\ UNCHANGED <<image, split, dir, pos, mdl, files, open, lastcurDumpFd>>
    BY <1>3 DEF CheckMagic
  <2>2. Target' = Target /\ (split => lastcurDumpFd = 4) /\ \A k \in 1 .. Len(files[Target]) : Before(files[Target][k])
    BY <2>1 DEF InFiles, Target, Type, Body, Hdr
  <2>3. \A u : Before(u)' <=> Before(u)
    BY <2>1 DEF Before, Start
  <2>4. \A k \in 1 .. Len(files'[Target']) : Before(files[Target][k])'
    <3>1. files'[Target'] = files[Target]
      BY <2>1, <2>2
    <3> TAKE k \in 1 .. Len(files'[Target'])
    <3>2. k \in 1 .. Len(files[Target]) /\ files'[Target'][k] = files[Target][k]
      BY <3>1
    <3>3. Before(files[Target][k])
      BY <2>2, <3>2
    <3> QED BY <2>1, <3>2, <3>3 DEF Before, Start
  <2> QED BY <2>1, <2>2, <2>4 DEF InFiles, Files, Good
<1>4. CASE CreateFiles
  <2>1. /\ lastcurDumpFd' = 0 /\ pc' = "mdulhdr" /\ split' = split /\ dir' = dir
        /\ files' = [f \in Files \cup RoundFiles(Type') |-> IF f \in RoundFiles(Type') THEN <<>> ELSE files[f]]
    BY <1>4, CreateFacts
  <2>2. RoundFiles(Type)' = RoundFiles(Type')
    BY <2>1 DEF Body, Hdr, RoundFiles
  <2>3. Files' = Files \cup RoundFiles(Type')
    BY <2>1 DEF Files
  <2>4. ASSUME NEW f \in Files' PROVE files'[f] \in Seq(Units) /\ Good(files'[f])
    <3>1. CASE f \in RoundFiles(Type')
      BY <2>1, <2>3, <3>1 DEF Good
    <3>2. CASE f \notin RoundFiles(Type')
      <4>1. f \in Files /\ files'[f] = files[f]
        BY <2>1, <2>3, <3>2
      <4> QED BY <4>1 DEF InFiles
    <3> QED BY <3>1, <3>2
  <2>5. ASSUME NEW f \in Files' PROVE Good(files[f])'
    <3>1. Good(files'[f]) /\ split' = split
      BY <2>1, <2>4, <2>5
    <3> QED BY <3>1 DEF Good
  <2>6. \A f \in RoundFiles(Type') : files'[f] = <<>>
    BY <2>1
  <2> QED BY <2>1, <2>2, <2>4, <2>5, <2>6 DEF InFiles
<1>5. CASE ReadModuleHeader
  <2>1. CASE Die
    BY <1>1, <2>1 DEF Die
  <2>2. CASE ~Die
    <3> DEFINE u == Stream(image)[pos + 1]
    <3>1. pc = "mdulhdr" /\ pos' = pos + 1 /\ pc' = "magic" /\ UNCHANGED <<image, split, dir, mdl>> /\ Dump(u)
      BY <1>5, <2>2 DEF ReadModuleHeader
    <3>2. Known2 /\ i \in {0, 1} /\ mdl = i /\ pos = Start(i)
      BY <3>1 DEF Progress, Round, Working
    <3>3. u = Unit("hdr", i, 0) /\ Start(i) \in Nat
      BY <3>2, StreamFacts
    <3>4. u \in Units /\ u.mod = mdl /\ u.block = 0 /\ u.kind = "hdr"
      BY <3>2, <3>3 DEF Unit, Units
    <3> HIDE DEF u
    <3>5. lastcurDumpFd' = (IF split THEN 4 ELSE 0) /\ At \in RoundFiles(Type) /\ open' = open /\ At = Body(Type)
      BY <3>1, DumpFacts DEF At
    <3>6. \A f \in RoundFiles(Type) : files[f] = <<>> /\ f \in Files
      BY <3>1, <3>2 DEF InFiles, Descriptors
    <3>7. \A f \in Files' : files'[f] \in Seq(Units) /\ Good(files[f])'
      BY <3>1, <3>4, <3>5, <3>6, DumpFiles
    <3>8. /\ \A f \in Files : f # At => files'[f] = files[f]
          /\ files'[At] = files[At] \/ files'[At] = Append(files[At], u)
      BY <3>1, <3>4, <3>5, <3>6, DumpFiles
    <3>9. Target' = Target /\ Target \in RoundFiles(Type)
      BY <3>1, <3>5 DEF Target, Type, Body, Hdr, RoundFiles
    <3>10. pos' - Start(mdl)' = 1
      BY <3>1, <3>2, <3>3 DEF Start
    <3>11. \A k \in 1 .. Len(files'[Target]) : files'[Target][k] = u /\ ~split
      <4>1. CASE split
        <5>1. Target # At
          BY <3>5, <4>1 DEF Target, Body, Hdr
        <5>2. files'[Target] = <<>>
          BY <3>6, <3>8, <3>9, <5>1
        <5> QED BY <5>2
      <4>2. CASE ~split
        <5>1. Target = At
          BY <3>5, <4>2 DEF Target
        <5>2. files'[Target] = <<>> \/ files'[Target] = Append(<<>>, u)
          BY <3>6, <3>8, <3>9, <5>1
        <5>3. \A k \in 1 .. Len(<<>>) : FALSE
          OBVIOUS
        <5>4. \A k \in 1 .. Len(Append(<<>>, u)) : Append(<<>>, u)[k] = u
          OBVIOUS
        <5> QED BY <4>2, <5>2, <5>3, <5>4
      <4> QED BY <4>1, <4>2
    <3>12. \A k \in 1 .. Len(files'[Target']) : Before(files[Target][k])'
      <4> TAKE k \in 1 .. Len(files'[Target'])
      <4>1. files'[Target'][k] = u /\ ~split
        BY <3>9, <3>11
      <4> QED BY <3>1, <3>4, <3>10, <4>1 DEF Before
    <3> QED BY <3>1, <3>5, <3>7, <3>12 DEF InFiles
  <2> QED BY <2>1, <2>2
<1>6. CASE DumpBlock
  <2>1. CASE Die
    BY <1>1, <2>1 DEF Die
  <2>2. CASE ~Die
    <3> DEFINE u == Stream(image)[pos + 1]
    <3>1. pc = "data" /\ BlocksLeft /\ pos' = pos + 1 /\ UNCHANGED <<image, split, dir, mdl, pc>> /\ Dump(u)
      BY <1>6, <2>2 DEF DumpBlock
    <3>2. Known2 /\ mdl = i /\ i \in {0, 1} /\ pos \in Start(i) + 1 .. Start(i + 1)
      BY <3>1 DEF Progress, Round, Working
    <3>3. u = Unit("data", i, pos - Start(i)) /\ Start(i) \in Nat /\ pos \in Nat /\ pos - Start(i) \in Nat
      <4>1. Start(i) \in Nat /\ Start(i + 1) \in Nat
        BY <3>2, StartFacts
      <4>2. pos \in Nat /\ pos - Start(i) \in Nat
        BY <3>2, <4>1
      <4> QED BY <3>1, <3>2, <4>1, <4>2, NextUnit
    <3>4. u \in Units /\ u.mod = mdl /\ u.block = pos - Start(mdl) /\ u.kind = "data"
      BY <3>2, <3>3 DEF Unit, Units
    <3> HIDE DEF u
    <3>5. lastcurDumpFd' = (IF split THEN 4 ELSE 0) /\ At \in Files /\ open' = open /\ At = Target
      BY <3>1, DumpFacts DEF At
    <3>6. \A k \in 1 .. Len(files[Target]) : Before(files[Target][k])
      BY <3>1 DEF InFiles
    <3>7. \A k \in 1 .. Len(files[At]) :
            files[At][k].mod = u.mod /\ files[At][k].block < u.block /\ (split => files[At][k].kind = u.kind)
      BY <3>4, <3>5, <3>6 DEF Before
    <3>8. \A f \in Files' : files'[f] \in Seq(Units) /\ Good(files[f])'
      BY <3>1, <3>4, <3>7, DumpFiles
    <3>9. files'[At] = files[At] \/ files'[At] = Append(files[At], u)
      BY <3>1, <3>4, <3>7, DumpFiles
    <3>10. Target' = Target
      BY <3>1, <3>5 DEF Target, Type, Body, Hdr
    <3>11. pos' - Start(mdl)' = (pos - Start(mdl)) + 1
      BY <3>1, <3>2, <3>3 DEF Start
    <3>12. pos - Start(mdl) \in Nat
      BY <3>2, <3>3
    <3>13. files[At] \in Seq(Units)
      BY <3>5 DEF InFiles
    <3>14. \A k \in 1 .. Len(files'[At]) :
             \/ files'[At][k] = u
             \/ k \in 1 .. Len(files[At]) /\ files'[At][k] = files[At][k]
      <4>1. \A s \in Seq(Units) : \A k \in 1 .. Len(Append(s, u)) :
               Append(s, u)[k] = u \/ (k \in 1 .. Len(s) /\ Append(s, u)[k] = s[k])
        BY <3>4
      <4> QED BY <3>9, <3>13, <4>1
    <3>15. \A k \in 1 .. Len(files'[Target']) : Before(files[Target][k])'
      <4> TAKE k \in 1 .. Len(files'[Target'])
      <4> DEFINE v == files'[Target'][k]
      <4>1. v.mod = mdl /\ v.block \in Nat /\ v.block < (pos - Start(mdl)) + 1 /\ (split => v.kind = "data")
        <5>1. CASE v = u
          BY <3>4, <3>12, <5>1
        <5>2. CASE k \in 1 .. Len(files[At]) /\ v = files[At][k]
          <6>1. v \in Units /\ Before(v)
            BY <3>5, <3>6, <3>13, <5>2
          <6> QED BY <3>12, <6>1 DEF Units, Before
        <5> QED BY <3>5, <3>10, <3>14, <5>1, <5>2
      <4> HIDE DEF v
      <4> QED BY <3>1, <3>11, <4>1 DEF Before, v
    <3> QED BY <3>1, <3>5, <3>8, <3>15 DEF InFiles
  <2> QED BY <2>1, <2>2
<1> QED BY <1>2, <1>3, <1>4, <1>5, <1>6 DEF Next

-----------------------------------------------------------------------------
(* What the files keep.                                                    *)

LEMMA SetAppend ==
  ASSUME NEW T, NEW s \in Seq(T), NEW e \in T
  PROVE  ToSet(Append(s, e)) = ToSet(s) \cup {e}
<1>1. /\ Len(s) \in Nat /\ DOMAIN s = 1 .. Len(s) /\ DOMAIN Append(s, e) = 1 .. Len(s) + 1
      /\ Append(s, e)[Len(s) + 1] = e /\ \A k \in 1 .. Len(s) : Append(s, e)[k] = s[k]
  OBVIOUS
<1>2. \A k \in 1 .. Len(s) + 1 : k \in 1 .. Len(s) \/ k = Len(s) + 1
  BY <1>1
<1>3. Len(s) + 1 \in 1 .. Len(s) + 1 /\ \A k \in 1 .. Len(s) : k \in 1 .. Len(s) + 1
  BY <1>1
<1> QED BY <1>1, <1>2, <1>3 DEF ToSet

\* Files that only grow keep what they hold.
Grow(names) == \A f \in names : ToSet(files[f]) \subseteq ToSet(files'[f])

LEMMA HoldsGrow ==
  ASSUME image' = image, NEW names, NEW a, NEW b, Holds(names, a, b), Grow(names)
  PROVE  \A k \in a + 1 .. b : \E f \in names : Stream(image)[k] \in ToSet(files'[f])
BY DEF Holds, Grow

LEMMA HoldsSame ==
  ASSUME UNCHANGED <<image, split, dir, open, files, pos, mdl, lost>>, Working' => Working, Kept1
  PROVE  Kept1'
<1>1. Type' = Type /\ Files' = Files /\ \A t : RoundFiles(t)' = RoundFiles(t)
  BY DEF Type, Files, RoundFiles, Body, Hdr
<1>2. \A m : Start(m)' = Start(m)
  BY DEF Start
<1>3. \A names, a, b : Holds(names, a, b)' <=> Holds(names, a, b)
  BY DEF Holds
<1>4. RoundFiles(Type)' = RoundFiles(Type) /\ Start(mdl)' = Start(mdl) /\ Start(0)' = Start(0) /\ Start(1)' = Start(1)
  BY <1>1, <1>2 DEF RoundFiles, Body, Hdr, Start
<1>5. Holds(RoundFiles(Type), Start(mdl), pos)' <=> Holds(RoundFiles(Type), Start(mdl), pos)
  BY <1>4 DEF Holds
<1>6. \A t : Holds(RoundFiles(t), Start(0), Start(1))' <=> Holds(RoundFiles(t), Start(0), Start(1))
  BY <1>1, <1>4 DEF Holds
<1> QED BY <1>1, <1>4, <1>5, <1>6 DEF Kept1

LEMMA KeptDump ==
  ASSUME Progress, Descriptors, InFiles, Kept1, Working, NEW u \in Units, u = Stream(image)[pos + 1], Dump(u),
         pc \in {"mdulhdr", "data"}, pos' = pos + 1, pos \in Nat, Start(mdl) \in Nat,
         UNCHANGED <<image, split, dir, mdl>>
  PROVE  Kept1'
<1>1. /\ UNCHANGED open /\ At \in RoundFiles(Type) /\ At \in Files
      /\ \/ files' = [files EXCEPT ![At] = Append(@, u)] /\ lost' = lost
         \/ files' = files /\ lost' = TRUE
  BY DumpFacts
<1>2. Type' = Type /\ Files' = Files /\ \A t : RoundFiles(t)' = RoundFiles(t)
  BY <1>1 DEF Type, Files, RoundFiles, Body, Hdr
<1>3. RoundFiles(Type)' = RoundFiles(Type) /\ Start(mdl)' = Start(mdl) /\ Start(0)' = Start(0) /\ Start(1)' = Start(1)
  BY <1>2 DEF RoundFiles, Body, Hdr, Start
<1>4. ASSUME ~lost'
      PROVE  /\ ~lost /\ u \in ToSet(files'[At])
             /\ \A f \in Files : ToSet(files[f]) \subseteq ToSet(files'[f])
  <2>1. files' = [files EXCEPT ![At] = Append(@, u)] /\ lost' = lost
    BY <1>1, <1>4
  <2>2. files[At] \in Seq(Units)
    BY <1>1 DEF InFiles
  <2>3. ToSet(Append(files[At], u)) = ToSet(files[At]) \cup {u}
    BY <2>2, SetAppend
  <2>4. files'[At] = Append(files[At], u) /\ \A f \in Files : f # At => files'[f] = files[f]
    BY <1>1, <2>1 DEF Files
  <2> QED BY <1>4, <2>1, <2>3, <2>4
<1>5. \A t : ~lost' /\ RoundFiles(t) \subseteq Files => Grow(RoundFiles(t))
  BY <1>4 DEF Grow
<1>6. mdl # -1 /\ ~lost' => Holds(RoundFiles(Type), Start(mdl), pos)'
  <2> SUFFICES ASSUME mdl # -1, ~lost' PROVE Holds(RoundFiles(Type), Start(mdl), pos)'
    OBVIOUS
  <2>1. RoundFiles(Type) \subseteq Files
    BY DEF Descriptors
  <2>2. Holds(RoundFiles(Type), Start(mdl), pos)
    BY <1>4 DEF Kept1
  <2>3. \A k \in Start(mdl) + 1 .. pos : \E f \in RoundFiles(Type) : Stream(image)[k] \in ToSet(files'[f])
    BY <1>5, <2>1, <2>2, HoldsGrow
  <2>4. \A k \in Start(mdl) + 1 .. pos + 1 : k \in Start(mdl) + 1 .. pos \/ k = pos + 1
    OBVIOUS
  <2>5. \A k \in Start(mdl) + 1 .. pos + 1 : \E f \in RoundFiles(Type) : Stream(image)[k] \in ToSet(files'[f])
    BY <1>1, <1>4, <2>3, <2>4
  <2> QED BY <1>3, <2>5 DEF Holds
<1>7. mdl = 0 => Files' = RoundFiles(Type)'
  BY <1>2, <1>3 DEF Kept1
<1>8. mdl = 1 => \E t : /\ Files' = RoundFiles(t)' \cup RoundFiles(Type)'
                        /\ t # Type' /\ ~lost' => Holds(RoundFiles(t), Start(0), Start(1))'
  <2> SUFFICES ASSUME mdl = 1
               PROVE  \E t : /\ Files' = RoundFiles(t)' \cup RoundFiles(Type)'
                             /\ t # Type' /\ ~lost' => Holds(RoundFiles(t), Start(0), Start(1))'
    OBVIOUS
  <2>1. PICK t : /\ Files = RoundFiles(t) \cup RoundFiles(Type)
                 /\ t # Type /\ ~lost => Holds(RoundFiles(t), Start(0), Start(1))
    <3>1. Working /\ mdl = 1
      BY <1>4
    <3> QED BY <3>1, Zenon DEF Kept1
  <2>2. ASSUME t # Type, ~lost' PROVE Holds(RoundFiles(t), Start(0), Start(1))'
    <3>1. Holds(RoundFiles(t), Start(0), Start(1)) /\ Grow(RoundFiles(t))
      BY <1>4, <1>5, <2>1, <2>2
    <3>2. \A k \in Start(0) + 1 .. Start(1) : \E f \in RoundFiles(t) : Stream(image)[k] \in ToSet(files'[f])
      BY <3>1, HoldsGrow
    <3> QED BY <1>2, <1>3, <3>2 DEF Holds
  <2>3. Files' = RoundFiles(t)' \cup RoundFiles(Type)'
    BY <1>2, <1>3, <2>1
  <2> QED BY <1>2, <2>2, <2>3
<1> QED BY <1>6, <1>7, <1>8 DEF Kept1

LEMMA KeptStep ==
  ASSUME Progress, Descriptors, InFiles, Kept1, Next
  PROVE  Kept1'
<1> USE DEF args, fds
<1>1. CASE PrepareOutputDir \/ ReadHeader
  <2>1. mdl' = -1
    BY <1>1 DEF PrepareOutputDir, ReadHeader, Die, Progress
  <2> QED BY <2>1 DEF Kept1
<1>2. CASE CreateFails \/ CheckMagic \/ CheckDigest \/ Return
  <2>1. UNCHANGED <<image, split, dir, open, files, pos, mdl, lost>>
    BY <1>2 DEF CreateFails, CheckMagic, CheckDigest, Return, Die
  <2>2. Working' => Working
    BY <1>2 DEF CreateFails, CheckMagic, CheckDigest, Return, Die, Working, Round
  <2> QED BY <2>1, <2>2, HoldsSame
<1>3. CASE CreateFiles
  <2>1. /\ files' = [f \in Files \cup RoundFiles(Type') |-> IF f \in RoundFiles(Type') THEN <<>> ELSE files[f]]
        /\ mdl' = i /\ UNCHANGED <<image, split, pos, dir, lost>> /\ pc = "loop" /\ err = 0
    BY <1>3, CreateFacts
  <2>2. Known2 /\ mdl = i - 1 /\ i \in {0, 1, 2} /\ pos = Start(i) /\ Working
    BY <2>1 DEF Progress, Working, Round
  <2>3. /\ RoundFiles(Type)' = RoundFiles(Type') /\ \A t : RoundFiles(t)' = RoundFiles(t)
        /\ \A m : Start(m)' = Start(m)
    BY <2>1 DEF RoundFiles, Body, Hdr, Start
  <2>4. Files' = Files \cup RoundFiles(Type')
    BY <2>1 DEF Files
  <2>5. Start(mdl)' = pos' /\ pos' \in Nat
    BY <2>1, <2>2, StartFacts DEF Start
  <2>6. Holds(RoundFiles(Type), Start(mdl), pos)'
    <3>1. \A p \in Nat : p + 1 .. p = {}
      OBVIOUS
    <3>2. Start(mdl)' + 1 .. pos' = {}
      BY <2>5, <3>1
    <3> QED BY <3>2 DEF Holds
  <2>7. mdl' = 0 => Files' = RoundFiles(Type)'
    BY <2>1, <2>2, <2>3, <2>4 DEF Descriptors
  <2>8. ASSUME mdl' = 1
        PROVE  \E t : /\ Files' = RoundFiles(t)' \cup RoundFiles(Type)'
                      /\ t # Type' /\ ~lost' => Holds(RoundFiles(t), Start(0), Start(1))'
    <3>1. i = 1 /\ mdl = 0 /\ Files = RoundFiles(Type)
      BY <2>1, <2>2, <2>8 DEF Kept1
    <3>2. Files' = RoundFiles(Type) \cup RoundFiles(Type)'
      BY <2>3, <2>4, <3>1
    <3>3. ASSUME Type # Type', ~lost' PROVE Holds(RoundFiles(Type), Start(0), Start(1))
      <4>1. ~lost /\ pos = Start(1)
        BY <2>1, <2>2, <3>1, <3>3
      <4> QED BY <2>2, <3>1, <4>1 DEF Kept1
    <3>4. ASSUME Type # Type', NEW f \in RoundFiles(Type) PROVE files'[f] = files[f]
      <4>1. f \notin RoundFiles(Type')
        BY <3>4 DEF RoundFiles, Body, Hdr
      <4> QED BY <2>1, <3>1, <4>1
    <3> DEFINE t == Type
    <3>5. ASSUME t # Type', ~lost' PROVE \A k \in Start(0) + 1 .. Start(1) : \E f \in RoundFiles(t) : Stream(image)[k] \in ToSet(files'[f])
      BY <3>3, <3>4, <3>5 DEF Holds
    <3>6. \E x : x = t
      OBVIOUS
    <3> HIDE DEF t
    <3>7. PICK x : x = t
      BY <3>6
    <3>8. Files' = RoundFiles(x)' \cup RoundFiles(Type)'
      BY <2>3, <3>2, <3>7 DEF t
    <3>9. ASSUME x # Type', ~lost' PROVE Holds(RoundFiles(x), Start(0), Start(1))'
      <4>1. \A k \in Start(0) + 1 .. Start(1) : \E f \in RoundFiles(x) : Stream(image)[k] \in ToSet(files'[f])
        BY <3>5, <3>7, <3>9
      <4>2. RoundFiles(x)' = RoundFiles(x) /\ Start(0)' = Start(0) /\ Start(1)' = Start(1)
        BY <2>3
      <4> QED BY <2>1, <4>1, <4>2 DEF Holds
    <3> QED BY <3>8, <3>9
  <2> QED BY <2>6, <2>7, <2>8 DEF Kept1
<1>4. CASE ReadModuleHeader
  <2>1. CASE Die
    BY <2>1, HoldsSame DEF Die, Working, Round
  <2>2. CASE ~Die
    <3> DEFINE u == Stream(image)[pos + 1]
    <3>1. pc = "mdulhdr" /\ pos' = pos + 1 /\ UNCHANGED <<image, split, dir, mdl>> /\ Dump(u)
      BY <1>4, <2>2 DEF ReadModuleHeader
    <3>2. Known2 /\ i \in {0, 1} /\ mdl = i /\ pos = Start(i) /\ Working
      BY <3>1 DEF Progress, Round, Working
    <3>3. u = Unit("hdr", i, 0) /\ Start(i) \in Nat
      BY <3>2, StreamFacts
    <3>4. u \in Units /\ pos \in Nat /\ Start(mdl) \in Nat
      BY <3>2, <3>3 DEF Unit, Units
    <3>5. u = Stream(image)[pos + 1]
      OBVIOUS
    <3> HIDE DEF u
    <3> QED BY <3>1, <3>2, <3>4, <3>5, KeptDump
  <2> QED BY <2>1, <2>2
<1>5. CASE DumpBlock
  <2>1. CASE Die
    BY <2>1, HoldsSame DEF Die, Working, Round
  <2>2. CASE ~Die
    <3> DEFINE u == Stream(image)[pos + 1]
    <3>1. pc = "data" /\ BlocksLeft /\ pos' = pos + 1 /\ UNCHANGED <<image, split, dir, mdl>> /\ Dump(u)
      BY <1>5, <2>2 DEF DumpBlock
    <3>2. Known2 /\ mdl = i /\ i \in {0, 1} /\ pos \in Start(i) + 1 .. Start(i + 1) /\ Working
      BY <3>1 DEF Progress, Round, Working
    <3>3. Start(i) \in Nat /\ Start(i + 1) \in Nat /\ pos \in Nat /\ pos - Start(i) \in Nat
      <4>1. Start(i) \in Nat /\ Start(i + 1) \in Nat
        BY <3>2, StartFacts
      <4> QED BY <3>2, <4>1
    <3>4. u = Unit("data", i, pos - Start(i))
      BY <3>1, <3>2, NextUnit
    <3>5. u \in Units /\ Start(mdl) \in Nat
      BY <3>2, <3>3, <3>4 DEF Unit, Units
    <3>6. u = Stream(image)[pos + 1]
      OBVIOUS
    <3> HIDE DEF u
    <3> QED BY <3>1, <3>2, <3>3, <3>5, <3>6, KeptDump
  <2> QED BY <2>1, <2>2
<1> QED BY <1>1, <1>2, <1>3, <1>4, <1>5 DEF Next

LEMMA InitIInv ==
  ASSUME Init
  PROVE  IInv
<1>1. Files = {} /\ DOMAIN open = {}
  BY DEF Init, Files
<1>2. Progress
  BY DEF Init, Progress, Round, Working
<1>3. Descriptors
  BY <1>1 DEF Init, Descriptors
<1>4. InFiles
  BY <1>1 DEF Init, InFiles
<1>5. Kept1
  BY DEF Init, Kept1
<1> QED BY <1>2, <1>3, <1>4, <1>5 DEF IInv

LEMMA StutterIInv ==
  ASSUME IInv, UNCHANGED vars
  PROVE  IInv'
<1> USE DEF vars
<1>1. \A m : Start(m)' = Start(m) /\ Module(m)' = Module(m)
  BY DEF Start, Module
<1>2. Working' = Working /\ Round' = Round /\ Known2' = Known2
  BY DEF Working, Round, Known2
<1>3. Progress'
  BY <1>1, <1>2 DEF IInv, Progress, Working, Round
<1>4. Type' = Type /\ Files' = Files /\ \A t : RoundFiles(t)' = RoundFiles(t) /\ Body(t)' = Body(t) /\ Hdr(t)' = Hdr(t)
  BY DEF Type, Files, RoundFiles, Body, Hdr
<1>5. RoundFiles(Type)' = RoundFiles(Type) /\ Target' = Target
  BY <1>4 DEF RoundFiles, Body, Hdr, Target
<1>6. Descriptors'
  BY <1>4, <1>5 DEF IInv, Descriptors, Body, Hdr
<1>7. \A u : Before(u)' = Before(u)
  BY DEF Before, Start
<1>8. InFiles'
  BY <1>4, <1>5, <1>7 DEF IInv, InFiles, Good, Before, Start
<1>9. Kept1'
  BY <1>2, HoldsSame DEF IInv
<1> QED BY <1>3, <1>6, <1>8, <1>9 DEF IInv

\* In every behaviour: what the loop has read agrees with its step, its descriptors
\* are this round's two and hold files of one module each, and no unit that was
\* written has gone but by a second file of the same name.
THEOREM InductiveInvariant == Spec => []IInv
<1>1. Init => IInv
  BY InitIInv
<1>2. IInv /\ [Next]_vars => IInv'
  <2>1. ASSUME IInv, Next PROVE IInv'
    BY <2>1, ProgressStep, DescriptorsStep, FilesStep, KeptStep DEF IInv
  <2> QED BY <2>1, StutterIInv
<1> QED BY <1>1, <1>2, PTL DEF Spec

-----------------------------------------------------------------------------
(* The properties.                                                         *)

LEMMA WhenSucceeded ==
  ASSUME IInv, Succeeded
  PROVE  /\ Working /\ Known2 /\ i = 2 /\ mdl = 1 /\ pos = Start(2) /\ Len(image) = 2
         /\ \A m \in {0, 1} : Module(m).digest = "good"
<1>1. Working /\ ~Round /\ i = 2
  BY DEF IInv, Progress, Succeeded, Working, Round
<1>2. Known2 /\ mdl = 1 /\ pos = Start(2) /\ \A m \in 0 .. 1 : Module(m).digest = "good"
  BY <1>1 DEF IInv, Progress
<1>3. \A m \in {0, 1} : m \in 0 .. 1
  OBVIOUS
<1> QED BY <1>1, <1>2, <1>3 DEF Known2

\* check_firmware's error is 0 only at the end of the image, and only with the digest
\* of each module found right.
THEOREM SuccessVerified == Spec => []SuccessMeansVerified
<1>1. ASSUME IInv PROVE SuccessMeansVerified
  <2> SUFFICES ASSUME Succeeded
               PROVE  /\ pos = Len(Stream(image))
                      /\ \A m \in 0 .. Len(image) - 1 : Module(m).digest # "bad"
    BY DEF SuccessMeansVerified
  <2>1. Known2 /\ pos = Start(2) /\ Len(image) = 2 /\ \A m \in {0, 1} : Module(m).digest = "good"
    BY <1>1, WhenSucceeded
  <2>2. \A m \in 0 .. Len(image) - 1 : m \in {0, 1}
    BY <2>1
  <2> QED BY <2>1, <2>2, StartFacts
<1> QED BY <1>1, InductiveInvariant, PTL

\* The descriptors that the loop and its static keep never mix two modules' units
\* in one file, and none is left open.
THEOREM AlwaysConsistent == Spec => []Consistent
<1>1. ASSUME IInv PROVE Consistent
  <2>1. FilesNotMixed
    BY <1>1 DEF IInv, InFiles, Good, FilesNotMixed
  <2>2. NoDescriptorLeak
    BY <1>1 DEF IInv, Descriptors, NoDescriptorLeak
  <2> QED BY <2>1, <2>2 DEF Consistent
<1> QED BY <1>1, InductiveInvariant, PTL

\* Where a module's header and data are in the stream.
LEMMA UnitPlace ==
  ASSUME Known2, NEW k \in 1 .. Len(Stream(image)), Stream(image)[k].kind # "table", NEW m \in {0, 1},
         Stream(image)[k].mod = m
  PROVE  k \in Start(m) + 1 .. Start(m + 1)
<1> DEFINE S == Stream(image)
<1>1. /\ Len(S) = Start(2) /\ Start(0) = 2 /\ Start(1) \in Nat /\ Start(2) \in Nat
      /\ \A j \in 1 .. 2 : S[j].kind = "table"
  BY StreamFacts, StartFacts
<1>2. ASSUME NEW n \in {0, 1}, k \in Start(n) + 1 .. Start(n + 1) PROVE S[k].mod = n
  <2> DEFINE b == k - (Start(n) + 1)
  <2>1. /\ Start(n) \in Nat /\ image[n + 1].blocks \in Nat
        /\ Start(n + 1) = Start(n) + 1 + image[n + 1].blocks
        /\ S[Start(n) + 1] = Unit("hdr", n, 0)
        /\ \A c \in 1 .. image[n + 1].blocks : S[Start(n) + 1 + c] = Unit("data", n, c)
    BY StreamFacts
  <2>2. k = Start(n) + 1 \/ (b \in 1 .. image[n + 1].blocks /\ Start(n) + 1 + b = k)
    <3>1. k \in Start(n) + 1 .. Start(n) + 1 + image[n + 1].blocks
      BY <1>2, <2>1
    <3>2. \A p, c \in Nat : \A x \in p + 1 .. p + 1 + c : x = p + 1 \/ (x - (p + 1) \in 1 .. c /\ p + 1 + (x - (p + 1)) = x)
      OBVIOUS
    <3> QED BY <2>1, <3>1, <3>2
  <2>3. \A c : Unit("data", n, c).mod = n /\ Unit("hdr", n, 0).mod = n
    BY DEF Unit
  <2> HIDE DEF b, S
  <2> QED BY <2>1, <2>2, <2>3
<1>3. k \in 1 .. 2 \/ k \in Start(0) + 1 .. Start(1) \/ k \in Start(1) + 1 .. Start(2)
  BY <1>1
<1>4. 0 + 1 = 1 /\ 1 + 1 = 2
  OBVIOUS
<1>5. k \in Start(0) + 1 .. Start(1) => S[k].mod = 0
  BY <1>2, <1>4
<1>6. k \in Start(1) + 1 .. Start(2) => S[k].mod = 1
  BY <1>2, <1>4
<1> QED BY <1>1, <1>3, <1>4, <1>5, <1>6

LEMMA KeptFrom ==
  ASSUME Known2, NEW m \in {0, 1}, NEW t, RoundFiles(t) \subseteq Files, Holds(RoundFiles(t), Start(m), Start(m + 1))
  PROVE  Kept(m)
<1> SUFFICES ASSUME NEW u \in ToSet(Stream(image)), u.mod = m, u.kind # "table"
             PROVE  \E f \in Files : u \in ToSet(files[f])
  BY DEF Kept
<1>1. PICK k \in 1 .. Len(Stream(image)) : u = Stream(image)[k]
  <2>1. DOMAIN Stream(image) = 1 .. Len(Stream(image))
    BY StreamFacts
  <2> QED BY <2>1 DEF ToSet
<1>2. k \in Start(m) + 1 .. Start(m + 1)
  BY <1>1, UnitPlace
<1> QED BY <1>1, <1>2 DEF Holds

\* With the names of all rounds different, the first module's were not the second's.
LEMMA TwoNames ==
  ASSUME NEW t, Files = RoundFiles(t) \cup RoundFiles(Type), NamesDiffer, Len(image) = 2, split \in BOOLEAN
  PROVE  t # Type
<1> SUFFICES ASSUME t = Type PROVE FALSE
  OBVIOUS
<1>1. Files = RoundFiles(Type)
  OBVIOUS
<1>2. CASE split
  <2>1. Files = {Body(Type), Hdr(Type)} /\ Cardinality(Files) = 4
    BY <1>1, <1>2 DEF RoundFiles, NamesDiffer
  <2>2. \A x, y : IsFiniteSet({x, y}) /\ Cardinality({x, y}) <= 2
    <3> TAKE x, y
    <3>1. IsFiniteSet({x}) /\ Cardinality({x}) = 1
      BY FS_Singleton
    <3>2. IsFiniteSet({x} \cup {y}) /\ (Cardinality({x} \cup {y}) = 1 \/ Cardinality({x} \cup {y}) = 2)
      BY <3>1, FS_AddElement
    <3>3. {x} \cup {y} = {x, y}
      OBVIOUS
    <3> QED BY <3>2, <3>3
  <2>3. Cardinality(Files) <= 2
    BY <2>1, <2>2, Zenon
  <2> QED BY <2>1, <2>3
<1>3. CASE ~split
  <2>1. Files = {Body(Type)} /\ Cardinality(Files) = 2
    BY <1>1, <1>3 DEF RoundFiles, NamesDiffer
  <2>2. Cardinality(Files) = 1
    BY <2>1, FS_Singleton
  <2> QED BY <2>1, <2>2
<1> QED BY <1>2, <1>3

\* Where no write failed, a dump that reports success leaves the last module whole in
\* its files, and the first too if their names are not the last one's.
THEOREM AlwaysDumpKept == Spec => []DumpKept
<1>1. ASSUME IInv PROVE DumpKept
  <2> SUFFICES ASSUME Succeeded, ~lost, NEW m \in 0 .. Len(image) - 1, m = Len(image) - 1 \/ NamesDiffer
               PROVE  Kept(m)
    BY DEF DumpKept
  <2>1. Working /\ Known2 /\ mdl = 1 /\ pos = Start(2) /\ Len(image) = 2
    BY <1>1, WhenSucceeded
  <2>2. m = 0 \/ m = 1
    BY <2>1
  <2>3. CASE m = 1
    <3>1. RoundFiles(Type) \subseteq Files /\ Holds(RoundFiles(Type), Start(1), Start(2))
      BY <1>1, <2>1 DEF IInv, Descriptors, Kept1
    <3>2. Holds(RoundFiles(Type), Start(1), Start(1 + 1))
      BY <3>1
    <3> QED BY <2>1, <2>3, <3>1, <3>2, KeptFrom
  <2>4. CASE m = 0
    <3>1. NamesDiffer
      BY <2>1, <2>4
    <3>2. PICK t : /\ Files = RoundFiles(t) \cup RoundFiles(Type)
                   /\ t # Type /\ ~lost => Holds(RoundFiles(t), Start(0), Start(1))
      BY <1>1, <2>1, Zenon DEF IInv, Kept1
    <3>3. split \in BOOLEAN
      BY <1>1 DEF IInv, Progress
    <3>4. t # Type
      BY <2>1, <3>1, <3>2, <3>3, TwoNames
    <3>5. Holds(RoundFiles(t), Start(0), Start(0 + 1)) /\ RoundFiles(t) \subseteq Files
      BY <3>2, <3>4
    <3> QED BY <2>1, <2>4, <3>5, KeptFrom
  <2> QED BY <2>2, <2>3, <2>4
<1> QED BY <1>1, InductiveInvariant, PTL

=============================================================================
