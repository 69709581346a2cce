------------------------------- MODULE AppendProofs -------------------------------
(***************************************************************************)
(* Proofs about Append for tables of every size and any number of blocks   *)
(* and appends: that there always is a way back (Recoverable), that a      *)
(* recovery that ends has brought the file system back (RecoverWorks), and *)
(* that an append implements AtomicFs.                                     *)
(*                                                                         *)
(* The inductive invariant says of each stage of main what is on the       *)
(* destination, in the queue and in the recovery file.  It speaks of the   *)
(* states in which the promise is not given up; given_up never goes back.  *)
(***************************************************************************)
EXTENDS Append, SequenceTheorems, TLAPS

-----------------------------------------------------------------------------
(* Types.                                                                  *)

DataUnits == [kind : {"data"}, id : Nat, part : Nat]
TableRecs == [kind : {"table"}, id : Nat, part : Nat]
Supers == [kind : {"super"}, magic : BOOLEAN, id : Nat, root : Nat, data : Seq(DataUnits)]
Outs == Nat \X (TableRecs \cup Supers)

Early == {"create", "save", "zero"}
Late == {"append", "restore_filesystem", "wait", "write"}

Appends == [pc : Early \cup Late, keep : BOOLEAN, old : Supers, root : Nat, blocks : 0 .. MaxBlocks, sent : 0 .. MaxBlocks,
            interrupted : 0 .. 2, restoring : BOOLEAN, fatal : BOOLEAN, todo : Seq(Outs), seeked : BOOLEAN, locked : BOOLEAN]
Recovers == [pc : {"recover"}, locked : {FALSE}, todo : Seq(Outs)]

Types ==
  /\ disk = [p \in Places |-> disk[p]] /\ disk[0] \in Supers
  /\ files \subseteq [of : Nat, super : Supers, whole : BOOLEAN]
  /\ runs \in 0 .. MaxRuns
  /\ main \in {Idle} \cup Recovers \cup Appends
  /\ reader \in BOOLEAN /\ queue \in Seq(Nat \X DataUnits)
  /\ writer \in {"idle", "seeked", "parked"} /\ offset \in Nat

-----------------------------------------------------------------------------
(* The inductive invariant.                                                *)

\* The super block on the destination as it is without the magic number's loss.
OldSuper == [disk[0] EXCEPT !.magic = TRUE]

\* The super block names its own root, and the data it lists is in its place.
SuperTrue ==
  /\ disk[0].root = disk[0].id /\ disk[0].id <= runs
  /\ Len(disk[0].data) <= runs * MaxBlocks
  /\ \A k \in 1 .. Len(disk[0].data) : disk[k] = disk[0].data[k]

\* Nobody has anything to write.
Quiet == queue = <<>> /\ writer = "idle"

\* What is left of a list of units, and the part before it is on the destination.
Suffix(todo, all) ==
  /\ Len(todo) <= Len(all)
  /\ \A k \in 1 .. Len(todo) : todo[k] = all[Len(all) - Len(todo) + k]
WrittenUpTo(d, all, n) == \A k \in 1 .. n : d[all[k][1]] = all[k][2]
Writing(todo, all) == Suffix(todo, all) /\ WrittenUpTo(disk, all, Len(all) - Len(todo))

RecoverOutput(s) == <<<<0, s>>>> \o TableUnits(s.id, s.data)

WhenIdle == main.pc = "idle" => Quiet /\ (Readable \/ \E f \in files : Matches(f))

WhenRecover ==
  main.pc = "recover" =>
    /\ Quiet /\ \E f \in files : Matches(f)
    /\ Writing(main.todo, RecoverOutput(OldSuper))

\* Before the magic number goes the file system is whole.
WhenEarly ==
  main.pc \in Early =>
    /\ Quiet /\ Readable /\ reader
    /\ main.old = disk[0] /\ main.sent = 0 /\ main.root = main.old.root
    /\ ~main.restoring /\ main.interrupted < 2

\* The recovery file of this append.
Backup(whole) == \E f \in files : f.of = runs /\ f.super = main.old /\ (whole => f.whole)
Saved ==
  /\ main.pc = "save" => Backup(FALSE)
  /\ main.pc \in {"zero"} \cup Late /\ main.keep => Backup(TRUE)

\* An append under way is a new one, and there is room for what it writes.
Fits ==
  main.pc \in Early \cup Late =>
    /\ main.old.id < runs /\ main.old.root = main.old.id /\ main.old.magic
    /\ Len(main.old.data) + MaxBlocks <= runs * MaxBlocks
    /\ main.sent <= main.blocks

\* Until the last unit is written the old super block is there, but for the magic.
Done == main.pc = "write" /\ main.todo = <<>>
WhenLate ==
  main.pc \in Late =>
    /\ IF Done THEN Readable ELSE OldSuper = main.old
    /\ ~Done /\ ~main.restoring => ~disk[0].magic

\* The queue holds the last blocks that main sent, and the ones before are on the
\* destination.
Queued == \A k \in 1 .. Len(queue) : queue[k] = Block(main.sent - Len(queue) + k)
Stored == \A k \in 1 .. main.sent - Len(queue) : disk[Len(main.old.data) + k] = Block(k)[2]

\* What the new root is, who still runs and what of the data is written.
WhenAppending ==
  main.pc \in Late /\ ~main.restoring =>
    /\ main.root = IF main.pc = "append" THEN main.old.root ELSE runs
    /\ main.pc # "append" => main.sent = main.blocks
    /\ main.pc \in {"append", "restore_filesystem"} => main.interrupted < 2
    /\ main.pc = "write" => Quiet
    /\ writer # "parked"
    /\ Len(queue) <= main.sent /\ Queued /\ Stored
    /\ writer = "seeked" => queue # <<>> /\ offset = Head(queue)[1]

WhenRestoring ==
  main.pc \in Late /\ main.restoring =>
    main.pc # "append" /\ main.root = main.old.root /\ writer = "parked" /\ ~reader

\* The tables and then the super block are written in their order.
WhenWriting ==
  /\ main.pc = "write" => Writing(main.todo, Output)
  /\ main.pc \in Early \cup Late /\ main.pc # "write" => ~main.seeked
  /\ main.pc = "write" /\ main.seeked => main.todo # <<>> /\ offset = Head(main.todo)[1]

Kept ==
  /\ Types /\ SuperTrue /\ WhenIdle /\ WhenRecover /\ WhenEarly /\ Saved /\ Fits
  /\ WhenLate /\ WhenAppending /\ WhenRestoring /\ WhenWriting
IInv == given_up \in BOOLEAN /\ (~given_up => Kept)

-----------------------------------------------------------------------------
(* The destination's places and the units of the tables.                   *)

\* There is room for the data of all the appends and for the tables after it.
LEMMA Room ==
  ASSUME NEW r \in 0 .. MaxRuns
  PROVE  /\ r * MaxBlocks \in Nat /\ r * MaxBlocks <= MaxRuns * MaxBlocks /\ MaxRuns * MaxBlocks \in Nat
         /\ (r + 1) * MaxBlocks = r * MaxBlocks + MaxBlocks
<1>1. MaxBlocks \in Nat /\ MaxRuns \in Nat
  BY AppendAssumption
<1>2. \A a, b \in Nat : a * b \in Nat
  OBVIOUS
<1>3. PICK d \in Nat : MaxRuns = r + d
  BY <1>1, MaxRuns - r \in Nat, MaxRuns = r + (MaxRuns - r)
<1>4. MaxRuns * MaxBlocks = r * MaxBlocks + d * MaxBlocks
  BY <1>1, <1>3
<1> QED BY <1>1, <1>2, <1>3, <1>4

\* The units of a file system's tables lie one after the other behind its data.
LEMMA TableFacts ==
  ASSUME NEW id \in Nat, NEW data \in Seq(DataUnits)
  PROVE  /\ TableUnits(id, data) \in Seq(Outs) /\ Len(TableUnits(id, data)) = Tables
         /\ \A k \in 1 .. Tables : TableUnits(id, data)[k] = <<Len(data) + k, [kind |-> "table", id |-> id, part |-> k]>>
<1>1. Tables \in Nat /\ Len(data) \in Nat
  BY AppendAssumption
<1>2. \A k \in 1 .. Tables : <<Len(data) + k, [kind |-> "table", id |-> id, part |-> k]>> \in Outs
  BY <1>1 DEF Outs, TableRecs
<1> QED BY <1>1, <1>2 DEF TableUnits

\* Readable, place by place, of a destination d.
ReadableOn(d) ==
  /\ d[0].kind = "super" /\ d[0].magic /\ d[0].root = d[0].id
  /\ \A k \in DOMAIN d[0].data : d[k] = d[0].data[k]
  /\ \A u \in ToSet(TableUnits(d[0].id, d[0].data)) : d[u[1]] = u[2]
LEMMA ReadableIs ==
  ASSUME NEW d, NEW s \in Supers, d[0] = s, s.magic, s.root = s.id,
         \A k \in 1 .. Len(s.data) : d[k] = s.data[k],
         \A k \in 1 .. Tables : d[Len(s.data) + k] = [kind |-> "table", id |-> s.id, part |-> k]
  PROVE  ReadableOn(d)
<1> DEFINE tables == TableUnits(s.id, s.data)
<1>1. s.kind = "super" /\ s.id \in Nat /\ s.data \in Seq(DataUnits) /\ DOMAIN s.data = 1 .. Len(s.data)
  BY DEF Supers
<1>2. DOMAIN tables = 1 .. Tables
  BY DEF TableUnits
<1>3. \A k \in 1 .. Tables : tables[k][1] = Len(s.data) + k /\ tables[k][2] = [kind |-> "table", id |-> s.id, part |-> k]
  BY DEF TableUnits
<1> HIDE DEF tables
<1>4. \A k \in 1 .. Tables : d[tables[k][1]] = tables[k][2]
  <2> TAKE k \in 1 .. Tables
  <2>1. d[Len(s.data) + k] = [kind |-> "table", id |-> s.id, part |-> k]
    OBVIOUS
  <2>2. tables[k][1] = Len(s.data) + k /\ tables[k][2] = [kind |-> "table", id |-> s.id, part |-> k]
    BY <1>3
  <2> QED BY <2>1, <2>2, Zenon
<1>5. ToSet(tables) = {tables[k] : k \in 1 .. Tables}
  BY <1>2 DEF ToSet
<1>6. \A u \in ToSet(tables) : d[u[1]] = u[2]
  BY <1>4, <1>5
<1> QED BY <1>1, <1>6 DEF ReadableOn, tables

\* A list that is written in order: what is left after one more unit.
LEMMA SuffixFacts ==
  ASSUME NEW todo \in Seq(Outs), NEW all \in Seq(Outs), Suffix(todo, all), todo # <<>>
  PROVE  /\ Head(todo) = all[Len(all) - Len(todo) + 1]
         /\ Tail(todo) \in Seq(Outs) /\ Len(Tail(todo)) = Len(todo) - 1
         /\ Suffix(Tail(todo), all)
<1>1. Len(todo) \in Nat \ {0} /\ Len(all) \in Nat
  OBVIOUS
<1>2. Head(todo) = todo[1] /\ Len(Tail(todo)) = Len(todo) - 1
  BY <1>1
<1>3. \A k \in 1 .. Len(todo) - 1 : Tail(todo)[k] = todo[k + 1]
  BY <1>1
<1> QED BY <1>1, <1>2, <1>3 DEF Suffix

-----------------------------------------------------------------------------
(* What is written: a listing of units, each at its place.                 *)

\* The tables and then the super block, and the super block first for -recover.
Listing(s) == Append(TableUnits(s.id, s.data), <<0, s>>)

\* The super block that an append or a restore ends with.
NewSuper == IF main.restoring THEN Super(main.old.id, main.root, main.old.data) ELSE Super(runs, main.root, NewData)

LEMMA ListingFacts ==
  ASSUME NEW s \in Supers
  PROVE  /\ Listing(s) \in Seq(Outs) /\ Len(Listing(s)) = Tables + 1
         /\ \A k \in 1 .. Tables : /\ Listing(s)[k][1] = Len(s.data) + k
                                   /\ Listing(s)[k][2] = [kind |-> "table", id |-> s.id, part |-> k]
         /\ Listing(s)[Tables + 1][1] = 0 /\ Listing(s)[Tables + 1][2] = s
<1>1. s.id \in Nat /\ s.data \in Seq(DataUnits) /\ Tables \in Nat
  BY AppendAssumption DEF Supers
<1>2. <<0, s>> \in Outs
  BY DEF Outs
<1> DEFINE tables == TableUnits(s.id, s.data)
<1>3. tables \in Seq(Outs) /\ Len(tables) = Tables
  BY <1>1, TableFacts
<1>4. \A k \in 1 .. Tables : tables[k][1] = Len(s.data) + k /\ tables[k][2] = [kind |-> "table", id |-> s.id, part |-> k]
  BY DEF TableUnits
<1> HIDE DEF tables
<1>5. /\ Append(tables, <<0, s>>) \in Seq(Outs) /\ Len(Append(tables, <<0, s>>)) = Tables + 1
      /\ \A k \in 1 .. Tables : Append(tables, <<0, s>>)[k] = tables[k]
      /\ Append(tables, <<0, s>>)[Tables + 1] = <<0, s>>
  BY <1>1, <1>2, <1>3
<1>6. Listing(s) = Append(tables, <<0, s>>)
  BY DEF Listing, tables
<1> HIDE DEF Listing
<1>7. \A k \in 1 .. Tables : Listing(s)[k] = tables[k]
  BY <1>5, <1>6
<1>8. Listing(s)[Tables + 1] = <<0, s>>
  BY <1>5, <1>6
<1>9. \A k \in 1 .. Tables : /\ Listing(s)[k][1] = Len(s.data) + k
                             /\ Listing(s)[k][2] = [kind |-> "table", id |-> s.id, part |-> k]
  BY <1>4, <1>7, Zenon
<1>10. Listing(s)[Tables + 1][1] = 0 /\ Listing(s)[Tables + 1][2] = s
  BY <1>8
<1>11. Listing(s) \in Seq(Outs) /\ Len(Listing(s)) = Tables + 1
  BY <1>5, <1>6
<1> QED BY <1>9, <1>10, <1>11, Zenon

LEMMA RecoverOutputFacts ==
  ASSUME NEW s \in Supers
  PROVE  /\ RecoverOutput(s) \in Seq(Outs) /\ Len(RecoverOutput(s)) = Tables + 1
         /\ RecoverOutput(s)[1][1] = 0 /\ RecoverOutput(s)[1][2] = s
         /\ \A k \in 1 .. Tables : /\ RecoverOutput(s)[k + 1][1] = Len(s.data) + k
                                   /\ RecoverOutput(s)[k + 1][2] = [kind |-> "table", id |-> s.id, part |-> k]
<1>1. s.id \in Nat /\ s.data \in Seq(DataUnits) /\ Tables \in Nat
  BY AppendAssumption DEF Supers
<1>2. <<0, s>> \in Outs
  BY DEF Outs
<1> DEFINE tables == TableUnits(s.id, s.data)
<1>3. tables \in Seq(Outs) /\ Len(tables) = Tables
  BY <1>1, TableFacts
<1>4. \A k \in 1 .. Tables : tables[k][1] = Len(s.data) + k /\ tables[k][2] = [kind |-> "table", id |-> s.id, part |-> k]
  BY DEF TableUnits
<1> HIDE DEF tables
<1>5. /\ <<<<0, s>>>> \o tables \in Seq(Outs) /\ Len(<<<<0, s>>>> \o tables) = Tables + 1
      /\ (<<<<0, s>>>> \o tables)[1] = <<0, s>>
      /\ \A k \in 1 .. Tables : (<<<<0, s>>>> \o tables)[k + 1] = tables[k]
  BY <1>1, <1>2, <1>3
<1>6. RecoverOutput(s) = <<<<0, s>>>> \o tables
  BY DEF RecoverOutput, tables
<1> HIDE DEF RecoverOutput
<1>7. \A k \in 1 .. Tables : RecoverOutput(s)[k + 1] = tables[k]
  BY <1>5, <1>6
<1>8. RecoverOutput(s)[1] = <<0, s>>
  BY <1>5, <1>6
<1>9. \A k \in 1 .. Tables : /\ RecoverOutput(s)[k + 1][1] = Len(s.data) + k
                             /\ RecoverOutput(s)[k + 1][2] = [kind |-> "table", id |-> s.id, part |-> k]
  BY <1>4, <1>7, Zenon
<1>10. RecoverOutput(s)[1][1] = 0 /\ RecoverOutput(s)[1][2] = s
  BY <1>8
<1>11. RecoverOutput(s) \in Seq(Outs) /\ Len(RecoverOutput(s)) = Tables + 1
  BY <1>5, <1>6
<1> QED BY <1>9, <1>10, <1>11, Zenon

\* One more unit of a listing is written: the places of a listing are all different.
Distinct(all) ==
  /\ \A k \in 1 .. Len(all) : all[k][1] \in Places
  /\ \A j, k \in 1 .. Len(all) : j # k => all[j][1] # all[k][1]
LEMMA WritingStep ==
  ASSUME NEW all \in Seq(Outs), Distinct(all), NEW n \in Nat, n < Len(all), WrittenUpTo(disk, all, n),
         disk = [p \in Places |-> disk[p]], NEW d,
         d = [disk EXCEPT ![all[n + 1][1]] = all[n + 1][2]]
  PROVE  WrittenUpTo(d, all, n + 1)
<1>1. n + 1 \in 1 .. Len(all)
  OBVIOUS
<1>2. d[all[n + 1][1]] = all[n + 1][2]
  BY <1>1 DEF Distinct
<1>3. ASSUME NEW k \in 1 .. n PROVE d[all[k][1]] = all[k][2]
  <2>1. k \in 1 .. Len(all) /\ k # n + 1
    OBVIOUS
  <2>2. all[k][1] # all[n + 1][1] /\ all[k][1] \in Places
    BY <2>1, <1>1 DEF Distinct
  <2> QED BY <2>2 DEF WrittenUpTo
<1> QED BY <1>2, <1>3 DEF WrittenUpTo

\* The places of both listings are different and on the destination.
LEMMA DistinctFacts ==
  ASSUME NEW s \in Supers, Len(s.data) <= MaxRuns * MaxBlocks, MaxRuns * MaxBlocks \in Nat
  PROVE  Distinct(Listing(s)) /\ Distinct(RecoverOutput(s))
<1>1. Tables \in Nat /\ Len(s.data) \in Nat
  BY AppendAssumption DEF Supers
<1>2. Distinct(Listing(s))
  <2>1. \A k \in 1 .. Tables : Listing(s)[k][1] = Len(s.data) + k
    BY ListingFacts
  <2>2. Listing(s)[Tables + 1][1] = 0 /\ Len(Listing(s)) = Tables + 1
    BY ListingFacts
  <2>3. \A k \in 1 .. Tables + 1 : k = Tables + 1 \/ k \in 1 .. Tables
    BY <1>1
  <2>4. \A k \in 1 .. Tables + 1 : Listing(s)[k][1] \in Places
    BY <1>1, <2>1, <2>2, <2>3 DEF Places
  <2>5. \A j, k \in 1 .. Tables + 1 : j # k => Listing(s)[j][1] # Listing(s)[k][1]
    BY <1>1, <2>1, <2>2, <2>3
  <2> QED BY <2>2, <2>4, <2>5 DEF Distinct
<1>3. Distinct(RecoverOutput(s))
  <2>1. \A k \in 1 .. Tables : RecoverOutput(s)[k + 1][1] = Len(s.data) + k
    BY RecoverOutputFacts
  <2>2. RecoverOutput(s)[1][1] = 0 /\ Len(RecoverOutput(s)) = Tables + 1
    BY RecoverOutputFacts
  <2>3. \A k \in 2 .. Tables + 1 : RecoverOutput(s)[k][1] = Len(s.data) + k - 1
    <3> TAKE k \in 2 .. Tables + 1
    <3>1. k - 1 \in 1 .. Tables /\ (k - 1) + 1 = k
      BY <1>1
    <3>2. RecoverOutput(s)[(k - 1) + 1][1] = Len(s.data) + (k - 1)
      BY <2>1, <3>1
    <3> QED BY <1>1, <3>1, <3>2
  <2>4. \A k \in 1 .. Tables + 1 : k = 1 \/ k \in 2 .. Tables + 1
    BY <1>1
  <2>5. \A k \in 1 .. Tables + 1 : RecoverOutput(s)[k][1] \in Places
    BY <1>1, <2>2, <2>3, <2>4 DEF Places
  <2>6. \A j, k \in 1 .. Tables + 1 : j # k => RecoverOutput(s)[j][1] # RecoverOutput(s)[k][1]
    BY <1>1, <2>2, <2>3, <2>4
  <2> QED BY <2>2, <2>5, <2>6 DEF Distinct
<1> QED BY <1>2, <1>3

-----------------------------------------------------------------------------
(* What main holds at each of its stages.                                  *)

LEMMA MainTypes ==
  ASSUME Types
  PROVE  /\ main.pc \in {"idle", "recover"} \cup Early \cup Late
         /\ main.pc = "idle" => main = Idle
         /\ main.pc = "recover" => main \in Recovers
         /\ main.pc \in Early \cup Late => main \in Appends
<1>1. Idle.pc = "idle"
  BY DEF Idle
<1>2. main \in Recovers => main.pc = "recover"
  BY DEF Recovers
<1>3. main \in Appends => main.pc \in Early \cup Late
  BY DEF Appends
<1> QED BY <1>1, <1>2, <1>3 DEF Types, Early, Late

\* A super block with its magic number is what main has of it.
LEMMA SuperIs ==
  ASSUME NEW s \in Supers, s.magic
  PROVE  Super(s.id, s.root, s.data) = s
BY DEF Supers, Super

LEMMA NewDataFacts ==
  ASSUME main \in Appends, runs \in Nat
  PROVE  /\ NewData \in Seq(DataUnits) /\ Len(NewData) = Len(main.old.data) + main.blocks
         /\ \A k \in 1 .. Len(main.old.data) : NewData[k] = main.old.data[k]
         /\ \A k \in 1 .. main.blocks : NewData[Len(main.old.data) + k] = Block(k)[2]
<1>1. main.old.data \in Seq(DataUnits) /\ main.blocks \in Nat
  BY AppendAssumption DEF Appends, Supers
<1> DEFINE new == [k \in 1 .. main.blocks |-> Block(k)[2]]
<1>2. \A k \in 1 .. main.blocks : Block(k)[2] \in DataUnits
  BY <1>1 DEF Block, DataUnits
<1>3. new \in Seq(DataUnits) /\ Len(new) = main.blocks /\ \A k \in 1 .. main.blocks : new[k] = Block(k)[2]
  BY <1>1, <1>2
<1> HIDE DEF new
<1>4. NewData = main.old.data \o new
  BY DEF NewData, new
<1> HIDE DEF NewData
<1>5. NewData \in Seq(DataUnits) /\ Len(NewData) = Len(main.old.data) + main.blocks
  <2>1. main.old.data \o new \in Seq(DataUnits) /\ Len(main.old.data \o new) = Len(main.old.data) + Len(new)
    BY <1>1, <1>3, ConcatProperties, Zenon
  <2> QED BY <1>3, <1>4, <2>1, Zenon
<1>6. \A k \in 1 .. Len(main.old.data) : NewData[k] = main.old.data[k]
  BY <1>1, <1>3, <1>4
<1>7. \A k \in 1 .. main.blocks : NewData[Len(main.old.data) + k] = new[k]
  BY <1>1, <1>3, <1>4
<1> QED BY <1>3, <1>5, <1>6, <1>7

\* What main will write is the listing of its new super block.
LEMMA OutputIs ==
  ASSUME main \in Appends, runs \in Nat
  PROVE  /\ NewSuper \in Supers /\ Output = Listing(NewSuper)
         /\ NewSuper.magic /\ NewSuper.root = main.root
         /\ NewSuper.id = (IF main.restoring THEN main.old.id ELSE runs)
         /\ NewSuper.data = (IF main.restoring THEN main.old.data ELSE NewData)
<1>1. NewData \in Seq(DataUnits)
  BY NewDataFacts
<1>2. main.old \in Supers /\ main.root \in Nat /\ main.restoring \in BOOLEAN
  BY DEF Appends
<1> HIDE DEF NewData
<1>3. main.old.id \in Nat /\ main.old.data \in Seq(DataUnits)
  BY <1>2 DEF Supers
<1>4. CASE main.restoring
  BY <1>2, <1>3, <1>4 DEF NewSuper, Super, Supers, Output, Listing
<1>5. CASE ~main.restoring
  BY <1>1, <1>2, <1>5 DEF NewSuper, Super, Supers, Output, Listing
<1> QED BY <1>4, <1>5

\* A step that leaves the destination alone.
LEMMA SameDisk ==
  ASSUME disk' = disk
  PROVE  /\ Readable' = Readable /\ OldSuper' = OldSuper
         /\ \A f : Matches(f)' = Matches(f)
BY DEF Readable, OldSuper, Matches

-----------------------------------------------------------------------------
(* Before the magic number goes.                                           *)

LEMMA StartStep ==
  ASSUME Kept, Start
  PROVE  Kept'
<1>1. /\ main.pc = "idle" /\ Readable /\ runs < MaxRuns /\ runs' = runs + 1
      /\ reader' = TRUE /\ queue' = <<>> /\ writer' = "idle" /\ disk' = disk /\ files' = files /\ offset' = offset
  BY DEF Start
<1>2. PICK d \in 0 .. MaxBlocks, keep \in BOOLEAN :
        main' = [pc |-> IF keep THEN "create" ELSE "zero", keep |-> keep, old |-> disk[0], root |-> disk[0].root,
                 blocks |-> d, sent |-> 0, interrupted |-> 0, restoring |-> FALSE, fatal |-> FALSE,
                 todo |-> <<>>, seeked |-> FALSE, locked |-> FALSE]
  BY DEF Start
<1>3. disk[0] \in Supers /\ disk[0].root \in Nat /\ disk[0].id \in Nat /\ disk[0].magic
  BY <1>1 DEF Kept, Types, Supers, Readable
<1>4. main' \in Appends /\ main'.pc \in {"create", "zero"} /\ (main'.pc = "zero" => ~main'.keep)
  <2>1. MaxBlocks \in Nat /\ <<>> \in Seq(Outs)
    BY AppendAssumption
  <2>2. CASE keep
    BY <1>2, <1>3, <2>1, <2>2 DEF Appends, Early, Late
  <2>3. CASE ~keep
    BY <1>2, <1>3, <2>1, <2>3 DEF Appends, Early, Late
  <2> QED BY <2>2, <2>3
<1>5. /\ main'.old = disk[0] /\ main'.root = disk[0].root /\ main'.sent = 0 /\ ~main'.restoring
      /\ main'.interrupted = 0 /\ ~main'.seeked
  BY <1>2
<1>6. Readable' = Readable /\ OldSuper' = OldSuper
  BY <1>1, SameDisk
<1>7. runs \in 0 .. MaxRuns /\ runs' \in 0 .. MaxRuns /\ runs \in Nat
  BY <1>1, AppendAssumption DEF Kept, Types
<1>8. Types'
  BY <1>1, <1>4, <1>7 DEF Kept, Types
<1>9. Len(disk[0].data) <= runs * MaxBlocks /\ disk[0].root = disk[0].id /\ disk[0].id <= runs /\ Len(disk[0].data) \in Nat
  BY <1>3 DEF Kept, SuperTrue, Supers
<1>10. (runs + 1) * MaxBlocks = runs * MaxBlocks + MaxBlocks /\ runs * MaxBlocks \in Nat /\ MaxBlocks \in Nat
  BY <1>7, Room, AppendAssumption
<1>11. SuperTrue'
  BY <1>1, <1>3, <1>7, <1>9, <1>10 DEF Kept, SuperTrue
<1>12. Fits'
  BY <1>1, <1>3, <1>4, <1>5, <1>7, <1>9, <1>10 DEF Fits, Appends
<1>13. WhenEarly'
  BY <1>1, <1>4, <1>5, <1>6 DEF WhenEarly, Quiet
<1>14. WhenIdle' /\ WhenRecover' /\ Saved' /\ WhenLate' /\ WhenAppending' /\ WhenRestoring'
  BY <1>4 DEF WhenIdle, WhenRecover, Saved, WhenLate, WhenAppending, WhenRestoring, Late
<1>15. WhenWriting'
  BY <1>4, <1>5 DEF WhenWriting
<1> QED BY <1>8, <1>11, <1>12, <1>13, <1>14, <1>15 DEF Kept

LEMMA CreateStep ==
  ASSUME Kept, CreateRecovery
  PROVE  Kept'
<1>1. /\ main.pc = "create" /\ files' = files \cup {[of |-> runs, super |-> main.old, whole |-> FALSE]}
      /\ main' = [main EXCEPT !.pc = "save"]
      /\ disk' = disk /\ runs' = runs /\ reader' = reader /\ queue' = queue /\ writer' = writer /\ offset' = offset
  BY DEF CreateRecovery, threads
<1>2. main \in Appends
  BY <1>1, MainTypes DEF Kept, Early
<1>3. main' \in Appends /\ main'.pc = "save"
  BY <1>1, <1>2 DEF Appends, Early
<1>4. /\ main'.old = main.old /\ main'.root = main.root /\ main'.sent = main.sent /\ main'.restoring = main.restoring
      /\ main'.interrupted = main.interrupted /\ main'.seeked = main.seeked /\ main'.blocks = main.blocks
      /\ main'.keep = main.keep
  BY <1>1, <1>2 DEF Appends
<1>5. Readable' = Readable
  BY <1>1, SameDisk
<1>6. Types'
  <2>1. main.old \in Supers /\ runs \in Nat
    BY <1>2, AppendAssumption DEF Kept, Types, Appends
  <2>2. [of |-> runs, super |-> main.old, whole |-> FALSE] \in [of : Nat, super : Supers, whole : BOOLEAN]
    BY <2>1
  <2>3. files' \subseteq [of : Nat, super : Supers, whole : BOOLEAN]
    BY <1>1, <2>2 DEF Kept, Types
  <2> QED BY <1>1, <1>3, <2>3 DEF Kept, Types
<1>7. SuperTrue'
  BY <1>1 DEF Kept, SuperTrue
<1>8. Fits'
  BY <1>1, <1>3, <1>4 DEF Kept, Fits, Early
<1>9. WhenEarly'
  BY <1>1, <1>4, <1>5 DEF Kept, WhenEarly, Quiet, Early
<1>10. Saved'
  <2>1. [of |-> runs, super |-> main.old, whole |-> FALSE] \in files'
    BY <1>1
  <2>2. Backup(FALSE)'
    BY <1>1, <1>4, <2>1 DEF Backup
  <2> QED BY <1>3, <2>2 DEF Saved, Late
<1>11. WhenIdle' /\ WhenRecover' /\ WhenLate' /\ WhenAppending' /\ WhenRestoring'
  BY <1>3 DEF WhenIdle, WhenRecover, WhenLate, WhenAppending, WhenRestoring, Late
<1>12. WhenWriting'
  BY <1>1, <1>3, <1>4 DEF Kept, WhenWriting, Early
<1> QED BY <1>6, <1>7, <1>8, <1>9, <1>10, <1>11, <1>12 DEF Kept

LEMMA SaveStep ==
  ASSUME Kept, SaveRecovery
  PROVE  Kept'
<1>1. /\ main.pc = "save" /\ files' = (files \ Mine) \cup {[f EXCEPT !.whole = TRUE] : f \in Mine}
      /\ main' = [main EXCEPT !.pc = "zero"]
      /\ disk' = disk /\ runs' = runs /\ reader' = reader /\ queue' = queue /\ writer' = writer /\ offset' = offset
  BY DEF SaveRecovery, threads
<1>2. main \in Appends
  BY <1>1, MainTypes DEF Kept, Early
<1>3. main' \in Appends /\ main'.pc = "zero"
  BY <1>1, <1>2 DEF Appends, Early
<1>4. /\ main'.old = main.old /\ main'.root = main.root /\ main'.sent = main.sent /\ main'.restoring = main.restoring
      /\ main'.interrupted = main.interrupted /\ main'.seeked = main.seeked /\ main'.blocks = main.blocks
      /\ main'.keep = main.keep
  BY <1>1, <1>2 DEF Appends
<1>5. Readable' = Readable
  BY <1>1, SameDisk
<1>6. Types'
  <2>1. files \subseteq [of : Nat, super : Supers, whole : BOOLEAN]
    BY DEF Kept, Types
  <2>2. \A f \in Mine : [f EXCEPT !.whole = TRUE] \in [of : Nat, super : Supers, whole : BOOLEAN]
    BY <2>1 DEF Mine
  <2>3. files' \subseteq [of : Nat, super : Supers, whole : BOOLEAN]
    BY <1>1, <2>1, <2>2
  <2> QED BY <1>1, <1>3, <2>3 DEF Kept, Types
<1>7. SuperTrue'
  BY <1>1 DEF Kept, SuperTrue
<1>8. Fits'
  BY <1>1, <1>3, <1>4 DEF Kept, Fits, Early
<1>9. WhenEarly'
  BY <1>1, <1>4, <1>5 DEF Kept, WhenEarly, Quiet, Early
<1>10. Saved'
  <2>1. PICK f \in files : f.of = runs /\ f.super = main.old
    BY <1>1 DEF Kept, Saved, Backup
  <2>2. f \in [of : Nat, super : Supers, whole : BOOLEAN]
    BY <2>1 DEF Kept, Types
  <2>3. [f EXCEPT !.whole = TRUE] \in files'
    BY <1>1, <2>1 DEF Mine
  <2>4. Backup(TRUE)'
    BY <1>1, <1>4, <2>1, <2>2, <2>3 DEF Backup
  <2> QED BY <1>3, <2>4 DEF Saved
<1>11. WhenIdle' /\ WhenRecover' /\ WhenLate' /\ WhenAppending' /\ WhenRestoring'
  BY <1>3 DEF WhenIdle, WhenRecover, WhenLate, WhenAppending, WhenRestoring, Late
<1>12. WhenWriting'
  BY <1>1, <1>3, <1>4 DEF Kept, WhenWriting, Early
<1> QED BY <1>6, <1>7, <1>8, <1>9, <1>10, <1>11, <1>12 DEF Kept

LEMMA ZeroStep ==
  ASSUME Kept, Zero
  PROVE  Kept'
<1>1. /\ main.pc = "zero" /\ disk' = [disk EXCEPT ![0].magic = FALSE]
      /\ main' = [main EXCEPT !.pc = "append"] /\ files' = files
      /\ runs' = runs /\ reader' = reader /\ queue' = queue /\ writer' = writer /\ offset' = offset
  BY DEF Zero, threads
<1>2. main \in Appends
  BY <1>1, MainTypes DEF Kept, Early
<1>3. main' \in Appends /\ main'.pc = "append"
  BY <1>1, <1>2 DEF Appends, Late
<1>4. /\ main'.old = main.old /\ main'.root = main.root /\ main'.sent = main.sent /\ main'.restoring = main.restoring
      /\ main'.interrupted = main.interrupted /\ main'.seeked = main.seeked /\ main'.blocks = main.blocks
      /\ main'.keep = main.keep
  BY <1>1, <1>2 DEF Appends
<1>5. 0 \in Places
  BY AppendAssumption, Room DEF Places
<1>6. disk[0] \in Supers /\ disk = [p \in Places |-> disk[p]] /\ main.old = disk[0] /\ main.old.magic
  BY <1>1 DEF Kept, Types, WhenEarly, Fits, Early
<1>7. disk'[0] = [disk[0] EXCEPT !.magic = FALSE] /\ disk' = [p \in Places |-> disk'[p]]
  BY <1>1, <1>5, <1>6
<1>8. /\ disk'[0] \in Supers /\ disk'[0].id = disk[0].id /\ disk'[0].root = disk[0].root
      /\ disk'[0].data = disk[0].data /\ ~disk'[0].magic
  BY <1>6, <1>7 DEF Supers
<1>9. \A p \in Places : p # 0 => disk'[p] = disk[p]
  BY <1>1, <1>6
<1>10. Types'
  BY <1>1, <1>3, <1>7, <1>8 DEF Kept, Types
<1>11. SuperTrue'
  <2>1. Len(disk[0].data) \in Nat /\ Len(disk[0].data) <= MaxRuns * MaxBlocks /\ MaxRuns * MaxBlocks \in Nat
    <3>1. runs \in 0 .. MaxRuns
      BY DEF Kept, Types
    <3>2. runs * MaxBlocks <= MaxRuns * MaxBlocks /\ runs * MaxBlocks \in Nat /\ MaxRuns * MaxBlocks \in Nat
      BY <3>1, Room
    <3> QED BY <1>6, <3>2 DEF Kept, SuperTrue, Supers
  <2>2. \A k \in 1 .. Len(disk[0].data) : k \in Places /\ k # 0
    BY <2>1, AppendAssumption DEF Places
  <2>3. \A k \in 1 .. Len(disk[0].data) : disk'[k] = disk[k]
    BY <1>9, <2>2
  <2> QED BY <1>1, <1>8, <2>3 DEF Kept, SuperTrue
<1>12. Fits'
  BY <1>1, <1>3, <1>4 DEF Kept, Fits, Early, Late
<1>13. OldSuper' = main.old
  BY <1>6, <1>7 DEF OldSuper, Supers
<1>14. WhenLate'
  BY <1>3, <1>4, <1>8, <1>13 DEF WhenLate, Done
<1>15. Saved'
  BY <1>1, <1>3, <1>4 DEF Kept, Saved, Backup, Late
<1>16. WhenAppending'
  <2>1. Quiet /\ main.sent = 0 /\ main.root = main.old.root /\ main.interrupted < 2
    BY <1>1 DEF Kept, WhenEarly, Early
  <2>2. queue' = <<>> /\ writer' = "idle"
    BY <1>1, <2>1 DEF Quiet
  <2>3. Len(queue') = 0 /\ main'.sent = 0
    BY <1>4, <2>1, <2>2
  <2>4. Queued' /\ Stored'
    BY <2>3 DEF Queued, Stored
  <2> QED BY <1>3, <1>4, <2>1, <2>2, <2>3, <2>4 DEF WhenAppending
<1>17. WhenIdle' /\ WhenRecover' /\ WhenEarly' /\ WhenRestoring'
  BY <1>1, <1>3, <1>4 DEF Kept, WhenIdle, WhenRecover, WhenEarly, WhenRestoring, Early
<1>18. WhenWriting'
  BY <1>1, <1>3, <1>4 DEF Kept, WhenWriting, Early
<1> QED BY <1>10, <1>11, <1>12, <1>14, <1>15, <1>16, <1>17, <1>18 DEF Kept

-----------------------------------------------------------------------------
(* The append: its data and its new super block.                           *)

LEMMA GiveBlockStep ==
  ASSUME Kept, GiveBlock
  PROVE  Kept'
<1>1. /\ main.pc = "append" /\ main.sent < main.blocks /\ queue' = Append(queue, Block(main.sent + 1))
      /\ main' = [main EXCEPT !.sent = @ + 1]
      /\ disk' = disk /\ files' = files /\ runs' = runs /\ reader' = reader /\ writer' = writer /\ offset' = offset
  BY DEF GiveBlock
<1>2. main \in Appends
  BY <1>1, MainTypes DEF Kept, Late
<1>3. main' \in Appends /\ main'.pc = "append" /\ main'.sent = main.sent + 1
  <2>1. main.sent + 1 \in 0 .. MaxBlocks
    BY <1>1, <1>2, AppendAssumption DEF Appends
  <2> QED BY <1>1, <1>2, <2>1 DEF Appends
<1>4. /\ main'.old = main.old /\ main'.root = main.root /\ main'.restoring = main.restoring
      /\ main'.interrupted = main.interrupted /\ main'.seeked = main.seeked /\ main'.blocks = main.blocks
      /\ main'.keep = main.keep
  BY <1>1, <1>2 DEF Appends
<1>5. Readable' = Readable /\ OldSuper' = OldSuper
  BY <1>1, SameDisk
<1>6. /\ queue \in Seq(Nat \X DataUnits) /\ main.sent \in Nat /\ runs \in Nat
      /\ main.old.data \in Seq(DataUnits) /\ Len(main.old.data) \in Nat
  BY <1>2, AppendAssumption DEF Kept, Types, Appends, Supers
<1>7. Block(main.sent + 1) \in Nat \X DataUnits
  BY <1>6 DEF Block, DataUnits
<1>8. /\ queue' \in Seq(Nat \X DataUnits) /\ Len(queue') = Len(queue) + 1 /\ queue' # <<>>
      /\ \A k \in 1 .. Len(queue) : queue'[k] = queue[k]
      /\ queue'[Len(queue) + 1] = Block(main.sent + 1)
      /\ queue # <<>> => Head(queue') = Head(queue)
  BY <1>1, <1>6, <1>7
<1>9. Types'
  BY <1>1, <1>3, <1>8 DEF Kept, Types
<1>10. SuperTrue'
  BY <1>1 DEF Kept, SuperTrue
<1>11. Fits'
  <2>1. main.blocks \in Nat /\ main.sent + 1 <= main.blocks
    BY <1>1, <1>2, <1>6 DEF Appends
  <2> QED BY <1>1, <1>3, <1>4, <2>1 DEF Kept, Fits, Late
<1>12. WhenLate'
  BY <1>1, <1>3, <1>4, <1>5 DEF Kept, WhenLate, Done, Late
<1>13. Saved'
  BY <1>1, <1>3, <1>4 DEF Kept, Saved, Backup, Late
<1>14. WhenAppending'
  <2>1. ~main.restoring
    BY <1>1 DEF Kept, WhenRestoring, Late
  <2>2. Len(queue) <= main.sent /\ Len(queue) \in Nat
    BY <1>1, <1>6, <2>1 DEF Kept, WhenAppending, Late
  <2>3. runs' = runs /\ \A k : Block(k)' = Block(k)
    BY <1>1, <1>4 DEF Block
  <2>4. Queued'
    <3> SUFFICES ASSUME NEW k \in 1 .. Len(queue')
                 PROVE  queue'[k] = Block(main'.sent - Len(queue') + k)
      BY <1>4, <2>3, Zenon DEF Queued, Block
    <3>1. main'.sent - Len(queue') = main.sent - Len(queue)
      BY <1>3, <1>6, <1>8, <2>2
    <3>2. CASE k \in 1 .. Len(queue)
      BY <1>1, <1>8, <2>1, <3>1, <3>2 DEF Kept, WhenAppending, Queued, Late
    <3>3. CASE k = Len(queue) + 1
      BY <1>6, <1>8, <2>2, <3>1, <3>3
    <3> QED BY <1>8, <2>2, <3>2, <3>3
  <2>5. Stored'
    <3>1. Stored
      BY <1>1, <2>1 DEF Kept, WhenAppending, Late
    <3>2. main'.sent - Len(queue') = main.sent - Len(queue)
      BY <1>3, <1>6, <1>8, <2>2
    <3> QED BY <1>1, <1>4, <2>3, <3>1, <3>2 DEF Stored
  <2>6. writer' = "seeked" => queue' # <<>> /\ offset' = Head(queue')[1]
    BY <1>1, <1>8, <2>1 DEF Kept, WhenAppending, Late
  <2>7. main.root = main.old.root /\ main.interrupted < 2 /\ writer # "parked"
    BY <1>1, <2>1 DEF Kept, WhenAppending, Late
  <2>8. Len(queue') <= main'.sent
    BY <1>3, <1>6, <1>8, <2>2
  <2> QED BY <1>1, <1>3, <1>4, <2>4, <2>5, <2>6, <2>7, <2>8 DEF WhenAppending
<1>15. WhenIdle' /\ WhenRecover' /\ WhenEarly' /\ WhenRestoring'
  BY <1>1, <1>3, <1>4 DEF Kept, WhenIdle, WhenRecover, WhenEarly, WhenRestoring, Early, Late
<1>16. WhenWriting'
  BY <1>1, <1>3, <1>4 DEF Kept, WhenWriting, Late
<1> QED BY <1>9, <1>10, <1>11, <1>12, <1>13, <1>14, <1>15, <1>16 DEF Kept

\* A step that leaves the blocks alone.
LEMMA SameBlocks ==
  ASSUME main'.old = main.old, main'.sent = main.sent, runs' = runs, queue' = queue, disk' = disk
  PROVE  Queued' = Queued /\ Stored' = Stored
<1>1. \A k : Block(k)' = Block(k)
  BY DEF Block
<1> QED BY <1>1 DEF Queued, Stored

LEMMA FillSuperStep ==
  ASSUME Kept, FillSuper
  PROVE  Kept'
<1>1. /\ main.pc = "append" /\ main.sent = main.blocks /\ main' = [main EXCEPT !.pc = "restore_filesystem", !.root = runs]
      /\ disk' = disk /\ files' = files /\ runs' = runs /\ reader' = reader /\ queue' = queue /\ writer' = writer
      /\ offset' = offset
  BY DEF FillSuper, threads
<1>2. main \in Appends /\ runs \in Nat
  BY <1>1, MainTypes, AppendAssumption DEF Kept, Types, Late
<1>3. main' \in Appends /\ main'.pc = "restore_filesystem" /\ main'.root = runs
  BY <1>1, <1>2 DEF Appends, Late
<1>4. /\ main'.old = main.old /\ main'.sent = main.sent /\ main'.restoring = main.restoring
      /\ main'.interrupted = main.interrupted /\ main'.seeked = main.seeked /\ main'.blocks = main.blocks
      /\ main'.keep = main.keep
  BY <1>1, <1>2 DEF Appends
<1>5. Readable' = Readable /\ OldSuper' = OldSuper
  BY <1>1, SameDisk
<1>6. ~main.restoring
  BY <1>1 DEF Kept, WhenRestoring, Late
<1>7. Types'
  BY <1>1, <1>3 DEF Kept, Types
<1>8. SuperTrue'
  BY <1>1 DEF Kept, SuperTrue
<1>9. Fits'
  BY <1>1, <1>3, <1>4 DEF Kept, Fits, Late
<1>10. WhenLate'
  BY <1>1, <1>3, <1>4, <1>5 DEF Kept, WhenLate, Done, Late
<1>11. Saved'
  BY <1>1, <1>3, <1>4 DEF Kept, Saved, Backup, Late
<1>12. Queued' = Queued /\ Stored' = Stored
  BY <1>1, <1>4, SameBlocks
<1>13. WhenAppending'
  BY <1>1, <1>3, <1>4, <1>6, <1>12 DEF Kept, WhenAppending, Late
<1>14. WhenIdle' /\ WhenRecover' /\ WhenEarly' /\ WhenRestoring'
  BY <1>3, <1>4, <1>6 DEF WhenIdle, WhenRecover, WhenEarly, WhenRestoring, Early
<1>15. WhenWriting'
  BY <1>1, <1>3, <1>4 DEF Kept, WhenWriting, Late
<1> QED BY <1>7, <1>8, <1>9, <1>10, <1>11, <1>13, <1>14, <1>15 DEF Kept

LEMMA WaitStep ==
  ASSUME Kept, Wait
  PROVE  Kept'
<1>1. /\ main.pc = "restore_filesystem" /\ main' = [main EXCEPT !.pc = "wait"]
      /\ disk' = disk /\ files' = files /\ runs' = runs /\ reader' = reader /\ queue' = queue /\ writer' = writer
      /\ offset' = offset
  BY DEF Wait, threads
<1>2. main \in Appends
  BY <1>1, MainTypes DEF Kept, Late
<1>3. main' \in Appends /\ main'.pc = "wait"
  BY <1>1, <1>2 DEF Appends, Late
<1>4. /\ main'.old = main.old /\ main'.root = main.root /\ main'.sent = main.sent /\ main'.restoring = main.restoring
      /\ main'.interrupted = main.interrupted /\ main'.seeked = main.seeked /\ main'.blocks = main.blocks
      /\ main'.keep = main.keep
  BY <1>1, <1>2 DEF Appends
<1>5. Readable' = Readable /\ OldSuper' = OldSuper
  BY <1>1, SameDisk
<1>6. Types' /\ SuperTrue'
  BY <1>1, <1>3 DEF Kept, Types, SuperTrue
<1>7. Fits'
  BY <1>1, <1>3, <1>4 DEF Kept, Fits, Late
<1>8. WhenLate'
  BY <1>1, <1>3, <1>4, <1>5 DEF Kept, WhenLate, Done, Late
<1>9. Saved'
  BY <1>1, <1>3, <1>4 DEF Kept, Saved, Backup, Late
<1>10. Queued' = Queued /\ Stored' = Stored
  BY <1>1, <1>4, SameBlocks
<1>11. WhenAppending'
  BY <1>1, <1>3, <1>4, <1>10 DEF Kept, WhenAppending, Late
<1>12. WhenIdle' /\ WhenRecover' /\ WhenEarly' /\ WhenRestoring'
  BY <1>1, <1>3, <1>4 DEF Kept, WhenIdle, WhenRecover, WhenEarly, WhenRestoring, Early, Late
<1>13. WhenWriting'
  BY <1>1, <1>3, <1>4 DEF Kept, WhenWriting, Late
<1> QED BY <1>6, <1>7, <1>8, <1>9, <1>11, <1>12, <1>13 DEF Kept

\* What is left is all of the output: nothing of it is written yet.
LEMMA DrainedStep ==
  ASSUME Kept, Drained
  PROVE  Kept'
<1>1. /\ (main.pc = "wait" /\ Answered) \/ (main.pc = "restore_filesystem" /\ ~Uninterrupted)
      /\ main' = [main EXCEPT !.pc = "write", !.todo = Output]
      /\ disk' = disk /\ files' = files /\ runs' = runs /\ reader' = reader /\ queue' = queue /\ writer' = writer
      /\ offset' = offset
  BY DEF Drained, threads
<1>2. main \in Appends /\ runs \in Nat
  BY <1>1, MainTypes, AppendAssumption DEF Kept, Types, Late
<1>3. Output \in Seq(Outs) /\ Len(Output) = Tables + 1 /\ Tables \in Nat
  BY <1>2, OutputIs, ListingFacts, AppendAssumption
<1>4. /\ main'.old = main.old /\ main'.root = main.root /\ main'.sent = main.sent /\ main'.restoring = main.restoring
      /\ main'.interrupted = main.interrupted /\ main'.seeked = main.seeked /\ main'.blocks = main.blocks
      /\ main'.keep = main.keep /\ main'.todo = Output /\ main'.pc = "write"
  BY <1>1, <1>2 DEF Appends
<1>5. main' \in Appends
  BY <1>1, <1>2, <1>3 DEF Appends, Late
<1>6. Readable' = Readable /\ OldSuper' = OldSuper
  BY <1>1, SameDisk
<1>7. Types' /\ SuperTrue'
  BY <1>1, <1>5 DEF Kept, Types, SuperTrue
<1>8. Fits'
  BY <1>1, <1>4 DEF Kept, Fits, Late
<1>9. WhenLate'
  <2>1. Output # <<>>
    BY <1>3
  <2> QED BY <1>1, <1>4, <1>6, <2>1 DEF Kept, WhenLate, Done, Late
<1>10. Saved'
  BY <1>1, <1>4 DEF Kept, Saved, Backup, Late
<1>11. Queued' = Queued /\ Stored' = Stored
  BY <1>1, <1>4, SameBlocks
<1>12. WhenAppending'
  <2>1. ~main.restoring => Quiet
    BY <1>1, <1>2 DEF Kept, WhenAppending, Late, Uninterrupted, Answered, Quiet, Appends
  <2> QED BY <1>1, <1>4, <1>11, <2>1 DEF Kept, WhenAppending, Quiet, Late
<1>13. WhenIdle' /\ WhenRecover' /\ WhenEarly' /\ WhenRestoring'
  BY <1>1, <1>4 DEF Kept, WhenIdle, WhenRecover, WhenEarly, WhenRestoring, Early, Late
<1>14. WhenWriting'
  <2>1. Output' = Output
    <3>1. NewData' = NewData
      BY <1>1, <1>4 DEF NewData, Block
    <3> QED BY <1>1, <1>4, <3>1 DEF Output
  <2>2. Writing(Output, Output)'
    BY <1>3, <2>1 DEF Writing, Suffix, WrittenUpTo
  <2>3. ~main'.seeked
    BY <1>1, <1>4 DEF Kept, WhenWriting, Late
  <2> QED BY <1>4, <2>1, <2>2, <2>3 DEF WhenWriting
<1> QED BY <1>7, <1>8, <1>9, <1>10, <1>12, <1>13, <1>14 DEF Kept

-----------------------------------------------------------------------------
(* The tables and the super block are written, and mksquashfs ends.        *)

LEMMA SeekStep ==
  ASSUME Kept, Seek
  PROVE  Kept'
<1>1. /\ main.pc = "write" /\ ~main.seeked /\ main.todo # <<>> /\ offset' = Head(main.todo)[1]
      /\ main' = [main EXCEPT !.seeked = TRUE, !.locked = @ \/ Uninterrupted]
      /\ disk' = disk /\ files' = files /\ runs' = runs /\ reader' = reader /\ queue' = queue /\ writer' = writer
  BY DEF Seek
<1>2. main \in Appends
  BY <1>1, MainTypes DEF Kept, Late
<1>3. /\ main'.old = main.old /\ main'.root = main.root /\ main'.sent = main.sent /\ main'.restoring = main.restoring
      /\ main'.interrupted = main.interrupted /\ main'.blocks = main.blocks /\ main'.todo = main.todo
      /\ main'.keep = main.keep /\ main'.pc = "write" /\ main'.seeked
  BY <1>1, <1>2 DEF Appends
<1>4. main' \in Appends
  <2>1. (main.locked \/ Uninterrupted) \in BOOLEAN
    OBVIOUS
  <2> QED BY <1>1, <1>2, <2>1 DEF Appends
<1>5. offset' \in Nat
  <2>1. main.todo \in Seq(Outs)
    BY <1>2 DEF Appends
  <2>2. Head(main.todo) \in Outs
    BY <1>1, <2>1
  <2> QED BY <1>1, <2>2 DEF Outs
<1>6. Readable' = Readable /\ OldSuper' = OldSuper
  BY <1>1, SameDisk
<1>7. Types' /\ SuperTrue'
  BY <1>1, <1>4, <1>5 DEF Kept, Types, SuperTrue
<1>8. Fits'
  BY <1>1, <1>3 DEF Kept, Fits, Late
<1>9. WhenLate'
  BY <1>1, <1>3, <1>6 DEF Kept, WhenLate, Done, Late
<1>10. Saved'
  BY <1>1, <1>3 DEF Kept, Saved, Backup, Late
<1>11. Queued' = Queued /\ Stored' = Stored
  BY <1>1, <1>3, SameBlocks
<1>12. WhenAppending'
  BY <1>1, <1>3, <1>11 DEF Kept, WhenAppending, Quiet, Late
<1>13. WhenIdle' /\ WhenRecover' /\ WhenEarly' /\ WhenRestoring'
  BY <1>1, <1>3 DEF Kept, WhenIdle, WhenRecover, WhenEarly, WhenRestoring, Early, Late
<1>14. WhenWriting'
  <2>1. NewData' = NewData
    BY <1>1, <1>3 DEF NewData, Block
  <2>2. Output' = Output
    BY <1>1, <1>3, <2>1 DEF Output
  <2>3. Writing(main.todo, Output)' = Writing(main.todo, Output)
    BY <1>1, <1>3, <2>2 DEF Writing
  <2> QED BY <1>1, <1>3, <2>3 DEF Kept, WhenWriting
<1> QED BY <1>7, <1>8, <1>9, <1>10, <1>12, <1>13, <1>14 DEF Kept

\* The output has its room behind the data.
LEMMA OutputRoom ==
  ASSUME Kept, main.pc \in Late
  PROVE  /\ main \in Appends /\ runs \in Nat /\ NewSuper \in Supers /\ Output = Listing(NewSuper) /\ Distinct(Output)
         /\ Len(main.old.data) \in Nat /\ Len(NewSuper.data) \in Nat
         /\ Len(NewSuper.data) <= runs * MaxBlocks /\ runs * MaxBlocks \in Nat
         /\ Len(NewSuper.data) = Len(main.old.data) + (IF main.restoring THEN 0 ELSE main.blocks)
<1>1. main \in Appends
  BY MainTypes DEF Kept
<1>2. runs \in 0 .. MaxRuns /\ runs \in Nat
  BY AppendAssumption DEF Kept, Types
<1>3. /\ runs * MaxBlocks <= MaxRuns * MaxBlocks /\ runs * MaxBlocks \in Nat /\ MaxRuns * MaxBlocks \in Nat
      /\ MaxBlocks \in Nat
  BY <1>2, Room, AppendAssumption
<1>4. /\ main.old.data \in Seq(DataUnits) /\ Len(main.old.data) \in Nat /\ main.blocks \in 0 .. MaxBlocks
  BY <1>1 DEF Appends, Supers
<1>5. Len(main.old.data) + MaxBlocks <= runs * MaxBlocks
  BY DEF Kept, Fits
<1>6. /\ NewSuper \in Supers /\ Output = Listing(NewSuper)
      /\ NewSuper.data = (IF main.restoring THEN main.old.data ELSE NewData)
  BY <1>1, <1>2, OutputIs
<1>7. Len(NewData) = Len(main.old.data) + main.blocks
  BY <1>1, <1>2, NewDataFacts
<1> HIDE DEF NewSuper, Output, NewData, Listing
<1>8. Len(NewSuper.data) = Len(main.old.data) + (IF main.restoring THEN 0 ELSE main.blocks)
  BY <1>4, <1>6, <1>7
<1>9. Len(NewSuper.data) \in Nat /\ Len(NewSuper.data) <= runs * MaxBlocks
  BY <1>3, <1>4, <1>5, <1>8
<1>10. Len(NewSuper.data) <= MaxRuns * MaxBlocks
  BY <1>3, <1>9
<1>11. Distinct(Output)
  BY <1>3, <1>6, <1>10, DistinctFacts
<1> QED BY <1>1, <1>2, <1>3, <1>4, <1>6, <1>8, <1>9, <1>11

\* What Write does: the next unit of the output, which is a table, or the super block
\* when it is the last.
LEMMA WriteIs ==
  ASSUME Kept, Write
  PROVE  /\ main.todo # <<>> /\ Len(main.todo) \in 1 .. Tables + 1
         /\ Tail(main.todo) \in Seq(Outs) /\ Len(Tail(main.todo)) = Len(main.todo) - 1
         /\ Suffix(Tail(main.todo), Output)
         /\ WrittenUpTo(disk', Output, Tables + 2 - Len(main.todo))
         /\ offset \in Places /\ disk' = [p \in Places |-> IF p = offset THEN disk'[p] ELSE disk[p]]
         /\ Len(main.todo) = 1 => offset = 0 /\ disk'[0] = NewSuper
         /\ Len(main.todo) # 1 => offset > Len(NewSuper.data)
<1>1. /\ main.pc = "write" /\ main.seeked /\ disk' = [disk EXCEPT ![offset] = Head(main.todo)[2]]
  BY DEF Write
<1>2. /\ main \in Appends /\ NewSuper \in Supers /\ Output = Listing(NewSuper) /\ Distinct(Output)
      /\ Len(NewSuper.data) \in Nat
  BY <1>1, OutputRoom DEF Late
<1>3. /\ main.todo # <<>> /\ offset = Head(main.todo)[1] /\ Suffix(main.todo, Output)
      /\ WrittenUpTo(disk, Output, Len(Output) - Len(main.todo))
  BY <1>1 DEF Kept, WhenWriting, Writing
<1> HIDE DEF NewSuper, Output, Listing
<1>4. Output \in Seq(Outs) /\ Len(Output) = Tables + 1 /\ main.todo \in Seq(Outs)
  BY <1>2, ListingFacts DEF Appends
<1>5. /\ Head(main.todo) = Output[Len(Output) - Len(main.todo) + 1]
      /\ Tail(main.todo) \in Seq(Outs) /\ Len(Tail(main.todo)) = Len(main.todo) - 1
      /\ Suffix(Tail(main.todo), Output)
  BY <1>3, <1>4, SuffixFacts
<1>6. Tables \in Nat /\ Len(main.todo) \in 1 .. Tables + 1
  BY <1>3, <1>4, AppendAssumption DEF Suffix
<1> DEFINE l == Len(main.todo)
           n == Tables + 1 - l
<1>7. l \in 1 .. Tables + 1 /\ Tables \in Nat /\ l = Len(main.todo)
  BY <1>6
<1>8. /\ WrittenUpTo(disk, Output, n) /\ Head(main.todo) = Output[n + 1]
      /\ n \in Nat /\ n < Tables + 1 /\ Tables + 2 - Len(main.todo) = n + 1
      /\ l = 1 => n + 1 = Tables + 1
      /\ l # 1 => n + 1 \in 1 .. Tables
  <2> HIDE DEF l
  <2>1. n \in Nat /\ n < Tables + 1 /\ Tables + 2 - l = n + 1 /\ (l = 1 => n + 1 = Tables + 1) /\ (l # 1 => n + 1 \in 1 .. Tables)
    <3>1. \A a \in Nat : \A b \in 1 .. a + 1 :
            /\ a + 1 - b \in Nat /\ a + 1 - b < a + 1 /\ a + 2 - b = a + 1 - b + 1
            /\ (b = 1 => a + 1 - b + 1 = a + 1) /\ (b # 1 => a + 1 - b + 1 \in 1 .. a)
      OBVIOUS
    <3> QED BY <1>7, <3>1
  <2>2. Len(Output) - Len(main.todo) = n
    BY <1>4, <1>7
  <2> QED BY <1>3, <1>5, <1>7, <2>1, <2>2
<1> HIDE DEF n, l
<1>9. disk = [p \in Places |-> disk[p]]
  BY DEF Kept, Types
<1>10. disk' = [disk EXCEPT ![Output[n + 1][1]] = Output[n + 1][2]]
  BY <1>1, <1>3, <1>8
<1>11. WrittenUpTo(disk', Output, n + 1)
  BY <1>2, <1>4, <1>8, <1>9, <1>10, WritingStep
<1>12. offset \in Places
  BY <1>2, <1>3, <1>4, <1>7, <1>8 DEF Distinct
<1>13. disk' = [p \in Places |-> IF p = offset THEN disk'[p] ELSE disk[p]]
  BY <1>1, <1>9, <1>12
<1>14. CASE Len(main.todo) = 1
  <2>1. n + 1 = Tables + 1
    BY <1>7, <1>8, <1>14
  <2>2. Output[n + 1][1] = 0 /\ Output[n + 1][2] = NewSuper
    BY <1>2, <2>1, ListingFacts
  <2>3. offset = 0 /\ Head(main.todo)[2] = NewSuper
    BY <1>3, <1>8, <2>2
  <2>4. disk'[0] = NewSuper
    BY <1>1, <1>9, <1>12, <2>3
  <2> QED BY <1>3, <1>5, <1>6, <1>8, <1>11, <1>12, <1>13, <1>14, <2>3, <2>4
<1>15. CASE Len(main.todo) # 1
  <2>1. n + 1 \in 1 .. Tables
    BY <1>7, <1>8, <1>15
  <2>2. Output[n + 1][1] = Len(NewSuper.data) + (n + 1)
    BY <1>2, <2>1, ListingFacts
  <2>3. offset = Len(NewSuper.data) + (n + 1)
    BY <1>3, <1>8, <2>2
  <2>4. offset > Len(NewSuper.data)
    BY <1>2, <2>1, <2>3
  <2> QED BY <1>3, <1>5, <1>6, <1>8, <1>11, <1>12, <1>13, <1>15, <2>4
<1> QED BY <1>14, <1>15

\* A unit behind the data is written, and the rest of the destination is as it was.
LEMMA BehindData ==
  ASSUME Kept, main.pc \in {"recover"} \cup Late, NEW p \in Places, p > Len(disk[0].data),
         disk' = [q \in Places |-> IF q = p THEN disk'[q] ELSE disk[q]]
  PROVE  /\ disk' = [q \in Places |-> disk'[q]] /\ disk'[0] = disk[0] /\ OldSuper' = OldSuper
         /\ \A k \in 1 .. Len(disk[0].data) : disk'[k] = disk[0].data[k]
         /\ \A f : Matches(f)' = Matches(f)
<1>1. runs \in 0 .. MaxRuns /\ Len(disk[0].data) <= runs * MaxBlocks /\ Len(disk[0].data) \in Nat
  BY DEF Kept, Types, SuperTrue, Supers
<1>2. Len(disk[0].data) <= MaxRuns * MaxBlocks /\ MaxRuns * MaxBlocks \in Nat
  BY <1>1, Room
<1>3. 0 \in Places /\ \A k \in 1 .. Len(disk[0].data) : k \in Places
  BY SMTT(30), <1>1, <1>2, AppendAssumption DEF Places
<1>4. p # 0 /\ \A k \in 1 .. Len(disk[0].data) : k # p
  BY <1>1
<1>5. disk'[0] = disk[0] /\ \A k \in 1 .. Len(disk[0].data) : disk'[k] = disk[k]
  BY <1>3, <1>4
<1>6. OldSuper' = OldSuper /\ \A f : Matches(f)' = Matches(f)
  BY <1>5 DEF OldSuper, Matches
<1> QED BY <1>5, <1>6 DEF Kept, SuperTrue

LEMMA WriteStep ==
  ASSUME Kept, Write
  PROVE  Kept'
<1>1. /\ main.pc = "write" /\ main.seeked /\ offset' = offset + 1
      /\ main' = [main EXCEPT !.seeked = FALSE, !.locked = @ /\ ~Uninterrupted, !.todo = Tail(@)]
      /\ files' = files /\ runs' = runs /\ reader' = reader /\ queue' = queue /\ writer' = writer
  BY DEF Write
<1>2. /\ main \in Appends /\ runs \in Nat /\ NewSuper \in Supers /\ Output = Listing(NewSuper) /\ Distinct(Output)
      /\ Len(main.old.data) \in Nat /\ Len(NewSuper.data) \in Nat
      /\ Len(NewSuper.data) <= runs * MaxBlocks /\ runs * MaxBlocks \in Nat
      /\ Len(NewSuper.data) = Len(main.old.data) + (IF main.restoring THEN 0 ELSE main.blocks)
  BY <1>1, OutputRoom DEF Late
<1>3. /\ main.todo # <<>> /\ Len(main.todo) \in 1 .. Tables + 1
      /\ Tail(main.todo) \in Seq(Outs) /\ Len(Tail(main.todo)) = Len(main.todo) - 1
      /\ Suffix(Tail(main.todo), Output)
      /\ WrittenUpTo(disk', Output, Tables + 2 - Len(main.todo))
      /\ offset \in Places /\ disk' = [p \in Places |-> IF p = offset THEN disk'[p] ELSE disk[p]]
      /\ Len(main.todo) = 1 => offset = 0 /\ disk'[0] = NewSuper
      /\ Len(main.todo) # 1 => offset > Len(NewSuper.data)
  BY WriteIs
<1>4. /\ main'.old = main.old /\ main'.root = main.root /\ main'.sent = main.sent /\ main'.restoring = main.restoring
      /\ main'.interrupted = main.interrupted /\ main'.blocks = main.blocks /\ main'.todo = Tail(main.todo)
      /\ main'.keep = main.keep /\ main'.pc = "write" /\ ~main'.seeked
  BY <1>1, <1>2 DEF Appends
<1>5. main' \in Appends
  <2>1. (main.locked /\ ~Uninterrupted) \in BOOLEAN
    OBVIOUS
  <2> QED BY <1>1, <1>2, <1>3, <2>1 DEF Appends
<1>6. Fits' /\ Saved'
  BY <1>1, <1>4 DEF Kept, Fits, Saved, Backup, Late
<1>7. WhenIdle' /\ WhenRecover' /\ WhenEarly' /\ WhenRestoring'
  BY <1>1, <1>4 DEF Kept, WhenIdle, WhenRecover, WhenEarly, WhenRestoring, Early, Late
<1>8. OldSuper = main.old /\ disk[0] \in Supers /\ disk[0].data = main.old.data
  BY <1>1, <1>3 DEF Kept, Types, WhenLate, Done, Late, OldSuper, Supers
<1>9. WhenWriting'
  <2>1. NewData' = NewData
    BY <1>1, <1>4 DEF NewData, Block
  <2>2. Output' = Output
    BY <1>1, <1>4, <2>1 DEF Output
  <2>3. Len(Output) = Tables + 1 /\ Tables \in Nat
    BY <1>2, ListingFacts, AppendAssumption
  <2>4. Len(Output) - Len(Tail(main.todo)) = Tables + 2 - Len(main.todo)
    BY <1>3, <2>3
  <2>5. Suffix(Tail(main.todo), Output) /\ WrittenUpTo(disk', Output, Len(Output) - Len(Tail(main.todo)))
    BY <1>3, <2>4, Zenon
  <2> HIDE DEF Output, Suffix, WrittenUpTo
  <2>6. Writing(main.todo, Output)'
    BY <1>4, <2>2, <2>5 DEF Writing
  <2> QED BY <1>4, <2>6 DEF WhenWriting
<1>10. /\ ~main.restoring => /\ main.root = runs /\ main.sent = main.blocks /\ Quiet /\ Stored /\ Queued
                             /\ Len(queue) <= main.sent
       /\ main.restoring => main.root = main.old.root
  BY <1>1 DEF Kept, WhenAppending, WhenRestoring, Late
<1>11. CASE Len(main.todo) # 1
  <2>1. main'.todo # <<>>
    <3>1. Len(main.todo) \in Nat /\ Len(main.todo) >= 1
      BY <1>3, AppendAssumption
    <3>2. Len(Tail(main.todo)) # 0
      BY <1>3, <1>11, <3>1
    <3> QED BY <1>3, <1>4, <3>2, EmptySeq
  <2>2. offset > Len(disk[0].data) /\ main.pc \in Late
    <3>1. Len(NewSuper.data) >= Len(main.old.data) /\ offset \in Int
      <4>1. main.blocks \in Nat /\ offset \in Nat
        BY <1>2, AppendAssumption DEF Kept, Types, Appends
      <4> QED BY <1>2, <4>1
    <3> QED BY <1>1, <1>2, <1>3, <1>8, <1>11, <3>1 DEF Late
  <2>3. /\ disk' = [q \in Places |-> disk'[q]] /\ disk'[0] = disk[0] /\ OldSuper' = OldSuper
        /\ \A k \in 1 .. Len(disk[0].data) : disk'[k] = disk[0].data[k]
    BY <1>3, <2>2, BehindData
  <2>4. Types' /\ SuperTrue'
    <3>1. offset' \in Nat
      BY <1>1 DEF Kept, Types
    <3>2. disk'[0] \in Supers
      BY <1>8, <2>3
    <3>3. Types'
      BY <1>1, <1>5, <2>3, <3>1, <3>2 DEF Kept, Types
    <3> QED BY <1>1, <2>3, <3>3 DEF Kept, SuperTrue
  <2>5. WhenLate'
    BY <1>1, <1>3, <1>4, <2>1, <2>3 DEF Kept, WhenLate, Done, Late
  <2>6. WhenAppending'
    <3> SUFFICES ASSUME ~main.restoring
                 PROVE  WhenAppending'
      BY <1>4 DEF WhenAppending
    <3>1. Queued' = Queued
      BY <1>1, <1>4 DEF Queued, Block
    <3>2. Stored'
      <4>1. Len(NewSuper.data) = Len(main.old.data) + main.sent /\ main.sent \in Nat /\ Len(queue) = 0
        BY <1>2, <1>10, AppendAssumption DEF Appends, Quiet
      <4>2. \A k \in 1 .. main.sent : disk'[Len(main.old.data) + k] = Block(k)[2]
        <5> TAKE k \in 1 .. main.sent
        <5>1. Len(main.old.data) + k \in Places /\ Len(main.old.data) + k # offset
          <6>1. runs \in 0 .. MaxRuns /\ offset \in Nat /\ offset > Len(NewSuper.data)
            BY <1>3, <1>11 DEF Kept, Types
          <6>2. runs * MaxBlocks <= MaxRuns * MaxBlocks /\ MaxRuns * MaxBlocks \in Nat
            BY <6>1, Room
          <6>3. Len(main.old.data) + k \in Nat /\ Len(main.old.data) + k <= Len(NewSuper.data)
            BY <1>2, <4>1
          <6> QED BY <1>2, <6>1, <6>2, <6>3, AppendAssumption DEF Places
        <5>2. disk'[Len(main.old.data) + k] = disk[Len(main.old.data) + k]
          BY <1>3, <5>1
        <5>3. disk[Len(main.old.data) + k] = Block(k)[2]
          BY <1>10, <4>1 DEF Stored
        <5> QED BY <5>2, <5>3
      <4> QED BY <1>1, <1>4, <4>1, <4>2 DEF Stored, Block
    <3> QED BY <1>1, <1>4, <1>10, <3>1, <3>2 DEF WhenAppending, Quiet
  <2> QED BY <1>6, <1>7, <1>9, <2>4, <2>5, <2>6 DEF Kept
<1>12. CASE Len(main.todo) = 1
  <2>1. offset = 0 /\ disk'[0] = NewSuper
    BY <1>3, <1>12
  <2>2. main'.todo = <<>>
    <3>1. Len(Tail(main.todo)) = 0
      BY <1>3, <1>12
    <3> QED BY <1>3, <1>4, <3>1, EmptySeq
  <2>3. \A p \in Places : p # 0 => disk'[p] = disk[p]
    BY <1>3, <2>1
  <2>4. disk' = [p \in Places |-> disk'[p]]
    BY <1>3
  <2>5. /\ NewSuper.magic /\ NewSuper.root = main.root
        /\ NewSuper.id = (IF main.restoring THEN main.old.id ELSE runs)
        /\ NewSuper.data = (IF main.restoring THEN main.old.data ELSE NewData)
    BY <1>2, OutputIs
  <2>6. runs \in 0 .. MaxRuns /\ main.old.id \in Nat /\ main.old.id < runs /\ main.old.root = main.old.id
    BY <1>1, <1>2 DEF Kept, Types, Fits, Late, Appends, Supers
  <2>7. \A k \in 1 .. Len(NewSuper.data) : k \in Places /\ k # 0
    <3>1. runs * MaxBlocks <= MaxRuns * MaxBlocks /\ MaxRuns * MaxBlocks \in Nat /\ runs * MaxBlocks \in Nat
      BY <2>6, Room
    <3>2. Len(NewSuper.data) <= MaxRuns * MaxBlocks
      BY <1>2, <3>1
    <3> QED BY <1>2, <3>1, <3>2, AppendAssumption DEF Places
  <2>8. \A k \in 1 .. Len(NewSuper.data) : disk[k] = NewSuper.data[k]
    <3>1. \A k \in 1 .. Len(main.old.data) : disk[k] = main.old.data[k]
      BY <1>8 DEF Kept, SuperTrue
    <3>2. CASE main.restoring
      BY <2>5, <3>1, <3>2
    <3>3. CASE ~main.restoring
      <4>1. Len(NewData) = Len(main.old.data) + main.blocks /\ main.blocks \in Nat
        BY <1>2, NewDataFacts, AppendAssumption DEF Appends
      <4>2. \A k \in 1 .. Len(main.old.data) : NewData[k] = main.old.data[k]
        BY <1>2, NewDataFacts
      <4>3. \A k \in 1 .. main.blocks : NewData[Len(main.old.data) + k] = Block(k)[2]
        BY <1>2, NewDataFacts
      <4>4. \A k \in 1 .. main.blocks : disk[Len(main.old.data) + k] = Block(k)[2]
        <5>1. main.sent - Len(queue) = main.blocks
          BY <1>10, <3>3, <4>1 DEF Quiet
        <5> QED BY <1>10, <3>3, <5>1 DEF Stored
      <4>5. \A k \in 1 .. Len(NewData) : disk[k] = NewData[k]
        <5> TAKE k \in 1 .. Len(NewData)
        <5>1. CASE k \in 1 .. Len(main.old.data)
          BY <3>1, <4>2, <5>1
        <5>2. CASE k > Len(main.old.data)
          <6>1. PICK j \in 1 .. main.blocks : k = Len(main.old.data) + j
            BY <1>2, <4>1, <5>2, k - Len(main.old.data) \in 1 .. main.blocks
          <6> QED BY <4>3, <4>4, <6>1
        <5> QED BY <1>2, <4>1, <5>1, <5>2
      <4> QED BY <2>5, <3>3, <4>5
    <3> QED BY <3>2, <3>3
  <2>9. NewSuper.root = NewSuper.id /\ NewSuper.id <= runs /\ NewSuper.id \in Nat
    BY <1>2, <1>10, <2>5, <2>6
  <2>10. \A k \in 1 .. Len(NewSuper.data) : disk'[k] = NewSuper.data[k]
    BY <2>3, <2>7, <2>8
  <2>11. Types' /\ SuperTrue'
    <3>1. offset' \in Nat
      BY <1>1, <2>1
    <3>2. Types'
      BY <1>1, <1>2, <1>5, <2>1, <2>4, <3>1 DEF Kept, Types
    <3> QED BY <1>1, <1>2, <2>1, <2>9, <2>10, <3>2 DEF SuperTrue
  <2>12. Readable'
    <3>1. WrittenUpTo(disk', Listing(NewSuper), Tables + 1)
      <4>1. Tables + 2 - Len(main.todo) = Tables + 1 /\ Tables \in Nat
        BY <1>12, AppendAssumption
      <4> QED BY <1>2, <1>3, <4>1
    <3>2. \A k \in 1 .. Tables : disk'[Listing(NewSuper)[k][1]] = Listing(NewSuper)[k][2]
      BY <3>1, AppendAssumption DEF WrittenUpTo
    <3>3. \A k \in 1 .. Tables :
            disk'[Len(NewSuper.data) + k] = [kind |-> "table", id |-> NewSuper.id, part |-> k]
      <4> TAKE k \in 1 .. Tables
      <4>1. /\ Listing(NewSuper)[k][1] = Len(NewSuper.data) + k
            /\ Listing(NewSuper)[k][2] = [kind |-> "table", id |-> NewSuper.id, part |-> k]
        BY <1>2, ListingFacts
      <4> QED BY <3>2, <4>1, Zenon
    <3> HIDE DEF NewSuper
    <3>4. ReadableOn(disk')
      BY <1>2, <2>1, <2>5, <2>9, <2>10, <3>3, ReadableIs
    <3> QED BY <3>4 DEF Readable, ReadableOn
  <2>13. WhenLate'
    BY <1>4, <2>2, <2>12 DEF WhenLate, Done
  <2>14. WhenAppending'
    <3> SUFFICES ASSUME ~main.restoring
                 PROVE  WhenAppending'
      BY <1>4 DEF WhenAppending
    <3>1. Queued' = Queued
      BY <1>1, <1>4 DEF Queued, Block
    <3>2. Stored'
      <4>1. Len(NewSuper.data) = Len(main.old.data) + main.sent /\ main.sent \in Nat /\ Len(queue) = 0
        BY <1>2, <1>10, AppendAssumption DEF Appends, Quiet
      <4>2. \A k \in 1 .. main.sent : disk'[Len(main.old.data) + k] = Block(k)[2]
        <5> TAKE k \in 1 .. main.sent
        <5>1. Len(main.old.data) + k \in 1 .. Len(NewSuper.data)
          BY <1>2, <4>1
        <5>2. disk'[Len(main.old.data) + k] = disk[Len(main.old.data) + k]
          BY <2>3, <2>7, <5>1
        <5>3. disk[Len(main.old.data) + k] = Block(k)[2]
          BY <1>10, <4>1 DEF Stored
        <5> QED BY <5>2, <5>3
      <4> QED BY <1>1, <1>4, <4>1, <4>2 DEF Stored, Block
    <3> QED BY <1>1, <1>4, <1>10, <3>1, <3>2 DEF WhenAppending, Quiet
  <2> QED BY <1>6, <1>7, <1>9, <2>11, <2>13, <2>14 DEF Kept
<1>13. Len(main.todo) = 1 \/ Len(main.todo) # 1
  OBVIOUS
<1> QED BY <1>11, <1>12, <1>13

\* A step that leaves the file system, main and what it writes alone.
LEMMA SameWriting ==
  ASSUME disk' = disk, runs' = runs, main' = main
  PROVE  /\ Readable' = Readable /\ OldSuper' = OldSuper /\ Output' = Output
         /\ Writing(main.todo, Output)' = Writing(main.todo, Output)
         /\ Writing(main.todo, RecoverOutput(OldSuper))' = Writing(main.todo, RecoverOutput(OldSuper))
<1>1. Readable' = Readable /\ OldSuper' = OldSuper
  BY SameDisk
<1>2. NewData' = NewData
  BY DEF NewData, Block
<1>3. Output' = Output
  BY <1>2 DEF Output
<1>4. RecoverOutput(OldSuper)' = RecoverOutput(OldSuper)
  BY <1>1 DEF RecoverOutput, TableUnits
<1> QED BY <1>1, <1>3, <1>4 DEF Writing

\* The end of a run: the file system can be read, or the recovery file fits.
LEMMA EndStep ==
  ASSUME Kept, End, main.pc # "idle", disk' = disk, runs' = runs, offset' = offset, files' \subseteq files,
         Readable \/ \E f \in files' : Matches(f)
  PROVE  Kept'
<1>1. main' = Idle /\ main'.pc = "idle" /\ reader' = FALSE /\ queue' = <<>> /\ writer' = "idle"
  BY DEF End, Idle
<1>2. Readable' = Readable /\ \A f : Matches(f)' = Matches(f)
  BY SameDisk
<1>3. Types' /\ SuperTrue'
  <2>1. files' \subseteq [of : Nat, super : Supers, whole : BOOLEAN] /\ queue' \in Seq(Nat \X DataUnits)
    BY <1>1 DEF Kept, Types
  <2>2. Types'
    BY <1>1, <2>1 DEF Kept, Types
  <2> QED BY <2>2 DEF Kept, SuperTrue
<1>4. WhenIdle'
  BY <1>1, <1>2 DEF WhenIdle, Quiet
<1>5. /\ WhenRecover' /\ WhenEarly' /\ Saved' /\ Fits' /\ WhenLate' /\ WhenAppending' /\ WhenRestoring'
      /\ WhenWriting'
  BY <1>1 DEF WhenRecover, WhenEarly, Saved, Fits, WhenLate, WhenAppending, WhenRestoring, WhenWriting, Early, Late
<1> QED BY <1>3, <1>4, <1>5 DEF Kept

LEMMA UnlinkStep ==
  ASSUME Kept, Unlink
  PROVE  Kept'
<1>1. /\ main.pc = "write" /\ main.todo = <<>> /\ files' \subseteq files /\ End
      /\ disk' = disk /\ runs' = runs /\ offset' = offset
  BY DEF Unlink
<1>2. Readable
  BY <1>1 DEF Kept, WhenLate, Done, Late
<1> QED BY <1>1, <1>2, EndStep

-----------------------------------------------------------------------------
(* The reader and the writer.                                              *)

LEMMA ReaderEndsStep ==
  ASSUME Kept, ReaderEnds
  PROVE  Kept'
<1>1. /\ main.pc \in Late /\ ~reader' /\ reader' \in BOOLEAN
      /\ disk' = disk /\ files' = files /\ runs' = runs /\ main' = main /\ queue' = queue /\ writer' = writer
      /\ offset' = offset
  BY DEF ReaderEnds, Late
<1>2. /\ Readable' = Readable /\ OldSuper' = OldSuper /\ Output' = Output
      /\ Writing(main.todo, Output)' = Writing(main.todo, Output)
  BY <1>1, SameWriting
<1>3. Queued' = Queued /\ Stored' = Stored
  BY <1>1, SameBlocks
<1>4. Types' /\ SuperTrue'
  BY <1>1 DEF Kept, Types, SuperTrue
<1>5. Fits' /\ Saved' /\ WhenLate'
  BY <1>1, <1>2 DEF Kept, Fits, Saved, Backup, WhenLate, Done
<1>6. WhenAppending' /\ WhenRestoring'
  BY <1>1, <1>3 DEF Kept, WhenAppending, WhenRestoring, Quiet
<1>7. WhenIdle' /\ WhenRecover' /\ WhenEarly'
  BY <1>1 DEF WhenIdle, WhenRecover, WhenEarly, Early, Late
<1>8. WhenWriting'
  BY <1>1, <1>2 DEF Kept, WhenWriting
<1> QED BY <1>4, <1>5, <1>6, <1>7, <1>8 DEF Kept

\* Only an append that still takes its data has anything in the queue.
LEMMA WriterIs ==
  ASSUME Kept, (queue # <<>> /\ writer = "idle") \/ writer = "seeked"
  PROVE  /\ main \in Appends /\ main.pc \in Late \ {"write"} /\ ~main.restoring
         /\ queue # <<>> /\ queue \in Seq(Nat \X DataUnits) /\ Len(queue) \in Nat \ {0} /\ Len(queue) <= main.sent
         /\ main.sent \in Nat /\ Queued /\ Stored
         /\ Head(queue) = Block(main.sent - Len(queue) + 1)
<1>1. main.pc \in {"idle", "recover"} \cup Early \cup Late /\ (main.pc \in Late => main \in Appends)
  BY MainTypes DEF Kept
<1>2. main.pc \in Late
  BY <1>1 DEF Kept, WhenIdle, WhenRecover, WhenEarly, Quiet
<1>3. ~main.restoring /\ main.pc # "write"
  BY <1>2 DEF Kept, WhenRestoring, WhenAppending, Quiet
<1>4. /\ queue # <<>> /\ queue \in Seq(Nat \X DataUnits) /\ Len(queue) <= main.sent /\ Queued /\ Stored
  BY <1>2, <1>3 DEF Kept, WhenAppending, Types
<1>5. main.sent \in Nat
  BY <1>1, <1>2, AppendAssumption DEF Appends
<1>6. Len(queue) \in Nat \ {0} /\ Head(queue) = queue[1]
  BY <1>4
<1>7. queue[1] = Block(main.sent - Len(queue) + 1)
  BY <1>4, <1>6 DEF Queued
<1> QED BY <1>1, <1>2, <1>3, <1>4, <1>5, <1>6, <1>7

\* The blocks of an append have their room behind the old data.
LEMMA BlockRoom ==
  ASSUME Kept, main.pc \in Late
  PROVE  \A k \in 1 .. main.sent : Len(main.old.data) + k \in Places
<1>1. main \in Appends
  BY MainTypes DEF Kept
<1>2. /\ runs \in 0 .. MaxRuns /\ Len(main.old.data) \in Nat /\ main.sent \in 0 .. MaxBlocks
      /\ Len(main.old.data) + MaxBlocks <= runs * MaxBlocks
  BY <1>1 DEF Kept, Types, Fits, Appends, Supers
<1>3. runs * MaxBlocks <= MaxRuns * MaxBlocks /\ runs * MaxBlocks \in Nat /\ MaxRuns * MaxBlocks \in Nat
  BY <1>2, Room
<1>4. \A a, b, m, n \in Nat : \A c \in 0 .. m : \A j \in 1 .. c :
        a + m <= b /\ b <= n => a + j \in 0 .. n + Tables + 1
  BY AppendAssumption
<1> QED BY <1>2, <1>3, <1>4, AppendAssumption DEF Places

LEMMA WriterSeekStep ==
  ASSUME Kept, WriterSeek
  PROVE  Kept'
<1>1. /\ writer = "idle" /\ queue # <<>> /\ writer' = "seeked" /\ offset' = Head(queue)[1]
      /\ disk' = disk /\ files' = files /\ runs' = runs /\ main' = main /\ reader' = reader /\ queue' = queue
  BY DEF WriterSeek
<1>2. main.pc \in Late \ {"write"} /\ ~main.restoring /\ queue \in Seq(Nat \X DataUnits)
  BY <1>1, WriterIs
<1>3. offset' \in Nat
  <2>1. Head(queue) \in Nat \X DataUnits
    BY <1>1, <1>2
  <2> QED BY <1>1, <2>1
<1>4. Readable' = Readable /\ OldSuper' = OldSuper
  BY <1>1, SameDisk
<1>5. Queued' = Queued /\ Stored' = Stored
  BY <1>1, SameBlocks
<1>6. Types' /\ SuperTrue'
  BY <1>1, <1>3 DEF Kept, Types, SuperTrue
<1>7. Fits' /\ Saved' /\ WhenLate'
  BY <1>1, <1>4 DEF Kept, Fits, Saved, Backup, WhenLate, Done
<1>8. WhenAppending' /\ WhenRestoring'
  BY <1>1, <1>2, <1>5 DEF Kept, WhenAppending, WhenRestoring
<1>9. WhenIdle' /\ WhenRecover' /\ WhenEarly'
  BY <1>1, <1>2 DEF WhenIdle, WhenRecover, WhenEarly, Early, Late
<1>10. WhenWriting'
  BY <1>1, <1>2 DEF Kept, WhenWriting
<1> QED BY <1>6, <1>7, <1>8, <1>9, <1>10 DEF Kept

LEMMA WriterWriteStep ==
  ASSUME Kept, WriterWrite
  PROVE  Kept'
<1>1. /\ writer = "seeked" /\ writer' = "idle" /\ queue' = Tail(queue) /\ offset' = offset + 1
      /\ disk' = [disk EXCEPT ![offset] = Head(queue)[2]]
      /\ files' = files /\ runs' = runs /\ main' = main /\ reader' = reader
  BY DEF WriterWrite
<1>2. /\ main \in Appends /\ main.pc \in Late \ {"write"} /\ ~main.restoring
      /\ queue # <<>> /\ queue \in Seq(Nat \X DataUnits) /\ Len(queue) \in Nat \ {0} /\ Len(queue) <= main.sent
      /\ main.sent \in Nat /\ Queued /\ Stored
      /\ Head(queue) = Block(main.sent - Len(queue) + 1)
  BY <1>1, WriterIs
<1>3. offset = Head(queue)[1]
  BY <1>1, <1>2 DEF Kept, WhenAppending
<1>4. OldSuper = main.old /\ disk[0] \in Supers /\ disk[0].data = main.old.data /\ ~disk[0].magic
  BY <1>2 DEF Kept, Types, WhenLate, Done, Late, OldSuper, Supers
<1>5. Len(main.old.data) \in Nat /\ \A j \in 1 .. main.sent : Len(main.old.data) + j \in Places
  BY <1>2, BlockRoom DEF Appends, Supers
<1> DEFINE k == main.sent - Len(queue) + 1
<1>6. k \in 1 .. main.sent /\ offset = Len(main.old.data) + k /\ Head(queue)[2] = Block(k)[2]
  BY <1>2, <1>3, <1>5 DEF Block
<1> HIDE DEF k
<1>7. offset \in Places /\ offset > Len(main.old.data)
  BY <1>2, <1>5, <1>6
<1>8. disk' = [q \in Places |-> IF q = offset THEN Block(k)[2] ELSE disk[q]]
  BY <1>1, <1>6, <1>7 DEF Kept, Types
<1>9. disk' = [q \in Places |-> IF q = offset THEN disk'[q] ELSE disk[q]]
  BY <1>7, <1>8
<1>10. /\ disk' = [q \in Places |-> disk'[q]] /\ disk'[0] = disk[0] /\ OldSuper' = OldSuper
       /\ \A j \in 1 .. Len(disk[0].data) : disk'[j] = disk[0].data[j]
  BY <1>2, <1>4, <1>7, <1>9, BehindData
<1>11. queue' \in Seq(Nat \X DataUnits) /\ Len(queue') = Len(queue) - 1 /\ \A j \in 1 .. Len(queue') : queue'[j] = queue[j + 1]
  BY <1>1, <1>2
<1>12. Types' /\ SuperTrue'
  <2>1. offset' \in Nat
    BY <1>1 DEF Kept, Types
  <2>2. disk'[0] \in Supers
    BY <1>4, <1>10
  <2>3. Types'
    BY <1>1, <1>10, <1>11, <2>1, <2>2 DEF Kept, Types
  <2> QED BY <1>1, <1>10, <2>3 DEF Kept, SuperTrue
<1>13. Fits' /\ Saved'
  BY <1>1 DEF Kept, Fits, Saved, Backup
<1>14. WhenLate'
  BY <1>1, <1>2, <1>4, <1>10 DEF WhenLate, Done
<1>15. Queued'
  <2> SUFFICES ASSUME NEW j \in 1 .. Len(queue')
               PROVE  queue'[j] = Block(main.sent - Len(queue') + j)
    BY <1>1, Zenon DEF Queued, Block
  <2>1. j + 1 \in 1 .. Len(queue) /\ main.sent - Len(queue') + j = main.sent - Len(queue) + (j + 1)
    <3>1. Len(queue') \in Nat /\ Len(queue) = Len(queue') + 1
      BY <1>2, <1>11
    <3>2. \A a, b \in Nat : \A i \in 1 .. b : i + 1 \in 1 .. b + 1 /\ a - b + i = a - (b + 1) + (i + 1)
      OBVIOUS
    <3>3. main.sent \in Nat
      BY <1>2
    <3> QED BY <3>1, <3>2, <3>3
  <2>2. queue[j + 1] = Block(main.sent - Len(queue) + (j + 1))
    BY <1>2, <2>1 DEF Queued
  <2> QED BY <1>11, <2>1, <2>2
<1>16. Stored'
  <2> SUFFICES ASSUME NEW j \in 1 .. main.sent - Len(queue')
               PROVE  disk'[Len(main.old.data) + j] = Block(j)[2]
    BY <1>1, Zenon DEF Stored, Block
  <2>1. j \in 1 .. main.sent /\ (j = k \/ j \in 1 .. main.sent - Len(queue))
    BY <1>2, <1>11 DEF k
  <2>2. Len(main.old.data) + j \in Places
    BY <1>5, <2>1
  <2>3. CASE j = k
    BY <1>6, <1>7, <1>8, <2>3
  <2>4. CASE j # k /\ j \in 1 .. main.sent - Len(queue)
    <3>1. Len(main.old.data) + j # offset
      BY <1>5, <1>6, <2>1, <2>4
    <3> QED BY <1>2, <1>8, <2>2, <2>4, <3>1 DEF Stored
  <2> QED BY <2>1, <2>3, <2>4
<1>17. WhenAppending' /\ WhenRestoring'
  <2>1. Len(queue') <= main.sent
    BY <1>2, <1>11
  <2> QED BY <1>1, <1>2, <1>15, <1>16, <2>1 DEF Kept, WhenAppending, WhenRestoring
<1>18. WhenIdle' /\ WhenRecover' /\ WhenEarly'
  BY <1>1, <1>2 DEF WhenIdle, WhenRecover, WhenEarly, Early, Late
<1>19. WhenWriting'
  BY <1>1, <1>2 DEF Kept, WhenWriting
<1> QED BY <1>12, <1>13, <1>14, <1>17, <1>18, <1>19 DEF Kept

-----------------------------------------------------------------------------
(* Signals and errors.                                                     *)

LEMMA FirstInterruptStep ==
  ASSUME Kept, FirstInterrupt
  PROVE  Kept'
<1>1. /\ main.pc \in {"zero"} \cup Late /\ main.interrupted = 0 /\ main' = [main EXCEPT !.interrupted = 1]
      /\ disk' = disk /\ files' = files /\ runs' = runs /\ reader' = reader /\ queue' = queue /\ writer' = writer
      /\ offset' = offset
  BY DEF FirstInterrupt, Handled, Late, threads
<1>2. main \in Appends
  BY <1>1, MainTypes DEF Kept, Early
<1>3. /\ main'.old = main.old /\ main'.root = main.root /\ main'.sent = main.sent /\ main'.restoring = main.restoring
      /\ main'.interrupted = 1 /\ main'.blocks = main.blocks /\ main'.todo = main.todo /\ main'.seeked = main.seeked
      /\ main'.keep = main.keep /\ main'.pc = main.pc
  BY <1>1, <1>2 DEF Appends
<1>4. main' \in Appends
  BY <1>1, <1>2 DEF Appends
<1>5. Readable' = Readable /\ OldSuper' = OldSuper
  BY <1>1, SameDisk
<1>6. Types' /\ SuperTrue'
  BY <1>1, <1>4 DEF Kept, Types, SuperTrue
<1>7. Fits' /\ Saved'
  BY <1>1, <1>3 DEF Kept, Fits, Saved, Backup
<1>8. WhenLate'
  BY <1>1, <1>3, <1>5 DEF Kept, WhenLate, Done
<1>9. Queued' = Queued /\ Stored' = Stored
  BY <1>1, <1>3, SameBlocks
<1>10. WhenAppending' /\ WhenRestoring'
  BY <1>1, <1>3, <1>9 DEF Kept, WhenAppending, WhenRestoring, Quiet
<1>11. WhenIdle' /\ WhenRecover' /\ WhenEarly'
  BY <1>1, <1>3, <1>5 DEF Kept, WhenIdle, WhenRecover, WhenEarly, Quiet, Early, Late
<1>12. WhenWriting'
  <2>1. NewData' = NewData
    BY <1>1, <1>3 DEF NewData, Block
  <2>2. Output' = Output
    BY <1>1, <1>3, <2>1 DEF Output
  <2>3. Writing(main.todo, Output)' = Writing(main.todo, Output)
    BY <1>1, <1>3, <2>2 DEF Writing
  <2> QED BY <1>1, <1>3, <2>3 DEF Kept, WhenWriting
<1> QED BY <1>6, <1>7, <1>8, <1>10, <1>11, <1>12 DEF Kept

\* The old tables are put back as long as main's super block still names the old root.
LEMMA RestoreStep ==
  ASSUME Kept, NEW m \in Appends, Restore(m), main.pc \in {"zero"} \cup Late, reader,
         m.old = main.old, m.root = main.root, m.sent = main.sent, m.blocks = main.blocks, m.keep = main.keep,
         m.pc = main.pc, m.restoring = main.restoring, ~given_up',
         disk' = disk, files' = files, runs' = runs, queue' = queue, offset' = offset
  PROVE  Kept'
<1>1. /\ main' = [m EXCEPT !.pc = "restore_filesystem", !.restoring = TRUE, !.todo = <<>>, !.seeked = FALSE]
      /\ reader' = FALSE /\ writer' = "parked" /\ main.root = main.old.root
  BY DEF Restore
<1>2. main \in Appends
  BY MainTypes DEF Kept, Early
<1>3. main' \in Appends
  <2>1. <<>> \in Seq(Outs)
    OBVIOUS
  <2> QED BY <1>1, <2>1 DEF Appends, Late
<1>4. /\ main'.old = main.old /\ main'.root = main.root /\ main'.sent = main.sent /\ main'.restoring
      /\ main'.blocks = main.blocks /\ ~main'.seeked /\ main'.keep = main.keep /\ main'.pc = "restore_filesystem"
  BY <1>1 DEF Appends
<1>5. Readable' = Readable /\ OldSuper' = OldSuper
  BY SameDisk
<1>6. Types' /\ SuperTrue'
  BY <1>1, <1>3 DEF Kept, Types, SuperTrue
<1>7. Fits' /\ Saved'
  BY <1>4 DEF Kept, Fits, Saved, Backup, Early, Late
<1>8. OldSuper = main.old
  <2>1. CASE main.pc = "zero"
    <3>1. main.old = disk[0] /\ disk[0].magic /\ disk[0] \in Supers
      BY <2>1 DEF Kept, Types, WhenEarly, Fits, Early
    <3> QED BY <3>1 DEF OldSuper, Supers
  <2>2. CASE main.pc \in Late
    <3>1. ~Done
      <4>1. main.old.id < runs /\ main.old.root = main.old.id
        BY <2>2 DEF Kept, Fits
      <4>2. ~main.restoring
        BY <2>2 DEF Kept, WhenRestoring
      <4>3. runs \in Nat /\ main.root \in Nat
        BY <1>2, AppendAssumption DEF Kept, Types, Appends
      <4> QED BY <1>1, <2>2, <4>1, <4>2, <4>3 DEF Kept, WhenAppending, Done
    <3> QED BY <2>2, <3>1 DEF Kept, WhenLate
  <2> QED BY <2>1, <2>2
<1>9. WhenLate'
  BY <1>4, <1>5, <1>8 DEF WhenLate, Done
<1>10. WhenAppending' /\ WhenRestoring'
  BY <1>1, <1>4 DEF WhenAppending, WhenRestoring
<1>11. WhenIdle' /\ WhenRecover' /\ WhenEarly' /\ WhenWriting'
  BY <1>4 DEF WhenIdle, WhenRecover, WhenEarly, WhenWriting, Early
<1> QED BY <1>6, <1>7, <1>9, <1>10, <1>11 DEF Kept

LEMMA SecondInterruptStep ==
  ASSUME Kept, SecondInterrupt, ~given_up'
  PROVE  Kept'
<1> DEFINE m == [main EXCEPT !.interrupted = 2]
<1>1. /\ main.pc \in {"zero"} \cup Late /\ reader /\ Restore(m)
      /\ disk' = disk /\ files' = files /\ runs' = runs /\ queue' = queue /\ offset' = offset
  BY DEF SecondInterrupt, Handled, Late
<1>2. main \in Appends
  BY <1>1, MainTypes DEF Kept, Early
<1>3. m \in Appends
  BY <1>2 DEF Appends
<1>4. /\ m.old = main.old /\ m.root = main.root /\ m.sent = main.sent /\ m.blocks = main.blocks /\ m.keep = main.keep
      /\ m.pc = main.pc /\ m.restoring = main.restoring
  BY <1>2 DEF Appends
<1> HIDE DEF m
<1> QED BY <1>1, <1>3, <1>4, RestoreStep

LEMMA LateInterruptStep ==
  ASSUME Kept, LateInterrupt, ~given_up'
  PROVE  Kept'
<1>1. /\ main.pc \in {"zero"} \cup Late /\ ~reader /\ main' = [main EXCEPT !.interrupted = 2]
      /\ main.pc \notin {"append", "restore_filesystem"}
      /\ disk' = disk /\ files' = files /\ runs' = runs /\ reader' = reader /\ queue' = queue /\ writer' = writer
      /\ offset' = offset
  BY DEF LateInterrupt, Handled, Late, threads
<1>2. main \in Appends
  BY <1>1, MainTypes DEF Kept, Early
<1>3. /\ main'.old = main.old /\ main'.root = main.root /\ main'.sent = main.sent /\ main'.restoring = main.restoring
      /\ main'.blocks = main.blocks /\ main'.todo = main.todo /\ main'.seeked = main.seeked
      /\ main'.keep = main.keep /\ main'.pc = main.pc
  BY <1>1, <1>2 DEF Appends
<1>4. main' \in Appends
  BY <1>1, <1>2 DEF Appends
<1>5. Readable' = Readable /\ OldSuper' = OldSuper
  BY <1>1, SameDisk
<1>6. main.pc \in Late
  BY <1>1 DEF Kept, WhenEarly, Early
<1>7. Types' /\ SuperTrue'
  BY <1>1, <1>4 DEF Kept, Types, SuperTrue
<1>8. Fits' /\ Saved'
  BY <1>1, <1>3 DEF Kept, Fits, Saved, Backup
<1>9. WhenLate'
  BY <1>1, <1>3, <1>5 DEF Kept, WhenLate, Done
<1>10. Queued' = Queued /\ Stored' = Stored
  BY <1>1, <1>3, SameBlocks
<1>11. WhenAppending' /\ WhenRestoring'
  BY <1>1, <1>3, <1>10 DEF Kept, WhenAppending, WhenRestoring, Quiet
<1>12. WhenIdle' /\ WhenRecover' /\ WhenEarly'
  BY <1>3, <1>6 DEF WhenIdle, WhenRecover, WhenEarly, Early, Late
<1>13. WhenWriting'
  <2>1. NewData' = NewData
    BY <1>1, <1>3 DEF NewData, Block
  <2>2. Output' = Output
    BY <1>1, <1>3, <2>1 DEF Output
  <2>3. Writing(main.todo, Output)' = Writing(main.todo, Output)
    BY <1>1, <1>3, <2>2 DEF Writing
  <2> QED BY <1>1, <1>3, <2>3 DEF Kept, WhenWriting
<1> QED BY <1>7, <1>8, <1>9, <1>11, <1>12, <1>13 DEF Kept

\* Wherever mksquashfs stops, the file system can be read or the recovery file fits.
LEMMA WayBack ==
  ASSUME Kept, main.pc # "idle"
  PROVE  Readable \/ (\E f \in files : Matches(f)) \/ (main.pc # "recover" /\ ~main.keep)
<1>1. main.pc \in {"recover"} \cup Early \cup Late
  BY MainTypes DEF Kept
<1>2. CASE main.pc = "recover"
  BY <1>2 DEF Kept, WhenRecover
<1>3. CASE main.pc \in Early
  BY <1>3 DEF Kept, WhenEarly
<1>4. CASE main.pc \in Late /\ ~Done
  <2>1. OldSuper = main.old /\ disk[0].kind = "super"
    BY <1>4 DEF Kept, WhenLate, Types, Supers
  <2>2. CASE main.keep
    <3>1. PICK f \in files : f.super = main.old /\ f.whole
      BY <1>4, <2>2 DEF Kept, Saved, Backup
    <3>2. Matches(f)
      BY <2>1, <3>1 DEF Matches, OldSuper
    <3> QED BY <3>2
  <2>3. CASE ~main.keep
    BY <1>4, <2>3 DEF Late
  <2> QED BY <2>2, <2>3
<1>5. CASE Done
  BY <1>5 DEF Kept, WhenLate, Done, Late
<1> QED BY <1>1, <1>2, <1>3, <1>4, <1>5

LEMMA FatalErrorStep ==
  ASSUME Kept, FatalError, ~given_up'
  PROVE  Kept'
<1>1. /\ main.pc \in {"zero"} \cup Late
      /\ disk' = disk /\ files' = files /\ runs' = runs /\ offset' = offset
  BY DEF FatalError, Handled, Late
<1>2. CASE reader
  <2> DEFINE m == [main EXCEPT !.fatal = TRUE]
  <2>1. Restore(m) /\ queue' = queue
    BY <1>2 DEF FatalError
  <2>2. main \in Appends
    BY <1>1, MainTypes DEF Kept, Early
  <2>3. m \in Appends
    BY <2>2 DEF Appends
  <2>4. /\ m.old = main.old /\ m.root = main.root /\ m.sent = main.sent /\ m.blocks = main.blocks
        /\ m.keep = main.keep /\ m.pc = main.pc /\ m.restoring = main.restoring
    BY <2>2 DEF Appends
  <2> HIDE DEF m
  <2> QED BY <1>1, <1>2, <2>1, <2>3, <2>4, RestoreStep
<1>3. CASE ~reader
  <2>1. End /\ (main.keep \/ Readable)
    BY <1>3 DEF FatalError
  <2>2. Readable \/ \E f \in files : Matches(f)
    BY <1>1, <2>1, WayBack DEF Late
  <2> QED BY <1>1, <2>1, <2>2, EndStep DEF Late
<1> QED BY <1>2, <1>3

LEMMA CrashStep ==
  ASSUME Kept, Crash, ~given_up'
  PROVE  Kept'
<1>1. /\ main.pc # "idle" /\ End /\ (main.pc = "recover" \/ main.keep \/ Readable)
      /\ disk' = disk /\ files' = files /\ runs' = runs /\ offset' = offset
  BY DEF Crash
<1>2. Readable \/ \E f \in files : Matches(f)
  BY <1>1, WayBack
<1> QED BY <1>1, <1>2, EndStep

-----------------------------------------------------------------------------
(* The recovery.                                                           *)

LEMMA OldSuperIs ==
  ASSUME Kept
  PROVE  /\ OldSuper \in Supers /\ OldSuper.magic /\ OldSuper.id = disk[0].id /\ OldSuper.root = disk[0].root
         /\ OldSuper.data = disk[0].data
         /\ \A f : Matches(f) <=> f.whole /\ f.super = OldSuper
<1>1. disk[0] \in Supers
  BY DEF Kept, Types
<1>2. disk[0].kind = "super" /\ OldSuper \in Supers /\ OldSuper.magic
  BY <1>1 DEF OldSuper, Supers
<1> QED BY <1>1, <1>2 DEF OldSuper, Supers, Matches

LEMMA RecoverStep ==
  ASSUME Kept, Recover
  PROVE  Kept'
<1>1. /\ main.pc = "idle"
      /\ disk' = disk /\ files' = files /\ runs' = runs /\ reader' = reader /\ queue' = queue /\ writer' = writer
      /\ offset' = offset
  BY DEF Recover, threads
<1>2. PICK f \in files : Matches(f) /\ main' = [pc |-> "recover", locked |-> FALSE, todo |-> RecoverOutput(f.super)]
  BY DEF Recover, RecoverOutput
<1>3. f.super = OldSuper /\ OldSuper \in Supers
  BY <1>2, OldSuperIs
<1>4. RecoverOutput(OldSuper) \in Seq(Outs) /\ Len(RecoverOutput(OldSuper)) \in Nat
  BY <1>3, RecoverOutputFacts, AppendAssumption
<1> HIDE DEF RecoverOutput, OldSuper
<1>5. main' \in Recovers /\ main'.pc = "recover" /\ main'.todo = RecoverOutput(OldSuper)
  BY <1>2, <1>3, <1>4 DEF Recovers
<1>6. OldSuper' = OldSuper /\ \A g : Matches(g)' = Matches(g)
  BY <1>1, SameDisk
<1>7. RecoverOutput(OldSuper)' = RecoverOutput(OldSuper)
  BY <1>6 DEF RecoverOutput, TableUnits
<1>8. Types' /\ SuperTrue'
  BY <1>1, <1>5 DEF Kept, Types, SuperTrue
<1>9. WhenRecover'
  <2>1. Writing(main.todo, RecoverOutput(OldSuper))'
    BY <1>4, <1>5, <1>7 DEF Writing, Suffix, WrittenUpTo
  <2> QED BY <1>1, <1>2, <1>5, <1>6, <2>1 DEF Kept, WhenIdle, WhenRecover, Quiet
<1>10. /\ WhenIdle' /\ WhenEarly' /\ Saved' /\ Fits' /\ WhenLate' /\ WhenAppending' /\ WhenRestoring'
       /\ WhenWriting'
  BY <1>5 DEF WhenIdle, WhenEarly, Saved, Fits, WhenLate, WhenAppending, WhenRestoring, WhenWriting, Early, Late
<1> QED BY <1>8, <1>9, <1>10 DEF Kept

\* What RecoverWrite does: first the super block, as it was but for the magic number, and
\* then the tables.
LEMMA RecoverWriteIs ==
  ASSUME Kept, RecoverWrite
  PROVE  /\ disk' = [q \in Places |-> disk'[q]] /\ disk'[0] \in Supers /\ OldSuper' = OldSuper
         /\ \A k \in 1 .. Len(disk[0].data) : disk'[k] = disk[0].data[k]
         /\ disk'[0].data = disk[0].data /\ disk'[0].id = disk[0].id /\ disk'[0].root = disk[0].root
         /\ Tail(main.todo) \in Seq(Outs) /\ Suffix(Tail(main.todo), RecoverOutput(OldSuper))
         /\ WrittenUpTo(disk', RecoverOutput(OldSuper), Len(RecoverOutput(OldSuper)) - Len(Tail(main.todo)))
<1>1. /\ main.pc = "recover" /\ main.todo # <<>>
      /\ disk' = [disk EXCEPT ![Head(main.todo)[1]] = Head(main.todo)[2]]
  BY DEF RecoverWrite
<1>2. main \in Recovers
  BY <1>1, MainTypes DEF Kept
<1>3. disk[0] \in Supers /\ disk = [p \in Places |-> disk[p]] /\ runs \in 0 .. MaxRuns
  BY DEF Kept, Types
<1>4. /\ OldSuper \in Supers /\ OldSuper.magic /\ OldSuper.id = disk[0].id /\ OldSuper.root = disk[0].root
      /\ OldSuper.data = disk[0].data
  BY OldSuperIs
<1> DEFINE all == RecoverOutput(OldSuper)
<1>5. /\ Suffix(main.todo, all) /\ WrittenUpTo(disk, all, Len(all) - Len(main.todo))
  BY <1>1 DEF Kept, WhenRecover, Writing
<1>6. /\ all \in Seq(Outs) /\ Len(all) = Tables + 1 /\ all[1][1] = 0 /\ all[1][2] = OldSuper
      /\ \A k \in 1 .. Tables : all[k + 1][1] = Len(OldSuper.data) + k
  BY <1>4, RecoverOutputFacts
<1>7. /\ Len(disk[0].data) \in Nat /\ Len(disk[0].data) <= MaxRuns * MaxBlocks /\ MaxRuns * MaxBlocks \in Nat
  <2>1. runs * MaxBlocks <= MaxRuns * MaxBlocks /\ runs * MaxBlocks \in Nat /\ MaxRuns * MaxBlocks \in Nat
    BY <1>3, Room
  <2>2. Len(disk[0].data) <= runs * MaxBlocks /\ Len(disk[0].data) \in Nat
    BY <1>3 DEF Kept, SuperTrue, Supers
  <2> QED BY <2>1, <2>2
<1>8. Distinct(all)
  BY <1>4, <1>7, DistinctFacts
<1> HIDE DEF all, OldSuper
<1>9. main.todo \in Seq(Outs)
  BY <1>2 DEF Recovers
<1>10. /\ Head(main.todo) = all[Len(all) - Len(main.todo) + 1]
       /\ Tail(main.todo) \in Seq(Outs) /\ Len(Tail(main.todo)) = Len(main.todo) - 1
       /\ Suffix(Tail(main.todo), all)
  BY <1>1, <1>5, <1>6, <1>9, SuffixFacts
<1>11. Tables \in Nat /\ Len(main.todo) \in Nat \ {0} /\ Len(main.todo) <= Tables + 1
  <2>1. Len(main.todo) <= Len(all)
    BY <1>5 DEF Suffix
  <2> QED BY <1>1, <1>6, <1>9, <2>1, EmptySeq, AppendAssumption
<1> DEFINE n == Len(all) - Len(main.todo)
<1>12. n \in Nat /\ n < Tables + 1 /\ n + 1 = Len(all) - Len(Tail(main.todo))
  <2>1. \A a \in Nat : \A b \in Nat \ {0} : b <= a + 1 => /\ a + 1 - b \in Nat /\ a + 1 - b < a + 1
                                                           /\ a + 1 - b + 1 = a + 1 - (b - 1)
    OBVIOUS
  <2>2. Len(all) = Tables + 1 /\ Len(Tail(main.todo)) = Len(main.todo) - 1
    BY <1>6, <1>10
  <2>3. PICK l \in Nat \ {0} : l = Len(main.todo) /\ l <= Tables + 1
    BY <1>11
  <2>4. PICK t \in Nat : t = Len(Tail(main.todo)) /\ t = l - 1
    BY <2>2, <2>3
  <2>5. n = Tables + 1 - l /\ Len(all) - Len(Tail(main.todo)) = Tables + 1 - t
    BY <1>11, <2>2, <2>3, <2>4
  <2> HIDE DEF n
  <2>6. Tables \in Nat /\ l <= Tables + 1 /\ t = l - 1
    BY <1>11, <2>3, <2>4
  <2>7. Tables + 1 - l \in Nat /\ Tables + 1 - l < Tables + 1 /\ Tables + 1 - l + 1 = Tables + 1 - t
    BY <2>6
  <2> QED BY <2>5, <2>7
<1> HIDE DEF n
<1>13. disk' = [disk EXCEPT ![all[n + 1][1]] = all[n + 1][2]]
  BY <1>1, <1>10 DEF n
<1>14. WrittenUpTo(disk', all, n + 1)
  <2>1. WrittenUpTo(disk, all, n)
    BY <1>5 DEF n
  <2> QED BY <1>3, <1>6, <1>8, <1>12, <1>13, <2>1, WritingStep
<1>15. all[n + 1][1] \in Places
  <2>1. n + 1 \in 1 .. Len(all)
    <3>1. Len(all) = Tables + 1 /\ n \in Nat /\ n < Tables + 1 /\ Tables \in Nat
      BY <1>6, <1>11, <1>12
    <3> QED BY <3>1
  <2> QED BY <1>8, <2>1 DEF Distinct
<1>16. disk' = [q \in Places |-> IF q = all[n + 1][1] THEN disk'[q] ELSE disk[q]]
  BY <1>3, <1>13, <1>15
<1>17. CASE n = 0
  <2>1. disk'[0] = OldSuper
    BY <1>3, <1>6, <1>13, <1>15, <1>17
  <2>2. \A k \in 1 .. Len(disk[0].data) : k \in Places /\ k # 0
    BY <1>7, <1>11 DEF Places
  <2>3. \A k \in 1 .. Len(disk[0].data) : disk'[k] = disk[k]
    BY <1>6, <1>16, <1>17, <2>2
  <2>4. OldSuper' = OldSuper
    BY <1>4, <2>1 DEF OldSuper, Supers
  <2>5. \A k \in 1 .. Len(disk[0].data) : disk'[k] = disk[0].data[k]
    BY <2>3 DEF Kept, SuperTrue
  <2> QED BY <1>4, <1>10, <1>12, <1>14, <1>16, <2>1, <2>4, <2>5 DEF all
<1>18. CASE n # 0
  <2>1. n \in 1 .. Tables
    BY <1>11, <1>12, <1>18
  <2>2. all[n + 1][1] = Len(disk[0].data) + n
    BY <1>4, <1>6, <2>1
  <2>3. all[n + 1][1] > Len(disk[0].data)
    BY <1>7, <2>1, <2>2
  <2>4. /\ disk' = [q \in Places |-> disk'[q]] /\ disk'[0] = disk[0] /\ OldSuper' = OldSuper
        /\ \A k \in 1 .. Len(disk[0].data) : disk'[k] = disk[0].data[k]
    BY <1>1, <1>15, <1>16, <2>3, BehindData
  <2> QED BY <1>3, <1>10, <1>12, <1>14, <2>4 DEF all
<1> QED BY <1>17, <1>18

LEMMA RecoverWriteStep ==
  ASSUME Kept, RecoverWrite
  PROVE  Kept'
<1>1. /\ main.pc = "recover" /\ main.todo # <<>> /\ main' = [main EXCEPT !.todo = Tail(@)]
      /\ files' = files /\ runs' = runs /\ reader' = reader /\ queue' = queue /\ writer' = writer /\ offset' = offset
  BY DEF RecoverWrite, threads
<1>2. /\ disk' = [q \in Places |-> disk'[q]] /\ disk'[0] \in Supers /\ OldSuper' = OldSuper
      /\ \A k \in 1 .. Len(disk[0].data) : disk'[k] = disk[0].data[k]
      /\ disk'[0].data = disk[0].data /\ disk'[0].id = disk[0].id /\ disk'[0].root = disk[0].root
      /\ Tail(main.todo) \in Seq(Outs) /\ Suffix(Tail(main.todo), RecoverOutput(OldSuper))
      /\ WrittenUpTo(disk', RecoverOutput(OldSuper), Len(RecoverOutput(OldSuper)) - Len(Tail(main.todo)))
  BY RecoverWriteIs
<1>3. main \in Recovers
  BY <1>1, MainTypes DEF Kept
<1>4. main' \in Recovers /\ main'.pc = "recover" /\ main'.todo = Tail(main.todo)
  BY <1>1, <1>2, <1>3 DEF Recovers
<1>5. Types' /\ SuperTrue'
  BY <1>1, <1>2, <1>4 DEF Kept, Types, SuperTrue
<1>6. WhenRecover'
  <2>1. RecoverOutput(OldSuper)' = RecoverOutput(OldSuper)
    BY <1>2 DEF RecoverOutput, TableUnits
  <2>2. Writing(main.todo, RecoverOutput(OldSuper))'
    BY <1>2, <1>4, <2>1 DEF Writing
  <2>3. PICK f \in files : Matches(f)
    BY <1>1 DEF Kept, WhenRecover
  <2>4. Matches(f)'
    <3>1. f.whole /\ f.super = OldSuper
      BY <2>3, OldSuperIs
    <3>2. disk'[0].kind = "super"
      BY <1>2 DEF Supers
    <3> QED BY <1>2, <3>1, <3>2 DEF Matches, OldSuper
  <2> QED BY <1>1, <1>4, <2>2, <2>4 DEF Kept, WhenRecover, Quiet
<1>7. /\ WhenIdle' /\ WhenEarly' /\ Saved' /\ Fits' /\ WhenLate' /\ WhenAppending' /\ WhenRestoring'
      /\ WhenWriting'
  BY <1>4 DEF WhenIdle, WhenEarly, Saved, Fits, WhenLate, WhenAppending, WhenRestoring, WhenWriting, Early, Late
<1> QED BY <1>5, <1>6, <1>7 DEF Kept

\* A recovery that has written all has brought the file system back.
LEMMA RecoveredReadable ==
  ASSUME Kept, main.pc = "recover", main.todo = <<>>
  PROVE  Readable
<1>1. /\ OldSuper \in Supers /\ OldSuper.magic /\ OldSuper.id = disk[0].id /\ OldSuper.root = disk[0].root
      /\ OldSuper.data = disk[0].data
  BY OldSuperIs
<1> DEFINE all == RecoverOutput(OldSuper)
<1>2. Len(all) = Tables + 1 /\ Tables \in Nat /\ all[1][1] = 0 /\ all[1][2] = OldSuper
  BY <1>1, RecoverOutputFacts, AppendAssumption
<1>3. \A k \in 1 .. Tables : /\ all[k + 1][1] = Len(OldSuper.data) + k
                             /\ all[k + 1][2] = [kind |-> "table", id |-> OldSuper.id, part |-> k]
  BY <1>1, RecoverOutputFacts
<1>4. WrittenUpTo(disk, all, Len(all) - Len(main.todo))
  BY DEF Kept, WhenRecover, Writing
<1> HIDE DEF all, OldSuper
<1>5. \A k \in 1 .. Tables + 1 : disk[all[k][1]] = all[k][2]
  <2>1. Len(all) - Len(main.todo) = Tables + 1
    BY <1>2
  <2> QED BY <1>4, <2>1 DEF WrittenUpTo
<1>6. disk[0] = OldSuper
  BY <1>2, <1>5
<1>7. \A k \in 1 .. Tables : disk[Len(OldSuper.data) + k] = [kind |-> "table", id |-> OldSuper.id, part |-> k]
  <2> TAKE k \in 1 .. Tables
  <2>1. disk[all[k + 1][1]] = all[k + 1][2]
    BY <1>2, <1>5
  <2>2. all[k + 1][1] = Len(OldSuper.data) + k /\ all[k + 1][2] = [kind |-> "table", id |-> OldSuper.id, part |-> k]
    BY <1>3
  <2> QED BY <2>1, <2>2, Zenon
<1>8. disk[0].root = disk[0].id /\ \A k \in 1 .. Len(OldSuper.data) : disk[k] = OldSuper.data[k]
  BY <1>1 DEF Kept, SuperTrue
<1>9. ReadableOn(disk)
  BY <1>1, <1>6, <1>7, <1>8, ReadableIs
<1> QED BY <1>9 DEF Readable, ReadableOn

LEMMA RecoverEndStep ==
  ASSUME Kept, RecoverEnd
  PROVE  Kept'
<1>1. /\ main.pc = "recover" /\ main.todo = <<>> /\ main' = Idle
      /\ disk' = disk /\ files' = files /\ runs' = runs /\ reader' = reader /\ queue' = queue /\ writer' = writer
      /\ offset' = offset
  BY DEF RecoverEnd, threads
<1>2. Readable' /\ main'.pc = "idle"
  BY <1>1, RecoveredReadable, SameDisk DEF Idle
<1>3. Types' /\ SuperTrue'
  BY <1>1 DEF Kept, Types, SuperTrue
<1>4. WhenIdle'
  BY <1>1, <1>2 DEF Kept, WhenRecover, WhenIdle, Quiet
<1>5. /\ WhenRecover' /\ WhenEarly' /\ Saved' /\ Fits' /\ WhenLate' /\ WhenAppending' /\ WhenRestoring'
      /\ WhenWriting'
  BY <1>2 DEF WhenRecover, WhenEarly, Saved, Fits, WhenLate, WhenAppending, WhenRestoring, WhenWriting, Early, Late
<1> QED BY <1>3, <1>4, <1>5 DEF Kept

-----------------------------------------------------------------------------
(* The theorems.                                                           *)

LEMMA InitKept ==
  ASSUME Init
  PROVE  Kept /\ given_up = FALSE /\ Readable /\ disk[0] = Super(0, 0, <<>>)
<1>1. MaxRuns * MaxBlocks \in Nat /\ Tables \in Nat /\ MaxRuns \in Nat
  BY AppendAssumption, Room
<1>2. 0 \in Places /\ \A k \in 1 .. Tables : k \in Places /\ k # 0
  BY <1>1 DEF Places
<1>3. disk = [p \in Places |-> disk[p]] /\ disk[0] = Super(0, 0, <<>>)
  BY <1>2 DEF Init
<1>4. \A k \in 1 .. Tables : disk[k] = TableUnits(0, <<>>)[k][2]
  BY <1>2 DEF Init
<1> DEFINE s == Super(0, 0, <<>>)
<1>5. s \in Supers /\ s.magic /\ s.root = 0 /\ s.id = 0 /\ s.data = <<>> /\ s.kind = "super"
  <2>1. <<>> \in Seq(DataUnits)
    OBVIOUS
  <2> QED BY <2>1 DEF Super, Supers
<1> HIDE DEF s
<1>6. \A k \in 1 .. Tables : disk[Len(s.data) + k] = [kind |-> "table", id |-> s.id, part |-> k]
  <2> TAKE k \in 1 .. Tables
  <2>1. TableUnits(0, <<>>)[k][2] = [kind |-> "table", id |-> 0, part |-> k]
    BY DEF TableUnits
  <2>2. Len(s.data) + k = k
    BY <1>5
  <2> QED BY <1>4, <1>5, <2>1, <2>2
<1>7. disk[0] = s
  BY <1>3 DEF s
<1>8. \A k \in 1 .. Len(s.data) : disk[k] = s.data[k]
  BY <1>5
<1>9. ReadableOn(disk)
  BY <1>5, <1>6, <1>7, <1>8, ReadableIs
<1>10. Readable
  BY <1>9 DEF Readable, ReadableOn
<1>11. main = Idle /\ main.pc = "idle" /\ files = {} /\ runs = 0 /\ reader = FALSE /\ queue = <<>> /\ writer = "idle" /\ offset = 0
  BY DEF Init, Idle
<1>12. Types
  <2>1. <<>> \in Seq(Nat \X DataUnits) /\ 0 \in 0 .. MaxRuns
    BY <1>1
  <2> QED BY <1>3, <1>5, <1>7, <1>11, <2>1 DEF Types
<1>13. SuperTrue
  <2>1. runs * MaxBlocks = 0
    BY <1>11, AppendAssumption
  <2> QED BY <1>5, <1>7, <1>8, <1>11, <2>1 DEF SuperTrue
<1>14. WhenIdle
  BY <1>10, <1>11 DEF WhenIdle, Quiet
<1>15. /\ WhenRecover /\ WhenEarly /\ Saved /\ Fits /\ WhenLate /\ WhenAppending /\ WhenRestoring
       /\ WhenWriting
  BY <1>11 DEF WhenRecover, WhenEarly, Saved, Fits, WhenLate, WhenAppending, WhenRestoring, WhenWriting, Early, Late
<1> QED BY <1>3, <1>10, <1>12, <1>13, <1>14, <1>15 DEF Kept, Init

\* The promise is never taken back once it is given up.
LEMMA GivenUpStep ==
  ASSUME given_up \in BOOLEAN, [Next]_vars
  PROVE  given_up' \in BOOLEAN /\ (given_up => given_up')
<1>1. CASE UNCHANGED vars
  BY <1>1 DEF vars
<1>2. CASE Start \/ Main \/ ReaderEnds \/ Writer \/ FirstInterrupt \/ Recovery \/ Stopped
  BY <1>2 DEF Start, Main, ReaderEnds, Writer, Recovery, Stopped, vars, CreateRecovery, SaveRecovery, Zero, GiveBlock,
              FillSuper, Wait, Drained, Seek, Write, Unlink, WriterSeek, WriterWrite, FirstInterrupt, Recover,
              RecoverWrite, RecoverEnd
<1>3. CASE SecondInterrupt \/ LateInterrupt \/ FatalError \/ Crash
  BY <1>3 DEF SecondInterrupt, LateInterrupt, FatalError, Crash, Restore
<1> QED BY <1>1, <1>2, <1>3 DEF Next, Signals

LEMMA StutterStep ==
  ASSUME Kept, UNCHANGED vars
  PROVE  Kept'
<1>1. /\ disk' = disk /\ files' = files /\ runs' = runs /\ main' = main /\ reader' = reader /\ queue' = queue
      /\ writer' = writer /\ offset' = offset
  BY DEF vars
<1>2. /\ Readable' = Readable /\ OldSuper' = OldSuper /\ Output' = Output
      /\ Writing(main.todo, Output)' = Writing(main.todo, Output)
      /\ Writing(main.todo, RecoverOutput(OldSuper))' = Writing(main.todo, RecoverOutput(OldSuper))
      /\ \A f : Matches(f)' = Matches(f)
  BY <1>1, SameWriting, SameDisk
<1>3. Queued' = Queued /\ Stored' = Stored
  BY <1>1, SameBlocks
<1>4. Types' /\ SuperTrue' /\ Saved' /\ Fits'
  BY <1>1 DEF Kept, Types, SuperTrue, Saved, Backup, Fits
<1>5. WhenIdle' /\ WhenRecover'
  BY <1>1, <1>2 DEF Kept, WhenIdle, WhenRecover, Quiet
<1>6. WhenEarly' /\ WhenLate'
  BY <1>1, <1>2 DEF Kept, WhenEarly, WhenLate, Quiet, Done
<1>7. WhenAppending' /\ WhenRestoring'
  BY <1>1, <1>3 DEF Kept, WhenAppending, WhenRestoring, Quiet
<1>8. WhenWriting'
  BY <1>1, <1>2 DEF Kept, WhenWriting
<1> QED BY <1>4, <1>5, <1>6, <1>7, <1>8 DEF Kept

LEMMA KeptStep ==
  ASSUME Kept, [Next]_vars, ~given_up'
  PROVE  Kept'
<1>1. CASE UNCHANGED vars \/ Stopped
  BY <1>1, StutterStep DEF Stopped
<1>2. CASE Start
  BY <1>2, StartStep
<1>3. CASE Main
  BY <1>3, CreateStep, SaveStep, ZeroStep, GiveBlockStep, FillSuperStep, WaitStep, DrainedStep, SeekStep, WriteStep,
     UnlinkStep DEF Main
<1>4. CASE ReaderEnds \/ Writer
  BY <1>4, ReaderEndsStep, WriterSeekStep, WriterWriteStep DEF Writer
<1>5. CASE Signals \/ FatalError \/ Crash
  BY <1>5, FirstInterruptStep, SecondInterruptStep, LateInterruptStep, FatalErrorStep, CrashStep DEF Signals
<1>6. CASE Recovery
  BY <1>6, RecoverStep, RecoverWriteStep, RecoverEndStep DEF Recovery
<1> QED BY <1>1, <1>2, <1>3, <1>4, <1>5, <1>6 DEF Next

LEMMA StepIInv ==
  ASSUME IInv, [Next]_vars
  PROVE  IInv'
BY GivenUpStep, KeptStep DEF IInv

\* In every state that the program can be in, the inductive invariant holds.
THEOREM InductiveInvariant == Spec => []IInv
<1>1. Init => IInv
  BY InitKept DEF IInv
<1>2. IInv /\ [Next]_vars => IInv'
  BY StepIInv
<1> QED BY <1>1, <1>2, PTL DEF Spec

\* When mksquashfs has ended, the file system can be read or a recovery file fits it,
\* for tables of every size and any number of appends, interrupts and crashes.
THEOREM AlwaysRecoverable == Spec => []Recoverable
<1>1. IInv => Recoverable
  BY DEF IInv, Kept, WhenIdle, Recoverable
<1> QED BY <1>1, InductiveInvariant, PTL

\* A recovery that goes to its end leaves a file system that can be read.
THEOREM RecoveryWorks == Spec => RecoverWorks
<1>1. IInv /\ [Next]_vars => [RecoverEnd /\ ~given_up => Readable]_vars
  BY RecoveredReadable DEF IInv, RecoverEnd
<1> QED BY <1>1, InductiveInvariant, PTL DEF Spec, RecoverWorks

-----------------------------------------------------------------------------
(* An append implements AtomicFs.                                          *)

\* Only the last write of an append that is not restoring makes the new file system.
Committing ==
  /\ disk'[0].id = runs /\ disk[0].id < runs /\ runs \in Nat
  /\ ~Readable /\ Readable'

LEMMA WriteChanges ==
  ASSUME Kept, Write, Kept'
  PROVE  disk'[0].id = disk[0].id \/ Committing
<1>1. main.pc = "write" /\ main.todo # <<>> /\ main'.pc = "write" /\ main'.old = main.old /\ main'.todo = Tail(main.todo)
  <2>1. main \in Appends
    BY MainTypes DEF Kept, Write, Late
  <2> QED BY <2>1, WriteIs DEF Write, Appends
<1>2. OldSuper = main.old /\ (~main.restoring => ~disk[0].magic)
  BY <1>1 DEF Kept, WhenLate, Done, Late
<1>3. /\ OldSuper.id = disk[0].id /\ main \in Appends /\ runs \in Nat
      /\ main.old.id < runs
  BY <1>1, OldSuperIs, OutputRoom DEF Kept, Fits, Late
<1>4. CASE ~Done'
  <2>1. OldSuper' = main'.old
    BY <1>1, <1>4 DEF Kept, WhenLate, Late
  <2>2. OldSuper'.id = disk'[0].id
    <3>1. disk'[0] \in Supers
      BY DEF Kept, Types
    <3> QED BY <3>1 DEF OldSuper, Supers
  <2> QED BY <1>1, <1>2, <1>3, <2>1, <2>2
<1>5. CASE Done'
  <2>1. Readable'
    BY <1>1, <1>5 DEF Kept, WhenLate, Late
  <2>2. disk'[0] = NewSuper
    <3>1. Len(Tail(main.todo)) = 0
      <4>1. Tail(main.todo) = <<>>
        BY <1>1, <1>5, Zenon DEF Done
      <4> QED BY <4>1, EmptySeq
    <3>2. Len(main.todo) = 1
      BY <3>1, WriteIs, AppendAssumption
    <3> QED BY <3>2, WriteIs
  <2>3. NewSuper.id = (IF main.restoring THEN main.old.id ELSE runs)
    BY <1>3, OutputIs
  <2>4. CASE main.restoring
    BY <1>2, <1>3, <2>2, <2>3, <2>4
  <2>5. CASE ~main.restoring
    <3>1. ~Readable
      BY <1>2, <2>5 DEF Readable
    <3> QED BY <1>2, <1>3, <2>1, <2>2, <2>3, <2>5, <3>1 DEF Committing
  <2> QED BY <2>4, <2>5
<1> QED BY <1>4, <1>5

LEMMA WriterChanges ==
  ASSUME Kept, WriterWrite, Kept'
  PROVE  disk'[0].id = disk[0].id
<1>1. main' = main /\ main.pc \in Late \ {"write"}
  BY WriterIs DEF WriterWrite
<1>2. OldSuper = main.old /\ OldSuper' = main'.old
  BY <1>1 DEF Kept, WhenLate, Done, Late
<1>3. OldSuper.id = disk[0].id
  BY OldSuperIs
<1>4. OldSuper'.id = disk'[0].id
  <2>1. disk'[0] \in Supers
    BY DEF Kept, Types
  <2> QED BY <2>1 DEF OldSuper, Supers
<1> QED BY <1>1, <1>2, <1>3, <1>4

LEMMA ZeroChanges ==
  ASSUME Kept, Zero
  PROVE  disk'[0].id = disk[0].id
<1>1. 0 \in Places
  BY AppendAssumption, Room DEF Places
<1>2. disk'[0] = [disk[0] EXCEPT !.magic = FALSE] /\ disk[0] \in Supers
  BY <1>1 DEF Kept, Types, Zero
<1> QED BY <1>2 DEF Supers

LEMMA StateChanges ==
  ASSUME Kept, [Next]_vars, Kept'
  PROVE  disk'[0].id = disk[0].id \/ Committing
<1>1. CASE disk' = disk
  BY <1>1
<1>2. CASE disk' # disk
  <2>1. Zero \/ Write \/ WriterWrite \/ RecoverWrite
    <3>1. ~UNCHANGED vars /\ ~Stopped /\ ~Start /\ ~ReaderEnds
      BY <1>2 DEF vars, Stopped, Start, ReaderEnds
    <3>2. ~Signals /\ ~FatalError /\ ~Crash
      BY <1>2 DEF Signals, FirstInterrupt, SecondInterrupt, LateInterrupt, FatalError, Crash
    <3>3. Main => Zero \/ Write
      BY <1>2 DEF Main, CreateRecovery, SaveRecovery, GiveBlock, FillSuper, Wait, Drained, Seek, Unlink
    <3>4. Writer => WriterWrite
      BY <1>2 DEF Writer, WriterSeek
    <3>5. Recovery => RecoverWrite
      BY <1>2 DEF Recovery, Recover, RecoverEnd
    <3> QED BY <3>1, <3>2, <3>3, <3>4, <3>5 DEF Next
  <2> QED BY <2>1, ZeroChanges, WriteChanges, WriterChanges, RecoverWriteIs
<1> QED BY <1>1, <1>2

LEMMA RefinesInit ==
  ASSUME Init
  PROVE  RefinesAtomicFs!Init
<1>1. StateOnDisk = 0
  BY InitKept DEF StateOnDisk, Super
<1>2. Readable = TRUE
  BY InitKept DEF Readable
<1> QED BY <1>1, <1>2, InitKept DEF RefinesAtomicFs!Init

LEMMA RefinesStep ==
  ASSUME IInv, [Next]_vars
  PROVE  [RefinesAtomicFs!Next]_(RefinesAtomicFs!vars)
<1>1. given_up \in BOOLEAN /\ given_up' \in BOOLEAN /\ (given_up => given_up') /\ (~given_up' => Kept /\ Kept')
  BY GivenUpStep, StepIInv DEF IInv
<1>2. CASE given_up'
  <2>1. given_up' = TRUE
    BY <1>1, <1>2
  <2>2. RefinesAtomicFs!GiveUp
    BY <2>1 DEF RefinesAtomicFs!GiveUp
  <2> QED BY <2>2 DEF RefinesAtomicFs!Next
<1>3. CASE ~given_up'
  <2>1. given_up' = given_up
    BY <1>1, <1>3
  <2>2. StateOnDisk = disk[0].id /\ StateOnDisk' = disk'[0].id
    BY <1>1, <1>3 DEF StateOnDisk, Kept, Types, Supers
  <2>3. Readable \in BOOLEAN /\ Readable' \in BOOLEAN
    BY DEF Readable
  <2>4. disk'[0].id = disk[0].id \/ Committing
    BY <1>1, <1>3, StateChanges
  <2>5. CASE Committing
    <3>1. StateOnDisk' \in Nat /\ StateOnDisk' > StateOnDisk
      <4>1. disk[0].id \in Nat
        BY <1>1, <1>3 DEF Kept, Types, Supers
      <4> QED BY <2>2, <2>5, <4>1 DEF Committing
    <3>2. RefinesAtomicFs!Commit
      BY <2>1, <2>3, <2>5, <3>1 DEF Committing, RefinesAtomicFs!Commit
    <3> QED BY <3>2 DEF RefinesAtomicFs!Next
  <2>6. CASE disk'[0].id = disk[0].id
    <3>1. StateOnDisk' = StateOnDisk
      BY <2>2, <2>6
    <3>2. CASE Readable /\ ~Readable'
      BY <2>1, <2>3, <3>1, <3>2 DEF RefinesAtomicFs!Damage, RefinesAtomicFs!Next
    <3>3. CASE ~Readable /\ Readable'
      BY <2>1, <2>3, <3>1, <3>3 DEF RefinesAtomicFs!Repair, RefinesAtomicFs!Next
    <3>4. CASE Readable' = Readable
      BY <2>1, <3>1, <3>4 DEF RefinesAtomicFs!vars
    <3> QED BY <2>3, <3>2, <3>3, <3>4
  <2> QED BY <2>4, <2>5, <2>6
<1> QED BY <1>2, <1>3

\* An append implements AtomicFs: whatever the threads, interrupts and crashes do, the
\* file system is the old one or the new one, unless the promise is given up.
THEOREM AppendIsAtomic == Spec => AtomicFsSpec
<1>1. Init => RefinesAtomicFs!Init
  BY RefinesInit
<1>2. IInv /\ [Next]_vars => [RefinesAtomicFs!Next]_(RefinesAtomicFs!vars)
  BY RefinesStep
<1> QED BY <1>1, <1>2, InductiveInvariant, PTL DEF Spec, AtomicFsSpec, RefinesAtomicFs!Spec
=============================================================================
