------------------------------ MODULE QueueProofs ------------------------------
(***************************************************************************)
(* Proofs about Queue for every capacity and every finite set of threads:  *)
(* the types, that no wakeup is lost, and that the ring implements a       *)
(* bounded FIFO.                                                           *)
(***************************************************************************)
EXTENDS Queue, FiniteSetTheorems, SequenceTheorems, TLAPS

-----------------------------------------------------------------------------
(* The ring's arithmetic.                                                  *)

\* Advance is the next slot, the first after the last.
LEMMA AdvanceSlot ==
  ASSUME NEW s \in Slots
  PROVE  /\ Advance(s) \in Slots
         /\ Advance(s) = IF s = Capacity THEN 0 ELSE s + 1
<1>1. Capacity \in Nat \ {0} /\ Size \in Nat /\ Size = Capacity + 1
  BY QueueAssumption DEF Size
<1>2. CASE s = Capacity
  BY <1>1, <1>2, (Capacity + 1) % (Capacity + 1) = 0 DEF Advance, Slots
<1>3. CASE s # Capacity
  BY <1>1, <1>3 DEF Advance, Slots
<1> QED BY <1>2, <1>3

\* The test for a full ring is that of Capacity items; one slot stays empty.
LEMMA CountFacts ==
  ASSUME TypeOK
  PROVE  /\ Count \in 0 .. Capacity
         /\ Empty(readp, writep) <=> Count = 0
         /\ Full(readp, writep) <=> Count = Capacity
<1>1. Capacity \in Nat \ {0} /\ readp \in 0 .. Capacity /\ writep \in 0 .. Capacity
  BY QueueAssumption DEF TypeOK, Slots, Size
<1>2. Advance(writep) = IF writep = Capacity THEN 0 ELSE writep + 1
  BY AdvanceSlot DEF TypeOK
<1> QED BY <1>1, <1>2 DEF Count, Empty, Full, Size

-----------------------------------------------------------------------------
\* Types: the read and write positions stay slots and every thread is ready,
\* waiting or woken, whatever the signals do.
THEOREM TypeCorrect == Spec => []TypeOK
<1>1. Init => TypeOK
  BY QueueAssumption DEF Init, TypeOK, Slots, Size
<1>2. TypeOK /\ [Next]_vars => TypeOK'
  <2> SUFFICES ASSUME TypeOK, [Next]_vars PROVE TypeOK'
    OBVIOUS
  <2>1. ASSUME NEW p \in Putters, Put(p) PROVE TypeOK'
    <3>1. Advance(writep) \in Slots
      BY AdvanceSlot DEF TypeOK
    <3>2. p \in Threads /\ Getters \subseteq Threads
      BY DEF Threads
    <3> QED BY <2>1, <3>1, <3>2, QueueAssumption DEF TypeOK, Put, Wait, Signal, Waiting, Items
  <2>2. ASSUME NEW g \in Getters, Get(g) PROVE TypeOK'
    <3>1. Advance(readp) \in Slots
      BY AdvanceSlot DEF TypeOK
    <3>2. g \in Threads /\ Putters \subseteq Threads
      BY DEF Threads
    <3> QED BY <2>2, <3>1, <3>2 DEF TypeOK, Get, Wait, Signal, Waiting
  <2>3. ASSUME NEW t \in Threads, SpuriousWakeup(t) PROVE TypeOK'
    BY <2>3 DEF TypeOK, SpuriousWakeup
  <2>4. CASE UNCHANGED vars
    BY <2>4 DEF TypeOK, vars
  <2> QED BY <2>1, <2>2, <2>3, <2>4 DEF Next
<1> QED BY <1>1, <1>2, PTL DEF Spec

-----------------------------------------------------------------------------
(* Wakeups.                                                                *)

\* What a signal to the threads of S does to the two counts that the invariant
\* compares: of the threads that wait one wakes, if any; t, which signals, is
\* no longer woken.
LEMMA SignalFacts ==
  ASSUME NEW S \in {Putters, Getters}, NEW t \in Threads \ S,
         TypeOK, pc[t] # "waiting", Signal(S, t)
  PROVE  /\ Waiting(S) = {} => Waiting(S)' = {}
         /\ Waiting(S) # {} => Cardinality(Woken(S)') = Cardinality(Woken(S)) + 1
         /\ pc' \in [Threads -> {"ready", "waiting", "woken"}]
         /\ \A T \in {Putters, Getters} \ {S} :
              Waiting(T)' = Waiting(T) /\ Woken(T)' = Woken(T) \ {t}
<1>1. IsFiniteSet(S) /\ S \subseteq Threads /\ pc \in [Threads -> {"ready", "waiting", "woken"}]
  BY QueueAssumption DEF Threads, TypeOK
<1>2. CASE Waiting(S) = {}
  BY <1>1, <1>2, QueueAssumption DEF Signal, Waiting, Woken, Threads
<1>3. CASE Waiting(S) # {}
  <2>1. PICK s \in Waiting(S) : pc' = [pc EXCEPT ![t] = "ready", ![s] = "woken"]
    BY <1>3 DEF Signal
  <2>2. s \in S /\ s # t /\ s \in Threads /\ s \notin Woken(S)
    BY <2>1, <1>1 DEF Waiting, Woken
  <2>3. Woken(S)' = Woken(S) \cup {s}
    BY <2>1, <2>2, <1>1 DEF Woken
  <2>4. IsFiniteSet(Woken(S))
    BY <1>1, FS_Subset DEF Woken
  <2>5. Cardinality(Woken(S)') = Cardinality(Woken(S)) + 1
    BY <2>2, <2>3, <2>4, FS_AddElement
  <2>6. ASSUME NEW T \in {Putters, Getters} \ {S}
        PROVE  Waiting(T)' = Waiting(T) /\ Woken(T)' = Woken(T) \ {t}
    <3>1. s \notin T /\ T \subseteq Threads
      BY <2>2, <2>6, QueueAssumption DEF Threads
    <3> QED BY <2>1, <2>2, <3>1, <1>1 DEF Waiting, Woken
  <2>7. pc' \in [Threads -> {"ready", "waiting", "woken"}]
    BY <2>1, <2>2, <1>1
  <2> QED BY <1>3, <2>5, <2>6, <2>7
<1> QED BY <1>2, <1>3

\* How a put and a get that find room or an item change the count.
LEMMA CountStep ==
  ASSUME TypeOK
  PROVE  /\ (~Full(readp, writep) /\ writep' = Advance(writep) /\ readp' = readp)
             => Count' = Count + 1
         /\ (~Empty(readp, writep) /\ readp' = Advance(readp) /\ writep' = writep)
             => Count' = Count - 1
<1>1. Capacity \in Nat \ {0} /\ readp \in 0 .. Capacity /\ writep \in 0 .. Capacity
  BY QueueAssumption DEF TypeOK, Slots, Size
<1>2. /\ Advance(writep) = IF writep = Capacity THEN 0 ELSE writep + 1
      /\ Advance(readp) = IF readp = Capacity THEN 0 ELSE readp + 1
  BY AdvanceSlot DEF TypeOK
<1> QED BY <1>1, <1>2 DEF Count, Empty, Full, Size

\* No wakeup is lost: while a thread waits, there is a woken one for every item
\* or free slot that it waits for.
THEOREM WakeupsKept == Spec => []NoLostWakeup
<1>1. Init => NoLostWakeup
  BY DEF Init, NoLostWakeup, Waiting, Threads
<1>2. TypeOK /\ NoLostWakeup /\ [Next]_vars => NoLostWakeup'
  <2> SUFFICES ASSUME TypeOK, NoLostWakeup, [Next]_vars PROVE NoLostWakeup'
    OBVIOUS
  <2> DEFINE G == Cardinality(Woken(Getters))
             P == Cardinality(Woken(Putters))
  <2>1. /\ IsFiniteSet(Woken(Getters)) /\ IsFiniteSet(Woken(Putters))
        /\ G \in Nat /\ P \in Nat
    <3>1. IsFiniteSet(Woken(Getters)) /\ IsFiniteSet(Woken(Putters))
      BY QueueAssumption, FS_Subset DEF Woken
    <3> QED BY <3>1, FS_CardinalityType
  <2>2. Count \in 0 .. Capacity /\ Capacity \in Nat
    BY CountFacts, QueueAssumption
  <2>3. \A t : /\ Cardinality(Woken(Getters) \ {t}) \in {G, G - 1}
               /\ Cardinality(Woken(Putters) \ {t}) \in {P, P - 1}
    BY <2>1, FS_RemoveElement
  <2>4. ASSUME NEW p \in Putters, Put(p) PROVE NoLostWakeup'
    <3>1. CASE Full(readp, writep) /\ Wait(p)
      <4>1. Count' = Count /\ Count = Capacity
        BY <3>1, CountFacts DEF Wait, Count
      <4>2. Woken(Getters)' = Woken(Getters) /\ Waiting(Getters)' = Waiting(Getters)
        BY <3>1, QueueAssumption DEF Wait, Woken, Waiting, TypeOK, Threads
      <4>3. Woken(Putters)' = Woken(Putters) \ {p}
        BY <3>1, QueueAssumption DEF Wait, Woken, TypeOK, Threads
      <4>4. Cardinality(Woken(Putters)') >= 0
        BY <4>3, <2>1, FS_Subset, FS_CardinalityType, FS_RemoveElement
      <4> QED BY <4>1, <4>2, <4>4, <2>2 DEF NoLostWakeup
    <3>2. CASE ~Full(readp, writep) /\ writep' = Advance(writep) /\ readp' = readp
               /\ Signal(Getters, p)
      <4>1. Count' = Count + 1
        BY <3>2, CountStep
      <4>2. p \in Threads \ Getters /\ pc[p] # "waiting" /\ Putters # Getters
        BY <2>4, QueueAssumption DEF Threads, Put
      <4>3. /\ Waiting(Getters) = {} => Waiting(Getters)' = {}
            /\ Waiting(Getters) # {} => Cardinality(Woken(Getters)') = G + 1
            /\ Waiting(Putters)' = Waiting(Putters)
            /\ Woken(Putters)' = Woken(Putters) \ {p}
        BY <3>2, <4>2, SignalFacts
      <4>4. Cardinality(Woken(Putters)') \in {P, P - 1}
        BY <4>3, <2>3
      <4> QED BY <4>1, <4>3, <4>4, <2>1, <2>2 DEF NoLostWakeup
    <3> QED BY <2>4, <3>1, <3>2 DEF Put
  <2>5. ASSUME NEW g \in Getters, Get(g) PROVE NoLostWakeup'
    <3>1. CASE Empty(readp, writep) /\ Wait(g)
      <4>1. Count' = Count /\ Count = 0
        BY <3>1, CountFacts DEF Wait, Count
      <4>2. Woken(Putters)' = Woken(Putters) /\ Waiting(Putters)' = Waiting(Putters)
        BY <3>1, QueueAssumption DEF Wait, Woken, Waiting, TypeOK, Threads
      <4>3. Woken(Getters)' = Woken(Getters) \ {g}
        BY <3>1, QueueAssumption DEF Wait, Woken, TypeOK, Threads
      <4>4. Cardinality(Woken(Getters)') >= 0
        BY <4>3, <2>1, FS_Subset, FS_CardinalityType, FS_RemoveElement
      <4> QED BY <4>1, <4>2, <4>4, <2>2 DEF NoLostWakeup
    <3>2. CASE ~Empty(readp, writep) /\ readp' = Advance(readp) /\ writep' = writep
               /\ Signal(Putters, g)
      <4>1. Count' = Count - 1
        BY <3>2, CountStep
      <4>2. g \in Threads \ Putters /\ pc[g] # "waiting" /\ Putters # Getters
        BY <2>5, QueueAssumption DEF Threads, Get
      <4>3. /\ Waiting(Putters) = {} => Waiting(Putters)' = {}
            /\ Waiting(Putters) # {} => Cardinality(Woken(Putters)') = P + 1
            /\ Waiting(Getters)' = Waiting(Getters)
            /\ Woken(Getters)' = Woken(Getters) \ {g}
        BY <3>2, <4>2, SignalFacts
      <4>4. Cardinality(Woken(Getters)') \in {G, G - 1}
        BY <4>3, <2>3
      <4> QED BY <4>1, <4>3, <4>4, <2>1, <2>2 DEF NoLostWakeup
    <3> QED BY <2>5, <3>1, <3>2 DEF Get
  <2>6. ASSUME NEW t \in Threads, SpuriousWakeup(t) PROVE NoLostWakeup'
    <3>1. Count' = Count
      BY <2>6 DEF SpuriousWakeup, Count
    <3>2. ASSUME NEW S \in {Getters, Putters}
          PROVE  /\ Waiting(S)' \subseteq Waiting(S)
                 /\ Cardinality(Woken(S)') >= Cardinality(Woken(S))
      <4>1. Waiting(S)' \subseteq Waiting(S) /\ Woken(S) \subseteq Woken(S)'
        BY <2>6, QueueAssumption DEF SpuriousWakeup, Waiting, Woken, TypeOK, Threads
      <4>2. IsFiniteSet(Woken(S)')
        BY QueueAssumption, FS_Subset DEF Woken
      <4> QED BY <4>1, <4>2, FS_Subset, FS_CardinalityType
    <3>3. Cardinality(Woken(Getters)') >= G /\ Cardinality(Woken(Putters)') >= P
      BY <3>2
    <3>4. Cardinality(Woken(Getters)') \in Int /\ Cardinality(Woken(Putters)') \in Int
      <4>1. IsFiniteSet(Woken(Getters)') /\ IsFiniteSet(Woken(Putters)')
        BY QueueAssumption, FS_Subset DEF Woken
      <4> QED BY <4>1, FS_CardinalityType
    <3> QED BY <3>1, <3>2, <3>3, <3>4, <2>1, <2>2 DEF NoLostWakeup
  <2>7. CASE UNCHANGED vars
    BY <2>7 DEF NoLostWakeup, Waiting, Woken, Count, vars
  <2> QED BY <2>4, <2>5, <2>6, <2>7 DEF Next
<1> QED BY <1>1, <1>2, TypeCorrect, PTL DEF Spec

-----------------------------------------------------------------------------
(* Refinement.                                                             *)

\* The k-th item's slot, and where the next free one is.
LEMMA SlotFacts ==
  ASSUME TypeOK
  PROVE  /\ \A k \in 1 .. Count : Slot(k) \in Slots /\ Slot(k) # writep
         /\ Count < Capacity => Slot(Count + 1) = writep
         /\ Count > 0 => Slot(1) = readp
<1>1. Capacity \in Nat \ {0} /\ readp \in 0 .. Capacity /\ writep \in 0 .. Capacity
  BY QueueAssumption DEF TypeOK, Slots, Size
<1> QED BY <1>1 DEF Slot, Slots, Size, Count

\* What the ring holds is a sequence of the FIFO's items.
LEMMA ContentsType ==
  ASSUME TypeOK
  PROVE  Contents \in Seq(Items \cup {NoItem}) /\ Len(Contents) = Count
<1>1. Count \in Nat
  BY CountFacts
<1>2. \A k \in 1 .. Count : data[Slot(k)] \in Items \cup {NoItem}
  BY SlotFacts DEF TypeOK
<1> QED BY <1>1, <1>2 DEF Contents

\* A put that finds room appends to the contents, a get takes their head.
LEMMA PutAppends ==
  ASSUME TypeOK, ~Full(readp, writep), NEW x \in Items,
         data' = [data EXCEPT ![writep] = x], writep' = Advance(writep), readp' = readp
  PROVE  Contents' = Append(Contents, x) /\ Count < Capacity
<1>1. Count \in Nat /\ Count < Capacity /\ Count' = Count + 1
  BY CountFacts, CountStep, QueueAssumption
<1>2. Contents' = [k \in 1 .. Count + 1 |-> data'[Slot(k)]]
  BY <1>1 DEF Contents, Slot
<1>3. ASSUME NEW k \in 1 .. Count + 1
      PROVE  data'[Slot(k)] = IF k = Count + 1 THEN x ELSE data[Slot(k)]
  <2>1. CASE k = Count + 1
    BY <2>1, <1>1, SlotFacts DEF TypeOK
  <2>2. CASE k # Count + 1
    <3>1. k \in 1 .. Count
      BY <2>2, <1>1
    <3> QED BY <2>2, <3>1, SlotFacts DEF TypeOK
  <2> QED BY <2>1, <2>2
<1>4. Append(Contents, x) = [k \in 1 .. Count + 1 |-> IF k = Count + 1 THEN x ELSE data[Slot(k)]]
  <2>1. Contents \in Seq(Items \cup {NoItem}) /\ Len(Contents) = Count
    BY ContentsType
  <2> QED BY <1>1, <2>1 DEF Contents
<1> QED BY <1>1, <1>2, <1>3, <1>4

LEMMA GetTakesHead ==
  ASSUME TypeOK, ~Empty(readp, writep),
         readp' = Advance(readp), writep' = writep, data' = data
  PROVE  Contents' = Tail(Contents) /\ Contents # <<>>
<1>1. Count \in Nat /\ Count > 0 /\ Count' = Count - 1
  BY CountFacts, CountStep
<1>2. Capacity \in Nat \ {0} /\ readp \in 0 .. Capacity /\ writep \in 0 .. Capacity
  BY QueueAssumption DEF TypeOK, Slots, Size
<1>3. Advance(readp) = IF readp = Capacity THEN 0 ELSE readp + 1
  BY AdvanceSlot DEF TypeOK
<1>4. ASSUME NEW k \in 1 .. Count - 1
      PROVE  Slot(k)' = Slot(k + 1)
  BY <1>1, <1>2, <1>3 DEF Slot, Size, Count
<1>5. Contents' = [k \in 1 .. Count - 1 |-> data[Slot(k + 1)]]
  BY <1>1, <1>4 DEF Contents
<1>6. Contents \in Seq(Items \cup {NoItem}) /\ Len(Contents) = Count
  BY ContentsType
<1>7. Contents # <<>>
  BY <1>1, <1>6
<1>8. /\ Tail(Contents) \in Seq(Items \cup {NoItem}) /\ Len(Tail(Contents)) = Count - 1
      /\ \A k \in 1 .. Len(Tail(Contents)) : Tail(Contents)[k] = Contents[k + 1]
  BY <1>6, <1>7, HeadTailProperties
<1>9. \A k \in 1 .. Count - 1 : /\ Contents[k + 1] = data[Slot(k + 1)]
                               /\ data[Slot(k + 1)] \in Items \cup {NoItem}
  BY <1>1, SlotFacts DEF Contents, TypeOK
<1>10. /\ Contents' \in Seq(Items \cup {NoItem}) /\ Len(Contents') = Count - 1
       /\ \A k \in 1 .. Count - 1 : Contents'[k] = data[Slot(k + 1)]
  BY <1>1, <1>5, <1>9
<1>11. Contents' = Tail(Contents)
  BY <1>1, <1>8, <1>9, <1>10, SeqEqual
<1> QED BY <1>7, <1>11

\* The ring implements the bounded FIFO of every capacity: each put appends one
\* item, each get takes the oldest, and a wait or a wakeup changes nothing.
THEOREM RingImplementsFifo == Spec => RefinesFifo
<1>1. Init => Abstract!Init
  <2> SUFFICES ASSUME Init PROVE Abstract!Init
    OBVIOUS
  <2>1. Count = 0
    BY DEF Init, Count
  <2>2. Contents = <<>>
    BY <2>1 DEF Contents
  <2> QED BY <2>2 DEF Init, Abstract!Init
<1>2. TypeOK /\ [Next]_vars => [Abstract!Next]_Abstract!vars
  <2> SUFFICES ASSUME TypeOK, [Next]_vars PROVE [Abstract!Next]_Abstract!vars
    OBVIOUS
  <2>1. ASSUME NEW t, Wait(t) PROVE UNCHANGED Abstract!vars
    BY <2>1 DEF Wait, Abstract!vars, Contents, Count, Slot
  <2>2. ASSUME NEW p \in Putters, Put(p) PROVE [Abstract!Next]_Abstract!vars
    <3>1. CASE ~Full(readp, writep) /\ sent[p] < MaxPuts /\ sent' = [sent EXCEPT ![p] = @ + 1]
               /\ data' = [data EXCEPT ![writep] = <<p, sent[p] + 1>>]
               /\ writep' = Advance(writep) /\ readp' = readp
      <4>1. <<p, sent[p] + 1>> \in Items /\ sent'[p] = sent[p] + 1
        BY <3>1, QueueAssumption DEF Items, TypeOK
      <4>2. Contents' = Append(Contents, <<p, sent[p] + 1>>) /\ Count < Capacity
        BY <3>1, <4>1, PutAppends
      <4>3. Abstract!Put(p)
        BY <3>1, <4>1, <4>2, ContentsType DEF Abstract!Put
      <4> QED BY <4>3 DEF Abstract!Next
    <3> QED BY <2>1, <2>2, <3>1 DEF Put
  <2>3. ASSUME NEW g \in Getters, Get(g) PROVE [Abstract!Next]_Abstract!vars
    <3>1. CASE ~Empty(readp, writep) /\ readp' = Advance(readp)
               /\ UNCHANGED <<data, writep, sent>>
      <4>1. Contents' = Tail(Contents) /\ Contents # <<>>
        BY <3>1, GetTakesHead
      <4>2. Abstract!Get
        BY <3>1, <4>1 DEF Abstract!Get
      <4> QED BY <4>2 DEF Abstract!Next
    <3> QED BY <2>1, <2>3, <3>1 DEF Get
  <2>4. ASSUME NEW t \in Threads, SpuriousWakeup(t) PROVE UNCHANGED Abstract!vars
    BY <2>4 DEF SpuriousWakeup, Abstract!vars, Contents, Count, Slot
  <2>5. CASE UNCHANGED vars
    BY <2>5 DEF vars, Abstract!vars, Contents, Count, Slot
  <2> QED BY <2>2, <2>3, <2>4, <2>5 DEF Next
<1> QED BY <1>1, <1>2, TypeCorrect, PTL DEF Spec, RefinesFifo
=============================================================================
