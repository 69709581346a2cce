--------------------------------- MODULE Queue ---------------------------------
(***************************************************************************)
(* queue_init, queue_put and queue_get, the same in mksquashfs.c and       *)
(* unsquashfs.c: a ring of size + 1 slots under one mutex, with a          *)
(* condition for putters that find it full and one for getters that find   *)
(* it empty.  A thread holds the mutex from its lock to its unlock or      *)
(* wait, so that each action is one such stretch.                          *)
(***************************************************************************)
EXTENDS Integers, Sequences, FiniteSets

CONSTANTS Putters, Getters,  \* the threads
          Capacity,          \* queue_init's argument
          MaxPuts,           \* bound: how many items each putter puts
          NoItem             \* what malloc left in a slot

ASSUME QueueAssumption ==
  /\ Capacity \in Nat \ {0} /\ MaxPuts \in Nat
  /\ IsFiniteSet(Putters) /\ IsFiniteSet(Getters) /\ Putters \cap Getters = {}

VARIABLES data, readp, writep,
          pc,        \* per thread: "ready" to lock, "waiting" on its condition, "woken" from it
          sent       \* how many items each putter has put
vars == <<data, readp, writep, pc, sent>>

Threads == Putters \cup Getters
Size == Capacity + 1
Slots == 0 .. Size - 1
Items == Putters \X Nat

Init == /\ data = [s \in Slots |-> NoItem]
        /\ readp = 0 /\ writep = 0
        /\ pc = [t \in Threads |-> "ready"]
        /\ sent = [p \in Putters |-> 0]

AdvanceUnwrapped(p) == p + 1
Advance(p) == (p + 1) % Size

FullWithoutSpare(r, w) == FALSE
Full(r, w) == Advance(w) = r
Empty(r, w) == r = w

Waiting(S) == {t \in S : pc[t] = "waiting"}
Woken(S) == {t \in S : pc[t] = "woken"}

\* pthread_cond_signal by t, which then unlocks: one thread of S that waits wakes.
SignalOnce(S, t) ==
  IF Waiting(S) = {} \/ Woken(S) # {} THEN pc' = [pc EXCEPT ![t] = "ready"]
  ELSE \E s \in Waiting(S) : pc' = [pc EXCEPT ![t] = "ready", ![s] = "woken"]
SignalOwn(S, t) ==
  LET own == IF t \in Putters THEN Putters ELSE Getters
  IN  IF Waiting(own) = {} THEN pc' = [pc EXCEPT ![t] = "ready"]
      ELSE \E s \in Waiting(own) : pc' = [pc EXCEPT ![t] = "ready", ![s] = "woken"]
Signal(S, t) ==
  IF Waiting(S) = {} THEN pc' = [pc EXCEPT ![t] = "ready"]
  ELSE \E s \in Waiting(S) : pc' = [pc EXCEPT ![t] = "ready", ![s] = "woken"]

\* pthread_cond_wait: the loop tests again once t is woken.
Wait(t) == /\ pc' = [pc EXCEPT ![t] = "waiting"]
           /\ UNCHANGED <<data, readp, writep, sent>>

Put(p) ==
  /\ pc[p] # "waiting" /\ sent[p] < MaxPuts
  /\ \/ Full(readp, writep) /\ Wait(p)
     \/ /\ ~Full(readp, writep)
        /\ sent' = [sent EXCEPT ![p] = @ + 1]
        /\ data' = [data EXCEPT ![writep] = <<p, sent[p] + 1>>]
        /\ writep' = Advance(writep)
        /\ Signal(Getters, p)
        /\ UNCHANGED readp

Get(g) ==
  /\ pc[g] # "waiting"
  /\ \/ Empty(readp, writep) /\ Wait(g)
     \/ /\ ~Empty(readp, writep)
        /\ readp' = Advance(readp)
        /\ Signal(Putters, g)
        /\ UNCHANGED <<data, writep, sent>>

\* pthread_cond_wait may return without a signal.
SpuriousWakeup(t) == /\ pc[t] = "waiting"
                     /\ pc' = [pc EXCEPT ![t] = "woken"]
                     /\ UNCHANGED <<data, readp, writep, sent>>

Next == \/ \E p \in Putters : Put(p)
        \/ \E g \in Getters : Get(g)
        \/ \E t \in Threads : SpuriousWakeup(t)

\* The scheduler runs every thread, and a mutex that is free is given to one.
Fairness == /\ \A p \in Putters : WF_vars(Put(p))
            /\ \A g \in Getters : WF_vars(Get(g))

Spec == Init /\ [][Next]_vars /\ Fairness

-----------------------------------------------------------------------------
TypeOK == /\ data \in [Slots -> Items \cup {NoItem}]
          /\ readp \in Slots /\ writep \in Slots
          /\ pc \in [Threads -> {"ready", "waiting", "woken"}]
          /\ sent \in [Putters -> 0 .. MaxPuts]

\* The number of items, and the slot of the k-th.
Count == IF readp <= writep THEN writep - readp ELSE Size + writep - readp
Slot(k) == IF readp + k - 1 < Size THEN readp + k - 1 ELSE readp + k - 1 - Size

\* pthread_cond_signal wakes one thread and is lost when none waits.  While a
\* getter waits, there is a woken getter for every item in the queue, and while
\* a putter waits, a woken putter for every free slot: no thread sleeps on work
\* that it could do.
NoLostWakeup ==
  /\ Waiting(Getters) # {} => Count <= Cardinality(Woken(Getters))
  /\ Waiting(Putters) # {} => Capacity - Count <= Cardinality(Woken(Putters))

\* The ring implements the bounded FIFO: nothing is lost, duplicated,
\* overwritten or reordered, across the wrap.
Contents == [k \in 1 .. Count |-> data[Slot(k)]]
Abstract == INSTANCE Fifo WITH items <- Contents
RefinesFifo == Abstract!Init /\ [][Abstract!Next]_Abstract!vars

\* Every item is put and taken, in the end: no set of waiting threads holds up
\* the others.
AllDelivered == <>[](Count = 0 /\ \A p \in Putters : sent[p] = MaxPuts)
=============================================================================
