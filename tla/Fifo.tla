--------------------------------- MODULE Fifo ---------------------------------
(***************************************************************************)
(* What the queues of mksquashfs and unsquashfs promise their threads: a   *)
(* bounded FIFO.  A put adds at the end when there is room, a get takes    *)
(* the head.                                                               *)
(***************************************************************************)
EXTENDS Integers, Sequences

CONSTANTS Putters, Capacity, MaxPuts

VARIABLES items,     \* what is in the queue
          sent       \* how many items each putter has put
vars == <<items, sent>>

Init == items = <<>> /\ sent = [p \in Putters |-> 0]

Put(p) == /\ Len(items) < Capacity /\ sent[p] < MaxPuts
          /\ sent' = [sent EXCEPT ![p] = @ + 1]
          /\ items' = Append(items, <<p, sent'[p]>>)

Get == /\ items # <<>>
       /\ items' = Tail(items)
       /\ UNCHANGED sent

Next == (\E p \in Putters : Put(p)) \/ Get

Spec == Init /\ [][Next]_vars
=============================================================================
