-------------------------------- MODULE AtomicFs --------------------------------
(***************************************************************************)
(* What an append promises about the file system in the destination: there *)
(* is one state of it, that of the last append that succeeded.  While an   *)
(* append is under way it may not be there to be read; what comes back is  *)
(* either the state it was in or the next one, never a mixture.  The       *)
(* promise can be given up, once and for all.                              *)
(***************************************************************************)
EXTENDS Naturals

VARIABLES state,       \* which file system it is
          whole,       \* it can be read as it is
          given_up

vars == <<state, whole, given_up>>

Init == state = 0 /\ whole = TRUE /\ given_up = FALSE

\* An append or a recovery begins to write over the tables.
Damage == whole /\ whole' = FALSE /\ UNCHANGED <<state, given_up>>

\* An append that was interrupted, or a recovery, puts back what was there.
Repair == ~whole /\ whole' = TRUE /\ UNCHANGED <<state, given_up>>

\* An append succeeds.
Commit == ~whole /\ whole' = TRUE /\ state' \in Nat /\ state' > state /\ UNCHANGED given_up

GiveUp == given_up' = TRUE

Next == Damage \/ Repair \/ Commit \/ GiveUp

Spec == Init /\ [][Next]_vars
=============================================================================
