------------------------------ MODULE NvramStore ------------------------------
(***************************************************************************)
(* What setting NVRAM variables promises: a map from keys to values in     *)
(* which a request to set a key changes that key and nothing else.         *)
(***************************************************************************)
CONSTANTS Keys, Values, Missing

VARIABLES store,     \* the map
          request    \* the last request: a key and the value it asked for

storeVars == <<store, request>>

\* Whatever it holds at first.
StoreInit == /\ DOMAIN store = Keys
             /\ request = <<Missing, Missing>>

SetKey(k, v) == /\ request' = <<k, v>>
                /\ store' = [store EXCEPT ![k] = v]

StoreNext == \E k \in Keys, v \in Values : SetKey(k, v)

StoreSpec == StoreInit /\ [][StoreNext]_storeVars
=============================================================================
