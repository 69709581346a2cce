-------------------------------- MODULE MCQueue --------------------------------
(* Queue with putters and getters that outnumber the slots.                  *)
EXTENDS Queue

CONSTANTS p1, p2, p3, g1, g2, noItem
MCPutters == {p1, p2, p3}
MCGetters == {g1, g2}
=============================================================================
