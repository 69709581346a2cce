------------------------------ MODULE MCCfgTool ------------------------------
(* CfgTool with the files of test.sh and one setting, on or off.  The CRC   *)
(* functions are small and have collisions.                                 *)
EXTENDS CfgTool

CONSTANTS cur, disabled, on, off, enable, disable, hdr

MCByte == 0 .. 2
Bit(v) == IF v = on THEN 1 ELSE 0
MCHeaderCrc == [x \in {hdr} \X MCByte |-> (x[2] + 1) % 3]
MCFileCrc ==
  [b \in [val : {on, off}, ncrc : MCByte, level : 0 .. 3] |-> (Bit(b.val) + b.ncrc + b.level) % 3]
MCNvramCrc == [v \in {on, off} |-> 1 + Bit(v)]
MCSetNvram == [x \in {on, off} \X {enable, disable} |-> IF x[2] = enable THEN on ELSE off]

\* A good file from the device, and one whose header CRC is wrong.
Good == Canonical(hdr, on)
MCGiven == {Good, [Good EXCEPT !.hcrc = (@ + 1) % 3]}
=============================================================================
