------------------------------ MODULE MCFirmware ------------------------------
(* Firmware with images of one to three modules.                            *)
EXTENDS Firmware

CONSTANT junk

MCTypes == {1, 2, 9}
Mod(t, magic, digest, n) == [type |-> t, magic |-> magic, digest |-> digest, blocks |-> n]

\* All pairs of modules of these kinds, and images of one and three modules.
Kinds == {Mod(1, TRUE, "good", 2), Mod(1, FALSE, "good", 1), Mod(2, TRUE, "good", 1),
          Mod(9, TRUE, "good", 2), Mod(9, TRUE, "good0", 1), Mod(9, FALSE, "bad", 1)}
MCImages == {<<a, b>> : a \in Kinds, b \in Kinds}
            \cup {<<Mod(1, TRUE, "good", 2)>>,
                  <<Mod(1, TRUE, "good", 1), Mod(9, TRUE, "good", 1), Mod(9, TRUE, "good", 1)>>}
=============================================================================
