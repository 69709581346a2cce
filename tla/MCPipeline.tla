------------------------------- MODULE MCPipeline -------------------------------
(* Pipeline over small sources.                                              *)
EXTENDS Pipeline

CONSTANTS d1, d2, f1, f2

File(n, tail, dup) == [blocks |-> n, tail |-> tail, dup |-> dup]
Small == File(0, TRUE, FALSE)

\* Tails before, between and after files with blocks, with and without a tail
\* of their own, and a possible duplicate.
MCSources == {<<Small, Small, File(3, FALSE, FALSE), File(3, FALSE, TRUE), Small>>,
              <<Small, File(2, TRUE, FALSE), Small, File(4, FALSE, FALSE)>>,
              <<File(2, FALSE, FALSE), Small, Small, File(2, FALSE, TRUE)>>}
=============================================================================
