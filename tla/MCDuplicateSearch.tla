--------------------------- MODULE MCDuplicateSearch ---------------------------
(* DuplicateSearch with caches that are too small for all the fragments.     *)
EXTENDS DuplicateSearch

CONSTANT d1

Kind(size, tail, dup) == [size |-> size, tail |-> tail, dup |-> dup]

\* Small files and files with blocks, with and without a tail, and each of them
\* once as a possible duplicate.
MCKinds == {Kind(0, TRUE, FALSE), Kind(0, TRUE, TRUE), Kind(2, FALSE, TRUE), Kind(1, TRUE, TRUE),
            Kind(1, FALSE, FALSE), Kind(2, TRUE, FALSE)}

=============================================================================
