------------------------------ MODULE MCFragments ------------------------------
(* Fragments with two fragment deflators.                             *)
EXTENDS Fragments

CONSTANTS d1, d2
MCTwo == {d1, d2}
=============================================================================
