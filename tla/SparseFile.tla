------------------------------ MODULE SparseFile ------------------------------
(***************************************************************************)
(* How unsquashfs writes a file with holes: a hole is sought over, or, on  *)
(* a file system that refuses to seek past the end of a file, written as   *)
(* zeros.  A file is                                                       *)
(*     [content |-> its bytes, pos |-> the offset of its descriptor,       *)
(*      broken |-> lseek_broken, past |-> whether seeks past the end work] *)
(* of which broken stays from file to file.  The length of a hole is an    *)
(* int, which HalfInt and more do not fit into.                            *)
(***************************************************************************)
EXTENDS Integers, Sequences

CONSTANT HalfInt     \* 2^31

ASSUME HalfIntAssumption == HalfInt \in Nat \ {0}

Zero == <<"zero", 0>>
Zeros(n) == [k \in 1 .. (IF n > 0 THEN n ELSE 0) |-> Zero]

Int32(n) == ((n + HalfInt) % (2 * HalfInt)) - HalfInt

\* write(2): what lies between the end and the offset is zero from then on.
Put(f, bytes) ==
  LET end == f.pos + Len(bytes)
      size == IF end > Len(f.content) THEN end ELSE Len(f.content)
  IN  [f EXCEPT !.pos = end,
                !.content = [k \in 1 .. size |->
                   IF k \in f.pos + 1 .. end THEN bytes[k - f.pos]
                   ELSE IF k <= Len(f.content) THEN f.content[k] ELSE Zero]]

\* lseek(2) from the current offset, and ftruncate(2).
CanSeek(f, off) == f.pos + off >= 0 /\ (f.past \/ f.pos + off <= Len(f.content))
Resize(content, size) ==
  [k \in 1 .. size |-> IF k <= Len(content) THEN content[k] ELSE Zero]

\* write_block up to its last write.
Skip(f, hole) ==
  IF hole = 0 THEN f
  ELSE IF f.broken \/ ~CanSeek(f, hole)
       THEN [Put(f, Zeros(hole)) EXCEPT !.broken = TRUE]
       ELSE [f EXCEPT !.pos = @ + hole]

WriteBlock(f, bytes, hole) == Put(Skip(f, hole), bytes)

\* The end of a file whose last blocks are a hole: the size makes it, or a zero
\* at its last byte.
EndHoleUnsized(f, hole, size) == [f EXCEPT !.pos = @ + hole]
EndHole(f, hole, size) ==
  IF CanSeek(f, hole) THEN [f EXCEPT !.pos = @ + hole, !.content = Resize(@, size)]
  ELSE WriteBlock(f, <<Zero>>, Int32(hole - 1))
=============================================================================
