------------------------------ MODULE MCUnsquash ------------------------------
(* Unsquash over small images.                                              *)
EXTENDS Unsquash

CONSTANTS d1, d2, b1, b2, e1

Block(block, size) == [kind |-> "data", block |-> block, offset |-> 0, size |-> size]
Part(offset, size) == [kind |-> "fragment", block |-> "f", offset |-> offset, size |-> size]
Hole(size) == [kind |-> "hole", block |-> "hole", offset |-> 0, size |-> size]
File(inode, pieces) == [inode |-> inode, file |-> TRUE, pieces |-> pieces]
Device(inode) == [inode |-> inode, file |-> FALSE, pieces |-> <<>>]

\* Files that share blocks, more blocks than buffers, links made while a file is
\* written, holes in the middle and at the end, tails of one fragment, an empty
\* file, a device, and holes that do not fit.
MCImages == {
  <<File(1, <<Block("p", 2), Hole(2), Block("q", 1)>>), File(1, <<>>),
    File(2, <<Block("p", 2), Block("r", 2), Part(1, 1)>>)>>,
  <<File(1, <<Block("p", 2), Block("q", 2), Hole(2), Hole(1)>>), File(2, <<Block("p", 2), Part(0, 1)>>), File(3, <<Part(1, 1)>>)>>,
  <<Device(1), File(2, <<>>), Device(1), File(3, <<Hole(2), Hole(2), Hole(2), Block("q", 2)>>)>>,
  <<File(1, <<Block("p", 2), Hole(2), Hole(2), Hole(2), Hole(2), Block("q", 1)>>)>>}
MCCompressed == {"p", "f"}
MCExisting == {{}, {1, 2, 3}}
MCOldData == [n \in 1 .. 6 |-> <<"old", n>>]
=============================================================================
