---------------------------- MODULE MCNvramSession ----------------------------
(* NvramSession on small stores: characters are 2, 3, ...                   *)
EXTENDS NvramSession, SequencesExt

Entry(k, v) == k \o <<EQ>> \o v \o <<NUL>>

\* The section that holds the entries of ls, its length field such that
\* last_used is the address of the empty string after them.
Section(ls) ==
  LET bytes == FlattenSeq(ls)
  IN  [mem |-> Trim(bytes), len |-> NVRAM_KEYSTORE_OFF + Len(bytes) - TAIL_OFF]

\* No key is a prefix of another.
a == <<2>>
b == <<3, 3>>
c == <<4, 5>>
d == <<5>>
MCKeys == {a, b, c, d}
MCValues == {<<6, 6>>, <<6, 7>>}

\* Stores that are empty, or hold some keys, one of which nobody sets.
MCImages ==
  {Section(<<>>), Section(<<Entry(b, <<6, 6>>)>>),
   Section(<<Entry(d, <<6, 7>>), Entry(c, <<6, 6>>)>>),
   Section(<<Entry(<<8>>, <<9>>), Entry(a, <<6, 7>>)>>)}

\* A buffer with room for any three of the entries and not for all.
SmallLength == NVRAM_KEYSTORE_OFF + 18

\* The whole file, and values of several lengths, so that entries move.
WholeLength == 32768
MixedValues == {<<6>>, <<6, 7>>, <<6, 7, 6, 7>>}
=============================================================================
