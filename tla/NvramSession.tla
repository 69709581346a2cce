----------------------------- MODULE NvramSession -----------------------------
(***************************************************************************)
(* A history of "--cfg key=value" edits of one configuration: each edit    *)
(* decodes the section the previous one left, runs nvram_set on it and     *)
(* stores it again.  The steps around nvram_set (checks, encoding, file    *)
(* CRCs) are CfgTool's; here the section's bytes are followed from edit to *)
(* edit.  nvram_set refuses a section whose stored CRC is not the computed *)
(* one and recomputes it after a successful edit.  The model's CRC is the  *)
(* region it covers: two regions have the same CRC only if they are equal. *)
(***************************************************************************)
EXTENDS NvramLayout

CONSTANTS Keys,        \* the keys the user may set, as character sequences
          Values,      \* the values, likewise
          Images,      \* the sections the user may start from
          MaxEdits     \* bound on the number of edits in a history

ASSUME SessionAssumption ==
  /\ \A s \in Keys \cup Values : \A i \in 1 .. Len(s) : s[i] \notin {NUL, EQ}
  /\ MaxEdits \in Nat

VARIABLES img,         \* the section: mem and len
          crc,         \* the byte at 0xc8
          last,        \* the last edit: key, value, how it ended
          done,        \* key and value of the last edit that succeeded (history)
          edits        \* number of edits so far (bounded)
vars == <<img, crc, last, done, edits>>

Missing == <<NUL>>     \* no C string holds a NUL
NoEdit == [key |-> Missing, value |-> Missing, ret |-> "none", path |-> "none"]

Init == /\ img \in Images
        /\ crc = CrcCovered(img)
        /\ last = NoEdit
        /\ done = <<Missing, Missing>>
        /\ edits = 0

\* nvram_set: _nvram_set dies on a CRC mismatch, else edits; the CRC is
\* computed anew after a success.
Edit(section, sum, k, v) ==
  IF sum # CrcCovered(section) THEN Outcome("refused", "crc", section)
  ELSE NvramSet(section, k, v)

\* The CRC that nvram_set stores after an edit that left section.
NewCrcOfOldLength(section) == CrcCovered([section EXCEPT !.len = @ - 4])
NewCrc(section) == CrcCovered(section)

\* One edit.  A refusal and a crash lose the edit: nothing is written.
SetVariable(k, v) ==
  LET res == Edit(img, crc, k, v)
  IN  /\ edits < MaxEdits
      /\ edits' = edits + 1
      /\ last' = [key |-> k, value |-> v, ret |-> res.ret, path |-> res.path]
      /\ IF res.ret = "ok"
         THEN img' = res.img /\ crc' = NewCrc(res.img) /\ done' = <<k, v>>
         ELSE UNCHANGED <<img, crc, done>>

Next == \E k \in Keys, v \in Values : SetVariable(k, v)

Spec == Init /\ [][Next]_vars

-----------------------------------------------------------------------------
\* The value a reader of the section finds for a key.
Lookup(mem, k) ==
  LET From[p \in Nat] ==
        IF p >= Length \/ Byte(mem, p) = NUL THEN Missing
        ELSE IF StoresAt(mem, p, k) THEN ValueAt(mem, p)
        ELSE From[NextString(mem, p)]
  IN  From[NVRAM_KEYSTORE_OFF]

\* Type invariant: the section is a string of bytes with a 16-bit length.
TypeOK ==
  /\ img.mem \in Seq(Nat)
  /\ img.len \in 0 .. 65535
  /\ last.ret \in {"none", "ok", "refused", "crash"}
  /\ edits \in 0 .. MaxEdits

\* The properties below are of histories in which every value has the length of
\* the one it replaces; SetThenGet shows what becomes of the others.

\* Every entry a reader can reach is "key=value": no edit leaves one without an
\* '=', on which the next edit would crash in strlen(strchr(ptr, '=')).
EntriesWellFormed == \A p \in EntryStarts(img.mem) : HasEq(img.mem, p)

\* The stored CRC covers every entry: a reader who accepts the CRC trusts no
\* byte that it does not protect.
CrcCoversEntries == StoreEnd(img.mem) <= CrcEnd(img)

\* No edit leaves a byte beyond the buffer, however full the store gets.
StoreWithinBuffer == End(img.mem) <= Length

\* No edit is refused: each one leaves a section the next one accepts.
NextEditAccepted == last.ret # "refused"

\* After any history of edits the section is one that its readers and the next edit
\* can work with.
Consistent == TypeOK /\ EntriesWellFormed /\ StoreWithinBuffer /\ NextEditAccepted

\* The section implements the map: an edit that succeeds sets its key and
\* touches no other, one that does not fit changes nothing.
Abstract == INSTANCE NvramStore
  WITH store <- [k \in Keys |-> Lookup(img.mem, k)], request <- done
RefinesStore == Abstract!StoreSpec

-----------------------------------------------------------------------------
(* What the documents say, and the code does not always do.                *)

\* "we move from next kvpair to end of used zone to cur kvpair then insert at end
\* and update end": after an edit that succeeds a reader finds the new value.
SetThenGet == last.ret = "ok" => Lookup(img.mem, last.key) = last.value
=============================================================================
