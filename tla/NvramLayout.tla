----------------------------- MODULE NvramLayout -----------------------------
(***************************************************************************)
(* The NVRAM section of a decoded configuration file, byte by byte as far  *)
(* as config_codec.c looks at the bytes: entries "key=value" separated by  *)
(* NUL, an empty string after the last one, and a length field in the      *)
(* section's header.  An image is a record                                 *)
(*     [mem |-> the bytes from the key store on, up to the last non-NUL,   *)
(*      len |-> the u_short at buffer + 0xc4].                             *)
(* Every byte after the last one of mem is NUL.  Addresses are offsets     *)
(* into the buffer, with the program's own bases.  A byte is NUL, EQ or    *)
(* the code of some other character; a C string is the sequence of its     *)
(* characters.                                                             *)
(***************************************************************************)
EXTENDS Integers, Sequences

CONSTANT Length    \* the "length" that nvram_set passes to _nvram_set

NVRAM_BASE == 192
NVRAM_KEYSTORE_OFF == 20 + NVRAM_BASE
TAIL_OFF == 186    \* last_used is the length field plus this

ASSUME LengthAssumption == Length \in Nat /\ Length > NVRAM_KEYSTORE_OFF

NUL == 0
EQ  == 1

-----------------------------------------------------------------------------
(* Bytes and C strings of the buffer.                                      *)

End(mem) == NVRAM_KEYSTORE_OFF + Len(mem)
Byte(mem, p) == IF p < End(mem) THEN mem[p - NVRAM_KEYSTORE_OFF + 1] ELSE NUL
Bytes(mem, from, to) == [i \in 1 .. to - from |-> Byte(mem, from + i - 1)]
Zeros(n) == [i \in 1 .. n |-> NUL]

\* The same bytes, without the NULs after the last other byte.
Trim(s) ==
  LET used == {i \in 1 .. Len(s) : s[i] # NUL}
  IN  IF used = {} THEN <<>> ELSE SubSeq(s, 1, CHOOSE i \in used : \A j \in used : j <= i)

\* The address of the first c at or after p; Length when there is none.
FirstAt(mem, p, c) ==
  IF \E q \in p .. End(mem) : Byte(mem, q) = c
  THEN CHOOSE q \in p .. End(mem) : Byte(mem, q) = c /\ \A r \in p .. q - 1 : Byte(mem, r) # c
  ELSE IF c = NUL THEN p ELSE Length

StrLen(mem, p) == FirstAt(mem, p, NUL) - p
StrAt(mem, p) == Bytes(mem, p, FirstAt(mem, p, NUL))
NextString(mem, p) == FirstAt(mem, p, NUL) + 1
HasEq(mem, p) == FirstAt(mem, p, EQ) < FirstAt(mem, p, NUL)

\* strncmp(ptr, key, strlen(key)) == 0: the string at p starts with key.
StartsWith(mem, p, key) == Bytes(mem, p, p + Len(key)) = key

\* mem with the bytes s stored from p on.
Store(mem, p, s) ==
  Trim(Bytes(mem, NVRAM_KEYSTORE_OFF, p) \o s \o Bytes(mem, p + Len(s), End(mem)))

MemMove(mem, dst, src, n) == Store(mem, dst, Bytes(mem, src, src + n))

-----------------------------------------------------------------------------
(* What a reader of the store sees: the entries up to the first empty      *)
(* string.                                                                 *)

EntryStarts(mem) ==
  LET From[p \in Nat] ==
        IF p >= Length \/ Byte(mem, p) = NUL THEN {} ELSE {p} \cup From[NextString(mem, p)]
  IN  From[NVRAM_KEYSTORE_OFF]

KeyAt(mem, p) == Bytes(mem, p, FirstAt(mem, p, EQ))
ValueAt(mem, p) == StrAt(mem, FirstAt(mem, p, EQ) + 1)

StoresAt(mem, p, key) == HasEq(mem, p) /\ KeyAt(mem, p) = key

\* The first address after the entries: where the empty string stands.
StoreEnd(mem) ==
  LET starts == EntryStarts(mem)
  IN  IF starts = {} THEN NVRAM_KEYSTORE_OFF
      ELSE NextString(mem, CHOOSE p \in starts : \A r \in starts : r <= p)

-----------------------------------------------------------------------------
(* The first loop of _nvram_set: it stops at the first entry that STARTS   *)
(* WITH the key, at the empty string, or crashes in                        *)
(* strlen(strchr(ptr, '=')) on an entry without '='.                       *)

FindKey(mem, key) ==
  LET From[p \in Nat] ==
        CASE p >= Length \/ Byte(mem, p) = NUL -> [found |-> "no", at |-> p]
          [] p < Length /\ Byte(mem, p) # NUL /\ ~HasEq(mem, p) ->
               [found |-> "crash", at |-> p]
          [] p < Length /\ HasEq(mem, p) /\ StartsWith(mem, p, key) ->
               [found |-> "yes", at |-> p]
          [] OTHER -> From[NextString(mem, p)]
  IN  From[NVRAM_KEYSTORE_OFF]

\* The INSERTONEND loop: from the tail, string by string, to an empty one.
FindEmptyPastTail(mem, tail) == tail + 1
FindEmpty(mem, tail) ==
  LET From[p \in Nat] ==
        IF p >= Length \/ Byte(mem, p) = NUL THEN p ELSE From[NextString(mem, p)]
  IN  From[tail]

\* The bytes that an append stores.
EntryWithoutEq(key, value) == key \o value \o <<NUL>>
EntryBytes(key, value) == key \o <<EQ>> \o value \o <<NUL>>

\* The room check for n bytes at an address.
FitsWithoutEnds(at, n) == at + n - 2 <= Length
Fits(at, n) == at + n <= Length

\* The length field for the address of the next append.
LengthFieldNegated(tail) == TAIL_OFF - tail
LengthField(tail) == (tail - TAIL_OFF) % 65536

\* How a call ends.  "crash": undefined behaviour that stops the process.
Outcome(ret, path, img) == [ret |-> ret, path |-> path, img |-> img]

\* INSERTONEND: append key=value at the first empty string from the tail on.
\* When it does not fit the code copies through two null pointers.
InsertOnEnd(img, tail, path, key, value) ==
  LET at == FindEmpty(img.mem, tail)
      entry == EntryBytes(key, value)
      grown == [mem |-> Store(img.mem, at, entry), len |-> LengthField(tail + Len(entry))]
  IN  CASE at >= Length -> Outcome("ok", "dropped", img)
        [] at < Length /\ Fits(at, Len(entry)) -> Outcome("ok", path, grown)
        [] OTHER -> Outcome("crash", "full", img)

\* The key's entry at p holds a value of another length: squeeze it out, move
\* the tail back, clear, and append.  The three sizes are the code's.
MoveToEnd(img, p, key, value) ==
  LET size == StrLen(img.mem, p)
      tail == img.len + TAIL_OFF
      n    == tail - (NVRAM_KEYSTORE_OFF - p + size)
      squeezed == MemMove(img.mem, p, p + size + 1, n)
      next == StrLen(squeezed, p)      \* strlen(ptr), now of the entry moved to p
      cleared == IF next = 0 THEN squeezed
                 ELSE Store(squeezed, p + tail - next, Zeros(next))
  IN  IF p + size + 1 + n > Length \/ p + tail > Length
      THEN Outcome("crash", "overrun", img)
      ELSE InsertOnEnd([img EXCEPT !.mem = cleared], tail - next, "moved", key, value)

\* _nvram_set, after its CRC check.
NvramSet(img, key, value) ==
  LET hit == FindKey(img.mem, key)
      val == FirstAt(img.mem, hit.at, EQ) + 1
      old == StrAt(img.mem, val)
  IN  CASE hit.found = "crash" -> Outcome("crash", "no_eq", img)
        [] hit.found = "no" -> InsertOnEnd(img, img.len + TAIL_OFF, "append", key, value)
        [] hit.found = "yes" /\ old = value -> Outcome("ok", "same", img)
        [] hit.found = "yes" /\ old # value /\ Len(old) = Len(value) ->
             Outcome("ok", "inplace", [img EXCEPT !.mem = Store(@, val, value)])
        [] OTHER -> MoveToEnd(img, hit.at, key, value)

\* The bytes that compute_crc reads: up to the length field rounded up to 4.
CrcEndLessHeader(img) == NVRAM_BASE - 20 + ((4 * ((img.len + 3) \div 4)) % 65536)
CrcEnd(img) == NVRAM_BASE + ((4 * ((img.len + 3) \div 4)) % 65536)
CrcCovered(img) == Bytes(img.mem, NVRAM_KEYSTORE_OFF, CrcEnd(img))
=============================================================================
