------------------------------- MODULE CfgTool -------------------------------
(***************************************************************************)
(* The --cfg and --ckconf operations (opCfg and opCkConf in ops.c, with    *)
(* checkfile, fixfile, encode, decode, verify_crc and nvram_set's CRCs in  *)
(* config_codec.c) as steps of a process over the files of a disk.  Runs   *)
(* follow each other in any order and with any arguments, each on the      *)
(* files the earlier ones left.                                            *)
(*                                                                         *)
(* A file's image keeps what the checks tell apart: the version byte, the  *)
(* header CRC buf[7] and the file CRC buf[0x1b] of the header, and a body: *)
(* the NVRAM content, its CRC buf[0xc8], and how many times the body is    *)
(* encoded (encode rotates each byte and complements it, so four times is  *)
(* none).  The three CRCs are arbitrary functions of what they cover.      *)
(***************************************************************************)
EXTENDS Integers

CONSTANTS Files,       \* file names
          Headers,     \* the header bytes that no operation changes
          Contents,    \* what the NVRAM section can hold
          Edits,       \* the key=value arguments of --cfg
          Byte,        \* the values of a CRC
          HeaderCrc,   \* hndcrc8 of the first 128 bytes, with buf[7] = 0
          FileCrc,     \* hndcrc8 of the body
          NvramCrc,    \* compute_crc of a decoded body
          SetNvram,    \* the content an edit leaves
          Given,       \* the images a user may start from
          Absent, Short, NoSet

\* A file torn before its body is Short in place of the body.
Bodies == [val : Contents, ncrc : Byte, level : 0 .. 3]
Images == [ver : {2, 3}, hdr : Headers, hcrc : Byte, fcrc : Byte,
           body : Bodies \cup {Short}]

ASSUME CrcAssumption ==
  /\ HeaderCrc \in [Headers \X Byte -> Byte]
  /\ FileCrc \in [Bodies -> Byte]
  /\ NvramCrc \in [Contents -> Byte]

ASSUME EditAssumption == SetNvram \in [Contents \X Edits -> Contents]

ASSUME ValueAssumption ==
  /\ Given \subseteq Images
  /\ Absent \notin Images
  /\ Short \notin Bodies
  /\ NoSet \notin Edits

VARIABLES disk,     \* the image under each file name
          made,     \* how each file came to be (history)
          pc,       \* what the process does next
          cmd,      \* its arguments
          buf,      \* its buffer
          outcome   \* how the run ended
vars == <<disk, made, pc, cmd, buf, outcome>>

\* op, the files (-i and -o; --ckconf takes its file as operand), the edit or
\* NoSet when the operand has no '=', --no-decode and --no-encode.
Commands == [op : {"cfg", "ckconf"}, in : Files, out : Files,
             set : Edits \cup {NoSet}, nodec : BOOLEAN, noenc : BOOLEAN]

-----------------------------------------------------------------------------
(* The header and the CRCs.                                                *)

HeaderOk(img) == img.ver = 3 /\ img.hcrc = HeaderCrc[<<img.hdr, img.fcrc>>]
BodyOk(img) == img.body # Short /\ img.fcrc = FileCrc[img.body]
CheckOkBodyOnly(img) == BodyOk(img)
CheckOk(img) == HeaderOk(img) /\ BodyOk(img)

\* decode and encode: four encodings of a byte give the byte back.
DecodeUnwrapped(img) == [img EXCEPT !.body.level = @ - 1]
Decode(img) == [img EXCEPT !.body.level = (@ + 3) % 4]
EncodeTwice(img) == [img EXCEPT !.body.level = (@ + 2) % 4]
Encode(img) == [img EXCEPT !.body.level = (@ + 1) % 4]

\* The section's stored CRC is the computed one.  Of an encoded body the
\* code computes a CRC over encoded bytes, taken here never to match.
NvramOk(body) == body.level = 0 /\ body.ncrc = NvramCrc[body.val]

\* What checkfile leaves in a buffer it accepts: it puts the file CRC back in
\* buf[0x1b], and then stores it in buf[7] too.
Checked(img) == [img EXCEPT !.hcrc = img.fcrc]

\* fixfile: the file CRC first, then the header CRC that covers it.
FixHeaderFirst(img) ==
  [img EXCEPT !.ver = 3, !.fcrc = FileCrc[img.body],
              !.hcrc = HeaderCrc[<<img.hdr, img.fcrc>>]]
Fix(img) ==
  LET sum == FileCrc[img.body]
  IN  [img EXCEPT !.ver = 3, !.fcrc = sum, !.hcrc = HeaderCrc[<<img.hdr, sum>>]]

\* nvram_set: the new content, and its CRC unless --no-encode was given.
EditedKeepingContent(img, e, noenc) == [img EXCEPT !.body.ncrc = NvramCrc[img.body.val]]
Edited(img, e, noenc) ==
  LET v == SetNvram[<<img.body.val, e>>]
  IN  [img EXCEPT !.body.val = v, !.body.ncrc = IF noenc THEN @ ELSE NvramCrc[v]]

-----------------------------------------------------------------------------
Init == /\ disk \in [Files -> Given \cup {Absent}]
        /\ made = [f \in Files |-> "given"]
        /\ pc = "idle"
        /\ cmd = [op |-> "none"]
        /\ buf = Absent
        /\ outcome = "none"

\* The process ends: its memory is gone.
Exit(how) == /\ pc' = "idle"
             /\ cmd' = [op |-> "none"]
             /\ buf' = Absent
             /\ outcome' = how

Goto(label) == pc' = label /\ UNCHANGED <<cmd, outcome>>

\* The user runs the tool.
Run(c) == /\ pc = "idle"
          /\ pc' = "read"
          /\ cmd' = c
          /\ outcome' = "none"
          /\ UNCHANGED <<disk, made, buf>>

\* open, fstat, malloc, read: the whole file or die.
ReadFile == /\ pc = "read"
            /\ UNCHANGED <<disk, made>>
            /\ \/ disk[cmd.in] # Absent /\ buf' = disk[cmd.in] /\ Goto("check")
               \/ Exit("ioerror")

\* checkfile.  The byte tmp[3] of the size it computes is never assigned: when
\* it happens not to be 0, the CRC runs over 16 MB or more and the process dies.
CheckFile ==
  /\ pc = "check"
  /\ UNCHANGED <<disk, made>>
  /\ \/ /\ CheckOk(buf)
        /\ buf' = Checked(buf)
        /\ Goto("decode")
     \/ ~CheckOk(buf) /\ Exit("rejected")
     \/ HeaderOk(buf) /\ Exit("crash")

\* decode, unless --no-decode; --ckconf goes on to verify_crc, --cfg to the
\* edit or, without one, to the encoding.
DecodeFile ==
  /\ pc = "decode"
  /\ UNCHANGED <<disk, made>>
  /\ buf' = IF cmd.nodec THEN buf ELSE Decode(buf)
  /\ Goto(IF cmd.op = "ckconf" THEN "verify" ELSE IF cmd.set # NoSet THEN "set" ELSE "encode")

\* opCkConf's last check and its verdict.
Verify == /\ pc = "verify"
          /\ UNCHANGED <<disk, made>>
          /\ Exit(IF NvramOk(buf.body) THEN "good" ELSE "rejected")

\* nvram_set: _nvram_set dies on a CRC mismatch, and crashes when the store
\* has no room or is malformed (NvramLayout).
SetVariable == /\ pc = "set"
               /\ UNCHANGED <<disk, made>>
               /\ \/ /\ NvramOk(buf.body)
                     /\ buf' = Edited(buf, cmd.set, cmd.noenc)
                     /\ Goto("encode")
                  \/ ~NvramOk(buf.body) /\ Exit("rejected")
                  \/ NvramOk(buf.body) /\ Exit("crash")

EncodeFile == /\ pc = "encode"
              /\ UNCHANGED <<disk, made>>
              /\ buf' = IF cmd.noenc THEN buf ELSE Encode(buf)
              /\ Goto("fix")

\* fixfile after an edit that was encoded, "nofix" otherwise.  Its size has the
\* same unassigned byte as checkfile's.
FixFile == /\ pc = "fix"
           /\ UNCHANGED <<disk, made>>
           /\ \/ /\ buf' = IF cmd.set # NoSet /\ ~cmd.noenc THEN Fix(buf) ELSE buf
                 /\ Goto("write")
              \/ cmd.set # NoSet /\ ~cmd.noenc /\ Exit("crash")

\* How the file that the process writes is made.
Kind == IF cmd.noenc THEN "plain" ELSE IF cmd.set = NoSet THEN "dumped" ELSE "edited"

\* open and write.  There is no O_TRUNC: a write that ends in the body leaves
\* the old file's bytes after it, and a file without a body when there was none.
Torn(img, old) == [img EXCEPT !.body = IF old = Absent THEN Short ELSE old.body]

WriteFile ==
  /\ pc = "write"
  /\ \/ /\ disk' = [disk EXCEPT ![cmd.out] = buf]
        /\ made' = [made EXCEPT ![cmd.out] = Kind]
        /\ Exit("written")
     \/ /\ disk' = [disk EXCEPT ![cmd.out] = Torn(buf, @)]
        /\ made' = [made EXCEPT ![cmd.out] = "torn"]
        /\ Exit("ioerror")
     \/ UNCHANGED <<disk, made>> /\ Exit("ioerror")

Step == ReadFile \/ CheckFile \/ DecodeFile \/ Verify \/ SetVariable
        \/ EncodeFile \/ FixFile \/ WriteFile
Next == (\E c \in Commands : Run(c)) \/ Step

Spec == Init /\ [][Next]_vars

-----------------------------------------------------------------------------
\* Type invariant: what is on disk, in the buffer and in the arguments.
TypeOK ==
  /\ disk \in [Files -> Images \cup {Absent}]
  /\ made \in [Files -> {"given", "edited", "dumped", "plain", "torn"}]
  /\ pc \in {"idle", "read", "check", "decode", "verify", "set", "encode", "fix", "write"}
  /\ pc # "idle" => cmd \in Commands
  /\ pc \notin {"idle", "read"} => buf \in Images
  /\ pc \notin {"idle", "read", "check"} => buf.body \in Bodies
  /\ outcome \in {"none", "good", "written", "rejected", "crash", "ioerror"}

\* checkfile passes the file, and decoded it passes verify_crc: what
\* "--ckconf f" answers "All good!" to.
Accepted(img) ==
  /\ HeaderOk(img) /\ BodyOk(img)
  /\ NvramOk(Decode(img).body)

\* The one image that an accepted file with this header and content can be.
Canonical(h, v) ==
  LET body == [val |-> v, ncrc |-> NvramCrc[v], level |-> 1]
      sum  == FileCrc[body]
  IN  [ver |-> 3, hdr |-> h, hcrc |-> HeaderCrc[<<h, sum>>], fcrc |-> sum, body |-> body]

\* Every file that an edit wrote is accepted by --ckconf ("Check diff in crc
\* -> Done and fixed"), however many runs of whatever kind came before.
EditedAccepted == \A f \in Files : made[f] = "edited" => Accepted(disk[f])

\* The round trip of test.sh: two edited files with the same content are equal
\* byte by byte, and equal to an accepted file with that content; the way the
\* content was reached leaves no trace.
EditedEqual ==
  \A f, g \in Files :
    /\ made[f] = "edited" /\ disk[g] # Absent /\ Accepted(disk[g])
    /\ disk[f].hdr = disk[g].hdr /\ disk[f].body.val = disk[g].body.val
    => disk[f] = disk[g]

\* Nothing but a run that passed every check changes a file, and it changes
\* the one it was told to write; a run that rejects its input or crashes
\* leaves the disk as it was.
OnlyCheckedRunsWrite ==
  [][disk' # disk =>
       /\ outcome' \in {"written", "ioerror"}
       /\ HeaderOk(disk[cmd.in]) /\ BodyOk(disk[cmd.in])
       /\ \A f \in Files \ {cmd.out} : disk'[f] = disk[f]]_vars

\* The file that an edit writes holds the edit of its input's content, also
\* when it is written over its input.
EditApplied ==
  [][(outcome' = "written" /\ pc = "write" /\ cmd.set # NoSet) =>
       disk'[cmd.out].body.val = SetNvram[<<disk[cmd.in].body.val, cmd.set>>]]_vars
=============================================================================
