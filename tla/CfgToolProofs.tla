---------------------------- MODULE CfgToolProofs ----------------------------
(***************************************************************************)
(* What --cfg and --ckconf promise, proved for every set of files, every   *)
(* content, every three CRC functions and every history of runs.           *)
(***************************************************************************)
EXTENDS CfgTool, TLAPS

\* The run in progress is an edit whose output is encoded and fixed.
Editing == cmd.set # NoSet /\ ~cmd.noenc

\* The input is still what checkfile saw and accepted.
SourceOk ==
  pc \in {"decode", "verify", "set", "encode", "fix", "write"} =>
    /\ disk[cmd.in] \in Images
    /\ HeaderOk(disk[cmd.in]) /\ BodyOk(disk[cmd.in])

\* The content in the buffer: the input's until the edit, then the edit of it.
InBuffer ==
  /\ pc = "check" => buf = disk[cmd.in]
  /\ pc \in {"decode", "verify", "set"} => buf.body.val = disk[cmd.in].body.val
  /\ pc = "set" => cmd.set # NoSet
  /\ pc \in {"encode", "fix", "write"} /\ cmd.set # NoSet =>
       buf.body.val = SetNvram[<<disk[cmd.in].body.val, cmd.set>>]

\* An edit brings its buffer, step by step, to the canonical image.
Progress ==
  /\ pc = "encode" /\ Editing => buf.body.level = 0 /\ buf.body.ncrc = NvramCrc[buf.body.val]
  /\ pc = "fix" /\ Editing => buf.body.level = 1 /\ buf.body.ncrc = NvramCrc[buf.body.val]
  /\ pc = "write" /\ Editing => buf = Canonical(buf.hdr, buf.body.val)

EditedCanonical ==
  \A f \in Files : made[f] = "edited" =>
    /\ disk[f] \in Images /\ disk[f].body \in Bodies
    /\ disk[f] = Canonical(disk[f].hdr, disk[f].body.val)

IInv == TypeOK /\ SourceOk /\ InBuffer /\ Progress /\ EditedCanonical

-----------------------------------------------------------------------------
(* The operators on images.                                                *)

LEMMA ImageParts ==
  ASSUME NEW img \in Images
  PROVE  /\ img.ver \in {2, 3} /\ img.hdr \in Headers
         /\ img.hcrc \in Byte /\ img.fcrc \in Byte
         /\ img.body \in Bodies \cup {Short}
         /\ img = [ver |-> img.ver, hdr |-> img.hdr, hcrc |-> img.hcrc,
                   fcrc |-> img.fcrc, body |-> img.body]
  BY DEF Images

LEMMA CheckedType ==
  ASSUME NEW img \in Images PROVE Checked(img) \in Images /\ Checked(img).body = img.body
  BY DEF Images, Checked

LEMMA DecodeType ==
  ASSUME NEW img \in Images, img.body \in Bodies
  PROVE  /\ Decode(img) \in Images /\ Decode(img).body \in Bodies
         /\ Decode(img).body.val = img.body.val /\ Decode(img).body.ncrc = img.body.ncrc
         /\ Decode(img).body.level = (img.body.level + 3) % 4
  BY DEF Images, Bodies, Decode

LEMMA EncodeType ==
  ASSUME NEW img \in Images, img.body \in Bodies
  PROVE  /\ Encode(img) \in Images /\ Encode(img).body \in Bodies
         /\ Encode(img).body.val = img.body.val /\ Encode(img).body.ncrc = img.body.ncrc
         /\ Encode(img).body.level = (img.body.level + 1) % 4
  BY DEF Images, Bodies, Encode

LEMMA EditedType ==
  ASSUME NEW img \in Images, img.body \in Bodies, NEW e \in Edits, NEW noenc \in BOOLEAN
  PROVE  /\ Edited(img, e, noenc) \in Images /\ Edited(img, e, noenc).body \in Bodies
         /\ Edited(img, e, noenc).body.val = SetNvram[<<img.body.val, e>>]
         /\ Edited(img, e, noenc).body.level = img.body.level
         /\ ~noenc => Edited(img, e, noenc).body.ncrc = NvramCrc[SetNvram[<<img.body.val, e>>]]
  BY CrcAssumption, EditAssumption DEF Images, Bodies, Edited

LEMMA FixType ==
  ASSUME NEW img \in Images, img.body \in Bodies
  PROVE  Fix(img) \in Images /\ Fix(img).body = img.body /\ Fix(img).hdr = img.hdr
  BY CrcAssumption DEF Images, Fix
\* What fixfile makes of an encoded edit is the canonical image.
LEMMA FixCanonical ==
  ASSUME NEW img \in Images, img.body \in Bodies,
         img.body.level = 1, img.body.ncrc = NvramCrc[img.body.val]
  PROVE  Fix(img) = Canonical(Fix(img).hdr, Fix(img).body.val)
<1>1. img.body = [val |-> img.body.val, ncrc |-> NvramCrc[img.body.val], level |-> 1]
  BY DEF Bodies
<1>2. /\ Fix(img) \in Images /\ Fix(img).body = img.body /\ Fix(img).hdr = img.hdr
      /\ Fix(img).ver = 3 /\ Fix(img).fcrc = FileCrc[img.body]
      /\ Fix(img).hcrc = HeaderCrc[<<img.hdr, FileCrc[img.body]>>]
  BY FixType DEF Images, Fix
<1>3. PICK fixed \in Images : fixed = Fix(img)
  BY <1>2
<1> QED
  BY <1>1, <1>2, <1>3, ImageParts DEF Canonical

\* An accepted image is determined by its header and its content.
LEMMA AcceptedCanonical ==
  ASSUME NEW img \in Images, Accepted(img)
  PROVE  img = Canonical(img.hdr, img.body.val)
<1>1. img.body \in Bodies
  BY DEF Accepted, BodyOk, Images
<1>2. (img.body.level + 3) % 4 = 0 /\ img.body.ncrc = NvramCrc[img.body.val]
  BY <1>1, DecodeType DEF Accepted, NvramOk
<1>3. img.body.level = 1
  BY <1>1, <1>2 DEF Bodies
<1>4. img.body = [val |-> img.body.val, ncrc |-> NvramCrc[img.body.val], level |-> 1]
  BY <1>1, <1>2, <1>3 DEF Bodies
<1> QED
  BY <1>4, ImageParts DEF Accepted, HeaderOk, BodyOk, Canonical

\* --ckconf accepts every canonical image.
LEMMA CanonicalAccepted ==
  ASSUME NEW img \in Images, img.body \in Bodies, img = Canonical(img.hdr, img.body.val)
  PROVE  Accepted(img)
<1>1. /\ img.ver = 3
      /\ img.body = [val |-> img.body.val, ncrc |-> NvramCrc[img.body.val], level |-> 1]
      /\ img.fcrc = FileCrc[img.body]
      /\ img.hcrc = HeaderCrc[<<img.hdr, img.fcrc>>]
  BY DEF Canonical
<1>2. Decode(img).body.level = 0 /\ Decode(img).body.ncrc = NvramCrc[Decode(img).body.val]
  BY <1>1, DecodeType
<1>3. img.body # Short
  BY ValueAssumption
<1> QED
  BY <1>1, <1>2, <1>3 DEF Accepted, HeaderOk, BodyOk, NvramOk
-----------------------------------------------------------------------------
(* The invariant is inductive.                                             *)

LEMMA InvInit == Init => IInv
  BY ValueAssumption DEF Init, IInv, TypeOK, SourceOk, InBuffer, Progress, EditedCanonical

\* A process that ends without having written leaves nothing to prove.
LEMMA InvExit ==
  ASSUME IInv, UNCHANGED <<disk, made>>,
         NEW how \in {"good", "rejected", "crash", "ioerror"}, Exit(how)
  PROVE  IInv'
  BY DEF IInv, TypeOK, SourceOk, InBuffer, Progress, EditedCanonical, Exit

LEMMA InvRun == ASSUME IInv, NEW c \in Commands, Run(c) PROVE IInv'
  BY DEF IInv, TypeOK, SourceOk, InBuffer, Progress, EditedCanonical, Run

LEMMA InvReadFile == ASSUME IInv, ReadFile PROVE IInv'
<1>1. CASE Exit("ioerror")
  BY <1>1, InvExit DEF ReadFile
<1>2. CASE disk[cmd.in] # Absent /\ buf' = disk[cmd.in] /\ Goto("check")
  <2>1. cmd \in Commands /\ cmd.in \in Files
    BY DEF IInv, TypeOK, ReadFile, Commands
  <2>2. disk[cmd.in] \in Images
    BY <1>2, <2>1 DEF IInv, TypeOK
  <2> QED
    BY <1>2, <2>1, <2>2
    DEF IInv, TypeOK, SourceOk, InBuffer, Progress, EditedCanonical, ReadFile, Goto
<1> QED
  BY <1>1, <1>2 DEF ReadFile

LEMMA InvCheckFile == ASSUME IInv, CheckFile PROVE IInv'
<1>1. CASE Exit("rejected") \/ Exit("crash")
  BY <1>1, InvExit DEF CheckFile
<1>2. CASE CheckOk(buf) /\ buf' = Checked(buf) /\ Goto("decode")
  <2>1. buf \in Images /\ buf.body \in Bodies /\ buf = disk[cmd.in]
    BY <1>2 DEF IInv, TypeOK, InBuffer, CheckFile, CheckOk, BodyOk, Images
  <2>2. buf' \in Images /\ buf'.body = buf.body
    BY <1>2, <2>1, CheckedType
  <2> QED
    BY <1>2, <2>1, <2>2
    DEF IInv, TypeOK, SourceOk, InBuffer, Progress, EditedCanonical, CheckFile, CheckOk, Goto
<1> QED
  BY <1>1, <1>2 DEF CheckFile

LEMMA InvDecodeFile == ASSUME IInv, DecodeFile PROVE IInv'
<1>1. buf \in Images /\ buf.body \in Bodies /\ cmd \in Commands
  BY DEF IInv, TypeOK, DecodeFile
<1>2. buf' \in Images /\ buf'.body \in Bodies /\ buf'.body.val = buf.body.val
  BY <1>1, DecodeType DEF DecodeFile
<1>3. /\ pc' \in {"verify", "set", "encode"}
      /\ pc' = "set" => cmd.set # NoSet
      /\ pc' = "encode" => cmd.set = NoSet
      /\ pc = "decode" /\ UNCHANGED <<disk, made, cmd, outcome>>
  BY <1>1 DEF DecodeFile, Goto, Commands
<1>4. TypeOK'
  BY <1>1, <1>2, <1>3 DEF IInv, TypeOK
<1>5. SourceOk' /\ InBuffer'
  BY <1>2, <1>3 DEF IInv, SourceOk, InBuffer
<1>6. Progress' /\ EditedCanonical'
  BY <1>3 DEF IInv, Progress, EditedCanonical, Editing
<1> QED
  BY <1>4, <1>5, <1>6 DEF IInv

LEMMA InvVerify == ASSUME IInv, Verify PROVE IInv'
  BY InvExit DEF Verify

LEMMA InvSetVariable == ASSUME IInv, SetVariable PROVE IInv'
<1>1. CASE Exit("rejected") \/ Exit("crash")
  BY <1>1, InvExit DEF SetVariable
<1>2. CASE NvramOk(buf.body) /\ buf' = Edited(buf, cmd.set, cmd.noenc) /\ Goto("encode")
  <2>1. /\ buf \in Images /\ buf.body \in Bodies
        /\ cmd \in Commands /\ cmd.set \in Edits /\ cmd.noenc \in BOOLEAN
    BY DEF IInv, TypeOK, InBuffer, SetVariable, Commands
  <2>2. /\ buf' \in Images /\ buf'.body \in Bodies
        /\ buf'.body.val = SetNvram[<<buf.body.val, cmd.set>>]
        /\ buf'.body.level = 0
        /\ ~cmd.noenc => buf'.body.ncrc = NvramCrc[buf'.body.val]
    BY <1>2, <2>1, EditedType DEF NvramOk
  <2> QED
    BY <1>2, <2>1, <2>2
    DEF IInv, TypeOK, SourceOk, InBuffer, Progress, EditedCanonical, SetVariable, Goto, Editing
<1> QED
  BY <1>1, <1>2 DEF SetVariable

LEMMA InvEncodeFile == ASSUME IInv, EncodeFile PROVE IInv'
<1>1. buf \in Images /\ buf.body \in Bodies /\ cmd \in Commands
  BY DEF IInv, TypeOK, EncodeFile
<1>2. /\ buf' \in Images /\ buf'.body \in Bodies
      /\ buf'.body.val = buf.body.val /\ buf'.body.ncrc = buf.body.ncrc
      /\ ~cmd.noenc => buf'.body.level = (buf.body.level + 1) % 4
  BY <1>1, EncodeType DEF EncodeFile
<1>3. pc = "encode" /\ Editing => buf'.body.level = 1
  BY <1>2 DEF IInv, Progress, Editing
<1> QED
  BY <1>1, <1>2, <1>3
  DEF IInv, TypeOK, SourceOk, InBuffer, Progress, EditedCanonical, EncodeFile, Goto, Editing

LEMMA InvFixFile == ASSUME IInv, FixFile PROVE IInv'
<1>1. CASE Exit("crash")
  BY <1>1, InvExit DEF FixFile
<1>2. CASE /\ buf' = IF cmd.set # NoSet /\ ~cmd.noenc THEN Fix(buf) ELSE buf
           /\ Goto("write")
  <2>1. buf \in Images /\ buf.body \in Bodies /\ cmd \in Commands
    BY DEF IInv, TypeOK, FixFile
  <2>2. buf' \in Images /\ buf'.body = buf.body
    BY <1>2, <2>1, FixType
  <2>3. Editing => buf' = Canonical(buf'.hdr, buf'.body.val)
    BY <1>2, <2>1, FixCanonical DEF IInv, Progress, FixFile, Editing
  <2> QED
    BY <1>2, <2>1, <2>2, <2>3
    DEF IInv, TypeOK, SourceOk, InBuffer, Progress, EditedCanonical, FixFile, Goto, Editing
<1> QED
  BY <1>1, <1>2 DEF FixFile

LEMMA TornType ==
  ASSUME NEW img \in Images, NEW old \in Images \cup {Absent}
  PROVE  Torn(img, old) \in Images
<1>1. (IF old = Absent THEN Short ELSE old.body) \in Bodies \cup {Short}
  BY DEF Images
<1> QED
  BY <1>1 DEF Torn, Images

LEMMA InvWriteFile == ASSUME IInv, WriteFile PROVE IInv'
<1> DEFINE Put(img, kind) == /\ disk' = [disk EXCEPT ![cmd.out] = img]
                             /\ made' = [made EXCEPT ![cmd.out] = kind]
<1>1. /\ buf \in Images /\ buf.body \in Bodies
      /\ cmd \in Commands /\ cmd.out \in Files /\ pc = "write"
  BY DEF IInv, TypeOK, WriteFile, Commands
<1>2. ASSUME NEW img \in Images, Put(img, "torn") \/ Put(img, Kind), 
             NEW how \in {"written", "ioerror"}, Exit(how),
             made'[cmd.out] = "edited" =>
               img.body \in Bodies /\ img = Canonical(img.hdr, img.body.val)
      PROVE  IInv'
  <2>1. disk' \in [Files -> Images \cup {Absent}]
        /\ made' \in [Files -> {"given", "edited", "dumped", "plain", "torn"}]
    BY <1>1, <1>2 DEF IInv, TypeOK, Kind
  <2>2. TypeOK'
    BY <1>2, <2>1 DEF TypeOK, Exit
  <2>3. SourceOk' /\ InBuffer' /\ Progress'
    BY <1>2 DEF SourceOk, InBuffer, Progress, Exit
  <2>4. EditedCanonical'
    BY <1>1, <1>2 DEF IInv, TypeOK, EditedCanonical
  <2> QED
    BY <2>2, <2>3, <2>4 DEF IInv
<1>3. CASE Put(buf, Kind) /\ Exit("written")
  <2>1. Kind = "edited" => Editing
    BY DEF Kind, Editing
  <2>2. made'[cmd.out] = "edited" => buf = Canonical(buf.hdr, buf.body.val)
    BY <1>1, <1>3, <2>1 DEF IInv, TypeOK, Progress
  <2> QED
    BY <1>1, <1>2, <1>3, <2>2
<1>4. CASE Put(Torn(buf, disk[cmd.out]), "torn") /\ Exit("ioerror")
  <2>1. Torn(buf, disk[cmd.out]) \in Images
    BY <1>1, TornType DEF IInv, TypeOK
  <2>2. made'[cmd.out] = "torn"
    BY <1>1, <1>4 DEF IInv, TypeOK
  <2> QED
    BY <1>2, <1>4, <2>1, <2>2
<1>5. CASE UNCHANGED <<disk, made>> /\ Exit("ioerror")
  BY <1>5, InvExit
<1> QED
  BY <1>3, <1>4, <1>5 DEF WriteFile

LEMMA InvNext == ASSUME IInv, [Next]_vars PROVE IInv'
<1>1. CASE UNCHANGED vars
  BY <1>1 DEF vars, IInv, TypeOK, SourceOk, InBuffer, Progress, EditedCanonical, Editing
<1> QED
  BY <1>1, InvRun, InvReadFile, InvCheckFile, InvDecodeFile, InvVerify, InvSetVariable,
     InvEncodeFile, InvFixFile, InvWriteFile
  DEF Next, Step

THEOREM Invariance == Spec => []IInv
  BY InvInit, InvNext, PTL DEF Spec
-----------------------------------------------------------------------------
(* The properties.                                                         *)

\* The process stays within its states and the disk holds images, for every
\* choice of the constants.
THEOREM TypeCorrect == Spec => []TypeOK
  BY Invariance, PTL DEF IInv

\* A file that an edit wrote is accepted by --ckconf: checkfile and verify_crc
\* pass on it, whatever runs came before and whatever the CRC functions are.
THEOREM EditedFilesAccepted == Spec => []EditedAccepted
<1>1. IInv => EditedAccepted
  BY CanonicalAccepted DEF IInv, EditedCanonical, EditedAccepted
<1> QED
  BY <1>1, Invariance, PTL

\* Two edited files, or an edited file and an accepted one, with the same
\* header and the same content are the same bytes (the diff of test.sh).
THEOREM EditedFilesEqual == Spec => []EditedEqual
<1>1. IInv => EditedEqual
  <2> SUFFICES ASSUME IInv, NEW f \in Files, NEW g \in Files, made[f] = "edited",
                      disk[g] # Absent, Accepted(disk[g]),
                      disk[f].hdr = disk[g].hdr, disk[f].body.val = disk[g].body.val
               PROVE  disk[f] = disk[g]
    BY DEF EditedEqual
  <2>1. disk[f] = Canonical(disk[f].hdr, disk[f].body.val)
    BY DEF IInv, EditedCanonical
  <2>2. disk[g] = Canonical(disk[g].hdr, disk[g].body.val)
    BY AcceptedCanonical DEF IInv, TypeOK
  <2> QED
    BY <2>1, <2>2
<1> QED
  BY <1>1, Invariance, PTL

\* A step that changes the disk belongs to a run whose input passed checkfile,
\* and changes its output file only.
THEOREM CheckedRunsWrite == Spec => OnlyCheckedRunsWrite
<1> DEFINE Allowed == disk' # disk =>
       /\ outcome' \in {"written", "ioerror"}
       /\ HeaderOk(disk[cmd.in]) /\ BodyOk(disk[cmd.in])
       /\ \A f \in Files \ {cmd.out} : disk'[f] = disk[f]
<1>1. IInv /\ [Next]_vars => [Allowed]_vars
  <2> SUFFICES ASSUME IInv, Next, disk' # disk PROVE Allowed
    BY DEF vars
  <2>1. WriteFile
    BY DEF Next, Step, Run, ReadFile, CheckFile, DecodeFile, Verify, SetVariable,
           EncodeFile, FixFile
  <2> QED
    BY <2>1 DEF WriteFile, Exit, IInv, SourceOk, TypeOK
<1> QED
  BY <1>1, Invariance, PTL DEF Spec, OnlyCheckedRunsWrite

\* The content that an edit writes is the edit of the content that its input
\* holds at that moment, also when the output is the input.
THEOREM EditIsApplied == Spec => EditApplied
<1> DEFINE Applied == (outcome' = "written" /\ pc = "write" /\ cmd.set # NoSet) =>
       disk'[cmd.out].body.val = SetNvram[<<disk[cmd.in].body.val, cmd.set>>]
<1>1. IInv /\ [Next]_vars => [Applied]_vars
  <2> SUFFICES ASSUME IInv, Next, outcome' = "written", pc = "write", cmd.set # NoSet
               PROVE  disk'[cmd.out].body.val = SetNvram[<<disk[cmd.in].body.val, cmd.set>>]
    BY DEF vars
  <2>1. WriteFile
    BY DEF Next, Step, Run, ReadFile, CheckFile, DecodeFile, Verify, SetVariable,
           EncodeFile, FixFile
  <2>2. disk' = [disk EXCEPT ![cmd.out] = buf]
    BY <2>1 DEF WriteFile, Exit
  <2>3. cmd.out \in Files /\ disk \in [Files -> Images \cup {Absent}]
    BY DEF IInv, TypeOK, Commands
  <2>4. disk'[cmd.out] = buf
    BY <2>2, <2>3
  <2> QED
    BY <2>4 DEF IInv, InBuffer
<1> QED
  BY <1>1, Invariance, PTL DEF Spec, EditApplied
=============================================================================
