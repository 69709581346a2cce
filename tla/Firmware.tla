------------------------------- MODULE Firmware -------------------------------
(***************************************************************************)
(* The --dump operation: opDump, prepare_output_dir and check_firmware     *)
(* with what it calls in desta.c.  The image is a stream of units: the     *)
(* entries of the module table, and for each module its header and the     *)
(* 16 KB blocks of its data.  A dump appends units to files through the    *)
(* descriptors curDumpFd and curHdrDumpFd.                                 *)
(***************************************************************************)
EXTENDS Integers, Sequences, SequencesExt, FiniteSets

CONSTANTS Images,     \* the images a user may give: sequences of modules
          Types,      \* module types
          Junk        \* the type read through a pointer that is not yet set

\* magic: the module's magic is the one module_magics holds for its type.
\* digest: "good", "good0" (good, and its byte 12 is 0) or "bad".
Modules == [type : Types, magic : BOOLEAN, digest : {"good", "good0", "bad"}, blocks : Nat]

ASSUME FirmwareAssumption ==
  /\ \A img \in Images : img \in Seq(Modules)
  /\ Types \subseteq Nat \ {0}

VARIABLES image,       \* the input
          split,       \* -s was given
          dirExists,   \* the output directory existed before
          pos,         \* the input's position: units read so far
          dir,         \* where the process works: "cwd" or "out"
          pc,          \* the next step of the loop in check_firmware
          i,           \* the loop's module, from 0
          mdl,         \* the header that mdl points to: a module's number, -1 if unset
          err,         \* check_firmware's err
          curDumpFd, curHdrDumpFd, lastcurDumpFd,
          open,        \* the open dump descriptors and their files
          files,       \* the dumped files: name to units
          lost         \* some write failed (history)
vars == <<image, split, dirExists, pos, dir, pc, i, mdl, err, curDumpFd, curHdrDumpFd, lastcurDumpFd,
          open, files, lost>>
args == <<image, split, dirExists>>
fds == <<curDumpFd, curHdrDumpFd, lastcurDumpFd, open>>

Unit(kind, m, b) == [kind |-> kind, mod |-> m, block |-> b]

\* What the device's images hold, in order.
Stream(img) ==
  LET table == [m \in 1 .. Len(img) |-> Unit("table", m - 1, 0)]
      ModuleUnits(m) == <<Unit("hdr", m - 1, 0)>>
                        \o [b \in 1 .. img[m].blocks |-> Unit("data", m - 1, b)]
      From[m \in Nat] == IF m > Len(img) THEN <<>> ELSE ModuleUnits(m) \o From[m + 1]
  IN  table \o From[1]

Module(m) == image[m + 1]
Files == DOMAIN files

-----------------------------------------------------------------------------
(* Descriptors.                                                            *)

\* open and creat return the lowest free descriptor; 3 is the input.
Free(tab) == CHOOSE fd \in 4 .. 7 : fd \notin DOMAIN tab /\ \A g \in 4 .. fd - 1 : g \in DOMAIN tab
Opened(tab, fd, name) == [x \in DOMAIN tab \cup {fd} |-> IF x = fd THEN name ELSE tab[x]]
ClosedNot(tab, fd) == tab
Closed(tab, fd) == [x \in DOMAIN tab \ {fd} |-> tab[x]]

\* currentDumpFd: which descriptor gets the next bytes, and what the static
\* lastcurDumpFd becomes.
CurrentDumpFdStuck(cur, hdr, last) ==
  IF ~split THEN [fd |-> cur, last |-> last]
  ELSE [fd |-> IF cur = 0 \/ cur = last THEN hdr ELSE cur, last |-> last]
CurrentDumpFd(cur, hdr, last) ==
  IF ~split THEN [fd |-> cur, last |-> last]
  ELSE [fd |-> IF cur = 0 \/ cur = last THEN hdr ELSE cur, last |-> cur]

Names == {"cwd", "out"} \X (Types \cup {Junk}) \X {"x.out", "x-out"}

\* write to the current descriptor; its result is ignored, so that the unit may
\* be lost.
DumpOwnHeader(unit) ==
  LET current == CurrentDumpFd(curDumpFd, curHdrDumpFd, lastcurDumpFd)
  IN  /\ lastcurDumpFd' = current.last
      /\ UNCHANGED <<curDumpFd, curHdrDumpFd, open, lost>>
      /\ files' = IF split \/ unit.kind = "data" THEN [files EXCEPT ![open[current.fd]] = Append(@, unit)] ELSE files
Dump(unit) ==
  LET current == CurrentDumpFd(curDumpFd, curHdrDumpFd, lastcurDumpFd)
  IN  /\ lastcurDumpFd' = current.last
      /\ UNCHANGED <<curDumpFd, curHdrDumpFd, open>>
      /\ \/ files' = [files EXCEPT ![open[current.fd]] = Append(@, unit)] /\ UNCHANGED lost
         \/ lost' = TRUE /\ UNCHANGED files

-----------------------------------------------------------------------------
Init == /\ image \in Images
        /\ split \in BOOLEAN
        /\ dirExists \in BOOLEAN
        /\ pos = 0
        /\ dir = "cwd"
        /\ pc = "prepare"
        /\ i = 0
        /\ mdl = -1
        /\ err = 0
        /\ curDumpFd = 0 /\ curHdrDumpFd = 0 /\ lastcurDumpFd = 0
        /\ open = << >>
        /\ files = << >>
        /\ lost = FALSE

Die == pc' = "died" /\ UNCHANGED <<args, pos, dir, i, mdl, err, fds, files, lost>>

\* prepare_output_dir: opendir, mkdir, and chdir only when errno is EEXIST.
\* mkdir of a new directory leaves opendir's ENOENT there.
PrepareOutputDir ==
  /\ pc = "prepare"
  /\ \/ /\ dir' = IF dirExists THEN "out" ELSE dir
        /\ pc' = "header"
        /\ UNCHANGED <<args, pos, i, mdl, err, fds, files, lost>>
     \/ Die

\* The firmware header and exactly two table entries are read; check_fmhdr's
\* digest covers that much, so that it is right for images of two modules.
ReadHeader ==
  /\ pc = "header"
  /\ \/ /\ Len(Stream(image)) >= 2
        /\ pos' = 2
        /\ err' = IF Len(image) = 2 THEN 0 ELSE -1
        /\ pc' = "loop"
        /\ UNCHANGED <<args, dir, i, mdl, fds, files, lost>>
     \/ Die

\* What mdl points to still is the last module, and at first nothing.
NameTypes == IF mdl = -1 THEN Types \cup {Junk} ELSE {Module(mdl).type}

\* The head of the loop: close the last module's files and create this one's.
CreateFiles ==
  /\ pc = "loop" /\ err = 0 /\ i < Len(image)
  /\ \E type \in NameTypes :
       LET closed == Closed(Closed(open, curDumpFd), curHdrDumpFd)
           body == Free(closed)
           one  == Opened(closed, body, <<dir, type, "x.out">>)
           hdr  == Free(one)
           two  == Opened(one, hdr, <<dir, type, "x-out">>)
           reset == CurrentDumpFd(0, 0, lastcurDumpFd).last
           tab  == IF split THEN two ELSE one
           created == {tab[fd] : fd \in {body} \cup (IF split THEN {hdr} ELSE {})}
       IN  /\ curDumpFd' = body
           /\ curHdrDumpFd' = IF split THEN hdr ELSE 0
           /\ lastcurDumpFd' = reset
           /\ open' = tab
           /\ files' = [f \in Files \cup created |-> IF f \in created THEN <<>> ELSE files[f]]
  /\ mdl' = i
  /\ pc' = "mdulhdr"
  /\ UNCHANGED <<args, pos, dir, i, err, lost>>

\* The pointer that is not set may also be a bad address; creat may fail.
CreateFails == pc = "loop" /\ err = 0 /\ i < Len(image) /\ Die

\* check_mdul_hdr reads the module's own header and dumps it.
ReadModuleHeader ==
  /\ pc = "mdulhdr"
  /\ \/ /\ pos < Len(Stream(image))
        /\ pos' = pos + 1
        /\ Dump(Stream(image)[pos + 1])
        /\ pc' = "magic"
        /\ UNCHANGED <<args, dir, i, mdl, err>>
     \/ Die

\* The magic is looked up at module_magics + type - 1 where a type's entry is
\* 8 bytes long: only type 1 finds its own.  From type 9 on none is looked up.
MagicOk(m) == Module(m).type >= 9 \/ (Module(m).type = 1 /\ Module(m).magic)

CheckMagic ==
  /\ pc = "magic"
  /\ IF MagicOk(mdl) THEN pc' = "data" /\ UNCHANGED <<err, i>>
     ELSE err' = 1 /\ i' = i + 1 /\ pc' = "loop"
  /\ UNCHANGED <<args, pos, dir, mdl, fds, files, lost>>

\* mdul_hdr_md5's loop: a block is read and dumped; read errors die.  A digest
\* whose byte 12 is 0 skips the loop.
BlocksLeft == Module(mdl).digest # "good0"
              /\ pos < Len(Stream(image)) /\ Stream(image)[pos + 1].mod = mdl

DumpBlock ==
  /\ pc = "data" /\ BlocksLeft
  /\ \/ /\ pos' = pos + 1
        /\ Dump(Stream(image)[pos + 1])
        /\ UNCHANGED <<args, dir, pc, i, mdl, err>>
     \/ Die

\* The digest of what was read is compared; a mismatch dies.
DigestOkAlways(m) == TRUE
DigestOk(m) == Module(m).digest = "good"

CheckDigest ==
  /\ pc = "data" /\ ~BlocksLeft
  /\ IF DigestOk(mdl)
     THEN /\ i' = i + 1
          /\ pc' = "loop"
          /\ UNCHANGED <<args, pos, dir, mdl, err, fds, files, lost>>
     ELSE Die

\* check_firmware returns err, and so does the program.
Return ==
  /\ pc = "loop" /\ (err # 0 \/ i = Len(image))
  /\ pc' = "returned"
  /\ UNCHANGED <<args, pos, dir, i, mdl, err, fds, files, lost>>

Next == \/ PrepareOutputDir \/ ReadHeader \/ CreateFiles \/ CreateFails
        \/ ReadModuleHeader \/ CheckMagic \/ DumpBlock \/ CheckDigest \/ Return

Spec == Init /\ [][Next]_vars

-----------------------------------------------------------------------------
Succeeded == pc = "returned" /\ err = 0

\* A dump that reports success has read the whole image and found the digest of
\* every module right, whatever ended the loop.
SuccessMeansVerified ==
  Succeeded => /\ pos = Len(Stream(image))
               /\ \A m \in 0 .. Len(image) - 1 : Module(m).digest # "bad"

\* The two descriptors that the loop keeps, with the static that chooses among
\* them, never mix: a file holds units of one module, in the order of the
\* image, and with -s a header and data are never in one file.
FilesNotMixed ==
  \A f \in Files :
    \A a, b \in 1 .. Len(files[f]) :
      /\ files[f][a].mod = files[f][b].mod
      /\ a < b => files[f][a].block < files[f][b].block
      /\ split => files[f][a].kind = files[f][b].kind

\* Every descriptor that the loop opens is one it still knows, so that the next
\* round closes it: a dump of any number of modules needs two.
NoDescriptorLeak == DOMAIN open \subseteq {curDumpFd, curHdrDumpFd}

\* The loop's descriptors and the files behind them are each round's own.
Consistent == FilesNotMixed /\ NoDescriptorLeak

\* A dump that reports success, and in which no write failed, has the last module
\* whole in its files; the others too, unless a later one got the same name.
Kept(m) == \A u \in ToSet(Stream(image)) : u.mod = m /\ u.kind # "table" => \E f \in Files : u \in ToSet(files[f])
NamesDiffer == Cardinality(Files) = Len(image) * (IF split THEN 2 ELSE 1)
DumpKept ==
  Succeeded /\ ~lost => \A m \in 0 .. Len(image) - 1 : m = Len(image) - 1 \/ NamesDiffer => Kept(m)
=============================================================================
