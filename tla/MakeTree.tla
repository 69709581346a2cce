-------------------------------- MODULE MakeTree --------------------------------
(***************************************************************************)
(* mksquashfs from the source scan to the finished tables.  The reader     *)
(* thread reads the files in the order the scan left; main walks the       *)
(* directories, or the sorted list, and takes from the queue what it       *)
(* believes to be the blocks of the file it is at, lays out the inodes and *)
(* the directories, and writes the tables.  A file may change its size     *)
(* while it is read.  An append starts from what an earlier run wrote, and *)
(* a second interrupt puts that back.                                      *)
(*                                                                         *)
(* Between the two threads stands a queue that keeps the order (Pipeline   *)
(* is about the threads it abstracts), and what is stored of a block is    *)
(* where it came from (Fragments and DuplicateSearch are about its place). *)
(***************************************************************************)
EXTENDS SourceScan, ReadBack

CONSTANTS Scenarios,       \* the sequences of commands considered
          BlockSize,       \* block_size
          ReaderBuffers,   \* buffers in reader_buffer
          CountLimit,      \* 2^8, the width of no_uids and no_guids
          Sizes,           \* sizes a file may change to
          MaxChanges       \* bound: changes of size

VARIABLES cmds,            \* the commands still to run
          phase,           \* of main: "idle", "start", "sort", "scan" or "finish"
          old,             \* what read_filesystem loaded for an append
          image,           \* the file system in the destination
          promise,         \* what image should hold: a set of <<path, node>>
          root,            \* dir_info of the root, with its inode and its command
          inodes,          \* inode_info
          order,           \* priority_list, or the order of the directories
          rd,              \* the reader
          queue,           \* buffers on their way to main
          place,           \* main's place in order, while it writes sorted files
          file,            \* the file main writes and its blocks so far
          stack,           \* main's calls of dir_scan2
          meta,            \* the tables so far
          saved,           \* the state to go back to
          size, changes    \* the files' sizes, and how often they changed

scanVars == <<cmds, phase, old, image, promise, root, order, saved>>
mainVars == <<place, file, stack, meta>>
vars == <<cmds, phase, old, image, promise, root, order, saved, place, file, stack, meta, inodes, rd, queue, size, changes>>

NoImage == [inodes |-> 0]
NoOld == [files |-> 0]
NoBuffer == [error |-> -1]
NoFile == [i |-> 0]
NoContent == [node |-> NoNode]
NoReader == [state |-> "gone", k |-> 0, read_size |-> 0, count |-> 0, hand |-> NoBuffer]

Files == {n \in DOMAIN Nodes : Nodes[n].type = "file"}
Blocks(bytes) == (bytes + BlockSize - 1) \div BlockSize

Init ==
  /\ cmds \in Scenarios
  /\ phase = "idle" /\ old = NoOld
  /\ image = NoImage /\ promise = {}
  /\ root = [dir |-> EmptyDir] /\ inodes = <<>> /\ order = <<>>
  /\ rd = NoReader /\ queue = <<>>
  /\ place = 0 /\ file = NoFile /\ stack = <<>> /\ meta = [count |-> 0] /\ saved = [count |-> 0]
  /\ size = [n \in Files |-> Nodes[n].size] /\ changes = 0

-----------------------------------------------------------------------------
(* main up to dir_scan *)

EmptyMeta(noI) == [inodes |-> EmptyTable(noI), directories |-> EmptyTable(noI),
                   uids |-> <<>>, guids |-> <<>>, count |-> 0, last |-> Invalid]

\* The options are read, and for an append the old file system is loaded.
ReadOld ==
  /\ phase = "idle" /\ cmds # <<>>
  /\ phase' = "start"
  /\ old' = IF Head(cmds).append THEN ReadFilesystem(image) ELSE NoOld
  /\ UNCHANGED <<cmds, image, promise, root, order, saved, mainVars, inodes, rd, queue, size, changes>>

\* The state saved for a restore: the tables up to and with the root.
SavedInodesLessRoot ==
  [blocks |-> BlocksBefore(image.inode_table, image.root_inode[1]), bytes |-> image.root_inode[1],
   cache |-> SubSeq(old.data_cache, 1, image.root_inode[2]), noI |-> image.noI]
SavedInodes ==
  [blocks |-> BlocksBefore(image.inode_table, image.root_inode[1]), bytes |-> image.root_inode[1],
   cache |-> old.data_cache, noI |-> image.noI]

\* The directory table up to the block stored at a position, with cells waiting.
DirectoriesTo(start, cells) ==
  [blocks |-> BlocksBefore(image.directory_table, start), bytes |-> start, cache |-> cells, noI |-> image.noI]

SavedState ==
  LET end == old.root.offset + old.root.size - 3
      compressed_data == end - (end % MetadataSize)
  IN  [inodes |-> SavedInodes,
       directories |-> DirectoriesTo(old.last_directory_block, SubSeq(old.directory_data_cache, compressed_data + 1, end)),
       uids |-> old.uids, guids |-> old.guids, count |-> image.inodes, last |-> image.root_inode]

\* The state an append starts from: the old root is dropped, or stays as an entry of
\* the new one.
AppendState(s, becomes) ==
  IF becomes THEN [s EXCEPT !.count = old.files + 1]
  ELSE [s EXCEPT !.count = old.files,
                 !.inodes.cache = SubSeq(@, 1, image.root_inode[2]),
                 !.directories = DirectoriesTo(old.root.start, SubSeq(old.directory_data_cache, 1, old.root.offset))]

\* What the append's root begins with.
OldRootEntries(cmd) ==
  IF ~cmd.append THEN <<>>
  ELSE IF cmd.root_name = NoRoot THEN old.old_root_entries
  ELSE <<[name |-> cmd.root_name, inode |-> image.root_inode, number |-> old.root.number, type |-> "dir"]>>

\* The number of the root, 0 for the next one, and the first number for directories.
RootNumber(cmd) ==
  IF ~cmd.append THEN 0 ELSE IF cmd.root_name = NoRoot THEN old.root.number ELSE old.root.parent
FirstNumber(cmd) ==
  IF ~cmd.append THEN 1 ELSE image.inodes + (IF cmd.root_name = NoRoot THEN 1 ELSE 2)

\* A run that ends before it writes: an ambiguous line of a sort file, or an old file
\* system read_filesystem refuses.  A new destination is left empty (sort.c's exit does
\* not unlink it) or is unlinked: there is no image either way.
Refused(cmd) == ReadSortFiles(cmd).fatal \/ (cmd.append /\ old.files = 0)

Refuse ==
  /\ phase = "start" /\ Refused(Head(cmds))
  /\ phase' = "idle" /\ old' = NoOld
  /\ cmds' = Tail(cmds)
  /\ image' = IF Head(cmds).append THEN image ELSE NoImage
  /\ promise' = IF Head(cmds).append THEN promise ELSE {}
  /\ UNCHANGED <<root, order, saved, mainVars, inodes, rd, queue, size, changes>>

\* main saves the state of the old file system, and dir_scan up to its queue_put to
\* the reader.
Begin(cmd, scan) ==
  /\ root' = [dir |-> scan.dir, i |-> scan.i, cmd |-> cmd,
              dir_inode_no |-> scan.s.dir_inode_no, inode_no |-> scan.s.inode_no]
  /\ inodes' = [i \in DOMAIN scan.s.inodes |->       \* lstat sees the size of now
                  LET n == scan.s.inodes[i].node
                  IN  [scan.s.inodes[i] EXCEPT !.size = IF n \in Files THEN size[n] ELSE 0]]
  /\ order' = ReadOrder(cmd, scan)
  /\ phase' = IF cmd.sorts = <<>> THEN "scan" ELSE "sort"
  /\ place' = 1
  /\ stack' = <<[dir |-> scan.dir, i |-> scan.i, cur |-> 1, buf |-> NewDirectory]>>
  /\ saved' = IF cmd.append THEN SavedState ELSE [count |-> 0]
  /\ meta' = IF cmd.append THEN AppendState(saved', cmd.root_name # NoRoot) ELSE EmptyMeta(cmd.noI)
  /\ rd' = [NoReader EXCEPT !.state = "next", !.k = 1]

Start ==
  /\ phase = "start" /\ ~Refused(Head(cmds))
  /\ LET cmd == Head(cmds)
     IN  Begin(cmd, ScanSources(cmd, OldRootEntries(cmd), RootNumber(cmd), FirstNumber(cmd)))
  /\ UNCHANGED <<cmds, old, image, promise, file, queue, size, changes>>

-----------------------------------------------------------------------------
(* the reader *)

Reading == order[rd.k]
ReadNode == inodes[Reading].node
Room == Len(queue) < ReaderBuffers
Least(a, b) == IF a < b THEN a ELSE b
Buffer(error) == [of |-> ReadNode, block |-> rd.count, size |-> 0, file_size |-> rd.read_size, error |-> error]

\* A file that was read under another name.
AlreadyReadNever == FALSE
AlreadyRead == inodes[Reading].read

\* reader_read_file begins a file.
ReaderNext ==
  /\ rd.state = "next" /\ rd.k <= Len(order)
  /\ IF AlreadyRead THEN rd' = [rd EXCEPT !.k = @ + 1] /\ UNCHANGED inodes
     ELSE /\ inodes' = [inodes EXCEPT ![Reading].read = TRUE]
          /\ rd' = [rd EXCEPT !.state = "open", !.read_size = inodes[Reading].size, !.count = 0, !.hand = NoBuffer]
  /\ UNCHANGED <<scanVars, mainVars, queue, size, changes>>

\* "again": a file that does not open is one error buffer.
ReaderOpen ==
  /\ rd.state = "open" /\ Room
  /\ IF Nodes[ReadNode].opens THEN rd' = [rd EXCEPT !.state = "read"] /\ UNCHANGED queue
     ELSE /\ rd' = [rd EXCEPT !.state = "next", !.k = @ + 1]
          /\ queue' = Append(queue, Buffer(1))
  /\ UNCHANGED <<scanVars, mainVars, inodes, size, changes>>

\* A read that gave what the size promised.
AsExpectedOrLess(byte, expected) == byte <= expected
AsExpected(byte, expected) == byte = expected

\* A turn of the loop: a whole block that is not the last goes on its way.
ReaderRead ==
  /\ rd.state = "read" /\ Room
  /\ LET left == size[ReadNode] - rd.count * BlockSize
         byte == Least(BlockSize, IF left < 0 THEN 0 ELSE left)
         expected == Least(BlockSize, rd.read_size - rd.count * BlockSize)
         buffer == [Buffer(0) EXCEPT !.size = byte]
     IN  IF AsExpected(byte, expected) /\ rd.count + 1 < Blocks(rd.read_size)
         THEN /\ rd' = [rd EXCEPT !.count = @ + 1]
              /\ queue' = Append(queue, buffer)
         ELSE /\ rd' = [rd EXCEPT !.hand = buffer, !.state = IF AsExpected(byte, expected) THEN "last" ELSE "restat"]
              /\ UNCHANGED queue
  /\ UNCHANGED <<scanVars, mainVars, inodes, size, changes>>

\* After the last block: one more byte tells a file that grew by whole blocks.
ReaderLast ==
  /\ rd.state = "last"
  /\ IF rd.hand.size = BlockSize /\ size[ReadNode] > rd.read_size
     THEN rd' = [rd EXCEPT !.state = "restat"] /\ UNCHANGED queue
     ELSE /\ queue' = Append(queue, rd.hand)
          /\ rd' = [rd EXCEPT !.state = "next", !.k = @ + 1, !.hand = NoBuffer]
  /\ UNCHANGED <<scanVars, mainVars, inodes, size, changes>>

\* A file is read from its start, to be of the size it has now.
FromStart == [rd EXCEPT !.state = "open", !.read_size = size[ReadNode], !.hand = NoBuffer, !.count = 0]

\* restat: a file of another size is read again, one of the same size is given up.
ReaderRestat ==
  /\ rd.state = "restat"
  /\ IF size[ReadNode] # rd.read_size
     THEN /\ inodes' = [inodes EXCEPT ![Reading].size = size[ReadNode]]
          /\ queue' = Append(queue, [rd.hand EXCEPT !.error = 2])
          /\ rd' = FromStart
     ELSE /\ queue' = Append(queue, [rd.hand EXCEPT !.error = 1])
          /\ rd' = [rd EXCEPT !.state = "next", !.k = @ + 1, !.hand = NoBuffer]
          /\ UNCHANGED inodes
  /\ UNCHANGED <<scanVars, mainVars, size, changes>>

ReaderGone ==
  /\ rd.state = "next" /\ rd.k > Len(order)
  /\ rd' = [rd EXCEPT !.state = "gone"]
  /\ UNCHANGED <<scanVars, mainVars, inodes, queue, size, changes>>

Reader == ReaderNext \/ ReaderOpen \/ ReaderRead \/ ReaderLast \/ ReaderRestat \/ ReaderGone

\* A file of the source changes its size.
FileChanges ==
  /\ rd.state # "gone" /\ changes < MaxChanges
  /\ \E n \in Files, s \in Sizes : s # size[n] /\ size' = [size EXCEPT ![n] = s]
  /\ changes' = changes + 1
  /\ UNCHANGED <<scanVars, mainVars, inodes, rd, queue>>

-----------------------------------------------------------------------------
(* main *)

Top == stack[Len(stack)]
IsDir(i) == Node(inodes[i].node).type = "dir"
Owner(node) == [uid |-> Node(node).uid, gid |-> Node(node).gid]

\* The inode_number of a file in the tables.
NumberOf(i) == IF IsDir(i) THEN inodes[i].number ELSE inodes[i].number + root.dir_inode_no

\* What an inode of each type says; stat stands for the mode, the time and the device
\* numbers of the file.
Header(i, type) == [kind |-> "inode", type |-> type, stat |-> inodes[i].node, number |-> NumberOf(i), uid |-> 0, guid |-> 0]
With(header, more) == [f \in DOMAIN header \cup DOMAIN more |-> IF f \in DOMAIN more THEN more[f] ELSE header[f]]

FileInode(i, bytes, data, frag) ==
  With(Header(i, IF inodes[i].nlink = 1 THEN "file" ELSE "lreg"),
       [nlink |-> inodes[i].nlink, size |-> bytes, data |-> data, frag |-> frag])

SpecialInode(i) ==
  With(Header(i, Node(inodes[i].node).type),
       [nlink |-> inodes[i].nlink,
        data |-> IF Node(inodes[i].node).type = "symlink" THEN Nodes[inodes[i].node].target ELSE <<>>])

\* parent is the inode of the directory above, 0 for the root.
DirInode(dir, i, parent) ==
  With(Header(i, "dir"),
       [nlink |-> dir.directory_count + 2,
        parent |-> IF parent = 0 THEN root.dir_inode_no + root.inode_no ELSE inodes[parent].number,
        size |-> 0, start |-> 0, offset |-> 0, index |-> <<>>])

\* create_inode for i; the inode's place is noted in its inode_info.
Create(i, rec, type) ==
  /\ meta' = CreateInode(meta, rec, Owner(inodes[i].node))
  /\ inodes' = [inodes EXCEPT ![i].inode = meta'.last, ![i].type = type]

\* sort_files_and_write: the next of the sorted files.
NextSorted ==
  /\ phase = "sort" /\ file = NoFile
  /\ IF place > Len(order) THEN phase' = "scan" /\ UNCHANGED <<place, file>>
     ELSE IF inodes[order[place]].inode # Invalid THEN place' = place + 1 /\ UNCHANGED <<phase, file>>
     ELSE file' = [i |-> order[place], got |-> <<>>] /\ UNCHANGED <<phase, place>>
  /\ UNCHANGED <<cmds, old, image, promise, root, order, saved, stack, meta, inodes, rd, queue, size, changes>>

\* write_file begins with a buffer, or goes on: main takes what comes out of the
\* queue for the next block of its file.
Complete(got) == Len(got) = (IF Blocks(got[1].file_size) = 0 THEN 1 ELSE Blocks(got[1].file_size))
Content(buffers) == [k \in DOMAIN buffers |-> [node |-> buffers[k].of, block |-> buffers[k].block, size |-> buffers[k].size]]

WriteFile ==
  /\ file # NoFile /\ queue # <<>>
  /\ LET b == Head(queue)
         got == Append(file.got, b)
         bytes == got[1].file_size
         data == Content(got)
     IN  \/ /\ b.error = 2                                \* start the file again
            /\ file' = [file EXCEPT !.got = <<>>]
            /\ UNCHANGED <<meta, inodes>>
         \/ /\ b.error = 1                                \* write_file_empty
            /\ file' = NoFile
            /\ Create(file.i, FileInode(file.i, 0, <<>>, NoContent), "file")
         \/ /\ b.error = 0 /\ ~Complete(got)
            /\ file' = [file EXCEPT !.got = got]
            /\ UNCHANGED <<meta, inodes>>
         \/ /\ b.error = 0 /\ Complete(got)
            /\ file' = NoFile
            /\ Create(file.i, IF bytes = 0 THEN FileInode(file.i, 0, <<>>, NoContent)
                              ELSE IF bytes < BlockSize THEN FileInode(file.i, bytes, <<>>, data[1])
                              ELSE FileInode(file.i, bytes, data, NoContent), "file")
  /\ queue' = Tail(queue)
  /\ UNCHANGED <<scanVars, place, stack, rd, size, changes>>

\* dir_scan2 at an entry.
Scanning == phase = "scan" /\ file = NoFile /\ stack # <<>>
Entry == Top.dir.list[Top.cur]
AtEntry == Scanning /\ Top.cur <= Len(Top.dir.list)
AddEntry(inode, number, type) ==
  stack' = [stack EXCEPT ![Len(stack)].cur = @ + 1, ![Len(stack)].buf = AddDir(@, inode, number, Entry.name, type)]

\* scan2_readdir: an entry of the old root.
ScanOld ==
  /\ AtEntry /\ Entry.data # NoData
  /\ AddEntry(Entry.data.inode, Entry.data.number, Entry.data.type)
  /\ UNCHANGED <<scanVars, place, file, meta, inodes, rd, queue, size, changes>>

\* An entry whose inode is written, by now or as another link's, goes into the
\* directory.
ScanWritten ==
  /\ AtEntry /\ Entry.data = NoData /\ inodes[Entry.inode].inode # Invalid
  /\ AddEntry(inodes[Entry.inode].inode, NumberOf(Entry.inode), inodes[Entry.inode].type)
  /\ UNCHANGED <<scanVars, place, file, meta, inodes, rd, queue, size, changes>>

\* An entry whose inode is not: a file is written from what the reader sends, a
\* directory is scanned first, any other is written at once.
ScanNew ==
  /\ AtEntry /\ Entry.data = NoData /\ inodes[Entry.inode].inode = Invalid
  /\ LET type == Node(inodes[Entry.inode].node).type
     IN  \/ /\ type = "file"
            /\ file' = [i |-> Entry.inode, got |-> <<>>]
            /\ UNCHANGED <<stack, meta, inodes>>
         \/ /\ type = "dir"
            /\ stack' = Append(stack, [dir |-> Entry.dir, i |-> Entry.inode, cur |-> 1, buf |-> NewDirectory])
            /\ UNCHANGED <<file, meta, inodes>>
         \/ /\ type \notin {"file", "dir"}
            /\ Create(Entry.inode, SpecialInode(Entry.inode), type)
            /\ UNCHANGED <<file, stack>>
  /\ UNCHANGED <<scanVars, place, rd, queue, size, changes>>

\* The end of a directory: write_dir.
ScanEnd ==
  /\ Scanning /\ Top.cur > Len(Top.dir.list)
  /\ LET parent == IF Len(stack) = 1 THEN 0 ELSE stack[Len(stack) - 1].i
     IN  meta' = WriteDir(meta, Top.buf, DirInode(Top.dir, Top.i, parent), Owner(inodes[Top.i].node), Top.dir.dir_is_ldir)
  /\ inodes' = [inodes EXCEPT ![Top.i].inode = meta'.last, ![Top.i].type = "dir"]
  /\ stack' = Front(stack)
  /\ phase' = IF Len(stack) = 1 THEN "finish" ELSE phase
  /\ UNCHANGED <<cmds, old, image, promise, root, order, saved, place, file, rd, queue, size, changes>>

-----------------------------------------------------------------------------
(* the end of a run *)

\* write_inode_lookup_table: kept when the number of inodes is what it was.
InodeLookupOfNew(table, sinode_count) ==
  [n \in 1 .. meta.count |->
     IF \E i \in DOMAIN inodes : NumberOf(i) = n THEN inodes[CHOOSE i \in DOMAIN inodes : NumberOf(i) = n].inode ELSE Invalid]
InodeLookup(table, sinode_count) ==
  IF meta.count = sinode_count THEN table
  ELSE [n \in 1 .. meta.count |->
          IF \E i \in DOMAIN inodes : NumberOf(i) = n THEN inodes[CHOOSE i \in DOMAIN inodes : NumberOf(i) = n].inode
          ELSE IF n <= Len(table) THEN table[n] ELSE Invalid]

\* From restore_filesystem on: the tables are written, and the counts of uids and
\* guids go into fields of 8 bits.
WriteTables(m, root_inode, lookup) ==
  [root_inode |-> root_inode, inodes |-> m.count, noI |-> m.inodes.noI,
   inode_table |-> StoreAll(m.inodes).blocks, directory_table |-> StoreAll(m.directories).blocks,
   lookup |-> WriteTable(lookup, LookupEntries, 0),
   uids |-> SubSeq(m.uids, 1, Len(m.uids) % CountLimit), guids |-> SubSeq(m.guids, 1, Len(m.guids) % CountLimit)]

EndRun ==
  /\ phase' = "idle" /\ cmds' = Tail(cmds) /\ old' = NoOld
  /\ rd' = NoReader /\ queue' = <<>> /\ file' = NoFile /\ stack' = <<>>
  /\ UNCHANGED <<root, order, saved, place, meta, inodes, size, changes>>

\* What the destination should hold after a command, stated without the code: each
\* path of the sources that no exclude hides, and what was there before.
Named(cmd, path, node) ==
  IF cmd.old_exclude
  THEN \E e \in ToSet(cmd.old_excludes) : node \in (IF e.absolute THEN e.found ELSE UNION e.inSources)
  ELSE \E e \in ToSet(cmd.excludes) :
         /\ Len(e.path) = Len(path) \/ (e.sticky /\ Len(e.path) < Len(path))
         /\ \A k \in DOMAIN e.path : path[Len(path) - Len(e.path) + k] \in e.path[k]

RECURSIVE PathsBelow(_, _, _)
PathsBelow(cmd, path, node) ==
  IF \/ node = NoNode \/ Node(node).type \notin Types \/ Named(cmd, path, node)
     \/ (Node(node).type = "dir" /\ ~Nodes[node].opens)
  THEN {}
  ELSE {<<path, node>>} \cup
       (IF Node(node).type # "dir" THEN {}
        ELSE UNION {PathsBelow(cmd, Append(path, e.name), e.node) : e \in {x \in ToSet(Nodes[node].entries) : x.name \notin {Dot, DotDot}}})

\* How the entries of the root are called: a name that is taken gets a number.
RootNames(cmd, taken, found) ==
  FoldLeft(LAMBDA named, f : Append(named, [name |-> FreeName(f.name, taken \o named), node |-> f.node]), <<>>, found)

Promised(cmd, before) ==
  LET only == cmd.sources[1].node
      single == ~cmd.keep /\ Len(cmd.sources) = 1 /\ Node(only).type = "dir"
      kept == IF ~cmd.append THEN {}
              ELSE IF cmd.root_name = NoRoot THEN {p \in before : p[1] # <<>>}
              ELSE {<<(<<cmd.root_name>> \o p[1]), p[2]>> : p \in before}
      taken == SetToSeq({[name |-> p[1][1]] : p \in {q \in kept : Len(q[1]) = 1}})
      found == RootNames(cmd, taken, IF single THEN Nodes[only].entries ELSE Sources(cmd))
  IN  {<<(<<>>), IF single THEN only ELSE DummyRoot>>} \cup kept
      \cup UNION {PathsBelow(cmd, <<f.name>>, f.node) : f \in {x \in ToSet(found) : x.name \notin {Dot, DotDot}}}

\* dir_scan returned: the super block names the new root.
Finish ==
  /\ phase = "finish"
  /\ image' = WriteTables(meta, inodes[root.i].inode,
                          InodeLookup(IF root.cmd.append THEN old.inode_lookup_table ELSE <<>>, saved.count))
  /\ promise' = Promised(root.cmd, promise)
  /\ EndRun

\* A second interrupt while the reader is there: restorefs, then the same tables are
\* written from what was saved, under the super block as it was read.
Interrupted ==
  /\ phase \in {"sort", "scan"} /\ root.cmd.append /\ rd.state # "gone"
  /\ image' = WriteTables(saved, image.root_inode, old.inode_lookup_table)
  /\ UNCHANGED promise
  /\ EndRun

Terminated == phase = "idle" /\ cmds = <<>> /\ UNCHANGED vars

Main == ReadOld \/ Start \/ Refuse \/ NextSorted \/ WriteFile \/ ScanOld \/ ScanWritten \/ ScanNew \/ ScanEnd \/ Finish

Next == Main \/ Reader \/ FileChanges \/ Interrupted \/ Terminated

\* No step can be taken again and again, so a run that never stops short of
\* Terminated ends: the deadlock check is what shows it.
Spec == Init /\ [][Next]_vars

-----------------------------------------------------------------------------
(* Properties *)

Written == phase = "idle" /\ image # NoImage
Found == Walk(Unpack(image), [path |-> <<>>, addr |-> image.root_inode, entry |-> [kind |-> "root"], parent |-> 0])

\* What unsquashfs finds in the destination is what was put there: the same paths,
\* every one readable, of the type and the owner of its file, under an entry of that
\* type; after an append also what was there before.  (Where there is nothing but the
\* root the directory table is empty and squashfs_opendir does not find the block.)
HoldsPromise(found) ==
  /\ \A w \in found : w.ok \/ image.inodes = 1
  /\ {<<w.path, w.read.i.stat>> : w \in found} = promise
  /\ \A w \in found :
       LET n == Node(w.read.i.stat)
           type == IF IsDirectory(w.read.i) THEN "dir" ELSE IF w.read.i.type = "lreg" THEN "file" ELSE w.read.i.type
       IN  /\ w.read.uid = n.uid /\ w.read.gid = n.gid
           /\ type = n.type
           /\ w.path # <<>> => w.entry.type = type
           /\ type = "symlink" => w.read.i.data = n.target

TreeRead == Written => HoldsPromise(Found)

\* The inode numbers are 1 .. inodes, one for each inode; an entry gives the number
\* of the inode it leads to, the lookup table leads from a number back to it, and its
\* links and its parent are those of the tree.
Numbered(found, lookup) ==
  LET At(addr) == {w \in found : w.addr = addr}
      Subdirs(w) == {v \in found : Len(v.path) = Len(w.path) + 1 /\ Front(v.path) = w.path /\ IsDirectory(v.read.i)}
  IN  /\ {w.read.i.number : w \in found} = 1 .. image.inodes
      /\ Len(lookup) = image.inodes
      /\ \A w \in found :
           /\ lookup[w.read.i.number] = w.addr
           /\ w.path # <<>> => w.entry.number = w.read.i.number
           /\ IF IsDirectory(w.read.i)
              THEN /\ w.read.i.nlink = 2 + Cardinality(Subdirs(w))
                   /\ w.read.i.parent = IF w.path = <<>> THEN image.inodes + 1 ELSE w.parent
              ELSE (IF w.read.i.type = "file" THEN 1 ELSE w.read.i.nlink) = Cardinality(At(w.addr))

NumbersAgree == Written => Numbered(Found, ReadLookup(image))

\* The buffers on their way to main are those of the file main is at, whatever links
\* and sorting did to the order: when main takes one for a file it is that file's and
\* the next block of it, and when main is done none is left.
InStep ==
  /\ file # NoFile /\ queue # <<>> =>
       /\ Head(queue).of = inodes[file.i].node
       /\ Head(queue).error = 0 => Head(queue).block = Len(file.got)
       /\ file.got # <<>> => Head(queue).file_size = file.got[1].file_size
  /\ phase = "finish" => queue = <<>>

\* A file in the file system is whole: the blocks of one reading of that file, in
\* order, with the bytes its inode says, as many as the file had at one time; it is
\* empty only if it was, could not be opened, or changed.
FilesWhole ==
  Written =>
    \A w \in Found :
      w.read.i.type \in {"file", "lreg"} =>
        LET i == w.read.i
            data == IF i.frag = NoContent THEN i.data ELSE Append(i.data, i.frag)
        IN  /\ \A k \in DOMAIN data : data[k].node = i.stat /\ data[k].block = k - 1
            /\ FoldLeft(LAMBDA n, c : n + c.size, 0, data) = i.size
            /\ i.size \in Sizes \cup {Nodes[i.stat].size, 0}
            /\ changes = 0 => i.size = IF Nodes[i.stat].opens THEN Nodes[i.stat].size ELSE 0

\* An index of a large directory leads to the stored block in which a run of its
\* entries begins with the name in the index.
IndexLeads ==
  Written =>
    \A w \in Found :
      w.read.i.type = "ldir" =>
        LET t == Unpack(image).directories
            begin == LookupEntry(t, w.read.i.start) + w.read.i.offset
        IN  \A k \in DOMAIN w.read.i.index :
              LET x == w.read.i.index[k]
                  block == LookupEntry(t, x.start_block)
                  first == RecordAt(t.cells, begin + x.index + HeaderSize)
              IN  /\ block # NotFound
                  /\ begin + x.index \in block .. block + MetadataSize - 1
                  /\ RecordAt(t.cells, begin + x.index).kind = "header"
                  /\ first.kind = "entry" /\ first.record.name = x.name

\* An append with -root-becomes makes the old root a directory of the new one: its
\* inode still leads to the entries that it had.
RootBecomes ==
  [][Finish /\ root.cmd.root_name # NoRoot =>
       LET Entries(fs) == OpenDir(Unpack(fs), ReadInode(Unpack(fs), image.root_inode).i)
       IN  Entries(image') = Entries(image)]_vars

\* An interrupted append leaves the file system that was there.
Restored == [][Interrupted => image' = image]_vars
=============================================================================
