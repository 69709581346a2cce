------------------------------- MODULE SourceScan -------------------------------
(***************************************************************************)
(* The first pass of mksquashfs over the sources: the directories as they  *)
(* will be stored, an inode_info for each file found, and the order in     *)
(* which the files are read.                                               *)
(*                                                                         *)
(* A name is a sequence of numbers, its characters.  Nodes gives for each  *)
(* file of the source machine its type, its owner, its size, the blocks of *)
(* its target when it is a symbolic link, whether it can be opened and,    *)
(* for a directory, its entries in the order readdir returns them.         *)
(*                                                                         *)
(* A command cmd is one run of mksquashfs: sources (each with its path and *)
(* its node), append and root_name, old_exclude and excludes, sorts.       *)
(***************************************************************************)
EXTENDS Metadata, Excludes

CONSTANT Nodes            \* the files of the source machine

Dot == <<46>>
DotDot == <<46, 46>>
Underscore == <<95>>

NoNode == "none"          \* no such file
DummyRoot == "dummy"      \* the root made up for several sources
Invalid == <<-1, -1>>     \* SQUASHFS_INVALID_BLK
NoRoot == <<>>            \* no -root-becomes
Unresolved == <<DotDot>>

Node(n) == IF n = DummyRoot THEN [type |-> "dir", uid |-> 0, gid |-> 0] ELSE Nodes[n]

\* getbase: the last component of a source's path, "." and ".." resolved; a ".."
\* that goes above the path's start gives no name.
GetBase(path) ==
  LET Step(stack, c) ==
        IF stack = Unresolved \/ (c = DotDot /\ stack = <<>>) THEN Unresolved
        ELSE IF c = Dot THEN stack
        ELSE IF c = DotDot THEN Front(stack)
        ELSE Append(stack, c)
      stack == FoldLeft(Step, <<>>, path)
  IN  IF stack \in {<<>>, Unresolved} THEN NoRoot ELSE Last(stack)

\* The name an entry of the root gets: its own, or the first of name_1, name_2 ..
\* that no earlier entry has.
FreeName(name, list) ==
  LET used == {list[k].name : k \in DOMAIN list}
      pass == CHOOSE p \in 1 .. Len(list) + 1 :
                /\ name \o Underscore \o <<48 + p>> \notin used
                /\ \A q \in 1 .. p - 1 : name \o Underscore \o <<48 + q>> \in used
  IN  IF name \in used THEN name \o Underscore \o <<48 + pass>> ELSE name

\* compare_name: strcmp.
NameBefore(a, b) ==
  LET same == LongestCommonPrefix({a, b})
      n == Len(same) + 1
  IN  Len(b) >= n /\ (Len(a) < n \/ a[n] < b[n])

\* lookup_inode: the inode_info of a file seen before, with one more link, or a new
\* one; directories and other files are numbered apart.
LookupInode(s, node) ==
  LET known == {i \in DOMAIN s.inodes : s.inodes[i].node = node}
      isDir == Node(node).type = "dir"
      new == [node |-> node, nlink |-> 1, number |-> IF isDir THEN s.dir_inode_no ELSE s.inode_no,
              inode |-> Invalid, type |-> "none", read |-> FALSE, size |-> 0]
  IN  IF known # {}
      THEN LET i == CHOOSE k \in known : TRUE
           IN  [i |-> i, s |-> [s EXCEPT !.inodes[i].nlink = @ + 1]]
      ELSE [i |-> Len(s.inodes) + 1,
            s |-> [inodes |-> Append(s.inodes, new),
                   dir_inode_no |-> s.dir_inode_no + (IF isDir THEN 1 ELSE 0),
                   inode_no |-> s.inode_no + (IF isDir THEN 0 ELSE 1)]]

\* scan1_opendir.
EmptyDir == [list |-> <<>>, directory_count |-> 0, byte_count |-> 0, dir_is_ldir |-> TRUE]
NoData == [name |-> NoRoot]

\* add_dir_entry: an entry of the source (data is NoData) or one of the old root's.
AddDirEntry(dir, name, sub, i, data) ==
  [dir EXCEPT !.list = Append(@, [name |-> name, dir |-> sub, inode |-> i, data |-> data]),
              !.byte_count = @ + Len(name) + EntrySize]

\* sort_directory.
SortDirectory(dir) ==
  [dir EXCEPT !.list = SortSeq(@, LAMBDA x, y : NameBefore(x.name, y.name)),
              !.dir_is_ldir = ~(Len(dir.list) < EntryLimit + 1 /\ dir.byte_count < MetadataSize)]

Types == {"file", "dir", "symlink", "chrdev", "blkdev", "fifo", "socket"}

\* dir_scan1 with an entry it keeps: sub is what was found below it, when it is a
\* directory.
Keep(dir, name, node, sub) ==
  LET looked == LookupInode(sub.s, node)
      counted == IF Node(node).type = "dir" THEN [dir EXCEPT !.directory_count = @ + 1] ELSE dir
  IN  [dir |-> AddDirEntry(counted, name, sub.dir, looked.i, NoData), s |-> looked.s]

\* dir_scan1: found is what _readdir returns, the entries of a directory or the
\* sources; in the root a name that is taken is changed.
RECURSIVE DirScan1(_, _, _, _, _, _)
DirScan1(cmd, found, top, paths, dir0, s0) ==
  LET sticky == Trees(cmd.excludes).sticky
      old == FoldLeft(OldAddExclude, {}, cmd.old_excludes)
      Leave(name, node) == IF cmd.old_exclude THEN OldExcluded(old, node) ELSE Excluded(paths, sticky, name).res
      Entry(acc, f) ==
        LET name == IF top THEN FreeName(f.name, acc.dir.list) ELSE f.name
            isDir == Node(f.node).type = "dir"
        IN  IF \/ f.name \in {Dot, DotDot}
               \/ f.node = NoNode                      \* lstat fails
               \/ Node(f.node).type \notin Types
               \/ Leave(name, f.node)
               \/ isDir /\ ~Nodes[f.node].opens
            THEN acc
            ELSE Keep(acc.dir, name, f.node,
                      IF isDir THEN DirScan1(cmd, Nodes[f.node].entries, FALSE, Excluded(paths, sticky, name).new, EmptyDir, acc.s)
                      ELSE [dir |-> EmptyDir, s |-> acc.s])
      scanned == FoldLeft(Entry, [dir |-> dir0, s |-> s0], found)
  IN  [scanned EXCEPT !.dir = SortDirectory(@)]

\* The sources as scan1_encomp_readdir returns them, the bad ones skipped.
Sources(cmd) ==
  LET based == [k \in DOMAIN cmd.sources |-> [name |-> GetBase(cmd.sources[k].path), node |-> cmd.sources[k].node]]
  IN  SelectSeq(based, LAMBDA x : x.name # NoRoot)

\* dir_scan after its scan: the root gets its inode_info, in an append with the
\* number of the old root.
RootInode(scan, looked, root_inode_number) ==
  [dir |-> scan.dir, i |-> looked.i,
   s |-> IF root_inode_number = 0 THEN looked.s
         ELSE [looked.s EXCEPT !.inodes[looked.i].number = root_inode_number, !.dir_inode_no = @ - 1]]

\* dir_scan up to the reader's start: the old root's entries come first (in both
\* scan1_single_readdir and scan1_encomp_readdir), a single source directory is the
\* root itself.
ScanSources(cmd, old_root_entries, root_inode_number, dir_inode_no) ==
  LET OldEntry(dir, old) ==
        AddDirEntry(IF old.type = "dir" THEN [dir EXCEPT !.directory_count = @ + 1] ELSE dir, old.name, EmptyDir, 0, old)
      s0 == [inodes |-> <<>>, dir_inode_no |-> dir_inode_no, inode_no |-> 0]
      only == cmd.sources[1].node
      single == ~cmd.keep /\ Len(cmd.sources) = 1 /\ Node(only).type = "dir"
      Root(scan) == RootInode(scan, LookupInode(scan.s, IF single THEN only ELSE DummyRoot), root_inode_number)
  IN  Root(DirScan1(cmd, IF single THEN Nodes[only].entries ELSE Sources(cmd), cmd.append \/ ~single, TopPaths(Trees(cmd.excludes)),
                    FoldLeft(OldEntry, EmptyDir, old_root_entries), s0))

\* reader_scan: the files in the order of the directories, each directory's entries
\* sorted by name and its own files before what comes after it.
RECURSIVE FilesOf(_, _)
FilesOf(dir, inodes) ==
  LET Files(e) == IF e.data # NoData THEN <<>>
                  ELSE IF Node(inodes[e.inode].node).type = "dir" THEN FilesOf(e.dir, inodes)
                  ELSE IF Node(inodes[e.inode].node).type = "file" THEN <<e.inode>> ELSE <<>>
  IN  FoldLeft(LAMBDA files, e : files \o Files(e), <<>>, dir.list)

\* add_sort_list: e is a line of a sort file, with the file its path names as it is
\* (here) and the files it names below each source (below).  style is mkisofs_style.
AddSortList(sorts, e) ==
  LET there == SelectSeq(e.below, LAMBDA n : n # NoNode)
      asIs == e.absolute \/ sorts.style = 1
      Add(list, node) == <<[node |-> node, priority |-> e.priority]>> \o list
      mkisofs == there = <<>> /\ sorts.style = -1 /\ e.here # NoNode
  IN  IF asIs \/ mkisofs
      THEN [sorts EXCEPT !.style = IF asIs THEN @ ELSE 1, !.list = IF e.here = NoNode THEN @ ELSE Add(@, e.here)]
      ELSE [list |-> FoldLeft(Add, sorts.list, there), style |-> 0, fatal |-> sorts.fatal \/ Len(there) > 1]

\* read_sort_file, for all the sort files; after an ambiguous line mksquashfs exits.
ReadSortFiles(cmd) ==
  FoldLeft(LAMBDA sorts, e : IF sorts.fatal \/ e.priority \notin -32768 .. 32767 THEN sorts ELSE AddSortList(sorts, e),
           [list |-> <<>>, style |-> -1, fatal |-> FALSE], cmd.sorts)

\* get_priority: that of the last line that named the file, or its directory's.
GetPriority(list, node, priority) ==
  IF \E k \in DOMAIN list : list[k].node = node
  THEN list[Min({k \in DOMAIN list : list[k].node = node})].priority ELSE priority

\* generate_file_priorities.
RECURSIVE FilePriorities(_, _, _, _, _)
FilePriorities(dir, list, inodes, node, priority) ==
  LET here == GetPriority(list, node, priority)
      Of(e) == LET n == inodes[e.inode].node
               IN  IF Node(n).type = "dir" THEN FilePriorities(e.dir, list, inodes, n, here)
                   ELSE IF Node(n).type = "file" THEN <<[i |-> e.inode, priority |-> GetPriority(list, n, here)]>>
                   ELSE <<>>
  IN  FoldLeft(LAMBDA files, e : IF e.data # NoData THEN files ELSE files \o Of(e), <<>>, dir.list)

\* add_priority_list and the loops over priority_list: from the highest priority
\* down; in a priority, the file found last comes first.
ByPriority(files) ==
  LET Ahead(a, b) == files[a].priority > files[b].priority \/ (files[a].priority = files[b].priority /\ a > b)
      ranked == SortSeq([k \in DOMAIN files |-> k], Ahead)
  IN  [k \in DOMAIN files |-> files[ranked[k]].i]

\* The order in which the reader reads and, when the files are sorted, in which
\* sort_files_and_write writes.
ReadOrder(cmd, scan) ==
  IF cmd.sorts = <<>> THEN FilesOf(scan.dir, scan.s.inodes)
  ELSE ByPriority(FilePriorities(scan.dir, ReadSortFiles(cmd).list, scan.s.inodes, scan.s.inodes[scan.i].node, 0))
=============================================================================
