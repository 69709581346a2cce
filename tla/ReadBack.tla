-------------------------------- MODULE ReadBack --------------------------------
(***************************************************************************)
(* What is read back from the tables of a finished file system: by         *)
(* unsquashfs, which walks it from the root, and by mksquashfs, which      *)
(* loads it to append to it.                                               *)
(*                                                                         *)
(* A file system is a record: root_inode, inodes (their number), the       *)
(* stored blocks of inode_table and directory_table, the blocks and the    *)
(* block list of lookup, and uids and guids.  A position in a table is     *)
(* relative to the table's start.                                          *)
(***************************************************************************)
EXTENDS Metadata

NotFound == -1

\* uncompress_inode_table, uncompress_directory_table: the cells of the blocks end
\* to end, and where the cells of the block stored at a position begin.
Uncompress(table) ==
  LET start[i \in 1 .. Len(table)] == IF i = 1 THEN 0 ELSE start[i - 1] + table[i - 1].size + BlockOffset
      bytes[i \in 1 .. Len(table)] == IF i = 1 THEN 0 ELSE bytes[i - 1] + Len(table[i - 1].cells)
  IN  [cells |-> FoldLeft(LAMBDA cells, b : cells \o b.cells, <<>>, table),
       hash |-> {<<start[i], bytes[i]>> : i \in 1 .. Len(table)}]

\* lookup_entry.
LookupEntry(t, start) ==
  IF \E e \in t.hash : e[1] = start THEN (CHOOSE e \in t.hash : e[1] = start)[2] ELSE NotFound

\* The record that begins at a position of the cells and its length; a position
\* inside a record, or past the end, holds none.
RecordAt(cells, p) ==
  LET length == CHOOSE n \in 1 .. Len(cells) - p :
                  /\ \A k \in 1 .. n : cells[p + k] = <<cells[p + 1][1], k>>
                  /\ p + n = Len(cells) \/ cells[p + n + 1] # <<cells[p + 1][1], n + 1>>
  IN  IF p \in 0 .. Len(cells) - 1 /\ cells[p + 1][2] = 1
      THEN [kind |-> cells[p + 1][1].kind, record |-> cells[p + 1][1], size |-> length]
      ELSE [kind |-> "none", size |-> 0]

\* What unsquashfs has in memory before it walks: the two tables, and
\* read_uids_guids' table, in which the guids follow the uids.
Unpack(fs) ==
  [inodes |-> Uncompress(fs.inode_table), directories |-> Uncompress(fs.directory_table),
   ids |-> fs.uids \o fs.guids, guid_start |-> Len(fs.uids)]

\* read_inode: the header of the type found at the position, with its owner.
NoInode == [kind |-> "none"]
WithOwner(u, i) ==
  LET Id(k) == IF k < Len(u.ids) THEN u.ids[k + 1] ELSE NotFound
  IN  [kind |-> "inode", i |-> i, uid |-> Id(i.uid),
       gid |-> Id(IF i.guid = Guids THEN i.uid ELSE u.guid_start + i.guid)]
InodeFrom(u, found) ==
  IF found.kind = "inode" /\ found.size = InodeSize(found.record) THEN WithOwner(u, found.record) ELSE NoInode
ReadInode(u, addr) ==
  LET bytes == LookupEntry(u.inodes, addr[1])
  IN  IF bytes = NotFound THEN NoInode ELSE InodeFrom(u, RecordAt(u.inodes.cells, bytes + addr[2]))

\* The entries of a run: left of them, from p on, under the header h.
RECURSIVE ReadRun(_, _, _, _)
ReadRun(cells, p, h, left) ==
  LET e == RecordAt(cells, p)
  IN  IF left = 0 THEN [ok |-> TRUE, entries |-> <<>>, p |-> p]
      ELSE IF e.kind # "entry" THEN [ok |-> FALSE, entries |-> <<>>, p |-> p]
      ELSE LET rest == ReadRun(cells, p + e.size, h, left - 1)
           IN  [rest EXCEPT !.entries =
                 <<[name |-> e.record.name, type |-> e.record.type,
                    inode |-> <<h.start_block, e.record.offset>>,
                    number |-> h.inode_number + e.record.inode_number]>> \o @]

\* The loop of squashfs_opendir and of squashfs_readdir: run after run.
RECURSIVE ReadRuns(_, _, _)
AfterRun(cells, run, size) ==
  IF run.ok THEN LET rest == ReadRuns(cells, run.p, size) IN [rest EXCEPT !.entries = run.entries \o @]
  ELSE [ok |-> FALSE, entries |-> run.entries]
ReadRuns(cells, p, size) ==
  LET h == RecordAt(cells, p)
  IN  IF p >= size THEN [ok |-> p = size, entries |-> <<>>]
      ELSE IF h.kind # "header" THEN [ok |-> FALSE, entries |-> <<>>]
      ELSE AfterRun(cells, ReadRun(cells, p + HeaderSize, h.record, h.record.count + 1), size)

\* squashfs_opendir, once the directory's inode i is read.
OpenDir(u, i) ==
  LET bytes == LookupEntry(u.directories, i.start)
  IN  IF bytes = NotFound THEN [ok |-> FALSE, entries |-> <<>>]
      ELSE ReadRuns(u.directories.cells, bytes + i.offset, bytes + i.offset + i.size - 3)

IsDirectory(i) == i.type \in {"dir", "ldir"}

\* The walk of unsquashfs from a place (a path, the address it leads to, the entry
\* it was found under and the number of its directory): every path below with its
\* inode and whether, if it is a directory, all of it could be read.
RECURSIVE Walk(_, _)
Seen(at, read, ok) == [path |-> at.path, addr |-> at.addr, entry |-> at.entry, parent |-> at.parent, read |-> read, ok |-> ok]
WalkDir(u, at, read, dir) ==
  {Seen(at, read, dir.ok)} \cup
  UNION {Walk(u, [path |-> Append(at.path, e.name), addr |-> e.inode, entry |-> e, parent |-> read.i.number]) : e \in ToSet(dir.entries)}
WalkAt(u, at, read) ==
  IF read = NoInode THEN {Seen(at, read, FALSE)}
  ELSE IF IsDirectory(read.i) THEN WalkDir(u, at, read, OpenDir(u, read.i))
  ELSE {Seen(at, read, TRUE)}
Walk(u, at) == WalkAt(u, at, ReadInode(u, at.addr))

\* read_inode_lookup_table: the entries of the blocks in the list's order.
ReadLookup(fs) ==
  LET At(place) == {b \in ToSet(fs.lookup.blocks) : b.at = place}
  IN  FoldLeft(LAMBDA entries, place : entries \o (IF At(place) = {} THEN <<>> ELSE (CHOOSE b \in At(place) : TRUE).cells),
               <<>>, fs.lookup.list)

\* The blocks of a table from the one stored at a position on.
BlocksFrom(table, start) == SelectSeq(table, LAMBDA b : b.at >= start)
BlocksBefore(table, start) == SelectSeq(table, LAMBDA b : b.at < start)
CellsOf(blocks) == FoldLeft(LAMBDA cells, b : cells \o b.cells, <<>>, blocks)

\* squashfs_readdir: reads whole blocks until the directory is in; the place of the
\* last of them is last_directory_block.
DirectoryBlocks(table, start, size) ==
  LET from == BlocksFrom(table, start)
      enough(n) == Len(CellsOf(SubSeq(from, 1, n))) >= size
  IN  SubSeq(from, 1, CHOOSE n \in 0 .. Len(from) : enough(n) /\ \A k \in 0 .. n - 1 : ~enough(k))

\* scan_inode_table: blk is the block the root's inode, the last, is in, cached the
\* cells from there; the inodes before it are counted.
ScanInodeTable(fs, cached) ==
  LET blk == fs.root_inode[1]
      before == CellsOf(BlocksBefore(fs.inode_table, blk)) \o SubSeq(cached, 1, fs.root_inode[2])
  IN  Cardinality({p \in DOMAIN before : before[p][2] = 1})

\* read_filesystem: what it loads for an append.  A file system in which the root is
\* the only inode is refused.
LoadRoot(fs, cached, root, blocks) ==
  LET data == SubSeq(CellsOf(blocks), 1, root.offset + root.size - 3)
  IN  [files |-> ScanInodeTable(fs, cached),
       root |-> root,
       data_cache |-> cached,
       directory_data_cache |-> data,
       last_directory_block |-> IF blocks = <<>> THEN root.start ELSE blocks[Len(blocks)].at,
       old_root_entries |-> ReadRuns(data, root.offset, Len(data)).entries,
       uids |-> fs.uids, guids |-> fs.guids, inode_lookup_table |-> ReadLookup(fs)]
ReadFilesystem(fs) ==
  LET cached == CellsOf(BlocksFrom(fs.inode_table, fs.root_inode[1]))
      root == RecordAt(cached, fs.root_inode[2]).record
  IN  LoadRoot(fs, cached, root, DirectoryBlocks(fs.directory_table, root.start, root.offset + root.size - 3))
=============================================================================
