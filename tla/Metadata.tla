-------------------------------- MODULE Metadata --------------------------------
(***************************************************************************)
(* The inode table and the directory table of a squashfs file system, as   *)
(* mksquashfs builds them: records are laid end to end and cut into blocks *)
(* of MetadataSize, each stored on its own, compressed when that is        *)
(* smaller.  An inode is known by the position of the stored block its     *)
(* record begins in and the offset in that block.  A directory is a list   *)
(* of runs of entries, each run under a header with what they share.       *)
(*                                                                         *)
(* Sizes are in cells: a record of n cells is <<record, 1>> .. <<record,   *)
(* n>>, so that a reader that starts anywhere but at a record sees it.     *)
(***************************************************************************)
EXTENDS Integers, Sequences, SequencesExt, FiniteSetsExt

CONSTANTS MetadataSize,        \* SQUASHFS_METADATA_SIZE
          EntryLimit,          \* entries under a header: 256
          Span,                \* how far an inode number may be from its header's: 32767
          Uids, Guids,         \* SQUASHFS_UIDS, SQUASHFS_GUIDS
          NameLen              \* SQUASHFS_NAME_LEN

ASSUME MetadataAssumption ==
  /\ {MetadataSize, EntryLimit, Span, Uids, Guids, NameLen} \subseteq Nat \ {0}
  /\ MetadataSize > 4

BlockOffset == 1      \* the length in front of a stored block
HeaderSize == 2       \* sizeof(squashfs_dir_header)
EntrySize == 1        \* sizeof(squashfs_dir_entry), without the name
IndexSize == 1        \* sizeof(squashfs_dir_index), without the name
LookupEntries == 3    \* inode lookup entries in a block of MetadataSize

\* The cells of a record.
Cells(record, n) == [k \in 1 .. n |-> <<record, k>>]

\* What the compressor makes of a block: the more is repeated the smaller.
Compressed(cells) == Cardinality({c[1] : c \in ToSet(cells)})

\* mangle2: a block that does not get smaller is stored as it is.
StoredSize(cells, uncompressed) ==
  IF uncompressed \/ Compressed(cells) >= Len(cells) THEN Len(cells) ELSE Compressed(cells)

\* A table: the blocks stored so far, the bytes they take and the cells waiting.
EmptyTable(uncompressed) == [blocks |-> <<>>, bytes |-> 0, cache |-> <<>>, noI |-> uncompressed]

\* Store the first n waiting cells as a block.
StoreBlock(t, n) ==
  LET cells == SubSeq(t.cache, 1, n)
      size == StoredSize(cells, t.noI)
  IN  [t EXCEPT !.blocks = Append(@, [at |-> t.bytes, size |-> size, cells |-> cells]),
                !.bytes = @ + size + BlockOffset,
                !.cache = SubSeq(@, n + 1, Len(@))]

\* get_inode's loop: store the full blocks.
RECURSIVE StoreFull(_)
StoreFull(t) == IF Len(t.cache) >= MetadataSize THEN StoreFull(StoreBlock(t, MetadataSize)) ELSE t

\* The loop of write_inodes and write_directories: store all.
RECURSIVE StoreAll(_)
StoreAll(t) == IF t.cache = <<>> THEN t ELSE StoreAll(StoreBlock(t, Min({Len(t.cache), MetadataSize})))

\* get_uid: the index of a uid, a new one while there is room.
GetUid(uids, uid) ==
  IF \E i \in DOMAIN uids : uids[i] = uid
  THEN [index |-> (CHOOSE i \in DOMAIN uids : uids[i] = uid) - 1, ids |-> uids]
  ELSE IF Len(uids) = Uids THEN [index |-> 0, ids |-> uids]
  ELSE [index |-> Len(uids), ids |-> Append(uids, uid)]

\* get_guid: Guids stands for "as the uid", and for "no room".
GetGuid(guids, uid, gid) ==
  IF uid = gid THEN [index |-> Guids, ids |-> guids]
  ELSE IF \E i \in DOMAIN guids : guids[i] = gid
  THEN [index |-> (CHOOSE i \in DOMAIN guids : guids[i] = gid) - 1, ids |-> guids]
  ELSE IF Len(guids) = Guids THEN [index |-> Guids, ids |-> guids]
  ELSE [index |-> Len(guids), ids |-> Append(guids, gid)]

\* The cells of an inode of each type.
InodeSize(rec) ==
  CASE rec.type = "file" -> 2 + Len(rec.data)
    [] rec.type = "lreg" -> 3 + Len(rec.data)
    [] rec.type = "dir" -> 3
    [] rec.type = "ldir" -> 4 + FoldLeft(LAMBDA n, x : n + IndexSize + Len(x.name), 0, rec.index)
    [] rec.type = "symlink" -> 2 + Len(rec.data)
    [] rec.type \in {"chrdev", "blkdev"} -> 2
    [] rec.type \in {"fifo", "socket"} -> 1

\* create_inode: what an inode of a type holds beside its owner.  i is the inode,
\* owner its node's uid and gid.
CreateInode(m, i, owner) ==
  LET u == GetUid(m.uids, owner.uid)
      g == GetGuid(m.guids, owner.uid, owner.gid)
      rec == [i EXCEPT !.uid = u.index, !.guid = g.index]
      t == StoreFull(m.inodes)
  IN  [m EXCEPT !.uids = u.ids, !.guids = g.ids, !.count = @ + 1,
                !.inodes = [t EXCEPT !.cache = @ \o Cells(rec, InodeSize(rec))],
                !.last = <<t.bytes, Len(t.cache)>>]          \* MKINODE

\* scan2_init_dir.
NewDirectory == [cells |-> <<>>, index_count_p |-> 0, entry_count |-> EntryLimit, entry_count_p |-> 0,
                 start_block |-> 0, inode_number |-> 0, index |-> <<>>]

\* Fill in the header of the run of entries now under way.
FinishHeader(dir) ==
  LET header == [kind |-> "header", count |-> dir.entry_count - 1,
                 start_block |-> dir.start_block, inode_number |-> dir.inode_number]
  IN  [dir EXCEPT !.cells = [k \in DOMAIN @ |->
         IF k \in dir.entry_count_p .. dir.entry_count_p + HeaderSize - 1
         THEN <<header, k - dir.entry_count_p + 1>> ELSE @[k]]]

\* Whether an entry of that name passes MetadataSize since the last index.
PastIndex(dir, size) == Len(dir.cells) + EntrySize + size - dir.index_count_p > MetadataSize

\* add_dir begins a run under a new header.
NeedsHeaderAnyBlock(dir, inode, number, size) ==
  \/ dir.entry_count = EntryLimit
  \/ dir.entry_count_p # 0 /\ PastIndex(dir, size)
  \/ number - dir.inode_number > Span
  \/ number - dir.inode_number < -Span - 1
NeedsHeader(dir, inode, number, size) ==
  \/ dir.entry_count = EntryLimit
  \/ inode[1] # dir.start_block
  \/ dir.entry_count_p # 0 /\ PastIndex(dir, size)
  \/ number - dir.inode_number > Span
  \/ number - dir.inode_number < -Span - 1

\* The run before it is closed; past MetadataSize, the directory index gets its place.
CloseRunIndexBefore(dir, name, size) ==
  LET closed == FinishHeader(dir)
      indexed == [closed EXCEPT !.index = Append(@, [index |-> dir.index_count_p, name |-> SubSeq(name, 1, size), start_block |-> -1]),
                                !.index_count_p = Len(dir.cells)]
  IN  IF dir.entry_count_p = 0 THEN dir ELSE IF PastIndex(dir, size) THEN indexed ELSE closed
CloseRun(dir, name, size) ==
  LET closed == FinishHeader(dir)
      indexed == [closed EXCEPT !.index = Append(@, [index |-> Len(dir.cells), name |-> SubSeq(name, 1, size), start_block |-> -1]),
                                !.index_count_p = Len(dir.cells)]
  IN  IF dir.entry_count_p = 0 THEN dir ELSE IF PastIndex(dir, size) THEN indexed ELSE closed

OpenRun(dir, inode, number) ==
  [dir EXCEPT !.entry_count_p = Len(dir.cells) + 1, !.start_block = inode[1], !.entry_count = 0,
              !.inode_number = number, !.cells = @ \o Cells([kind |-> "hole"], HeaderSize)]

\* add_dir.
AddDir(dir, inode, number, name, type) ==
  LET size == Min({Len(name), NameLen})
      run == IF NeedsHeader(dir, inode, number, size)
             THEN OpenRun(CloseRun(dir, name, size), inode, number) ELSE dir
      entry == [kind |-> "entry", offset |-> inode[2], type |-> type, name |-> SubSeq(name, 1, size),
                inode_number |-> number - run.inode_number]
  IN  [run EXCEPT !.cells = @ \o Cells(entry, EntrySize + size), !.entry_count = @ + 1]

\* write_dir's loop: the indexes before limit lie in the block about to be stored.
RECURSIVE PlaceDirectory(_, _, _)
PlaceDirectory(t, index, limit) ==
  LET placed == [i \in DOMAIN index |->
        IF index[i].start_block = -1 /\ index[i].index < limit
        THEN [index[i] EXCEPT !.start_block = t.bytes] ELSE index[i]]
  IN  IF Len(t.cache) < MetadataSize THEN [table |-> t, index |-> placed]
      ELSE PlaceDirectory(StoreBlock(t, MetadataSize), placed, limit + MetadataSize)

\* write_dir: i is the directory's inode, owner its owner; large, that it gets an
\* inode with an index.
WriteDir(m, dir, i, owner, large) ==
  LET t == m.directories
      done == IF dir.cells = <<>> THEN dir ELSE FinishHeader(dir)
      placed == PlaceDirectory([t EXCEPT !.cache = @ \o done.cells], dir.index, MetadataSize - Len(t.cache))
      inode == [i EXCEPT !.type = IF large THEN "ldir" ELSE "dir", !.size = Len(dir.cells) + 3,
                         !.start = t.bytes, !.offset = Len(t.cache),
                         !.index = IF large THEN placed.index ELSE <<>>]
  IN  CreateInode([m EXCEPT !.directories = placed.table], inode, owner)

\* generic_write_table: the entries in blocks, and the list of the blocks' places.
WriteTable(entries, perBlock, start) ==
  LET blocks == (Len(entries) + perBlock - 1) \div perBlock
      part(b) == SubSeq(entries, (b - 1) * perBlock + 1, Min({b * perBlock, Len(entries)}))
      size(b) == Min({Len(part(b)), Compressed([k \in DOMAIN part(b) |-> <<part(b)[k], 1>>])}) + BlockOffset
      list[b \in 1 .. blocks] == IF b = 1 THEN start ELSE list[b - 1] + size(b - 1)
  IN  [blocks |-> [b \in 1 .. blocks |-> [at |-> list[b], cells |-> part(b)]], list |-> list]
=============================================================================
