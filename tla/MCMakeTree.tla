------------------------------- MODULE MCMakeTree -------------------------------
(***************************************************************************)
(* Instances of MakeTree: small sources with every type of file, hard      *)
(* links, names that collide, files and directories that cannot be read,   *)
(* and the command lines that treat them in every way.                     *)
(***************************************************************************)
EXTENDS MakeTree

C(n) == <<n>>                           \* a name of one character
E(n, node) == [name |-> C(n), node |-> node]

File(bytes, uid, gid) == [type |-> "file", uid |-> uid, gid |-> gid, size |-> bytes, opens |-> TRUE]
Other(type, uid) == [type |-> type, uid |-> uid, gid |-> uid, target |-> <<[to |-> 1], [to |-> 2]>>]
Dir(uid, entries) == [type |-> "dir", uid |-> uid, gid |-> uid, opens |-> TRUE, entries |-> entries]

MCNodes ==
  [one |-> File(1, 1, 1), three |-> File(3, 1, 2), locked |-> [File(2, 3, 3) EXCEPT !.opens = FALSE], two |-> File(2, 3, 1),
   sym |-> Other("symlink", 1), chr |-> Other("chrdev", 1), fifo |-> Other("fifo", 3), odd |-> Other("whiteout", 1),
   shut |-> [Dir(1, <<>>) EXCEPT !.opens = FALSE],
   empty |-> Dir(1, <<>>),
   \* a directory of everything; three is there twice, one also below
   A |-> Dir(1, <<[name |-> Dot, node |-> "A"], E(9, "three"), E(3, "sym"), E(7, "B"), E(2, "locked"), E(4, "three"),
                  E(5, "shut"), E(6, "odd"), E(8, NoNode), E(1, "chr"), [name |-> DotDot, node |-> "A"]>>),
   B |-> Dir(3, <<E(2, "one"), [name |-> <<1, 2>>, node |-> "fifo"]>>),
   \* a directory that needs an index
   L |-> Dir(1, <<E(6, "one"), E(2, "one"), [name |-> <<3, 1>>, node |-> "fifo"], E(5, "empty"), E(4, "two"), E(1, "sym"), E(7, "chr")>>),
   \* directories below directories
   D |-> Dir(3, <<E(1, "B"), E(2, "E"), E(3, "one")>>),
   E |-> Dir(1, <<E(1, "one"), E(3, "sym")>>),
   \* a directory of MetadataSize cells
   F |-> Dir(1, <<E(1, "fifo"), E(2, "chr"), E(3, "sym")>>)]

Command == [sources |-> <<>>, keep |-> FALSE, append |-> FALSE, root_name |-> NoRoot, noI |-> FALSE,
            old_exclude |-> TRUE, old_excludes |-> <<>>, excludes |-> <<>>, sorts |-> <<>>]
Of(node) == [path |-> <<C(47), C(20)>>, node |-> node]
At(path, node) == [path |-> path, node |-> node]
Make(sources) == [Command EXCEPT !.sources = sources]
Append2(sources) == [Make(sources) EXCEPT !.append = TRUE]
Becomes(sources, n) == [Append2(sources) EXCEPT !.root_name = C(n)]

Sort(absolute, here, below, priority) == [absolute |-> absolute, here |-> here, below |-> below, priority |-> priority]
Pattern(sticky, path) == [sticky |-> sticky, path |-> path]

MCScenarios ==
  { \* a new file system, then more in its root
    <<Make(<<Of("A")>>), Append2(<<Of("L")>>)>>,
    \* a root with an index becomes a directory
    <<[Make(<<Of("L")>>) EXCEPT !.noI = TRUE], Becomes(<<Of("B")>>, 8)>>,
    \* several sources, two of one name, one without a name, one a file
    <<Make(<<At(<<C(47), C(9), DotDot, C(5)>>, "B"), At(<<C(7), C(5), Dot>>, "E"), At(<<DotDot>>, "A"), At(<<C(5)>>, "two")>>),
      Append2(<<At(<<C(5)>>, "one")>>)>>,
    \* sorted: a directory first, a file in it last; then a line that names two files
    <<[Make(<<Of("A")>>) EXCEPT !.sorts = <<Sort(FALSE, NoNode, <<"B">>, 5), Sort(TRUE, "three", <<>>, 3), Sort(FALSE, NoNode, <<"one", NoNode>>, -1)>>],
      [Append2(<<Of("L"), Of("B")>>) EXCEPT !.sorts = <<Sort(FALSE, NoNode, <<"one", "two">>, 1)>>]>>,
    \* patterns: a path, and one that applies everywhere
    <<[Make(<<Of("D")>>) EXCEPT !.old_exclude = FALSE,
         !.excludes = <<Pattern(FALSE, <<{C(1), C(2)}, {C(1)}>>), Pattern(TRUE, <<{C(3)}>>), Pattern(FALSE, <<{C(1)}>>)>>]>>,
    \* files named one by one; then an append to an empty root is refused
    <<[Make(<<Of("D")>>) EXCEPT !.old_excludes = <<[absolute |-> FALSE, found |-> {}, inSources |-> {{"one"}, {}}],
                                                   [absolute |-> TRUE, found |-> {"B"}, inSources |-> {}]>>],
      Make(<<Of("empty")>>), Append2(<<Of("B")>>)>> }

\* A root whose directory ends at the end of a block becomes a directory.
BoundaryScenarios == {<<Make(<<Of("F")>>), Becomes(<<Of("B")>>, 8)>>}
=============================================================================
