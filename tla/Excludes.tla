-------------------------------- MODULE Excludes --------------------------------
(***************************************************************************)
(* What mksquashfs leaves out.  Without -wildcards or -regex an exclude    *)
(* names a file and leaves out what has its device and inode.  With them   *)
(* an exclude is a path of patterns, kept in a tree by component; here a   *)
(* tree is the set of its paths from the root to a leaf, and a pattern is  *)
(* the set of the names it matches (fnmatch or regexec).                   *)
(***************************************************************************)
EXTENDS Sequences, SequencesExt

\* add_path: a path below a leaf adds nothing; a path to an inner component
\* replaces all below it.
AddPath(tree, path) ==
  IF \E q \in tree : IsPrefix(q, path) THEN tree
  ELSE {q \in tree : ~IsPrefix(path, q)} \cup {path}

\* add_exclude: "... path" goes to the sticky tree, which applies in every directory.
AddExclude(trees, exclude) ==
  IF exclude.sticky THEN [trees EXCEPT !.sticky = AddPath(@, exclude.path)]
  ELSE [trees EXCEPT !.path = AddPath(@, exclude.path)]

\* The trees of all the excludes of a command line, in their order.
Trees(excludes) == FoldLeft(AddExclude, [path |-> {}, sticky |-> {}], excludes)

\* The search set, NULL as the empty set: what main gives dir_scan.
TopPaths(trees) == {t \in {trees.path, trees.sticky} : t # {}}

\* The subtrees below the components of a tree that match a name.
Below(tree, name) ==
  {{Tail(q) : q \in {p \in tree : Head(p) = c}} : c \in {Head(p) : p \in {r \in tree : name \in Head(r)}}}

\* excluded: a leaf that matches excludes the name; otherwise the search set for
\* the names below it.
Excluded(paths, sticky, name) ==
  LET matching == UNION {Below(t, name) : t \in paths}
      leaf == \E subtree \in matching : <<>> \in subtree
  IN  [res |-> leaf,
       new |-> IF paths = {} \/ leaf THEN {}
               ELSE matching \cup (IF sticky = {} THEN {} ELSE {sticky})]

\* old_add_exclude: an absolute name is looked up as it is, another one below
\* every source; a name that is not found adds nothing.
OldAddExclude(excluded, exclude) ==
  excluded \cup (IF exclude.absolute THEN exclude.found ELSE UNION exclude.inSources)

\* old_excluded.
OldExcluded(excluded, node) == node \in excluded
=============================================================================
