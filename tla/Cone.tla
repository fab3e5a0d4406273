--------------------------------- MODULE Cone ---------------------------------
(***************************************************************************)
(* Which files of a repository a request for a subdirectory selects: from  *)
(* the trees of the commit (sparse.go), and from the stream of a hosting   *)
(* platform's archive (git_archive.go).                                    *)
(***************************************************************************)
EXTENDS Staging

\* The directories on the way to subdir, the repository's root first.
ancestorDirs(subdir) == {SubSeq(subdir, 1, i) : i \in 0..(Len(subdir) - 1)} \cup {<<>>}

materialisable(kind) == kind \in {"file", "link"}

\* Whether a directory of a commit has a tree.  A commit is the set of its entries,
\* a tree being there when something is below it.
HasTree(commit, dir) == dir = <<>> \/ \E e \in commit : IsStrictPrefix(dir, e.name)

\* The entries of a commit that sparseEntries selects, and whether it returns no
\* error: all the directories on the way to subdir, and subdir, must have trees.
sparseEntries(commit, subdir) ==
  [ok |-> \A dir \in ancestorDirs(subdir) \cup {subdir} : HasTree(commit, dir),
   entries |-> {e \in commit :
                  /\ materialisable(e.kind)
                  /\ \/ Front(e.name) \in ancestorDirs(subdir)
                     \/ subdir # <<>> /\ IsStrictPrefix(subdir, e.name)}]

\* Fault: the files on the way to the subdirectory are left out.
archiveSelects_OnlySubdir(rel, subdir, isDir) ==
  [selected |-> IsPrefix(subdir, rel), under |-> IsPrefix(subdir, rel)]

\* Whether an entry of an archive is selected, and lies in the subdirectory.
archiveSelects(rel, subdir, isDir) ==
  LET under == IsPrefix(subdir, rel)
  IN  [selected |-> under \/ (~isDir /\ Front(rel) \in ancestorDirs(subdir)),
       under |-> under]

containsDotDot(name) == Contains(name, "..")

\* The name of an entry without the directory that wraps the whole archive; <<>> is
\* that directory itself.  A file of that very name is not it.
StripTop(e, top) ==
  IF IsPrefix(top, e.name) /\ (Len(e.name) > 1 \/ e.kind = "dir") THEN Tail(e.name) ELSE e.name

=============================================================================
