------------------------------- MODULE MCGrab -------------------------------
(***************************************************************************)
(* Sources and destinations for Grab.                                      *)
(***************************************************************************)
EXTENDS Grab, TLC

\* The old version is the longest, so that a tail of it would show.
MCBlocks == <<1, 2, 3>>
Old == 3

Dir(paths, v) ==
  [isFile |-> FALSE, got |-> paths, format |-> "plain", inner |-> {}, version |-> v,
   auto |-> TRUE, explicit |-> "none", inURL |-> "none"]

File(path, v) == [Dir({path}, v) EXCEPT !.isFile = TRUE]

Archive(v) == [File("a", v) EXCEPT !.format = "tree", !.inner = {"a", "b"}]

\* Two trees of one repository, which share a file and a link, and another version.
Trees == {Dir({"a", "b"}, 2), Dir({"b", "link"}, 2), Dir({"a", "link"}, 1)}

Checksums ==
  {[x EXCEPT !.explicit = e, !.inURL = u] :
     x \in {File("a", 1), Archive(1), Dir({"a", "b"}, 1)},
     e \in {"none", "match", "mismatch"}, u \in Checksum \cup {"malformed"}}

Formats ==
  {[Archive(2) EXCEPT !.auto = e, !.format = f, !.inner = IF f = "tree" THEN @ ELSE {}] :
     e \in BOOLEAN, f \in {"plain", "tree", "empty", "single"}}

\* Three Grabs that deliver; and three whose staging differs: one of every checksum,
\* one of every format, and one that is refused.
Refuse == [Dir({"link"}, 3) EXCEPT !.explicit = "mismatch"]
MCRequests ==
  [Grabs -> Trees \cup {Archive(1), File("b", 2)}]
  \cup {r \in [Grabs -> Checksums \cup Formats \cup {Refuse}] :
          \E g, h, k \in Grabs : r[g] \in Checksums /\ r[h] \in Formats /\ r[k] = Refuse}

OldTrees == {Nothing, "a" :> Content(Old) @@ "link" :> <<Old>>}

Symmetry == Permutations(Grabs)

Compressed == [Grabs -> {x \in Formats : x.format = "single"}]

=============================================================================
