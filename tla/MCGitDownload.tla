---------------------------- MODULE MCGitDownload ----------------------------
(***************************************************************************)
(* Worlds for GitDownload: two families, so that neither what the remote   *)
(* can serve nor what the credential chain holds is left out, without      *)
(* taking their product.                                                   *)
(***************************************************************************)
EXTENDS GitDownload

Plain ==
  [ref |-> "none", have |-> {}, commit |-> "absent", subdir |-> "none",
   depth |-> FALSE, recurse |-> FALSE, subs |-> FALSE, empty |-> FALSE,
   filter |-> TRUE, serves |-> "any", public |-> FALSE,
   urls |-> <<<<"good">>>>, archive |-> FALSE]

\* What a remote has for a named ref.
NamedWorlds ==
  {[Plain EXCEPT !.ref = r, !.have = h, !.subdir = d, !.empty = e, !.filter = f,
                 !.serves = v, !.recurse = s, !.subs = s] :
     r \in {"none", "bare", "slashed", "qualified"},
     h \in {{}, {"branch"}, {"tag"}, {"refs", "named"}},
     d \in {"none", "dir", "file", "missing"}, e \in BOOLEAN, f \in BOOLEAN,
     v \in {"any", "advertised"}, s \in BOOLEAN}

\* Where a remote has the commit of a hash ref, and how it serves it.
HashWorlds ==
  {[Plain EXCEPT !.ref = r, !.commit = c, !.subdir = d, !.depth = p, !.filter = f,
                 !.serves = v, !.recurse = s, !.subs = s, !.archive = a,
                 !.urls = <<<<"good">>, <<"good">>>>] :
     r \in {"short", "full"}, c \in {"tip", "history", "branch", "orphan", "absent"},
     d \in {"none", "dir", "file", "missing"}, p \in BOOLEAN, f \in BOOLEAN,
     v \in {"any", "advertised"}, s \in BOOLEAN, a \in BOOLEAN}

\* What the credential chains of the candidate URLs hold.
Chains == {<<"nothing">>, <<"good">>, <<"bad", "good">>, <<"error">>, <<"nothing", "bad">>}

AuthWorlds ==
  {[Plain EXCEPT !.ref = x[1], !.have = x[2], !.commit = x[3], !.subdir = d,
                 !.filter = f, !.public = p, !.urls = <<a, b>>] :
     x \in {<<"bare", {"branch"}, "absent">>, <<"bare", {}, "absent">>, <<"full", {}, "history">>},
     d \in {"none", "dir"}, f \in BOOLEAN, p \in BOOLEAN, a \in Chains, b \in Chains}

AllWorlds ==
  {x \in NamedWorlds : x.empty => x.have = {}} \cup HashWorlds \cup AuthWorlds

\* A repository whose commit is on a branch beside the default one.
SideBranch ==
  {[Plain EXCEPT !.ref = "short", !.commit = "branch", !.subdir = d] : d \in {"none", "dir"}}

\* A remote that does not serve partial clones.
NoFilter == {[Plain EXCEPT !.subdir = "dir", !.filter = f] : f \in BOOLEAN}

=============================================================================
