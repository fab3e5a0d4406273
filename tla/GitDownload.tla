----------------------------- MODULE GitDownload -----------------------------
(***************************************************************************)
(* Downloader.Download of protocols/git: the chain of attempts behind one  *)
(* git source.  Download tries each candidate URL; on each, gitDownload    *)
(* offers each credential; with each, cloneAndPrepare tries a sparse       *)
(* download, a fetch of the pinned commit and a full clone; when all of    *)
(* that fails and the ref is a commit hash, the hosting platform's archive *)
(* is the last resort.  Every route writes into the same directory.        *)
(*                                                                         *)
(* A Go error is the set of the sentinels errors.Is finds in it, {} being  *)
(* nil; errors.Join and %w are then union.                                 *)
(***************************************************************************)
EXTENDS Naturals, Sequences

CONSTANTS
  Worlds,    \* the sources, settings and remotes to consider, see World
  MaxFaults  \* bound: exchanges that fail although nothing is wrong

ASSUME MaxFaultsAssumption == MaxFaults \in Nat

(***************************************************************************)
(* A world is what is fixed while one Download runs.                       *)
(*   ref     how d.ref reads; "none" is the empty ref                      *)
(*   have    the spellings of a named ref the remote has                   *)
(*   commit  where the commit of a hash ref is: at the tip of the default  *)
(*           branch, in its history, on another branch only, unreachable   *)
(*           from any ref, or nowhere                                      *)
(*   subdir  "none", or what d.subdir is in the wanted tree                *)
(*   depth   an explicit clone depth is configured                         *)
(*   recurse settings.Git.RecurseSubmodules                                *)
(*   subs    the selection holds a submodule                               *)
(*   empty   the remote repository has no commit                           *)
(*   filter  the remote serves partial clones                              *)
(*   serves  "any" reachable commit by hash, or only "advertised" ones     *)
(*   public  the remote needs no credential                                *)
(*   urls    for every candidate URL the outcomes of its credential        *)
(*           sources: a failure, nothing, a credential the remote accepts  *)
(*           or one it rejects                                             *)
(*   archive the hosting platform serves archives of the repository        *)
(***************************************************************************)
Refs == {"none", "bare", "slashed", "qualified", "short", "full"}
Source == {"error", "nothing", "good", "bad"}

World ==
  [ref : Refs, have : SUBSET {"branch", "tag", "refs", "named"},
   commit : {"tip", "history", "branch", "orphan", "absent"},
   subdir : {"none", "dir", "file", "missing"},
   depth : BOOLEAN, recurse : BOOLEAN, subs : BOOLEAN, empty : BOOLEAN,
   filter : BOOLEAN, serves : {"any", "advertised"}, public : BOOLEAN,
   urls : Seq(Seq(Source)), archive : BOOLEAN]

\* There is a URL to try, and a remote with no commit has no refs.
ASSUME WorldsAssumption ==
  /\ Worlds \subseteq World
  /\ \A x \in Worlds : Len(x.urls) > 0 /\ (x.empty => x.have = {})

VARIABLES
  w,          \* the world
  pc,         \* the step Download is at
  url,        \* Download: the candidate being tried
  errs,       \* Download: the errors so far, joined
  source,     \* gitDownload: the credential source being tried
  attempted,  \* gitDownload: a credential has been offered
  credErrs,   \* gitDownload: the errors of the credentials offered
  cred,       \* the credential cloneAndPrepare runs with
  attempt,    \* cloneByAttempts: the spelling being tried
  repo,       \* cloneAndPrepare: the route that produced the repository
  tmp,        \* the contents of tmpDir
  ctx,        \* "live", or "done" once cancelled or timed out
  faults,     \* exchanges that failed so far
  consulted,  \* history: the credential sources resolved, per URL
  rejected,   \* history: the credentials the remote rejected, per URL
  result      \* what Download returned

chain == <<source, attempted, credErrs, cred>>
history == <<consulted, rejected>>
vars == <<w, pc, url, errs, chain, attempt, repo, tmp, ctx, faults, history, result>>

Hash == w.ref \in {"short", "full"}    \* looksLikeCommitHash
Pinned == w.ref = "full"               \* pinnedCommitEligible
Reachable == w.commit \in {"tip", "history", "branch"} /\ ~w.empty

-----------------------------------------------------------------------------
(***************************************************************************)
(* Errors.                                                                 *)
(***************************************************************************)
Sentinels == {"ref", "empty", "ctx", "auth", "sparse", "pinned", "other"}

definitiveCloneError(e) == e \cap {"ref", "empty", "ctx"} # {}
authFailure(e) == "auth" \in e

UnionOf(es) == UNION {es[k] : k \in 1..Len(es)}

\* What gitDownload returns once it has offered its last credential.
JoinedCredErrs(es) ==
  LET last == es[Len(es)]
  IN  IF Len(es) = 1 \/ authFailure(last)
      THEN last
      ELSE UnionOf(es)

(***************************************************************************)
(* One exchange with the remote ends in the remote's proper answer, in a   *)
(* rejection of the credential, in a passing failure, which a timeout of   *)
(* the network makes look like one of the context, or, once the context is *)
(* done, in a failure that may or may not say so.                          *)
(***************************************************************************)
Accepted == cred = "good" \/ (cred = "anonymous" /\ w.public)

Outcome(e, cost) == [err |-> e, cost |-> cost]

Passing(e) == IF faults < MaxFaults THEN {Outcome(e, 1)} ELSE {}

Exchange(proper) ==
  IF ctx = "done"
  THEN {Outcome({"ctx"}, 0), Outcome({"other"}, 0)}
  ELSE {Outcome(IF Accepted THEN proper ELSE {"auth"}, 0)}
         \cup Passing({"other"}) \cup Passing({"auth"}) \cup Passing({"ctx"})

(***************************************************************************)
(* What a route leaves in tmpDir: the route, on which URL and for which    *)
(* credential, and what of the repository it is.                           *)
(***************************************************************************)
Content == {"git", "tree", "anchor", "cone", "part", "snapshot", "submodules"}
From(route, what) == [url |-> url, source |-> source, route |-> route, what |-> what]

-----------------------------------------------------------------------------
Init ==
  /\ w \in Worlds
  /\ pc = "candidate" /\ url = 1 /\ errs = {}
  /\ source = 0 /\ attempted = FALSE /\ credErrs = <<>> /\ cred = "anonymous"
  /\ attempt = 1 /\ repo = "none"
  /\ tmp = {} /\ ctx = "live" /\ faults = 0
  /\ consulted = {} /\ rejected = {}
  /\ result = "none"

(***************************************************************************)
(* Returns of the three nested functions, as what the step ends with.      *)
(***************************************************************************)
Returns(r) ==
  /\ pc' = "done" /\ result' = r
  /\ UNCHANGED <<url, errs, chain, attempt, repo>>

\* Fault: a definitive answer does not end the loop over the URLs.
GitDownloadReturns_NoBreak(e) ==
  IF e = {}
  THEN Returns("ok")
  ELSE /\ errs' = errs \cup e /\ pc' = "candidate" /\ url' = url + 1
       /\ UNCHANGED <<chain, attempt, repo, result>>

\* gitDownload returns e to the loop of Download.
GitDownloadReturns(e) ==
  IF e = {}
  THEN Returns("ok")
  ELSE /\ errs' = errs \cup e
       /\ IF definitiveCloneError(e)
          THEN pc' = "fallback" /\ UNCHANGED url
          ELSE pc' = "candidate" /\ url' = url + 1
       /\ UNCHANGED <<chain, attempt, repo, result>>

\* Fault: any failure moves on to the next credential.
PrepareReturns_AnyError(e) ==
  /\ rejected' = IF authFailure(e) THEN rejected \cup {<<url, source>>} ELSE rejected
  /\ UNCHANGED consulted
  /\ IF e = {} \/ cred = "anonymous"
     THEN GitDownloadReturns(e)
     ELSE /\ pc' = "credential" /\ source' = source + 1
          /\ credErrs' = Append(credErrs, e)
          /\ UNCHANGED <<url, errs, attempted, cred, attempt, repo, result>>

\* cloneAndPrepare returns e to the loop of gitDownload.
PrepareReturns(e) ==
  /\ rejected' = IF authFailure(e) THEN rejected \cup {<<url, source>>} ELSE rejected
  /\ UNCHANGED consulted
  /\ IF e = {} \/ cred = "anonymous"
     THEN GitDownloadReturns(e)
     ELSE IF authFailure(e)
          THEN /\ pc' = "credential" /\ source' = source + 1
               /\ credErrs' = Append(credErrs, e)
               /\ UNCHANGED <<url, errs, attempted, cred, attempt, repo, result>>
          ELSE GitDownloadReturns(JoinedCredErrs(Append(credErrs, e)))

\* cloneAndPrepare goes on with another of its steps.
Goto(label) ==
  /\ pc' = label
  /\ UNCHANGED <<url, errs, chain, attempt, history, result>>

\* resetDir, which empties tmpDir, and what follows it.  Its failure ends the
\* function that called it.
Reset(after, failed) ==
  \/ tmp' = {} /\ after /\ UNCHANGED faults
  \/ faults < MaxFaults /\ faults' = faults + 1 /\ UNCHANGED tmp /\ failed

-----------------------------------------------------------------------------
(***************************************************************************)
(* Download: the loop over the candidate URLs.                             *)
(***************************************************************************)
\* Every candidate but the first finds tmpDir emptied.
Candidate ==
  /\ pc = "candidate" /\ url <= Len(w.urls)
  /\ IF url = 1
     THEN Goto("probe") /\ UNCHANGED <<repo, tmp, faults>>
     ELSE Reset(Goto("probe") /\ UNCHANGED repo, Returns("err") /\ UNCHANGED history)
  /\ UNCHANGED <<w, ctx>>

\* A failed probe moves on whatever the error is.
ProbeFails(e) ==
  /\ errs' = errs \cup e /\ pc' = "candidate" /\ url' = url + 1
  /\ UNCHANGED <<chain, attempt, repo, history, result>>

\* ProbeConnectFor.  Without a probe timeout it does nothing, so that a context
\* that is done need not fail it.
Probe ==
  /\ pc = "probe"
  /\ \/ Goto("guard") /\ UNCHANGED <<repo, faults>>
     \/ /\ faults < MaxFaults /\ faults' = faults + 1
        /\ ProbeFails({"other"})
     \/ /\ ctx = "done" /\ UNCHANGED faults
        /\ \E e \in {{"ctx"}, {"other"}} : ProbeFails(e)
  /\ UNCHANGED <<w, tmp, ctx>>

NoCandidate ==
  /\ pc = "candidate" /\ url > Len(w.urls)
  /\ pc' = "fallback"
  /\ UNCHANGED <<w, url, errs, chain, attempt, repo, tmp, ctx, faults, history, result>>

\* After the loop: the archive for a commit hash, or the joined errors.  Joining
\* no errors would be nil, which reads as success.
Fallback ==
  /\ pc = "fallback"
  /\ IF Hash /\ ctx = "live"
     THEN Reset(Goto("archive") /\ UNCHANGED repo, Returns("err") /\ UNCHANGED history)
     ELSE /\ Returns(IF errs = {} THEN "ok" ELSE "err")
          /\ UNCHANGED <<tmp, faults, history>>
  /\ UNCHANGED <<w, ctx>>

\* The platform has a tarball of the commit.
ArchiveServed == w.archive /\ w.commit # "absent" /\ ~w.empty

\* The tarball is cut down to the subdir while it is written, and archiveSelects
\* finds the subdir in it: any entry of that name will do, a regular file too.
SubdirFound == w.subdir # "missing"

\* fetchArchive.
Archive ==
  /\ pc = "archive"
  /\ \/ /\ ctx = "live" /\ ArchiveServed /\ SubdirFound
        /\ tmp' = tmp \cup {From("archive", "snapshot")}
        /\ Returns("ok") /\ UNCHANGED faults
     \/ /\ ctx = "done" \/ ~ArchiveServed \/ ~SubdirFound
        /\ \E left \in SUBSET {From("archive", "part")} : tmp' = tmp \cup left
        /\ Returns("err") /\ UNCHANGED faults
     \/ /\ ctx = "live" /\ faults < MaxFaults /\ faults' = faults + 1
        /\ \E left \in SUBSET {From("archive", "part")} : tmp' = tmp \cup left
        /\ Returns("err")
  /\ UNCHANGED <<w, ctx, history>>

-----------------------------------------------------------------------------
(***************************************************************************)
(* gitDownload: the loop over the credential sources of one URL.           *)
(***************************************************************************)
\* cloneAndPrepare begins with the narrowest route the source allows.
AfterSparse == IF Pinned THEN "pinned" ELSE "clone"
FirstRoute == IF w.subdir # "none" THEN "sparseClone" ELSE AfterSparse

\* Fault: the errors of the last URL are still in the list.
GuardHost_KeepsErrors ==
  /\ pc = "guard" /\ pc' = "credential"
  /\ source' = 1 /\ attempted' = FALSE
  /\ UNCHANGED <<w, url, errs, credErrs, cred, attempt, repo, tmp, ctx, faults, history, result>>

\* CheckSSRFHostFor and transportOptions, either of which may refuse.
GuardHost ==
  /\ pc = "guard"
  /\ \/ /\ pc' = "credential"
        /\ source' = 1 /\ attempted' = FALSE /\ credErrs' = <<>>
        /\ UNCHANGED <<url, errs, cred, attempt, repo, faults, result>>
     \/ faults < MaxFaults /\ faults' = faults + 1 /\ GitDownloadReturns({"other"})
     \/ ctx = "done" /\ UNCHANGED faults /\ GitDownloadReturns({"other"})
  /\ UNCHANGED <<w, tmp, ctx, history>>

\* The next source is resolved; only now, because resolving may run a helper.
Offer(s) ==
  /\ attempted' = TRUE /\ cred' = s
  /\ pc' = FirstRoute /\ attempt' = 1 /\ repo' = "none"
  /\ UNCHANGED <<url, errs, source, credErrs, result>>

Credential ==
  /\ pc = "credential" /\ source <= Len(w.urls[url])
  /\ LET s == w.urls[url][source]
     IN  \/ /\ s = "error" /\ GitDownloadReturns({"other"}) /\ UNCHANGED <<tmp, faults>>
         \/ /\ s = "nothing" /\ source' = source + 1
            /\ UNCHANGED <<pc, url, errs, attempted, credErrs, cred, attempt, repo,
                           tmp, faults, result>>
         \/ /\ s \in {"good", "bad"}
            /\ IF attempted
               THEN Reset(Offer(s), GitDownloadReturns(UnionOf(credErrs) \cup {"other"}))
               ELSE Offer(s) /\ UNCHANGED <<tmp, faults>>
  /\ consulted' = consulted \cup {<<url, source>>}
  /\ UNCHANGED <<w, ctx, rejected>>

\* No source is left.  If none offered a credential the remote may be public.
NoCredential ==
  /\ pc = "credential" /\ source > Len(w.urls[url])
  /\ IF attempted
     THEN GitDownloadReturns(JoinedCredErrs(credErrs))
     ELSE /\ cred' = "anonymous"
          /\ pc' = FirstRoute /\ attempt' = 1 /\ repo' = "none"
          /\ UNCHANGED <<url, errs, source, attempted, credErrs, result>>
  /\ UNCHANGED <<w, tmp, ctx, faults, history>>

-----------------------------------------------------------------------------
(***************************************************************************)
(* cloneByAttempts: one clone per spelling of the ref.                     *)
(***************************************************************************)
cloneAttempts ==
  CASE Hash -> <<"all">>
    [] w.ref = "none" -> <<"default">>
    [] w.ref = "qualified" -> <<"named">>
    [] w.ref = "bare" -> <<"branch", "tag">>
    [] w.ref = "slashed" -> <<"branch", "tag", "refs">>

Named(name) == name \notin {"all", "default"}

\* What the remote says to a clone at a spelling.  Over protocol v2 a missing ref
\* reads like an empty repository.
CloneAnswers(name) ==
  IF w.empty THEN {{"empty"}}
  ELSE IF Named(name) /\ name \notin w.have THEN {{"ref"}, {"empty"}}
  ELSE {{}}

missingRef(name, e) == "ref" \in e \/ (Named(name) /\ "empty" \in e)

\* What cloneByAttempts returns when the last spelling it tried failed with e.
CloneError(name, e) ==
  IF missingRef(name, e) /\ Named(name) THEN {"ref"} ELSE e

-----------------------------------------------------------------------------
(***************************************************************************)
(* sparseDownload: a blobless clone in a scratch directory, then the blobs *)
(* of the requested directory.  Only the last step touches tmpDir.         *)
(***************************************************************************)
sparseAttempts == IF Hash THEN <<"default">> ELSE cloneAttempts

\* sparseDownload returns the error e: a remote that cannot serve a partial clone
\* sends cloneAndPrepare on to the next route, anything else is its answer.
SparseReturns(e) ==
  IF "sparse" \in e
  THEN Goto("sparseFailed") /\ UNCHANGED repo
  ELSE PrepareReturns(e)

SparseClone ==
  /\ pc = "sparseClone"
  /\ LET name == sparseAttempts[attempt]
     IN  \E p \in IF w.filter THEN CloneAnswers(name) ELSE (CloneAnswers(name) \ {{}}) \cup {{"other"}} :
         \E o \in Exchange(p) :
           /\ faults' = faults + o.cost
           /\ \/ o.err = {} /\ Goto("sparseCommit") /\ UNCHANGED repo
              \/ /\ missingRef(name, o.err) /\ attempt < Len(sparseAttempts)
                 /\ attempt' = attempt + 1
                 /\ UNCHANGED <<pc, url, errs, chain, repo, history, result>>
              \/ /\ o.err # {} /\ ~(missingRef(name, o.err) /\ attempt < Len(sparseAttempts))
                 /\ LET e == CloneError(name, o.err)
                    IN  SparseReturns(IF definitiveCloneError(e) THEN e ELSE e \cup {"sparse"})
  /\ UNCHANGED <<w, tmp, ctx>>

\* sparseCommit for a ref that is no hash, or a hash the shallow clone of the
\* default branch has: nothing to fetch.
SparseCommitLocal ==
  /\ pc = "sparseCommit" /\ (~Hash \/ w.commit = "tip")
  /\ Goto("sparseSelect")
  /\ UNCHANGED <<w, repo, tmp, ctx, faults>>

\* A server that only serves advertised commits marks every failed fetch, so that
\* the failure is not read as an answer about the commit.
Restricted(e) ==
  {e} \cup (IF e # {} /\ w.serves = "advertised" THEN {e \cup {"sparse"}} ELSE {})

\* resolvePinnedCommit for a short hash: the history of the default branch is
\* fetched and searched for the prefix.
SparseGraph ==
  /\ pc = "sparseCommit" /\ w.ref = "short" /\ w.commit # "tip"
  /\ \E o \in Exchange({}) : \E e \in Restricted(o.err) :
       /\ faults' = faults + o.cost
       /\ IF e = {}
          THEN IF w.commit = "history"
               THEN Goto("sparseTrees") /\ UNCHANGED repo
               ELSE SparseReturns({"other"})
          ELSE SparseReturns(e)
  /\ UNCHANGED <<w, tmp, ctx>>

\* ensureCommitTrees: the commit is fetched by its full hash.
SparseTrees ==
  /\ pc = "sparseTrees" \/ (pc = "sparseCommit" /\ w.ref = "full" /\ w.commit # "tip")
  /\ \E o \in Exchange(IF w.serves = "advertised" THEN {"sparse"}
                       ELSE IF Reachable THEN {} ELSE {"ref"}) :
     \E e \in Restricted(o.err) :
       /\ faults' = faults + o.cost
       /\ IF e = {}
          THEN Goto("sparseSelect") /\ UNCHANGED repo
          ELSE SparseReturns(e)
  /\ UNCHANGED <<w, tmp, ctx>>

\* sparseEntries, needsWorktree and fetchBlobs.
SparseSelect ==
  /\ pc = "sparseSelect"
  /\ IF w.subdir # "dir"
     THEN SparseReturns({"other"}) /\ UNCHANGED faults
     ELSE IF w.subs /\ w.recurse
     THEN SparseReturns({"sparse"}) /\ UNCHANGED faults
     ELSE \E o \in Exchange(IF w.serves = "any" THEN {} ELSE {"other"}) :
            /\ faults' = faults + o.cost
            /\ IF o.err = {}
               THEN Goto("materialise") /\ UNCHANGED repo
               ELSE SparseReturns(o.err \cup {"sparse"})
  /\ UNCHANGED <<w, tmp, ctx>>

\* materialise writes file by file: it can fail with part of the files written,
\* and an object the remote did not deliver after all means the next route.
Materialise ==
  /\ pc = "materialise"
  /\ \/ /\ tmp' = tmp \cup {From("sparse", "cone")}
        /\ PrepareReturns({}) /\ UNCHANGED faults
     \/ /\ faults < MaxFaults /\ faults' = faults + 1
        /\ tmp' = tmp \cup {From("sparse", "part")}
        /\ SparseReturns({"other"}) \/ SparseReturns({"other", "sparse"})
  /\ UNCHANGED <<w, ctx>>

\* Fault: what the sparse download wrote stays.
SparseFallback_NoReset ==
  /\ pc = "sparseFailed" /\ pc' = AfterSparse /\ attempt' = 1
  /\ UNCHANGED <<w, url, errs, chain, repo, tmp, ctx, faults, history, result>>

SparseFallback ==
  /\ pc = "sparseFailed"
  /\ Reset(/\ pc' = AfterSparse /\ attempt' = 1
           /\ UNCHANGED <<url, errs, chain, repo, history, result>>,
           PrepareReturns({"other"}))
  /\ UNCHANGED <<w, ctx>>

-----------------------------------------------------------------------------
(***************************************************************************)
(* pinnedCommitClone: an empty repository in tmpDir and one commit in it.  *)
(***************************************************************************)
PinnedAnswer ==
  IF w.serves = "advertised"
  THEN IF w.commit = "tip" /\ ~w.empty THEN {} ELSE {"pinned"}
  ELSE IF Reachable THEN {} ELSE {"ref"}

\* Fault: a refusal to serve a commit by hash counts as its absence.
PinnedFinal_Refusal(e) == authFailure(e) \/ ctx = "done" \/ "other" \notin e

\* Which failures of the fetch a full clone would meet as well.
PinnedFinal(e) ==
  authFailure(e) \/ ctx = "done" \/ ("pinned" \notin e /\ definitiveCloneError(e))

\* git init refuses a directory that has a repository already.
HasRepository == \E x \in tmp : x.what = "git"

PinnedInitFails ==
  /\ pc = "pinned"
  /\ HasRepository \/ faults < MaxFaults
  /\ faults' = IF HasRepository THEN faults ELSE faults + 1
  /\ PrepareReturns({"other"})
  /\ UNCHANGED <<w, tmp, ctx>>

PinnedFetch ==
  /\ pc = "pinned" /\ ~HasRepository
  /\ tmp' = tmp \cup {From("pinned", "git")}
  /\ \E o \in Exchange(PinnedAnswer) :
       /\ faults' = faults + o.cost
       /\ \/ /\ o.err = {} /\ pc' = "checkout" /\ repo' = "pinned"
             /\ UNCHANGED <<url, errs, chain, attempt, history, result>>
          \/ /\ o.err # {} /\ PinnedFinal(o.err) /\ PrepareReturns(o.err)
          \/ /\ o.err # {} /\ ~PinnedFinal(o.err)
             /\ Goto("pinnedFailed") /\ UNCHANGED repo
  /\ UNCHANGED <<w, ctx>>

\* commitComplete finds objects missing from the pack.
PinnedIncomplete ==
  /\ pc = "pinned" /\ ~HasRepository
  /\ ctx = "live" /\ Accepted /\ PinnedAnswer = {}
  /\ faults < MaxFaults /\ faults' = faults + 1
  /\ tmp' = tmp \cup {From("pinned", "git")}
  /\ Goto("pinnedFailed")
  /\ UNCHANGED <<w, repo, ctx>>

\* Fault: the fallback of the fetch by hash is that fetch.
PinnedFallback_Again ==
  /\ pc = "pinnedFailed"
  /\ Reset(/\ pc' = "pinned" /\ attempt' = 1 /\ repo' = "none"
           /\ UNCHANGED <<url, errs, chain, history, result>>,
           PrepareReturns({"other"}))
  /\ UNCHANGED <<w, ctx>>

PinnedFallback ==
  /\ pc = "pinnedFailed"
  /\ Reset(/\ pc' = "clone" /\ attempt' = 1 /\ repo' = "none"
           /\ UNCHANGED <<url, errs, chain, history, result>>,
           PrepareReturns({"other"}))
  /\ UNCHANGED <<w, ctx>>

-----------------------------------------------------------------------------
(***************************************************************************)
(* The full clone, the checkout of a commit hash and the final checks.     *)
(***************************************************************************)
Submodules(route) == IF w.recurse /\ w.subs THEN {From(route, "submodules")} ELSE {}

\* Each spelling is cloned into a directory removed first.  For a hash the clone
\* has the default branch checked out and no submodules yet.
Cloned ==
  {From("clone", "git")} \cup
  (IF Hash THEN {From("clone", "anchor")}
   ELSE {From("clone", "tree")} \cup Submodules("clone"))

Clone ==
  /\ pc = "clone"
  /\ LET name == cloneAttempts[attempt]
     IN  \E p \in CloneAnswers(name) : \E o \in Exchange(p) :
           /\ faults' = faults + o.cost
           /\ \/ /\ o.err = {} /\ tmp' = Cloned
                 /\ pc' = (IF Hash THEN "checkout" ELSE "finish") /\ repo' = "clone"
                 /\ UNCHANGED <<url, errs, chain, attempt, history, result>>
              \/ /\ missingRef(name, o.err) /\ attempt < Len(cloneAttempts)
                 /\ attempt' = attempt + 1 /\ tmp' = {}
                 /\ UNCHANGED <<pc, url, errs, chain, repo, history, result>>
              \/ /\ o.err # {} /\ ~(missingRef(name, o.err) /\ attempt < Len(cloneAttempts))
                 /\ tmp' \in SUBSET {From("clone", "part")}
                 /\ PrepareReturns(CloneError(name, o.err))
  /\ UNCHANGED <<w, ctx>>

\* resolveCommitHash: the fetched commit, or one the clone brought.  A clone at an
\* explicit depth has the tips only.
Resolved ==
  repo = "pinned" \/ (Reachable /\ (w.depth => w.commit = "tip"))

\* The commit is checked out over the default branch, and then its submodules are.
Checkout ==
  /\ pc = "checkout"
  /\ \/ /\ ~Resolved /\ PrepareReturns({"other"}) /\ UNCHANGED <<tmp, faults>>
     \/ /\ faults < MaxFaults /\ faults' = faults + 1
        /\ PrepareReturns({"other"}) /\ UNCHANGED tmp
     \/ /\ Resolved
        /\ \E o \in IF w.recurse /\ w.subs THEN Exchange({}) ELSE {Outcome({}, 0)} :
             /\ faults' = faults + o.cost
             /\ tmp' = {x \in tmp : x.what # "anchor"} \cup {From(repo, "tree")}
                         \cup (IF o.err = {} THEN Submodules(repo) ELSE {})
             /\ IF o.err = {}
                THEN Goto("finish") /\ UNCHANGED repo
                ELSE PrepareReturns(o.err)
  /\ UNCHANGED <<w, ctx>>

\* .git is removed, an error doing so being ignored, and the subdir is looked for.
Finish ==
  /\ pc = "finish"
  /\ \/ tmp' = {x \in tmp : x.what # "git"} /\ UNCHANGED faults
     \/ faults < MaxFaults /\ faults' = faults + 1 /\ UNCHANGED tmp
  /\ PrepareReturns(IF w.subdir \in {"none", "dir"} THEN {} ELSE {"other"})
  /\ UNCHANGED <<w, ctx>>

-----------------------------------------------------------------------------
Cancel ==
  /\ pc # "done" /\ ctx = "live" /\ ctx' = "done"
  /\ UNCHANGED <<w, pc, url, errs, chain, attempt, repo, tmp, faults, history, result>>

Step ==
  \/ Candidate \/ Probe \/ NoCandidate \/ Fallback \/ Archive
  \/ GuardHost \/ Credential \/ NoCredential
  \/ SparseClone \/ SparseCommitLocal \/ SparseGraph \/ SparseTrees \/ SparseSelect
  \/ Materialise \/ SparseFallback
  \/ PinnedInitFails \/ PinnedFetch \/ PinnedIncomplete \/ PinnedFallback
  \/ Clone \/ Checkout \/ Finish

\* Download has returned.
Returned == pc = "done" /\ UNCHANGED vars

Next == Step \/ Cancel \/ Returned

Spec == Init /\ [][Next]_vars

\* Download runs on: every exchange with a remote ends, at the latest with the
\* context.  Nothing obliges the context to be cancelled.
FairSpec == Spec /\ WF_vars(Step)

-----------------------------------------------------------------------------
(***************************************************************************)
(* Properties.                                                             *)
(***************************************************************************)
Labels ==
  {"candidate", "probe", "fallback", "archive", "guard", "credential",
   "sparseClone", "sparseCommit", "sparseTrees", "sparseSelect", "materialise",
   "sparseFailed", "pinned", "pinnedFailed", "clone", "checkout", "finish", "done"}

\* Every variable keeps to its type; the loops stay within their lists, and one
\* error at most is kept for every credential offered on the URL at hand.
TypeOK ==
  /\ w \in World
  /\ pc \in Labels
  /\ url \in 1..(Len(w.urls) + 1) /\ errs \subseteq Sentinels
  /\ source \in Nat /\ attempted \in BOOLEAN /\ cred \in {"anonymous", "good", "bad"}
  /\ credErrs \in Seq(SUBSET Sentinels) /\ Len(credErrs) <= source
  /\ attempt \in 1..Len(cloneAttempts)
  /\ repo \in {"none", "pinned", "clone"}
  /\ tmp \subseteq [url : 1..(Len(w.urls) + 1), source : Nat,
                    route : {"sparse", "pinned", "clone", "archive"}, what : Content]
  /\ ctx \in {"live", "done"} /\ faults \in 0..MaxFaults
  /\ result \in {"none", "ok", "err"}

\* A Download that reports success left exactly one attempt's output in tmpDir:
\* whatever failed attempts wrote before it (resetDir at git.go:336, 502, 561, 582
\* and 369) is gone, the wanted commit is what is there and not the default
\* branch the full clone checks out first, and .git is there only if removing it
\* failed, an error cloneAndPrepare ignores.
CleanOutput ==
  result = "ok" =>
    /\ \A x, y \in tmp : <<x.url, x.source, x.route>> = <<y.url, y.source, y.route>>
    /\ \E x \in tmp : x.what \in {"tree", "cone", "snapshot"}
    /\ \A x \in tmp : x.what \notin {"anchor", "part"}
    /\ faults = 0 => \A x \in tmp : x.what # "git"

\* The credential chain of a URL reaches a credential the remote accepts: before
\* it, sources that have nothing or whose credential is rejected.
Reaches(sources) ==
  \/ \E k \in 1..Len(sources) :
       sources[k] = "good" /\ \A j \in 1..(k - 1) : sources[j] \in {"nothing", "bad"}
  \/ w.public /\ \A k \in 1..Len(sources) : sources[k] = "nothing"

\* The remote has the ref where the clone at hand would find it.  A short hash
\* with a subdirectory is searched for in the default branch only.
RefThere ==
  CASE w.ref = "none" -> ~w.empty
    [] w.ref = "qualified" -> "named" \in w.have
    [] w.ref = "bare" -> w.have \cap {"branch", "tag"} # {}
    [] w.ref = "slashed" -> w.have \cap {"branch", "tag", "refs"} # {}
    [] w.ref = "full" -> Reachable /\ (w.depth => w.commit = "tip" \/ w.serves = "any")
    [] w.ref = "short" -> /\ Reachable /\ (w.depth => w.commit = "tip")
                          /\ w.subdir # "none" => w.commit # "branch"

\* Download fails only for a reason: something went wrong on the way, the caller
\* gave up, or what was asked for is not to be had.  So no stale credential, no
\* URL without a credential and no remote that lacks partial clone or fetch by
\* hash keeps Download from a route that works, the archive of a commit hash
\* included (the promises of gitDownload's comment, git.go:460-467, and of the
\* README's scheme and orphaned commit fallbacks).
HealthyDownloadSucceeds ==
  result = "err" =>
    \/ faults > 0 \/ ctx = "done"
    \/ w.subdir \notin {"none", "dir"}
    \/ /\ ~RefThere \/ \A u \in 1..Len(w.urls) : ~Reaches(w.urls[u])
       /\ ~(Hash /\ ArchiveServed)

\* A credential source is resolved only when every earlier source of the URL had
\* nothing to offer or saw its credential rejected: a helper never runs, and no
\* secret is sent, after a failure another credential cannot cure (git.go:514).
LazyCredentials ==
  \A c \in consulted : \A k \in 1..(c[2] - 1) :
    w.urls[c[1]][k] = "nothing" \/ <<c[1], k>> \in rejected

\* Once the remote has said that the ref does not exist, or that the repository
\* is empty, no other URL is tried (the break at git.go:357): all that may follow
\* is the archive.
DefinitiveStops ==
  [][errs \cap {"ref", "empty"} # {} => url' = url /\ pc' \in {"fallback", "archive", "done"}]_vars

\* Download returns, whatever the remotes answer and whether or not the context
\* is ever cancelled: no chain of fallbacks leads back to an earlier attempt.
Terminates == <>(pc = "done")

-----------------------------------------------------------------------------
(***************************************************************************)
(* What the documentation says and the code does not do.                   *)
(***************************************************************************)
\* "resolving a short hash walks every ref" (README.md:92): a commit on any branch
\* is found by its short hash.
ShortHashWalksEveryRef ==
  result = "err" =>
    \/ faults > 0 \/ ctx = "done"
    \/ w.ref # "short" \/ ~Reachable \/ w.depth
    \/ w.subdir \notin {"none", "dir"}
    \/ \A u \in 1..Len(w.urls) : ~Reaches(w.urls[u])

\* "Directories off that path are excluded entirely" (README.md:98), and where the
\* remote cannot narrow "the result is always correct and only the transfer size
\* changes" (README.md:103): a subdirectory never comes with the whole tree.
ConeDelivered ==
  result = "ok" /\ w.subdir = "dir" => \A x \in tmp : x.what # "tree"

=============================================================================
