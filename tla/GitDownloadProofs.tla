-------------------------- MODULE GitDownloadProofs --------------------------
(***************************************************************************)
(* The chain of attempts behind one git source, for every source, remote,  *)
(* list of URLs and credentials and number of failures.                    *)
(***************************************************************************)
EXTENDS GitDownload, TLAPS

-----------------------------------------------------------------------------
(***************************************************************************)
(* The phases of a Download.                                               *)
(***************************************************************************)
Sparse == {"sparseClone", "sparseCommit", "sparseTrees", "sparseSelect", "materialise"}
Routes == Sparse \cup {"sparseFailed", "pinned", "pinnedFailed", "clone", "checkout", "finish"}
Offering == {"credential"} \cup Routes
Ending == {"fallback", "archive", "done"}

\* The control state is of its type, and a URL and a credential source are at hand
\* where they are used.
Control ==
  /\ pc \in Labels
  /\ url \in 1..(Len(w.urls) + 1) /\ errs \subseteq Sentinels
  /\ source \in Nat /\ attempted \in BOOLEAN /\ cred \in {"anonymous", "good", "bad"}
  /\ credErrs \in Seq(SUBSET Sentinels) /\ Len(credErrs) <= source
  /\ attempt \in 1..Len(cloneAttempts)
  /\ repo \in {"none", "pinned", "clone"}
  /\ result \in {"none", "ok", "err"}
  /\ pc \in {"probe", "guard"} \cup Offering => url <= Len(w.urls)
  /\ pc \in Offering => source > 0
  /\ pc = "credential" /\ attempted => Len(credErrs) > 0
  /\ pc = "checkout" => repo # "none"

Entry == [url : 1..(Len(w.urls) + 1), source : Nat,
          route : {"sparse", "pinned", "clone", "archive"}, what : Content]

TypeInv ==
  /\ w \in Worlds /\ Control /\ tmp \subseteq Entry
  /\ ctx \in {"live", "done"} /\ faults \in 0..MaxFaults

LEMMA TypeInvType == TypeInv => TypeOK
  BY WorldsAssumption DEF TypeInv, Control, Entry, TypeOK

\* There is a spelling to try, and no more of them for a sparse download.
LEMMA AttemptFacts ==
  ASSUME w \in World
  PROVE  /\ Len(cloneAttempts) \in Nat \ {0}
         /\ Len(sparseAttempts) \in 1..Len(cloneAttempts)
<1>1. w.ref \in Refs
  BY DEF World
<1>2. CASE w.ref \in {"short", "full"}
  BY <1>2 DEF cloneAttempts, sparseAttempts, Hash
<1>3. CASE w.ref = "none"
  BY <1>3 DEF cloneAttempts, sparseAttempts, Hash
<1>4. CASE w.ref = "qualified"
  BY <1>4 DEF cloneAttempts, sparseAttempts, Hash
<1>5. CASE w.ref = "bare"
  BY <1>5 DEF cloneAttempts, sparseAttempts, Hash
<1>6. CASE w.ref = "slashed"
  BY <1>6 DEF cloneAttempts, sparseAttempts, Hash
<1> QED
  BY <1>1, <1>2, <1>3, <1>4, <1>5, <1>6 DEF Refs

\* What an exchange with the remote ends in.
LEMMA ExchangeFacts ==
  ASSUME faults \in 0..MaxFaults, NEW proper \in SUBSET Sentinels, NEW o \in Exchange(proper)
  PROVE  /\ o.err \in SUBSET Sentinels
         /\ o.cost \in {0, 1} /\ faults + o.cost \in 0..MaxFaults
         /\ \/ ctx = "done" /\ o.cost = 0 /\ o.err \in {{"ctx"}, {"other"}}
            \/ ctx # "done" /\ o.cost = 0 /\ o.err = (IF Accepted THEN proper ELSE {"auth"})
            \/ o.cost = 1 /\ o.err \in {{"other"}, {"auth"}, {"ctx"}}
<1> USE MaxFaultsAssumption
<1>1. CASE ctx = "done"
  <2>1. o = Outcome({"ctx"}, 0) \/ o = Outcome({"other"}, 0)
    BY <1>1 DEF Exchange
  <2> QED
    BY <1>1, <2>1 DEF Outcome, Sentinels
<1>2. CASE ctx # "done"
  <2>1. CASE o = Outcome(IF Accepted THEN proper ELSE {"auth"}, 0)
    <3>1. o.cost = 0 /\ o.err = (IF Accepted THEN proper ELSE {"auth"})
      BY <2>1 DEF Outcome
    <3> QED
      BY <1>2, <3>1 DEF Sentinels
  <2>2. CASE faults < MaxFaults /\ (o = Outcome({"other"}, 1) \/ o = Outcome({"auth"}, 1) \/ o = Outcome({"ctx"}, 1))
    BY <2>2 DEF Outcome, Sentinels
  <2> QED
    BY <1>2, <2>1, <2>2 DEF Exchange, Passing
<1> QED
  BY <1>1, <1>2

\* The errors of several credentials joined.
LEMMA UnionFacts ==
  ASSUME NEW es \in Seq(SUBSET Sentinels)
  PROVE  /\ UnionOf(es) \in SUBSET Sentinels
         /\ \A k \in 1..Len(es) : es[k] \subseteq UnionOf(es)
         /\ Len(es) > 0 => JoinedCredErrs(es) \in SUBSET Sentinels
  BY DEF UnionOf, JoinedCredErrs

-----------------------------------------------------------------------------
(***************************************************************************)
(* Types.                                                                  *)
(***************************************************************************)
LEMMA ReturnsTyped ==
  ASSUME Control, w \in World, w' = w, NEW r \in {"ok", "err"}, Returns(r)
  PROVE  Control'
  BY DEF Control, Returns, chain, cloneAttempts, Hash, Labels, Offering, Routes, Sparse

LEMMA GitDownloadReturnsTyped ==
  ASSUME Control, w \in World, w' = w, NEW e \in SUBSET Sentinels, GitDownloadReturns(e),
         pc \in {"probe", "guard"} \cup Offering
  PROVE  Control'
<1>1. CASE e = {}
  BY <1>1, ReturnsTyped DEF GitDownloadReturns
<1>2. CASE e # {}
  <2>1. cloneAttempts' = cloneAttempts
    BY DEF cloneAttempts, Hash
  <2>2. Len(w.urls) \in Nat
    BY DEF World
  <2> QED
    BY <1>2, <2>1, <2>2
       DEF Control, GitDownloadReturns, chain, Labels, Offering, Routes, Sparse
<1> QED
  BY <1>1, <1>2

LEMMA PrepareReturnsTyped ==
  ASSUME Control, w \in World, w' = w, NEW e \in SUBSET Sentinels, PrepareReturns(e),
         pc \in Routes
  PROVE  Control'
<1>1. pc \in Offering
  BY DEF Offering
<1>2. Append(credErrs, e) \in Seq(SUBSET Sentinels) /\ Len(Append(credErrs, e)) = Len(credErrs) + 1
  BY DEF Control
<1>3. JoinedCredErrs(Append(credErrs, e)) \in SUBSET Sentinels
  <2> DEFINE es == Append(credErrs, e)
  <2>1. es \in Seq(SUBSET Sentinels) /\ Len(es) > 0
    BY <1>2 DEF Control
  <2> HIDE DEF es
  <2>2. JoinedCredErrs(es) \in SUBSET Sentinels
    BY <2>1, UnionFacts
  <2> QED
    BY <2>2 DEF es
<1>4. CASE GitDownloadReturns(e) \/ GitDownloadReturns(JoinedCredErrs(Append(credErrs, e)))
  BY <1>1, <1>3, <1>4, GitDownloadReturnsTyped
<1>5. ASSUME pc' = "credential", source' = source + 1, credErrs' = Append(credErrs, e),
             UNCHANGED <<url, errs, attempted, cred, attempt, repo, result>>
      PROVE  Control'
  <2>1. cloneAttempts' = cloneAttempts
    BY DEF cloneAttempts, Hash
  <2> QED
    BY <1>1, <1>2, <1>5, <2>1 DEF Control, Labels, Offering
<1> QED
  BY <1>4, <1>5 DEF PrepareReturns

LEMMA GotoTyped ==
  ASSUME Control, w' = w, NEW label \in Labels \ {"credential", "checkout"}, Goto(label), UNCHANGED repo,
         label \in {"probe", "guard"} \cup Offering => url <= Len(w.urls),
         label \in Offering => source > 0
  PROVE  Control'
<1>1. cloneAttempts' = cloneAttempts
  BY DEF cloneAttempts, Hash
<1> QED
  BY <1>1 DEF Control, Goto, chain

LEMMA SparseReturnsTyped ==
  ASSUME Control, w \in World, w' = w, NEW e \in SUBSET Sentinels, SparseReturns(e),
         pc \in Routes
  PROVE  Control'
<1>1. CASE "sparse" \in e
  BY <1>1, GotoTyped DEF SparseReturns, Control, Labels, Offering, Routes
<1>2. CASE "sparse" \notin e
  BY <1>2, PrepareReturnsTyped DEF SparseReturns
<1> QED
  BY <1>1, <1>2

\* What a route adds to tmpDir is an entry.
LEMMA EntryTyped ==
  ASSUME Control, NEW route \in {"sparse", "pinned", "clone", "archive"}, NEW what \in Content
  PROVE  From(route, what) \in Entry
  BY DEF Control, From, Entry

LEMMA TypeInit == Init => TypeInv
<1> SUFFICES ASSUME Init PROVE TypeInv
  OBVIOUS
<1>1. w \in Worlds /\ w \in World /\ Len(w.urls) \in Nat \ {0}
  BY WorldsAssumption DEF Init, World
<1>2. Len(cloneAttempts) \in Nat \ {0}
  BY <1>1, AttemptFacts
<1>3. credErrs = <<>> /\ <<>> \in Seq(SUBSET Sentinels) /\ Len(<<>>) = 0
  BY DEF Init
<1>4. Control
  <2>1. url \in 1..(Len(w.urls) + 1) /\ attempt \in 1..Len(cloneAttempts)
    BY <1>1, <1>2 DEF Init
  <2>2. credErrs \in Seq(SUBSET Sentinels) /\ Len(credErrs) <= source
    BY <1>3 DEF Init
  <2> QED
    BY <2>1, <2>2 DEF Init, Control, Labels, Offering, Routes, Sparse
<1> QED
  BY <1>1, <1>4, MaxFaultsAssumption DEF Init, TypeInv

\* Every step keeps the types.
LEMMA TypeStep == TypeInv /\ [Next]_vars => TypeInv'
<1> SUFFICES ASSUME TypeInv, [Next]_vars PROVE TypeInv'
  OBVIOUS
<1>w. w \in World /\ w' = w
  BY WorldsAssumption
     DEF TypeInv, Next, Step, Returned, Cancel, vars, Candidate, Probe, NoCandidate, Fallback,
         Archive, GuardHost, Credential, NoCredential, SparseClone, SparseCommitLocal,
         SparseGraph, SparseTrees, SparseSelect, Materialise, SparseFallback, PinnedInitFails,
         PinnedFetch, PinnedIncomplete, PinnedFallback, Clone, Checkout, Finish
<1>a. Len(w.urls) \in Nat \ {0} /\ cloneAttempts' = cloneAttempts
  BY <1>w, WorldsAssumption DEF World, cloneAttempts, Hash, TypeInv
<1>e. Entry' = Entry
  BY <1>w DEF Entry
<1> USE MaxFaultsAssumption DEF TypeInv
<1>c. Control /\ tmp \subseteq Entry /\ ctx \in {"live", "done"} /\ faults \in 0..MaxFaults
  BY DEF TypeInv
<1>1. ASSUME NEW r \in {"ok", "err"}, Returns(r) PROVE Control'
  BY <1>1, <1>w, <1>c, ReturnsTyped
<1>2. ASSUME NEW label \in Labels \ {"credential", "checkout"}, Goto(label), UNCHANGED repo,
             label \in {"probe", "guard"} \cup Offering => url <= Len(w.urls),
             label \in Offering => source > 0
      PROVE  Control'
  BY <1>2, <1>w, <1>c, GotoTyped
<1>3. CASE Candidate
  <2>1. url <= Len(w.urls) /\ ((Goto("probe") /\ UNCHANGED repo) \/ Returns("err"))
    BY <1>3 DEF Candidate, Reset
  <2>2. Control'
    BY <2>1, <1>1, <1>2 DEF Labels, Offering, Routes, Sparse
  <2> QED
    BY <1>3, <1>c, <1>e, <1>w, <2>2 DEF Candidate, Reset, Goto
<1>4. CASE Probe
  <2>1. pc = "probe" /\ url <= Len(w.urls)
    BY <1>4, <1>c DEF Probe, Control
  <2>2. ASSUME NEW e \in SUBSET Sentinels, ProbeFails(e) PROVE Control'
    BY <1>a, <1>c, <1>w, <2>1, <2>2
       DEF ProbeFails, chain, Control, Labels, Offering, Routes, Sparse
  <2>3. \/ Goto("guard") /\ UNCHANGED repo
        \/ \E e \in SUBSET Sentinels : ProbeFails(e)
    BY <1>4 DEF Probe, Sentinels
  <2>4. Control'
    BY <1>2, <2>1, <2>2, <2>3 DEF Labels, Offering, Routes, Sparse
  <2> QED
    BY <1>4, <1>c, <1>e, <1>w, <2>4 DEF Probe
<1>5. CASE NoCandidate
  <2>1. Control'
    BY <1>5, <1>a, <1>c, <1>w DEF NoCandidate, chain, Control, Labels, Offering, Routes, Sparse
  <2> QED
    BY <1>5, <1>c, <1>e, <1>w, <2>1 DEF NoCandidate
<1>6. CASE Fallback
  <2>1. \/ Goto("archive") /\ UNCHANGED repo
        \/ Returns("ok") \/ Returns("err")
    BY <1>6 DEF Fallback, Reset
  <2>2. Control'
    BY <1>1, <1>2, <2>1 DEF Labels, Offering, Routes, Sparse
  <2> QED
    BY <1>6, <1>c, <1>e, <1>w, <2>2 DEF Fallback, Reset, Goto
<1>7. CASE Archive
  <2>1. Control'
    BY <1>1, <1>7 DEF Archive
  <2>2. From("archive", "snapshot") \in Entry /\ From("archive", "part") \in Entry
    BY <1>c, EntryTyped DEF Content
  <2>3. tmp' \subseteq Entry
    BY <1>7, <1>c, <2>2 DEF Archive
  <2> QED
    BY <1>7, <1>c, <1>e, <1>w, <2>1, <2>3 DEF Archive
<1>8. ASSUME NEW e \in SUBSET Sentinels, GitDownloadReturns(e),
             pc \in {"probe", "guard"} \cup Offering
      PROVE  Control'
  BY <1>8, <1>c, <1>w, GitDownloadReturnsTyped
<1>9. CASE GuardHost
  <2>1. ASSUME pc' = "credential", source' = 1, attempted' = FALSE, credErrs' = <<>>,
               UNCHANGED <<url, errs, cred, attempt, repo, result>>
        PROVE  Control'
    <3>1. <<>> \in Seq(SUBSET Sentinels) /\ Len(<<>>) = 0
      OBVIOUS
    <3>2. credErrs' \in Seq(SUBSET Sentinels) /\ Len(credErrs') <= source'
      BY <2>1, <3>1
    <3>3. url <= Len(w.urls) /\ attempted' \in BOOLEAN /\ ~attempted'
      BY <1>9, <1>c, <2>1 DEF GuardHost, Control
    <3> QED
      BY <1>a, <1>c, <1>w, <2>1, <3>2, <3>3 DEF Control, Labels, Offering
  <2>2. Control'
    BY <1>8, <1>9, <2>1 DEF GuardHost, Sentinels
  <2> QED
    BY <1>9, <1>c, <1>e, <1>w, <2>2 DEF GuardHost
<1>10. ASSUME NEW s \in {"anonymous", "good", "bad"}, cred' = s, attempted' \in BOOLEAN,
              pc = "credential", pc' = FirstRoute, attempt' = 1, repo' = "none",
              UNCHANGED <<url, errs, source, credErrs, result>>
       PROVE  Control'
  <2>1. Len(cloneAttempts) \in Nat \ {0} /\ source > 0 /\ url <= Len(w.urls)
    BY <1>10, <1>c, <1>w, AttemptFacts DEF Control, Offering
  <2>2. attempt' \in 1..Len(cloneAttempts')
    BY <1>10, <1>a, <2>1
  <2> QED
    BY <1>10, <1>c, <1>w, <2>1, <2>2
       DEF Control, FirstRoute, AfterSparse, Labels, Offering, Routes, Sparse
<1>11. CASE Credential
  <2>1. pc = "credential" /\ pc \in Offering /\ source > 0 /\ url <= Len(w.urls)
    BY <1>11, <1>c DEF Credential, Control, Offering
  <2>2. UnionOf(credErrs) \cup {"other"} \in SUBSET Sentinels
    BY <1>c, UnionFacts DEF Control, Sentinels
  <2>3. ASSUME UNCHANGED <<pc, url, errs, attempted, credErrs, cred, attempt, repo, result>>,
               source' = source + 1
        PROVE  Control'
    <3>1. Len(credErrs) \in Nat
      BY <1>c DEF Control
    <3>2. attempted' => attempted
      BY <2>3
    <3> QED
      BY <1>a, <1>c, <1>w, <2>1, <2>3, <3>1, <3>2 DEF Control
  <2>4. ASSUME NEW s \in {"good", "bad"}, Offer(s) PROVE Control'
    BY <1>10, <2>1, <2>4 DEF Offer
  <2>5. Control'
    BY <1>8, <1>11, <2>1, <2>2, <2>3, <2>4 DEF Credential, Reset, Sentinels
  <2> QED
    BY <1>11, <1>c, <1>e, <1>w, <2>5 DEF Credential, Reset
<1>12. CASE NoCredential
  <2>1. attempted => JoinedCredErrs(credErrs) \in SUBSET Sentinels
    BY <1>12, <1>c, UnionFacts DEF Control, NoCredential
  <2>2. Control'
    BY <1>8, <1>10, <1>12, <1>c, <2>1 DEF NoCredential, Control, Offering
  <2> QED
    BY <1>12, <1>c, <1>e, <1>w, <2>2 DEF NoCredential
<1>13. ASSUME NEW e \in SUBSET Sentinels, PrepareReturns(e), pc \in Routes PROVE Control'
  BY <1>13, <1>c, <1>w, PrepareReturnsTyped
<1>14. ASSUME NEW e \in SUBSET Sentinels, SparseReturns(e), pc \in Routes PROVE Control'
  BY <1>14, <1>c, <1>w, SparseReturnsTyped
<1>15. ASSUME pc \in Routes PROVE url <= Len(w.urls) /\ source > 0
  BY <1>15, <1>c DEF Control, Offering
<1>16. ASSUME NEW label \in Routes \ {"checkout"}, Goto(label), UNCHANGED repo, pc \in Routes PROVE Control'
  BY <1>2, <1>15, <1>16 DEF Labels, Routes, Sparse
<1>17. ASSUME attempt' = attempt + 1, attempt < Len(cloneAttempts),
              UNCHANGED <<pc, url, errs, chain, repo, result>>
       PROVE  Control'
  BY <1>17, <1>a, <1>c, <1>w DEF Control, chain
<1>19. CASE SparseCommitLocal
  <2>1. Control'
    BY <1>16, <1>19 DEF SparseCommitLocal, Routes, Sparse
  <2> QED
    BY <1>19, <1>c, <1>e, <1>w, <2>1 DEF SparseCommitLocal
<1>20. ASSUME NEW e \in SUBSET Sentinels, NEW r \in Restricted(e) PROVE r \in SUBSET Sentinels
  BY <1>20 DEF Restricted, Sentinels
<1>21. ASSUME NEW proper \in SUBSET Sentinels, NEW o \in Exchange(proper)
       PROVE  o.err \in SUBSET Sentinels /\ faults + o.cost \in 0..MaxFaults
  BY <1>c, <1>21, ExchangeFacts
<1>22. CASE SparseGraph
  <2>1. PICK o \in Exchange({}) : \E e \in Restricted(o.err) :
          /\ faults' = faults + o.cost
          /\ \/ Goto("sparseTrees") /\ UNCHANGED repo
             \/ SparseReturns({"other"})
             \/ SparseReturns(e)
    BY <1>22 DEF SparseGraph
  <2>2. o.err \in SUBSET Sentinels /\ faults' \in 0..MaxFaults
    BY <1>21, <2>1
  <2>3. Control'
    BY <1>14, <1>16, <1>20, <1>22, <2>1, <2>2 DEF SparseGraph, Routes, Sparse, Sentinels
  <2> QED
    BY <1>22, <1>c, <1>e, <1>w, <2>2, <2>3 DEF SparseGraph
<1>23. CASE SparseTrees
  <2> DEFINE answer == IF w.serves = "advertised" THEN {"sparse"}
                       ELSE IF Reachable THEN {} ELSE {"ref"}
  <2>1. answer \in SUBSET Sentinels
    BY DEF Sentinels
  <2>2. PICK o \in Exchange(answer) : \E e \in Restricted(o.err) :
          /\ faults' = faults + o.cost
          /\ (Goto("sparseSelect") /\ UNCHANGED repo) \/ SparseReturns(e)
    BY <1>23 DEF SparseTrees
  <2> HIDE DEF answer
  <2>3. o.err \in SUBSET Sentinels /\ faults' \in 0..MaxFaults
    BY <1>21, <2>1, <2>2
  <2>4. Control'
    BY <1>14, <1>16, <1>20, <1>23, <2>2, <2>3 DEF SparseTrees, Routes, Sparse
  <2> QED
    BY <1>23, <1>c, <1>e, <1>w, <2>3, <2>4 DEF SparseTrees
<1>24. CASE SparseSelect
  <2>1. pc \in Routes /\ {"other"} \in SUBSET Sentinels /\ {"sparse"} \in SUBSET Sentinels
    BY <1>24 DEF SparseSelect, Routes, Sparse, Sentinels
  <2>2. ASSUME NEW o \in Exchange(IF w.serves = "any" THEN {} ELSE {"other"}),
               faults' = faults + o.cost,
               \/ Goto("materialise") /\ UNCHANGED repo
               \/ SparseReturns(o.err \cup {"sparse"})
        PROVE  Control' /\ faults' \in 0..MaxFaults
    <3>1. (IF w.serves = "any" THEN {} ELSE {"other"}) \in SUBSET Sentinels
      BY <2>1
    <3>2. o.err \in SUBSET Sentinels /\ faults' \in 0..MaxFaults
      BY <1>21, <2>2, <3>1
    <3>3. o.err \cup {"sparse"} \in SUBSET Sentinels
      BY <2>1, <3>2
    <3> QED
      BY <1>14, <1>16, <2>1, <2>2, <3>2, <3>3 DEF Routes, Sparse
  <2>3. Control' /\ faults' \in 0..MaxFaults
    BY <1>14, <1>24, <1>c, <2>1, <2>2 DEF SparseSelect
  <2> QED
    BY <1>24, <1>c, <1>e, <1>w, <2>3 DEF SparseSelect
<1>25. CASE Materialise
  <2>1. pc \in Routes /\ {} \in SUBSET Sentinels /\ {"other"} \in SUBSET Sentinels
        /\ {"other", "sparse"} \in SUBSET Sentinels
    BY <1>25 DEF Materialise, Routes, Sparse, Sentinels
  <2>2. Control'
    BY <1>13, <1>14, <1>25, <2>1 DEF Materialise
  <2>3. From("sparse", "cone") \in Entry /\ From("sparse", "part") \in Entry
    BY <1>c, EntryTyped DEF Content
  <2> QED
    BY <1>25, <1>c, <1>e, <1>w, <2>2, <2>3 DEF Materialise
<1>26. CASE SparseClone
  <2>1. pc \in Routes /\ Len(sparseAttempts) <= Len(cloneAttempts)
        /\ Len(sparseAttempts) \in Nat /\ Len(cloneAttempts) \in Nat
    BY <1>26, <1>w, AttemptFacts DEF SparseClone, Routes, Sparse
  <2> DEFINE name == sparseAttempts[attempt]
             answers == IF w.filter THEN CloneAnswers(name)
                        ELSE (CloneAnswers(name) \ {{}}) \cup {{"other"}}
             marked(e) == IF definitiveCloneError(e) THEN e ELSE e \cup {"sparse"}
  <2>2. PICK p \in answers : \E o \in Exchange(p) :
          /\ faults' = faults + o.cost
          /\ \/ Goto("sparseCommit") /\ UNCHANGED repo
             \/ /\ attempt < Len(sparseAttempts) /\ attempt' = attempt + 1
                /\ UNCHANGED <<pc, url, errs, chain, repo, history, result>>
             \/ SparseReturns(marked(CloneError(name, o.err)))
    BY <1>26 DEF SparseClone
  <2>3. p \in SUBSET Sentinels
    BY <2>2 DEF CloneAnswers, Sentinels
  <2>4. \A e \in SUBSET Sentinels : marked(CloneError(name, e)) \in SUBSET Sentinels
    BY DEF CloneError, Sentinels
  <2> HIDE DEF name, answers, marked
  <2>5. PICK o \in Exchange(p) :
          /\ faults' = faults + o.cost
          /\ \/ Goto("sparseCommit") /\ UNCHANGED repo
             \/ /\ attempt < Len(sparseAttempts) /\ attempt' = attempt + 1
                /\ UNCHANGED <<pc, url, errs, chain, repo, history, result>>
             \/ SparseReturns(marked(CloneError(name, o.err)))
    BY <2>2
  <2>6. o.err \in SUBSET Sentinels /\ faults' \in 0..MaxFaults
    BY <1>21, <2>3, <2>5
  <2>7. marked(CloneError(name, o.err)) \in SUBSET Sentinels
    BY <2>4, <2>6
  <2>8. CASE attempt < Len(sparseAttempts) /\ attempt' = attempt + 1
             /\ UNCHANGED <<pc, url, errs, chain, repo, history, result>>
    <3>1. attempt < Len(cloneAttempts)
      BY <1>c, <2>1, <2>8 DEF Control
    <3>2. Control'
      BY <1>17, <2>8, <3>1
    <3> QED
      BY <1>26, <1>c, <1>e, <1>w, <2>6, <3>2 DEF SparseClone
  <2>9. CASE (Goto("sparseCommit") /\ UNCHANGED repo)
             \/ SparseReturns(marked(CloneError(name, o.err)))
    <3>1. Control'
      BY <1>14, <1>16, <2>1, <2>7, <2>9 DEF Routes, Sparse
    <3> QED
      BY <1>26, <1>c, <1>e, <1>w, <2>6, <3>1 DEF SparseClone
  <2> QED
    BY <2>5, <2>8, <2>9
<1>27. ASSUME pc \in Routes, pc' \in Routes, attempt' \in {1, attempt},
              repo' \in {"none", "pinned", "clone"}, pc' = "checkout" => repo' # "none",
              UNCHANGED <<url, errs, chain, result>>
       PROVE  Control'
  <2>1. Len(cloneAttempts) \in Nat \ {0}
    BY <1>w, AttemptFacts
  <2> QED
    BY <1>15, <1>27, <1>a, <1>c, <1>w, <2>1 DEF Control, chain, Labels, Offering, Routes, Sparse
<1>28. {} \in SUBSET Sentinels /\ {"other"} \in SUBSET Sentinels
  BY DEF Sentinels
<1>29. CASE SparseFallback
  <2>1. pc \in Routes /\ AfterSparse \in Routes \ {"checkout"} /\ repo \in {"none", "pinned", "clone"}
    BY <1>29, <1>c DEF SparseFallback, AfterSparse, Routes, Control
  <2>2. Control'
    BY <1>13, <1>27, <1>28, <1>29, <2>1 DEF SparseFallback, Reset
  <2> QED
    BY <1>29, <1>c, <1>e, <1>w, <2>2 DEF SparseFallback, Reset
<1>30. CASE PinnedInitFails
  <2>1. Control'
    BY <1>13, <1>28, <1>30 DEF PinnedInitFails, Routes
  <2> QED
    BY <1>30, <1>c, <1>e, <1>w, <2>1 DEF PinnedInitFails
<1>31. From("pinned", "git") \in Entry
  BY <1>c, EntryTyped DEF Content
<1>32. CASE PinnedFetch
  <2>1. PinnedAnswer \in SUBSET Sentinels
    BY DEF PinnedAnswer, Sentinels
  <2>2. PICK o \in Exchange(PinnedAnswer) :
          /\ faults' = faults + o.cost
          /\ \/ /\ pc' = "checkout" /\ repo' = "pinned"
                /\ UNCHANGED <<url, errs, chain, attempt, history, result>>
             \/ PrepareReturns(o.err)
             \/ Goto("pinnedFailed") /\ UNCHANGED repo
    BY <1>32 DEF PinnedFetch
  <2>3. o.err \in SUBSET Sentinels /\ faults' \in 0..MaxFaults
    BY <1>21, <2>1, <2>2
  <2>4. Control'
    BY <1>13, <1>16, <1>27, <1>32, <2>2, <2>3 DEF PinnedFetch, Routes
  <2> QED
    BY <1>31, <1>32, <1>c, <1>e, <1>w, <2>3, <2>4 DEF PinnedFetch
<1>33. CASE PinnedIncomplete
  <2>1. Control'
    BY <1>16, <1>33 DEF PinnedIncomplete, Routes
  <2> QED
    BY <1>31, <1>33, <1>c, <1>e, <1>w, <2>1 DEF PinnedIncomplete
<1>34. CASE PinnedFallback
  <2>1. Control'
    BY <1>13, <1>27, <1>28, <1>34 DEF PinnedFallback, Reset, Routes
  <2> QED
    BY <1>34, <1>c, <1>e, <1>w, <2>1 DEF PinnedFallback, Reset
<1>35. ASSUME NEW route \in {"pinned", "clone"} PROVE Submodules(route) \subseteq Entry
  BY <1>c, EntryTyped DEF Submodules, Content
<1>36. CASE Clone
  <2>1. pc \in Routes
    BY <1>36 DEF Clone, Routes
  <2> DEFINE name == cloneAttempts[attempt]
  <2>2. PICK p \in CloneAnswers(name) : \E o \in Exchange(p) :
          /\ faults' = faults + o.cost
          /\ \/ /\ tmp' = Cloned
                /\ pc' = (IF Hash THEN "checkout" ELSE "finish") /\ repo' = "clone"
                /\ UNCHANGED <<url, errs, chain, attempt, history, result>>
             \/ /\ attempt < Len(cloneAttempts) /\ attempt' = attempt + 1 /\ tmp' = {}
                /\ UNCHANGED <<pc, url, errs, chain, repo, history, result>>
             \/ /\ tmp' \in SUBSET {From("clone", "part")}
                /\ PrepareReturns(CloneError(name, o.err))
    BY <1>36 DEF Clone
  <2>3. p \in SUBSET Sentinels
    BY <2>2 DEF CloneAnswers, Sentinels
  <2>4. \A e \in SUBSET Sentinels : CloneError(name, e) \in SUBSET Sentinels
    BY DEF CloneError, Sentinels
  <2> HIDE DEF name
  <2>5. PICK o \in Exchange(p) :
          /\ faults' = faults + o.cost
          /\ \/ /\ tmp' = Cloned
                /\ pc' = (IF Hash THEN "checkout" ELSE "finish") /\ repo' = "clone"
                /\ UNCHANGED <<url, errs, chain, attempt, history, result>>
             \/ /\ attempt < Len(cloneAttempts) /\ attempt' = attempt + 1 /\ tmp' = {}
                /\ UNCHANGED <<pc, url, errs, chain, repo, history, result>>
             \/ /\ tmp' \in SUBSET {From("clone", "part")}
                /\ PrepareReturns(CloneError(name, o.err))
    BY <2>2
  <2>6. CloneError(name, o.err) \in SUBSET Sentinels /\ faults' \in 0..MaxFaults
    BY <1>21, <2>3, <2>4, <2>5
  <2>7. Control'
    BY <1>13, <1>17, <1>27, <2>1, <2>5, <2>6 DEF Routes
  <2>8. Cloned \subseteq Entry /\ From("clone", "part") \in Entry
    BY <1>35, <1>c, EntryTyped DEF Cloned, Content
  <2> QED
    BY <1>36, <1>c, <1>e, <1>w, <2>5, <2>6, <2>7, <2>8 DEF Clone
<1>37. CASE Checkout
  <2>1. pc \in Routes
    BY <1>37 DEF Checkout, Routes
  <2> DEFINE answers == IF w.recurse /\ w.subs THEN Exchange({}) ELSE {Outcome({}, 0)}
  <2>2. \A o \in answers : o.err \in SUBSET Sentinels /\ faults + o.cost \in 0..MaxFaults
    BY <1>21, <1>28, <1>c DEF Outcome
  <2>3. CASE \E o \in answers :
               /\ faults' = faults + o.cost
               /\ tmp' = {x \in tmp : x.what # "anchor"} \cup {From(repo, "tree")}
                           \cup (IF o.err = {} THEN Submodules(repo) ELSE {})
               /\ IF o.err = {}
                  THEN Goto("finish") /\ UNCHANGED repo
                  ELSE PrepareReturns(o.err)
    <3> HIDE DEF answers
    <3>1. PICK o \in answers :
               /\ faults' = faults + o.cost
               /\ tmp' = {x \in tmp : x.what # "anchor"} \cup {From(repo, "tree")}
                           \cup (IF o.err = {} THEN Submodules(repo) ELSE {})
               /\ IF o.err = {}
                  THEN Goto("finish") /\ UNCHANGED repo
                  ELSE PrepareReturns(o.err)
      BY <2>3
    <3>2. Control' /\ faults' \in 0..MaxFaults
      BY <1>13, <1>16, <2>1, <2>2, <3>1 DEF Routes
    <3>3. repo \in {"pinned", "clone"}
      BY <1>37, <1>c DEF Checkout, Control
    <3>4. tmp' \subseteq Entry
      BY <1>35, <1>c, <3>1, <3>3, EntryTyped DEF Content
    <3> QED
      BY <1>37, <1>c, <1>e, <1>w, <3>2, <3>4 DEF Checkout
  <2>4. CASE PrepareReturns({"other"}) /\ UNCHANGED tmp /\ faults' \in 0..MaxFaults
    <3>1. Control'
      BY <1>13, <1>28, <2>1, <2>4
    <3> QED
      BY <1>37, <1>c, <1>e, <1>w, <2>4, <3>1 DEF Checkout
  <2> QED
    BY <1>37, <1>c, <2>3, <2>4 DEF Checkout
<1>38. CASE Finish
  <2>1. Control'
    BY <1>13, <1>28, <1>38 DEF Finish, Routes
  <2> QED
    BY <1>38, <1>c, <1>e, <1>w, <2>1 DEF Finish
<1>39. CASE Cancel \/ UNCHANGED vars
  <2>1. Control'
    BY <1>39, <1>a, <1>c, <1>w DEF Cancel, vars, chain, Control
  <2> QED
    BY <1>39, <1>c, <1>e, <1>w, <2>1 DEF Cancel, vars
<1> QED
  BY <1>3, <1>4, <1>5, <1>6, <1>7, <1>9, <1>11, <1>12, <1>19, <1>22, <1>23, <1>24, <1>25,
     <1>26, <1>29, <1>30, <1>32, <1>33, <1>34, <1>36, <1>37, <1>38, <1>39
     DEF Next, Step, Returned

\* The chain of attempts keeps its types: no loop runs out of its list, and every
\* step of cloneAndPrepare has a URL and a credential to work with.
THEOREM TypeCorrect == Spec => []TypeOK
<1>1. Init => TypeInv
  BY TypeInit
<1>2. TypeInv /\ [Next]_vars => TypeInv'
  BY TypeStep
<1>3. TypeInv => TypeOK
  BY TypeInvType
<1> QED
  BY <1>1, <1>2, <1>3, PTL DEF Spec

-----------------------------------------------------------------------------
(***************************************************************************)
(* The credential chain.                                                   *)
(***************************************************************************)
\* While a URL is worked on, the sources before the one at hand had nothing or saw
\* their credential rejected.
SourcesSpent ==
  pc \in Offering =>
    \A k \in 1..(source - 1) : w.urls[url][k] = "nothing" \/ <<url, k>> \in rejected

LazyInv == LazyCredentials /\ SourcesSpent

\* What does not touch the chain keeps it.
LEMMA LazyKept ==
  ASSUME LazyInv, w' = w, consulted' = consulted, rejected \subseteq rejected',
         pc' \in Offering => pc \in Offering /\ url' = url /\ source' = source
  PROVE  LazyInv'
  BY DEF LazyInv, LazyCredentials, SourcesSpent

\* A credential is left behind only when the remote rejected it.
LEMMA PrepareLazy ==
  ASSUME LazyInv, TypeInv, w' = w, NEW e, PrepareReturns(e), pc \in Routes
  PROVE  LazyInv'
<1>1. consulted' = consulted /\ rejected \subseteq rejected'
  BY DEF PrepareReturns
<1>2. CASE pc' \notin Offering
  BY <1>1, <1>2, LazyKept
<1>3. CASE pc' \in Offering
  <2>1. url' = url /\ source' = source + 1 /\ <<url, source>> \in rejected'
    BY <1>3 DEF PrepareReturns, GitDownloadReturns, Returns, Offering, Routes, Sparse
  <2>2. \A k \in 1..source : w.urls[url][k] = "nothing" \/ <<url, k>> \in rejected'
    BY <1>1, <2>1 DEF LazyInv, SourcesSpent, TypeInv, Control, Offering
  <2>3. SourcesSpent'
    BY <2>1, <2>2 DEF SourcesSpent, TypeInv, Control
  <2> QED
    BY <1>1, <2>3 DEF LazyInv, LazyCredentials
<1> QED
  BY <1>2, <1>3

\* Every step consults the next source only, and only when the last was of no use.
LEMMA LazyStep == TypeInv /\ LazyInv /\ [Next]_vars => LazyInv'
<1> SUFFICES ASSUME TypeInv, LazyInv, [Next]_vars PROVE LazyInv'
  OBVIOUS
<1> USE DEF chain, history
<1>1. ASSUME NEW e, PrepareReturns(e), pc \in Routes, w' = w PROVE LazyInv'
  BY <1>1, PrepareLazy
<1>2. ASSUME NEW label \in Routes, Goto(label), pc \in Routes, w' = w PROVE LazyInv'
  BY <1>2, LazyKept DEF Goto, Offering
<1>3. ASSUME NEW e, SparseReturns(e), pc \in Routes, w' = w PROVE LazyInv'
  BY <1>1, <1>2, <1>3 DEF SparseReturns, Routes
<1>4. ASSUME pc' \notin Offering, UNCHANGED <<w, history>> PROVE LazyInv'
  BY <1>4, LazyKept
<1>5. ASSUME pc \in Offering, UNCHANGED <<w, url, source, history>> PROVE LazyInv'
  BY <1>5, LazyKept
<1>6. ASSUME NEW e, GitDownloadReturns(e) PROVE pc' \notin Offering
  BY <1>6 DEF GitDownloadReturns, Returns, Offering, Routes, Sparse
<1>7. CASE Candidate \/ Probe \/ NoCandidate \/ Fallback \/ Archive
  BY <1>4, <1>7
     DEF Candidate, Probe, ProbeFails, NoCandidate, Fallback, Archive, Reset, Goto, Returns,
         Offering, Routes, Sparse
<1>8. CASE GuardHost
  <2>1. CASE pc' = "credential" /\ source' = 1
    BY <1>8, <2>1 DEF GuardHost, LazyInv, LazyCredentials, SourcesSpent
  <2> QED
    BY <1>4, <1>6, <1>8, <2>1 DEF GuardHost
<1>9. CASE Credential
  <2> DEFINE s == w.urls[url][source]
  <2>1. /\ w' = w /\ rejected' = rejected /\ consulted' = consulted \cup {<<url, source>>}
        /\ pc = "credential" /\ pc \in Offering /\ source \in Nat
    BY <1>9 DEF Credential, Offering, TypeInv, Control
  <2>2. LazyCredentials'
    <3>1. ASSUME NEW c \in consulted', NEW k \in 1..(c[2] - 1)
          PROVE  w.urls[c[1]][k] = "nothing" \/ <<c[1], k>> \in rejected
      <4>1. CASE c \in consulted
        BY <4>1 DEF LazyInv, LazyCredentials
      <4>2. CASE c = <<url, source>>
        BY <2>1, <4>2 DEF LazyInv, SourcesSpent
      <4> QED
        BY <2>1, <4>1, <4>2
    <3> QED
      BY <2>1, <3>1 DEF LazyCredentials
  <2>3. \/ pc' \notin Offering
        \/ url' = url /\ source' = source
        \/ url' = url /\ source' = source + 1 /\ s = "nothing"
    BY <1>6, <1>9 DEF Credential, Reset, Offer
  <2>4. SourcesSpent'
    BY <2>1, <2>3 DEF LazyInv, SourcesSpent
  <2> QED
    BY <2>2, <2>4 DEF LazyInv
<1>10. CASE NoCredential
  BY <1>4, <1>5, <1>6, <1>10 DEF NoCredential, Offering
<1>11. CASE SparseClone
  <2>1. pc \in Routes /\ w' = w
    BY <1>11 DEF SparseClone, Routes, Sparse
  <2>2. \/ Goto("sparseCommit") \/ UNCHANGED <<url, chain, history>>
        \/ \E e : SparseReturns(e)
    BY <1>11 DEF SparseClone
  <2> QED
    BY <1>2, <1>3, <1>5, <2>1, <2>2 DEF Routes, Sparse, Offering
<1>12. CASE SparseCommitLocal \/ SparseGraph \/ SparseTrees \/ SparseSelect
  <2>1. pc \in Routes /\ w' = w
    BY <1>12 DEF SparseCommitLocal, SparseGraph, SparseTrees, SparseSelect, Routes, Sparse
  <2>2. \/ Goto("sparseSelect") \/ Goto("sparseTrees") \/ Goto("materialise")
        \/ \E e : SparseReturns(e)
    BY <1>12 DEF SparseCommitLocal, SparseGraph, SparseTrees, SparseSelect
  <2> QED
    BY <1>2, <1>3, <2>1, <2>2 DEF Routes, Sparse
<1>13. CASE Materialise \/ PinnedInitFails \/ Finish
  <2>1. pc \in Routes /\ w' = w
    BY <1>13 DEF Materialise, PinnedInitFails, Finish, Routes, Sparse
  <2>2. \E e : PrepareReturns(e) \/ SparseReturns(e)
    BY <1>13 DEF Materialise, PinnedInitFails, Finish
  <2> QED
    BY <1>1, <1>3, <2>1, <2>2
<1>14. CASE SparseFallback \/ PinnedFallback
  <2>1. pc \in Routes /\ w' = w
    BY <1>14 DEF SparseFallback, PinnedFallback, Routes
  <2>2. UNCHANGED <<url, chain, history>> \/ \E e : PrepareReturns(e)
    BY <1>14 DEF SparseFallback, PinnedFallback, Reset
  <2> QED
    BY <1>1, <1>5, <2>1, <2>2 DEF Offering
<1>15. CASE PinnedFetch \/ PinnedIncomplete
  <2>1. pc \in Routes /\ w' = w
    BY <1>15 DEF PinnedFetch, PinnedIncomplete, Routes
  <2>2. \/ UNCHANGED <<url, chain, history>> \/ Goto("pinnedFailed")
        \/ \E e : PrepareReturns(e)
    BY <1>15 DEF PinnedFetch, PinnedIncomplete
  <2> QED
    BY <1>1, <1>2, <1>5, <2>1, <2>2 DEF Offering, Routes
<1>16. CASE Clone \/ Checkout
  <2>1. pc \in Routes /\ w' = w
    BY <1>16 DEF Clone, Checkout, Routes
  <2>2. \/ UNCHANGED <<url, chain, history>> \/ Goto("finish")
        \/ \E e : PrepareReturns(e)
    BY <1>16 DEF Clone, Checkout
  <2> QED
    BY <1>1, <1>2, <1>5, <2>1, <2>2 DEF Offering, Routes
<1>17. CASE Cancel \/ UNCHANGED vars
  BY <1>17, LazyKept DEF Cancel, vars
<1> QED
  BY <1>7, <1>8, <1>9, <1>10, <1>11, <1>12, <1>13, <1>14, <1>15, <1>16, <1>17
     DEF Next, Step, Returned

\* LazyCredentials (git.go:514) holds of every behaviour: no helper runs and no secret
\* is sent after a failure that another credential cannot cure.
THEOREM LazyCredentialsCorrect == Spec => []LazyCredentials
<1>1. Init => TypeInv /\ LazyInv
  BY TypeInit DEF Init, LazyInv, LazyCredentials, SourcesSpent, Offering, Routes, Sparse
<1>2. TypeInv /\ LazyInv /\ [Next]_vars => TypeInv' /\ LazyInv'
  BY TypeStep, LazyStep
<1>3. LazyInv => LazyCredentials
  BY DEF LazyInv
<1> QED
  BY <1>1, <1>2, <1>3, PTL DEF Spec

-----------------------------------------------------------------------------
(***************************************************************************)
(* The definitive answers.                                                 *)
(***************************************************************************)
\* With a definitive answer among the errors the loop over the URLs is left.
StopInv == errs \cap {"ref", "empty"} # {} => pc \in Ending

\* A definitive answer ends the loop, whichever of the nested functions gives it.
LEMMA GitDownloadStops ==
  ASSUME StopInv, NEW e, GitDownloadReturns(e), pc \in {"guard"} \cup Offering
  PROVE  StopInv'
<1>1. errs \cap {"ref", "empty"} = {}
  BY DEF StopInv, Ending, Offering, Routes, Sparse
<1> QED
  BY <1>1 DEF StopInv, GitDownloadReturns, Returns, definitiveCloneError, Ending

LEMMA PrepareStops ==
  ASSUME StopInv, NEW e, PrepareReturns(e), pc \in Routes
  PROVE  StopInv'
<1>1. CASE GitDownloadReturns(e) \/ GitDownloadReturns(JoinedCredErrs(Append(credErrs, e)))
  BY <1>1, GitDownloadStops DEF Offering
<1>2. CASE errs' = errs
  BY <1>2 DEF StopInv, Ending, Routes, Sparse
<1> QED
  BY <1>1, <1>2 DEF PrepareReturns

\* Every step keeps a Download that has its answer among the steps that end it.
LEMMA StopStep == StopInv /\ [Next]_vars => StopInv'
<1> SUFFICES ASSUME StopInv, [Next]_vars PROVE StopInv'
  OBVIOUS
<1> USE DEF chain
<1>1. ASSUME NEW e, PrepareReturns(e), pc \in Routes PROVE StopInv'
  BY <1>1, PrepareStops
<1>2. ASSUME errs' = errs, pc \notin Ending PROVE StopInv'
  BY <1>2 DEF StopInv
<1>3. ASSUME NEW e, SparseReturns(e), pc \in Routes PROVE StopInv'
  <2>1. pc \notin Ending
    BY <1>3 DEF Ending, Routes, Sparse
  <2> QED
    BY <1>1, <1>2, <1>3, <2>1 DEF SparseReturns, Goto
<1>4. CASE Candidate \/ NoCandidate
  BY <1>2, <1>4 DEF Candidate, NoCandidate, Reset, Goto, Returns, Ending
<1>5. CASE Probe
  BY <1>5 DEF Probe, ProbeFails, Goto, StopInv, Ending
<1>6. CASE Fallback \/ Archive
  BY <1>6 DEF Fallback, Archive, Reset, Goto, Returns, StopInv, Ending
<1>7. CASE GuardHost
  BY <1>2, <1>7, GitDownloadStops DEF GuardHost, Ending
<1>8. CASE Credential \/ NoCredential
  <2>1. pc \in Offering /\ pc \notin Ending
    BY <1>8 DEF Credential, NoCredential, Offering, Ending
  <2>2. errs' = errs \/ \E e : GitDownloadReturns(e)
    BY <1>8 DEF Credential, NoCredential, Reset, Offer
  <2> QED
    BY <1>2, <2>1, <2>2, GitDownloadStops
<1>9. CASE SparseClone \/ SparseCommitLocal \/ SparseGraph \/ SparseTrees \/ SparseSelect
  <2>1. pc \in Routes /\ pc \notin Ending
    BY <1>9 DEF SparseClone, SparseCommitLocal, SparseGraph, SparseTrees, SparseSelect,
                Routes, Sparse, Ending
  <2>2. errs' = errs \/ \E e : SparseReturns(e)
    BY <1>9 DEF SparseClone, SparseCommitLocal, SparseGraph, SparseTrees, SparseSelect, Goto
  <2> QED
    BY <1>2, <1>3, <2>1, <2>2
<1>10. CASE Materialise \/ PinnedInitFails \/ Finish \/ SparseFallback \/ PinnedFallback
  <2>1. pc \in Routes /\ pc \notin Ending
    BY <1>10 DEF Materialise, PinnedInitFails, Finish, SparseFallback, PinnedFallback,
                 Routes, Sparse, Ending
  <2>2. errs' = errs \/ \E e : PrepareReturns(e) \/ SparseReturns(e)
    BY <1>10 DEF Materialise, PinnedInitFails, Finish, SparseFallback, PinnedFallback, Reset
  <2> QED
    BY <1>1, <1>2, <1>3, <2>1, <2>2
<1>11. CASE PinnedFetch \/ PinnedIncomplete \/ Clone \/ Checkout
  <2>1. pc \in Routes /\ pc \notin Ending
    BY <1>11 DEF PinnedFetch, PinnedIncomplete, Clone, Checkout, Routes, Sparse, Ending
  <2>2. errs' = errs \/ \E e : PrepareReturns(e)
    BY <1>11 DEF PinnedFetch, PinnedIncomplete, Clone, Checkout, Goto
  <2> QED
    BY <1>1, <1>2, <2>1, <2>2
<1>12. CASE Cancel \/ UNCHANGED vars
  BY <1>12 DEF Cancel, vars, StopInv
<1> QED
  BY <1>4, <1>5, <1>6, <1>7, <1>8, <1>9, <1>10, <1>11, <1>12 DEF Next, Step, Returned

\* From there the Download only goes on to its end.
LEMMA EndingStep ==
  ASSUME [Next]_vars, pc \in Ending
  PROVE  url' = url /\ pc' \in Ending
<1>1. CASE Step
  <2>1. Fallback \/ Archive
    BY <1>1
       DEF Step, Ending, Candidate, Probe, NoCandidate, GuardHost, Credential, NoCredential,
           SparseClone, SparseCommitLocal, SparseGraph, SparseTrees, SparseSelect, Materialise,
           SparseFallback, PinnedInitFails, PinnedFetch, PinnedIncomplete, PinnedFallback, Clone,
           Checkout, Finish
  <2> QED
    BY <2>1 DEF Fallback, Archive, Reset, Goto, Returns, Ending
<1>2. CASE Cancel \/ UNCHANGED vars
  BY <1>2 DEF Cancel, vars
<1> QED
  BY <1>1, <1>2 DEF Next, Returned

\* DefinitiveStops (git.go:357) holds of every behaviour: after the remote said that the
\* ref does not exist, or that there is nothing in the repository, no other URL is tried.
THEOREM DefinitiveStopsCorrect == Spec => DefinitiveStops
<1>1. Init => StopInv
  BY DEF Init, StopInv
<1>2. StopInv /\ [Next]_vars => StopInv'
  BY StopStep
<1>3. StopInv /\ [Next]_vars =>
        [errs \cap {"ref", "empty"} # {} => url' = url /\ pc' \in {"fallback", "archive", "done"}]_vars
  BY EndingStep DEF StopInv, Ending
<1> QED
  BY <1>1, <1>2, <1>3, PTL DEF Spec, DefinitiveStops

-----------------------------------------------------------------------------
(***************************************************************************)
(* The output directory.                                                   *)
(***************************************************************************)
\* Nothing is lost on the way to the final error: a result is only there at the end,
\* a URL that was given up left an error, and only rejections are collected.
ErrorsKept ==
  /\ pc # "done" => result = "none"
  /\ url > 1 \/ pc = "fallback" => errs # {}
  /\ \A k \in 1..Len(credErrs) : "auth" \in credErrs[k]

\* What tmpDir holds at each step; only a credential that was offered can be rejected and
\* leave something behind for the next one.
Holds ==
  /\ \/ pc \in {"probe", "guard", "archive", "pinned", "clone"} \cup Sparse
     \/ pc = "candidate" /\ url = 1
     \/ pc = "credential" /\ ~attempted
     => tmp = {}
  /\ pc \in Routes /\ cred # "anonymous" => attempted
  /\ pc = "checkout" => tmp \subseteq {From(repo, "git"), From(repo, "anchor")}
  /\ pc = "finish" =>
       /\ tmp \subseteq {From(repo, "git"), From(repo, "tree"), From(repo, "submodules")}
       /\ From(repo, "tree") \in tmp

CleanInv == ErrorsKept /\ Holds /\ CleanOutput

\* Joining the errors of the credentials that were offered gives an error.
LEMMA JoinedError ==
  ASSUME NEW es \in Seq(SUBSET Sentinels), Len(es) > 0, \A k \in 1..Len(es) : es[k] # {}
  PROVE  JoinedCredErrs(es) # {}
<1>1. Len(es) \in 1..Len(es) /\ es[Len(es)] # {}
  OBVIOUS
<1>2. es[Len(es)] \subseteq UnionOf(es)
  BY <1>1, UnionFacts
<1> QED
  BY <1>1, <1>2 DEF JoinedCredErrs

\* A step that leaves everything these invariants speak of alone keeps them.
LEMMA CleanKept == CleanInv /\ UNCHANGED vars => CleanInv'
  BY DEF CleanInv, ErrorsKept, Holds, CleanOutput, From, vars, chain

\* An error of a URL leads on, to the next URL or to the end of the loop.
LEMMA GitDownloadClean ==
  ASSUME TypeInv, CleanInv, NEW e, e # {}, GitDownloadReturns(e), pc \in {"guard"} \cup Offering
  PROVE  CleanInv'
<1>1. result = "none" /\ url \in Nat \ {0}
  <2>1. pc # "done"
    BY DEF Offering, Routes, Sparse
  <2>2. url \in 1..(Len(w.urls) + 1) /\ w \in World
    BY WorldsAssumption DEF TypeInv, Control
  <2> QED
    BY <2>1, <2>2 DEF CleanInv, ErrorsKept
<1>2. /\ errs' # {} /\ result' = "none" /\ credErrs' = credErrs
      /\ pc' = "fallback" \/ (pc' = "candidate" /\ url' = url + 1)
  BY <1>1 DEF GitDownloadReturns, chain
<1>3. ErrorsKept'
  BY <1>2 DEF CleanInv, ErrorsKept
<1>4. Holds'
  BY <1>1, <1>2 DEF Holds, Routes, Sparse
<1> QED
  BY <1>2, <1>3, <1>4 DEF CleanInv, CleanOutput

\* An error of cloneAndPrepare leads on, to the next credential or out of the URL.
LEMMA PrepareClean ==
  ASSUME TypeInv, CleanInv, NEW e \in SUBSET Sentinels, e # {}, PrepareReturns(e), pc \in Routes
  PROVE  CleanInv'
<1> DEFINE es == Append(credErrs, e)
<1>1. credErrs \in Seq(SUBSET Sentinels) /\ pc \in Offering
  BY DEF TypeInv, Control, Offering
<1>2. es \in Seq(SUBSET Sentinels) /\ Len(es) > 0 /\ Len(es) = Len(credErrs) + 1
  BY <1>1
<1>3. \A k \in 1..Len(es) : es[k] = e \/ "auth" \in es[k]
  BY <1>1 DEF CleanInv, ErrorsKept
<1>4. CASE GitDownloadReturns(e)
  BY <1>1, <1>4, GitDownloadClean
<1>5. CASE GitDownloadReturns(JoinedCredErrs(es))
  <2>1. \A k \in 1..Len(es) : es[k] # {}
    BY <1>3
  <2> HIDE DEF es
  <2>2. JoinedCredErrs(es) # {}
    BY <1>2, <2>1, JoinedError
  <2> QED
    BY <1>1, <1>5, <2>2, GitDownloadClean
<1>6. CASE /\ cred # "anonymous" /\ "auth" \in e
           /\ pc' = "credential" /\ source' = source + 1 /\ credErrs' = es
           /\ UNCHANGED <<url, errs, attempted, cred, attempt, repo, result>>
  <2>1. pc # "done" /\ pc # "fallback"
    BY DEF Routes, Sparse
  <2>2. ErrorsKept'
    BY <1>3, <1>6, <2>1 DEF CleanInv, ErrorsKept
  <2>3. Holds'
    BY <1>6 DEF CleanInv, Holds, Routes, Sparse
  <2>4. result' # "ok"
    BY <1>6, <2>1 DEF CleanInv, ErrorsKept
  <2> QED
    BY <2>2, <2>3, <2>4 DEF CleanInv, CleanOutput
<1> QED
  BY <1>4, <1>5, <1>6 DEF PrepareReturns, authFailure

\* cloneAndPrepare goes on to a step that finds in tmpDir what it needs.
LEMMA RouteClean ==
  ASSUME CleanInv, pc \in Routes, pc' \in Routes, UNCHANGED <<url, errs, chain, result>>,
         pc' \in {"pinned", "clone"} \cup Sparse => tmp' = {},
         (pc = "checkout" => tmp \subseteq {From(repo, "git"), From(repo, "anchor")})',
         (pc = "finish" =>
            /\ tmp \subseteq {From(repo, "git"), From(repo, "tree"), From(repo, "submodules")}
            /\ From(repo, "tree") \in tmp)'
  PROVE  CleanInv'
<1>1. pc # "done" /\ pc' \notin {"done", "fallback", "probe", "guard", "archive", "candidate", "credential"}
  BY DEF Routes, Sparse
<1>2. result' = "none" /\ ErrorsKept'
  BY <1>1 DEF CleanInv, ErrorsKept, chain
<1>3. Holds'
  BY <1>1 DEF CleanInv, Holds, chain
<1> QED
  BY <1>2, <1>3 DEF CleanInv, CleanOutput

\* The sparse download fails, or the remote turns out not to serve partial clones.
LEMMA SparseClean ==
  ASSUME TypeInv, CleanInv, NEW e \in SUBSET Sentinels, e # {}, SparseReturns(e), pc \in Routes
  PROVE  CleanInv'
<1>1. CASE Goto("sparseFailed")
  BY <1>1, RouteClean DEF Goto, chain, Routes, Sparse
<1> QED
  BY <1>1, PrepareClean DEF SparseReturns

\* Success leaves the output of the one attempt that succeeded.
LEMMA SuccessClean ==
  ASSUME CleanInv, Returns("ok"), NEW route,
         tmp' \subseteq {From(route, what) : what \in Content \ {"anchor", "part"}},
         \E x \in tmp' : x.what \in {"tree", "cone", "snapshot"},
         faults' = 0 => \A x \in tmp' : x.what # "git"
  PROVE  CleanInv'
<1>1. ErrorsKept' /\ Holds'
  BY DEF CleanInv, ErrorsKept, Holds, Returns, chain, Routes, Sparse
<1>2. \A x \in tmp' : x.url = url /\ x.source = source /\ x.route = route
                       /\ x.what \notin {"anchor", "part"}
  BY DEF From
<1>3. CleanOutput'
  BY <1>2 DEF CleanOutput
<1> QED
  BY <1>1, <1>3 DEF CleanInv

\* Every step leaves tmpDir fit for the next.
LEMMA CleanStep == TypeInv /\ CleanInv /\ [Next]_vars => CleanInv'
<1> SUFFICES ASSUME TypeInv, CleanInv, [Next]_vars PROVE CleanInv'
  OBVIOUS
<1>1. ASSUME NEW e \in SUBSET Sentinels, e # {}, PrepareReturns(e), pc \in Routes PROVE CleanInv'
  BY <1>1, PrepareClean
<1>2. ASSUME NEW e \in SUBSET Sentinels, e # {}, SparseReturns(e), pc \in Routes PROVE CleanInv'
  BY <1>2, SparseClean
<1>3. ASSUME NEW label \in Routes \ {"checkout", "finish"}, Goto(label), pc \in Routes,
             label \in {"pinned", "clone"} \cup Sparse => tmp' = {}
      PROVE  CleanInv'
  BY <1>3, RouteClean DEF Goto
<1>4. ASSUME Returns("err") PROVE CleanInv'
  BY <1>4 DEF Returns, chain, CleanInv, ErrorsKept, Holds, CleanOutput, Routes, Sparse
<1>5. ASSUME NEW e, e # {}, GitDownloadReturns(e), pc \in {"guard"} \cup Offering PROVE CleanInv'
  BY <1>5, GitDownloadClean
<1>6. {"other"} \in SUBSET Sentinels /\ {"other"} # {}
  BY DEF Sentinels
<1>7. CASE Candidate
  <2>1. ASSUME Goto("probe"), tmp' = {} PROVE CleanInv'
    BY <1>7, <2>1
       DEF Candidate, Goto, chain, CleanInv, ErrorsKept, Holds, CleanOutput, Routes, Sparse
  <2>2. CASE url = 1
    BY <1>7, <2>1, <2>2 DEF Candidate, CleanInv, Holds
  <2>3. CASE url # 1
    BY <1>4, <1>7, <2>1, <2>3 DEF Candidate, Reset
  <2> QED
    BY <2>2, <2>3
<1>8. CASE Probe
  <2>1. CASE Goto("guard")
    BY <1>8, <2>1
       DEF Probe, Goto, chain, CleanInv, ErrorsKept, Holds, CleanOutput, Routes, Sparse
  <2>2. ASSUME NEW e \in {{"other"}, {"ctx"}}, ProbeFails(e) PROVE CleanInv'
    <3>1. url \in Nat /\ url > 0
      <4>1. url \in 1..(Len(w.urls) + 1) /\ w \in World
        BY WorldsAssumption DEF TypeInv, Control
      <4> QED
        BY <4>1 DEF World
    <3> QED
      BY <1>8, <2>2, <3>1
         DEF Probe, ProbeFails, chain, CleanInv, ErrorsKept, Holds, CleanOutput, Routes, Sparse
  <2> QED
    BY <1>8, <2>1, <2>2 DEF Probe
<1>9. CASE NoCandidate
  <2>1. url > 1
    <3>1. url \in 1..(Len(w.urls) + 1) /\ w \in World /\ Len(w.urls) > 0
      BY WorldsAssumption DEF TypeInv, Control
    <3> QED
      BY <1>9, <3>1 DEF NoCandidate, World
  <2> QED
    BY <1>9, <2>1
       DEF NoCandidate, chain, CleanInv, ErrorsKept, Holds, CleanOutput, Routes, Sparse
<1>10. CASE Fallback
  <2>1. ASSUME Goto("archive"), tmp' = {} PROVE CleanInv'
    BY <1>10, <2>1
       DEF Fallback, Goto, chain, CleanInv, ErrorsKept, Holds, CleanOutput, Routes, Sparse
  <2>2. errs # {}
    BY <1>10 DEF Fallback, CleanInv, ErrorsKept
  <2> QED
    BY <1>4, <1>10, <2>1, <2>2 DEF Fallback, Reset
<1>11. CASE Archive
  <2>1. ASSUME Returns("ok"), tmp' = tmp \cup {From("archive", "snapshot")} PROVE CleanInv'
    <3>1. tmp' = {From("archive", "snapshot")}
      BY <1>11, <2>1 DEF Archive, CleanInv, Holds
    <3>2. From("archive", "snapshot").what = "snapshot"
      BY DEF From
    <3>3. tmp' \subseteq {From("archive", what) : what \in Content \ {"anchor", "part"}}
      BY <3>1 DEF Content
    <3> QED
      BY <2>1, <3>1, <3>2, <3>3, SuccessClean
  <2> QED
    BY <1>4, <1>11, <2>1 DEF Archive
<1>12. CASE GuardHost
  <2>1. CASE pc' = "credential" /\ attempted' = FALSE /\ credErrs' = <<>>
             /\ UNCHANGED <<url, errs, result, tmp>>
    BY <1>12, <2>1
       DEF GuardHost, CleanInv, ErrorsKept, Holds, CleanOutput, Routes, Sparse
  <2> QED
    BY <1>5, <1>6, <1>12, <2>1 DEF GuardHost
<1>13. ASSUME pc = "credential", pc' = FirstRoute, tmp' = {},
              attempted' \/ cred' = "anonymous", UNCHANGED <<url, errs, credErrs, result>>
       PROVE  CleanInv'
  <2>1. pc' \in {"sparseClone", "pinned", "clone"}
    BY <1>13 DEF FirstRoute, AfterSparse
  <2> QED
    BY <1>13, <2>1 DEF CleanInv, ErrorsKept, Holds, CleanOutput, Routes, Sparse
<1>14. CASE Credential
  <2>1. pc = "credential" /\ pc \in Offering
    BY <1>14 DEF Credential, Offering
  <2>2. CASE UNCHANGED <<pc, url, errs, attempted, credErrs, cred, attempt, repo, tmp, faults, result>>
    BY <2>1, <2>2 DEF CleanInv, ErrorsKept, Holds, CleanOutput, Routes, Sparse
  <2>3. ASSUME NEW s, Offer(s), tmp' = {} PROVE CleanInv'
    BY <1>13, <2>1, <2>3 DEF Offer
  <2>4. ~attempted => tmp = {}
    BY <2>1 DEF CleanInv, Holds
  <2>5. UnionOf(credErrs) \cup {"other"} # {}
    OBVIOUS
  <2> QED
    BY <1>5, <1>6, <1>14, <2>1, <2>2, <2>3, <2>4, <2>5 DEF Credential, Reset
<1>15. CASE NoCredential
  <2>1. pc = "credential" /\ pc \in Offering /\ (~attempted => tmp = {})
    BY <1>15 DEF NoCredential, Offering, CleanInv, Holds
  <2>2. attempted => JoinedCredErrs(credErrs) # {}
    <3>1. \A k \in 1..Len(credErrs) : credErrs[k] # {}
      BY DEF CleanInv, ErrorsKept
    <3> QED
      BY <2>1, <3>1, JoinedError DEF TypeInv, Control
  <2> QED
    BY <1>5, <1>13, <1>15, <2>1, <2>2 DEF NoCredential
<1>16. ASSUME NEW proper \in SUBSET Sentinels, NEW o \in Exchange(proper)
       PROVE  o.err \in SUBSET Sentinels
  BY <1>16, ExchangeFacts DEF TypeInv
<1>17. CASE SparseClone
  <2>1. pc = "sparseClone" /\ pc \in Routes /\ tmp' = {}
    BY <1>17 DEF SparseClone, Routes, Sparse, CleanInv, Holds
  <2> DEFINE name == sparseAttempts[attempt]
             answers == IF w.filter THEN CloneAnswers(name)
                        ELSE (CloneAnswers(name) \ {{}}) \cup {{"other"}}
             marked(e) == IF definitiveCloneError(e) THEN e ELSE e \cup {"sparse"}
  <2>2. PICK p \in answers : \E o \in Exchange(p) :
          \/ Goto("sparseCommit")
          \/ UNCHANGED <<pc, url, errs, chain, result>>
          \/ o.err # {} /\ SparseReturns(marked(CloneError(name, o.err)))
    BY <1>17 DEF SparseClone
  <2>3. p \in SUBSET Sentinels
    BY <2>2 DEF CloneAnswers, Sentinels
  <2>4. \A e \in SUBSET Sentinels : e # {} =>
          marked(CloneError(name, e)) \in SUBSET Sentinels /\ marked(CloneError(name, e)) # {}
    BY DEF CloneError, Sentinels
  <2> HIDE DEF name, answers, marked
  <2>5. CASE UNCHANGED <<pc, url, errs, chain, result>>
    BY <2>1, <2>5, RouteClean
  <2> QED
    BY <1>2, <1>3, <1>16, <2>1, <2>2, <2>3, <2>4, <2>5 DEF Routes, Sparse
<1>18. CASE SparseCommitLocal
  BY <1>3, <1>18 DEF SparseCommitLocal, Routes, Sparse, CleanInv, Holds
<1>19. ASSUME NEW e \in SUBSET Sentinels, NEW r \in Restricted(e)
       PROVE  r \in SUBSET Sentinels
  BY <1>19 DEF Restricted, Sentinels
<1>20. CASE SparseGraph
  <2>1. pc \in Routes /\ tmp' = {}
    BY <1>20 DEF SparseGraph, Routes, Sparse, CleanInv, Holds
  <2>2. PICK o \in Exchange({}) : \E e \in Restricted(o.err) :
          Goto("sparseTrees") \/ SparseReturns({"other"}) \/ (e # {} /\ SparseReturns(e))
    BY <1>20 DEF SparseGraph
  <2>3. o.err \in SUBSET Sentinels
    BY <1>16, <2>2
  <2> QED
    BY <1>2, <1>3, <1>6, <1>19, <2>1, <2>2, <2>3 DEF Routes, Sparse
<1>21. CASE SparseTrees
  <2>1. pc \in Routes /\ tmp' = {}
    BY <1>21 DEF SparseTrees, Routes, Sparse, CleanInv, Holds
  <2> DEFINE answer == IF w.serves = "advertised" THEN {"sparse"}
                       ELSE IF Reachable THEN {} ELSE {"ref"}
  <2>2. answer \in SUBSET Sentinels
    BY DEF Sentinels
  <2>3. PICK o \in Exchange(answer) : \E e \in Restricted(o.err) :
          Goto("sparseSelect") \/ (e # {} /\ SparseReturns(e))
    BY <1>21 DEF SparseTrees
  <2> HIDE DEF answer
  <2>4. o.err \in SUBSET Sentinels
    BY <1>16, <2>2, <2>3
  <2> QED
    BY <1>2, <1>3, <1>19, <2>1, <2>3, <2>4 DEF Routes, Sparse
<1>22. CASE SparseSelect
  <2>1. pc \in Routes /\ tmp' = {} /\ {"sparse"} \in SUBSET Sentinels
    BY <1>22 DEF SparseSelect, Routes, Sparse, CleanInv, Holds, Sentinels
  <2> DEFINE answer == IF w.serves = "any" THEN {} ELSE {"other"}
  <2>2. answer \in SUBSET Sentinels
    BY DEF Sentinels
  <2>3. \/ SparseReturns({"other"}) \/ SparseReturns({"sparse"}) \/ Goto("materialise")
        \/ \E o \in Exchange(answer) : SparseReturns(o.err \cup {"sparse"})
    BY <1>22 DEF SparseSelect
  <2> HIDE DEF answer
  <2>4. \A o \in Exchange(answer) : o.err \cup {"sparse"} \in SUBSET Sentinels
    BY <1>16, <2>1, <2>2
  <2> QED
    BY <1>2, <1>3, <1>6, <2>1, <2>3, <2>4 DEF Routes, Sparse
<1>23. CASE Materialise
  <2>1. pc \in Routes /\ tmp = {} /\ {"other", "sparse"} \in SUBSET Sentinels
    BY <1>23 DEF Materialise, Routes, Sparse, CleanInv, Holds, Sentinels
  <2>2. ASSUME PrepareReturns({}), tmp' = tmp \cup {From("sparse", "cone")} PROVE CleanInv'
    <3>1. Returns("ok") /\ tmp' = {From("sparse", "cone")}
      BY <2>1, <2>2 DEF PrepareReturns, GitDownloadReturns
    <3>2. From("sparse", "cone").what = "cone"
      BY DEF From
    <3>3. tmp' \subseteq {From("sparse", what) : what \in Content \ {"anchor", "part"}}
      BY <3>1 DEF Content
    <3> QED
      BY <3>1, <3>2, <3>3, SuccessClean
  <2> QED
    BY <1>2, <1>6, <1>23, <2>1, <2>2 DEF Materialise
<1>24. ASSUME pc \in Routes, pc' \in {"pinned", "clone"}, tmp' = {},
              UNCHANGED <<url, errs, chain, result>>
       PROVE  CleanInv'
  BY <1>24, RouteClean DEF Routes
<1>25. CASE SparseFallback \/ PinnedFallback
  <2>1. pc \in Routes
    BY <1>25 DEF SparseFallback, PinnedFallback, Routes
  <2> QED
    BY <1>1, <1>6, <1>24, <1>25, <2>1 DEF SparseFallback, PinnedFallback, Reset, AfterSparse
<1>26. CASE PinnedInitFails
  BY <1>1, <1>6, <1>26 DEF PinnedInitFails, Routes
<1>27. CASE PinnedFetch \/ PinnedIncomplete
  <2>1. pc \in Routes /\ tmp' = {From("pinned", "git")} /\ PinnedAnswer \in SUBSET Sentinels
    BY <1>27 DEF PinnedFetch, PinnedIncomplete, Routes, CleanInv, Holds, PinnedAnswer, Sentinels
  <2>2. CASE pc' = "checkout" /\ repo' = "pinned" /\ UNCHANGED <<url, errs, chain, result>>
    <3>1. tmp' \subseteq {From(repo, "git"), From(repo, "anchor")}'
      BY <2>1, <2>2 DEF From, chain
    <3> QED
      BY <2>1, <2>2, <3>1, RouteClean DEF Routes, Sparse
  <2>3. \/ Goto("pinnedFailed")
        \/ pc' = "checkout" /\ repo' = "pinned" /\ UNCHANGED <<url, errs, chain, result>>
        \/ \E o \in Exchange(PinnedAnswer) : o.err # {} /\ PrepareReturns(o.err)
    BY <1>27 DEF PinnedFetch, PinnedIncomplete
  <2> QED
    BY <1>1, <1>3, <1>16, <2>1, <2>2, <2>3 DEF Routes, Sparse
<1>28. CASE Clone
  <2>1. pc \in Routes
    BY <1>28 DEF Clone, Routes
  <2> DEFINE name == cloneAttempts[attempt]
  <2>2. PICK p \in CloneAnswers(name) : \E o \in Exchange(p) :
          \/ /\ tmp' = Cloned /\ pc' = (IF Hash THEN "checkout" ELSE "finish") /\ repo' = "clone"
             /\ UNCHANGED <<url, errs, chain, result>>
          \/ tmp' = {} /\ UNCHANGED <<pc, url, errs, chain, result>>
          \/ o.err # {} /\ PrepareReturns(CloneError(name, o.err))
    BY <1>28 DEF Clone
  <2>3. p \in SUBSET Sentinels
    BY <2>2 DEF CloneAnswers, Sentinels
  <2>4. \A e \in SUBSET Sentinels :
          e # {} => CloneError(name, e) \in SUBSET Sentinels /\ CloneError(name, e) # {}
    BY DEF CloneError, Sentinels
  <2> HIDE DEF name
  <2>5. CASE tmp' = {} /\ UNCHANGED <<pc, url, errs, chain, result>>
    BY <1>28, <2>1, <2>5, RouteClean DEF Clone
  <2>6. CASE /\ tmp' = Cloned /\ pc' = (IF Hash THEN "checkout" ELSE "finish") /\ repo' = "clone"
             /\ UNCHANGED <<url, errs, chain, result>>
    <3>1. CASE Hash
      <4>1. pc' = "checkout" /\ tmp' \subseteq {From(repo, "git"), From(repo, "anchor")}'
        BY <2>6, <3>1 DEF Cloned, From, chain
      <4> QED
        BY <2>1, <2>6, <4>1, RouteClean DEF Routes, Sparse
    <3>2. CASE ~Hash
      <4>1. (/\ tmp \subseteq {From(repo, "git"), From(repo, "tree"), From(repo, "submodules")}
             /\ From(repo, "tree") \in tmp)'
        BY <2>6, <3>2 DEF Cloned, Submodules, From, chain
      <4> QED
        BY <2>1, <2>6, <3>2, <4>1, RouteClean DEF Routes, Sparse
    <3> QED
      BY <3>1, <3>2
  <2> QED
    BY <1>1, <1>16, <2>1, <2>2, <2>3, <2>4, <2>5, <2>6
<1>29. CASE Checkout
  <2>1. pc \in Routes /\ tmp \subseteq {From(repo, "git"), From(repo, "anchor")}
    BY <1>29 DEF Checkout, Routes, CleanInv, Holds
  <2> DEFINE answers == IF w.recurse /\ w.subs THEN Exchange({}) ELSE {Outcome({}, 0)}
  <2>2. \A o \in answers : o.err \in SUBSET Sentinels
    BY <1>16 DEF Outcome, Sentinels
  <2>3. \/ PrepareReturns({"other"})
        \/ \E o \in answers : o.err # {} /\ PrepareReturns(o.err)
        \/ /\ tmp' = {x \in tmp : x.what # "anchor"} \cup {From(repo, "tree")} \cup Submodules(repo)
           /\ Goto("finish") /\ UNCHANGED repo
    BY <1>29 DEF Checkout
  <2> HIDE DEF answers
  <2>4. CASE /\ tmp' = {x \in tmp : x.what # "anchor"} \cup {From(repo, "tree")} \cup Submodules(repo)
             /\ Goto("finish") /\ UNCHANGED repo
    <3>1. From(repo, "anchor").what = "anchor"
      BY DEF From
    <3>2. /\ tmp' \subseteq {From(repo, "git"), From(repo, "tree"), From(repo, "submodules")}
          /\ From(repo, "tree") \in tmp'
      BY <2>1, <2>4, <3>1 DEF Submodules
    <3>3. \A what : From(repo, what)' = From(repo, what)
      BY <2>4 DEF From, Goto, chain
    <3> QED
      BY <2>1, <2>4, <3>2, <3>3, RouteClean DEF Goto, Routes, Sparse
  <2> QED
    BY <1>1, <1>6, <2>1, <2>2, <2>3, <2>4
<1>30. CASE Finish
  <2>1. /\ pc \in Routes /\ From(repo, "tree") \in tmp
        /\ tmp \subseteq {From(repo, "git"), From(repo, "tree"), From(repo, "submodules")}
    BY <1>30 DEF Finish, Routes, CleanInv, Holds
  <2>2. ASSUME PrepareReturns({}) PROVE CleanInv'
    <3>1. Returns("ok")
      BY <2>2 DEF PrepareReturns, GitDownloadReturns
    <3>2. From(repo, "tree").what = "tree"
      BY DEF From
    <3>3. tmp' \subseteq tmp /\ From(repo, "tree") \in tmp'
      BY <1>30, <2>1, <3>2 DEF Finish
    <3>4. tmp' \subseteq {From(repo, what) : what \in Content \ {"anchor", "part"}}
      BY <2>1, <3>3 DEF Content
    <3>5. faults' = 0 => \A x \in tmp' : x.what # "git"
      BY <1>30 DEF Finish, TypeInv
    <3> QED
      BY <3>1, <3>2, <3>3, <3>4, <3>5, SuccessClean
  <2> QED
    BY <1>1, <1>6, <1>30, <2>1, <2>2 DEF Finish
<1>31. CASE Cancel
  BY <1>31 DEF Cancel, chain, CleanInv, ErrorsKept, Holds, CleanOutput, From
<1>32. CASE UNCHANGED vars
  BY <1>32, CleanKept
<1> QED
  BY <1>7, <1>8, <1>9, <1>10, <1>11, <1>12, <1>14, <1>15, <1>17, <1>18, <1>20, <1>21, <1>22,
     <1>23, <1>25, <1>26, <1>27, <1>28, <1>29, <1>30, <1>31, <1>32 DEF Next, Step, Returned

\* CleanOutput (git.go:336, 369, 502, 561 and 582) holds of every behaviour: success leaves
\* the whole output of one attempt, and nothing of any other.
THEOREM CleanOutputCorrect == Spec => []CleanOutput
<1>1. Init => TypeInv /\ CleanInv
  BY TypeInit DEF Init, CleanInv, ErrorsKept, Holds, CleanOutput, Routes, Sparse
<1>2. TypeInv /\ CleanInv /\ [Next]_vars => TypeInv' /\ CleanInv'
  BY TypeStep, CleanStep
<1>3. CleanInv => CleanOutput
  BY DEF CleanInv
<1> QED
  BY <1>1, <1>2, <1>3, PTL DEF Spec

-----------------------------------------------------------------------------
(***************************************************************************)
(* The success of a healthy Download.                                      *)
(***************************************************************************)
\* The steps that only some sources take.
Placed ==
  /\ pc \in Sparse \cup {"sparseFailed"} => w.subdir # "none"
  /\ pc \in {"pinned", "pinnedFailed"} => Pinned
  /\ pc \in {"sparseTrees", "checkout"} => Hash

\* Nothing is wrong, and what is asked for is there.
Healthy == faults = 0 /\ ctx = "live" /\ w.subdir \in {"none", "dir"} /\ RefThere

\* No URL that is behind could have given the repository.
NoneMissed ==
  /\ pc \in {"fallback", "archive"} \/ result = "err" =>
       \A u \in 1..Len(w.urls) : ~Reaches(w.urls[u])
  /\ pc \notin Ending => \A u \in 1..(url - 1) : ~Reaches(w.urls[u])

\* The sources that are behind were right to be left, and the credential in use is
\* that of the source at hand.
ChainSound ==
  /\ \A k \in 1..Len(credErrs) : credErrs[k] = {"auth"}
  /\ pc \in Offering =>
       \A k \in 1..(source - 1) : k <= Len(w.urls[url]) => w.urls[url][k] \in {"nothing", "bad"}
  /\ pc = "credential" =>
       /\ source <= Len(w.urls[url]) + 1
       /\ attempted <=> \E k \in 1..(source - 1) : w.urls[url][k] = "bad"
  /\ pc \in Routes =>
       \/ /\ cred = "anonymous"
          /\ \A k \in 1..Len(w.urls[url]) : w.urls[url][k] = "nothing"
       \/ /\ cred \in {"good", "bad"} /\ attempted
          /\ source <= Len(w.urls[url]) /\ w.urls[url][source] = cred

\* A clone at this spelling finds the ref.
Found(name) == Named(name) => name \in w.have

\* An accepted credential gets through, and a rejected one gets nowhere; a spelling
\* that the remote has is still to come; and a full hash is only sought in a clone
\* when the remote refuses to serve it.
RouteSound ==
  /\ pc \in Routes /\ ~Accepted => pc \in {"sparseClone", "sparseFailed", "pinned", "clone"}
  /\ pc = "sparseClone" => \E k \in attempt..Len(sparseAttempts) : Found(sparseAttempts[k])
  /\ pc = "clone" => \E k \in attempt..Len(cloneAttempts) : Found(cloneAttempts[k])
  /\ Pinned /\ Accepted /\ (pc \in {"pinnedFailed", "clone"} \/ (pc = "checkout" /\ repo = "clone"))
       => w.serves = "advertised"

Sound == NoneMissed /\ ChainSound /\ RouteSound

HealthInv == Placed /\ (Healthy => Sound)

\* The archive never fails for nothing.
ArchiveInv ==
  result = "err" =>
    faults > 0 \/ ctx = "done" \/ w.subdir \notin {"none", "dir"} \/ ~(Hash /\ ArchiveServed)

\* Failures are never forgotten, nor is the end of the context.
LEMMA FaultsGrow ==
  ASSUME TypeInv, [Next]_vars
  PROVE  w' = w /\ faults \in Nat /\ faults' \in Nat /\ faults <= faults' /\ ctx' \in {ctx, "done"}
<1>1. faults \in Nat
  BY MaxFaultsAssumption DEF TypeInv
<1>2. ASSUME NEW proper, NEW o \in Exchange(proper) PROVE o.cost \in {0, 1}
  BY <1>2 DEF Exchange, Passing, Outcome
<1>3. CASE SparseClone \/ SparseGraph \/ SparseTrees \/ SparseSelect
  <2>1. /\ w' = w /\ ctx' = ctx
        /\ \/ faults' = faults
           \/ \E proper : \E o \in Exchange(proper) : faults' = faults + o.cost
    BY <1>3 DEF SparseClone, SparseGraph, SparseTrees, SparseSelect
  <2> QED
    BY <1>1, <1>2, <2>1
<1>4. CASE PinnedFetch \/ Clone
  <2>1. /\ w' = w /\ ctx' = ctx
        /\ \E proper : \E o \in Exchange(proper) : faults' = faults + o.cost
    BY <1>4 DEF PinnedFetch, Clone
  <2> QED
    BY <1>1, <1>2, <2>1
<1>5. CASE Checkout
  <2>1. /\ w' = w /\ ctx' = ctx
        /\ \/ faults' \in {faults, faults + 1}
           \/ \E o \in Exchange({}) : faults' = faults + o.cost
           \/ faults' = faults + Outcome({}, 0).cost
    BY <1>5 DEF Checkout
  <2> QED
    BY <1>1, <1>2, <2>1 DEF Outcome
<1>6. CASE Candidate \/ Probe \/ NoCandidate \/ Fallback \/ Archive \/ GuardHost \/ Credential
           \/ NoCredential \/ SparseCommitLocal \/ Materialise \/ SparseFallback
           \/ PinnedInitFails \/ PinnedIncomplete \/ PinnedFallback \/ Finish \/ Cancel
           \/ UNCHANGED vars
  BY <1>1, <1>6
     DEF Candidate, Probe, NoCandidate, Fallback, Archive, GuardHost, Credential, NoCredential,
         SparseCommitLocal, Materialise, SparseFallback, PinnedInitFails, PinnedIncomplete,
         PinnedFallback, Finish, Cancel, Reset, vars
<1> QED
  BY <1>3, <1>4, <1>5, <1>6 DEF Next, Step, Returned

\* Only the loop of Download and the archive end it with an error.
LEMMA ErrorEnds ==
  ASSUME [Next]_vars, ~Candidate, ~Fallback, ~Archive
  PROVE  result' \in {result, "ok"}
<1>1. ASSUME NEW e, GitDownloadReturns(e) PROVE result' \in {result, "ok"}
  BY <1>1 DEF GitDownloadReturns, Returns
<1>2. ASSUME NEW e, PrepareReturns(e) PROVE result' \in {result, "ok"}
  BY <1>1, <1>2 DEF PrepareReturns
<1>3. ASSUME NEW e, SparseReturns(e) PROVE result' \in {result, "ok"}
  BY <1>2, <1>3 DEF SparseReturns, Goto
<1>4. CASE Probe \/ NoCandidate \/ Cancel \/ UNCHANGED vars
  BY <1>4 DEF Probe, ProbeFails, NoCandidate, Cancel, Goto, vars
<1>5. CASE GuardHost \/ Credential \/ NoCredential
  BY <1>1, <1>5 DEF GuardHost, Credential, NoCredential, Reset, Offer
<1>6. CASE SparseClone \/ SparseCommitLocal \/ SparseGraph \/ SparseTrees \/ SparseSelect
  BY <1>3, <1>6 DEF SparseClone, SparseCommitLocal, SparseGraph, SparseTrees, SparseSelect, Goto
<1>7. CASE Materialise \/ SparseFallback \/ PinnedFallback \/ PinnedInitFails \/ Finish
  BY <1>2, <1>3, <1>7
     DEF Materialise, SparseFallback, PinnedFallback, PinnedInitFails, Finish, Reset
<1>8. CASE PinnedFetch \/ PinnedIncomplete \/ Clone \/ Checkout
  BY <1>2, <1>8 DEF PinnedFetch, PinnedIncomplete, Clone, Checkout, Goto
<1> QED
  BY <1>4, <1>5, <1>6, <1>7, <1>8 DEF Next, Step, Returned

LEMMA ArchiveStep == TypeInv /\ ArchiveInv /\ [Next]_vars => ArchiveInv'
<1> SUFFICES ASSUME TypeInv, ArchiveInv, [Next]_vars PROVE ArchiveInv'
  OBVIOUS
<1>1. w' = w /\ faults \in Nat /\ faults' \in Nat /\ faults <= faults' /\ ctx' \in {ctx, "done"}
  BY FaultsGrow
<1>2. CASE result' \in {result, "ok"}
  BY <1>1, <1>2 DEF ArchiveInv, Hash, ArchiveServed
<1>3. ASSUME faults' = faults + 1 PROVE ArchiveInv'
  BY <1>1, <1>3 DEF ArchiveInv
<1>4. CASE Candidate
  BY <1>2, <1>3, <1>4 DEF Candidate, Reset, Goto
<1>5. CASE Fallback
  <2>1. CASE Hash /\ ctx = "live"
    BY <1>2, <1>3, <1>5, <2>1 DEF Fallback, Reset, Goto
  <2>2. CASE ~(Hash /\ ctx = "live")
    BY <1>1, <1>5, <2>2 DEF Fallback, ArchiveInv, Hash, ArchiveServed, TypeInv
  <2> QED
    BY <2>1, <2>2
<1>6. CASE Archive
  BY <1>1, <1>3, <1>6 DEF Archive, Returns, ArchiveInv, Hash, ArchiveServed, SubdirFound
<1> QED
  BY <1>2, <1>4, <1>5, <1>6, ErrorEnds

\* A step of cloneAndPrepare is for the sources it is made for.
LEMMA PlacedStep == Placed /\ [Next]_vars => Placed'
<1> SUFFICES ASSUME Placed, [Next]_vars PROVE Placed'
  OBVIOUS
<1> USE DEF Placed, Hash, Pinned, Routes, Sparse
<1>1. ASSUME pc' \notin {"sparseFailed", "pinned", "pinnedFailed", "checkout"} \cup Sparse PROVE Placed'
  BY <1>1
<1>2. ASSUME NEW e, GitDownloadReturns(e) PROVE Placed'
  BY <1>1, <1>2 DEF GitDownloadReturns, Returns
<1>3. ASSUME NEW e, PrepareReturns(e) PROVE Placed'
  BY <1>1, <1>2, <1>3 DEF PrepareReturns
<1>4. ASSUME w' = w, pc \in Sparse, pc' \in {"sparseCommit", "sparseSelect", "materialise", "sparseFailed"}
      PROVE  Placed'
  BY <1>4
<1>5. ASSUME NEW e, w' = w, pc \in Sparse, SparseReturns(e) PROVE Placed'
  BY <1>3, <1>4, <1>5 DEF SparseReturns, Goto
<1>6. CASE Candidate \/ Probe \/ NoCandidate \/ Fallback \/ Archive
  BY <1>1, <1>6 DEF Candidate, Probe, ProbeFails, NoCandidate, Fallback, Archive, Reset, Goto, Returns
<1>7. ASSUME w' = w, pc' = FirstRoute PROVE Placed'
  BY <1>7 DEF FirstRoute, AfterSparse
<1>8. CASE GuardHost \/ Credential \/ NoCredential
  <2>1. w' = w /\ (pc' = "credential" \/ pc' = FirstRoute \/ \E e : GitDownloadReturns(e))
    BY <1>8 DEF GuardHost, Credential, NoCredential, Reset, Offer
  <2> QED
    BY <1>1, <1>2, <1>7, <2>1
<1>9. CASE SparseClone
  <2>1. w' = w /\ pc = "sparseClone"
        /\ (pc' \in {"sparseCommit", "sparseClone"} \/ \E e : SparseReturns(e))
    BY <1>9 DEF SparseClone, Goto
  <2> QED
    BY <1>5, <2>1
<1>10. CASE SparseCommitLocal \/ SparseGraph \/ SparseTrees \/ SparseSelect
  <2>1. w' = w /\ pc \in Sparse
        /\ \/ pc' \in {"sparseSelect", "materialise"}
           \/ pc' = "sparseTrees" /\ w.ref = "short"
           \/ \E e : SparseReturns(e)
    BY <1>10 DEF SparseCommitLocal, SparseGraph, SparseTrees, SparseSelect, Goto
  <2> QED
    BY <1>5, <2>1
<1>11. CASE Materialise \/ PinnedInitFails \/ Finish
  <2>1. w' = w /\ \E e : PrepareReturns(e) \/ (pc \in Sparse /\ SparseReturns(e))
    BY <1>11 DEF Materialise, PinnedInitFails, Finish
  <2> QED
    BY <1>3, <1>5, <2>1
<1>12. CASE SparseFallback \/ PinnedFallback
  <2>1. w' = w /\ (pc' \in {AfterSparse, "clone"} \/ \E e : PrepareReturns(e))
    BY <1>12 DEF SparseFallback, PinnedFallback, Reset
  <2> QED
    BY <1>3, <2>1 DEF AfterSparse
<1>13. CASE PinnedFetch \/ PinnedIncomplete
  <2>1. w' = w /\ pc = "pinned"
        /\ (pc' \in {"checkout", "pinnedFailed"} \/ \E e : PrepareReturns(e))
    BY <1>13 DEF PinnedFetch, PinnedIncomplete, Goto
  <2> QED
    BY <1>3, <2>1
<1>14. CASE Clone \/ Checkout
  <2>1. w' = w /\ \/ pc' \in {"clone", "finish"}
                  \/ pc' = "checkout" /\ Hash
                  \/ \E e : PrepareReturns(e)
    BY <1>14 DEF Clone, Checkout, Goto
  <2> QED
    BY <1>3, <2>1
<1>15. CASE Cancel \/ UNCHANGED vars
  BY <1>15 DEF Cancel, vars
<1> QED
  BY <1>6, <1>8, <1>9, <1>10, <1>11, <1>12, <1>13, <1>14, <1>15 DEF Next, Step, Returned

\* A ref that is there: the repository is not empty, a commit is reachable, and some
\* spelling of a name is one the remote has.
LEMMA RefFacts ==
  ASSUME w \in Worlds, RefThere
  PROVE  /\ ~w.empty
         /\ Hash => Reachable
         /\ \E k \in 1..Len(cloneAttempts) : Found(cloneAttempts[k])
         /\ \E k \in 1..Len(sparseAttempts) : Found(sparseAttempts[k])
<1>1. w.ref \in Refs /\ (w.empty => w.have = {})
  BY WorldsAssumption DEF World
<1>2. CASE w.ref \in {"short", "full"}
  <2>1. cloneAttempts = <<"all">> /\ sparseAttempts = <<"default">> /\ Found("all") /\ Found("default")
    BY <1>2 DEF cloneAttempts, sparseAttempts, Hash, Found, Named
  <2>2. Reachable /\ ~w.empty
    BY <1>2 DEF RefThere, Reachable
  <2>3. 1 \in 1..Len(cloneAttempts) /\ Found(cloneAttempts[1])
    BY <2>1
  <2>4. 1 \in 1..Len(sparseAttempts) /\ Found(sparseAttempts[1])
    BY <2>1
  <2> QED
    BY <2>2, <2>3, <2>4
<1>3. CASE w.ref = "none"
  <2>1. cloneAttempts = <<"default">> /\ sparseAttempts = cloneAttempts /\ Found("default")
    BY <1>3 DEF cloneAttempts, sparseAttempts, Hash, Found, Named
  <2> QED
    BY <1>3, <2>1 DEF RefThere, Hash
<1>4. CASE w.ref = "qualified"
  <2>1. cloneAttempts = <<"named">> /\ sparseAttempts = cloneAttempts
    BY <1>4 DEF cloneAttempts, sparseAttempts, Hash
  <2> QED
    BY <1>1, <1>4, <2>1 DEF RefThere, Hash, Found
<1>5. CASE w.ref = "bare"
  <2>1. cloneAttempts = <<"branch", "tag">> /\ sparseAttempts = cloneAttempts
    BY <1>5 DEF cloneAttempts, sparseAttempts, Hash
  <2>2. "branch" \in w.have \/ "tag" \in w.have
    BY <1>5 DEF RefThere
  <2> QED
    BY <1>1, <1>5, <2>1, <2>2 DEF Hash, Found
<1>6. CASE w.ref = "slashed"
  <2>1. cloneAttempts = <<"branch", "tag", "refs">> /\ sparseAttempts = cloneAttempts
    BY <1>6 DEF cloneAttempts, sparseAttempts, Hash
  <2>2. "branch" \in w.have \/ "tag" \in w.have \/ "refs" \in w.have
    BY <1>6 DEF RefThere
  <2> QED
    BY <1>1, <1>6, <2>1, <2>2 DEF Hash, Found
<1> QED
  BY <1>1, <1>2, <1>3, <1>4, <1>5, <1>6 DEF Refs

\* What a remote that has the ref says to a clone at a spelling.
LEMMA AnswerFacts ==
  ASSUME ~w.empty, NEW name, NEW p \in CloneAnswers(name)
  PROVE  /\ Found(name) => p = {}
         /\ ~Found(name) => Named(name) /\ p \in {{"ref"}, {"empty"}} /\ missingRef(name, p)
  BY DEF CloneAnswers, Found, missingRef

\* While nothing goes wrong, an exchange ends in the proper answer or in a rejection.
LEMMA HealthyExchange ==
  ASSUME TypeInv, ctx = "live", faults = 0, NEW proper, NEW o \in Exchange(proper),
         faults + o.cost = 0
  PROVE  o.err = IF Accepted THEN proper ELSE {"auth"}
  BY DEF Exchange, Passing, Outcome, TypeInv

\* A URL whose last credential failed, or that refuses them all, is not missed.
LEMMA GitDownloadSound ==
  ASSUME TypeInv, Sound, w' = w, NEW e, e # {}, e \cap {"ref", "empty", "ctx"} = {},
         GitDownloadReturns(e), pc \in Offering, ~Reaches(w.urls[url])
  PROVE  Sound'
<1>1. /\ pc' = "candidate" /\ url' = url + 1 /\ credErrs' = credErrs /\ result' = result
  BY DEF GitDownloadReturns, definitiveCloneError, chain
<1>2. url \in Nat /\ pc \notin Ending
  BY DEF TypeInv, Control, Offering, Routes, Sparse, Ending
<1>3. \A u \in 1..url : ~Reaches(w.urls[u])
  BY <1>2 DEF Sound, NoneMissed
<1>4. NoneMissed'
  BY <1>1, <1>2, <1>3 DEF Sound, NoneMissed, Reaches, Ending
<1>5. ChainSound' /\ RouteSound'
  BY <1>1 DEF Sound, ChainSound, RouteSound, Offering, Routes, Sparse
<1> QED
  BY <1>4, <1>5 DEF Sound

\* A rejected credential gives way to the next source.
LEMMA RejectSound ==
  ASSUME TypeInv, Sound, w' = w, PrepareReturns({"auth"}), pc \in Routes, ~Accepted
  PROVE  Sound'
<1>1. pc \in Offering /\ url \in Nat /\ source \in Nat /\ source > 0 /\ credErrs \in Seq(SUBSET Sentinels)
  BY DEF TypeInv, Control, Offering
<1>2. CASE cred = "anonymous"
  <2>1. ~Reaches(w.urls[url])
    BY <1>2 DEF Sound, ChainSound, Accepted, Reaches
  <2> QED
    BY <1>1, <1>2, <2>1, GitDownloadSound DEF PrepareReturns
<1>3. CASE cred # "anonymous"
  <2>1. w.urls[url][source] = "bad" /\ source <= Len(w.urls[url]) /\ attempted
    BY <1>3 DEF Sound, ChainSound, Accepted
  <2>2. /\ pc' = "credential" /\ source' = source + 1 /\ credErrs' = Append(credErrs, {"auth"})
        /\ UNCHANGED <<url, attempted, result>>
    BY <1>3 DEF PrepareReturns, authFailure
  <2>3. NoneMissed'
    BY <1>1, <2>2 DEF Sound, NoneMissed, Reaches, Offering, Routes, Sparse, Ending
  <2>4. \A k \in 1..Len(credErrs') : credErrs'[k] = {"auth"}
    BY <1>1, <2>2 DEF Sound, ChainSound
  <2>5. \A k \in 1..source : w.urls[url][k] \in {"nothing", "bad"}
    BY <1>1, <2>1 DEF Sound, ChainSound
  <2>6. attempted' /\ \E k \in 1..(source' - 1) : w.urls[url][k] = "bad"
    BY <1>1, <2>1, <2>2
  <2>7. ChainSound'
    BY <1>1, <2>1, <2>2, <2>4, <2>5, <2>6 DEF ChainSound, Routes, Sparse
  <2>8. RouteSound'
    BY <2>2 DEF RouteSound, Routes, Sparse
  <2> QED
    BY <2>3, <2>7, <2>8 DEF Sound
<1> QED
  BY <1>2, <1>3

\* Success is no failure.
LEMMA SuccessSound ==
  ASSUME Sound, Returns("ok")
  PROVE  Sound'
  BY DEF Sound, Returns, chain, NoneMissed, ChainSound, RouteSound, Offering, Routes, Sparse, Ending

\* cloneAndPrepare goes on as it should.
LEMMA RouteGoesOn ==
  ASSUME Sound, w' = w, pc \in Routes, pc' \in Routes, UNCHANGED <<url, chain, result>>, RouteSound'
  PROVE  Sound'
<1>1. NoneMissed'
  BY DEF Sound, NoneMissed, Reaches, Routes, Sparse, Ending
<1>2. ChainSound'
  BY DEF Sound, ChainSound, chain, Offering, Routes, Sparse
<1> QED
  BY <1>1, <1>2 DEF Sound

\* Every step of a healthy Download takes it towards its success.
LEMMA HealthStep ==
  ASSUME TypeInv, CleanInv, HealthInv, [Next]_vars, Healthy'
  PROVE  Sound'
<1>1. w' = w /\ faults = 0 /\ faults' = 0 /\ ctx = "live" /\ ctx' = "live"
  BY FaultsGrow DEF Healthy, TypeInv
<1>2. Healthy /\ RefThere /\ w.subdir \in {"none", "dir"}
  <2>1. RefThere' <=> RefThere
    BY <1>1 DEF RefThere, Reachable
  <2> QED
    BY <1>1, <2>1 DEF Healthy
<1>3. Sound /\ Placed
  BY <1>2 DEF HealthInv
<1>4. /\ ~w.empty /\ (Hash => Reachable)
      /\ \E k \in 1..Len(cloneAttempts) : Found(cloneAttempts[k])
      /\ \E k \in 1..Len(sparseAttempts) : Found(sparseAttempts[k])
  BY <1>2, RefFacts DEF TypeInv
<1>5. /\ cloneAttempts' = cloneAttempts /\ sparseAttempts' = sparseAttempts
      /\ \A name : Found(name)' <=> Found(name)
  BY <1>1 DEF cloneAttempts, sparseAttempts, Hash, Found, Named
<1>6. /\ url \in Nat /\ url >= 1 /\ source \in Nat /\ Len(w.urls) \in Nat
      /\ attempt \in 1..Len(cloneAttempts) /\ attempt \in Nat /\ Len(cloneAttempts) \in Nat
      /\ Len(sparseAttempts) \in Nat
  BY WorldsAssumption, AttemptFacts DEF TypeInv, Control, World
<1>a. ASSUME pc \in {"guard"} \cup Offering PROVE Len(w.urls[url]) \in Nat
  <2>1. url \in 1..Len(w.urls) /\ w.urls \in Seq(Seq(Source))
    BY <1>6, <1>a, WorldsAssumption DEF TypeInv, Control, World
  <2>2. w.urls[url] \in Seq(Source)
    BY <2>1
  <2> QED
    BY <2>2
<1>7. CASE Candidate
  <2>1. Goto("probe") /\ pc = "candidate"
    BY <1>1, <1>7 DEF Candidate, Reset
  <2> QED
    BY <1>1, <1>3, <2>1
       DEF Goto, chain, Sound, NoneMissed, ChainSound, RouteSound, Offering, Routes, Sparse,
           Ending, Reaches
<1>8. CASE Probe
  <2>1. Goto("guard") /\ pc = "probe"
    BY <1>1, <1>8 DEF Probe
  <2> QED
    BY <1>1, <1>3, <2>1
       DEF Goto, chain, Sound, NoneMissed, ChainSound, RouteSound, Offering, Routes, Sparse,
           Ending, Reaches
<1>9. CASE NoCandidate
  <2>1. \A u \in 1..Len(w.urls) : ~Reaches(w.urls[u])
    BY <1>3, <1>6, <1>9 DEF NoCandidate, Sound, NoneMissed, Ending
  <2> QED
    BY <1>1, <1>3, <1>9, <2>1
       DEF NoCandidate, chain, Sound, NoneMissed, ChainSound, RouteSound, Offering, Routes,
           Sparse, Ending, Reaches
<1>10. CASE Fallback \/ Archive
  <2>1. /\ \A u \in 1..Len(w.urls) : ~Reaches(w.urls[u])
        /\ pc' \in {"archive", "done"} /\ credErrs' = credErrs
    BY <1>3, <1>10
       DEF Fallback, Archive, Reset, Goto, Returns, chain, Sound, NoneMissed
  <2> QED
    BY <1>1, <1>3, <2>1
       DEF Sound, NoneMissed, ChainSound, RouteSound, Offering, Routes, Sparse, Ending, Reaches
<1>11. CASE GuardHost
  <2>1. /\ pc' = "credential" /\ source' = 1 /\ attempted' = FALSE /\ credErrs' = <<>>
        /\ UNCHANGED <<url, result>> /\ pc = "guard"
    BY <1>1, <1>11 DEF GuardHost
  <2>2. NoneMissed'
    BY <1>1, <1>3, <2>1 DEF Sound, NoneMissed, Ending, Reaches
  <2>3. ~attempted' /\ 1..(source' - 1) = {} /\ 1..Len(credErrs') = {}
    BY <2>1
  <2>4. source' <= Len(w.urls[url]) + 1
    BY <1>a, <2>1
  <2>5. ChainSound'
    BY <1>1, <2>1, <2>3, <2>4 DEF ChainSound, Routes, Sparse
  <2>6. RouteSound'
    BY <2>1 DEF RouteSound, Routes, Sparse
  <2> QED
    BY <2>2, <2>5, <2>6 DEF Sound
<1>12. ASSUME pc = "credential", pc' = FirstRoute, attempt' = 1, UNCHANGED <<url, source, credErrs, result>>,
              \/ /\ cred' = "anonymous"
                 /\ \A k \in 1..Len(w.urls[url]) : w.urls[url][k] = "nothing"
              \/ /\ cred' \in {"good", "bad"} /\ attempted'
                 /\ source <= Len(w.urls[url]) /\ w.urls[url][source] = cred'
       PROVE  Sound'
  <2>1. pc \in Offering /\ pc' \in {"sparseClone", "pinned", "clone"} /\ (pc' = "clone" => ~Pinned)
    BY <1>12 DEF Offering, FirstRoute, AfterSparse
  <2>2. NoneMissed'
    BY <1>1, <1>3, <1>12, <2>1
       DEF Sound, NoneMissed, Reaches, Offering, Routes, Sparse, Ending
  <2>3. ChainSound'
    BY <1>1, <1>3, <1>12, <2>1 DEF Sound, ChainSound, Offering, Routes, Sparse
  <2>4. RouteSound'
    BY <1>1, <1>4, <1>5, <1>12, <2>1 DEF RouteSound, Pinned
  <2> QED
    BY <2>2, <2>3, <2>4 DEF Sound
<1>13. CASE Credential
  <2>1. /\ pc = "credential" /\ pc \in Offering /\ source \in 1..Len(w.urls[url])
        /\ Len(w.urls[url]) \in Nat
        /\ \A k \in 1..(source - 1) : w.urls[url][k] \in {"nothing", "bad"}
        /\ attempted <=> \E k \in 1..(source - 1) : w.urls[url][k] = "bad"
    <3>1. pc = "credential" /\ pc \in Offering /\ source <= Len(w.urls[url]) /\ source > 0
      BY <1>13 DEF Credential, Offering, TypeInv, Control
    <3>2. Len(w.urls[url]) \in Nat
      BY <1>a, <3>1
    <3>3. source \in 1..Len(w.urls[url]) /\ \A k \in 1..(source - 1) : k <= Len(w.urls[url])
      BY <1>6, <3>1, <3>2
    <3>4. \A k \in 1..(source - 1) : w.urls[url][k] \in {"nothing", "bad"}
      BY <1>3, <3>1, <3>3 DEF Sound, ChainSound
    <3>5. attempted <=> \E k \in 1..(source - 1) : w.urls[url][k] = "bad"
      BY <1>3, <3>1 DEF Sound, ChainSound
    <3> QED
      BY <3>1, <3>2, <3>3, <3>4, <3>5
  <2>2. CASE w.urls[url][source] = "error"
    <3>1. GitDownloadReturns({"other"})
      BY <1>13, <2>2 DEF Credential
    <3>2. ~Reaches(w.urls[url])
      BY <2>1, <2>2 DEF Reaches
    <3> QED
      BY <1>1, <1>3, <2>1, <3>1, <3>2, GitDownloadSound
  <2>3. CASE w.urls[url][source] = "nothing"
    <3>1. source' = source + 1 /\ UNCHANGED <<pc, url, attempted, credErrs, result>>
      BY <1>13, <2>3 DEF Credential
    <3>2. NoneMissed'
      BY <1>1, <1>3, <3>1 DEF Sound, NoneMissed, Reaches
    <3>3. \A k \in 1..(source' - 1) : w.urls[url][k] \in {"nothing", "bad"}
      BY <2>1, <2>3, <3>1
    <3>4. (\E k \in 1..(source' - 1) : w.urls[url][k] = "bad")
            <=> \E k \in 1..(source - 1) : w.urls[url][k] = "bad"
      BY <2>1, <2>3, <3>1
    <3>5. source' <= Len(w.urls[url]) + 1
      BY <2>1, <3>1
    <3>6. ChainSound'
      BY <1>1, <1>3, <2>1, <3>1, <3>3, <3>4, <3>5
         DEF Sound, ChainSound, Routes, Sparse
    <3>7. RouteSound'
      BY <2>1, <3>1 DEF RouteSound, Routes, Sparse
    <3> QED
      BY <3>2, <3>6, <3>7 DEF Sound
  <2>4. CASE w.urls[url][source] \in {"good", "bad"}
    <3>1. Offer(w.urls[url][source])
      BY <1>1, <1>13, <2>4 DEF Credential, Reset
    <3> QED
      BY <1>12, <2>1, <2>4, <3>1 DEF Offer
  <2> QED
    BY <1>13, <2>2, <2>3, <2>4 DEF Credential
<1>14. CASE NoCredential
  <2>1. /\ pc = "credential" /\ pc \in Offering
        /\ \A k \in 1..Len(w.urls[url]) : k \in 1..(source - 1)
        /\ \A k \in 1..(source - 1) : k <= Len(w.urls[url])
        /\ \A k \in 1..Len(w.urls[url]) : w.urls[url][k] \in {"nothing", "bad"}
        /\ attempted <=> \E k \in 1..Len(w.urls[url]) : w.urls[url][k] = "bad"
    <3>1. pc = "credential" /\ pc \in Offering /\ source > Len(w.urls[url]) /\ source <= Len(w.urls[url]) + 1
      BY <1>3, <1>14 DEF NoCredential, Offering, Sound, ChainSound
    <3>2. Len(w.urls[url]) \in Nat
      BY <1>a, <3>1
    <3>3. source = Len(w.urls[url]) + 1
      BY <1>6, <3>1, <3>2
    <3> QED
      BY <1>3, <3>1, <3>2, <3>3 DEF Sound, ChainSound
  <2>2. CASE attempted
    <3>1. ~Reaches(w.urls[url])
      BY <2>1, <2>2 DEF Reaches
    <3>2. JoinedCredErrs(credErrs) = {"auth"}
      <4>1. Len(credErrs) \in 1..Len(credErrs)
        BY <2>1, <2>2 DEF TypeInv, Control
      <4>2. credErrs[Len(credErrs)] = {"auth"}
        BY <1>3, <4>1 DEF Sound, ChainSound
      <4> QED
        BY <4>2 DEF JoinedCredErrs, authFailure
    <3>3. GitDownloadReturns({"auth"})
      BY <1>14, <2>2, <3>2 DEF NoCredential
    <3> QED
      BY <1>1, <1>3, <2>1, <3>1, <3>3, GitDownloadSound
  <2>3. CASE ~attempted
    BY <1>12, <1>14, <2>1, <2>3 DEF NoCredential
  <2> QED
    BY <2>2, <2>3
<1>15. ASSUME pc \in Routes, PrepareReturns({"auth"}), ~Accepted PROVE Sound'
  BY <1>1, <1>3, <1>15, RejectSound
<1>16. ASSUME pc \in Routes, PrepareReturns({}) PROVE Sound'
  BY <1>3, <1>16, SuccessSound DEF PrepareReturns, GitDownloadReturns
<1>17. ASSUME NEW proper, NEW o \in Exchange(proper), faults' = faults + o.cost
       PROVE  o.err = IF Accepted THEN proper ELSE {"auth"}
  BY <1>1, <1>17, HealthyExchange
<1>18. ASSUME pc \in Routes, pc' \in Routes, UNCHANGED <<url, chain, result>>, RouteSound'
       PROVE  Sound'
  BY <1>1, <1>3, <1>18, RouteGoesOn
<1>19. ASSUME UNCHANGED chain PROVE Accepted' <=> Accepted
  BY <1>1, <1>19 DEF Accepted, chain
<1>20. ASSUME pc \in Routes, NEW e, "sparse" \in e, SparseReturns(e) PROVE Sound'
  <2>1. Goto("sparseFailed")
    BY <1>20 DEF SparseReturns
  <2> QED
    BY <1>18, <1>20, <2>1 DEF Goto, RouteSound, Routes, Sparse
<1>21. ASSUME pc \in Routes, Accepted, pc' \in {"sparseCommit", "sparseTrees", "sparseSelect", "materialise", "finish"},
              UNCHANGED <<url, chain, result>>
       PROVE  Sound'
  BY <1>18, <1>19, <1>21 DEF RouteSound, Routes, Sparse
<1>22. CASE SparseClone
  <2> DEFINE name == sparseAttempts[attempt]
             answers == IF w.filter THEN CloneAnswers(name)
                        ELSE (CloneAnswers(name) \ {{}}) \cup {{"other"}}
             marked(e) == IF definitiveCloneError(e) THEN e ELSE e \cup {"sparse"}
  <2>1. pc = "sparseClone" /\ pc \in Routes /\ \E k \in attempt..Len(sparseAttempts) : Found(sparseAttempts[k])
    BY <1>3, <1>22 DEF SparseClone, Sound, RouteSound, Routes, Sparse
  <2>2. PICK p \in answers : \E o \in Exchange(p) :
          /\ faults' = faults + o.cost
          /\ \/ o.err = {} /\ Goto("sparseCommit")
             \/ /\ missingRef(name, o.err) /\ attempt' = attempt + 1
                /\ UNCHANGED <<pc, url, errs, chain, repo, history, result>>
             \/ /\ o.err # {} /\ ~(missingRef(name, o.err) /\ attempt < Len(sparseAttempts))
                /\ SparseReturns(marked(CloneError(name, o.err)))
    BY <1>22 DEF SparseClone
  <2>3. PICK o \in Exchange(p) :
          /\ faults' = faults + o.cost
          /\ \/ o.err = {} /\ Goto("sparseCommit")
             \/ /\ missingRef(name, o.err) /\ attempt' = attempt + 1
                /\ UNCHANGED <<pc, url, errs, chain, repo, history, result>>
             \/ /\ o.err # {} /\ ~(missingRef(name, o.err) /\ attempt < Len(sparseAttempts))
                /\ SparseReturns(marked(CloneError(name, o.err)))
    BY <2>2
  <2>4. o.err = IF Accepted THEN p ELSE {"auth"}
    BY <1>17, <2>3
  <2>5. p = {"other"} \/ p = {} \/ (~Found(name) /\ missingRef(name, p) /\ p # {})
    BY <1>4, <2>2, AnswerFacts
  <2>6. ~Found(name) => attempt < Len(sparseAttempts)
                        /\ \E k \in (attempt + 1)..Len(sparseAttempts) : Found(sparseAttempts[k])
    BY <1>6, <2>1
  <2>7. ~missingRef(name, {"auth"}) /\ ~missingRef(name, {"other"}) /\ ~missingRef(name, {})
    BY DEF missingRef
  <2>8. "sparse" \in marked(CloneError(name, {"auth"})) /\ "sparse" \in marked(CloneError(name, {"other"}))
    BY <2>7 DEF CloneError, definitiveCloneError
  <2> HIDE DEF name, answers, marked
  <2>9. CASE o.err = {} /\ Goto("sparseCommit")
    BY <1>21, <2>1, <2>4, <2>9 DEF Goto
  <2>10. CASE /\ missingRef(name, o.err) /\ attempt' = attempt + 1
              /\ UNCHANGED <<pc, url, errs, chain, repo, history, result>>
    <3>1. Accepted /\ ~Found(name)
      BY <2>4, <2>5, <2>7, <2>10
    <3>2. (\E k \in attempt..Len(sparseAttempts) : Found(sparseAttempts[k]))'
      BY <1>5, <2>6, <2>10, <3>1
    <3>3. RouteSound'
      BY <1>19, <2>1, <2>10, <3>1, <3>2 DEF RouteSound
    <3> QED
      BY <1>18, <2>1, <2>10, <3>3
  <2>11. CASE /\ o.err # {} /\ ~(missingRef(name, o.err) /\ attempt < Len(sparseAttempts))
              /\ SparseReturns(marked(CloneError(name, o.err)))
    <3>1. o.err = {"auth"} \/ o.err = {"other"}
      BY <2>4, <2>5, <2>6, <2>11
    <3> QED
      BY <1>20, <2>1, <2>8, <2>11, <3>1
  <2> QED
    BY <2>3, <2>9, <2>10, <2>11
<1>23. ASSUME pc \in Routes \ {"sparseClone", "sparseFailed", "pinned", "clone"} PROVE Accepted
  BY <1>3, <1>23 DEF Sound, RouteSound
<1>24. CASE SparseCommitLocal
  BY <1>21, <1>23, <1>24 DEF SparseCommitLocal, Goto, chain, Routes, Sparse
<1>25. CASE SparseGraph
  <2>1. pc \in Routes /\ pc = "sparseCommit" /\ Accepted
    BY <1>23, <1>25 DEF SparseGraph, Routes, Sparse
  <2>2. w.commit = "history"
    <3>1. w.subdir # "none" /\ w.ref = "short" /\ w.commit # "tip"
      BY <1>3, <1>25, <2>1 DEF SparseGraph, Placed, Sparse
    <3> QED
      BY <1>2, <1>4, <3>1 DEF RefThere, Hash, Reachable
  <2>3. \E o \in Exchange({}) : \E e \in Restricted(o.err) :
          faults' = faults + o.cost /\ (e = {} => Goto("sparseTrees")) /\ (e # {} => SparseReturns(e))
    BY <1>25, <2>2 DEF SparseGraph
  <2>4. Goto("sparseTrees")
    BY <1>17, <2>1, <2>3 DEF Restricted
  <2> QED
    BY <1>21, <2>1, <2>4 DEF Goto
<1>26. CASE SparseTrees
  <2>1. pc \in Routes /\ Accepted /\ Hash
    BY <1>3, <1>23, <1>26 DEF SparseTrees, Placed, Hash, Routes, Sparse
  <2> DEFINE answer == IF w.serves = "advertised" THEN {"sparse"}
                       ELSE IF Reachable THEN {} ELSE {"ref"}
  <2>2. answer = {} \/ answer = {"sparse"}
    BY <1>4, <2>1
  <2>3. PICK o \in Exchange(answer) : \E e \in Restricted(o.err) :
          faults' = faults + o.cost /\ (e = {} => Goto("sparseSelect")) /\ (e # {} => SparseReturns(e))
    BY <1>26 DEF SparseTrees
  <2> HIDE DEF answer
  <2>4. o.err = {} \/ o.err = {"sparse"}
    BY <1>17, <2>1, <2>2, <2>3
  <2>5. \A e \in Restricted(o.err) : e = {} \/ "sparse" \in e
    BY <2>4 DEF Restricted
  <2> QED
    BY <1>20, <1>21, <2>1, <2>3, <2>5 DEF Goto
<1>27. CASE SparseSelect
  <2>1. pc \in Routes /\ Accepted /\ w.subdir = "dir"
    BY <1>2, <1>3, <1>23, <1>27 DEF SparseSelect, Placed, Routes, Sparse
  <2>2. \/ Goto("materialise") \/ SparseReturns({"sparse"})
        \/ \E o \in Exchange(IF w.serves = "any" THEN {} ELSE {"other"}) : SparseReturns(o.err \cup {"sparse"})
    BY <1>27, <2>1 DEF SparseSelect
  <2> QED
    BY <1>20, <1>21, <2>1, <2>2 DEF Goto
<1>28. CASE Materialise
  BY <1>1, <1>16, <1>28 DEF Materialise, Routes, Sparse
<1>29. ASSUME pc \in Routes, pc' = "clone", attempt' = 1, UNCHANGED <<url, chain, result>>,
              Pinned /\ Accepted => w.serves = "advertised"
       PROVE  Sound'
  <2>1. (\E k \in attempt..Len(cloneAttempts) : Found(cloneAttempts[k]))'
    BY <1>4, <1>5, <1>29
  <2>2. Pinned' <=> Pinned
    BY <1>1 DEF Pinned
  <2> QED
    BY <1>1, <1>18, <1>19, <1>29, <2>1, <2>2 DEF RouteSound, Routes, Sparse
<1>30. CASE SparseFallback
  <2>1. pc \in Routes /\ attempt' = 1 /\ pc' = AfterSparse /\ UNCHANGED <<url, chain, result>>
    BY <1>1, <1>30 DEF SparseFallback, Reset, Routes
  <2>2. CASE Pinned
    BY <1>18, <2>1, <2>2 DEF AfterSparse, RouteSound, Routes, Sparse
  <2>3. CASE ~Pinned
    BY <1>29, <2>1, <2>3 DEF AfterSparse
  <2> QED
    BY <2>2, <2>3
<1>31. CASE PinnedInitFails
  <2>1. HasRepository /\ tmp = {}
    BY <1>1, <1>31 DEF PinnedInitFails, CleanInv, Holds
  <2> QED
    BY <2>1 DEF HasRepository
<1>32. CASE PinnedFetch
  <2>1. pc = "pinned" /\ pc \in Routes /\ Reachable
    BY <1>3, <1>4, <1>32 DEF PinnedFetch, Placed, Pinned, Hash, Routes
  <2>2. PICK o \in Exchange(PinnedAnswer) :
          /\ faults' = faults + o.cost
          /\ \/ o.err = {} /\ pc' = "checkout" /\ repo' = "pinned" /\ UNCHANGED <<url, chain, result>>
             \/ o.err # {} /\ PinnedFinal(o.err) /\ PrepareReturns(o.err)
             \/ o.err # {} /\ ~PinnedFinal(o.err) /\ Goto("pinnedFailed")
    BY <1>32 DEF PinnedFetch
  <2>3. o.err = IF Accepted THEN PinnedAnswer ELSE {"auth"}
    BY <1>17, <2>2
  <2>4. PinnedAnswer = {} \/ (PinnedAnswer = {"pinned"} /\ w.serves = "advertised")
    BY <2>1 DEF PinnedAnswer
  <2>5. PinnedFinal({"auth"}) /\ ~PinnedFinal({"pinned"})
    BY <1>1 DEF PinnedFinal, authFailure
  <2>6. CASE o.err = {} /\ pc' = "checkout" /\ repo' = "pinned" /\ UNCHANGED <<url, chain, result>>
    BY <1>18, <1>19, <2>1, <2>3, <2>6 DEF RouteSound, Routes, Sparse
  <2>7. CASE o.err # {} /\ PinnedFinal(o.err) /\ PrepareReturns(o.err)
    BY <1>15, <2>1, <2>3, <2>4, <2>5, <2>7
  <2>8. CASE o.err # {} /\ ~PinnedFinal(o.err) /\ Goto("pinnedFailed")
    <3>1. Accepted /\ w.serves = "advertised"
      BY <2>3, <2>4, <2>5, <2>8
    <3> QED
      BY <1>1, <1>18, <1>19, <2>1, <2>8, <3>1 DEF Goto, RouteSound, Routes, Sparse
  <2> QED
    BY <2>2, <2>6, <2>7, <2>8
<1>33. CASE PinnedIncomplete
  BY <1>1, <1>33 DEF PinnedIncomplete
<1>34. CASE PinnedFallback
  <2>1. /\ pc = "pinnedFailed" /\ pc \in Routes /\ pc' = "clone" /\ attempt' = 1
        /\ UNCHANGED <<url, chain, result>>
    BY <1>1, <1>34 DEF PinnedFallback, Reset, Routes
  <2> QED
    BY <1>3, <1>29, <2>1 DEF Sound, RouteSound
<1>35. CASE Clone
  <2> DEFINE name == cloneAttempts[attempt]
  <2>1. pc = "clone" /\ pc \in Routes /\ \E k \in attempt..Len(cloneAttempts) : Found(cloneAttempts[k])
    BY <1>3, <1>35 DEF Clone, Sound, RouteSound, Routes
  <2>2. PICK p \in CloneAnswers(name) : \E o \in Exchange(p) :
          /\ faults' = faults + o.cost
          /\ \/ /\ o.err = {} /\ pc' \in {"checkout", "finish"} /\ repo' = "clone"
                /\ UNCHANGED <<url, chain, result>>
             \/ /\ missingRef(name, o.err) /\ attempt' = attempt + 1
                /\ UNCHANGED <<pc, url, chain, result>>
             \/ /\ o.err # {} /\ ~(missingRef(name, o.err) /\ attempt < Len(cloneAttempts))
                /\ PrepareReturns(CloneError(name, o.err))
    BY <1>35 DEF Clone
  <2>3. PICK o \in Exchange(p) :
          /\ faults' = faults + o.cost
          /\ \/ /\ o.err = {} /\ pc' \in {"checkout", "finish"} /\ repo' = "clone"
                /\ UNCHANGED <<url, chain, result>>
             \/ /\ missingRef(name, o.err) /\ attempt' = attempt + 1
                /\ UNCHANGED <<pc, url, chain, result>>
             \/ /\ o.err # {} /\ ~(missingRef(name, o.err) /\ attempt < Len(cloneAttempts))
                /\ PrepareReturns(CloneError(name, o.err))
    BY <2>2
  <2>4. o.err = IF Accepted THEN p ELSE {"auth"}
    BY <1>17, <2>3
  <2>5. p = {} \/ (~Found(name) /\ missingRef(name, p))
    BY <1>4, <2>2, AnswerFacts
  <2>6. ~Found(name) => attempt < Len(cloneAttempts)
                        /\ \E k \in (attempt + 1)..Len(cloneAttempts) : Found(cloneAttempts[k])
    BY <1>6, <2>1
  <2>7. ~missingRef(name, {"auth"}) /\ ~missingRef(name, {})
    BY DEF missingRef
  <2>8. CloneError(name, {"auth"}) = {"auth"}
    BY <2>7 DEF CloneError
  <2> HIDE DEF name
  <2>9. CASE /\ o.err = {} /\ pc' \in {"checkout", "finish"} /\ repo' = "clone"
             /\ UNCHANGED <<url, chain, result>>
    <3>1. Accepted /\ (Pinned => w.serves = "advertised")
      BY <1>3, <2>1, <2>4, <2>9 DEF Sound, RouteSound
    <3>2. RouteSound'
      BY <1>1, <1>19, <2>9, <3>1 DEF RouteSound, Pinned
    <3> QED
      BY <1>18, <2>1, <2>9, <3>2 DEF Routes
  <2>10. CASE /\ missingRef(name, o.err) /\ attempt' = attempt + 1
              /\ UNCHANGED <<pc, url, chain, result>>
    <3>1. Accepted /\ ~Found(name) /\ (Pinned => w.serves = "advertised")
      BY <1>3, <2>1, <2>4, <2>5, <2>7, <2>10 DEF Sound, RouteSound
    <3>2. (\E k \in attempt..Len(cloneAttempts) : Found(cloneAttempts[k]))'
      BY <1>5, <2>6, <2>10, <3>1
    <3>3. RouteSound'
      BY <1>1, <1>19, <2>1, <2>10, <3>1, <3>2 DEF RouteSound, Pinned
    <3> QED
      BY <1>18, <2>1, <2>10, <3>3
  <2>11. CASE /\ o.err # {} /\ ~(missingRef(name, o.err) /\ attempt < Len(cloneAttempts))
              /\ PrepareReturns(CloneError(name, o.err))
    <3>1. ~Accepted /\ o.err = {"auth"}
      BY <2>4, <2>5, <2>6, <2>11
    <3> QED
      BY <1>15, <2>1, <2>8, <2>11, <3>1
  <2> QED
    BY <2>3, <2>9, <2>10, <2>11
<1>36. CASE Checkout
  <2>1. pc = "checkout" /\ pc \in Routes /\ Accepted /\ Hash /\ Reachable
    BY <1>3, <1>4, <1>23, <1>36 DEF Checkout, Placed, Routes
  <2>2. Resolved
    <3>1. repo = "pinned" \/ repo = "clone"
      BY <2>1 DEF TypeInv, Control
    <3>2. CASE repo = "clone"
      <4>1. Pinned => w.serves = "advertised"
        BY <1>3, <2>1, <3>2 DEF Sound, RouteSound
      <4>2. w.depth => w.commit = "tip"
        BY <1>2, <2>1, <4>1 DEF RefThere, Pinned, Hash
      <4> QED
        BY <2>1, <4>2 DEF Resolved
    <3> QED
      BY <3>1, <3>2 DEF Resolved
  <2> DEFINE answers == IF w.recurse /\ w.subs THEN Exchange({}) ELSE {Outcome({}, 0)}
  <2>3. PICK o \in answers :
          /\ faults' = faults + o.cost
          /\ o.err = {} => Goto("finish")
    BY <1>1, <1>36, <2>2 DEF Checkout
  <2>4. o.err = {}
    BY <1>17, <2>1, <2>3 DEF Outcome
  <2> QED
    BY <1>21, <2>1, <2>3, <2>4 DEF Goto
<1>37. CASE Finish
  BY <1>2, <1>16, <1>37 DEF Finish, Routes
<1>38. CASE Cancel
  BY <1>1, <1>38 DEF Cancel
<1>39. CASE UNCHANGED vars
  <2>1. NoneMissed'
    BY <1>3, <1>39 DEF vars, Sound, NoneMissed, Reaches
  <2>2. ChainSound'
    BY <1>3, <1>39 DEF vars, chain, Sound, ChainSound
  <2>3. Pinned' <=> Pinned
    BY <1>1 DEF Pinned
  <2>4. RouteSound'
    BY <1>3, <1>5, <1>19, <1>39, <2>3 DEF vars, Sound, RouteSound
  <2> QED
    BY <2>1, <2>2, <2>4 DEF Sound
<1> QED
  BY <1>7, <1>8, <1>9, <1>10, <1>11, <1>13, <1>14, <1>22, <1>24, <1>25, <1>26, <1>27, <1>28,
     <1>30, <1>31, <1>32, <1>33, <1>34, <1>35, <1>36, <1>37, <1>38, <1>39
     DEF Next, Step, Returned

\* What the invariants say of a Download that failed.
LEMMA HealthImplies == HealthInv /\ ArchiveInv /\ TypeInv => HealthyDownloadSucceeds
<1>1. HealthInv /\ result = "err" /\ Healthy => \A u \in 1..Len(w.urls) : ~Reaches(w.urls[u])
  BY DEF HealthInv, Sound, NoneMissed
<1>2. TypeInv => faults \in Nat /\ ctx \in {"live", "done"}
  BY MaxFaultsAssumption DEF TypeInv
<1> QED
  BY <1>1, <1>2 DEF ArchiveInv, Healthy, HealthyDownloadSucceeds

\* HealthyDownloadSucceeds (git.go:460-467) holds of every behaviour: a Download fails only
\* for a failure, for want of time, or because no URL gives what was asked for.
THEOREM HealthyDownloadSucceedsCorrect == Spec => []HealthyDownloadSucceeds
<1> DEFINE Inv == TypeInv /\ CleanInv /\ HealthInv /\ ArchiveInv
<1>1. Init => Inv
  <2> SUFFICES ASSUME Init PROVE Inv
    OBVIOUS
  <2>1. TypeInv
    BY TypeInit
  <2>2. CleanInv
    BY DEF Init, CleanInv, ErrorsKept, Holds, CleanOutput, Routes, Sparse
  <2>3. NoneMissed
    BY DEF Init, NoneMissed, Ending
  <2>4. ChainSound /\ RouteSound /\ Placed
    BY DEF Init, ChainSound, RouteSound, Placed, Offering, Routes, Sparse
  <2> QED
    BY <2>1, <2>2, <2>3, <2>4 DEF HealthInv, Sound, ArchiveInv, Init
<1>2. Inv /\ [Next]_vars => Inv'
  BY TypeStep, CleanStep, HealthStep, PlacedStep, ArchiveStep DEF HealthInv
<1>3. Inv => HealthyDownloadSucceeds
  BY HealthImplies
<1> QED
  BY <1>1, <1>2, <1>3, PTL DEF Spec

=============================================================================
