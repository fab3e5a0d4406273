----------------------------- MODULE GrabProofs -----------------------------
(***************************************************************************)
(* What concurrent Grabs into one destination promise, for every number of *)
(* Grabs, paths, versions, sources and failures.                           *)
(***************************************************************************)
EXTENDS Grab, TLAPS

-----------------------------------------------------------------------------
(***************************************************************************)
(* The inductive invariant.                                                *)
(***************************************************************************)
Early == {"start", "download", "verify", "extract"}
Delivering == {"stat", "rename", "copy", "copying"}
Over == {"cleanup", "done"}

\* A version that may be delivered: none was demanded, or it is what was.
Trusted(s) == Demanded(s) = "none" \/ (Demanded(s) = "match" /\ s.isFile)

\* What a Grab holds at each of its steps.
Staged(g) ==
  /\ pc[g] = "start" => tmp[g] = NoDir /\ extracted[g] = NoDir
  /\ pc[g] \in {"verify", "extract"} => tmp[g] = src[g].got
  /\ pc[g] \in Early => from[g] = "tmp"
  /\ pc[g] \in Delivering =>
       \/ Delivered(g) = Expected(g)
       \/ Delivered(g) = NoDir /\ Unpacks(src[g]) /\ src[g].format = "empty"
  /\ pc[g] \in Delivering \cup {"extract"} => Trusted(src[g])
  /\ pc[g] = "done" => tmp[g] = NoDir /\ extracted[g] = NoDir
  /\ pc[g] \notin Over => result[g] = "none"

\* What a Grab has to do while it copies.
Underway(g) ==
  /\ pc[g] = "copying" => todo[g] \subseteq Expected(g)
  /\ file[g] # NoFile => pc[g] \in {"copying"} \cup Over /\ file[g] \in todo[g]

\* A destination that is copied into exists.
Made == \A g \in Grabs : pc[g] = "copying" => dst = "dir"

TypeInv == TypeOK /\ Made

StageInv == TypeInv /\ \A g \in Grabs : Staged(g) /\ Underway(g)

\* The entry that a Grab is copying.
Within(g, p) == pc[g] = "copying" /\ file[g] = p

\* A Grab has delivered a path.
Finished(g, p) ==
  p \in Expected(g) /\ (result[g] = "ok" \/ (pc[g] = "copying" /\ p \notin todo[g]))

\* All who have the path have the same version of it, and none of them has failed.
Agreed(p) ==
  \A g \in Grabs : p \in Expected(g) =>
    /\ result[g] # "err"
    /\ \A h \in Grabs : p \in Expected(h) => src[h].version = src[g].version

\* Every block of a file that somebody opened is there, or somebody who has the
\* file open has yet to write it.
FileWhole(g, p) ==
  LET v == src[g].version
  IN  /\ p \in DOMAIN at
      /\ Len(at[p]) <= Blocks[v]
      /\ \A k \in 1..Blocks[v] :
           \/ k <= Len(at[p]) /\ at[p][k] = v
           \/ \E h \in Grabs : Within(h, p) /\ offset[h] < k

FilesWhole ==
  \A g \in Grabs, p \in Paths \ Links :
    Agreed(p) /\ (Within(g, p) \/ Finished(g, p)) => FileWhole(g, p)

\* A link that somebody delivered is there, unless somebody is about to make it.
LinksWhole ==
  \A g \in Grabs, p \in Links :
    Agreed(p) /\ Finished(g, p) =>
      \/ p \in DOMAIN at /\ at[p] = <<src[g].version>>
      \/ \E h \in Grabs : Within(h, p)

\* A link that came back after its removal is one that another Grab has.
LinksShared ==
  \A g \in Grabs, p \in Links :
    Within(g, p) /\ p \in DOMAIN at => \E h \in Grabs \ {g} : p \in Expected(h)

-----------------------------------------------------------------------------
(***************************************************************************)
(* Sources, contents and destinations.                                     *)
(***************************************************************************)
\* What is known of every source.
LEMMA SourceFacts ==
  ASSUME TypeOK, NEW g \in Grabs
  PROVE  /\ src[g].version \in DOMAIN Blocks
         /\ Blocks[src[g].version] \in Nat \ {0}
         /\ src[g].got \subseteq Paths
         /\ src[g].inner \subseteq Paths \ Links
         /\ Expected(g) \subseteq Paths
<1>1. src[g] \in Source
  BY DEF TypeOK
<1> QED
  BY <1>1, SourcesAssumption DEF Source, Expected

\* A function on the numbers up to n is a sequence.
LEMMA IsSequence ==
  ASSUME NEW S, NEW n \in Nat, NEW f \in [1..n -> S]
  PROVE  f \in Seq(S) /\ Len(f) = n
  OBVIOUS

\* A payload is a sequence of blocks of its version.
LEMMA PayloadFacts ==
  ASSUME TypeOK, NEW g \in Grabs, NEW p
  PROVE  /\ Payload(g, p) \in Seq(DOMAIN Blocks \cup {Hole})
         /\ \A k \in 1..Len(Payload(g, p)) : Payload(g, p)[k] = src[g].version
<1> DEFINE v == src[g].version
<1>1. v \in DOMAIN Blocks /\ Blocks[v] \in Nat
  BY SourceFacts
<1>2. CASE p \in Links
  BY <1>1, <1>2 DEF Payload
<1>3. CASE p \notin Links
  <2>1. Payload(g, p) = [k \in 1..Blocks[v] |-> v]
    BY <1>3 DEF Payload, Content
  <2> QED
    BY <1>1, <2>1, IsSequence
<1> QED
  BY <1>2, <1>3

\* Writing the next block of a file keeps it a sequence of blocks; it is that block
\* where it was written, what was there elsewhere, and holes in between.
LEMMA WrittenFacts ==
  ASSUME NEW content \in Seq(DOMAIN Blocks \cup {Hole}),
         NEW k \in Nat \ {0}, NEW v \in DOMAIN Blocks
  PROVE  /\ Written(content, k, v) \in Seq(DOMAIN Blocks \cup {Hole})
         /\ Len(Written(content, k, v)) = IF Len(content) < k THEN k ELSE Len(content)
         /\ \A i \in 1..Len(Written(content, k, v)) :
              Written(content, k, v)[i] = IF i = k THEN v
                                          ELSE IF i <= Len(content) THEN content[i] ELSE Hole
<1> DEFINE S == DOMAIN Blocks \cup {Hole}
           n == IF Len(content) < k THEN k ELSE Len(content)
           f == Written(content, k, v)
<1>1. n \in Nat
  OBVIOUS
<1>2. f = [i \in 1..n |-> IF i = k THEN v ELSE IF i <= Len(content) THEN content[i] ELSE Hole]
  BY DEF Written
<1>3. \A i \in 1..n : (IF i = k THEN v ELSE IF i <= Len(content) THEN content[i] ELSE Hole)
                         \in S
  OBVIOUS
<1>4. f \in [1..n -> S]
  BY <1>2, <1>3
<1>5. f \in Seq(S) /\ Len(f) = n
  BY <1>1, <1>4, IsSequence
<1> QED
  BY <1>2, <1>5

\* What makes a destination of a destination: nothing, a file put or written to, or
\* a link dropped.
LEMMA DestinationNothing == Destination(Nothing)
  BY DEF Destination, Nothing

LEMMA DestinationPut ==
  ASSUME NEW d, Destination(d), NEW p \in Paths, NEW c \in Seq(DOMAIN Blocks \cup {Hole})
  PROVE  Destination(Put(d, p, c))
  BY DEF Destination, Put

LEMMA DestinationDrop ==
  ASSUME NEW d, Destination(d), NEW p
  PROVE  Destination(Drop(d, p))
  BY DEF Destination, Drop

-----------------------------------------------------------------------------
(***************************************************************************)
(* Types.                                                                  *)
(***************************************************************************)
LEMMA TypeInit == Init => TypeInv
<1> SUFFICES ASSUME Init PROVE TypeInv
  OBVIOUS
<1>1. src \in [Grabs -> Source]
  BY SourcesAssumption DEF Init
<1>2. \A g \in Grabs : offset[g] <= Blocks[src[g].version]
  BY <1>1, SourcesAssumption DEF Init, Source
<1>3. Destination(at) /\ Destination(before)
  BY DestinationNothing, ExistingAssumption DEF Init
<1> QED
  BY <1>1, <1>2, <1>3, MaxFaultsAssumption DEF Init, TypeOK, TypeInv, Made

\* Every step keeps the types.
LEMMA TypeStep == TypeInv /\ [Next]_vars => TypeInv'
<1> SUFFICES ASSUME TypeInv, [Next]_vars PROVE TypeInv'
  OBVIOUS
<1> USE MaxFaultsAssumption DEF TypeInv, TypeOK, Made, Goto, Return, Faulty, copying
<1>1. ASSUME NEW g \in Grabs, MkTmp(g) PROVE TypeInv'
  BY <1>1 DEF MkTmp
<1>2. ASSUME NEW g \in Grabs, Download(g) PROVE TypeInv'
  <2>1. tmp' \in [Grabs -> (SUBSET Paths) \cup {NoDir}]
    BY <1>2, SourceFacts DEF Download
  <2> QED
    BY <1>2, <2>1 DEF Download
<1>3. ASSUME NEW g \in Grabs, Verify(g) PROVE TypeInv'
  BY <1>3 DEF Verify
<1>4. ASSUME NEW g \in Grabs, KeepFile(g) PROVE TypeInv'
  BY <1>4 DEF KeepFile
<1>5. ASSUME NEW g \in Grabs, Unpack(g) PROVE TypeInv'
  BY <1>5, SourceFacts DEF Unpack
<1>6. ASSUME NEW g \in Grabs, UnpackFails(g) PROVE TypeInv'
  BY <1>6, SourceFacts DEF UnpackFails
<1>7. ASSUME NEW g \in Grabs, Decompress(g) PROVE TypeInv'
  BY <1>7 DEF Decompress
<1>8. ASSUME NEW g \in Grabs, StatDst(g) PROVE TypeInv'
  BY <1>8 DEF StatDst
<1>9. ASSUME NEW g \in Grabs, Rename(g) PROVE TypeInv'
  <2>1. Delivered(g) \in SUBSET Paths
    BY <1>9 DEF Rename, Renamable, Delivered
  <2>2. Destination(at')
    BY <1>9, <2>1, PayloadFacts DEF Rename, Destination
  <2> QED
    BY <1>9, <2>2 DEF Rename
<1>10. ASSUME NEW g \in Grabs, RenameFails(g) PROVE TypeInv'
  BY <1>10 DEF RenameFails
<1>11. ASSUME NEW g \in Grabs, CopyDir(g) PROVE TypeInv'
  BY <1>11 DEF CopyDir, Delivered
<1>12. ASSUME NEW g \in Grabs, WriteBlock(g) PROVE TypeInv'
  <2> DEFINE p == file[g]
             k == offset[g] + 1
             v == src[g].version
  <2>1. at' = [at EXCEPT ![p] = Written(@, k, v)] /\ offset' = [offset EXCEPT ![g] = k]
    BY <1>12 DEF WriteBlock
  <2>2. k \in Nat \ {0} /\ k <= Blocks[v]
    BY <1>12 DEF WriteBlock
  <2>3. p \in DOMAIN at => Written(at[p], k, v) \in Seq(DOMAIN Blocks \cup {Hole})
    BY <2>2, SourceFacts, WrittenFacts DEF Destination
  <2>4. Destination(at')
    BY <2>1, <2>3 DEF Destination
  <2>5. dst = "absent" => at' = Nothing
    BY <2>1 DEF Nothing
  <2>6. offset' \in [Grabs -> Nat] /\ \A h \in Grabs : offset'[h] <= Blocks[src[h].version]
    BY <2>1, <2>2
  <2> QED
    BY <1>12, <2>4, <2>5, <2>6 DEF WriteBlock
<1>13. ASSUME NEW g \in Grabs, CloseFile(g) PROVE TypeInv'
  BY <1>13 DEF CloseFile
<1>14. ASSUME NEW g \in Grabs, MakeLink(g) PROVE TypeInv'
  <2> DEFINE p == file[g]
  <2>1. p \in Links /\ p \in Paths
    BY <1>14, SourcesAssumption DEF MakeLink
  <2>2. CASE p \notin DOMAIN at
    <3>1. Destination(Put(at, p, Payload(g, p)))
      BY <2>1, PayloadFacts, DestinationPut
    <3>2. at' = Put(at, p, Payload(g, p))
      BY <1>14, <2>2 DEF MakeLink
    <3>3. dst = "dir"
      BY <1>14 DEF MakeLink
    <3> QED
      BY <1>14, <2>2, <3>1, <3>2, <3>3 DEF MakeLink
  <2>3. CASE p \in DOMAIN at
    BY <1>14, <2>3 DEF MakeLink
  <2> QED
    BY <2>2, <2>3
<1>15. ASSUME NEW g \in Grabs, NEW p \in Paths, OpenFile(g, p) PROVE TypeInv'
  <2>1. <<>> \in Seq(DOMAIN Blocks \cup {Hole})
    OBVIOUS
  <2>2. Destination(Put(at, p, <<>>))
    BY <2>1, DestinationPut
  <2> QED
    BY <1>15, <2>2, SourceFacts DEF OpenFile
<1>16. ASSUME NEW g \in Grabs, NEW p \in Paths, RemoveLink(g, p) PROVE TypeInv'
  <2>1. Destination(Drop(at, p))
    BY DestinationDrop
  <2> QED
    BY <1>16, <2>1 DEF RemoveLink
<1>17. ASSUME NEW g \in Grabs, CopyFails(g) PROVE TypeInv'
  BY <1>17 DEF CopyFails
<1>18. ASSUME NEW g \in Grabs, CopyDone(g) PROVE TypeInv'
  BY <1>18 DEF CopyDone
<1>19. ASSUME NEW g \in Grabs, Cleanup(g) PROVE TypeInv'
  BY <1>19 DEF Cleanup
<1>20. CASE UNCHANGED vars
  BY <1>20 DEF vars
<1> QED
  BY <1>1, <1>2, <1>3, <1>4, <1>5, <1>6, <1>7, <1>8, <1>9, <1>10, <1>11, <1>12, <1>13,
     <1>14, <1>15, <1>16, <1>17, <1>18, <1>19, <1>20 DEF Next, Step, Returned

\* TypeOK (grabber.go:88-177) holds of every behaviour.
THEOREM TypeCorrect == Spec => []TypeOK
<1>1. TypeInv => TypeOK
  BY DEF TypeInv
<1> QED
  BY <1>1, TypeInit, TypeStep, PTL DEF Spec

-----------------------------------------------------------------------------
(***************************************************************************)
(* Stages.                                                                 *)
(***************************************************************************)
\* A step of one Grab leaves what the others have of their own alone.
LEMMA Others ==
  ASSUME TypeOK, NEW g \in Grabs, Step(g)
  PROVE  /\ src' = src /\ before' = before
         /\ \A h \in Grabs \ {g} :
              /\ pc'[h] = pc[h] /\ result'[h] = result[h]
              /\ tmp'[h] = tmp[h] /\ extracted'[h] = extracted[h] /\ from'[h] = from[h]
              /\ todo'[h] = todo[h] /\ file'[h] = file[h] /\ offset'[h] = offset[h]
<1> USE DEF TypeOK, Goto, Return, copying
<1>1. CASE MkTmp(g) \/ Download(g) \/ Verify(g)
  BY <1>1 DEF MkTmp, Download, Verify
<1>2. CASE KeepFile(g) \/ Unpack(g) \/ UnpackFails(g) \/ Decompress(g)
  BY <1>2 DEF KeepFile, Unpack, UnpackFails, Decompress
<1>3. CASE StatDst(g) \/ Rename(g) \/ RenameFails(g)
  BY <1>3 DEF StatDst, Rename, RenameFails
<1>4. CASE CopyDir(g) \/ WriteBlock(g) \/ CloseFile(g) \/ MakeLink(g)
  BY <1>4 DEF CopyDir, WriteBlock, CloseFile, MakeLink
<1>5. CASE \E p \in Paths : OpenFile(g, p) \/ RemoveLink(g, p)
  BY <1>5 DEF OpenFile, RemoveLink
<1>6. CASE CopyFails(g) \/ CopyDone(g) \/ Cleanup(g)
  BY <1>6 DEF CopyFails, CopyDone, Cleanup
<1> QED
  BY <1>1, <1>2, <1>3, <1>4, <1>5, <1>6 DEF Step

\* What was verified may be delivered.
LEMMA VerifiesTrusted ==
  ASSUME NEW s, NEW entries, Verifies(s, entries)
  PROVE  Trusted(s)
  BY DEF Verifies, Trusted

LEMMA StageInit == Init => StageInv
<1> SUFFICES ASSUME Init PROVE StageInv
  OBVIOUS
<1>1. TypeInv
  BY TypeInit
<1>2. ASSUME NEW g \in Grabs PROVE Staged(g) /\ Underway(g)
  BY DEF Init, Staged, Underway, Early, Delivering, Over
<1> QED
  BY <1>1, <1>2 DEF StageInv

\* A Grab's own step takes it to where its stage says.
LEMMA OwnStep ==
  ASSUME StageInv, NEW g \in Grabs, Step(g)
  PROVE  (Staged(g) /\ Underway(g))'
<1> USE NamesAssumption
    DEF TypeInv, TypeOK, Goto, Return, Faulty, copying,
        Staged, Underway, Early, Delivering, Over
<1>1. Staged(g) /\ Underway(g) /\ TypeOK
  BY DEF StageInv
<1>2. Expected(g)' = Expected(g) /\ src'[g] = src[g]
  BY <1>1, Others DEF Expected
<1>3. CASE MkTmp(g)
  BY <1>1, <1>2, <1>3 DEF MkTmp
<1>4. CASE Download(g)
  BY <1>1, <1>2, <1>4 DEF Download
<1>5. CASE Verify(g)
  BY <1>1, <1>2, <1>5, VerifiesTrusted DEF Verify
<1>6. CASE KeepFile(g)
  BY <1>1, <1>2, <1>6 DEF KeepFile, Delivered, Expected
<1>7. CASE Unpack(g)
  BY <1>1, <1>2, <1>7 DEF Unpack, Delivered, Expected
<1>8. CASE UnpackFails(g) \/ Decompress(g)
  BY <1>1, <1>2, <1>8 DEF UnpackFails, Decompress
<1>9. CASE StatDst(g) \/ RenameFails(g)
  BY <1>1, <1>2, <1>9 DEF StatDst, RenameFails, Delivered
<1>10. CASE Rename(g)
  BY <1>1, <1>2, <1>10 DEF Rename
<1>11. CASE CopyDir(g)
  BY <1>1, <1>2, <1>11 DEF CopyDir, Delivered
<1>12. CASE WriteBlock(g)
  BY <1>1, <1>2, <1>12 DEF WriteBlock, Delivered
<1>13. CASE CloseFile(g)
  BY <1>1, <1>2, <1>13 DEF CloseFile, Delivered
<1>14. CASE MakeLink(g)
  BY <1>1, <1>2, <1>14 DEF MakeLink, Delivered
<1>15. ASSUME NEW p \in Paths, OpenFile(g, p) \/ RemoveLink(g, p)
       PROVE  (Staged(g) /\ Underway(g))'
  BY <1>1, <1>2, <1>15 DEF OpenFile, RemoveLink, Delivered
<1>16. CASE CopyFails(g) \/ CopyDone(g) \/ Cleanup(g)
  BY <1>1, <1>2, <1>16 DEF CopyFails, CopyDone, Cleanup
<1> QED
  BY <1>3, <1>4, <1>5, <1>6, <1>7, <1>8, <1>9, <1>10, <1>11, <1>12, <1>13, <1>14,
     <1>15, <1>16 DEF Step

\* Every step keeps every Grab where its stage says.
LEMMA StageStep == StageInv /\ [Next]_vars => StageInv'
<1> SUFFICES ASSUME StageInv, [Next]_vars PROVE StageInv'
  OBVIOUS
<1>1. TypeInv'
  BY TypeStep DEF StageInv
<1>2. ASSUME NEW g \in Grabs, Step(g), NEW h \in Grabs PROVE (Staged(h) /\ Underway(h))'
  <2>1. CASE h = g
    BY <1>2, <2>1, OwnStep
  <2>2. CASE h # g
    BY <1>2, <2>2, Others
       DEF StageInv, TypeInv, Staged, Underway, Early, Delivering, Over, Delivered, Expected
  <2> QED
    BY <2>1, <2>2
<1>3. CASE UNCHANGED vars
  BY <1>1, <1>3
     DEF vars, copying, StageInv, Staged, Underway, Early, Delivering, Over, Delivered, Expected
<1> QED
  BY <1>1, <1>2, <1>3 DEF StageInv, Next, Returned

-----------------------------------------------------------------------------
(***************************************************************************)
(* What follows from the stages.                                           *)
(***************************************************************************)
\* StagingRemoved (the deferred RemoveAll of grabber.go:96-100) holds of every
\* behaviour: a Grab that has returned leaves no staging directory behind.
THEOREM StagingRemovedCorrect == Spec => []StagingRemoved
<1>1. StageInv => StagingRemoved
  BY DEF StageInv, Staged, StagingRemoved
<1> QED
  BY <1>1, StageInit, StageStep, PTL DEF Spec

\* A block of the destination that Verified allows at a path.
Sound(p, b) ==
  \/ b = Hole
  \/ p \in DOMAIN before /\ b \in {before[p][j] : j \in 1..Len(before[p])}
  \/ \E g \in Grabs : b = src[g].version /\ Trusted(src[g])

LEMMA VerifiedIsSound == Verified <=> \A p \in DOMAIN at : \A k \in 1..Len(at[p]) : Sound(p, at[p][k])
  BY DEF Verified, Sound, Trusted

\* Every step keeps unverified content out.
LEMMA VerifiedStep == StageInv /\ Verified /\ [Next]_vars => Verified'
<1> SUFFICES ASSUME StageInv, Verified, [Next]_vars PROVE Verified'
  OBVIOUS
<1>1. TypeOK /\ Destination(at)
  BY DEF StageInv, TypeInv, TypeOK
<1>2. ASSUME at' = at, src' = src, before' = before PROVE Verified'
  BY <1>2 DEF Verified
<1>3. ASSUME NEW g \in Grabs, Step(g) PROVE Verified'
  <2> DEFINE v == src[g].version
  <2>1. src' = src /\ before' = before
    BY <1>1, <1>3, Others
  <2>2. SUFFICES ASSUME NEW p \in DOMAIN at', NEW k \in 1..Len(at'[p]), at' # at
                 PROVE  Sound(p, at'[p][k])
    BY <1>2, <2>1 DEF Verified, Sound, Trusted
  <2>3. p \in DOMAIN at => \A i \in 1..Len(at[p]) : Sound(p, at[p][i])
    BY VerifiedIsSound
  <2>4. pc[g] \in {"rename", "copying"} => Sound(p, v)
    BY DEF StageInv, Staged, Delivering, Sound
  <2>5. CASE Rename(g)
    BY <1>1, <2>4, <2>5, PayloadFacts DEF Rename
  <2>6. CASE WriteBlock(g)
    <3> DEFINE f == file[g]
               n == offset[g] + 1
    <3>1. pc[g] = "copying" /\ at' = [at EXCEPT ![f] = Written(@, n, v)]
      BY <2>6 DEF WriteBlock
    <3>2. CASE p # f
      BY <2>3, <3>1, <3>2
    <3>3. CASE p = f
      <4>1. p \in DOMAIN at /\ at'[p] = Written(at[p], n, v)
        BY <3>1, <3>3
      <4>2. at[p] \in Seq(DOMAIN Blocks \cup {Hole}) /\ n \in Nat \ {0} /\ v \in DOMAIN Blocks
        BY <1>1, <4>1, SourceFacts DEF Destination, TypeOK
      <4>3. \A i \in 1..Len(Written(at[p], n, v)) :
              Written(at[p], n, v)[i] = IF i = n THEN v ELSE IF i <= Len(at[p]) THEN at[p][i] ELSE Hole
        BY <4>2, WrittenFacts
      <4>4. k \in Nat \ {0} /\ Len(at[p]) \in Nat
        BY <4>1, <4>2, WrittenFacts
      <4>5. Sound(p, Hole)
        BY DEF Sound
      <4> QED
        BY <2>3, <2>4, <3>1, <4>1, <4>3, <4>4, <4>5
    <3> QED
      BY <3>2, <3>3
  <2>7. CASE MakeLink(g)
    <3>1. at' = Put(at, file[g], Payload(g, file[g]))
      BY <2>2, <2>7 DEF MakeLink
    <3> QED
      BY <1>1, <2>3, <2>4, <2>7, <3>1, PayloadFacts DEF MakeLink, Put
  <2>8. ASSUME NEW q \in Paths, OpenFile(g, q) PROVE Sound(p, at'[p][k])
    BY <2>3, <2>8 DEF OpenFile, Put
  <2>9. ASSUME NEW q \in Paths, RemoveLink(g, q) PROVE Sound(p, at'[p][k])
    BY <2>3, <2>9 DEF RemoveLink, Drop
  <2> QED
    BY <1>3, <2>2, <2>5, <2>6, <2>7, <2>8, <2>9
       DEF Step, MkTmp, Download, Verify, KeepFile, Unpack, UnpackFails, Decompress,
           StatDst, RenameFails, CopyDir, CloseFile, CopyFails, CopyDone, Cleanup
<1> QED
  BY <1>2, <1>3 DEF Next, Returned, vars

\* Verified (grabber.go:106-113) holds of every behaviour: no block that was not
\* verified as demanded is in the destination, not even for a moment.
THEOREM VerifiedCorrect == Spec => []Verified
<1>1. Init => Verified
  BY DEF Init, Verified
<1> QED
  BY <1>1, StageInit, StageStep, VerifiedStep, PTL DEF Spec

-----------------------------------------------------------------------------
(***************************************************************************)
(* What was in the destination, and why a Grab fails.                      *)
(***************************************************************************)
\* A step of a Grab changes the destination at paths that the Grab delivers only,
\* or renames its directory to a destination that is empty.
LEMMA Touches ==
  ASSUME StageInv, NEW g \in Grabs, Step(g), NEW p, p \notin Expected(g)
  PROVE  \/ (p \in DOMAIN at' <=> p \in DOMAIN at) /\ (p \in DOMAIN at => at'[p] = at[p])
         \/ at = Nothing /\ p \notin DOMAIN at'
<1>1. Staged(g) /\ Underway(g) /\ TypeOK
  BY DEF StageInv, TypeInv
<1>2. CASE Rename(g)
  BY <1>1, <1>2 DEF Rename, Renamable, Staged, Delivering
<1>3. CASE WriteBlock(g)
  <2>1. file[g] \in Expected(g)
    BY <1>1, <1>3, NamesAssumption DEF WriteBlock, Underway
  <2> QED
    BY <1>3, <2>1 DEF WriteBlock
<1>4. CASE MakeLink(g)
  <2>1. file[g] \in Expected(g)
    BY <1>1, <1>4, NamesAssumption, SourcesAssumption DEF MakeLink, Underway
  <2> QED
    BY <1>4, <2>1 DEF MakeLink, Put
<1>5. ASSUME NEW q \in Paths, OpenFile(g, q) \/ RemoveLink(g, q)
      PROVE  (p \in DOMAIN at' <=> p \in DOMAIN at) /\ (p \in DOMAIN at => at'[p] = at[p])
  BY <1>1, <1>5 DEF OpenFile, RemoveLink, Put, Drop, Underway
<1>6. CASE at' = at
  BY <1>6
<1> QED
  BY <1>2, <1>3, <1>4, <1>5, <1>6
     DEF Step, MkTmp, Download, Verify, KeepFile, Unpack, UnpackFails, Decompress,
         StatDst, RenameFails, CopyDir, CloseFile, CopyFails, CopyDone, Cleanup

\* Every step leaves what nobody delivers as it was.
LEMMA MergeStep == StageInv /\ MergePreserves /\ [Next]_vars => MergePreserves'
<1> SUFFICES ASSUME StageInv, MergePreserves, [Next]_vars PROVE MergePreserves'
  OBVIOUS
<1>1. ASSUME NEW g \in Grabs, Step(g) PROVE MergePreserves'
  <2>1. src' = src /\ before' = before
    BY <1>1, Others DEF StageInv, TypeInv
  <2>2. SUFFICES ASSUME NEW p \in DOMAIN before, \A h \in Grabs : p \notin Expected(h)
                 PROVE  p \in DOMAIN at' /\ at'[p] = before[p]
    BY <2>1 DEF MergePreserves, Expected
  <2>3. p \in DOMAIN at /\ at[p] = before[p]
    BY <2>2 DEF MergePreserves
  <2> QED
    BY <1>1, <2>2, <2>3, Touches DEF Nothing
<1>2. CASE UNCHANGED vars
  BY <1>2 DEF vars, MergePreserves, Expected
<1> QED
  BY <1>1, <1>2 DEF Next, Returned

\* MergePreserves (copyDir, and the rename that only replaces what is empty,
\* grabber.go:135-145) holds of every behaviour.
THEOREM MergePreservesCorrect == Spec => []MergePreserves
<1>1. Init => MergePreserves
  BY DEF Init, MergePreserves
<1> QED
  BY <1>1, StageInit, StageStep, MergeStep, PTL DEF Spec

\* Every step keeps it so that a link which came back is one another Grab has.
LEMMA LinksSharedStep == StageInv /\ LinksShared /\ [Next]_vars => LinksShared'
<1> SUFFICES ASSUME StageInv, LinksShared, [Next]_vars PROVE LinksShared'
  OBVIOUS
<1>1. ASSUME NEW g \in Grabs, Step(g) PROVE LinksShared'
  <2>1. /\ src' = src
        /\ \A h \in Grabs \ {g} : pc'[h] = pc[h] /\ file'[h] = file[h]
    BY <1>1, Others DEF StageInv, TypeInv
  <2>2. SUFFICES ASSUME NEW h \in Grabs, NEW p \in Links, Within(h, p)', p \in DOMAIN at'
                 PROVE  \E i \in Grabs \ {h} : p \in Expected(i)
    BY <2>1 DEF LinksShared, Expected
  <2>3. CASE h # g
    <3>1. Within(h, p)
      BY <2>1, <2>2, <2>3 DEF Within
    <3>2. CASE p \in DOMAIN at
      BY <3>1, <3>2 DEF LinksShared
    <3>3. CASE p \notin DOMAIN at
      BY <1>1, <2>2, <2>3, <3>3, Touches
    <3> QED
      BY <3>2, <3>3
  <2>4. CASE h = g
    <3>1. ASSUME NEW q \in Paths, RemoveLink(g, q)
          PROVE  FALSE
      BY <2>2, <2>4, <3>1 DEF RemoveLink, Within, Drop, StageInv, TypeInv, TypeOK
    <3>2. ASSUME NEW q \in Paths, OpenFile(g, q)
          PROVE  FALSE
      BY <2>2, <2>4, <3>2 DEF OpenFile, Within, StageInv, TypeInv, TypeOK
    <3>3. CASE WriteBlock(g)
      BY <2>2, <2>4, <3>3 DEF WriteBlock, Within
    <3>4. CASE MakeLink(g)
      BY <2>2, <2>4, <3>4, NamesAssumption, SourcesAssumption
         DEF MakeLink, Within, StageInv, TypeInv, TypeOK, Return, Goto
    <3>5. CASE CloseFile(g)
      BY <2>2, <2>4, <3>5, NamesAssumption, SourcesAssumption
         DEF CloseFile, Within, StageInv, TypeInv, TypeOK
    <3>6. CASE CopyDir(g)
      BY <2>2, <2>4, <3>6, NamesAssumption, SourcesAssumption
         DEF CopyDir, Within, StageInv, TypeInv, TypeOK, Underway, Over, Return, Goto
    <3> QED
      BY <1>1, <2>2, <2>4, <3>1, <3>2, <3>3, <3>4, <3>5, <3>6
         DEF Step, MkTmp, Download, Verify, KeepFile, Unpack, UnpackFails, Decompress,
             StatDst, Rename, RenameFails, CopyFails, CopyDone, Cleanup, Return, Goto,
             Within, StageInv, TypeInv, TypeOK
  <2> QED
    BY <2>3, <2>4
<1>2. CASE UNCHANGED vars
  BY <1>2 DEF vars, copying, LinksShared, Within, Expected
<1> QED
  BY <1>1, <1>2 DEF Next, Returned

\* Every step that fails has a cause.
LEMMA SucceedsStep == StageInv /\ LinksShared /\ GrabSucceeds /\ [Next]_vars => GrabSucceeds'
<1> SUFFICES ASSUME StageInv, LinksShared, GrabSucceeds, [Next]_vars PROVE GrabSucceeds'
  OBVIOUS
<1> DEFINE Cause(g) ==
      \/ ~Verifies(src[g], src[g].got)
      \/ Unpacks(src[g]) /\ src[g].format \in {"empty", "single"}
      \/ \E h \in Grabs \ {g} : Expected(g) \cap Expected(h) \cap Links # {}
<1>1. ASSUME NEW g \in Grabs, Step(g) PROVE GrabSucceeds'
  <2>1. src' = src /\ \A h \in Grabs \ {g} : result'[h] = result[h]
    BY <1>1, Others DEF StageInv, TypeInv
  <2>2. faults \in Nat /\ faults' \in Nat /\ faults <= faults'
    BY <1>1, MaxFaultsAssumption
       DEF StageInv, TypeInv, TypeOK, Step, MkTmp, Download, Verify, KeepFile, Unpack,
           UnpackFails, Decompress, StatDst, Rename, RenameFails, CopyDir, WriteBlock,
           CloseFile, MakeLink, OpenFile, RemoveLink, CopyFails, CopyDone, Cleanup, Faulty
  <2>3. ASSUME result[g] # "err", result'[g] = "err"
        PROVE  faults' > 0 \/ Cause(g)
    <3> USE DEF StageInv, TypeInv, TypeOK, Return, Goto
    <3>1. CASE faults' = faults + 1
      BY <2>2, <3>1
    <3>2. CASE Verify(g)
      BY <2>2, <2>3, <3>2 DEF Verify, Staged, Faulty
    <3>3. CASE Decompress(g)
      BY <3>3 DEF Decompress
    <3>4. CASE CopyDir(g) /\ faults' = faults
      <4>1. Delivered(g) = NoDir /\ pc[g] = "copy"
        BY <2>2, <2>3, <3>4 DEF CopyDir, Faulty
      <4>2. Expected(g) # NoDir
        BY SourceFacts, NamesAssumption
      <4> QED
        BY <4>1, <4>2 DEF Staged, Delivering
    <3>5. CASE MakeLink(g)
      <4>1. pc[g] = "copying" /\ file[g] \in Links /\ file[g] \in DOMAIN at
        BY <2>3, <3>5 DEF MakeLink
      <4>2. PICK h \in Grabs \ {g} : file[g] \in Expected(h)
        BY <4>1 DEF LinksShared, Within
      <4>3. file[g] \in Expected(g)
        BY <4>1, NamesAssumption, SourcesAssumption DEF Underway
      <4> QED
        BY <4>1, <4>2, <4>3
    <3> QED
      BY <1>1, <2>3, <3>1, <3>2, <3>3, <3>4, <3>5
         DEF Step, MkTmp, Download, KeepFile, Unpack, UnpackFails, StatDst, Rename,
             RenameFails, CopyDir, WriteBlock, CloseFile, OpenFile, RemoveLink, CopyFails,
             CopyDone, Cleanup, Faulty
  <2>4. ASSUME NEW h \in Grabs, result'[h] = "err" PROVE faults' > 0 \/ Cause(h)
    <3>1. CASE result[h] = "err"
      BY <2>2, <3>1 DEF GrabSucceeds
    <3>2. CASE result[h] # "err"
      BY <2>1, <2>3, <2>4, <3>2
    <3> QED
      BY <3>1, <3>2
  <2> QED
    BY <2>1, <2>4 DEF GrabSucceeds, Expected
<1>2. CASE UNCHANGED vars
  BY <1>2 DEF vars, GrabSucceeds, Expected
<1> QED
  BY <1>1, <1>2 DEF Next, Returned

\* GrabSucceeds (grabber.go:84-192) holds of every behaviour: Grabs into one
\* destination do not fail one another, but for a link that two of them have.
THEOREM GrabSucceedsCorrect == Spec => []GrabSucceeds
<1>1. Init => LinksShared /\ GrabSucceeds
  BY DEF Init, LinksShared, Within, GrabSucceeds
<1> QED
  BY <1>1, StageInit, StageStep, LinksSharedStep, SucceedsStep, PTL DEF Spec

-----------------------------------------------------------------------------
(***************************************************************************)
(* Whole files.                                                            *)
(***************************************************************************)
\* Who have a path agree on it only if they did before.
LEMMA AgreedBefore ==
  ASSUME StageInv, NEW g \in Grabs, Step(g), NEW p, Agreed(p)'
  PROVE  Agreed(p)
<1>1. src' = src /\ \A h \in Grabs \ {g} : result'[h] = result[h]
  BY Others DEF StageInv, TypeInv
<1>2. result[g] = "err" => result'[g] = "err"
  <2>1. result[g] = "err" => pc[g] \in Over
    BY DEF StageInv, Staged
  <2> QED
    BY <2>1
       DEF Over, Step, MkTmp, Download, Verify, KeepFile, Unpack, UnpackFails, Decompress,
           StatDst, Rename, RenameFails, CopyDir, WriteBlock, CloseFile, MakeLink,
           OpenFile, RemoveLink, CopyFails, CopyDone, Cleanup
<1> QED
  BY <1>1, <1>2 DEF Agreed, Expected

\* A Grab becomes finished with a path by renaming, or by completing its copy.
Completes(g, p) == (CloseFile(g) \/ MakeLink(g)) /\ file[g] = p

LEMMA FinishedBefore ==
  ASSUME StageInv, NEW g \in Grabs, Step(g), NEW p \in Paths,
         NEW h \in Grabs, Finished(h, p)'
  PROVE  Finished(h, p) \/ (h = g /\ (Rename(g) \/ Completes(g, p)))
<1>1. src' = src
  BY Others DEF StageInv, TypeInv
<1>2. CASE h # g
  BY <1>1, <1>2, Others DEF StageInv, TypeInv, Finished, Expected
<1>3. CASE h = g
  <2> USE <1>1, <1>3 DEF StageInv, TypeInv, TypeOK, Finished, Expected, Return, Goto
  <2>1. CASE CopyDir(g)
    <3>1. Delivered(g) # NoDir => Delivered(g) = Expected(g)
      BY <2>1 DEF CopyDir, Staged, Delivering
    <3> QED
      BY <2>1, <3>1 DEF CopyDir
  <2>2. CASE CloseFile(g) \/ MakeLink(g)
    BY <2>2 DEF CloseFile, MakeLink, Completes
  <2>3. CASE WriteBlock(g) \/ (\E q \in Paths : OpenFile(g, q) \/ RemoveLink(g, q))
    BY <2>3 DEF WriteBlock, OpenFile, RemoveLink
  <2>4. CASE CopyFails(g) \/ CopyDone(g) \/ Cleanup(g)
    BY <2>4 DEF CopyFails, CopyDone, Cleanup
  <2>5. CASE MkTmp(g) \/ Download(g) \/ Verify(g) \/ KeepFile(g)
    BY <2>5 DEF MkTmp, Download, Verify, KeepFile
  <2>6. CASE Unpack(g) \/ UnpackFails(g) \/ Decompress(g) \/ StatDst(g) \/ RenameFails(g)
    BY <2>6 DEF Unpack, UnpackFails, Decompress, StatDst, RenameFails
  <2> QED
    BY <2>1, <2>2, <2>3, <2>4, <2>5, <2>6 DEF Step
<1> QED
  BY <1>2, <1>3

\* Who is within a path stays so, and has as much to write, unless he writes,
\* completes his copy, or fails.
LEMMA WithinAfter ==
  ASSUME StageInv, NEW g \in Grabs, Step(g), NEW p \in Paths,
         NEW h \in Grabs, Within(h, p)
  PROVE  \/ Within(h, p)' /\ (offset'[h] = offset[h] \/ (h = g /\ WriteBlock(g)))
         \/ h = g /\ (Completes(g, p) \/ (p \in Expected(g) /\ result'[g] = "err"))
<1>1. CASE h # g
  BY <1>1, Others DEF StageInv, TypeInv, Within
<1>2. CASE h = g
  <2> USE <1>2, NamesAssumption DEF StageInv, TypeInv, TypeOK, Within, Return, Goto
  <2>1. pc[g] = "copying" /\ file[g] = p /\ p # NoFile /\ p \in todo[g] /\ p \in Expected(g)
    BY DEF Underway
  <2>2. CASE WriteBlock(g)
    BY <2>1, <2>2 DEF WriteBlock
  <2>3. CASE CloseFile(g) \/ MakeLink(g)
    BY <2>1, <2>3 DEF Completes
  <2>4. CASE CopyFails(g)
    BY <2>1, <2>4 DEF CopyFails
  <2> QED
    BY <2>1, <2>2, <2>3, <2>4
       DEF Step, MkTmp, Download, Verify, KeepFile, Unpack, UnpackFails, Decompress,
           StatDst, Rename, RenameFails, CopyDir, OpenFile, RemoveLink, CopyDone, Cleanup
<1> QED
  BY <1>1, <1>2

\* Who is within a path was before, or has just opened the file or removed the link.
LEMMA WithinBefore ==
  ASSUME StageInv, NEW g \in Grabs, Step(g), NEW p \in Paths,
         NEW h \in Grabs, Within(h, p)'
  PROVE  Within(h, p) \/ (h = g /\ (OpenFile(g, p) \/ RemoveLink(g, p)))
<1>1. CASE h # g
  BY <1>1, Others DEF StageInv, TypeInv, Within
<1>2. CASE h = g
  <2> USE <1>2, NamesAssumption DEF StageInv, TypeInv, TypeOK, Within, Return, Goto
  <2>1. CASE CopyDir(g)
    BY <2>1 DEF CopyDir, Underway, Over
  <2>2. CASE CloseFile(g) \/ MakeLink(g)
    BY <2>2 DEF CloseFile, MakeLink
  <2>3. CASE WriteBlock(g) \/ (\E q \in Paths : OpenFile(g, q) \/ RemoveLink(g, q))
    BY <2>3 DEF WriteBlock, OpenFile, RemoveLink
  <2> QED
    BY <2>1, <2>2, <2>3
       DEF Step, MkTmp, Download, Verify, KeepFile, Unpack, UnpackFails, Decompress,
           StatDst, Rename, RenameFails, CopyFails, CopyDone, Cleanup
<1> QED
  BY <1>1, <1>2

\* A file stays whole when nobody writes to it or closes it.
LEMMA FileKept ==
  ASSUME NEW g \in Grabs, NEW p, FileWhole(g, p), src' = src,
         p \in DOMAIN at', at'[p] = at[p],
         \A h \in Grabs : Within(h, p) => Within(h, p)' /\ offset'[h] = offset[h]
  PROVE  FileWhole(g, p)'
  BY DEF FileWhole

\* Every step keeps files whole.
LEMMA FilesWholeStep == StageInv /\ FilesWhole /\ [Next]_vars => FilesWhole'
<1> SUFFICES ASSUME StageInv, FilesWhole, [Next]_vars PROVE FilesWhole'
  OBVIOUS
<1>1. ASSUME NEW a \in Grabs, Step(a),
             NEW g \in Grabs, NEW p \in Paths \ Links,
             Agreed(p)', Within(g, p)' \/ Finished(g, p)'
      PROVE  FileWhole(g, p)'
  <2> DEFINE v == src[g].version
  <2>1. src' = src /\ TypeOK /\ v \in DOMAIN Blocks /\ Blocks[v] \in Nat \ {0}
    BY <1>1, Others, SourceFacts DEF StageInv, TypeInv
  <2>2. Agreed(p)
    BY <1>1, AgreedBefore
  <2>3. p \in Expected(g)
    BY <1>1, <2>1, StageStep, NamesAssumption
       DEF StageInv, Underway, Within, Finished, Expected
  <2>4. Within(a, p) => p \in Expected(a)
    BY NamesAssumption DEF StageInv, Underway, Within
  <2>5. p \in Expected(a) => src[a].version = v /\ result'[a] # "err"
    BY <1>1, <2>1, <2>3 DEF Agreed, Expected
  \* The file is only looked at from afar.
  <2>6. ASSUME Within(g, p) \/ Finished(g, p), p \in DOMAIN at => p \in DOMAIN at' /\ at'[p] = at[p],
               ~(WriteBlock(a) /\ file[a] = p), ~Completes(a, p)
        PROVE  FileWhole(g, p)'
    <3>1. FileWhole(g, p)
      BY <2>2, <2>6 DEF FilesWhole
    <3>2. \A h \in Grabs : Within(h, p) => Within(h, p)' /\ offset'[h] = offset[h]
      BY <1>1, <2>5, <2>6, WithinAfter DEF Within
    <3> QED
      BY <2>1, <2>6, <3>1, <3>2, FileKept DEF FileWhole
  <2> DEFINE Arrives == Rename(a) \/ Completes(a, p) \/ OpenFile(a, p)
  <2>7. ASSUME ~Arrives PROVE Within(g, p) \/ Finished(g, p)
    BY <1>1, <2>7, FinishedBefore, WithinBefore DEF RemoveLink
  <2>8. CASE Rename(a)
    <3>1. at = Nothing /\ Delivered(a) = Expected(a) /\ at' = [q \in Delivered(a) |-> Payload(a, q)]
      BY <2>8 DEF Rename, Renamable, StageInv, Staged, Delivering
    <3>2. ~FileWhole(g, p)
      BY <3>1 DEF FileWhole, Nothing
    <3>3. ~(Within(g, p) \/ Finished(g, p))
      BY <2>2, <3>2 DEF FilesWhole
    <3>4. g = a
      BY <1>1, <2>1, <3>3, FinishedBefore, Others DEF Within
    <3>5. p \in DOMAIN at' /\ at'[p] = Content(v)
      BY <2>3, <3>1, <3>4 DEF Payload
    <3>6. Len(at'[p]) = Blocks[v] /\ \A k \in 1..Blocks[v] : at'[p][k] = v
      BY <2>1, <3>5 DEF Content
    <3> QED
      BY <2>1, <3>5, <3>6 DEF FileWhole
  <2>9. CASE WriteBlock(a)
    <3>1. Within(g, p) \/ Finished(g, p)
      <4>1. ~Arrives
        BY <2>1, <2>9, NamesAssumption
           DEF WriteBlock, Rename, Completes, CloseFile, MakeLink, OpenFile, TypeOK
      <4> QED
        BY <2>7, <4>1
    <3>2. CASE file[a] # p
      BY <2>6, <2>9, <3>1, <3>2 DEF WriteBlock, Completes
    <3>3. CASE file[a] = p
      <4> DEFINE k == offset[a] + 1
                 c == Written(at[p], k, v)
      <4>1. FileWhole(g, p)
        BY <2>2, <3>1 DEF FilesWhole
      <4>2. Within(a, p) /\ src[a].version = v
        BY <2>4, <2>5, <2>9, <3>3 DEF Within, WriteBlock
      <4>3. /\ p \in DOMAIN at' /\ at'[p] = c
            /\ k <= Blocks[v] /\ offset' = [offset EXCEPT ![a] = k]
        BY <2>9, <3>3, <4>1, <4>2 DEF WriteBlock, FileWhole
      <4>4. /\ at[p] \in Seq(DOMAIN Blocks \cup {Hole}) /\ k \in Nat \ {0}
            /\ offset \in [Grabs -> Nat]
        BY <2>1, <4>1 DEF TypeOK, Destination, FileWhole
      <4>5. Len(c) = IF Len(at[p]) < k THEN k ELSE Len(at[p])
        BY <2>1, <4>4, WrittenFacts
      <4>6. \A i \in 1..Len(c) : c[i] = IF i = k THEN v ELSE IF i <= Len(at[p]) THEN at[p][i] ELSE Hole
        BY <2>1, <4>4, WrittenFacts
      <4>7. Len(at[p]) \in Nat /\ Len(at[p]) <= Blocks[v]
        BY <4>1, <4>4 DEF FileWhole
      <4>8. ASSUME NEW i \in 1..Blocks[v]
            PROVE  \/ i <= Len(c) /\ c[i] = v
                   \/ \E h \in Grabs : Within(h, p)' /\ offset'[h] < i
        <5>1. CASE i <= Len(at[p]) /\ at[p][i] = v
          BY <2>1, <4>4, <4>5, <4>6, <4>7, <5>1
        <5>2. ASSUME NEW h \in Grabs, Within(h, p), offset[h] < i
              PROVE  \/ i <= Len(c) /\ c[i] = v
                     \/ \E j \in Grabs : Within(j, p)' /\ offset'[j] < i
          <6>1. Within(h, p)'
            BY <2>9, <5>2 DEF WriteBlock, Within
          <6>2. CASE h # a
            BY <4>3, <4>4, <5>2, <6>1, <6>2
          <6>3. CASE h = a /\ i = k
            BY <2>1, <4>4, <4>5, <4>6, <4>7, <6>3
          <6>4. CASE h = a /\ i # k
            BY <2>1, <4>3, <4>4, <5>2, <6>1, <6>4
          <6> QED
            BY <6>2, <6>3, <6>4
        <5> QED
          BY <4>1, <5>1, <5>2 DEF FileWhole
      <4>9. Len(c) <= Blocks[v]
        BY <4>3, <4>5, <4>7
      <4> QED
        BY <2>1, <4>3, <4>8, <4>9 DEF FileWhole
    <3> QED
      BY <3>2, <3>3
  <2>10. CASE Completes(a, p)
    <3>1. CloseFile(a) /\ Within(a, p) /\ at' = at /\ offset' = offset
      BY <2>10 DEF Completes, CloseFile, MakeLink, Within
    <3>2. src[a].version = v /\ offset[a] = Blocks[v]
      BY <2>4, <2>5, <3>1 DEF CloseFile
    <3>3. FileWhole(a, p)
      BY <2>2, <3>1 DEF FilesWhole
    <3>4. \A h \in Grabs \ {a} : Within(h, p) => Within(h, p)'
      BY <1>1, WithinAfter
    <3>5. offset[a] \in Nat
      BY <2>1 DEF TypeOK
    <3>6. ASSUME NEW i \in 1..Blocks[v], NEW h \in Grabs, Within(h, p), offset[h] < i
          PROVE  Within(h, p)' /\ offset'[h] < i
      <4>1. h # a
        BY <2>1, <3>2, <3>5, <3>6
      <4> QED
        BY <3>1, <3>4, <3>6, <4>1
    <3> QED
      BY <2>1, <3>1, <3>2, <3>3, <3>6 DEF FileWhole
  <2>11. CASE OpenFile(a, p)
    <3>1. p \in DOMAIN at' /\ at'[p] = <<>> /\ Within(a, p)' /\ offset'[a] = 0
      BY <2>1, <2>11 DEF OpenFile, Put, Within, TypeOK
    <3> QED
      BY <2>1, <3>1 DEF FileWhole
  <2>12. ASSUME NEW q \in Paths, q # p, OpenFile(a, q) PROVE FileWhole(g, p)'
    <3>1. ~Arrives
      BY <2>1, <2>12, NamesAssumption
         DEF OpenFile, Rename, Completes, CloseFile, MakeLink, TypeOK
    <3> QED
      BY <2>6, <2>12, <2>7, <3>1, NamesAssumption DEF OpenFile, Put, WriteBlock, Completes
  <2>13. ASSUME NEW q \in Paths, RemoveLink(a, q) PROVE FileWhole(g, p)'
    <3>1. ~Arrives /\ q # p
      BY <2>1, <2>13, NamesAssumption
         DEF RemoveLink, OpenFile, Rename, Completes, CloseFile, MakeLink, TypeOK
    <3> QED
      BY <2>6, <2>7, <2>13, <3>1, NamesAssumption DEF RemoveLink, Drop, WriteBlock, Completes
  <2>14. CASE MakeLink(a)
    <3>1. ~Arrives /\ file[a] # p
      BY <2>14, NamesAssumption, SourcesAssumption DEF OpenFile, Rename, Completes, MakeLink
    <3> QED
      BY <2>6, <2>7, <2>14, <3>1 DEF MakeLink, Put, WriteBlock, Completes
  <2>15. CASE at' = at /\ ~Arrives /\ ~WriteBlock(a)
    BY <2>6, <2>7, <2>15
  <2> QED
    BY <1>1, <2>8, <2>9, <2>10, <2>11, <2>12, <2>13, <2>14, <2>15
       DEF Step, MkTmp, Download, Verify, KeepFile, Unpack, UnpackFails, Decompress,
           StatDst, RenameFails, CopyDir, CloseFile, CopyFails, CopyDone, Cleanup
<1>2. CASE UNCHANGED vars
  BY <1>2 DEF vars, copying, FilesWhole, Agreed, Expected, Within, Finished, FileWhole
<1> QED
  BY <1>1, <1>2 DEF FilesWhole, Next, Returned

-----------------------------------------------------------------------------
(***************************************************************************)
(* Whole links, and the whole delivery.                                    *)
(***************************************************************************)
\* Every step keeps links whole.
LEMMA LinksWholeStep == StageInv /\ LinksWhole /\ [Next]_vars => LinksWhole'
<1> SUFFICES ASSUME StageInv, LinksWhole, [Next]_vars PROVE LinksWhole'
  OBVIOUS
<1> DEFINE There(g, p) ==
      \/ p \in DOMAIN at /\ at[p] = <<src[g].version>>
      \/ \E h \in Grabs : Within(h, p)
<1>1. ASSUME NEW a \in Grabs, Step(a),
             NEW g \in Grabs, NEW p \in Links,
             Agreed(p)', Finished(g, p)'
      PROVE  There(g, p)'
  <2> DEFINE v == src[g].version
  <2>1. src' = src /\ TypeOK /\ p \in Paths
    BY <1>1, Others, SourcesAssumption DEF StageInv, TypeInv
  <2>2. Agreed(p)
    BY <1>1, AgreedBefore
  <2>3. p \in Expected(a) => src[a].version = v /\ result'[a] # "err"
    BY <1>1, <2>1 DEF Agreed, Expected, Finished
  \* The link is left alone.
  <2>4. ASSUME ~Rename(a), ~Completes(a, p),
               p \in DOMAIN at => p \in DOMAIN at' /\ at'[p] = at[p]
        PROVE  There(g, p)'
    <3>1. There(g, p)
      BY <1>1, <2>1, <2>2, <2>4, FinishedBefore DEF LinksWhole
    <3>2. \A h \in Grabs : Within(h, p) => Within(h, p)'
      BY <1>1, <2>1, <2>3, <2>4, WithinAfter
    <3> QED
      BY <2>1, <2>4, <3>1, <3>2
  <2>5. CASE Rename(a)
    <3>1. at = Nothing /\ Delivered(a) = Expected(a) /\ at' = [q \in Delivered(a) |-> Payload(a, q)]
      BY <2>5 DEF Rename, Renamable, StageInv, Staged, Delivering
    <3>2. CASE p \in Expected(a)
      BY <2>1, <2>3, <3>1, <3>2 DEF Payload
    <3>3. CASE p \notin Expected(a)
      <4>1. Finished(g, p)
        BY <1>1, <2>1, <3>3, FinishedBefore DEF Finished, Expected
      <4>2. PICK h \in Grabs : Within(h, p)
        BY <2>2, <3>1, <4>1 DEF LinksWhole, Nothing
      <4>3. Within(h, p)'
        BY <1>1, <2>1, <2>5, <3>3, <4>2, WithinAfter DEF Rename, Within
      <4> QED
        BY <4>3
    <3> QED
      BY <3>2, <3>3
  <2>6. CASE Completes(a, p)
    <3>1. p \in Expected(a) /\ MakeLink(a) /\ file[a] = p
      BY <2>1, <2>6, NamesAssumption
         DEF Completes, CloseFile, MakeLink, StageInv, Underway
    <3>2. p \notin DOMAIN at /\ at' = Put(at, p, Payload(a, p))
      BY <2>1, <2>3, <3>1 DEF MakeLink, Return, TypeOK
    <3> QED
      BY <2>1, <2>3, <3>1, <3>2 DEF Put, Payload
  <2>7. CASE RemoveLink(a, p)
    BY <2>1, <2>7 DEF RemoveLink, Within, TypeOK
  <2>8. ASSUME NEW q \in Paths, q # p, RemoveLink(a, q) PROVE There(g, p)'
    <3>1. ~Rename(a) /\ ~Completes(a, p)
      BY <2>1, <2>8, NamesAssumption DEF RemoveLink, Rename, Completes
    <3> QED
      BY <2>4, <2>8, <3>1 DEF RemoveLink, Drop
  <2>9. ASSUME NEW q \in Paths, OpenFile(a, q) PROVE There(g, p)'
    <3>1. ~Rename(a) /\ ~Completes(a, p) /\ q # p
      BY <2>1, <2>9, NamesAssumption DEF OpenFile, Rename, Completes
    <3> QED
      BY <2>4, <2>9, <3>1 DEF OpenFile, Put
  <2>10. CASE WriteBlock(a)
    <3>1. p # file[a] /\ ~Rename(a)
      BY <2>10 DEF WriteBlock, Rename
    <3> QED
      BY <2>4, <2>10, <3>1 DEF WriteBlock, Completes
  <2>11. CASE MakeLink(a) /\ file[a] # p
    BY <2>4, <2>11 DEF MakeLink, Put, Rename, Completes
  <2>12. CASE at' = at /\ ~Rename(a) /\ ~Completes(a, p)
    BY <2>4, <2>12
  <2> QED
    BY <1>1, <2>5, <2>6, <2>7, <2>8, <2>9, <2>10, <2>11, <2>12
       DEF Step, MkTmp, Download, Verify, KeepFile, Unpack, UnpackFails, Decompress,
           StatDst, RenameFails, CopyDir, CloseFile, CopyFails, CopyDone, Cleanup, Completes
<1>2. CASE UNCHANGED vars
  BY <1>2 DEF vars, copying, LinksWhole, Agreed, Expected, Within, Finished
<1> QED
  BY <1>1, <1>2 DEF LinksWhole, Next, Returned

\* When all have returned, nobody has yet to write.
LEMMA WholeAtLast ==
  ASSUME StageInv, FilesWhole, LinksWhole
  PROVE  DeliveredWhole
<1> SUFFICES ASSUME \A h \in Grabs : pc[h] = "done",
                    NEW g \in Grabs, NEW p \in Paths,
                    result[g] = "ok", p \in Expected(g),
                    \A h \in Grabs : p \in Expected(h) =>
                      result[h] = "ok" /\ src[h].version = src[g].version
             PROVE  p \in DOMAIN at /\ at[p] = Payload(g, p)
  BY DEF DeliveredWhole
<1> DEFINE v == src[g].version
<1>1. Agreed(p) /\ Finished(g, p) /\ \A h \in Grabs : ~Within(h, p)
  BY DEF Agreed, Finished, Within
<1>2. CASE p \in Links
  BY <1>1, <1>2 DEF LinksWhole, Payload
<1>3. CASE p \notin Links
  <2>1. FileWhole(g, p)
    BY <1>1, <1>3 DEF FilesWhole
  <2>2. /\ p \in DOMAIN at /\ at[p] \in Seq(DOMAIN Blocks \cup {Hole})
        /\ Blocks[v] \in Nat \ {0}
    BY <2>1, SourceFacts DEF FileWhole, StageInv, TypeInv, TypeOK, Destination
  <2>3. Len(at[p]) <= Blocks[v] /\ \A k \in 1..Blocks[v] : k <= Len(at[p]) /\ at[p][k] = v
    BY <1>1, <2>1 DEF FileWhole
  <2>4. Len(at[p]) = Blocks[v]
    BY <2>2, <2>3
  <2>5. at[p] = [k \in 1..Blocks[v] |-> v]
    BY <2>2, <2>3, <2>4
  <2> QED
    BY <1>3, <2>2, <2>5 DEF Payload, Content
<1> QED
  BY <1>2, <1>3

\* DeliveredWhole (the rename of grabber.go:135-140, copyFile and copySymlink,
\* grabber.go:177-213) holds of every behaviour: Grabs that copy the same files at
\* the same time leave them whole.
THEOREM DeliveredWholeCorrect == Spec => []DeliveredWhole
<1>1. Init => FilesWhole /\ LinksWhole
  BY DEF Init, FilesWhole, LinksWhole, Within, Finished
<1>2. StageInv /\ FilesWhole /\ LinksWhole => DeliveredWhole
  BY WholeAtLast
<1> QED
  BY <1>1, <1>2, StageInit, StageStep, FilesWholeStep, LinksWholeStep, PTL DEF Spec

=============================================================================
