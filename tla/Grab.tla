-------------------------------- MODULE Grab --------------------------------
(***************************************************************************)
(* Grabber.grab of grabber.go: several Grabs that run at the same time, each *)
(* with its own staging directory, into one destination directory.  A Grab *)
(* downloads, verifies the checksum, extracts, and delivers: it renames    *)
(* its staging directory to the destination when there is none yet, and    *)
(* otherwise copies into it, entry by entry and block by block.            *)
(***************************************************************************)
EXTENDS Naturals, Sequences, FiniteSets

CONSTANTS
  Grabs,      \* the Grabs under way
  Paths,      \* the paths of files below the destination
  Links,      \* those of Paths that are symbolic links wherever they occur
  Blocks,     \* the contents of files: Blocks[v] is how many blocks version v has
  Requests,   \* what the Grabs may be asked for: a Source each
  Existing,   \* what the destination may hold before, see Destination
  MaxFaults   \* bound: operations of the system that fail

(***************************************************************************)
(* A source is what its URL yields and how the Grab is called.             *)
(*   isFile    a single file; otherwise a directory                        *)
(*   got       the paths the download writes                               *)
(*   format    for a file, by its extension: not an archive, an archive of *)
(*             files, an archive with no entry, or one compressed file     *)
(*   inner     the paths in the archive                                    *)
(*   version   the version of all of these                                 *)
(*   auto      settings.EnableAutoExtract                                  *)
(*   explicit  the checksum argument                                       *)
(*   inURL     the checksum parameter of the URL; "malformed" is one       *)
(*             without algorithm or without value                          *)
(***************************************************************************)
Checksum == {"none", "match", "mismatch", "unsupported"}

Source ==
  [isFile : BOOLEAN, got : SUBSET Paths, format : {"plain", "tree", "empty", "single"},
   inner : SUBSET (Paths \ Links), version : DOMAIN Blocks, auto : BOOLEAN,
   explicit : {"none", "match", "mismatch"}, inURL : Checksum \cup {"malformed"}]

Content(v) == [k \in 1..Blocks[v] |-> v]

NoDir == {"no directory"}  \* no set of paths
NoFile == "none"           \* no path

\* The contents of the destination: a sequence of blocks, 0 being a hole, for
\* every path that is there.  A link is one block.
Hole == 0
Destination(d) ==
  DOMAIN d \subseteq Paths /\ d \in [DOMAIN d -> Seq(DOMAIN Blocks \cup {Hole})]
Nothing == [p \in {} |-> <<>>]
Put(d, p, content) == [q \in DOMAIN d \cup {p} |-> IF q = p THEN content ELSE d[q]]
Drop(d, p) == [q \in DOMAIN d \ {p} |-> d[q]]

ASSUME SourcesAssumption ==
  /\ DOMAIN Blocks \subseteq Nat \ {0} /\ \A v \in DOMAIN Blocks : Blocks[v] \in Nat \ {0}
  /\ Links \subseteq Paths
  /\ Requests \subseteq [Grabs -> Source]
  /\ \A r \in Requests : \A g \in Grabs :
       r[g].isFile => Cardinality(r[g].got) = 1 /\ r[g].got \cap Links = {}
ASSUME NamesAssumption == NoFile \notin Paths /\ NoDir \notin SUBSET Paths
ASSUME ExistingAssumption == \A d \in Existing : Destination(d)
ASSUME MaxFaultsAssumption == MaxFaults \in Nat

VARIABLES
  src,        \* what each Grab was asked for
  pc,         \* where each Grab is
  tmp,        \* the entries of each staging directory, or NoDir
  extracted,  \* the entries of its subdirectory _extracted, or NoDir
  from,       \* the directory that is delivered: grab's variable tmpDir
  todo,       \* the entries copyDir has still to copy
  file,       \* the entry being copied, or NoFile
  offset,     \* the blocks of it written so far
  dst,        \* "absent", or "dir"
  at,         \* the contents of the destination
  before,     \* history: its contents before
  faults,     \* failures so far
  result      \* what each Grab returns

copying == <<todo, file, offset>>
vars == <<src, pc, tmp, extracted, from, copying, dst, at, before, faults, result>>

Init ==
  /\ src \in Requests
  /\ pc = [g \in Grabs |-> "start"]
  /\ tmp = [g \in Grabs |-> NoDir] /\ extracted = [g \in Grabs |-> NoDir]
  /\ from = [g \in Grabs |-> "tmp"]
  /\ todo = [g \in Grabs |-> {}] /\ file = [g \in Grabs |-> NoFile]
  /\ offset = [g \in Grabs |-> 0]
  /\ \/ dst = "absent" /\ at = Nothing
     \/ dst = "dir" /\ at \in Existing
  /\ before = at /\ faults = 0
  /\ result = [g \in Grabs |-> "none"]

Goto(g, label) == pc' = [pc EXCEPT ![g] = label]

\* grab returns r: the deferred removal of the staging directory comes next.
Return(g, r) ==
  /\ Goto(g, "cleanup") /\ result' = [result EXCEPT ![g] = r]

Faulty == faults < MaxFaults /\ faults' = faults + 1

-----------------------------------------------------------------------------
(***************************************************************************)
(* Staging.                                                                *)
(***************************************************************************)
MkTmp(g) ==
  /\ pc[g] = "start"
  /\ \/ Goto(g, "download") /\ tmp' = [tmp EXCEPT ![g] = {}] /\ UNCHANGED <<faults, result>>
     \/ /\ Faulty /\ Goto(g, "done") /\ result' = [result EXCEPT ![g] = "err"]
        /\ UNCHANGED tmp
  /\ UNCHANGED <<src, extracted, from, copying, dst, at, before>>

\* g.download; when it fails it may leave part of the entries behind.
Download(g) ==
  /\ pc[g] = "download"
  /\ \/ Goto(g, "verify") /\ tmp' = [tmp EXCEPT ![g] = src[g].got] /\ UNCHANGED <<faults, result>>
     \/ /\ Faulty /\ Return(g, "err")
        /\ \E part \in SUBSET src[g].got : tmp' = [tmp EXCEPT ![g] = part]
  /\ UNCHANGED <<src, extracted, from, copying, dst, at, before>>

\* The checksum that applies: the explicit one, or the URL's; extractChecksum
\* reads a malformed one as none at all.
Demanded(s) ==
  IF s.explicit # "none" THEN s.explicit
  ELSE IF s.inURL = "malformed" THEN "none" ELSE s.inURL

\* Fault: a checksum demanded of a directory is passed over.
Verifies_FilesOnly(s, entries) ==
  \/ Demanded(s) = "none" \/ ~s.isFile
  \/ Cardinality(entries) = 1 /\ Demanded(s) = "match"

\* Whether verifyChecksum accepts; only a single file can be verified.
Verifies(s, entries) ==
  \/ Demanded(s) = "none"
  \/ s.isFile /\ Cardinality(entries) = 1 /\ Demanded(s) = "match"

Verify(g) ==
  /\ pc[g] = "verify"
  /\ \/ /\ Verifies(src[g], tmp[g])
        /\ Goto(g, "extract") /\ UNCHANGED <<faults, result>>
     \/ ~Verifies(src[g], tmp[g]) /\ Return(g, "err") /\ UNCHANGED faults
     \/ Demanded(src[g]) # "none" /\ Faulty /\ Return(g, "err")
  /\ UNCHANGED <<src, tmp, extracted, from, copying, dst, at, before>>

\* Whether extract.ExtractWithLimit is called and knows the format.
Unpacks(s) == s.isFile /\ s.auto /\ s.format # "plain"

KeepFile(g) ==
  /\ pc[g] = "extract" /\ ~Unpacks(src[g])
  /\ Goto(g, "stat")
  /\ UNCHANGED <<src, tmp, extracted, from, copying, dst, at, before, faults, result>>

\* Extraction makes the directories of the entries, hence _extracted, and the
\* archive is removed after it.  An archive with no entry makes no directory.
Unpack(g) ==
  /\ pc[g] = "extract" /\ Unpacks(src[g]) /\ src[g].format \in {"tree", "empty"}
  /\ extracted' = [extracted EXCEPT ![g] = IF src[g].format = "tree" THEN src[g].inner ELSE NoDir]
  /\ tmp' = [tmp EXCEPT ![g] = {}]
  /\ from' = [from EXCEPT ![g] = "extracted"]
  /\ Goto(g, "stat")
  /\ UNCHANGED <<src, copying, dst, at, before, faults, result>>

\* Extraction fails on the way (a corrupt archive, the size limit, a full disk).
UnpackFails(g) ==
  /\ pc[g] = "extract" /\ Unpacks(src[g])
  /\ Faulty /\ Return(g, "err")
  /\ \E part \in SUBSET src[g].inner : extracted' = [extracted EXCEPT ![g] = part]
  /\ UNCHANGED <<src, tmp, from, copying, dst, at, before>>

\* The decompressors of single files write to _extracted/<name> and make no
\* directory: opening the file fails.
Decompress(g) ==
  /\ pc[g] = "extract" /\ Unpacks(src[g]) /\ src[g].format = "single"
  /\ Return(g, "err")
  /\ UNCHANGED <<src, tmp, extracted, from, copying, dst, at, before, faults>>

-----------------------------------------------------------------------------
(***************************************************************************)
(* Delivery.                                                               *)
(***************************************************************************)
Delivered(g) == IF from[g] = "tmp" THEN tmp[g] ELSE extracted[g]

\* The content a Grab has for each of its paths.
Payload(g, p) == IF p \in Links THEN <<src[g].version>> ELSE Content(src[g].version)

StatDst(g) ==
  /\ pc[g] = "stat"
  /\ Goto(g, IF dst = "absent" THEN "rename" ELSE "copy")
  /\ UNCHANGED <<src, tmp, extracted, from, copying, dst, at, before, faults, result>>

\* os.Rename refuses a directory that it sees, even an empty one; rename(2) replaces
\* one that was made after os.Rename looked, as long as it is empty.
Renamable(g) == Delivered(g) # NoDir /\ at = Nothing
Refused(g) == Delivered(g) = NoDir \/ dst = "dir"

Rename(g) ==
  /\ pc[g] = "rename" /\ Renamable(g)
  /\ dst' = "dir" /\ Return(g, "ok")
  /\ at' = [p \in Delivered(g) |-> Payload(g, p)]
  /\ tmp' = [tmp EXCEPT ![g] = IF from[g] = "tmp" THEN NoDir ELSE @]
  /\ extracted' = [extracted EXCEPT ![g] = NoDir]
  /\ UNCHANGED <<src, from, copying, before, faults>>

\* Fault: a failed rename is an error.
RenameFails_Returns(g) ==
  /\ pc[g] = "rename" /\ Refused(g)
  /\ Return(g, "err")
  /\ UNCHANGED <<src, tmp, extracted, from, copying, dst, at, before, faults>>

RenameFails(g) ==
  /\ pc[g] = "rename"
  /\ \/ Refused(g) /\ UNCHANGED faults
     \/ Faulty
  /\ Goto(g, "copy")
  /\ UNCHANGED <<src, tmp, extracted, from, copying, dst, at, before, result>>

\* Fault: the destination is made a mirror of the source.
CopyDir_Mirrors(g) ==
  /\ pc[g] = "copy" /\ Delivered(g) # NoDir
  /\ dst' = "dir" /\ todo' = [todo EXCEPT ![g] = Delivered(g)]
  /\ at' = [p \in DOMAIN at \cap Delivered(g) |-> at[p]]
  /\ Goto(g, "copying")
  /\ UNCHANGED <<src, tmp, extracted, from, file, offset, before, faults, result>>

\* copyDir starts with the root of the tree: the destination itself.
CopyDir(g) ==
  /\ pc[g] = "copy"
  /\ \/ /\ Delivered(g) # NoDir
        /\ dst' = "dir" /\ todo' = [todo EXCEPT ![g] = Delivered(g)]
        /\ Goto(g, "copying") /\ UNCHANGED <<faults, result>>
     \/ /\ Delivered(g) = NoDir /\ Return(g, "err") /\ UNCHANGED <<dst, todo, faults>>
     \/ /\ Faulty /\ Return(g, "err") /\ UNCHANGED <<dst, todo>>
  /\ UNCHANGED <<src, tmp, extracted, from, file, offset, at, before>>

\* Fault: the file is opened without O_TRUNC.
OpenFile_Appends(g, p) ==
  /\ pc[g] = "copying" /\ file[g] = NoFile /\ p \in todo[g] \ Links
  /\ file' = [file EXCEPT ![g] = p] /\ offset' = [offset EXCEPT ![g] = 0]
  /\ at' = IF p \in DOMAIN at THEN at ELSE Put(at, p, <<>>)
  /\ UNCHANGED <<src, pc, tmp, extracted, from, todo, dst, before, faults, result>>

\* copyFile opens the file and truncates it.
OpenFile(g, p) ==
  /\ pc[g] = "copying" /\ file[g] = NoFile /\ p \in todo[g] \ Links
  /\ file' = [file EXCEPT ![g] = p] /\ offset' = [offset EXCEPT ![g] = 0]
  /\ at' = Put(at, p, <<>>)
  /\ UNCHANGED <<src, pc, tmp, extracted, from, todo, dst, before, faults, result>>

\* A block is written at the offset of this open file, whatever the length of the
\* file has become in the meantime.
Written(content, k, v) ==
  [i \in 1..(IF Len(content) < k THEN k ELSE Len(content)) |->
     IF i = k THEN v ELSE IF i <= Len(content) THEN content[i] ELSE Hole]

\* Fault: one block too many is written.
WriteBlock_PastEnd(g) ==
  /\ pc[g] = "copying" /\ file[g] \in Paths \ Links
  /\ LET k == offset[g] + 1
     IN  /\ k <= Blocks[src[g].version] + 1
         /\ at' = [at EXCEPT ![file[g]] = Written(@, k, src[g].version)]
         /\ offset' = [offset EXCEPT ![g] = k]
  /\ UNCHANGED <<src, pc, tmp, extracted, from, todo, file, dst, before, faults, result>>

WriteBlock(g) ==
  /\ pc[g] = "copying" /\ file[g] \in Paths \ Links
  /\ LET p == file[g]
         k == offset[g] + 1
     IN  /\ k <= Blocks[src[g].version]
         /\ at' = [at EXCEPT ![p] = Written(@, k, src[g].version)]
         /\ offset' = [offset EXCEPT ![g] = k]
  /\ UNCHANGED <<src, pc, tmp, extracted, from, todo, file, dst, before, faults, result>>

CloseFile(g) ==
  /\ pc[g] = "copying" /\ file[g] \in Paths \ Links
  /\ offset[g] = Blocks[src[g].version]
  /\ todo' = [todo EXCEPT ![g] = @ \ {file[g]}] /\ file' = [file EXCEPT ![g] = NoFile]
  /\ UNCHANGED <<src, pc, tmp, extracted, from, offset, dst, at, before, faults, result>>

\* copySymlink removes what is there ...
RemoveLink(g, p) ==
  /\ pc[g] = "copying" /\ file[g] = NoFile /\ p \in todo[g] \cap Links
  /\ file' = [file EXCEPT ![g] = p]
  /\ at' = Drop(at, p)
  /\ UNCHANGED <<src, pc, tmp, extracted, from, todo, offset, dst, before, faults, result>>

\* ... and makes the link, unless another Grab has done so meanwhile.
MakeLink(g) ==
  /\ pc[g] = "copying" /\ file[g] \in Links
  /\ LET p == file[g]
     IN  IF p \notin DOMAIN at
         THEN /\ at' = Put(at, p, Payload(g, p))
              /\ todo' = [todo EXCEPT ![g] = @ \ {p}]
              /\ file' = [file EXCEPT ![g] = NoFile]
              /\ UNCHANGED <<pc, result>>
         ELSE Return(g, "err") /\ UNCHANGED <<at, todo, file>>
  /\ UNCHANGED <<src, tmp, extracted, from, offset, dst, before, faults>>

CopyFails(g) ==
  /\ pc[g] = "copying" /\ todo[g] # {}
  /\ Faulty /\ Return(g, "err")
  /\ UNCHANGED <<src, tmp, extracted, from, copying, dst, at, before>>

CopyDone(g) ==
  /\ pc[g] = "copying" /\ todo[g] = {}
  /\ Return(g, "ok")
  /\ UNCHANGED <<src, tmp, extracted, from, copying, dst, at, before, faults>>

\* Fault: the deferred call reads tmpDir when it runs.
Cleanup_Late(g) ==
  /\ pc[g] = "cleanup" /\ Goto(g, "done")
  /\ tmp' = [tmp EXCEPT ![g] = IF from[g] = "tmp" THEN NoDir ELSE @]
  /\ extracted' = [extracted EXCEPT ![g] = NoDir]
  /\ UNCHANGED <<src, from, copying, dst, at, before, faults, result>>

\* The deferred RemoveAll, whose argument was evaluated before tmpDir was changed
\* to the directory of the extraction.
Cleanup(g) ==
  /\ pc[g] = "cleanup" /\ Goto(g, "done")
  /\ tmp' = [tmp EXCEPT ![g] = NoDir]
  /\ extracted' = [extracted EXCEPT ![g] = NoDir]
  /\ UNCHANGED <<src, from, copying, dst, at, before, faults, result>>

-----------------------------------------------------------------------------
\* All Grabs have returned.
Returned == (\A g \in Grabs : pc[g] = "done") /\ UNCHANGED vars

Step(g) ==
  \/ MkTmp(g) \/ Download(g) \/ Verify(g)
  \/ KeepFile(g) \/ Unpack(g) \/ UnpackFails(g) \/ Decompress(g)
  \/ StatDst(g) \/ Rename(g) \/ RenameFails(g)
  \/ CopyDir(g) \/ WriteBlock(g) \/ CloseFile(g) \/ MakeLink(g)
  \/ (\E p \in Paths : OpenFile(g, p) \/ RemoveLink(g, p))
  \/ CopyFails(g) \/ CopyDone(g) \/ Cleanup(g)

Next == (\E g \in Grabs : Step(g)) \/ Returned

Spec == Init /\ [][Next]_vars

-----------------------------------------------------------------------------
(***************************************************************************)
(* Properties.                                                             *)
(***************************************************************************)
\* Every variable keeps to its type; a destination that does not exist is empty,
\* and no Grab writes more blocks than its file has.
TypeOK ==
  /\ src \in [Grabs -> Source]
  /\ pc \in [Grabs -> {"start", "download", "verify", "extract", "stat", "rename",
                       "copy", "copying", "cleanup", "done"}]
  /\ tmp \in [Grabs -> (SUBSET Paths) \cup {NoDir}]
  /\ extracted \in [Grabs -> (SUBSET Paths) \cup {NoDir}]
  /\ from \in [Grabs -> {"tmp", "extracted"}]
  /\ todo \in [Grabs -> SUBSET Paths] /\ file \in [Grabs -> Paths \cup {NoFile}]
  /\ offset \in [Grabs -> Nat] /\ \A g \in Grabs : offset[g] <= Blocks[src[g].version]
  /\ dst \in {"absent", "dir"} /\ Destination(at) /\ Destination(before)
  /\ (dst = "absent" => at = Nothing)
  /\ faults \in 0..MaxFaults
  /\ result \in [Grabs -> {"none", "ok", "err"}]

\* Content that was not verified as demanded never reaches the destination, not
\* even for a moment or by way of another Grab: every block there was there
\* before, or is of a version some Grab may deliver (verifyChecksum comes before
\* extraction and delivery, grabber.go:106-113).
Verified ==
  \A p \in DOMAIN at : \A k \in 1..Len(at[p]) :
    \/ at[p][k] = Hole
    \/ p \in DOMAIN before /\ at[p][k] \in {before[p][j] : j \in 1..Len(before[p])}
    \/ \E g \in Grabs : /\ at[p][k] = src[g].version
                        /\ Demanded(src[g]) = "none"
                             \/ (Demanded(src[g]) = "match" /\ src[g].isFile)

\* What a Grab delivers if all goes well.
Expected(g) == IF Unpacks(src[g]) THEN src[g].inner ELSE src[g].got

\* When all Grabs have returned, each path is whole if everyone who has it
\* succeeded and had the same version: no Grab lost another's files by renaming
\* over them, no file kept a hole, an older tail or the truncation of a Grab
\* that copied it at the same time.
DeliveredWhole ==
  (\A g \in Grabs : pc[g] = "done") =>
    \A g \in Grabs, p \in Paths :
      /\ result[g] = "ok" /\ p \in Expected(g)
      /\ \A h \in Grabs : p \in Expected(h) => result[h] = "ok" /\ src[h].version = src[g].version
      => p \in DOMAIN at /\ at[p] = Payload(g, p)

\* The destination is merged into: what was there and no Grab delivers stays as
\* it was, all the time.
MergePreserves ==
  \A p \in DOMAIN before :
    (\A g \in Grabs : p \notin Expected(g)) => p \in DOMAIN at /\ at[p] = before[p]

\* A Grab that has returned has no staging directory left, whichever way it
\* returned and whichever directory it delivered.
StagingRemoved ==
  \A g \in Grabs : pc[g] = "done" => tmp[g] = NoDir /\ extracted[g] = NoDir

\* Grabs into one destination do not fail one another: a Grab fails only because
\* an operation failed, the checksum did, or there is nothing to deliver.  The
\* one exception is a link that two of them have (MakeLink).
GrabSucceeds ==
  \A g \in Grabs : result[g] = "err" =>
    \/ faults > 0
    \/ ~Verifies(src[g], src[g].got)
    \/ Unpacks(src[g]) /\ src[g].format \in {"empty", "single"}
    \/ \E h \in Grabs \ {g} : Expected(g) \cap Expected(h) \cap Links # {}

\* The README lists .gz, .bz2, .xz, .zst and .lz4 among the formats that are
\* extracted (README.md:347-351): such a file can be grabbed.
CompressedFileExtracted ==
  \A g \in Grabs : result[g] = "err" =>
    \/ faults > 0
    \/ ~Verifies(src[g], src[g].got)
    \/ src[g].format # "single"

=============================================================================
