------------------------------- MODULE Staging -------------------------------
(***************************************************************************)
(* What every protocol and extractor writes with: paths that must stay in  *)
(* a directory (internal/safepath), copies under a limit of bytes          *)
(* (internal/limitio, and the budgets of extract.go and git_archive.go)    *)
(* and the directory tree they write to.                                   *)
(*                                                                         *)
(* A path is the sequence of its segments from the root of the file        *)
(* system; the contents of a file are its length and the entry they come   *)
(* from.                                                                   *)
(***************************************************************************)
EXTENDS Integers, Sequences, FiniteSets, SequencesExt

CONSTANTS
  Root,    \* the staging directory
  MaxInt   \* the largest int64, 2^(w-1) - 1 for a word of w bits

ASSUME MaxIntAssumption == MaxInt \in Nat \ {0}

-----------------------------------------------------------------------------
(***************************************************************************)
(* Paths.                                                                  *)
(***************************************************************************)
\* One segment further: empty segments and "." stay, ".." takes the segment before it
\* away, and has nothing to take at the root.
Enter(dir, seg) ==
  CASE seg \in {"", "."} -> dir
    [] seg = ".."        -> IF dir = <<>> THEN dir ELSE Front(dir)
    [] OTHER             -> Append(dir, seg)

\* filepath.Clean of an absolute path.
Clean(path) ==
  LET at[n \in 0..Len(path)] == IF n = 0 THEN <<>> ELSE Enter(at[n - 1], path[n])
  IN  at[Len(path)]

ASSUME RootAssumption == Root \in Seq(STRING) /\ Root # <<>> /\ Clean(Root) = Root

Escapes == <<>>  \* no path below a root

\* Fault: the result is not compared with the root.
Join_Unchecked(root, rel) == Clean(root \o rel)

\* The joined path, which is the root or below it.
Join(root, rel) ==
  LET joined == Clean(root \o rel)
  IN  IF IsPrefix(root, joined) THEN joined ELSE Escapes

-----------------------------------------------------------------------------
(***************************************************************************)
(* Bytes.  A copy is how many bytes are written, and whether it succeeds.  *)
(***************************************************************************)
\* int64 arithmetic.
Wrap(n) == ((n + MaxInt + 1) % (2 * (MaxInt + 1))) - (MaxInt + 1)

LimitReader(len, n) == IF n <= 0 THEN 0 ELSE IF len < n THEN len ELSE n

\* Fault: the reader stops at the limit, so a file that exceeds it is cut.
Copy_Cuts(len, max) == [n |-> IF max <= 0 THEN len ELSE LimitReader(len, max), ok |-> TRUE]

\* Fault: the length is compared after everything was written.
Copy_ChecksAfter(len, max) == [n |-> len, ok |-> max <= 0 \/ len <= max]

Copy(len, max) ==
  IF max <= 0 THEN [n |-> len, ok |-> TRUE]
  ELSE LET n == LimitReader(len, Wrap(max + 1))
       IN  [n |-> n, ok |-> n <= max]

\* Fault: whether there is a limit is read off what is left of it.
writeFile_LimitFromRest(len, limited, remaining) ==
  IF remaining <= 0 THEN [n |-> len, ok |-> TRUE]
  ELSE LET n == LimitReader(len, Wrap(remaining + 1))
       IN  [n |-> n, ok |-> n <= remaining]

\* Fault: an entry that uses the budget up is refused.
writeFile_Strict(len, limited, remaining) ==
  IF ~limited THEN [n |-> len, ok |-> TRUE]
  ELSE LET n == LimitReader(len, Wrap(remaining + 1))
       IN  [n |-> n, ok |-> n < remaining]

\* One entry of an archive under what is left of the budget.
writeFile(len, limited, remaining) ==
  IF ~limited THEN [n |-> len, ok |-> TRUE]
  ELSE LET n == LimitReader(len, Wrap(remaining + 1))
       IN  [n |-> n, ok |-> n <= remaining]

\* The same in the archive of a hosting platform.
writeArchiveFile(len, limited, remaining) ==
  IF ~limited THEN [n |-> len, ok |-> TRUE]
  ELSE LET n == LimitReader(len, Wrap(remaining + 1))
       IN  [n |-> n, ok |-> n <= remaining]

-----------------------------------------------------------------------------
(***************************************************************************)
(* Trees: what is at every path that exists.                               *)
(***************************************************************************)
Dir == [kind |-> "dir"]
File(e, n) == [kind |-> "file", of |-> e, n |-> n]
Link(e) == [kind |-> "link", of |-> e]

IsDir(t, p) == p \in DOMAIN t /\ t[p] = Dir

Put(t, p, node) == [q \in DOMAIN t \cup {p} |-> IF q = p THEN node ELSE t[q]]

\* os.MkdirAll fails where something else than a directory is in the way.
CanMkdirAll(t, p) == \A q \in Prefixes(p) : q \in DOMAIN t => t[q] = Dir
MkdirAll(t, p) == [q \in DOMAIN t \cup Prefixes(p) |-> IF q \in DOMAIN t THEN t[q] ELSE Dir]

\* A file is made, or truncated, where its directory can be and no directory is.
CanCreate(t, p) == p # <<>> /\ CanMkdirAll(t, Front(p)) /\ ~IsDir(t, p)
Create(t, p, node) == Put(MkdirAll(t, Front(p)), p, node)

Files(t) == {p \in DOMAIN t : t[p].kind = "file"}

\* Before a download: the staging directory and those it is in.
Fresh == [q \in Prefixes(Root) |-> Dir]

=============================================================================
