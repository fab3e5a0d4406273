---------------------------- MODULE StagingProofs ----------------------------
(***************************************************************************)
(* Facts about Staging: where paths lead, what copies write, and what      *)
(* writing leaves of a tree.                                               *)
(***************************************************************************)
EXTENDS Staging, WellFoundedInduction, SequenceTheorems, TLAPS

-----------------------------------------------------------------------------
(***************************************************************************)
(* Paths.                                                                  *)
(***************************************************************************)
\* Induction over the numbers, on the set of those that have the property.
LEMMA SetInduction ==
  ASSUME NEW S, 0 \in S, \A n \in Nat : n \in S => n + 1 \in S
  PROVE  \A n \in Nat : n \in S
<1> DEFINE T == Nat \ S
<1> SUFFICES ASSUME T # {} PROVE FALSE
  OBVIOUS
<1>1. PICK x \in T : \A y \in T : ~(<<y, x>> \in OpToRel(<, Nat))
  BY NatLessThanWellFounded, WFMin
<1>2. x - 1 \in T /\ <<x - 1, x>> \in OpToRel(<, Nat)
  BY DEF OpToRel
<1> QED BY <1>1, <1>2

LEMMA EnterType ==
  ASSUME NEW dir \in Seq(STRING), NEW seg \in STRING
  PROVE  /\ Enter(dir, seg) \in {dir, Front(dir), Append(dir, seg)}
         /\ Enter(dir, seg) \in Seq(STRING)
<1>1. Enter(dir, seg) \in {dir, Front(dir), Append(dir, seg)}
  BY Zenon DEF Enter
<1>2. dir # <<>> => Front(dir) \in Seq(STRING)
  BY DEF Front
<1>3. dir = <<>> => Enter(dir, seg) \in {dir, Append(dir, seg)}
  BY Zenon DEF Enter
<1>4. CASE Enter(dir, seg) = dir
  BY <1>1, <1>4
<1>7. Append(dir, seg) \in Seq(STRING)
  BY AppendProperties
<1>5. CASE Enter(dir, seg) = Append(dir, seg)
  BY <1>1, <1>5, <1>7
<1>6. CASE Enter(dir, seg) = Front(dir) /\ dir # <<>>
  BY <1>1, <1>2, <1>6
<1> QED BY <1>1, <1>3, <1>4, <1>5, <1>6

\* Where the first n segments of a path lead, for a walk of it.
Walks(path, f) == f = [n \in 0..Len(path) |-> IF n = 0 THEN <<>> ELSE Enter(f[n - 1], path[n])]

LEMMA WalkExists ==
  ASSUME NEW path \in Seq(STRING)
  PROVE  \E f : Walks(path, f)
<1> DEFINE W(n, f) == f = [k \in 0..n |-> IF k = 0 THEN <<>> ELSE Enter(f[k - 1], path[k])]
           S == {n \in Nat : \E f : W(n, f)}
<1>1. 0 \in S
  <2>1. W(0, [k \in 0..0 |-> <<>>])
    OBVIOUS
  <2> QED BY <2>1
<1>2. \A n \in Nat : n \in S => n + 1 \in S
  <2> TAKE n \in Nat
  <2> HAVE n \in S
  <2>1. PICK f : W(n, f)
    OBVIOUS
  <2> DEFINE g == [k \in 0..(n + 1) |-> IF k <= n THEN f[k] ELSE Enter(f[n], path[n + 1])]
  <2>2. \A k \in 0..(n + 1) : g[k] = IF k = 0 THEN <<>> ELSE Enter(g[k - 1], path[k])
    BY <2>1
  <2>3. W(n + 1, g)
    BY <2>2
  <2> HIDE DEF g, W
  <2> QED BY <2>3
<1> HIDE DEF S, W
<1>3. Len(path) \in Nat
  OBVIOUS
<1>5. Len(path) \in S
  BY <1>1, <1>2, <1>3, SetInduction
<1>4. PICK f : W(Len(path), f)
  BY <1>5 DEF S
<1> QED BY <1>4 DEF W, Walks

\* Clean walks the whole path.
LEMMA CleanWalks ==
  ASSUME NEW path \in Seq(STRING)
  PROVE  \E f : Walks(path, f) /\ Clean(path) = f[Len(path)]
<1> DEFINE f == CHOOSE f : Walks(path, f)
<1>1. Walks(path, f)
  BY WalkExists
<1>2. Clean(path) = f[Len(path)]
  BY DEF Clean, Walks
<1> HIDE DEF f
<1> QED BY <1>1, <1>2

LEMMA WalkType ==
  ASSUME NEW path \in Seq(STRING), NEW f, Walks(path, f)
  PROVE  \A n \in 0..Len(path) : f[n] \in Seq(STRING)
<1> DEFINE S == {n \in Nat : n <= Len(path) => f[n] \in Seq(STRING)}
<1>0. Len(path) \in Nat
  OBVIOUS
<1>1. f[0] = <<>> /\ \A n \in 0..Len(path) : n # 0 => f[n] = Enter(f[n - 1], path[n])
  <2>1. f = [n \in 0..Len(path) |-> IF n = 0 THEN <<>> ELSE Enter(f[n - 1], path[n])]
    BY DEF Walks
  <2>2. 0 \in 0..Len(path)
    BY <1>0
  <2> QED BY <2>1, <2>2
<1>5. <<>> \in Seq(STRING)
  OBVIOUS
<1>2. 0 \in S
  BY <1>1, <1>5
<1>3. \A n \in Nat : n \in S => n + 1 \in S
  <2> TAKE n \in Nat
  <2> HAVE n \in S
  <2> SUFFICES ASSUME n + 1 <= Len(path) PROVE f[n + 1] \in Seq(STRING)
    OBVIOUS
  <2>1. f[n] \in Seq(STRING) /\ path[n + 1] \in STRING /\ f[n + 1] = Enter(f[n], path[n + 1])
    BY <1>1
  <2> QED BY <2>1, EnterType
<1> HIDE DEF S
<1>4. \A n \in Nat : n \in S
  BY <1>2, <1>3, SetInduction
<1> QED BY <1>4 DEF S

LEMMA CleanType ==
  ASSUME NEW path \in Seq(STRING)
  PROVE  Clean(path) \in Seq(STRING)
BY CleanWalks, WalkType

\* A path with one more segment leads from where the path does (filepath.Join of a
\* directory and a name).
LEMMA CleanAppend ==
  ASSUME NEW path \in Seq(STRING), NEW seg \in STRING
  PROVE  Clean(Append(path, seg)) = Enter(Clean(path), seg)
<1> DEFINE more == Append(path, seg)
<1>a. more \in Seq(STRING) /\ Len(more) = Len(path) + 1 /\ more[Len(path) + 1] = seg
  BY AppendProperties
<1>b. \A n \in 1..Len(path) : more[n] = path[n]
  BY AppendProperties
<1>c. Len(path) \in Nat
  OBVIOUS
<1>1. /\ more \in Seq(STRING) /\ Len(more) = Len(path) + 1 /\ more[Len(path) + 1] = seg
      /\ \A n \in 1..Len(path) : more[n] = path[n]
      /\ Len(path) \in Nat
  BY <1>a, <1>b, <1>c
<1>2. PICK f : Walks(path, f) /\ Clean(path) = f[Len(path)]
  BY CleanWalks
<1>3. PICK g : Walks(more, g) /\ Clean(more) = g[Len(more)]
  BY <1>1, CleanWalks
<1> HIDE DEF more
<1>4. /\ f[0] = <<>> /\ \A n \in 1..Len(path) : f[n] = Enter(f[n - 1], path[n])
      /\ g[0] = <<>> /\ \A n \in 1..(Len(path) + 1) : g[n] = Enter(g[n - 1], more[n])
  <2>1. f[0] = <<>> /\ \A n \in 1..Len(path) : f[n] = Enter(f[n - 1], path[n])
    BY <1>1, <1>2 DEF Walks
  <2>2. g[0] = <<>> /\ \A n \in 1..(Len(path) + 1) : g[n] = Enter(g[n - 1], more[n])
    <3>1. g = [n \in 0..(Len(path) + 1) |-> IF n = 0 THEN <<>> ELSE Enter(g[n - 1], more[n])]
      BY <1>1, <1>3 DEF Walks
    <3>2. 0 \in 0..(Len(path) + 1) /\ \A n \in 1..(Len(path) + 1) : n \in 0..(Len(path) + 1) /\ n # 0
      BY <1>1
    <3> QED BY <3>1, <3>2
  <2> QED BY <2>1, <2>2
<1> DEFINE S == {n \in Nat : n <= Len(path) => f[n] = g[n]}
<1>5. 0 \in S
  BY <1>4
<1>6. \A n \in Nat : n \in S => n + 1 \in S
  <2> TAKE n \in Nat
  <2> HAVE n \in S
  <2> SUFFICES ASSUME n + 1 <= Len(path) PROVE f[n + 1] = g[n + 1]
    OBVIOUS
  <2>1. n + 1 \in 1..Len(path) /\ n + 1 \in 1..(Len(path) + 1) /\ f[n] = g[n] /\ (n + 1) - 1 = n
    BY <1>1
  <2> QED BY <2>1, <1>1, <1>4
<1> HIDE DEF S
<1>7. Len(path) \in S
  BY <1>1, <1>5, <1>6, SetInduction
<1>8. f[Len(path)] = g[Len(path)]
  BY <1>1, <1>7 DEF S
<1>9. g[Len(path) + 1] = Enter(g[Len(path)], seg)
  <2>1. Len(path) + 1 \in 1..(Len(path) + 1) /\ (Len(path) + 1) - 1 = Len(path)
    BY <1>1
  <2> QED BY <2>1, <1>1, <1>4
<1> QED BY <1>1, <1>2, <1>3, <1>8, <1>9 DEF more

\* One path leads to another if its segments are the other's first.
LEMMA PrefixAt ==
  ASSUME NEW a \in Seq(STRING), NEW b \in Seq(STRING)
  PROVE  IsPrefix(a, b) <=> Len(a) <= Len(b) /\ \A i \in 1..Len(a) : a[i] = b[i]
<1>1. Len(a) \in Nat /\ Len(b) \in Nat
  OBVIOUS
<1>2. SubSeq(a, 1, Len(a)) = a
  BY <1>1
<1>3. ASSUME Len(a) <= Len(b)
      PROVE  /\ Len(SubSeq(b, 1, Len(a))) = Len(a)
             /\ \A i \in 1..Len(a) : SubSeq(b, 1, Len(a))[i] = b[i]
             /\ SubSeq(b, 1, Len(a)) \in Seq(STRING)
  BY <1>1, <1>3
<1> DEFINE s == SubSeq(b, 1, Len(a))
<1> HIDE DEF s
<1>4. ASSUME Len(a) <= Len(b), \A i \in 1..Len(a) : a[i] = b[i]
      PROVE  a = s
  <2>1. Len(s) = Len(a) /\ s \in Seq(STRING) /\ \A i \in 1..Len(a) : s[i] = a[i]
    BY <1>3, <1>4 DEF s
  <2> QED BY <2>1
<1>5. ASSUME Len(a) <= Len(b), a = s
      PROVE  \A i \in 1..Len(a) : a[i] = b[i]
  BY <1>3, <1>5 DEF s
<1>6. IsPrefix(a, b) <=> Len(a) <= Len(b) /\ a = s
  BY <1>2 DEF IsPrefix, s
<1> QED BY <1>4, <1>5, <1>6

LEMMA PrefixTransitive ==
  ASSUME NEW a \in Seq(STRING), NEW b \in Seq(STRING), NEW c \in Seq(STRING), IsPrefix(a, b), IsPrefix(b, c)
  PROVE  IsPrefix(a, c)
<1>1. Len(a) \in Nat /\ Len(b) \in Nat /\ Len(c) \in Nat
  OBVIOUS
<1>2. Len(a) <= Len(b) /\ \A i \in 1..Len(a) : a[i] = b[i]
  BY PrefixAt
<1>3. Len(b) <= Len(c) /\ \A i \in 1..Len(b) : b[i] = c[i]
  BY PrefixAt
<1>4. Len(a) <= Len(c) /\ \A i \in 1..Len(a) : a[i] = c[i]
  BY <1>1, <1>2, <1>3
<1> QED BY <1>4, PrefixAt

\* Of two paths that lead to one place the one leads to the other, and of one length
\* they are the same.
LEMMA PrefixesMeet ==
  ASSUME NEW a \in Seq(STRING), NEW b \in Seq(STRING), NEW c \in Seq(STRING), IsPrefix(a, c), IsPrefix(b, c)
  PROVE  /\ Len(a) <= Len(b) => IsPrefix(a, b)
         /\ IsPrefix(a, b) \/ IsPrefix(b, a)
         /\ Len(a) = Len(b) => a = b
<1>1. Len(a) \in Nat /\ Len(b) \in Nat
  OBVIOUS
<1>2. Len(a) <= Len(c) /\ \A i \in 1..Len(a) : a[i] = c[i]
  BY PrefixAt
<1>3. Len(b) <= Len(c) /\ \A i \in 1..Len(b) : b[i] = c[i]
  BY PrefixAt
<1>4. Len(a) <= Len(b) => IsPrefix(a, b)
  <2> HAVE Len(a) <= Len(b)
  <2>1. \A i \in 1..Len(a) : a[i] = b[i]
    BY <1>1, <1>2, <1>3
  <2> QED BY <2>1, PrefixAt
<1>5. Len(b) <= Len(a) => IsPrefix(b, a)
  <2> HAVE Len(b) <= Len(a)
  <2>1. \A i \in 1..Len(b) : b[i] = a[i]
    BY <1>1, <1>2, <1>3
  <2> QED BY <2>1, PrefixAt
<1>6. Len(a) = Len(b) => a = b
  <2> HAVE Len(a) = Len(b)
  <2>1. \A i \in 1..Len(a) : a[i] = b[i]
    BY <1>2, <1>3
  <2> QED BY <2>1
<1> QED BY <1>1, <1>4, <1>5, <1>6

\* What is below a directory.
LEMMA PrefixOfJoined ==
  ASSUME NEW dir \in Seq(STRING), NEW rest \in Seq(STRING)
  PROVE  IsPrefix(dir, dir \o rest) /\ dir \o rest \in Seq(STRING)
<1> DEFINE j == dir \o rest
<1>1. j \in Seq(STRING) /\ Len(j) = Len(dir) + Len(rest)
  BY ConcatProperties
<1>2. Len(dir) \in Nat /\ Len(rest) \in Nat
  OBVIOUS
<1>3. \A i \in 1..Len(dir) : j[i] = dir[i]
  BY <1>2, ConcatProperties
<1> HIDE DEF j
<1>4. IsPrefix(dir, j)
  BY <1>1, <1>2, <1>3, PrefixAt
<1> QED BY <1>1, <1>4 DEF j

LEMMA PrefixOfChild ==
  ASSUME NEW dir \in Seq(STRING), NEW name \in STRING
  PROVE  /\ Append(dir, name) \in Seq(STRING) /\ IsPrefix(dir, Append(dir, name))
         /\ Len(Append(dir, name)) = Len(dir) + 1
<1> DEFINE j == Append(dir, name)
<1>1. j \in Seq(STRING) /\ Len(j) = Len(dir) + 1
  BY AppendProperties
<1>2. \A i \in 1..Len(dir) : j[i] = dir[i]
  BY AppendProperties
<1>3. Len(dir) \in Nat
  OBVIOUS
<1> HIDE DEF j
<1>4. IsPrefix(dir, j)
  BY <1>1, <1>2, <1>3, PrefixAt
<1> QED BY <1>1, <1>4 DEF j

LEMMA FirstSegments ==
  ASSUME NEW p \in Seq(STRING), NEW l \in 0..Len(p)
  PROVE  SubSeq(p, 1, l) \in Seq(STRING) /\ IsPrefix(SubSeq(p, 1, l), p) /\ Len(SubSeq(p, 1, l)) = l
<1> DEFINE f == SubSeq(p, 1, l)
<1>1. Len(p) \in Nat /\ l \in Nat /\ l <= Len(p)
  OBVIOUS
<1>2. f \in Seq(STRING)
  OBVIOUS
<1>3. Len(f) = l
  BY <1>1
<1>4. \A i \in 1..l : f[i] = p[i]
  BY <1>1
<1> HIDE DEF f
<1>5. IsPrefix(f, p)
  BY <1>1, <1>2, <1>3, <1>4, PrefixAt
<1> QED BY <1>2, <1>3, <1>5 DEF f

LEMMA PrefixesOf ==
  ASSUME NEW p \in Seq(STRING)
  PROVE  /\ \A q \in Prefixes(p) : q \in Seq(STRING) /\ IsPrefix(q, p)
         /\ p \in Prefixes(p)
<1>1. SubSeq(p, 1, Len(p)) = p /\ Len(p) \in 0..Len(p)
  OBVIOUS
<1> QED BY <1>1, FirstSegments DEF Prefixes

\* The directory of a path is on the way to it.
LEMMA FrontProperties ==
  ASSUME NEW p \in Seq(STRING), p # <<>>
  PROVE  Front(p) \in Seq(STRING) /\ IsPrefix(Front(p), p) /\ Len(Front(p)) = Len(p) - 1
<1>1. Len(p) - 1 \in 0..Len(p)
  OBVIOUS
<1> QED BY <1>1, FirstSegments DEF Front

\* safepath.Join: the joined path is the root or below it, or there is none.
LEMMA JoinBelow ==
  ASSUME NEW root \in Seq(STRING), NEW rel \in Seq(STRING), Join(root, rel) # Escapes
  PROVE  Join(root, rel) \in Seq(STRING) /\ IsPrefix(root, Join(root, rel))
<1>1. Clean(root \o rel) \in Seq(STRING)
  BY CleanType, ConcatProperties
<1> QED BY <1>1 DEF Join
-----------------------------------------------------------------------------
(***************************************************************************)
(* Trees.                                                                  *)
(***************************************************************************)
LEMMA FreshFiles == Files(Fresh) = {}
BY DEF Files, Fresh, Dir

LEMMA MkdirAllKeeps ==
  ASSUME NEW t, NEW p
  PROVE  /\ Files(MkdirAll(t, p)) = Files(t)
         /\ \A q \in DOMAIN t : q \in DOMAIN MkdirAll(t, p) /\ MkdirAll(t, p)[q] = t[q]
BY DEF Files, MkdirAll, Dir

LEMMA CreateKeeps ==
  ASSUME NEW t, NEW p, NEW x, NEW n
  PROVE  /\ Files(Create(t, p, File(x, n))) = Files(t) \cup {p}
         /\ p \in DOMAIN Create(t, p, File(x, n)) /\ Create(t, p, File(x, n))[p] = File(x, n)
         /\ \A q \in DOMAIN t \ {p} : q \in DOMAIN Create(t, p, File(x, n)) /\ Create(t, p, File(x, n))[q] = t[q]
<1> DEFINE m == MkdirAll(t, Front(p))
<1>1. Files(m) = Files(t) /\ \A q \in DOMAIN t : q \in DOMAIN m /\ m[q] = t[q]
  BY MkdirAllKeeps
<1> HIDE DEF m
<1>2. Create(t, p, File(x, n)) = [q \in DOMAIN m \cup {p} |-> IF q = p THEN File(x, n) ELSE m[q]]
  BY DEF Create, Put, m
<1>3. File(x, n).kind = "file"
  BY DEF File
<1> QED BY <1>1, <1>2, <1>3 DEF Files


\* A tree that has nothing beside the staging directory and the way to it.
Within(t) ==
  /\ \A p \in DOMAIN t : p \in Seq(STRING) /\ (IsPrefix(p, Root) \/ IsPrefix(Root, p))
  /\ \A p \in DOMAIN Fresh : p # Root => p \in DOMAIN t /\ t[p] = Dir

LEMMA FreshWithin == Within(Fresh)
BY RootAssumption, PrefixesOf DEF Within, Fresh

LEMMA MkdirAllWithin ==
  ASSUME NEW t, Within(t), NEW p \in Seq(STRING), IsPrefix(p, Root) \/ IsPrefix(Root, p)
  PROVE  Within(MkdirAll(t, p))
<1>1. ASSUME NEW q \in Prefixes(p)
      PROVE  q \in Seq(STRING) /\ (IsPrefix(q, Root) \/ IsPrefix(Root, q))
  BY <1>1, RootAssumption, PrefixesOf, PrefixTransitive, PrefixesMeet
<1>2. DOMAIN MkdirAll(t, p) = DOMAIN t \cup Prefixes(p) /\ \A q \in DOMAIN t : MkdirAll(t, p)[q] = t[q]
  BY DEF MkdirAll
<1> QED BY <1>1, <1>2 DEF Within

\* Only the staging directory is both on the way to it and in it.
LEMMA FreshAbove ==
  ASSUME NEW p \in DOMAIN Fresh, IsPrefix(Root, p)
  PROVE  p = Root
<1>1. p \in Seq(STRING) /\ IsPrefix(p, Root)
  BY RootAssumption, PrefixesOf DEF Fresh
<1>2. Len(p) <= Len(Root) /\ Len(Root) <= Len(p) /\ Len(p) \in Nat /\ Len(Root) \in Nat
  BY <1>1, RootAssumption, PrefixAt
<1>3. IsPrefix(Root, Root)
  BY RootAssumption, PrefixAt
<1>4. Len(p) = Len(Root)
  BY <1>2
<1> QED BY <1>1, <1>3, <1>4, RootAssumption, PrefixesMeet

LEMMA PutWithin ==
  ASSUME NEW t, Within(t), NEW p \in Seq(STRING), IsPrefix(Root, p), NEW node
  PROVE  Within(Put(t, p, node))
<1>1. /\ DOMAIN Put(t, p, node) = DOMAIN t \cup {p}
      /\ \A q \in DOMAIN t : q # p => Put(t, p, node)[q] = t[q]
  BY DEF Put
<1> QED BY <1>1, FreshAbove DEF Within

LEMMA CreateWithin ==
  ASSUME NEW t, Within(t), NEW p \in Seq(STRING), IsPrefix(Root, p), NEW node
  PROVE  Within(Create(t, p, node))
<1>1. p # <<>>
  BY RootAssumption, PrefixAt
<1>2. Front(p) \in Seq(STRING) /\ (IsPrefix(Front(p), Root) \/ IsPrefix(Root, Front(p)))
  BY <1>1, RootAssumption, FrontProperties, PrefixesMeet
<1> QED BY <1>2, MkdirAllWithin, PutWithin DEF Create
-----------------------------------------------------------------------------
(***************************************************************************)
(* Bytes: what a copy under a limit writes.                                *)
(***************************************************************************)
LEMMA Remainder ==
  ASSUME NEW a \in Nat, NEW b \in Nat, a < b
  PROVE  a % b = a
OBVIOUS

\* Up to the largest integer nothing wraps.
LEMMA WrapBelow ==
  ASSUME NEW n \in 0..MaxInt
  PROVE  Wrap(n) = n
BY MaxIntAssumption, Remainder DEF Wrap

LEMMA WrapType == ASSUME NEW n \in Int PROVE Wrap(n) \in Int
BY MaxIntAssumption DEF Wrap

\* A copy writes some bytes, and if it succeeds no more than there are left.
LEMMA CopyFits ==
  ASSUME NEW len \in Nat, NEW remaining \in Int, NEW any \in BOOLEAN
  PROVE  /\ writeFile(len, any, remaining).n \in 0..len
         /\ writeFile(len, any, remaining) = writeArchiveFile(len, any, remaining)
         /\ any /\ writeFile(len, any, remaining).ok => writeFile(len, any, remaining).n <= remaining
<1>1. Wrap(remaining + 1) \in Int
  BY WrapType
<1>2. \A n \in Int : LimitReader(len, n) \in 0..len
  BY DEF LimitReader
<1>4. writeFile(len, any, remaining).n \in 0..len
  BY <1>1, <1>2 DEF writeFile
<1>5. writeFile(len, any, remaining) = writeArchiveFile(len, any, remaining)
  BY DEF writeFile, writeArchiveFile
<1>6. any /\ writeFile(len, any, remaining).ok => writeFile(len, any, remaining).n <= remaining
  BY DEF writeFile
<1> QED BY <1>4, <1>5, <1>6

\* Below the largest limit a copy succeeds just if everything fits, and then it
\* wrote everything; if not, it wrote one byte too many (limitio.Copy, writeFile and
\* writeArchiveFile).
THEOREM CopyExact ==
  ASSUME NEW len \in Nat, NEW remaining \in 0..(MaxInt - 1)
  PROVE  /\ writeFile(len, TRUE, remaining).ok <=> len <= remaining
         /\ writeFile(len, TRUE, remaining).n = IF len <= remaining THEN len ELSE remaining + 1
         /\ remaining > 0 => Copy(len, remaining) = writeFile(len, TRUE, remaining)
<1>0. remaining \in Nat /\ remaining + 1 \in 0..MaxInt
  BY MaxIntAssumption
<1>1. Wrap(remaining + 1) = remaining + 1
  BY <1>0, WrapBelow
<1>2. LimitReader(len, remaining + 1) = IF len <= remaining THEN len ELSE remaining + 1
  BY <1>0 DEF LimitReader
<1>3. writeFile(len, TRUE, remaining) = [n |-> LimitReader(len, remaining + 1), ok |-> LimitReader(len, remaining + 1) <= remaining]
  BY <1>1 DEF writeFile
<1>4. remaining > 0 => Copy(len, remaining) = writeFile(len, TRUE, remaining)
  <2> HAVE remaining > 0
  <2>1. ~(remaining <= 0)
    BY <1>0
  <2> QED BY <2>1, <1>1, <1>3 DEF Copy
<1>5. writeFile(len, TRUE, remaining).n = LimitReader(len, remaining + 1)
  BY <1>1 DEF writeFile
<1>7. writeFile(len, TRUE, remaining).ok <=> LimitReader(len, remaining + 1) <= remaining
  BY <1>1 DEF writeFile
<1>6. LimitReader(len, remaining + 1) <= remaining <=> len <= remaining
  BY <1>0, <1>2
<1> QED BY <1>2, <1>4, <1>5, <1>6, <1>7
\* Of an archive with a limit or without, what is left of it at most the limit.
LEMMA MemberCopy ==
  ASSUME NEW len \in Nat, NEW remaining \in Int, NEW max \in 0..(MaxInt - 1),
         remaining <= max, max > 0 => remaining >= 0,
         writeArchiveFile(len, max > 0, remaining).ok
  PROVE  writeArchiveFile(len, max > 0, remaining).n = len
<1>1. CASE max > 0
  <2>1. remaining \in 0..(MaxInt - 1) /\ (max > 0) = TRUE
    BY <1>1, MaxIntAssumption
  <2>2. writeFile(len, TRUE, remaining) = writeArchiveFile(len, max > 0, remaining)
    BY <2>1, CopyFits
  <2> QED BY <2>1, <2>2, CopyExact
<1>2. CASE ~(max > 0)
  BY <1>2 DEF writeArchiveFile
<1> QED BY <1>1, <1>2

=============================================================================
