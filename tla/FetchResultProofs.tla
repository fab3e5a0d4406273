-------------------------- MODULE FetchResultProofs -------------------------
(***************************************************************************)
(* Proofs about Fetch: what a call that succeeds has delivered, and what a *)
(* call is refused for.                                                    *)
(***************************************************************************)
EXTENDS FetchTreeProofs

-----------------------------------------------------------------------------
(***************************************************************************)
(* Paths that begin alike.                                                 *)
(***************************************************************************)
LEMMA JoinedPrefix ==
  ASSUME NEW dir \in Seq(STRING), NEW a \in Seq(STRING), NEW b \in Seq(STRING)
  PROVE  IsPrefix(dir \o a, dir \o b) <=> IsPrefix(a, b)
<1> DEFINE da == dir \o a
           db == dir \o b
<1>1. Len(dir) \in Nat /\ Len(a) \in Nat /\ Len(b) \in Nat
  OBVIOUS
<1>2. /\ da \in Seq(STRING) /\ Len(da) = Len(dir) + Len(a)
      /\ db \in Seq(STRING) /\ Len(db) = Len(dir) + Len(b)
  BY ConcatProperties
<1>3. /\ \A i \in 1..Len(dir) : da[i] = dir[i] /\ db[i] = dir[i]
      /\ \A i \in 1..Len(a) : da[Len(dir) + i] = a[i]
      /\ \A i \in 1..Len(b) : db[Len(dir) + i] = b[i]
  BY <1>1
<1> HIDE DEF da, db
<1>4. IsPrefix(da, db) <=> Len(da) <= Len(db) /\ \A i \in 1..Len(da) : da[i] = db[i]
  BY <1>2, PrefixAt
<1>5. IsPrefix(a, b) <=> Len(a) <= Len(b) /\ \A i \in 1..Len(a) : a[i] = b[i]
  BY PrefixAt
<1>6. ASSUME Len(a) <= Len(b), \A i \in 1..Len(a) : a[i] = b[i]
      PROVE  Len(da) <= Len(db) /\ \A i \in 1..Len(da) : da[i] = db[i]
  <2>1. Len(da) <= Len(db)
    BY <1>1, <1>2, <1>6
  <2>2. ASSUME NEW i \in 1..Len(da) PROVE da[i] = db[i]
    <3>1. CASE i <= Len(dir)
      BY <3>1, <1>1, <1>3
    <3>2. CASE i > Len(dir)
      <4>1. i - Len(dir) \in 1..Len(a) /\ i - Len(dir) \in 1..Len(b) /\ Len(dir) + (i - Len(dir)) = i
        BY <3>2, <1>1, <1>2, <1>6
      <4> QED BY <4>1, <1>3, <1>6
    <3> QED BY <3>1, <3>2, <1>1
  <2> QED BY <2>1, <2>2
<1>7. ASSUME Len(da) <= Len(db), \A i \in 1..Len(da) : da[i] = db[i]
      PROVE  Len(a) <= Len(b) /\ \A i \in 1..Len(a) : a[i] = b[i]
  <2>1. Len(a) <= Len(b)
    BY <1>1, <1>2, <1>7
  <2>2. ASSUME NEW i \in 1..Len(a) PROVE a[i] = b[i]
    <3>1. Len(dir) + i \in 1..Len(da) /\ i \in 1..Len(b)
      BY <1>1, <1>2, <2>1
    <3>2. da[Len(dir) + i] = a[i]
      BY <1>3
    <3>3. db[Len(dir) + i] = b[i]
      BY <3>1, <1>3
    <3>4. da[Len(dir) + i] = db[Len(dir) + i]
      BY <3>1, <1>7
    <3> QED BY <3>2, <3>3, <3>4
  <2> QED BY <2>1, <2>2
<1> QED BY <1>4, <1>5, <1>6, <1>7 DEF da, db

LEMMA JoinedSame ==
  ASSUME NEW dir \in Seq(STRING), NEW a \in Seq(STRING), NEW b \in Seq(STRING), dir \o a = dir \o b
  PROVE  a = b
<1>0. PICK c \in Seq(STRING) : c = dir \o a
  BY PrefixOfJoined
<1>1. IsPrefix(c, c)
  BY PrefixAt
<1>2. IsPrefix(dir \o a, dir \o b) /\ IsPrefix(dir \o b, dir \o a)
  BY <1>0, <1>1
<1>3. IsPrefix(a, b) /\ IsPrefix(b, a)
  BY <1>2, JoinedPrefix
<1>4. Len(a) <= Len(b) /\ Len(b) <= Len(a) /\ Len(a) \in Nat /\ Len(b) \in Nat
  BY <1>3, PrefixAt
<1>5. IsPrefix(b, b) /\ Len(a) = Len(b)
  BY <1>4, PrefixAt
<1> QED BY <1>3, <1>5, PrefixesMeet

LEMMA NothingJoined ==
  ASSUME NEW a \in Seq(STRING), NEW b \in Seq(STRING)
  PROVE  a \o <<>> = a /\ SubSeq(b, 1, 0) = <<>> /\ SubSeq(b, 1, Len(b)) = b
OBVIOUS

\* A segment that leads one further.
Enters(seg) == \A dir : Enter(dir, seg) = Append(dir, seg)

LEMMA EntersPlain ==
  ASSUME NEW seg, seg \notin Dots
  PROVE  Enters(seg)
<1>1. seg \notin {"", "."} /\ seg # ".."
  BY DEF Dots, Still
<1> QED BY <1>1, Zenon DEF Enter, Enters

LEMMA CleanBelow ==
  ASSUME NEW name \in Seq(STRING), \A n \in 1..Len(name) : Enters(name[n])
  PROVE  Clean(Root \o name) = Root \o name
<1> DEFINE Part(n) == SubSeq(name, 1, n)
           S == {n \in Nat : n <= Len(name) => Clean(Root \o Part(n)) = Root \o Part(n)}
<1>1. Root \in Seq(STRING) /\ Len(name) \in Nat /\ Clean(Root) = Root
  BY RootAssumption
<1>2. 0 \in S
  <2>1. Part(0) = <<>>
    BY <1>1, NothingJoined
  <2>2. Root \o <<>> = Root
    BY <1>1, NothingJoined
  <2> QED BY <2>1, <2>2, <1>1
<1>3. ASSUME NEW n \in Nat, n < Len(name)
      PROVE  /\ Part(n) \in Seq(STRING) /\ name[n + 1] \in STRING
             /\ Part(n + 1) = Append(Part(n), name[n + 1])
  BY <1>3
<1> HIDE DEF Part
<1>4. \A n \in Nat : n \in S => n + 1 \in S
  <2> TAKE n \in Nat
  <2> HAVE n \in S
  <2> SUFFICES ASSUME n + 1 <= Len(name) PROVE Clean(Root \o Part(n + 1)) = Root \o Part(n + 1)
    OBVIOUS
  <2>1. n < Len(name) /\ n + 1 \in 1..Len(name) /\ Clean(Root \o Part(n)) = Root \o Part(n)
    BY <1>1
  <2>2. /\ Part(n) \in Seq(STRING) /\ name[n + 1] \in STRING
        /\ Part(n + 1) = Append(Part(n), name[n + 1])
    BY <2>1, <1>3
  <2>3. Root \o Part(n + 1) = Append(Root \o Part(n), name[n + 1]) /\ Root \o Part(n) \in Seq(STRING)
    <3>1. Append(Root \o Part(n), name[n + 1]) = Root \o Append(Part(n), name[n + 1]) /\ Root \o Part(n) \in Seq(STRING)
      BY <1>1, <2>2, AppendJoined
    <3> QED BY <2>2, <3>1
  <2>4. Clean(Root \o Part(n + 1)) = Enter(Root \o Part(n), name[n + 1])
    BY <2>1, <2>2, <2>3, CleanAppend
  <2>5. Enter(Root \o Part(n), name[n + 1]) = Append(Root \o Part(n), name[n + 1])
    BY <2>1, Zenon DEF Enters
  <2> QED BY <2>1, <2>3, <2>4, <2>5
<1>5. Len(name) \in S
  <2> HIDE DEF S
  <2> QED BY <1>1, <1>2, <1>4, SetInduction
<1>6. Part(Len(name)) = name
  BY DEF Part
<1> QED BY <1>1, <1>5, <1>6

\* A path with nothing that filepath.Clean takes away stays as it is.
LEMMA CleanPlain ==
  ASSUME NEW name \in Seq(STRING), Avoids(name, Dots)
  PROVE  Clean(Root \o name) = Root \o name
<1>1. ASSUME NEW n \in 1..Len(name)
      PROVE  Enters(name[n])
  BY EntersPlain DEF Avoids
<1> QED BY <1>1, CleanBelow

-----------------------------------------------------------------------------
(***************************************************************************)
(* The pages of a listing as one sequence.                                 *)
(***************************************************************************)
Flats(seqs, f) == f = [i \in 1..Len(seqs) |-> IF i = 1 THEN seqs[i] ELSE f[i - 1] \o seqs[i]]

LEMMA FlatExists ==
  ASSUME NEW T, NEW seqs \in Seq(Seq(T))
  PROVE  \E f : Flats(seqs, f)
<1> DEFINE W(n, f) == f = [i \in 1..n |-> IF i = 1 THEN seqs[i] ELSE f[i - 1] \o seqs[i]]
           S == {n \in Nat : \E f : W(n, f)}
<1>1. 0 \in S
  <2>1. W(0, [i \in 1..0 |-> seqs[i]])
    OBVIOUS
  <2> QED BY <2>1
<1>2. \A n \in Nat : n \in S => n + 1 \in S
  <2> TAKE n \in Nat
  <2> HAVE n \in S
  <2>1. PICK f : W(n, f)
    OBVIOUS
  <2> DEFINE g == [i \in 1..(n + 1) |-> IF i <= n THEN f[i] ELSE IF i = 1 THEN seqs[i] ELSE f[n] \o seqs[n + 1]]
  <2>4. \A i \in 1..n : f[i] = IF i = 1 THEN seqs[i] ELSE f[i - 1] \o seqs[i]
    BY <2>1
  <2>5. \A i \in 1..(n + 1) : g[i] = IF i <= n THEN f[i] ELSE IF i = 1 THEN seqs[i] ELSE f[n] \o seqs[n + 1]
    OBVIOUS
  <2>2. \A i \in 1..(n + 1) : g[i] = IF i = 1 THEN seqs[i] ELSE g[i - 1] \o seqs[i]
    <3> HIDE DEF g, W
    <3> TAKE i \in 1..(n + 1)
    <3>1. CASE i = 1
      BY <3>1, <2>4, <2>5
    <3>2. CASE i # 1 /\ i <= n
      <4>1. i \in 1..n /\ i - 1 \in 1..(n + 1) /\ i - 1 <= n
        BY <3>2
      <4>2. g[i] = f[i] /\ g[i - 1] = f[i - 1] /\ f[i] = f[i - 1] \o seqs[i]
        BY <3>2, <4>1, <2>4, <2>5
      <4> QED BY <3>2, <4>2
    <3>3. CASE i # 1 /\ ~(i <= n)
      <4>1. i = n + 1 /\ i - 1 = n /\ n \in 1..(n + 1) /\ n <= n
        BY <3>3
      <4>2. g[n] = f[n] /\ g[i] = f[n] \o seqs[n + 1]
        BY <3>3, <4>1, <2>5
      <4> QED BY <3>3, <4>1, <4>2
    <3> QED BY <3>1, <3>2, <3>3
  <2>3. W(n + 1, g)
    BY <2>2
  <2> HIDE DEF g, W
  <2> QED BY <2>3
<1> HIDE DEF S, W
<1>3. Len(seqs) \in Nat
  OBVIOUS
<1>5. Len(seqs) \in S
  BY <1>1, <1>2, <1>3, SetInduction
<1>4. PICK f : W(Len(seqs), f)
  BY <1>5 DEF S
<1> QED BY <1>4 DEF W, Flats

LEMMA FlattenFlats ==
  ASSUME NEW T, NEW seqs \in Seq(Seq(T)), seqs # <<>>
  PROVE  \E f : Flats(seqs, f) /\ FlattenSeq(seqs) = f[Len(seqs)]
<1> DEFINE f == CHOOSE f : Flats(seqs, f)
<1>1. Flats(seqs, f)
  BY FlatExists
<1>2. Len(seqs) # 0
  OBVIOUS
<1>3. FlattenSeq(seqs) = f[Len(seqs)]
  BY <1>2, Zenon DEF FlattenSeq, Flats
<1> HIDE DEF f
<1> QED BY <1>1, <1>3

LEMMA FlatType ==
  ASSUME NEW T, NEW seqs \in Seq(Seq(T)), NEW f, Flats(seqs, f)
  PROVE  \A i \in 1..Len(seqs) : f[i] \in Seq(T)
<1> DEFINE S == {n \in Nat : n \in 1..Len(seqs) => f[n] \in Seq(T)}
<1>0. Len(seqs) \in Nat
  OBVIOUS
<1>1. \A i \in 1..Len(seqs) : f[i] = IF i = 1 THEN seqs[i] ELSE f[i - 1] \o seqs[i]
  <2>1. f = [i \in 1..Len(seqs) |-> IF i = 1 THEN seqs[i] ELSE f[i - 1] \o seqs[i]]
    BY DEF Flats
  <2> QED BY <2>1
<1>2. 0 \in S
  OBVIOUS
<1>3. \A n \in Nat : n \in S => n + 1 \in S
  <2> TAKE n \in Nat
  <2> HAVE n \in S
  <2> SUFFICES ASSUME n + 1 \in 1..Len(seqs) PROVE f[n + 1] \in Seq(T)
    OBVIOUS
  <2>1. seqs[n + 1] \in Seq(T)
    OBVIOUS
  <2>2. CASE n = 0
    BY <2>1, <2>2, <1>1
  <2>3. CASE n # 0
    <3>1. n \in 1..Len(seqs) /\ (n + 1) - 1 = n /\ n + 1 # 1
      BY <2>3, <1>0
    <3>2. f[n] \in Seq(T)
      BY <3>1
    <3>3. f[n + 1] = f[n] \o seqs[n + 1]
      BY <3>1, <1>1
    <3> QED BY <2>1, <3>2, <3>3, ConcatProperties
  <2> QED BY <2>2, <2>3
<1> HIDE DEF S
<1>4. \A n \in Nat : n \in S
  BY <1>2, <1>3, SetInduction
<1> QED BY <1>4 DEF S

LEMMA FlattenType ==
  ASSUME NEW T, NEW seqs \in Seq(Seq(T))
  PROVE  FlattenSeq(seqs) \in Seq(T)
<1>1. CASE seqs = <<>>
  <2>1. FlattenSeq(seqs) = <<>>
    BY <1>1 DEF FlattenSeq
  <2> QED BY <2>1
<1>2. CASE seqs # <<>>
  <2>1. PICK f : Flats(seqs, f) /\ FlattenSeq(seqs) = f[Len(seqs)]
    BY <1>2, FlattenFlats
  <2>2. Len(seqs) \in 1..Len(seqs)
    BY <1>2
  <2> QED BY <2>1, <2>2, FlatType
<1> QED BY <1>1, <1>2

LEMMA FlattenAppend ==
  ASSUME NEW T, NEW seqs \in Seq(Seq(T)), NEW more \in Seq(T)
  PROVE  FlattenSeq(Append(seqs, more)) = FlattenSeq(seqs) \o more
<1> DEFINE all == Append(seqs, more)
           l == Len(seqs)
<1>1. all \in Seq(Seq(T)) /\ Len(all) = l + 1 /\ all[l + 1] = more /\ l \in Nat /\ all # <<>>
  BY AppendProperties
<1>2. \A n \in 1..l : all[n] = seqs[n]
  BY AppendProperties
<1> HIDE DEF all
<1>3. PICK g : Flats(all, g) /\ FlattenSeq(all) = g[l + 1]
  BY <1>1, FlattenFlats
<1>4. \A i \in 1..(l + 1) : g[i] = IF i = 1 THEN all[i] ELSE g[i - 1] \o all[i]
  <2>1. g = [i \in 1..(l + 1) |-> IF i = 1 THEN all[i] ELSE g[i - 1] \o all[i]]
    BY <1>1, <1>3 DEF Flats
  <2> QED BY <2>1
<1>5. CASE seqs = <<>>
  <2>1. l = 0
    BY <1>5
  <2>2. FlattenSeq(seqs) = <<>>
    BY <1>5 DEF FlattenSeq
  <2>3. <<>> \o more = more
    OBVIOUS
  <2>4. g[1] = all[1]
    BY <1>4, <2>1
  <2> QED BY <1>1, <1>3, <2>1, <2>2, <2>3, <2>4 DEF all
<1>6. CASE seqs # <<>>
  <2>1. PICK f : Flats(seqs, f) /\ FlattenSeq(seqs) = f[l]
    BY <1>6, FlattenFlats
  <2>2. \A i \in 1..l : f[i] = IF i = 1 THEN seqs[i] ELSE f[i - 1] \o seqs[i]
    <3>1. f = [i \in 1..l |-> IF i = 1 THEN seqs[i] ELSE f[i - 1] \o seqs[i]]
      BY <2>1 DEF Flats
    <3> QED BY <3>1
  <2>3. l # 0
    BY <1>6
  <2> DEFINE S == {n \in Nat : n \in 1..l => f[n] = g[n]}
  <2> HIDE DEF l
  <2>4. 0 \in S
    OBVIOUS
  <2>5. \A n \in Nat : n \in S => n + 1 \in S
    <3> TAKE n \in Nat
    <3> HAVE n \in S
    <3> SUFFICES ASSUME n + 1 \in 1..l PROVE f[n + 1] = g[n + 1]
      OBVIOUS
    <3>1. n + 1 \in 1..(l + 1) /\ all[n + 1] = seqs[n + 1]
      BY <1>1, <1>2
    <3>2. CASE n = 0
      BY <3>1, <3>2, <2>2, <1>4
    <3>3. CASE n # 0
      <4>1. n \in 1..l /\ (n + 1) - 1 = n /\ n + 1 # 1
        BY <3>3, <1>1
      <4>2. f[n] = g[n]
        BY <4>1
      <4> QED BY <4>1, <4>2, <3>1, <2>2, <1>4
    <3> QED BY <3>2, <3>3
  <2> HIDE DEF S
  <2>6. l \in S
    BY <1>1, <2>4, <2>5, SetInduction
  <2>7. f[l] = g[l]
    BY <1>1, <2>3, <2>6 DEF S
  <2>8. g[l + 1] = g[l] \o all[l + 1]
    <3>1. l + 1 \in 1..(l + 1) /\ (l + 1) - 1 = l /\ l + 1 # 1
      BY <1>1, <2>3
    <3> QED BY <3>1, <1>4
  <2> QED BY <1>1, <1>3, <2>1, <2>7, <2>8 DEF all
<1> QED BY <1>5, <1>6

LEMMA FlattenOne ==
  ASSUME NEW T, NEW xs \in Seq(T), NEW seqs \in Seq(Seq(T)), Len(seqs) = 1, seqs[1] = xs
  PROVE  FlattenSeq(seqs) = xs
<1>1. seqs = Append(<<>>, xs) /\ <<>> \in Seq(Seq(T))
  OBVIOUS
<1>2. FlattenSeq(Append(<<>>, xs)) = FlattenSeq(<<>>) \o xs
  BY <1>1, FlattenAppend
<1>3. FlattenSeq(<<>>) = <<>>
  BY DEF FlattenSeq
<1>4. <<>> \o xs = xs
  OBVIOUS
<1> QED BY <1>1, <1>2, <1>3, <1>4

\* A page more.
LEMMA RestConcat ==
  ASSUME NEW xs \in Seq(Entry), NEW ys \in Seq(Entry)
  PROVE  /\ Rest(ys, xs \o ys) /\ xs \o ys \in Seq(Entry) /\ Len(xs \o ys) - Len(ys) = Len(xs)
         /\ \A i \in 1..Len(xs) : (xs \o ys)[i] = xs[i]
<1> DEFINE zs == xs \o ys
<1>1. Len(xs) \in Nat /\ Len(ys) \in Nat
  OBVIOUS
<1>2. zs \in Seq(Entry) /\ Len(zs) = Len(xs) + Len(ys)
  BY ConcatProperties
<1>3. /\ \A i \in 1..Len(xs) : zs[i] = xs[i]
      /\ \A i \in 1..Len(ys) : zs[Len(xs) + i] = ys[i]
  BY <1>1
<1> HIDE DEF zs
<1>4. Len(ys) <= Len(zs) /\ Len(zs) - Len(ys) = Len(xs)
  BY <1>1, <1>2
<1>5. Rest(ys, zs)
  BY <1>3, <1>4 DEF Rest
<1> QED BY <1>2, <1>3, <1>4, <1>5 DEF zs

-----------------------------------------------------------------------------
(***************************************************************************)
(* Files that are laid below a directory, one for every entry of some.     *)
(***************************************************************************)
\* Of the files below a directory there is one for every entry in S, at its place, and
\* the last of several at one place is whole.
Laid(t, dir, xs, S, at) ==
  /\ {p \in Files(t) : IsPrefix(dir, p)} = {at[i] : i \in S}
  /\ \A i \in S : (\A j \in S : j > i => at[j] # at[i]) => t[at[i]] = File(xs[i], xs[i].len)

LEMMA LaidNone ==
  ASSUME NEW t, NEW dir, Clear(t, dir), NEW xs, NEW at
  PROVE  Laid(t, dir, xs, {}, at)
BY DEF Clear, Laid

\* What is laid depends on the entries in S alone.
LEMMA LaidOnly ==
  ASSUME NEW t, NEW dir, NEW xs, NEW S, NEW at, Laid(t, dir, xs, S, at),
         NEW ys, NEW there, \A i \in S : ys[i] = xs[i] /\ there[i] = at[i]
  PROVE  Laid(t, dir, ys, S, there)
<1>1. {there[i] : i \in S} = {at[i] : i \in S}
  OBVIOUS
<1>2. ASSUME NEW i \in S, \A j \in S : j > i => there[j] # there[i]
      PROVE  t[there[i]] = File(ys[i], ys[i].len)
  <2>1. \A j \in S : j > i => at[j] # at[i]
    BY <1>2
  <2> QED BY <2>1 DEF Laid
<1> QED BY <1>1, <1>2 DEF Laid

LEMMA LaidKept ==
  ASSUME NEW t, NEW dir, NEW xs, NEW S, NEW at, Laid(t, dir, xs, S, at), NEW u,
         {p \in Files(u) : IsPrefix(dir, p)} = {p \in Files(t) : IsPrefix(dir, p)},
         \A p \in Files(t) : IsPrefix(dir, p) => u[p] = t[p]
  PROVE  Laid(u, dir, xs, S, at)
<1>1. ASSUME NEW i \in S, \A j \in S : j > i => at[j] # at[i]
      PROVE  u[at[i]] = File(xs[i], xs[i].len)
  <2>1. at[i] \in {p \in Files(t) : IsPrefix(dir, p)}
    BY DEF Laid
  <2> QED BY <1>1, <2>1 DEF Laid
<1> QED BY <1>1 DEF Laid

LEMMA LaidMkdirAll ==
  ASSUME NEW t, NEW dir, NEW xs, NEW S, NEW at, Laid(t, dir, xs, S, at), NEW p
  PROVE  Laid(MkdirAll(t, p), dir, xs, S, at)
<1> DEFINE u == MkdirAll(t, p)
<1>1. Files(u) = Files(t) /\ \A q \in DOMAIN t : u[q] = t[q]
  BY MkdirAllKeeps
<1>2. Files(t) \subseteq DOMAIN t
  BY DEF Files
<1> HIDE DEF u
<1>3. Laid(u, dir, xs, S, at)
  BY <1>1, <1>2, LaidKept
<1> QED BY <1>3 DEF u

\* The next entry is written whole.
LEMMA LaidCreate ==
  ASSUME NEW t, NEW dir, NEW xs, NEW S \in SUBSET Nat, NEW at, Laid(t, dir, xs, S, at),
         NEW k \in Nat, \A i \in S : i < k, IsPrefix(dir, at[k])
  PROVE  Laid(Create(t, at[k], File(xs[k], xs[k].len)), dir, xs, S \cup {k}, at)
<1> DEFINE u == Create(t, at[k], File(xs[k], xs[k].len))
<1>1. /\ Files(u) = Files(t) \cup {at[k]} /\ u[at[k]] = File(xs[k], xs[k].len)
      /\ \A q \in DOMAIN t \ {at[k]} : u[q] = t[q]
  BY CreateKeeps
<1> HIDE DEF u
<1>2. {p \in Files(u) : IsPrefix(dir, p)} = {at[i] : i \in S \cup {k}}
  <2>1. {p \in Files(u) : IsPrefix(dir, p)} = {p \in Files(t) : IsPrefix(dir, p)} \cup {at[k]}
    BY <1>1
  <2>2. {p \in Files(t) : IsPrefix(dir, p)} = {at[i] : i \in S}
    BY DEF Laid
  <2>3. {at[i] : i \in S \cup {k}} = {at[i] : i \in S} \cup {at[k]}
    OBVIOUS
  <2> QED BY <2>1, <2>2, <2>3
<1>3. ASSUME NEW i \in S \cup {k}, \A j \in S \cup {k} : j > i => at[j] # at[i]
      PROVE  u[at[i]] = File(xs[i], xs[i].len)
  <2>1. CASE i = k
    BY <2>1, <1>1
  <2>2. CASE i # k
    <3>1. i \in S /\ k > i /\ at[k] # at[i]
      BY <2>2, <1>3
    <3>2. at[i] \in Files(t) /\ t[at[i]] = File(xs[i], xs[i].len)
      BY <3>1, <1>3 DEF Laid
    <3>3. at[i] \in DOMAIN t
      BY <3>2 DEF Files
    <3> QED BY <3>1, <3>2, <3>3, <1>1
  <2> QED BY <2>1, <2>2
<1>4. Laid(u, dir, xs, S \cup {k}, at)
  BY <1>2, <1>3 DEF Laid
<1> QED BY <1>4 DEF u

\* A link is made where there is no file.
LEMMA LaidLink ==
  ASSUME NEW t, NEW dir, NEW xs, NEW S, NEW at, Laid(t, dir, xs, S, at), NEW p, p \notin Files(t), NEW x
  PROVE  Laid(Create(t, p, Link(x)), dir, xs, S, at)
<1> DEFINE m == MkdirAll(t, Front(p))
           u == Create(t, p, Link(x))
<1>1. Files(m) = Files(t) /\ \A q \in DOMAIN t : m[q] = t[q]
  BY MkdirAllKeeps
<1>2. Files(t) \subseteq DOMAIN t
  BY DEF Files
<1>3. u = Put(m, p, Link(x))
  BY DEF Create
<1> HIDE DEF m, u
<1>4. Files(u) = Files(m)
  BY <1>1, <1>3 DEF Put, Files, Link
<1>5. \A q \in Files(m) : u[q] = m[q]
  BY <1>1, <1>3 DEF Put, Files
<1>6. Laid(u, dir, xs, S, at)
  BY <1>1, <1>2, <1>4, <1>5, LaidKept
<1> QED BY <1>6 DEF u

-----------------------------------------------------------------------------
(***************************************************************************)
(* Everything below a directory, explained by entries.                     *)
(***************************************************************************)
\* Everything below a directory that is no directory is at the place of an entry in S,
\* and every directory is on the way to that of one in S or D, or at that of one in D.
Explained(t, dir, S, D, at) ==
  \A p \in DOMAIN t : IsPrefix(dir, p) =>
    /\ t[p] # Dir => \E i \in S : at[i] = p
    /\ t[p] = Dir /\ p # dir => \/ \E i \in S : IsPrefix(p, at[i]) /\ p # at[i]
                                \/ \E i \in D : IsPrefix(p, at[i])

LEMMA ExplainedMore ==
  ASSUME NEW t, NEW dir, NEW S, NEW D, NEW at, Explained(t, dir, S, D, at),
         NEW S2, S \subseteq S2, NEW D2, D \subseteq D2, NEW there, \A i \in S \cup D : there[i] = at[i]
  PROVE  Explained(t, dir, S2, D2, there)
BY DEF Explained

LEMMA ExplainedMkdirAll ==
  ASSUME NEW t, NEW dir, NEW S, NEW D, NEW at, Explained(t, dir, S, D, at), NEW k,
         at[k] \in Seq(STRING)
  PROVE  Explained(MkdirAll(t, at[k]), dir, S, D \cup {k}, at)
<1> DEFINE u == MkdirAll(t, at[k])
<1>1. \A p \in DOMAIN u : (p \in DOMAIN t /\ u[p] = t[p]) \/ (p \in Prefixes(at[k]) /\ u[p] = Dir)
  BY DEF MkdirAll
<1>2. \A p \in Prefixes(at[k]) : IsPrefix(p, at[k])
  BY PrefixesOf
<1> HIDE DEF u
<1>3. ASSUME NEW p \in DOMAIN u, IsPrefix(dir, p)
      PROVE  /\ u[p] # Dir => \E i \in S : at[i] = p
             /\ u[p] = Dir /\ p # dir => \/ \E i \in S : IsPrefix(p, at[i]) /\ p # at[i]
                                         \/ \E i \in D \cup {k} : IsPrefix(p, at[i])
  <2>1. CASE p \in DOMAIN t /\ u[p] = t[p]
    BY <2>1, <1>3 DEF Explained
  <2>2. CASE p \in Prefixes(at[k]) /\ u[p] = Dir
    BY <2>2, <1>2
  <2> QED BY <2>1, <2>2, <1>1
<1>4. Explained(u, dir, S, D \cup {k}, at)
  BY <1>3 DEF Explained
<1> QED BY <1>4 DEF u

LEMMA ExplainedCreate ==
  ASSUME NEW t, NEW dir, NEW S, NEW D, NEW at, Explained(t, dir, S, D, at), NEW k,
         at[k] \in Seq(STRING), at[k] # <<>>, NEW node, node # Dir
  PROVE  Explained(Create(t, at[k], node), dir, S \cup {k}, D, at)
<1> DEFINE m == MkdirAll(t, Front(at[k]))
           u == Create(t, at[k], node)
<1>1. /\ Front(at[k]) \in Seq(STRING) /\ IsPrefix(Front(at[k]), at[k])
      /\ Len(Front(at[k])) = Len(at[k]) - 1
  BY FrontProperties
<1>2. \A p \in Prefixes(Front(at[k])) : IsPrefix(p, at[k]) /\ p # at[k]
  <2> SUFFICES ASSUME NEW p \in Prefixes(Front(at[k])) PROVE IsPrefix(p, at[k]) /\ p # at[k]
    OBVIOUS
  <2>1. p \in Seq(STRING) /\ IsPrefix(p, Front(at[k]))
    BY <1>1, PrefixesOf
  <2>2. IsPrefix(p, at[k])
    BY <1>1, <2>1, PrefixTransitive
  <2>3. Len(p) <= Len(Front(at[k]))
    BY <1>1, <2>1, PrefixAt
  <2>4. Len(at[k]) \in Nat
    OBVIOUS
  <2> QED BY <1>1, <2>2, <2>3, <2>4
<1>3. u = Put(m, at[k], node)
  BY DEF Create
<1>4. \A p \in DOMAIN m : (p \in DOMAIN t /\ m[p] = t[p]) \/ (p \in Prefixes(Front(at[k])) /\ m[p] = Dir)
  BY DEF MkdirAll
<1> HIDE DEF m, u
<1>5. \A p \in DOMAIN u : (p = at[k] /\ u[p] = node) \/ (p \in DOMAIN m /\ u[p] = m[p])
  BY <1>3 DEF Put
<1>6. ASSUME NEW p \in DOMAIN u, IsPrefix(dir, p)
      PROVE  /\ u[p] # Dir => \E i \in S \cup {k} : at[i] = p
             /\ u[p] = Dir /\ p # dir => \/ \E i \in S \cup {k} : IsPrefix(p, at[i]) /\ p # at[i]
                                         \/ \E i \in D : IsPrefix(p, at[i])
  <2>1. CASE p = at[k] /\ u[p] = node
    BY <2>1
  <2>2. CASE p \in DOMAIN t /\ u[p] = t[p]
    BY <2>2, <1>6 DEF Explained
  <2>3. CASE p \in Prefixes(Front(at[k])) /\ u[p] = Dir
    BY <2>3, <1>2
  <2> QED BY <2>1, <2>2, <2>3, <1>4, <1>5
<1>7. Explained(u, dir, S \cup {k}, D, at)
  BY <1>6 DEF Explained
<1> QED BY <1>7 DEF u

\* Nothing but directories stands on the way to dir.
Open(t, dir) == \A q \in DOMAIN t : IsPrefix(q, dir) /\ q # dir => t[q] = Dir

\* What is in the way of a directory is the place of an entry.
LEMMA MkdirAllBlocked ==
  ASSUME NEW t, NEW dir \in Seq(STRING), NEW S, NEW D, NEW at, Explained(t, dir, S, D, at), Open(t, dir),
         NEW p \in Seq(STRING), IsPrefix(dir, p), ~CanMkdirAll(t, p)
  PROVE  \E i \in S : at[i] \in Seq(STRING) /\ IsPrefix(at[i], p)
<1>1. PICK q \in Prefixes(p) : q \in DOMAIN t /\ t[q] # Dir
  BY DEF CanMkdirAll
<1>2. q \in Seq(STRING) /\ IsPrefix(q, p)
  BY PrefixesOf
<1>3. IsPrefix(dir, q)
  <2>1. IsPrefix(dir, dir)
    BY PrefixAt
  <2> QED BY <1>1, <1>2, <2>1, PrefixesMeet DEF Open
<1>4. PICK i \in S : at[i] = q
  BY <1>1, <1>3 DEF Explained
<1> QED BY <1>2, <1>4

\* What is in the way of a file is the place of an entry as well, or it is a directory
\* on the way to one, or dir itself.
LEMMA CreateBlocked ==
  ASSUME NEW t, NEW dir \in Seq(STRING), dir # <<>>, NEW S, NEW D, NEW at, Explained(t, dir, S, D, at), Open(t, dir),
         NEW p \in Seq(STRING), IsPrefix(dir, p), ~CanCreate(t, p)
  PROVE  \/ p = dir
         \/ \E i \in S : (IsPrefix(at[i], p) /\ at[i] # p) \/ (IsPrefix(p, at[i]) /\ p # at[i])
         \/ \E i \in D : IsPrefix(p, at[i])
<1>0. p # <<>>
  BY PrefixAt
<1>1. CASE p = dir
  BY <1>1
<1>2. CASE p # dir /\ ~CanMkdirAll(t, Front(p))
  <2>1. Front(p) \in Seq(STRING) /\ IsPrefix(Front(p), p) /\ Len(Front(p)) = Len(p) - 1
    BY <1>0, FrontProperties
  <2>2. IsPrefix(dir, Front(p))
    <3>1. IsPrefix(dir, Front(p)) \/ IsPrefix(Front(p), dir)
      BY <2>1, PrefixesMeet
    <3>2. ASSUME IsPrefix(Front(p), dir), Len(dir) > Len(Front(p)) PROVE FALSE
      <4>1. Len(dir) = Len(p)
        <5>1. Len(dir) <= Len(p)
          BY PrefixAt
        <5>2. Len(dir) \in Nat /\ Len(p) \in Nat
          OBVIOUS
        <5> QED BY <5>1, <5>2, <3>2, <2>1
      <4>2. IsPrefix(p, p)
        BY PrefixAt
      <4> QED BY <4>1, <4>2, <1>2, PrefixesMeet
    <3>3. Len(dir) <= Len(Front(p)) => IsPrefix(dir, Front(p))
      BY <2>1, PrefixesMeet
    <3>4. Len(dir) \in Nat /\ Len(Front(p)) \in Nat
      BY <2>1
    <3> QED BY <3>1, <3>2, <3>3, <3>4
  <2>3. PICK i \in S : at[i] \in Seq(STRING) /\ IsPrefix(at[i], Front(p))
    BY <1>2, <2>1, <2>2, MkdirAllBlocked
  <2>4. IsPrefix(at[i], p)
    BY <2>1, <2>3, PrefixTransitive
  <2>5. at[i] # p
    <3>1. Len(at[i]) <= Len(Front(p)) /\ Len(p) \in Nat
      BY <2>1, <2>3, PrefixAt
    <3> QED BY <3>1, <2>1
  <2> QED BY <2>4, <2>5
<1>3. CASE p # dir /\ IsDir(t, p)
  BY <1>3 DEF IsDir, Explained
<1> QED BY <1>0, <1>1, <1>2, <1>3 DEF CanCreate

-----------------------------------------------------------------------------
(***************************************************************************)
(* The bytes of entries.                                                   *)
(***************************************************************************)
LEMMA BytesOfNone ==
  ASSUME NEW xs
  PROVE  IsFiniteSet(BytesOf(xs, {})) /\ Cardinality(BytesOf(xs, {})) = 0
<1>1. BytesOf(xs, {}) = {}
  BY DEF BytesOf
<1> QED BY <1>1, FS_EmptySet

LEMMA BytesOfOne ==
  ASSUME NEW k, NEW n \in Nat
  PROVE  IsFiniteSet({k} \X (1..n)) /\ Cardinality({k} \X (1..n)) = n
<1>1. IsFiniteSet(1..n) /\ Cardinality(1..n) = n
  BY FS_Interval
<1>2. IsFiniteSet({k}) /\ Cardinality({k}) = 1
  BY FS_Singleton
<1> QED BY <1>1, <1>2, FS_Product

LEMMA BytesOfMore ==
  ASSUME NEW xs, NEW S, NEW k, k \notin S, xs[k].len \in Nat, IsFiniteSet(BytesOf(xs, S))
  PROVE  /\ IsFiniteSet(BytesOf(xs, S \cup {k}))
         /\ Cardinality(BytesOf(xs, S \cup {k})) = Cardinality(BytesOf(xs, S)) + xs[k].len
<1>0. PICK n \in Nat : n = xs[k].len
  OBVIOUS
<1> DEFINE new == {k} \X (1..n)
           old == BytesOf(xs, S)
<1>1. BytesOf(xs, S \cup {k}) = old \cup new
  BY <1>0 DEF BytesOf
<1>2. old \cap new = {}
  BY DEF BytesOf
<1> HIDE DEF old
<1>3. IsFiniteSet(new) /\ Cardinality(new) = n
  BY BytesOfOne
<1> HIDE DEF new
<1>4. IsFiniteSet(old) /\ Cardinality(old) \in Nat
  BY FS_CardinalityType DEF old
<1>5. /\ IsFiniteSet(old \cup new)
      /\ Cardinality(old \cup new) = Cardinality(old) + Cardinality(new) - Cardinality(old \cap new)
  BY <1>3, <1>4, FS_Union
<1>6. Cardinality(old \cap new) = 0
  BY <1>2, FS_EmptySet
<1>7. Cardinality(old \cup new) = Cardinality(old) + n
  BY <1>3, <1>4, <1>5, <1>6
<1> QED BY <1>0, <1>1, <1>5, <1>7 DEF old

LEMMA BytesOfFinite ==
  ASSUME NEW xs \in Seq(Entry), NEW S \in SUBSET (1..Len(xs))
  PROVE  IsFiniteSet(BytesOf(xs, S)) /\ Cardinality(BytesOf(xs, S)) \in Nat
<1> DEFINE T == {n \in Nat : n <= Len(xs) => \A U \in SUBSET (1..n) : IsFiniteSet(BytesOf(xs, U))}
<1>0. Len(xs) \in Nat
  OBVIOUS
<1>1. 0 \in T
  <2>1. \A U \in SUBSET (1..0) : U = {}
    <3>1. \A y \in 1..0 : FALSE
      OBVIOUS
    <3> QED BY <3>1
  <2> QED BY <2>1, BytesOfNone
<1>2. ASSUME NEW n \in Nat, n \in T PROVE n + 1 \in T
  <2> SUFFICES ASSUME n + 1 <= Len(xs), NEW U \in SUBSET (1..(n + 1)) PROVE IsFiniteSet(BytesOf(xs, U))
    OBVIOUS
  <2>1. n <= Len(xs)
    BY <1>0
  <2>2. IsFiniteSet(BytesOf(xs, U \ {n + 1}))
    <3>1. U \ {n + 1} \in SUBSET (1..n)
      OBVIOUS
    <3> QED BY <3>1, <2>1, <1>2
  <2>3. CASE n + 1 \notin U
    <3>1. U \ {n + 1} = U
      BY <2>3
    <3> QED BY <3>1, <2>2
  <2>4. CASE n + 1 \in U
    <3>1. (U \ {n + 1}) \cup {n + 1} = U
      BY <2>4
    <3>2. xs[n + 1] \in Entry
      BY <1>0
    <3>3. xs[n + 1].len \in Nat
      BY <3>2 DEF Entry
    <3>4. IsFiniteSet(BytesOf(xs, (U \ {n + 1}) \cup {n + 1}))
      BY <2>2, <3>3, BytesOfMore
    <3> QED BY <3>1, <3>4
  <2> QED BY <2>3, <2>4
<1> HIDE DEF T
<1>3. Len(xs) \in T
  BY <1>0, <1>1, <1>2, SetInduction
<1>4. IsFiniteSet(BytesOf(xs, S))
  BY <1>0, <1>3 DEF T
<1> QED BY <1>4, FS_CardinalityType

LEMMA BytesOfWithin ==
  ASSUME NEW xs \in Seq(Entry), NEW T \in SUBSET (1..Len(xs)), NEW S, S \subseteq T
  PROVE  Cardinality(BytesOf(xs, S)) <= Cardinality(BytesOf(xs, T))
<1>1. BytesOf(xs, S) \subseteq BytesOf(xs, T)
  BY DEF BytesOf
<1>2. IsFiniteSet(BytesOf(xs, T))
  BY BytesOfFinite
<1> QED BY <1>1, <1>2, FS_Subset

\* The next entry does not fit what those before it left.
LEMMA BytesOfExceed ==
  ASSUME NEW xs \in Seq(Entry), NEW T \in SUBSET (1..Len(xs)), NEW S, S \subseteq T, NEW k \in T, k \notin S,
         NEW max \in Nat, NEW r \in Int, r = max - Cardinality(BytesOf(xs, S)), xs[k].len > r
  PROVE  Cardinality(BytesOf(xs, T)) > max
<1>1. xs[k] \in Entry
  OBVIOUS
<1>2. xs[k].len \in Nat
  BY <1>1 DEF Entry
<1>3. IsFiniteSet(BytesOf(xs, S)) /\ Cardinality(BytesOf(xs, S)) \in Nat
  BY BytesOfFinite
<1>4. Cardinality(BytesOf(xs, S \cup {k})) = Cardinality(BytesOf(xs, S)) + xs[k].len
  BY <1>2, <1>3, BytesOfMore
<1>5. Cardinality(BytesOf(xs, S \cup {k})) <= Cardinality(BytesOf(xs, T))
  BY BytesOfWithin
<1>6. Cardinality(BytesOf(xs, T)) \in Nat
  BY BytesOfFinite
<1> QED BY <1>2, <1>3, <1>4, <1>5, <1>6

-----------------------------------------------------------------------------
(***************************************************************************)
(* What a library or hg writes of a repository or an artifact.             *)
(***************************************************************************)
LEMMA TreeName ==
  ASSUME NEW xs \in Seq(Entry), TreeLike(xs), NEW i \in DOMAIN xs
  PROVE  /\ xs[i] \in Entry /\ xs[i].name \in Seq(STRING) /\ xs[i].len \in Nat
         /\ xs[i].kind \in {"dir", "file", "link"}
         /\ Avoids(xs[i].name, Dots)
         /\ xs[i].kind # "dir" => xs[i].name # <<>>
<1>1. xs[i] \in Entry
  OBVIOUS
<1>2. xs[i].name \in Seq(STRING) /\ xs[i].len \in Nat /\ xs[i].kind \in {"dir", "file", "link", "pax"}
  BY <1>1 DEF Entry
<1>3. xs[i].kind # "pax"
  BY DEF TreeLike
<1>4. Avoids(xs[i].name, Dots)
  BY DEF TreeLike
<1>5. xs[i].kind # "dir" => xs[i].name # <<>>
  BY DEF TreeLike
<1> QED BY <1>1, <1>2, <1>3, <1>4, <1>5

LEMMA TreePair ==
  ASSUME NEW xs \in Seq(Entry), TreeLike(xs), NEW i \in DOMAIN xs, xs[i].kind # "dir",
         NEW j \in DOMAIN xs, IsPrefix(xs[i].name, xs[j].name)
  PROVE  i = j
BY DEF TreeLike

\* The paths that are planted, and what is at them.
LEMMA Planted ==
  ASSUME NEW xs \in Seq(Entry), TreeLike(xs), NEW dir \in Seq(STRING)
  PROVE  LET t == Plant(Fresh, dir, xs)
         IN  /\ \A p \in DOMAIN t : \/ p \in DOMAIN Fresh \cup Prefixes(dir)
                                     \/ \E i \in DOMAIN xs : p \in Prefixes(dir \o xs[i].name)
             /\ \A i \in DOMAIN xs : Prefixes(dir \o xs[i].name) \subseteq DOMAIN t
             /\ \A i \in DOMAIN xs : xs[i].kind # "dir" =>
                  dir \o xs[i].name \in DOMAIN t /\ t[dir \o xs[i].name] = Node(xs[i])
             /\ \A p \in DOMAIN t : t[p] # Dir => \E i \in DOMAIN xs : xs[i].kind # "dir" /\ p = dir \o xs[i].name
<1> DEFINE made == Prefixes(dir) \cup UNION {Prefixes(dir \o xs[i].name) : i \in DOMAIN xs}
           At(p) == {i \in DOMAIN xs : xs[i].kind # "dir" /\ dir \o xs[i].name = p}
           t == Plant(Fresh, dir, xs)
<1>1. t = [p \in DOMAIN Fresh \cup made |-> CASE At(p) # {} -> Node(xs[Max(At(p))])
                                              [] At(p) = {} /\ p \in DOMAIN Fresh -> Fresh[p]
                                              [] OTHER -> Dir]
  BY DEF Plant
<1>2. \A p : At(p) \in SUBSET (1..Len(xs)) /\ Len(xs) \in Nat
  OBVIOUS
<1>3. ASSUME NEW p, NEW i \in At(p) PROVE At(p) = {i}
  <2>1. ASSUME NEW j \in At(p) PROVE j = i
    <3>1. xs[i].name \in Seq(STRING) /\ xs[j].name \in Seq(STRING)
      BY <1>3, <2>1, TreeName
    <3>2. xs[i].name = xs[j].name
      BY <1>3, <2>1, <3>1, JoinedSame
    <3>3. IsPrefix(xs[i].name, xs[j].name)
      BY <3>1, <3>2, PrefixAt
    <3> QED BY <1>3, <2>1, <3>3, TreePair
  <2> QED BY <1>3, <2>1
<1>4. ASSUME NEW p, NEW i \in At(p) PROVE Max(At(p)) = i
  <2>1. At(p) = {i}
    BY <1>3, <1>4
  <2> HIDE DEF At
  <2>2. Max(At(p)) \in At(p)
    BY <1>2, <1>4, Largest
  <2> QED BY <2>1, <2>2
<1>5. ASSUME NEW i \in DOMAIN xs, xs[i].kind # "dir"
      PROVE  dir \o xs[i].name \in made /\ i \in At(dir \o xs[i].name)
  <2>1. xs[i].name \in Seq(STRING)
    BY <1>5, TreeName
  <2>2. dir \o xs[i].name \in Seq(STRING)
    BY <2>1, PrefixOfJoined
  <2>3. dir \o xs[i].name \in Prefixes(dir \o xs[i].name)
    BY <2>2, PrefixesOf
  <2> QED BY <2>3, <1>5
<1>6. \A i \in DOMAIN xs : Prefixes(dir \o xs[i].name) \subseteq made
  OBVIOUS
<1>7. \A p \in made : p \in Prefixes(dir) \/ \E i \in DOMAIN xs : p \in Prefixes(dir \o xs[i].name)
  OBVIOUS
<1>8. \A p \in DOMAIN Fresh : Fresh[p] = Dir
  BY DEF Fresh
<1>9. \A p, i : i \in At(p) => i \in DOMAIN xs /\ xs[i].kind # "dir" /\ p = dir \o xs[i].name
  OBVIOUS
<1> HIDE DEF made, At
<1>10. DOMAIN t = DOMAIN Fresh \cup made
  BY <1>1
<1>11. ASSUME NEW i \in DOMAIN xs, xs[i].kind # "dir"
       PROVE  t[dir \o xs[i].name] = Node(xs[i])
  <2>1. dir \o xs[i].name \in made /\ i \in At(dir \o xs[i].name)
    BY <1>5, <1>11
  <2>2. Max(At(dir \o xs[i].name)) = i
    BY <2>1, <1>4
  <2> QED BY <2>1, <2>2, <1>1
<1>12. ASSUME NEW p \in DOMAIN t, t[p] # Dir
       PROVE  \E i \in DOMAIN xs : xs[i].kind # "dir" /\ p = dir \o xs[i].name
  <2>1. CASE At(p) = {}
    <3>1. p \in DOMAIN Fresh \cup made
      BY <1>10, <1>12
    <3>2. t[p] = Dir
      BY <1>1, <1>8, <2>1, <3>1
    <3> QED BY <3>2, <1>12
  <2>2. CASE At(p) # {}
    BY <2>2, <1>9
  <2> QED BY <2>1, <2>2
<1>13. \A p \in DOMAIN t : \/ p \in DOMAIN Fresh \cup Prefixes(dir)
                          \/ \E i \in DOMAIN xs : p \in Prefixes(dir \o xs[i].name)
  BY <1>7, <1>10
<1>14. \A i \in DOMAIN xs : Prefixes(dir \o xs[i].name) \subseteq DOMAIN t
  BY <1>6, <1>10
<1>15. \A i \in DOMAIN xs : xs[i].kind # "dir" =>
         dir \o xs[i].name \in DOMAIN t /\ t[dir \o xs[i].name] = Node(xs[i])
  BY <1>5, <1>10, <1>11
<1> HIDE DEF t
<1> QED BY <1>12, <1>13, <1>14, <1>15 DEF t

\* In the staging directory the places above are there already.
LEMMA PlantedInRoot ==
  ASSUME NEW xs \in Seq(Entry), TreeLike(xs), NEW p \in DOMAIN Plant(Fresh, Root, xs)
  PROVE  p \in DOMAIN Fresh \/ \E i \in DOMAIN xs : p \in Prefixes(Root \o xs[i].name)
<1>1. DOMAIN Fresh = Prefixes(Root)
  BY DEF Fresh
<1> QED BY <1>1, RootAssumption, Planted, Zenon

\* Of them the files.
LEMMA PlantedFiles ==
  ASSUME NEW xs \in Seq(Entry), TreeLike(xs), NEW dir \in Seq(STRING)
  PROVE  LET t == Plant(Fresh, dir, xs)
         IN  /\ \A p \in Files(t) : \E i \in DOMAIN xs : xs[i].kind = "file" /\ p = dir \o xs[i].name
             /\ \A i \in DOMAIN xs : xs[i].kind = "file" =>
                  dir \o xs[i].name \in Files(t) /\ t[dir \o xs[i].name] = File(xs[i], xs[i].len)
<1> DEFINE t == Plant(Fresh, dir, xs)
<1>1. /\ \A i \in DOMAIN xs : xs[i].kind # "dir" =>
           dir \o xs[i].name \in DOMAIN t /\ t[dir \o xs[i].name] = Node(xs[i])
      /\ \A p \in DOMAIN t : t[p] # Dir => \E i \in DOMAIN xs : xs[i].kind # "dir" /\ p = dir \o xs[i].name
  BY Planted, Zenon
<1> HIDE DEF t
<1>2. ASSUME NEW i \in DOMAIN xs, xs[i].kind = "file"
      PROVE  dir \o xs[i].name \in Files(t) /\ t[dir \o xs[i].name] = File(xs[i], xs[i].len)
  <2>1. Node(xs[i]) = File(xs[i], xs[i].len)
    BY <1>2 DEF Node
  <2> QED BY <1>1, <1>2, <2>1, NodeKinds DEF Files
<1>3. ASSUME NEW p \in Files(t)
      PROVE  \E i \in DOMAIN xs : xs[i].kind = "file" /\ p = dir \o xs[i].name
  <2>1. p \in DOMAIN t /\ t[p].kind = "file"
    BY DEF Files
  <2>2. t[p] # Dir
    BY <2>1, NodeKinds
  <2>3. PICK i \in DOMAIN xs : xs[i].kind # "dir" /\ p = dir \o xs[i].name
    BY <1>1, <2>1, <2>2
  <2>4. xs[i].kind \in {"dir", "file", "link"}
    BY TreeName
  <2>5. xs[i].kind = "link" => t[p].kind = "link"
    BY <1>1, <2>3, NodeKinds DEF Node
  <2> QED BY <2>1, <2>3, <2>4, <2>5
<1> QED BY <1>2, <1>3 DEF t

-----------------------------------------------------------------------------
(***************************************************************************)
(* Where a call is, and what it has read.                                  *)
(***************************************************************************)
\* The pages of a listing that were read.
PagesRead == FlattenSeq(SubSeq(w.pages, 1, page))

\* A file that is unpacked is the format that the step is for.
UnpacksAs(format) == isFile /\ w.s.auto /\ extractors(Extension(w, proto)) = format

\* The objects of a listing, and markers of directories.
Marked(xs) == \A k \in DOMAIN xs : xs[k].kind \in {"file", "dir"}

\* What a step has of the source at hand, and that a call that goes on has not returned.
Stages ==
  /\ pc # "done" => result = "none"
  /\ pc \in {"detect", "request"} => page = 0 /\ todo = <<>>
  /\ pc = "list" => proto \in {"s3", "gcs"} /\ Listing(w.url, proto) /\ Rest(todo, PagesRead) /\ Marked(todo)
  /\ pc = "copy" => proto = "file" /\ w.at = "dir" /\ Rest(todo, w.pages[1])
  /\ pc = "move" => proto = "hg" /\ w.subdir # <<>> /\ tree = Plant(Fresh, CloneDir, w.pages[1])
  /\ pc \in {"tar", "zip"} => UnpacksAs(pc) /\ Rest(todo, w.inner) /\ left <= w.s.maxBytes

LEMMA StagesInit == Init => Stages
BY DEF Init, Stages

LEMMA MarkedTail ==
  ASSUME NEW xs \in Seq(Entry), xs # <<>>, Marked(xs)
  PROVE  Marked(Tail(xs)) /\ Head(xs).kind \in {"file", "dir"}
<1>1. Head(xs) = xs[1] /\ 1 \in DOMAIN xs
  OBVIOUS
<1>2. \A k \in DOMAIN Tail(xs) : Tail(xs)[k] = xs[k + 1] /\ k + 1 \in DOMAIN xs
  OBVIOUS
<1> QED BY <1>1, <1>2 DEF Marked

LEMMA MarkedPage ==
  ASSUME World(w), Protocol(w.url) \in {"s3", "gcs"}, Listing(w.url, Protocol(w.url)), NEW k \in DOMAIN w.pages
  PROVE  Marked(w.pages[k])
<1>1. \A y \in ToSet(w.pages[k]) : y.kind \in {"file", "dir"}
  BY WorldsAssumption DEF World
<1>2. \A i \in DOMAIN w.pages[k] : w.pages[k][i] \in ToSet(w.pages[k])
  BY DEF ToSet
<1> QED BY <1>1, <1>2 DEF Marked

\* Until the one file of an HTTP response is written, all is below the staging directory.
LEMMA PlacedWithin ==
  ASSUME Placed, pc \notin {"extract", "done"} \/ proto # "http"
  PROVE  Within(tree)
BY DEF Placed, WrittenAside

LEMMA RestNone == Rest(<<>>, <<>>)
BY DEF Rest

LEMMA NoPageRead ==
  ASSUME World(w), page = 0
  PROVE  PagesRead = <<>>
<1>1. w.pages \in Seq(Seq(Entry))
  BY WorldTypes
<1>2. SubSeq(w.pages, 1, 0) = <<>>
  BY <1>1
<1> QED BY <1>2 DEF PagesRead, FlattenSeq

\* A page more.
LEMMA PageMore ==
  ASSUME NEW pages \in Seq(Seq(Entry)), NEW n \in Nat, n < Len(pages)
  PROVE  LET read == FlattenSeq(SubSeq(pages, 1, n))
             next == FlattenSeq(SubSeq(pages, 1, n + 1))
         IN  /\ read \in Seq(Entry) /\ next \in Seq(Entry) /\ next = read \o pages[n + 1]
             /\ Rest(pages[n + 1], next) /\ Len(next) - Len(pages[n + 1]) = Len(read)
             /\ \A i \in 1..Len(read) : next[i] = read[i]
<1> DEFINE some == SubSeq(pages, 1, n)
           more == SubSeq(pages, 1, n + 1)
<1>1. pages[n + 1] \in Seq(Entry)
  OBVIOUS
<1>2. some \in Seq(Seq(Entry)) /\ Len(some) = n
  OBVIOUS
<1>3. more = Append(some, pages[n + 1])
  OBVIOUS
<1> HIDE DEF some, more
<1>4. FlattenSeq(Append(some, pages[n + 1])) = FlattenSeq(some) \o pages[n + 1]
  BY <1>1, <1>2, FlattenAppend
<1>5. FlattenSeq(some) \in Seq(Entry)
  BY <1>2, FlattenType
<1> DEFINE read == FlattenSeq(some)
           next == FlattenSeq(more)
<1>6. next = read \o pages[n + 1]
  BY <1>3, <1>4
<1> HIDE DEF read, next
<1>7. read \in Seq(Entry)
  BY <1>5 DEF read
<1>8. /\ Rest(pages[n + 1], read \o pages[n + 1]) /\ read \o pages[n + 1] \in Seq(Entry)
      /\ Len(read \o pages[n + 1]) - Len(pages[n + 1]) = Len(read)
      /\ \A i \in 1..Len(read) : (read \o pages[n + 1])[i] = read[i]
  BY <1>1, <1>7, RestConcat
<1> QED BY <1>6, <1>7, <1>8 DEF read, next, some, more

LEMMA ReadType ==
  ASSUME World(w), page \in 0..Len(w.pages)
  PROVE  /\ PagesRead \in Seq(Entry)
         /\ page = Len(w.pages) => PagesRead = FlattenSeq(w.pages)
<1>1. w.pages \in Seq(Seq(Entry)) /\ Len(w.pages) \in Nat
  BY WorldTypes
<1>2. page \in Nat /\ page <= Len(w.pages)
  BY <1>1
<1>3. SubSeq(w.pages, 1, page) \in Seq(Seq(Entry))
  BY <1>1, <1>2, SubSeqType
<1>4. PagesRead \in Seq(Entry)
  BY <1>3, FlattenType DEF PagesRead
<1>5. page = Len(w.pages) => SubSeq(w.pages, 1, page) = w.pages
  BY <1>1
<1> QED BY <1>4, <1>5 DEF PagesRead

LEMMA StagesStep == Typed /\ Placed /\ Stages /\ [Next]_vars => Stages'
<1> SUFFICES ASSUME Typed, Placed, Stages, [Next]_vars PROVE Stages'
  OBVIOUS
<1>w. World(w) /\ w.pages[1] \in Seq(Entry) /\ w.inner \in Seq(Entry) /\ w.pages \in Seq(Seq(Entry))
  BY WorldTypes DEF Typed, Chosen
<1>k. /\ page \in 0..Len(w.pages) /\ Len(w.pages) \in Nat /\ todo \in Seq(Entry) /\ left \in Int
      /\ w.s.maxBytes \in Nat
  <2>1. w.s.maxBytes \in 0..MaxInt /\ MaxInt \in Nat
    BY <1>w, WorldTypes, MaxIntAssumption DEF Settings
  <2> QED BY <1>w, <2>1 DEF Typed, Stream
<1>d. ASSUME pc' \in {"extract", "archive", "archived", "body", "pull"}, result' = result, pc # "done"
      PROVE  Stages'
  BY <1>d DEF Stages
<1>e. ASSUME pc' = "done" PROVE Stages'
  BY <1>e DEF Stages
<1>0. CASE UNCHANGED vars \/ Done
  <2>1. UNCHANGED vars
    BY <1>0 DEF Done
  <2> QED BY <2>1 DEF vars, request, stream, Stages, PagesRead, UnpacksAs, CloneDir
<1>1. CASE Detect
  <2>1. pc = "detect" /\ (pc' = "done" \/ (pc' = "request" /\ UNCHANGED <<result, page, todo>>))
    BY <1>1 DEF Detect, Goto, Return, stream
  <2> QED BY <2>1, <1>e DEF Stages
<1>2. CASE RequestHTTP \/ RequestS3 \/ RequestGCS \/ RequestOCI \/ Clone
  <2>1. /\ pc = "request" /\ UNCHANGED <<w, proto, page, todo>>
        /\ \/ pc' = "done"
           \/ pc' \in {"body", "pull", "archive"} /\ result' = result
           \/ pc' = "list" /\ result' = result /\ proto \in {"s3", "gcs"} /\ Listing(w.url, proto)
    <3>1. CASE RequestS3 \/ RequestGCS
      BY <3>1 DEF RequestS3, RequestGCS, Request, Goto, Return, stream
    <3>2. CASE RequestHTTP \/ RequestOCI \/ Clone
      <4>1. \E p, secrets, label : label \in {"body", "pull", "archive"} /\ Request(p, secrets, label)
        BY <3>2 DEF RequestHTTP, RequestOCI, Clone
      <4> QED BY <4>1 DEF Request, Goto, Return, stream
    <3> QED BY <1>2, <3>1, <3>2
  <2>2. CASE pc' = "list"
    <3>1. page' = 0 /\ todo' = <<>> /\ result = "none" /\ page = 0
      BY <2>1 DEF Stages
    <3>2. PagesRead = <<>>
      BY <3>1, <1>w, NoPageRead
    <3>3. PagesRead' = PagesRead
      BY <2>1 DEF PagesRead
    <3>4. Marked(<<>>)
      BY DEF Marked
    <3> QED BY <2>1, <2>2, <3>1, <3>2, <3>3, <3>4, RestNone DEF Stages
  <2> QED BY <2>1, <2>2, <1>d, <1>e
<1>3. CASE InvalidKey \/ fetchArchive
  <2>1. pc # "done" /\ (pc' = "done" \/ (pc' = "archived" /\ result' = result))
    BY <1>3 DEF InvalidKey, fetchArchive, Goto, Fail, Return
  <2> QED BY <2>1, <1>d, <1>e
<1>4. CASE Body \/ Pull \/ CopyEnd
  <2>1. pc # "done" /\ (pc' = "done" \/ (pc' = "extract" /\ result' = result))
    BY <1>4 DEF Body, Pull, CopyEnd, Save, Downloaded, Goto, Fail, Return
  <2> QED BY <2>1, <1>d, <1>e
<1>5. CASE ListPage
  <2>1. /\ pc = "list" /\ UNCHANGED <<w, proto>>
        /\ \/ pc' = "done"
           \/ pc' = "extract" /\ result' = result
           \/ /\ pc' = "list" /\ result' = result /\ page < Len(w.pages)
              /\ page' = page + 1 /\ todo' = w.pages[page + 1]
    BY <1>5 DEF ListPage, NextPage, Downloaded, Goto, Fail, Return, request
  <2>2. CASE pc' = "list"
    <3>1. page \in Nat /\ page < Len(w.pages)
      BY <2>1, <2>2, <1>k
    <3>2. Rest(w.pages[page + 1], FlattenSeq(SubSeq(w.pages, 1, page + 1)))
      BY <3>1, <1>w, PageMore
    <3>3. PagesRead' = FlattenSeq(SubSeq(w.pages, 1, page + 1))
      BY <2>1, <2>2 DEF PagesRead
    <3>4. Marked(w.pages[page + 1])
      <4>1. proto = Protocol(w.url) /\ page + 1 \in DOMAIN w.pages
        BY <2>1, <3>1, <1>w DEF Typed, Chosen
      <4> QED BY <2>1, <4>1, <1>w, MarkedPage DEF Stages
    <3> QED BY <2>1, <2>2, <3>2, <3>3, <3>4 DEF Stages
  <2> QED BY <2>1, <2>2, <1>d, <1>e
<1>6. CASE GetObject
  <2>1. /\ pc = "list" /\ todo # <<>> /\ UNCHANGED <<w, proto>>
        /\ pc' = "done" \/ (pc' = "list" /\ result' = result /\ page' = page /\ todo' = Tail(todo))
    BY <1>6 DEF GetObject, Save, Skip, Advance, Fail, Return, request
  <2>2. CASE pc' = "list"
    <3>1. PagesRead \in Seq(Entry)
      BY <1>w, <1>k, ReadType
    <3>2. Rest(todo, PagesRead)
      BY <2>1 DEF Stages
    <3>3. PagesRead' = PagesRead
      BY <2>1, <2>2 DEF PagesRead
    <3>4. Rest(Tail(todo), PagesRead)
      BY <2>1, <3>1, <3>2, RestTail
    <3>5. Marked(Tail(todo))
      BY <2>1, <1>k, MarkedTail DEF Stages
    <3> QED BY <2>1, <2>2, <3>3, <3>4, <3>5 DEF Stages
  <2> QED BY <2>1, <2>2, <1>e
<1>7. CASE OpenLocal
  <2>1. /\ pc = "request" /\ proto = "file" /\ UNCHANGED <<w, proto>>
        /\ \/ pc' = "done"
           \/ pc' = "extract" /\ result' = result
           \/ pc' = "copy" /\ result' = result /\ w.at = "dir" /\ todo' = w.pages[1]
    BY <1>7 DEF OpenLocal, Save, Downloaded, Goto, Fail, Return, request
  <2>2. CASE pc' = "copy"
    <3>1. Rest(w.pages[1], w.pages[1])
      BY <1>w, RestAll
    <3> QED BY <2>1, <2>2, <3>1 DEF Stages
  <2> QED BY <2>1, <2>2, <1>d, <1>e
<1>8. CASE copyDir
  <2>1. /\ pc = "copy" /\ todo # <<>> /\ UNCHANGED <<w, proto>>
        /\ pc' = "done" \/ (pc' = "copy" /\ result' = result /\ todo' = Tail(todo))
    BY <1>8 DEF copyDir, Save, MakeDir, Advance, Fail, Return, request
  <2>2. CASE pc' = "copy"
    <3>1. Rest(todo, w.pages[1])
      BY <2>1 DEF Stages
    <3>2. Rest(Tail(todo), w.pages[1])
      BY <2>1, <3>1, <1>w, RestTail
    <3> QED BY <2>1, <2>2, <3>2 DEF Stages
  <2> QED BY <2>1, <2>2, <1>e
<1>9. CASE HgClone
  <2>1. /\ pc = "request" /\ proto = "hg" /\ UNCHANGED <<w, proto>>
        /\ \/ pc' = "done"
           \/ pc' = "extract" /\ result' = result
           \/ /\ pc' = "move" /\ result' = result /\ w.subdir # <<>>
              /\ tree' = Plant(tree, CloneDir, w.pages[1])
    BY <1>9 DEF HgClone, Downloaded, Goto, Fail, Return, request
  <2>2. CASE pc' = "move"
    <3>1. tree = Fresh
      BY <2>1 DEF Placed, Unwritten
    <3>2. CloneDir' = CloneDir
      BY <2>1 DEF CloneDir
    <3> QED BY <2>1, <2>2, <3>1, <3>2 DEF Stages
  <2> QED BY <2>1, <2>2, <1>d, <1>e
<1>10. CASE HgMove \/ ArchiveEnd
  <2>1. pc # "done" /\ (pc' = "done" \/ (pc' = "extract" /\ result' = result))
    BY <1>10 DEF HgMove, ArchiveEnd, Downloaded, Goto, Fail, Return
  <2> QED BY <2>1, <1>d, <1>e
<1>11. CASE extractArchive
  <2>1. pc # "done" /\ (pc' = "done" \/ (pc' = "archived" /\ result' = result))
    BY <1>11 DEF extractArchive, Save, MakeDir, Skip, Advance, Fail, Return
  <2> QED BY <2>1, <1>d, <1>e
<1>12. CASE ExtractWithLimit
  <2>1. /\ pc = "extract" /\ UNCHANGED <<w, proto, isFile>>
        /\ \/ pc' = "done"
           \/ /\ isFile /\ w.s.auto /\ pc' \in {"tar", "zip"} /\ pc' = extractors(Extension(w, proto))
              /\ result' = result /\ todo' = w.inner /\ left' = w.s.maxBytes
    BY <1>12 DEF ExtractWithLimit, Goto, Fail, Return, request
  <2>2. CASE pc' \in {"tar", "zip"}
    <3>1. Rest(w.inner, w.inner)
      BY <1>w, RestAll
    <3> QED BY <2>1, <2>2, <3>1, <1>k DEF Stages, UnpacksAs
  <2> QED BY <2>1, <2>2, <1>e
<1>13. CASE untar \/ extractZip
  <2> DEFINE p == Join(Out, e.name)
             copy == writeFile(e.len, limited, left)
  <2>1. todo # <<>> /\ pc \in {"tar", "zip"} /\ UNCHANGED <<w, proto>>
    BY <1>13 DEF untar, extractZip, request
  <2>2. copy.n \in Nat
    <3>1. e.len \in Nat /\ limited \in BOOLEAN
      BY <2>1, <1>k, HeadTail DEF limited
    <3>2. copy.n \in 0..e.len
      BY <3>1, <1>k, CopyFits
    <3> QED BY <3>1, <3>2
  <2> HIDE DEF p, copy
  <2>3. Skip \/ MakeDir(p, Spend(0)) \/ Save(e, p, copy, Spend(copy.n)) \/ Fail
    BY <1>13 DEF untar, extractZip, p, copy
  <2>4. \/ pc' = "done"
        \/ /\ pc' = pc /\ result' = result /\ isFile' = isFile /\ todo' = Tail(todo)
           /\ left' \in {left, left - 0, left - copy.n}
    BY <2>3 DEF Skip, MakeDir, Save, Spend, Advance, Fail, Return
  <2>5. CASE pc' # "done"
    <3>1. Rest(todo, w.inner) /\ left <= w.s.maxBytes
      BY <2>1 DEF Stages
    <3>2. Rest(Tail(todo), w.inner)
      BY <2>1, <3>1, <1>w, RestTail
    <3>3. left' <= w.s.maxBytes
      BY <2>2, <2>4, <2>5, <3>1, <1>k
    <3> QED BY <2>1, <2>4, <2>5, <3>2, <3>3 DEF Stages, UnpacksAs
  <2> QED BY <2>5, <1>e
<1>14. CASE Extracted
  BY <1>14, <1>e DEF Extracted, Return
<1> QED BY <1>0, <1>1, <1>2, <1>3, <1>4, <1>5, <1>6, <1>7, <1>8, <1>9, <1>10, <1>11, <1>12, <1>13, <1>14 DEF Next

\* The first segment below a directory.
LEMMA FirstBelow ==
  ASSUME NEW dir \in Seq(STRING), NEW name \in Seq(STRING), name # <<>>
  PROVE  /\ name[1] \in STRING /\ Append(dir, name[1]) \in Seq(STRING)
         /\ IsPrefix(Append(dir, name[1]), dir \o name)
<1>1. name[1] \in STRING /\ Len(name) \in Nat /\ Len(name) > 0
  OBVIOUS
<1> DEFINE a == SubSeq(name, 1, 1)
<1>3. IsPrefix(a, name) /\ a \in Seq(STRING) /\ Len(a) = 1
  BY <1>1, FirstSegments
<1> HIDE DEF a
<1>2. a = <<name[1]>>
  <2>1. a[1] = name[1]
    <3>1. Len(a) <= Len(name) /\ \A i \in 1..Len(a) : a[i] = name[i]
      BY <1>3, PrefixAt
    <3> QED BY <1>3, <3>1
  <2>2. a = <<a[1]>>
    BY <1>3
  <2> QED BY <2>1, <2>2
<1>4. IsPrefix(dir \o a, dir \o name)
  BY <1>3, JoinedPrefix
<1>5. dir \o <<name[1]>> = Append(dir, name[1])
  BY <1>1
<1>6. Append(dir, name[1]) \in Seq(STRING)
  BY <1>1, PrefixOfChild
<1> QED BY <1>1, <1>2, <1>4, <1>5, <1>6

LEMMA ManifestNames ==
  ASSUME World(w), Protocol(w.url) = "oci"
  PROVE  TreeLike(w.pages[1]) /\ \A i \in DOMAIN w.pages[1] : w.pages[1][i].name # <<>>
<1>1. TreeLike(w.pages[1]) /\ \A y \in ToSet(w.pages[1]) : y.name # <<>>
  BY WorldsAssumption DEF World
<1>2. \A i \in DOMAIN w.pages[1] : w.pages[1][i] \in ToSet(w.pages[1])
  BY DEF ToSet
<1> QED BY <1>1, <1>2

\* An image manifest that is taken for one file is of one entry.
LEMMA PulledOne ==
  ASSUME World(w), Protocol(w.url) = "oci", PulledFile(Plant(Fresh, Root, w.pages[1]), "manifest")
  PROVE  Len(w.pages[1]) = 1
<1> DEFINE xs == w.pages[1]
           t == Plant(Fresh, Root, xs)
<1>1. xs \in Seq(Entry) /\ Root \in Seq(STRING)
  BY WorldTypes, RootAssumption
<1>2. TreeLike(xs) /\ \A i \in DOMAIN xs : xs[i].name # <<>>
  BY ManifestNames
<1>3. Cardinality(Children(t, Root)) = 1 /\ \A p \in Children(t, Root) : ~IsDir(t, p)
  BY DEF PulledFile
<1> HIDE DEF xs
<1>4. PICK p : Children(t, Root) = {p}
  BY <1>1, <1>3, PlantFinite, FS_Singleton
<1>5. p \in Children(t, Root) /\ p \in DOMAIN t
  BY <1>4 DEF Children
<1>6. t[p] # Dir /\ p \notin DOMAIN Fresh
  BY <1>3, <1>5, FreshNoChild DEF IsDir
<1>7. PICK i \in DOMAIN xs : Root \o xs[i].name = p /\ xs[i].kind # "dir"
  BY <1>1, <1>5, <1>6, PlantAt
<1>8. \A j \in DOMAIN xs : Prefixes(Root \o xs[j].name) \subseteq DOMAIN t
  BY <1>1, <1>2, Planted, Zenon
<1> HIDE DEF t
<1>9. ASSUME NEW j \in DOMAIN xs PROVE j = i
  <2>1. xs[j].name \in Seq(STRING) /\ xs[i].name \in Seq(STRING) /\ xs[j].name # <<>>
    BY <1>1, <1>2, TreeName
  <2> DEFINE q == Append(Root, xs[j].name[1])
  <2>2. xs[j].name[1] \in STRING /\ q \in Seq(STRING) /\ IsPrefix(q, Root \o xs[j].name)
    BY <1>1, <2>1, FirstBelow
  <2>3. Root \o xs[j].name \in Seq(STRING)
    BY <1>1, <2>1, PrefixOfJoined
  <2>4. q \in DOMAIN t
    BY <1>8, <2>2, <2>3, PrefixIn
  <2>5. q # <<>> /\ Front(q) = Root /\ q # Root
    <3>1. Len(q) = Len(Root) + 1 /\ Len(Root) \in Nat
      BY <1>1, <2>2, PrefixOfChild
    <3>2. q # <<>> /\ Front(q) = Root
      BY <1>1, <2>2, FrontAppend
    <3> HIDE DEF q
    <3>3. q # Root
      BY <3>1
    <3> QED BY <3>2, <3>3
  <2>6. q \in Children(t, Root)
    BY <2>4, <2>5 DEF Children
  <2>7. q = Root \o xs[i].name
    BY <1>4, <1>7, <2>6
  <2> HIDE DEF q
  <2>8. IsPrefix(Root \o xs[i].name, Root \o xs[j].name)
    BY <2>2, <2>7
  <2>9. IsPrefix(xs[i].name, xs[j].name)
    BY <1>1, <2>1, <2>8, JoinedPrefix
  <2> QED BY <1>1, <1>2, <1>7, <2>9, TreePair
<1>10. Len(xs) = 1
  <2>1. Len(xs) \in Nat /\ DOMAIN xs = 1..Len(xs)
    BY <1>1
  <2>2. 1 \in DOMAIN xs /\ Len(xs) \in DOMAIN xs
    BY <2>1, <1>7
  <2>3. 1 = i
    BY <2>2, <1>9
  <2>4. Len(xs) = i
    BY <2>2, <1>9
  <2> QED BY <2>3, <2>4
<1> QED BY <1>10 DEF xs

\* What is taken for one file.
OneEntry == isFile /\ (proto = "oci" => w.media = "manifest") => Len(w.pages) = 1 /\ Len(w.pages[1]) = 1

LEMMA OneEntryInit == Init => OneEntry
BY DEF Init, OneEntry

LEMMA OneFileEntry ==
  ASSUME World(w), OneFile(w, Protocol(w.url))
  PROVE  Len(w.pages) = 1 /\ Len(w.pages[1]) = 1
<1>1. Len(w.pages[1]) = 1
  BY WorldsAssumption DEF World
<1>2. ~(Protocol(w.url) \in {"s3", "gcs"} /\ Listing(w.url, Protocol(w.url)))
  BY DEF OneFile
<1>3. Len(w.pages) = 1
  BY <1>2, WorldsAssumption DEF World
<1> QED BY <1>1, <1>3

LEMMA OneEntryStep == Typed /\ Placed /\ OutBudget /\ OneEntry /\ [Next]_vars => OneEntry'
<1> SUFFICES ASSUME Typed, Placed, OutBudget, OneEntry, [Next]_vars PROVE OneEntry'
  OBVIOUS
<1>w. World(w) /\ (pc # "detect" => proto = Protocol(w.url)) /\ isFile \in BOOLEAN
  BY DEF Typed, Chosen, Stream
<1>0. CASE UNCHANGED vars \/ Done
  BY <1>0 DEF Done, vars, request, OneEntry
<1>1. CASE Next /\ pc \notin Extracting /\ ~Body /\ ~Pull /\ ~OpenLocal
  <2>1. isFile = FALSE
    BY <1>1, <1>w DEF OutBudget
  <2>2. isFile' = FALSE
    BY <1>1, <2>1, BeforeExtracting
  <2> QED BY <2>2 DEF OneEntry
<1>2. CASE Body
  <2>1. OneFile(w, Protocol(w.url)) /\ w' = w
    BY <1>2, <1>w DEF Body, Placed, request
  <2> QED BY <2>1, <1>w, OneFileEntry DEF OneEntry
<1>3. CASE Pull
  <2> DEFINE pulled == Plant(tree, Root, w.pages[1])
  <2>1. pc = "pull" /\ proto = "oci" /\ tree = Fresh /\ Protocol(w.url) = "oci" /\ UNCHANGED <<w, proto>>
    BY <1>3, <1>w DEF Pull, Placed, Unwritten, request
  <2>2. isFile' = isFile \/ isFile' = PulledFile(pulled, w.media)
    BY <1>3 DEF Pull, Downloaded, Fail
  <2>3. ~(Protocol(w.url) \in {"s3", "gcs"} /\ Listing(w.url, Protocol(w.url)))
    BY <2>1
  <2>4. Len(w.pages) = 1
    BY <2>3, <1>w, WorldsAssumption DEF World
  <2>5. PulledFile(pulled, w.media) /\ w.media = "manifest" => Len(w.pages[1]) = 1
    BY <2>1, <1>w, PulledOne
  <2> QED BY <2>1, <2>2, <2>4, <2>5 DEF OneEntry
<1>4. CASE OpenLocal
  <2>1. pc = "request" /\ proto = "file" /\ Protocol(w.url) = "file" /\ UNCHANGED <<w, proto>>
    BY <1>4, <1>w DEF OpenLocal, request
  <2>2. isFile' = isFile \/ isFile' = FALSE \/ w.at = "file"
    BY <1>4 DEF OpenLocal, Save, Downloaded, Goto, Fail, Return
  <2>3. w.at = "file" => OneFile(w, Protocol(w.url))
    BY <2>1 DEF OneFile
  <2> QED BY <2>1, <2>2, <2>3, <1>w, OneFileEntry DEF OneEntry
<1>5. CASE Next /\ pc \in Extracting /\ ~Done
  <2>1. ExtractWithLimit \/ untar \/ extractZip \/ Extracted
    <3>1. ~(Detect \/ RequestHTTP \/ RequestS3 \/ RequestGCS \/ InvalidKey \/ RequestOCI \/ Clone \/ fetchArchive)
      BY <1>5 DEF Detect, RequestHTTP, RequestS3, RequestGCS, InvalidKey, RequestOCI, Clone, Request, fetchArchive, Extracting
    <3>2. ~(Body \/ ListPage \/ GetObject \/ Pull \/ OpenLocal \/ copyDir \/ CopyEnd \/ HgClone \/ HgMove)
      BY <1>5 DEF Body, ListPage, GetObject, Pull, OpenLocal, copyDir, CopyEnd, HgClone, HgMove, Extracting
    <3>3. ~(extractArchive \/ ArchiveEnd)
      BY <1>5 DEF extractArchive, ArchiveEnd, Extracting
    <3> QED BY <1>5, <3>1, <3>2, <3>3 DEF Next
  <2>2. isFile' = isFile /\ UNCHANGED <<w, proto>>
    BY <2>1 DEF ExtractWithLimit, untar, extractZip, Extracted, Save, MakeDir, Skip, Spend, Advance, Fail, request
  <2> QED BY <2>2 DEF OneEntry
<1> QED BY <1>0, <1>1, <1>2, <1>3, <1>4, <1>5

-----------------------------------------------------------------------------
(***************************************************************************)
(* What a call has delivered so far, step by step.                         *)
(***************************************************************************)
\* The first entries that came, of the sequence that is read.
Came(xs) == 1..(Len(xs) - Len(todo))

\* The places of entries.
Places(xs) == [i \in DOMAIN xs |-> Place(xs[i])]

\* The files of the entries in S are laid below what is delivered.
LaidBy(xs, S) == Laid(tree, Delivered, xs, S \cap WantedOf(xs), Places(xs))

\* At every step the files of the entries that came are there, and no others.
Whole ==
  proto # "git" /\ w.at # "link" /\ w.s.maxBytes < MaxInt /\ ~Aside /\ ~Astray =>
    /\ pc = "list" => LaidBy(PagesRead, Came(PagesRead))
    /\ pc = "copy" => LaidBy(w.pages[1], Came(w.pages[1]))
    /\ pc \in {"tar", "zip"} => LaidBy(w.inner, Came(w.inner))
    /\ pc = "extract" /\ ~Unpacks => LaidBy(Arrives, DOMAIN Arrives)
    /\ pc = "extract" /\ Unpacks => (Out \notin DOMAIN tree => Clear(tree, Out))
    /\ result = "ok" => LaidBy(Arrives, DOMAIN Arrives)

\* Where the one file goes, and where a subdirectory is, is the world's.
LEMMA PlaceSame ==
  ASSUME UNCHANGED <<w, proto>>
  PROVE  /\ FilePlace' = FilePlace /\ Aside' = Aside
         /\ Subdirectory' = Subdirectory /\ srcDir' = srcDir /\ Astray' = Astray
<1>1. FilePlace' = FilePlace
  BY DEF FilePlace, Only
<1>2. Aside' = Aside
  BY <1>1 DEF Aside
<1>3. CloneDir' = CloneDir
  BY DEF CloneDir
<1>4. srcDir' = srcDir
  BY <1>3 DEF srcDir
<1>5. Subdirectory' = Subdirectory /\ Astray' = Astray
  BY <1>3, <1>4 DEF Subdirectory, Astray
<1> QED BY <1>1, <1>2, <1>4, <1>5

LEMMA JudgedSame ==
  ASSUME UNCHANGED <<w, proto, isFile>>
  PROVE  /\ Delivered' = Delivered /\ Unpacks' = Unpacks /\ Arrives' = Arrives
         /\ \A xs : Places(xs)' = Places(xs) /\ WantedOf(xs)' = WantedOf(xs)
<1>1. Unpacks' = Unpacks
  BY DEF Unpacks, IsArchive
<1>2. Delivered' = Delivered /\ Arrives' = Arrives
  BY <1>1 DEF Delivered, Arrives, Out
<1>3. ASSUME NEW x PROVE Wanted(x)' = Wanted(x) /\ Place(x)' = Place(x)
  <2>1. Wanted(x)' = Wanted(x)
    BY <1>1, PlaceSame DEF Wanted
  <2>2. Place(x)' = Place(x)
    BY <1>1, PlaceSame DEF Place, Out
  <2> QED BY <2>1, <2>2
<1>4. ASSUME NEW xs PROVE WantedOf(xs)' = WantedOf(xs)
  BY <1>1, PlaceSame DEF WantedOf, Wanted
<1>5. ASSUME NEW xs PROVE Places(xs)' = Places(xs)
  BY <1>1, PlaceSame DEF Places, Place, Out
<1> QED BY <1>1, <1>2, <1>4, <1>5

LEMMA LaidBySame ==
  ASSUME UNCHANGED <<w, proto, isFile>>, NEW xs, NEW S,
         Laid(tree', Delivered, xs, S \cap WantedOf(xs), Places(xs))
  PROVE  LaidBy(xs, S)'
BY JudgedSame DEF LaidBy

LEMMA InnerSame ==
  ASSUME UNCHANGED <<w, proto, isFile>>, NEW S, S = 1..(Len(w.inner) - Len(todo')),
         Laid(tree', Delivered, w.inner, S \cap WantedOf(w.inner), Places(w.inner))
  PROVE  LaidBy(w.inner, Came(w.inner))'
BY JudgedSame, PlaceSame DEF LaidBy, Came, WantedOf, Wanted, Places, Place, Unpacks, IsArchive, Out

LEMMA FirstSame ==
  ASSUME UNCHANGED <<w, proto, isFile>>, NEW S, S = 1..(Len(w.pages[1]) - Len(todo')),
         Laid(tree', Delivered, w.pages[1], S \cap WantedOf(w.pages[1]), Places(w.pages[1]))
  PROVE  LaidBy(w.pages[1], Came(w.pages[1]))'
BY JudgedSame, PlaceSame DEF LaidBy, Came, WantedOf, Wanted, Places, Place, Unpacks, IsArchive, Out

LEMMA ReadSame ==
  ASSUME UNCHANGED <<w, proto, isFile>>, NEW xs, xs = PagesRead', NEW S, S = 1..(Len(xs) - Len(todo')),
         Laid(tree', Delivered, xs, S \cap WantedOf(xs), Places(xs))
  PROVE  LaidBy(PagesRead, Came(PagesRead))'
<1>1. xs = FlattenSeq(SubSeq(w'.pages, 1, page'))
  BY DEF PagesRead
<1> QED BY <1>1, JudgedSame, PlaceSame
     DEF LaidBy, Came, WantedOf, Wanted, Places, Place, Unpacks, IsArchive, Out, PagesRead

LEMMA ArrivesSame ==
  ASSUME UNCHANGED <<w, proto, isFile>>,
         Laid(tree', Delivered, Arrives, DOMAIN Arrives \cap WantedOf(Arrives), Places(Arrives))
  PROVE  LaidBy(Arrives, DOMAIN Arrives)'
BY JudgedSame, PlaceSame DEF LaidBy, Arrives, WantedOf, Wanted, Places, Place, Unpacks, IsArchive, Out

\* One more entry came: it is not one that becomes a file, or it was written whole.
LEMMA LaidNext ==
  ASSUME NEW xs \in Seq(Entry), Rest(todo, xs), todo # <<>>, LaidBy(xs, Came(xs)),
         \/ ~Wanted(e) /\ tree' = tree
         \/ ~Wanted(e) /\ \E p : tree' = MkdirAll(tree, p)
         \/ ~Wanted(e) /\ \E p, x : p \notin Files(tree) /\ tree' = Create(tree, p, Link(x))
         \/ Wanted(e) /\ tree' = Create(tree, Place(e), File(e, e.len)) /\ IsPrefix(Delivered, Place(e))
  PROVE  LET S == 1..(Len(xs) - Len(Tail(todo)))
         IN  Laid(tree', Delivered, xs, S \cap WantedOf(xs), Places(xs))
<1> DEFINE k == Len(xs) - Len(todo) + 1
           S == 1..(Len(xs) - Len(Tail(todo)))
           at == Places(xs)
           old == Came(xs) \cap WantedOf(xs)
           dir == Delivered
<1>1. k \in 1..Len(xs) /\ e = xs[k] /\ Len(Tail(todo)) = Len(todo) - 1
  BY RestTail DEF e
<1>2. Len(xs) \in Nat /\ Len(todo) \in Nat
  BY DEF Rest
<1>3. Came(xs) = 1..(k - 1) /\ S = 1..k /\ k \in Nat
  BY <1>1, <1>2 DEF Came
<1>4. k \in DOMAIN xs /\ at[k] = Place(e)
  <2>1. k \in DOMAIN xs
    BY <1>1
  <2> QED BY <2>1, <1>1 DEF Places
<1>5. Laid(tree, dir, xs, old, at)
  BY DEF LaidBy
<1>6. old \in SUBSET Nat /\ \A i \in old : i < k
  BY <1>3
<1>7. ~Wanted(e) => S \cap WantedOf(xs) = old
  <2>1. ~Wanted(e) => k \notin WantedOf(xs)
    BY <1>1 DEF WantedOf
  <2>2. k \notin WantedOf(xs) => (1..k) \cap WantedOf(xs) = (1..(k - 1)) \cap WantedOf(xs)
    BY <1>3
  <2> QED BY <2>1, <2>2, <1>3
<1>8. Wanted(e) => S \cap WantedOf(xs) = old \cup {k}
  <2>1. Wanted(e) => k \in WantedOf(xs)
    BY <1>1, <1>4 DEF WantedOf
  <2>2. k \in WantedOf(xs) => (1..k) \cap WantedOf(xs) = ((1..(k - 1)) \cap WantedOf(xs)) \cup {k}
    <3>1. 1..k = 1..(k - 1) \cup {k}
      BY <1>1, <1>3
    <3> QED BY <3>1
  <2> QED BY <2>1, <2>2, <1>3
<1>9. e = xs[k] /\ IsPrefix(dir, Place(e)) /\ Wanted(e) => Laid(Create(tree, at[k], File(xs[k], xs[k].len)), dir, xs, old \cup {k}, at)
  BY <1>3, <1>4, <1>5, <1>6, LaidCreate
<1> HIDE DEF k, S, at, old, dir
<1>14. Laid(tree', dir, xs, S \cap WantedOf(xs), at)
  <2>1. CASE ~Wanted(e) /\ tree' = tree
    BY <1>5, <1>7, <2>1
  <2>2. CASE ~Wanted(e) /\ \E p : tree' = MkdirAll(tree, p)
    <3>1. PICK p : tree' = MkdirAll(tree, p)
      BY <2>2
    <3>2. Laid(MkdirAll(tree, p), dir, xs, old, at)
      BY <1>5, LaidMkdirAll
    <3> QED BY <3>1, <3>2, <1>7, <2>2
  <2>3. CASE ~Wanted(e) /\ \E p, x : p \notin Files(tree) /\ tree' = Create(tree, p, Link(x))
    <3>1. PICK p, x : p \notin Files(tree) /\ tree' = Create(tree, p, Link(x))
      BY <2>3
    <3>2. Laid(Create(tree, p, Link(x)), dir, xs, old, at)
      BY <3>1, <1>5, LaidLink
    <3> QED BY <3>1, <3>2, <1>7, <2>3
  <2>4. CASE Wanted(e) /\ tree' = Create(tree, Place(e), File(e, e.len)) /\ IsPrefix(Delivered, Place(e))
    BY <1>1, <1>4, <1>8, <1>9, <2>4 DEF dir
  <2> QED BY <2>1, <2>2, <2>3, <2>4
<1> QED BY <1>14 DEF S, at, dir

\* A copy that succeeds is whole.
LEMMA CopyWhole ==
  ASSUME NEW len \in Nat, NEW max \in 0..(MaxInt - 1), Copy(len, max).ok
  PROVE  Copy(len, max).n = len
<1>1. max \in Int
  OBVIOUS
<1>2. CASE max <= 0
  BY <1>2 DEF Copy
<1>3. CASE max > 0
  <2>1. Copy(len, max) = writeFile(len, TRUE, max)
    BY <1>3, CopyExact
  <2> QED BY <2>1, CopyExact
<1> QED BY <1>1, <1>2, <1>3

LEMMA WriteWhole ==
  ASSUME NEW len \in Nat, NEW remaining \in Int, NEW max \in 0..(MaxInt - 1),
         remaining <= max, max > 0 => remaining >= 0, writeFile(len, max > 0, remaining).ok
  PROVE  writeFile(len, max > 0, remaining).n = len
<1>1. CASE max > 0
  <2>1. remaining \in 0..(MaxInt - 1) /\ (max > 0) = TRUE
    BY <1>1, MaxIntAssumption
  <2> QED BY <2>1, CopyExact
<1>2. CASE ~(max > 0)
  BY <1>2 DEF writeFile
<1> QED BY <1>1, <1>2

LEMMA MaxBelow ==
  ASSUME World(w), w.s.maxBytes < MaxInt
  PROVE  w.s.maxBytes \in 0..(MaxInt - 1)
<1>1. w.s.maxBytes \in 0..MaxInt /\ MaxInt \in Nat
  BY WorldTypes, MaxIntAssumption DEF Settings
<1> QED BY <1>1

LEMMA EntryHead ==
  ASSUME Typed, todo # <<>>
  PROVE  e \in Entry /\ e.len \in Nat /\ e.name \in Seq(STRING) /\ e.kind \in {"dir", "file", "link", "pax"}
<1>1. e \in Entry /\ e.len \in Nat
  BY HeadTail DEF Typed, Stream
<1> QED BY <1>1 DEF Entry

\* The facts that every step before an extraction starts from.
LEMMA NotUnpacked ==
  ASSUME OutBudget, Typed, pc \notin Extracting
  PROVE  isFile = FALSE /\ ~Unpacks /\ Delivered = Root
<1>1. isFile = FALSE
  BY DEF OutBudget, Typed, Stream
<1> QED BY <1>1 DEF Unpacks, Delivered

LEMMA GetLaid ==
  ASSUME Typed, OutBudget, Stages, GetObject, pc' = "list", w.s.maxBytes < MaxInt, LaidBy(PagesRead, Came(PagesRead))
  PROVE  LaidBy(PagesRead, Came(PagesRead))'
<1> DEFINE p == Join(Root, e.name)
           copy == Copy(e.len, w.s.maxBytes)
<1>1. pc = "list" /\ todo # <<>> /\ UNCHANGED <<w, proto, page>> /\ todo' = Tail(todo) /\ isFile' = isFile
  BY DEF GetObject, Save, Skip, Advance, Fail, Return, request
<1>2. isFile = FALSE /\ ~Unpacks /\ Delivered = Root /\ proto \in {"s3", "gcs"} /\ Rest(todo, PagesRead)
  BY <1>1, NotUnpacked DEF Extracting, Stages
<1>3. e.kind \in {"file", "dir"} /\ e \in Entry /\ e.len \in Nat /\ e.name \in Seq(STRING)
  <2>1. todo \in Seq(Entry) /\ Marked(todo)
    BY <1>1 DEF Typed, Stream, Stages
  <2> QED BY <1>1, <2>1, MarkedTail, EntryHead DEF e
<1>4. Wanted(e) <=> e.kind = "file"
  BY <1>2 DEF Wanted
<1>5. Place(e) = Clean(Root \o e.name)
  BY <1>2, Zenon DEF Place
<1>6. World(w) /\ page \in 0..Len(w.pages)
  BY DEF Typed, Chosen, Stream
<1>7. PagesRead \in Seq(Entry) /\ PagesRead = PagesRead'
  BY <1>1, <1>6, ReadType DEF PagesRead
<1>8. \/ ~Wanted(e) /\ tree' = tree
      \/ Wanted(e) /\ tree' = Create(tree, Place(e), File(e, e.len)) /\ IsPrefix(Delivered, Place(e))
  <2>1. CASE e.kind = "dir"
    BY <2>1, <1>4 DEF GetObject, Skip
  <2>2. CASE e.kind = "file"
    <3>1. p # Escapes /\ copy.ok /\ tree' = Create(tree, p, File(e, copy.n))
      BY <2>2, <1>1 DEF GetObject, Save, Fail, Return
    <3>2. copy.n = e.len
      BY <3>1, <1>3, <1>6, MaxBelow, CopyWhole
    <3>3. p = Clean(Root \o e.name) /\ IsPrefix(Root, p)
      BY <3>1 DEF Join, Escapes
    <3> QED BY <2>2, <3>1, <3>2, <3>3, <1>2, <1>4, <1>5
  <2> QED BY <1>3, <2>1, <2>2
<1>9. PICK xs \in Seq(Entry) : xs = PagesRead
  BY <1>7
<1>10. LaidBy(xs, Came(xs)) /\ Rest(todo, xs)
  BY <1>2, <1>9
<1>11. LET S == 1..(Len(xs) - Len(Tail(todo)))
       IN  Laid(tree', Delivered, xs, S \cap WantedOf(xs), Places(xs))
  BY <1>1, <1>8, <1>10, LaidNext
<1>12. xs = PagesRead'
  BY <1>7, <1>9
<1> QED BY <1>1, <1>11, <1>12, ReadSame

LEMMA CopyLaid ==
  ASSUME Typed, OutBudget, Stages, copyDir, pc' = "copy", w.s.maxBytes < MaxInt, LaidBy(w.pages[1], Came(w.pages[1]))
  PROVE  LaidBy(w.pages[1], Came(w.pages[1]))'
<1> DEFINE p == Root \o e.name
           copy == Copy(e.len, 0)
<1>1. pc = "copy" /\ todo # <<>> /\ UNCHANGED <<w, proto>> /\ todo' = Tail(todo) /\ isFile' = isFile
  BY DEF copyDir, Save, MakeDir, Advance, Fail, Return, request
<1>2. isFile = FALSE /\ ~Unpacks /\ Delivered = Root /\ proto = "file" /\ w.at = "dir" /\ Rest(todo, w.pages[1])
  BY <1>1, NotUnpacked DEF Extracting, Stages
<1>3. World(w) /\ Protocol(w.url) = "file"
  BY <1>1, <1>2 DEF Typed, Chosen
<1>4. PICK xs \in Seq(Entry) : xs = w.pages[1]
  BY <1>3, WorldTypes
<1>5. TreeLike(xs)
  BY <1>2, <1>3, <1>4, WorldsAssumption DEF World
<1>6. PICK k \in DOMAIN xs : k = Len(xs) - Len(todo) + 1 /\ e = xs[k]
  <2>1. Len(xs) - Len(todo) + 1 \in 1..Len(xs) /\ e = xs[Len(xs) - Len(todo) + 1]
    BY <1>1, <1>2, <1>4, RestTail DEF e
  <2> QED BY <2>1
<1>7. /\ e \in Entry /\ e.name \in Seq(STRING) /\ e.len \in Nat /\ e.kind \in {"dir", "file", "link"}
      /\ Avoids(e.name, Dots)
  BY <1>5, <1>6, TreeName
<1>8. Wanted(e) <=> e.kind = "file"
  BY <1>2 DEF Wanted
<1>9. Place(e) = p
  <2>1. Place(e) = Clean(Root \o e.name)
    BY <1>2, Zenon DEF Place
  <2> QED BY <2>1, <1>7, CleanPlain
<1>10. LaidBy(xs, Came(xs)) /\ Rest(todo, xs)
  BY <1>2, <1>4
<1>11. \/ ~Wanted(e) /\ \E q : tree' = MkdirAll(tree, q)
       \/ ~Wanted(e) /\ \E q, x : q \notin Files(tree) /\ tree' = Create(tree, q, Link(x))
       \/ Wanted(e) /\ tree' = Create(tree, Place(e), File(e, e.len)) /\ IsPrefix(Delivered, Place(e))
  <2>1. CASE e.kind = "dir"
    <3>1. tree' = MkdirAll(tree, p)
      BY <2>1, <1>1 DEF copyDir, MakeDir, Fail, Return
    <3> QED BY <3>1, <2>1, <1>8
  <2>2. CASE e.kind = "link"
    <3>1. tree' = Create(tree, p, Link(e))
      BY <2>2 DEF copyDir
    <3>2. p \notin Files(tree)
      <4> SUFFICES ASSUME p \in Files(tree) PROVE FALSE
        OBVIOUS
      <4>1. IsPrefix(Root, p)
        BY <1>7, RootAssumption, PrefixOfJoined
      <4>2. p \in {Places(xs)[i] : i \in Came(xs) \cap WantedOf(xs)}
        BY <4>1, <1>2, <1>10 DEF LaidBy, Laid
      <4>3. PICK i \in Came(xs) \cap WantedOf(xs) : p = Places(xs)[i]
        BY <4>2
      <4>4. i \in DOMAIN xs /\ p = Place(xs[i]) /\ Wanted(xs[i])
        BY <4>3 DEF Places, WantedOf
      <4>5. xs[i].name \in Seq(STRING) /\ Avoids(xs[i].name, Dots)
        BY <4>4, <1>5, TreeName
      <4>6. Place(xs[i]) = Root \o xs[i].name
        <5>1. Place(xs[i]) = Clean(Root \o xs[i].name)
          BY <1>2, Zenon DEF Place
        <5> QED BY <5>1, <4>5, CleanPlain
      <4>7. xs[i].name = e.name
        BY <4>4, <4>5, <4>6, <1>7, RootAssumption, JoinedSame
      <4>8. IsPrefix(xs[k].name, xs[i].name)
        BY <4>7, <4>5, <1>6, PrefixAt
      <4>9. k = i
        BY <4>8, <4>4, <1>5, <1>6, <2>2, TreePair
      <4> QED BY <4>4, <4>9, <1>6, <1>8, <2>2
    <3> QED BY <3>1, <3>2, <2>2, <1>8
  <2>3. CASE e.kind = "file"
    <3>1. copy.ok /\ tree' = Create(tree, p, File(e, copy.n))
      BY <2>3, <1>1 DEF copyDir, Save, Fail, Return
    <3>2. copy.n = e.len
      BY DEF Copy
    <3>3. IsPrefix(Root, p)
      BY <1>7, RootAssumption, PrefixOfJoined
    <3> QED BY <3>1, <3>2, <3>3, <2>3, <1>2, <1>8, <1>9
  <2> QED BY <1>7, <2>1, <2>2, <2>3
<1>12. LET S == 1..(Len(xs) - Len(Tail(todo)))
       IN  Laid(tree', Delivered, xs, S \cap WantedOf(xs), Places(xs))
  BY <1>1, <1>10, <1>11, LaidNext
<1> QED BY <1>1, <1>4, <1>12, FirstSame

\* An entry of an archive.
LEMMA UnpackLaid ==
  ASSUME Typed, Stages, untar \/ extractZip, pc' = pc, w.s.maxBytes < MaxInt, LaidBy(w.inner, Came(w.inner))
  PROVE  LaidBy(w.inner, Came(w.inner))'
<1> DEFINE p == Join(Out, e.name)
           copy == writeFile(e.len, limited, left)
<1>1. pc \in {"tar", "zip"} /\ todo # <<>> /\ UNCHANGED <<w, proto>> /\ (pc = "tar" <=> untar) /\ (pc = "zip" <=> extractZip)
  BY DEF untar, extractZip, request
<1>2. todo' = Tail(todo) /\ isFile' = isFile
  <2>1. Skip \/ MakeDir(p, Spend(0)) \/ Save(e, p, copy, Spend(copy.n)) \/ Fail
    BY DEF untar, extractZip
  <2> HIDE DEF p, copy
  <2> QED BY <2>1, <1>1 DEF Skip, MakeDir, Save, Spend, Advance, Fail, Return
<1>3. isFile /\ w.s.auto /\ extractors(Extension(w, proto)) = pc /\ Rest(todo, w.inner) /\ left <= w.s.maxBytes
  BY <1>1 DEF Stages, UnpacksAs
<1>4. Unpacks /\ Delivered = Out
  BY <1>1, <1>3 DEF Unpacks, IsArchive, Delivered
<1>5. e \in Entry /\ e.len \in Nat /\ e.name \in Seq(STRING) /\ e.kind \in {"dir", "file", "link", "pax"}
  BY <1>1, EntryHead
<1>6. Wanted(e) <=> IF pc = "zip" THEN e.kind # "dir" ELSE e.kind = "file"
  BY <1>3, <1>4 DEF Wanted
<1>7. Place(e) = Clean(Out \o e.name)
  BY <1>3, <1>4, Zenon DEF Place
<1>8. World(w)
  BY DEF Typed, Chosen
<1>9. copy.ok => copy.n = e.len
  <2>1. w.s.maxBytes \in 0..(MaxInt - 1)
    BY <1>8, MaxBelow
  <2>2. left \in Int /\ (w.s.maxBytes > 0 => left >= 0)
    BY DEF Typed, Stream, limited
  <2>3. writeFile(e.len, w.s.maxBytes > 0, left).ok => writeFile(e.len, w.s.maxBytes > 0, left).n = e.len
    BY <1>3, <1>5, <2>1, <2>2, WriteWhole
  <2> QED BY <2>3 DEF limited
<1> HIDE DEF copy
<1>10. \/ ~Wanted(e) /\ tree' = tree
       \/ ~Wanted(e) /\ \E q : tree' = MkdirAll(tree, q)
       \/ Wanted(e) /\ tree' = Create(tree, Place(e), File(e, e.len)) /\ IsPrefix(Delivered, Place(e))
  <2>1. p # Escapes /\ (\/ e.kind = "dir" /\ MakeDir(p, Spend(0))
                        \/ pc = "tar" /\ e.kind \notin {"dir", "file"} /\ Skip
                        \/ (pc = "tar" => e.kind = "file") /\ e.kind # "dir" /\ Save(e, p, copy, Spend(copy.n)))
    <3>1. CASE untar
      BY <3>1, <1>1 DEF untar, copy, Fail, Return
    <3>2. CASE extractZip
      BY <3>2, <1>1 DEF extractZip, copy, Fail, Return
    <3> QED BY <3>1, <3>2
  <2>2. p = Place(e) /\ IsPrefix(Out, p)
    BY <2>1, <1>7 DEF Join, Escapes
  <2> HIDE DEF p
  <2>3. CASE e.kind = "dir" /\ MakeDir(p, Spend(0))
    <3>1. tree' = MkdirAll(tree, p)
      BY <2>3, <1>1 DEF MakeDir, Fail, Return
    <3> QED BY <2>3, <3>1, <1>6
  <2>4. CASE pc = "tar" /\ e.kind \notin {"dir", "file"} /\ Skip
    BY <2>4, <1>6 DEF Skip
  <2>5. CASE (pc = "tar" => e.kind = "file") /\ e.kind # "dir" /\ Save(e, p, copy, Spend(copy.n))
    <3>1. copy.ok /\ tree' = Create(tree, p, File(e, copy.n))
      BY <2>5, <1>1 DEF Save, Fail, Return
    <3> QED BY <2>2, <2>5, <3>1, <1>1, <1>4, <1>6, <1>9
  <2> QED BY <2>1, <2>3, <2>4, <2>5
<1>11. PICK xs \in Seq(Entry) : xs = w.inner
  BY <1>8, WorldTypes
<1>12. LaidBy(xs, Came(xs)) /\ Rest(todo, xs)
  BY <1>3, <1>11
<1>13. LET S == 1..(Len(xs) - Len(Tail(todo)))
       IN  Laid(tree', Delivered, xs, S \cap WantedOf(xs), Places(xs))
  BY <1>1, <1>10, <1>12, LaidNext
<1> QED BY <1>1, <1>2, <1>11, <1>13, InnerSame

LEMMA OnePage ==
  ASSUME World(w), Len(w.pages) = 1
  PROVE  FlattenSeq(w.pages) = w.pages[1] /\ w.pages[1] \in Seq(Entry)
<1>1. w.pages[1] \in Seq(Entry) /\ w.pages \in Seq(Seq(Entry))
  BY WorldTypes
<1> QED BY <1>1, FlattenOne

LEMMA AllCame ==
  ASSUME NEW xs \in Seq(Entry), todo = <<>>
  PROVE  Came(xs) = DOMAIN xs
<1>1. Len(todo) = 0 /\ Len(xs) \in Nat /\ DOMAIN xs = 1..Len(xs)
  OBVIOUS
<1> QED BY <1>1 DEF Came

LEMMA TurnLaid ==
  ASSUME Typed, OutBudget, Stages, ListPage, pc' = "list", LaidBy(PagesRead, Came(PagesRead))
  PROVE  LaidBy(PagesRead, Came(PagesRead))'
<1>1. /\ pc = "list" /\ todo = <<>> /\ UNCHANGED <<w, proto, isFile, tree>> /\ page < Len(w.pages)
      /\ page' = page + 1 /\ todo' = w.pages[page + 1]
  BY DEF ListPage, NextPage, Downloaded, Goto, Fail, Return, request
<1>2. World(w) /\ page \in Nat /\ w.pages \in Seq(Seq(Entry)) /\ page \in 0..Len(w.pages)
  BY <1>1, WorldTypes DEF Typed, Chosen, Stream
<1> DEFINE read == PagesRead
           next == FlattenSeq(SubSeq(w.pages, 1, page + 1))
<1>3. /\ read \in Seq(Entry) /\ next \in Seq(Entry)
      /\ Len(next) - Len(w.pages[page + 1]) = Len(read)
      /\ \A i \in 1..Len(read) : next[i] = read[i]
  BY <1>1, <1>2, PageMore DEF PagesRead
<1>4. next = PagesRead'
  BY <1>1 DEF PagesRead
<1>5. Came(read) = DOMAIN read
  BY <1>1, <1>3, AllCame
<1>6. Laid(tree, Delivered, read, DOMAIN read \cap WantedOf(read), Places(read))
  BY <1>5 DEF LaidBy
<1> HIDE DEF read, next
<1>7. DOMAIN read = 1..Len(read) /\ 1..Len(read) \subseteq DOMAIN next
  <2>1. Len(read) \in Nat /\ Len(next) \in Nat /\ w.pages[page + 1] \in Seq(Entry)
    BY <1>1, <1>2, <1>3
  <2>2. Len(w.pages[page + 1]) \in Nat
    BY <2>1
  <2> QED BY <2>1, <2>2, <1>3
<1>8. \A i \in DOMAIN read : Places(next)[i] = Places(read)[i]
  BY <1>3, <1>7 DEF Places
<1>9. DOMAIN read \cap WantedOf(read) = (1..Len(read)) \cap WantedOf(next)
  BY <1>3, <1>7 DEF WantedOf
<1>10. Laid(tree, Delivered, next, (1..Len(read)) \cap WantedOf(next), Places(next))
  <2> DEFINE S == DOMAIN read \cap WantedOf(read)
  <2>1. \A i \in S : next[i] = read[i] /\ Places(next)[i] = Places(read)[i]
    BY <1>3, <1>7, <1>8
  <2> HIDE DEF S
  <2>2. Laid(tree, Delivered, next, S, Places(next))
    BY <1>6, <2>1, LaidOnly DEF S
  <2> QED BY <2>2, <1>9 DEF S
<1>11. PICK xs : xs = next
  OBVIOUS
<1>12. /\ Laid(tree', Delivered, xs, (1..Len(read)) \cap WantedOf(xs), Places(xs))
       /\ 1..Len(read) = 1..(Len(xs) - Len(todo'))
  BY <1>1, <1>3, <1>10, <1>11
<1>13. xs = PagesRead'
  BY <1>4, <1>11
<1> QED BY <1>1, <1>12, <1>13, ReadSame

LEMMA ListedLaid ==
  ASSUME Typed, OutBudget, Stages, ListPage, pc' = "extract", LaidBy(PagesRead, Came(PagesRead))
  PROVE  LaidBy(Arrives, DOMAIN Arrives)' /\ ~Unpacks'
<1>1. pc = "list" /\ todo = <<>> /\ UNCHANGED <<w, proto, tree>> /\ page = Len(w.pages) /\ isFile' = FALSE
  BY DEF ListPage, Downloaded, Goto, Fail, Return, request
<1>2. isFile = FALSE /\ ~Unpacks
  BY <1>1, NotUnpacked DEF Extracting
<1>3. World(w) /\ page \in 0..Len(w.pages)
  BY DEF Typed, Chosen, Stream
<1>4. PagesRead \in Seq(Entry) /\ PagesRead = FlattenSeq(w.pages)
  BY <1>1, <1>3, ReadType
<1>5. Arrives = PagesRead
  BY <1>2, <1>4 DEF Arrives
<1>6. Came(PagesRead) = DOMAIN PagesRead
  BY <1>1, <1>4, AllCame
<1>7. Laid(tree, Delivered, Arrives, DOMAIN Arrives \cap WantedOf(Arrives), Places(Arrives))
  BY <1>5, <1>6 DEF LaidBy
<1>8. LaidBy(Arrives, DOMAIN Arrives)'
  BY <1>1, <1>2, <1>7, ArrivesSame
<1> QED BY <1>1, <1>8 DEF Unpacks

LEMMA CopiedLaid ==
  ASSUME Typed, OutBudget, Stages, CopyEnd, LaidBy(w.pages[1], Came(w.pages[1]))
  PROVE  LaidBy(Arrives, DOMAIN Arrives)' /\ ~Unpacks'
<1>1. pc = "copy" /\ todo = <<>> /\ UNCHANGED <<w, proto, tree>> /\ isFile' = FALSE
  BY DEF CopyEnd, Downloaded, Goto, request
<1>2. isFile = FALSE /\ ~Unpacks /\ proto = "file"
  BY <1>1, NotUnpacked DEF Extracting, Stages
<1>3. World(w) /\ Protocol(w.url) = "file"
  BY <1>1, <1>2 DEF Typed, Chosen
<1>4. Len(w.pages) = 1
  BY <1>3, WorldsAssumption DEF World
<1>5. Arrives = w.pages[1] /\ w.pages[1] \in Seq(Entry)
  BY <1>2, <1>3, <1>4, OnePage DEF Arrives
<1>6. Came(w.pages[1]) = DOMAIN w.pages[1]
  BY <1>1, <1>5, AllCame
<1>7. Laid(tree, Delivered, Arrives, DOMAIN Arrives \cap WantedOf(Arrives), Places(Arrives))
  BY <1>5, <1>6 DEF LaidBy
<1>8. LaidBy(Arrives, DOMAIN Arrives)'
  BY <1>1, <1>2, <1>7, ArrivesSame
<1> QED BY <1>1, <1>8 DEF Unpacks

\* One page has been laid, whatever is taken for one file.
LEMMA PageLaid ==
  ASSUME World(w), UNCHANGED <<w, proto>>, Len(w.pages) = 1, ~Unpacks', NEW xs, xs = w.pages[1],
         NEW at, \A i \in DOMAIN xs : at[i] = Place(xs[i])',
         NEW S, \A i : i \in S <=> i \in DOMAIN xs /\ Wanted(xs[i])',
         Laid(tree', Root, xs, S, at)
  PROVE  LaidBy(Arrives, DOMAIN Arrives)'
<1>1. FlattenSeq(w.pages) = xs
  BY OnePage
<1>2. Arrives' = xs /\ Delivered' = Root
  BY <1>1 DEF Arrives, Delivered
<1>3. (DOMAIN Arrives \cap WantedOf(Arrives))' = S
  BY <1>2 DEF WantedOf
<1>4. \A i \in S : Places(Arrives)'[i] = at[i]
  BY <1>2 DEF Places
<1>5. Laid(tree', Root, xs, S, Places(Arrives)')
  BY <1>4, LaidOnly
<1> QED BY <1>2, <1>3, <1>5 DEF LaidBy

\* One file is there, under its own name.
LEMMA AloneLaid ==
  ASSUME World(w), proto = Protocol(w.url), OneFile(w, proto), UNCHANGED <<w, proto>>, isFile' = TRUE,
         FilePlace = Append(Root, Last(Only.name)), tree' = Create(Fresh, FilePlace, File(Only, Only.len))
  PROVE  /\ ~Unpacks' => LaidBy(Arrives, DOMAIN Arrives)'
         /\ Unpacks' => Clear(tree', Out)
<1> DEFINE name == Last(Only.name)
           p == Append(Root, name)
<1>1. /\ Only \in Entry /\ Only.name # <<>> /\ name \in STRING /\ name \in FileNames(w)
      /\ Only.kind = "file"
  BY OnlyEntry, OnlyNamed, WorldsAssumption DEF World, Only
<1>2. Len(w.pages) = 1 /\ Len(w.pages[1]) = 1
  BY OneFileEntry
<1>3. proto # "oci" /\ proto # "hg"
  BY DEF OneFile
<1>4. ASSUME Unpacks' PROVE Clear(tree', Out)
  <2>1. IsArchive(w, Protocol(w.url))
    BY <1>4 DEF Unpacks
  <2> QED BY <1>1, <2>1, FoundClear
<1>5. ASSUME ~Unpacks' PROVE LaidBy(Arrives, DOMAIN Arrives)'
  <2>1. PICK xs : xs = w.pages[1]
    OBVIOUS
  <2>2. xs \in Seq(Entry) /\ DOMAIN xs = {1} /\ xs[1] = Only
    BY <1>2, <2>1, WorldTypes DEF Only
  <2>3. Wanted(xs[1])'
    BY <1>1, <1>3, <1>5, <2>2 DEF Wanted
  <2>4. Place(xs[1])' = p
    <3>1. Place(xs[1])' = FilePlace'
      BY <1>3, <1>5, Zenon DEF Place
    <3> QED BY <3>1, PlaceSame
  <2> DEFINE at == [i \in {1} |-> p]
  <2>5. at[1] = p
    OBVIOUS
  <2>6. IsPrefix(Root, p)
    BY <1>1, RootAssumption, PrefixOfChild
  <2> HIDE DEF at, p
  <2>7. Laid(Fresh, Root, xs, {}, at)
    BY FreshClear, LaidNone
  <2>8. {} \in SUBSET Nat /\ 1 \in Nat /\ \A i \in {} : i < 1
    OBVIOUS
  <2>9. IsPrefix(Root, at[1])
    BY <2>5, <2>6
  <2>10. Laid(Create(Fresh, at[1], File(xs[1], xs[1].len)), Root, xs, {} \cup {1}, at)
    BY <2>7, <2>8, <2>9, LaidCreate
  <2>11. Laid(tree', Root, xs, {1}, at)
    <3>1. {} \cup {1} = {1}
      OBVIOUS
    <3> QED BY <2>2, <2>5, <2>10, <3>1 DEF p
  <2>12. \A i \in DOMAIN xs : at[i] = Place(xs[i])'
    BY <2>2, <2>4, <2>5
  <2>13. \A i : i \in {1} <=> i \in DOMAIN xs /\ Wanted(xs[i])'
    BY <2>2, <2>3
  <2> QED BY <1>2, <1>5, <2>1, <2>11, <2>12, <2>13, PageLaid
<1> QED BY <1>4, <1>5

LEMMA BodyLaid ==
  ASSUME Typed, Placed, Body, pc' = "extract", w.s.maxBytes < MaxInt, ~Aside
  PROVE  /\ ~Unpacks' => LaidBy(Arrives, DOMAIN Arrives)'
         /\ Unpacks' => Clear(tree', Out)
<1> DEFINE copy == Copy(Only.len, w.s.maxBytes)
<1>1. /\ pc = "body" /\ UNCHANGED <<w, proto>> /\ isFile' = TRUE /\ IsDir(tree, Front(FilePlace))
      /\ CanCreate(tree, FilePlace) /\ copy.ok /\ tree' = Create(tree, FilePlace, File(Only, copy.n))
  BY DEF Body, Save, Downloaded, Fail, Return, request
<1>2. /\ World(w) /\ proto = Protocol(w.url) /\ OneFile(w, proto) /\ tree = Fresh
      /\ proto \in {"http", "s3", "gcs"}
  BY <1>1 DEF Typed, Chosen, Placed, Unwritten
<1>3. Only \in Entry
  BY <1>2, OnlyEntry
<1>4. Only.len \in Nat
  BY <1>3 DEF Entry
<1>5. copy.n = Only.len
  BY <1>1, <1>2, <1>4, MaxBelow, CopyWhole
<1>6. FilePlace = Append(Root, Last(Only.name))
  <2>1. FilePlace = Append(Front(FilePlace), Last(Only.name))
    BY <1>1, <1>2, FilePlaced
  <2>2. Front(FilePlace) = Root
    BY <1>2 DEF Aside
  <2> QED BY <2>1, <2>2
<1>7. tree' = Create(Fresh, FilePlace, File(Only, Only.len))
  BY <1>1, <1>2, <1>5
<1> QED BY <1>1, <1>2, <1>6, <1>7, AloneLaid

LEMMA LocalLaid ==
  ASSUME Typed, Placed, OutBudget, OpenLocal, pc' = "extract", w.at # "link"
  PROVE  /\ ~Unpacks' => LaidBy(Arrives, DOMAIN Arrives)'
         /\ Unpacks' => Clear(tree', Out)
<1> DEFINE copy == Copy(Only.len, 0)
<1>1. /\ pc = "request" /\ proto = "file" /\ UNCHANGED <<w, proto>> /\ w.at = "file" /\ isFile' = TRUE
      /\ tree' = Create(tree, Append(Root, Last(w.local)), File(Only, copy.n))
  BY DEF OpenLocal, Save, Downloaded, Goto, Fail, Return, request
<1>2. World(w) /\ proto = Protocol(w.url) /\ OneFile(w, proto) /\ tree = Fresh
  BY <1>1 DEF Typed, Chosen, Placed, Unwritten, OneFile
<1>3. copy.n = Only.len
  BY DEF Copy
<1>4. Last(Only.name) = Last(w.local)
  BY <1>1, <1>2, WorldsAssumption DEF World, Only
<1>5. /\ FilePlace = Append(Root, Last(Only.name))
      /\ tree' = Create(Fresh, FilePlace, File(Only, Only.len))
  BY <1>1, <1>2, <1>3, <1>4 DEF FilePlace
<1> QED BY <1>1, <1>2, <1>5, AloneLaid

LEMMA OneOf == ASSUME NEW T, NEW x \in T PROVE <<x>> \in Seq(T)
OBVIOUS

LEMMA JoinedOne ==
  ASSUME NEW dir \in Seq(STRING), NEW seg \in STRING
  PROVE  Append(dir, seg) = dir \o <<seg>> /\ <<seg>> \in Seq(STRING)
<1> DEFINE name == <<seg>>
<1>1. name \in Seq(STRING)
  BY OneOf
<1>3. Len(name) = 1 /\ name[1] = seg
  OBVIOUS
<1> HIDE DEF name
<1>2. dir \o name = Append(dir, name[1])
  BY <1>1, <1>3, Cancel
<1> QED BY <1>1, <1>2, <1>3 DEF name

\* The children of a directory are other paths.
LEMMA OwnChildren ==
  /\ Append(Root, "index.json") # Out /\ Append(Root, "oci-layout") # Out /\ Append(Root, "blobs") # Out
  /\ Append(Root, "index.json") = Root \o <<"index.json">> /\ <<"index.json">> \in Seq(STRING)
  /\ Append(Root, "oci-layout") = Root \o <<"oci-layout">> /\ <<"oci-layout">> \in Seq(STRING)
<1>1. OwnNames \subseteq STRING /\ Root \in Seq(STRING)
  BY OwnNamesAssumption, RootAssumption
<1>2. "index.json" \in STRING /\ "oci-layout" \in STRING /\ "blobs" \in STRING /\ "_extracted" \in STRING
  BY <1>1 DEF OwnNames
<1>3. Append(Root, "index.json") # Out /\ Append(Root, "oci-layout") # Out /\ Append(Root, "blobs") # Out
  BY <1>1, <1>2, AppendInjective DEF Out
<1> QED BY <1>1, <1>2, <1>3, JoinedOne

\* Below a file that is planted there is nothing.
LEMMA PlantedEnds ==
  ASSUME NEW xs \in Seq(Entry), TreeLike(xs), NEW i \in DOMAIN xs, xs[i].kind # "dir"
  PROVE  Children(Plant(Fresh, Root, xs), Root \o xs[i].name) = {}
<1> DEFINE t == Plant(Fresh, Root, xs)
           p == Root \o xs[i].name
<1>1. \A q \in DOMAIN t : q \in DOMAIN Fresh \/ \E j \in DOMAIN xs : q \in Prefixes(Root \o xs[j].name)
  BY PlantedInRoot, Zenon
<1>2. xs[i].name \in Seq(STRING)
  BY TreeName
<1>3. p \in Seq(STRING) /\ IsPrefix(Root, p) /\ Root \in Seq(STRING)
  BY <1>2, RootAssumption, PrefixOfJoined
<1> HIDE DEF t
<1> SUFFICES ASSUME NEW q \in Children(t, p) PROVE FALSE
  BY DEF t
<1> HIDE DEF p
<1>4. q \in DOMAIN t
  BY DEF Children
<1>5. CASE q \in DOMAIN Fresh
  <2>1. q \in Seq(STRING) /\ IsPrefix(q, Root)
    BY <1>5, <1>3, PrefixesOf DEF Fresh
  <2>2. Len(q) = Len(p) + 1
    BY <1>3, <2>1, ChildLength
  <2>3. Len(q) <= Len(Root) /\ Len(Root) <= Len(p)
    BY <1>3, <2>1, PrefixAt
  <2>4. Len(Root) \in Nat /\ Len(p) \in Nat
    BY <1>3
  <2> QED BY <2>2, <2>3, <2>4
<1>6. CASE q \notin DOMAIN Fresh
  <2>1. PICK j \in DOMAIN xs : q \in Prefixes(Root \o xs[j].name)
    BY <1>1, <1>4, <1>6
  <2>2. xs[j].name \in Seq(STRING)
    BY TreeName
  <2>3. Root \o xs[j].name \in Seq(STRING)
    BY <2>2, <1>3, PrefixOfJoined
  <2>4. q \in Seq(STRING) /\ IsPrefix(q, Root \o xs[j].name)
    BY <2>1, <2>3, PrefixesOf
  <2>5. Len(q) = Len(p) + 1 /\ IsPrefix(p, q)
    BY <1>3, <2>4, ChildLength
  <2>6. IsPrefix(p, Root \o xs[j].name)
    BY <1>3, <2>3, <2>4, <2>5, PrefixTransitive
  <2>7. IsPrefix(xs[i].name, xs[j].name)
    BY <1>2, <1>3, <2>2, <2>6, JoinedPrefix DEF p
  <2>8. i = j
    BY <2>7, TreePair
  <2>9. IsPrefix(q, p)
    BY <2>4, <2>8 DEF p
  <2>10. Len(q) <= Len(p) /\ Len(p) \in Nat
    BY <1>3, <2>4, <2>9, PrefixAt
  <2> QED BY <2>5, <2>10
<1> QED BY <1>5, <1>6

\* What is left of an artifact when oras's own names are removed.
LEMMA PulledFiles ==
  ASSUME NEW xs \in Seq(Entry), TreeLike(xs)
  PROVE  LET u == cleanupOrasMetadata(Plant(Fresh, Root, xs))
         IN  /\ \A p \in Files(u) : \E i \in DOMAIN xs :
                  xs[i].kind = "file" /\ xs[i].name \notin OrasNames /\ p = Root \o xs[i].name
             /\ \A i \in DOMAIN xs : xs[i].kind = "file" /\ xs[i].name \notin OrasNames =>
                  Root \o xs[i].name \in Files(u) /\ u[Root \o xs[i].name] = File(xs[i], xs[i].len)
             /\ Out \notin DOMAIN u => Clear(u, Out)
<1> DEFINE t == Plant(Fresh, Root, xs)
           u == cleanupOrasMetadata(t)
           gone == {q \in {Append(Root, "oci-layout"), Append(Root, "index.json")} : Children(t, q) = {}}
                     \cup {q \in {Append(Root, "blobs")} : IsDir(t, q) /\ Children(t, q) = {}}
<1>1. /\ \A p \in Files(t) : \E i \in DOMAIN xs : xs[i].kind = "file" /\ p = Root \o xs[i].name
      /\ \A i \in DOMAIN xs : xs[i].kind = "file" =>
           Root \o xs[i].name \in Files(t) /\ t[Root \o xs[i].name] = File(xs[i], xs[i].len)
  BY RootAssumption, PlantedFiles, Zenon
<1>2. \A i \in DOMAIN xs : Prefixes(Root \o xs[i].name) \subseteq DOMAIN t
  BY RootAssumption, Planted, Zenon
<1>3. \A i \in DOMAIN xs : xs[i].kind = "file" => Children(t, Root \o xs[i].name) = {}
  BY PlantedEnds
<1>4. u = Without(t, gone)
  BY DEF cleanupOrasMetadata
<1>5. Out \notin gone
  BY OwnChildren
<1>6. ASSUME NEW i \in DOMAIN xs, xs[i].kind = "file", xs[i].name \in OrasNames
      PROVE  Root \o xs[i].name \in gone
  <2>1. Root \o xs[i].name \in {Append(Root, "oci-layout"), Append(Root, "index.json")}
    BY <1>6, OwnChildren DEF OrasNames
  <2>2. Children(t, Root \o xs[i].name) = {}
    BY <1>3, <1>6
  <2> QED BY <2>1, <2>2
<1>7. ASSUME NEW i \in DOMAIN xs, xs[i].kind = "file", xs[i].name \notin OrasNames
      PROVE  Root \o xs[i].name \notin gone
  <2>1. xs[i].name \in Seq(STRING) /\ Root \in Seq(STRING)
    BY TreeName, RootAssumption
  <2>2. ~IsDir(t, Root \o xs[i].name)
    <3>1. Root \o xs[i].name \in Files(t)
      BY <1>1, <1>7
    <3> QED BY <3>1, NodeKinds DEF Files, IsDir
  <2>3. xs[i].name # <<"index.json">> /\ xs[i].name # <<"oci-layout">>
    BY <1>7 DEF OrasNames
  <2>4. Root \o xs[i].name # Append(Root, "index.json")
    BY <2>1, <2>3, OwnChildren, JoinedSame
  <2>5. Root \o xs[i].name # Append(Root, "oci-layout")
    BY <2>1, <2>3, OwnChildren, JoinedSame
  <2> QED BY <2>2, <2>4, <2>5
<1> HIDE DEF gone, t, u
<1>8. Files(u) = Files(t) \ gone /\ (\A p \in Files(u) : u[p] = t[p]) /\ DOMAIN u = DOMAIN t \ gone
  BY <1>4 DEF Files, Without
<1>9. \A p \in Files(u) : \E i \in DOMAIN xs :
        xs[i].kind = "file" /\ xs[i].name \notin OrasNames /\ p = Root \o xs[i].name
  BY <1>1, <1>6, <1>8
<1>10. \A i \in DOMAIN xs : xs[i].kind = "file" /\ xs[i].name \notin OrasNames =>
         Root \o xs[i].name \in Files(u) /\ u[Root \o xs[i].name] = File(xs[i], xs[i].len)
  BY <1>1, <1>7, <1>8
<1>11. ASSUME Out \notin DOMAIN u PROVE Clear(u, Out)
  <2> SUFFICES ASSUME NEW p \in Files(u), IsPrefix(Out, p) PROVE FALSE
    BY DEF Clear
  <2>1. PICK i \in DOMAIN xs : p = Root \o xs[i].name
    BY <1>9
  <2>2. p \in Seq(STRING)
    BY <2>1, TreeName, RootAssumption, PrefixOfJoined
  <2>3. Out \in Prefixes(p)
    BY <2>2, OutBelow, PrefixIn
  <2>4. Out \in DOMAIN t
    BY <1>2, <2>1, <2>3
  <2> QED BY <2>4, <1>5, <1>8, <1>11
<1> QED BY <1>9, <1>10, <1>11 DEF u, t

\* An artifact is pulled, or a repository cloned that is wanted as a whole.
LEMMA PulledLaid ==
  ASSUME Typed, Placed, Pull, pc' = "extract"
  PROVE  /\ ~Unpacks' => LaidBy(Arrives, DOMAIN Arrives)'
         /\ Unpacks' => (Out \notin DOMAIN tree' => Clear(tree', Out))
<1> DEFINE u == cleanupOrasMetadata(Plant(Fresh, Root, w.pages[1]))
<1>1. pc = "pull" /\ UNCHANGED <<w, proto>> /\ tree' = cleanupOrasMetadata(Plant(tree, Root, w.pages[1]))
  BY DEF Pull, Fail, Return, request
<1>2. World(w) /\ Protocol(w.url) = "oci" /\ proto = "oci" /\ tree = Fresh
  BY <1>1 DEF Typed, Chosen, Placed, Unwritten
<1>3. tree' = u
  BY <1>1, <1>2
<1>4. PICK xs \in Seq(Entry) : xs = w.pages[1]
  BY <1>2, WorldTypes
<1>5. TreeLike(xs)
  BY <1>2, <1>4, ManifestNames
<1>6. Len(w.pages) = 1
  BY <1>2, WorldsAssumption DEF World, Listing
<1>7. /\ \A p \in Files(tree') : \E i \in DOMAIN xs :
           xs[i].kind = "file" /\ xs[i].name \notin OrasNames /\ p = Root \o xs[i].name
      /\ \A i \in DOMAIN xs : xs[i].kind = "file" /\ xs[i].name \notin OrasNames =>
           Root \o xs[i].name \in Files(tree') /\ tree'[Root \o xs[i].name] = File(xs[i], xs[i].len)
      /\ Out \notin DOMAIN tree' => Clear(tree', Out)
  BY <1>3, <1>4, <1>5, PulledFiles
<1>8. ASSUME ~Unpacks' PROVE LaidBy(Arrives, DOMAIN Arrives)'
  <2> DEFINE at == [i \in DOMAIN xs |-> Root \o xs[i].name]
             S == {i \in DOMAIN xs : xs[i].kind = "file" /\ xs[i].name \notin OrasNames}
  <2>1. ASSUME NEW i \in DOMAIN xs PROVE at[i] = Place(xs[i])'
    <3>1. Place(xs[i])' = Clean(Root \o xs[i].name)
      BY <1>1, <1>2, <1>8, Zenon DEF Place
    <3>2. xs[i].name \in Seq(STRING) /\ Avoids(xs[i].name, Dots)
      BY <1>5, TreeName
    <3> QED BY <3>1, <3>2, CleanPlain
  <2>2. \A i : i \in S <=> i \in DOMAIN xs /\ Wanted(xs[i])'
    <3>1. ASSUME NEW x PROVE Wanted(x)' <=> x.kind = "file" /\ x.name \notin OrasNames
      BY <1>1, <1>2, <1>8 DEF Wanted
    <3> QED BY <3>1
  <2>3. Laid(tree', Root, xs, S, at)
    <3>1. {p \in Files(tree') : IsPrefix(Root, p)} = {at[i] : i \in S}
      <4>1. \A i \in DOMAIN xs : IsPrefix(Root, Root \o xs[i].name)
        BY <1>5, TreeName, RootAssumption, PrefixOfJoined
      <4> QED BY <1>7, <4>1
    <3>2. \A i \in S : tree'[at[i]] = File(xs[i], xs[i].len)
      BY <1>7
    <3> QED BY <3>1, <3>2 DEF Laid
  <2> HIDE DEF at, S
  <2>4. \A i \in DOMAIN xs : at[i] = Place(xs[i])'
    BY <2>1
  <2> QED BY <1>1, <1>2, <1>4, <1>6, <1>8, <2>2, <2>3, <2>4, PageLaid
<1> QED BY <1>7, <1>8

LEMMA NothingBefore == ASSUME NEW b \in Seq(STRING) PROVE <<>> \o b = b
OBVIOUS

LEMMA NothingFirst ==
  ASSUME NEW b \in Seq(STRING)
  PROVE  IsPrefix(<<>>, b)
<1> DEFINE a == <<>>
<1>1. a \in Seq(STRING) /\ a \o b = b
  BY NothingBefore
<1> HIDE DEF a
<1>2. IsPrefix(a, b)
  BY <1>1, PrefixOfJoined
<1> QED BY <1>2 DEF a

LEMMA HgWorld ==
  ASSUME World(w), Protocol(w.url) = "hg"
  PROVE  w.pages[1] \in Seq(Entry) /\ TreeLike(w.pages[1]) /\ Len(w.pages) = 1 /\ w.subdir \in Seq(STRING)
<1>1. w.pages[1] \in Seq(Entry) /\ w.subdir \in Seq(STRING)
  BY WorldTypes
<1>2. TreeLike(w.pages[1]) /\ Len(w.pages) = 1
  BY WorldsAssumption DEF World, Listing
<1> QED BY <1>1, <1>2

LEMMA ClonedLaid ==
  ASSUME Typed, Placed, OutBudget, HgClone, pc' = "extract"
  PROVE  LaidBy(Arrives, DOMAIN Arrives)' /\ ~Unpacks'
<1>1. /\ pc = "request" /\ proto = "hg" /\ UNCHANGED <<w, proto>> /\ isFile' = FALSE
      /\ w.subdir = <<>> /\ tree' = Plant(tree, CloneDir, w.pages[1])
  BY DEF HgClone, Downloaded, Goto, Fail, Return, request
<1>2. World(w) /\ Protocol(w.url) = "hg" /\ tree = Fresh /\ CloneDir = Root
  BY <1>1 DEF Typed, Chosen, Placed, Unwritten, CloneDir
<1>3. ~Unpacks' /\ Subdirectory' = <<>>
  BY <1>1, <1>2, SourceBelow, PlaceSame DEF Unpacks
<1>4. PICK xs \in Seq(Entry) : xs = w.pages[1]
  BY <1>2, WorldTypes
<1>5. TreeLike(xs) /\ Len(w.pages) = 1
  BY <1>2, <1>4, HgWorld
<1>6. tree' = Plant(Fresh, Root, xs)
  BY <1>1, <1>2, <1>4
<1>7. /\ \A p \in Files(tree') : \E i \in DOMAIN xs : xs[i].kind = "file" /\ p = Root \o xs[i].name
      /\ \A i \in DOMAIN xs : xs[i].kind = "file" =>
           Root \o xs[i].name \in Files(tree') /\ tree'[Root \o xs[i].name] = File(xs[i], xs[i].len)
  BY <1>5, <1>6, RootAssumption, PlantedFiles
<1> DEFINE at == [i \in DOMAIN xs |-> Place(xs[i])']
           S == {i \in DOMAIN xs : xs[i].kind = "file"}
<1>8. ASSUME NEW i \in S PROVE at[i] = Root \o xs[i].name
  <2>1. Place(xs[i])' = Root \o SubSeq(xs[i].name, Len(<<>>) + 1, Len(xs[i].name))
    BY <1>1, <1>3, Zenon DEF Place
  <2>2. xs[i].name \in Seq(STRING)
    BY <1>5, TreeName
  <2>3. Len(<<>>) + 1 = 1
    OBVIOUS
  <2>4. SubSeq(xs[i].name, 1, Len(xs[i].name)) = xs[i].name
    BY <2>2, NothingJoined
  <2> QED BY <2>1, <2>3, <2>4
<1>9. \A i : i \in S <=> i \in DOMAIN xs /\ Wanted(xs[i])'
  <2>1. ASSUME NEW x PROVE Wanted(x)' <=> x.kind = "file" /\ IsStrictPrefix(<<>>, x.name)
    BY <1>1, <1>3 DEF Wanted
  <2>2. ASSUME NEW i \in S PROVE IsStrictPrefix(<<>>, xs[i].name)
    <3>1. xs[i].name \in Seq(STRING) /\ xs[i].name # <<>> /\ <<>> \in Seq(STRING)
      BY <1>5, TreeName
    <3>2. IsPrefix(<<>>, xs[i].name)
      BY <3>1, NothingFirst
    <3> QED BY <3>1, <3>2 DEF IsStrictPrefix
  <2> QED BY <2>1, <2>2
<1>10. Laid(tree', Root, xs, S, at)
  <2>1. \A i \in DOMAIN xs : IsPrefix(Root, Root \o xs[i].name)
    BY <1>5, TreeName, RootAssumption, PrefixOfJoined
  <2>2. {p \in Files(tree') : IsPrefix(Root, p)} = {Root \o xs[i].name : i \in S}
    BY <1>7, <2>1
  <2>3. {p \in Files(tree') : IsPrefix(Root, p)} = {at[i] : i \in S}
    BY <1>8, <2>2
  <2>4. \A i \in S : tree'[at[i]] = File(xs[i], xs[i].len)
    BY <1>7, <1>8
  <2> QED BY <2>3, <2>4 DEF Laid
<1>11. \A i \in DOMAIN xs : at[i] = Place(xs[i])'
  OBVIOUS
<1> HIDE DEF at, S
<1> QED BY <1>1, <1>2, <1>3, <1>4, <1>5, <1>9, <1>10, <1>11, PageLaid

-----------------------------------------------------------------------------
(***************************************************************************)
(* What a clone's subdirectory moves up.                                   *)
(***************************************************************************)
LEMMA SubSeqIs ==
  ASSUME NEW S, NEW s \in Seq(S), NEW m \in Nat \ {0}, NEW n \in Nat, n <= Len(s)
  PROVE  SubSeq(s, m, n) = [i \in 1..(n - m + 1) |-> s[m + i - 1]]
OBVIOUS

\* What follows a beginning of a path.
LEMMA RestOfJoined ==
  ASSUME NEW dir \in Seq(STRING), NEW name \in Seq(STRING), NEW n \in 0..Len(name)
  PROVE  SubSeq(dir \o name, Len(dir) + n + 1, Len(dir \o name)) = SubSeq(name, n + 1, Len(name))
<1> DEFINE q == dir \o name
           a == SubSeq(q, Len(dir) + n + 1, Len(q))
           b == SubSeq(name, n + 1, Len(name))
<1>1. /\ q \in Seq(STRING) /\ Len(q) = Len(dir) + Len(name) /\ Len(dir) \in Nat /\ Len(name) \in Nat /\ n \in Nat
      /\ \A i \in 1..Len(name) : q[Len(dir) + i] = name[i]
  OBVIOUS
<1> HIDE DEF q
<1>2. a = [i \in 1..(Len(q) - (Len(dir) + n + 1) + 1) |-> q[Len(dir) + n + 1 + i - 1]]
  BY <1>1, SubSeqIs
<1>3. b = [i \in 1..(Len(name) - (n + 1) + 1) |-> name[n + 1 + i - 1]]
  BY <1>1, SubSeqIs
<1>4. Len(q) - (Len(dir) + n + 1) + 1 = Len(name) - (n + 1) + 1
  BY <1>1
<1>5. ASSUME NEW i \in 1..(Len(name) - (n + 1) + 1)
      PROVE  q[Len(dir) + n + 1 + i - 1] = name[n + 1 + i - 1]
  <2>1. n + 1 + i - 1 \in 1..Len(name) /\ Len(dir) + (n + 1 + i - 1) = Len(dir) + n + 1 + i - 1
    BY <1>1
  <2> QED BY <1>1, <2>1
<1> HIDE DEF a, b
<1>6. a = b
  BY <1>2, <1>3, <1>4, <1>5
<1> QED BY <1>6 DEF a, b, q

\* A path is its beginning and the rest.
LEMMA PrefixAndRest ==
  ASSUME NEW p \in Seq(STRING), NEW q \in Seq(STRING), IsPrefix(p, q)
  PROVE  /\ SubSeq(q, Len(p) + 1, Len(q)) \in Seq(STRING)
         /\ Len(SubSeq(q, Len(p) + 1, Len(q))) = Len(q) - Len(p)
         /\ \A i \in 1..(Len(q) - Len(p)) : SubSeq(q, Len(p) + 1, Len(q))[i] = q[Len(p) + i]
<1>1. Len(p) <= Len(q) /\ Len(p) \in Nat /\ Len(q) \in Nat
  BY PrefixAt
<1> DEFINE r == SubSeq(q, Len(p) + 1, Len(q))
<1>2. r = [i \in 1..(Len(q) - (Len(p) + 1) + 1) |-> q[Len(p) + 1 + i - 1]]
  BY <1>1, SubSeqIs
<1>3. Len(q) - (Len(p) + 1) + 1 = Len(q) - Len(p) /\ Len(q) - Len(p) \in Nat
  BY <1>1
<1> HIDE DEF r
<1>4. \A i \in 1..(Len(q) - Len(p)) : r[i] = q[Len(p) + i] /\ q[Len(p) + i] \in STRING
  BY <1>1, <1>2, <1>3
<1>5. r \in Seq(STRING)
  BY <1>2, <1>3, <1>4
<1>6. Len(r) = Len(q) - Len(p)
  BY <1>2, <1>3, <1>5
<1> QED BY <1>4, <1>5, <1>6 DEF r

LEMMA RestInjective ==
  ASSUME NEW p \in Seq(STRING), NEW q \in Seq(STRING), IsPrefix(p, q), NEW r \in Seq(STRING), IsPrefix(p, r),
         SubSeq(q, Len(p) + 1, Len(q)) = SubSeq(r, Len(p) + 1, Len(r))
  PROVE  q = r
<1> DEFINE a == SubSeq(q, Len(p) + 1, Len(q))
           b == SubSeq(r, Len(p) + 1, Len(r))
<1>1. /\ Len(a) = Len(q) - Len(p) /\ \A i \in 1..(Len(q) - Len(p)) : a[i] = q[Len(p) + i]
      /\ Len(b) = Len(r) - Len(p) /\ \A i \in 1..(Len(r) - Len(p)) : b[i] = r[Len(p) + i]
  BY PrefixAndRest
<1>2. /\ Len(p) <= Len(q) /\ Len(p) <= Len(r) /\ \A i \in 1..Len(p) : p[i] = q[i] /\ p[i] = r[i]
  BY PrefixAt
<1>3. a = b /\ Len(p) \in Nat /\ Len(q) \in Nat /\ Len(r) \in Nat
  OBVIOUS
<1> HIDE DEF a, b
<1>4. Len(q) = Len(r)
  BY <1>1, <1>2, <1>3
<1>5. ASSUME NEW i \in 1..Len(q) PROVE q[i] = r[i]
  <2>1. CASE i <= Len(p)
    BY <2>1, <1>2, <1>3
  <2>2. CASE i > Len(p)
    <3>1. i - Len(p) \in 1..(Len(q) - Len(p)) /\ Len(p) + (i - Len(p)) = i
      BY <2>2, <1>3
    <3> QED BY <3>1, <1>1, <1>3, <1>4
  <2> QED BY <2>1, <2>2, <1>3
<1> QED BY <1>4, <1>5

\* The children of the subdirectory are moved.
LEMMA MovedLaid ==
  ASSUME Typed, Placed, OutBudget, Stages, HgMove, pc' = "extract", ~Astray
  PROVE  LaidBy(Arrives, DOMAIN Arrives)' /\ ~Unpacks'
<1> DEFINE src == srcDir
           moved == {q \in DOMAIN tree : IsStrictPrefix(src, q)}
           To(q) == Root \o SubSeq(q, Len(src) + 1, Len(q))
           old(p) == CHOOSE q \in moved : To(q) = p
<1>1. /\ pc = "move" /\ UNCHANGED <<w, proto>> /\ isFile' = FALSE
      /\ tree' = [p \in DOMAIN Fresh \cup {To(q) : q \in moved} |-> IF p \in DOMAIN Fresh THEN Dir ELSE tree[old(p)]]
  BY DEF HgMove, Downloaded, Goto, Fail, Return, request
<1>2. World(w) /\ proto = "hg" /\ Protocol(w.url) = "hg" /\ tree = Plant(Fresh, CloneDir, w.pages[1])
  BY <1>1 DEF Typed, Chosen, Stages
<1>3. ~Unpacks'
  BY <1>1 DEF Unpacks
<1>4. PICK xs \in Seq(Entry) : xs = w.pages[1]
  BY <1>2, WorldTypes
<1>5. TreeLike(xs) /\ Len(w.pages) = 1
  BY <1>2, <1>4, HgWorld
<1>s. PICK sub \in Seq(STRING) : sub = Subdirectory /\ src = CloneDir \o sub
  BY <1>2, SourceBelow
<1>6. CloneDir \in Seq(STRING) /\ src \in Seq(STRING) /\ IsPrefix(Root, CloneDir) /\ Root \in Seq(STRING)
  BY <1>2, <1>s, CloneDirBelow, PrefixOfJoined, RootAssumption
<1> HIDE DEF src
<1>7. /\ \A p \in Files(tree) : \E i \in DOMAIN xs : xs[i].kind = "file" /\ p = CloneDir \o xs[i].name
      /\ \A i \in DOMAIN xs : xs[i].kind = "file" =>
           CloneDir \o xs[i].name \in Files(tree) /\ tree[CloneDir \o xs[i].name] = File(xs[i], xs[i].len)
  BY <1>2, <1>4, <1>5, <1>6, PlantedFiles
<1>8. ASSUME NEW q \in moved
      PROVE  q \in Seq(STRING) /\ IsPrefix(src, q) /\ Len(q) > Len(src) /\ To(q) \in Seq(STRING)
             /\ Len(To(q)) = Len(Root) + Len(q) - Len(src) /\ IsPrefix(Root, To(q)) /\ To(q) \notin DOMAIN Fresh
  <2>1. q \in Seq(STRING) /\ IsPrefix(src, q) /\ q # src
    BY <1>1, PlacedWithin DEF Within, IsStrictPrefix
  <2>2. Len(src) <= Len(q) /\ Len(src) \in Nat /\ Len(q) \in Nat
    BY <2>1, <1>6, PrefixAt
  <2>3. Len(src) # Len(q)
    <3>1. IsPrefix(q, q)
      BY <2>1, PrefixAt
    <3> QED BY <3>1, <2>1, <1>6, PrefixesMeet
  <2>4. /\ SubSeq(q, Len(src) + 1, Len(q)) \in Seq(STRING)
        /\ Len(SubSeq(q, Len(src) + 1, Len(q))) = Len(q) - Len(src)
    BY <2>1, <1>6, PrefixAndRest
  <2> DEFINE r == SubSeq(q, Len(src) + 1, Len(q))
  <2>5. r \in Seq(STRING) /\ Len(r) = Len(q) - Len(src)
    BY <2>4
  <2> HIDE DEF r
  <2>6. Root \o r \in Seq(STRING) /\ IsPrefix(Root, Root \o r) /\ Len(Root \o r) = Len(Root) + Len(r)
    BY <2>5, <1>6, PrefixOfJoined, Cancel
  <2>7. Root \o r \notin DOMAIN Fresh
    <3> SUFFICES ASSUME Root \o r \in DOMAIN Fresh PROVE FALSE
      OBVIOUS
    <3>1. Root \o r = Root
      BY <2>6, FreshAbove
    <3>2. Len(Root) \in Nat
      BY <1>6
    <3> QED BY <3>1, <3>2, <2>2, <2>3, <2>5, <2>6
  <2>8. To(q) = Root \o r
    BY DEF r
  <2>9. Len(Root) \in Nat
    BY <1>6
  <2>10. Len(q) > Len(src)
    BY <2>2, <2>3
  <2>11. Len(To(q)) = Len(Root) + Len(q) - Len(src)
    <3>1. Len(To(q)) = Len(Root) + (Len(q) - Len(src))
      BY <2>5, <2>6, <2>8
    <3> QED BY <3>1, <2>2, <2>9
  <2> HIDE DEF To
  <2> QED BY <2>1, <2>6, <2>7, <2>8, <2>10, <2>11
<1>9. ASSUME NEW q \in moved, NEW r \in moved, To(q) = To(r)
      PROVE  q = r
  <2>1. /\ q \in Seq(STRING) /\ IsPrefix(src, q) /\ r \in Seq(STRING) /\ IsPrefix(src, r)
    BY <1>8
  <2>2. SubSeq(q, Len(src) + 1, Len(q)) \in Seq(STRING) /\ SubSeq(r, Len(src) + 1, Len(r)) \in Seq(STRING)
    BY <2>1, <1>6, PrefixAndRest
  <2>3. SubSeq(q, Len(src) + 1, Len(q)) = SubSeq(r, Len(src) + 1, Len(r))
    BY <2>2, <1>6, <1>9, JoinedSame
  <2> QED BY <2>1, <2>3, <1>6, RestInjective
<1>10. ASSUME NEW q \in moved PROVE To(q) \in DOMAIN tree' /\ tree'[To(q)] = tree[q]
  <2>1. old(To(q)) \in moved /\ To(old(To(q))) = To(q)
    <3>1. \E r : r \in moved /\ To(r) = To(q)
      OBVIOUS
    <3> QED BY <3>1, Zenon
  <2>2. old(To(q)) = q
    BY <2>1, <1>9
  <2> HIDE DEF To, old, moved
  <2>3. To(q) \notin DOMAIN Fresh
    BY <1>8
  <2>4. To(q) \in DOMAIN Fresh \cup {To(r) : r \in moved}
    OBVIOUS
  <2> QED BY <1>1, <2>2, <2>3, <2>4
<1>11. ASSUME NEW p \in Files(tree') PROVE \E q \in moved : p = To(q) /\ q \in Files(tree)
  <2>1. p \in DOMAIN tree' /\ tree'[p].kind = "file"
    BY DEF Files
  <2>2. p \notin DOMAIN Fresh
    <3> SUFFICES ASSUME p \in DOMAIN Fresh PROVE FALSE
      OBVIOUS
    <3>1. tree'[p] = Dir
      BY <1>1, <2>1
    <3> QED BY <2>1, <3>1, NodeKinds
  <2>3. PICK q \in moved : p = To(q)
    BY <1>1, <2>1, <2>2
  <2>4. tree[q].kind = "file" /\ q \in DOMAIN tree
    BY <2>1, <2>3, <1>10
  <2> QED BY <2>3, <2>4 DEF Files
<1> HIDE DEF old
<1> DEFINE at == [i \in DOMAIN xs |-> Place(xs[i])']
           S == {i \in DOMAIN xs : xs[i].kind = "file" /\ IsStrictPrefix(sub, xs[i].name)}
<1>12. ASSUME NEW i \in DOMAIN xs
       PROVE  /\ xs[i].name \in Seq(STRING) /\ CloneDir \o xs[i].name \in Seq(STRING)
              /\ IsStrictPrefix(src, CloneDir \o xs[i].name) <=> IsStrictPrefix(sub, xs[i].name)
  <2>1. xs[i].name \in Seq(STRING)
    BY <1>5, TreeName
  <2>2. IsPrefix(src, CloneDir \o xs[i].name) <=> IsPrefix(sub, xs[i].name)
    BY <2>1, <1>s, <1>6, JoinedPrefix
  <2>3. src = CloneDir \o xs[i].name <=> sub = xs[i].name
    BY <2>1, <1>s, <1>6, JoinedSame
  <2>4. CloneDir \o xs[i].name \in Seq(STRING)
    BY <2>1, <1>6, PrefixOfJoined
  <2> QED BY <2>1, <2>2, <2>3, <2>4 DEF IsStrictPrefix
<1>13. ASSUME NEW i \in S
       PROVE  CloneDir \o xs[i].name \in moved /\ To(CloneDir \o xs[i].name) = at[i]
  <2>1. CloneDir \o xs[i].name \in moved
    <3>1. CloneDir \o xs[i].name \in DOMAIN tree
      BY <1>7 DEF Files
    <3> QED BY <3>1, <1>12
  <2>2. at[i] = Root \o SubSeq(xs[i].name, Len(sub) + 1, Len(xs[i].name))
    <3>1. Place(xs[i])' = Root \o SubSeq(xs[i].name, Len(sub) + 1, Len(xs[i].name))
      <4>1. Place(xs[i])' = Root \o SubSeq(xs[i].name, Len(Subdirectory') + 1, Len(xs[i].name))
        BY <1>1, <1>2, <1>3, Zenon DEF Place
      <4> QED BY <4>1, <1>1, <1>s, PlaceSame
    <3> QED BY <3>1
  <2>3. Len(sub) \in 0..Len(xs[i].name)
    <3>1. IsPrefix(sub, xs[i].name) /\ xs[i].name \in Seq(STRING)
      BY <1>12 DEF IsStrictPrefix
    <3>2. Len(sub) <= Len(xs[i].name)
      BY <3>1, PrefixAt
    <3> QED BY <3>1, <3>2
  <2>4. Len(src) = Len(CloneDir) + Len(sub)
    BY <1>s, <1>6, Cancel
  <2>5. SubSeq(CloneDir \o xs[i].name, Len(CloneDir) + Len(sub) + 1, Len(CloneDir \o xs[i].name))
          = SubSeq(xs[i].name, Len(sub) + 1, Len(xs[i].name))
    BY <2>3, <1>6, <1>12, RestOfJoined
  <2> QED BY <2>1, <2>2, <2>4, <2>5
<1>14. \A i : i \in S <=> i \in DOMAIN xs /\ Wanted(xs[i])'
  <2>1. ASSUME NEW x PROVE Wanted(x)' <=> x.kind = "file" /\ IsStrictPrefix(sub, x.name)
    BY <1>1, <1>2, <1>3, <1>s, PlaceSame DEF Wanted
  <2> QED BY <2>1
<1>15. Laid(tree', Root, xs, S, at)
  <2>1. ASSUME NEW i \in S PROVE at[i] \in Files(tree') /\ IsPrefix(Root, at[i]) /\ tree'[at[i]] = File(xs[i], xs[i].len)
    <3> DEFINE q == CloneDir \o xs[i].name
    <3>1. q \in moved /\ To(q) = at[i] /\ q \in Files(tree) /\ tree[q] = File(xs[i], xs[i].len)
      BY <1>7, <1>13
    <3> HIDE DEF q, at, To, moved
    <3>2. at[i] \in DOMAIN tree' /\ tree'[at[i]] = tree[q] /\ IsPrefix(Root, at[i])
      BY <3>1, <1>8, <1>10
    <3> QED BY <3>1, <3>2 DEF Files
  <2>2. ASSUME NEW p \in Files(tree') PROVE \E i \in S : p = at[i]
    <3>1. PICK q \in moved : p = To(q) /\ q \in Files(tree)
      BY <1>11
    <3>2. PICK i \in DOMAIN xs : xs[i].kind = "file" /\ q = CloneDir \o xs[i].name
      BY <3>1, <1>7
    <3>3. i \in S
      BY <3>1, <3>2, <1>12
    <3> QED BY <3>1, <3>2, <3>3, <1>13
  <2> HIDE DEF S, at, moved, To
  <2> QED BY <2>1, <2>2 DEF Laid
<1>16. \A i \in DOMAIN xs : at[i] = Place(xs[i])'
  OBVIOUS
<1> HIDE DEF at, S
<1> QED BY <1>1, <1>2, <1>3, <1>4, <1>5, <1>14, <1>15, <1>16, PageLaid

LEMMA OutIsChild ==
  ASSUME NEW t, Out \in DOMAIN t
  PROVE  Out \in Children(t, Root)
<1>1. "_extracted" \in STRING
  BY OwnNamesAssumption DEF OwnNames
<1>2. Front(Out) = Root /\ Out # <<>> /\ Root \in Seq(STRING)
  BY <1>1, RootAssumption, FrontAppend DEF Out
<1>3. Out # Root
  <2>1. Len(Out) = Len(Root) + 1 /\ Len(Root) \in Nat
    BY <1>2, OutBelow
  <2> QED BY <2>1
<1> QED BY <1>2, <1>3 DEF Children

\* An extraction begins, or there is none.
LEMMA StartLaid ==
  ASSUME Typed, Stages, OneFound, ExtractWithLimit,
         ~Unpacks => LaidBy(Arrives, DOMAIN Arrives),
         Unpacks => (Out \notin DOMAIN tree => Clear(tree, Out))
  PROVE  /\ result' = "ok" => LaidBy(Arrives, DOMAIN Arrives)'
         /\ pc' \in {"tar", "zip"} => LaidBy(w.inner, Came(w.inner))'
<1>1. pc = "extract" /\ UNCHANGED <<w, proto, isFile, tree>> /\ result = "none"
  BY DEF ExtractWithLimit, Fail, Return, Goto, request, stream, Stages
<1>2. ASSUME result' = "ok" PROVE LaidBy(Arrives, DOMAIN Arrives)'
  <2>1. ~isFile \/ ~w.s.auto \/ extractors(Extension(w, proto)) = "plain"
    BY <1>1, <1>2 DEF ExtractWithLimit, Fail, Return, Goto
  <2>2. ~Unpacks
    BY <2>1 DEF Unpacks, IsArchive
  <2>3. LaidBy(Arrives, DOMAIN Arrives)
    BY <2>2
  <2>4. Laid(tree', Delivered, Arrives, DOMAIN Arrives \cap WantedOf(Arrives), Places(Arrives))
    BY <1>1, <2>3 DEF LaidBy
  <2> QED BY <1>1, <2>4, ArrivesSame
<1>3. ASSUME pc' \in {"tar", "zip"} PROVE LaidBy(w.inner, Came(w.inner))'
  <2>1. /\ isFile /\ w.s.auto /\ extractors(Extension(w, proto)) \in {"tar", "zip"}
        /\ Children(tree, Root) \subseteq Files(tree) /\ todo' = w.inner
    BY <1>1, <1>3 DEF ExtractWithLimit, Fail, Return, Goto
  <2>2. Unpacks /\ IsArchive(w, proto)
    BY <2>1 DEF Unpacks, IsArchive
  <2>3. Out \notin Files(tree)
    BY <1>1, <2>1, <2>2 DEF OneFound
  <2>4. Out \notin DOMAIN tree
    BY <2>1, <2>3, OutIsChild
  <2>5. Clear(tree, Out) /\ Delivered = Out
    BY <2>2, <2>4 DEF Delivered
  <2>6. Laid(tree', Delivered, w.inner, {} \cap WantedOf(w.inner), Places(w.inner))
    <3>1. Laid(tree, Out, w.inner, {}, Places(w.inner))
      BY <2>5, LaidNone
    <3>2. {} \cap WantedOf(w.inner) = {}
      OBVIOUS
    <3> QED BY <3>1, <3>2, <1>1, <2>5
  <2>7. 1..(Len(w.inner) - Len(todo')) = {}
    <3>1. w.inner \in Seq(Entry)
      BY WorldTypes DEF Typed, Chosen
    <3>2. Len(w.inner) - Len(todo') = 0
      BY <3>1, <2>1
    <3> QED BY <3>2
  <2> DEFINE S == {}
  <2>8. S = 1..(Len(w.inner) - Len(todo')) /\ Laid(tree', Delivered, w.inner, S \cap WantedOf(w.inner), Places(w.inner))
    BY <2>6, <2>7
  <2> HIDE DEF S
  <2> QED BY <1>1, <2>8, InnerSame
<1> QED BY <1>2, <1>3

LEMMA OutOnly ==
  ASSUME NEW t, Within(t), NEW p \in Children(t, Root), IsPrefix(Out, p)
  PROVE  p = Out
<1>1. p \in Seq(STRING) /\ Root \in Seq(STRING)
  BY RootAssumption DEF Within, Children
<1>2. Len(p) = Len(Root) + 1
  BY <1>1, ChildLength
<1>3. Len(Out) = Len(p) /\ Out \in Seq(STRING)
  BY <1>2, OutBelow
<1>4. IsPrefix(p, p)
  BY <1>1, PrefixAt
<1> QED BY <1>1, <1>3, <1>4, PrefixesMeet

\* The archive is removed.
LEMMA EndLaid ==
  ASSUME Typed, Placed, Stages, Extracted, LaidBy(w.inner, Came(w.inner))
  PROVE  LaidBy(Arrives, DOMAIN Arrives)'
<1> DEFINE gone == Children(tree, Root) \ {Out}
<1>1. /\ pc \in {"tar", "zip"} /\ todo = <<>> /\ UNCHANGED <<w, proto, isFile>> /\ tree' = Without(tree, gone)
  BY DEF Extracted, request
<1>2. Unpacks
  BY <1>1 DEF Unpacks, IsArchive, Stages, UnpacksAs
<1>3. Arrives = w.inner /\ Delivered = Out /\ w.inner \in Seq(Entry)
  BY <1>2, WorldTypes DEF Arrives, Delivered, Typed, Chosen
<1>4. Came(w.inner) = DOMAIN w.inner
  BY <1>1, <1>3, AllCame
<1>5. Laid(tree, Out, Arrives, DOMAIN Arrives \cap WantedOf(Arrives), Places(Arrives))
  BY <1>3, <1>4 DEF LaidBy
<1>6. \A p \in gone : ~IsPrefix(Out, p)
  BY <1>1, PlacedWithin, OutOnly
<1> HIDE DEF gone
<1>7. /\ {p \in Files(tree') : IsPrefix(Out, p)} = {p \in Files(tree) : IsPrefix(Out, p)}
      /\ \A p \in Files(tree) : IsPrefix(Out, p) => tree'[p] = tree[p]
  BY <1>1, <1>6 DEF Files, Without
<1>8. Laid(tree', Out, Arrives, DOMAIN Arrives \cap WantedOf(Arrives), Places(Arrives))
  BY <1>5, <1>7, LaidKept
<1>9. Laid(tree', Delivered, Arrives, DOMAIN Arrives \cap WantedOf(Arrives), Places(Arrives))
  BY <1>3, <1>8
<1> QED BY <1>1, <1>9, ArrivesSame

LEMMA WholeInit == Init => Whole
<1> SUFFICES ASSUME Init PROVE Whole
  OBVIOUS
<1>1. pc = "detect" /\ result = "none"
  BY DEF Init
<1> QED BY <1>1 DEF Whole

-----------------------------------------------------------------------------
(***************************************************************************)
(* The invariant of what is delivered.                                     *)
(***************************************************************************)
\* A listing or a walk begins.
LEMMA ListStart ==
  ASSUME Typed, Stages, OutBudget, Placed, RequestS3 \/ RequestGCS, pc' = "list"
  PROVE  LaidBy(PagesRead, Came(PagesRead))'
<1>1. pc = "request" /\ UNCHANGED <<w, proto, isFile, tree, page, todo>>
  BY DEF RequestS3, RequestGCS, Request, stream
<1>2. page = 0 /\ todo = <<>> /\ tree = Fresh /\ World(w)
  BY <1>1 DEF Stages, Typed, Chosen, Placed, Unwritten
<1>3. PagesRead = <<>> /\ PagesRead' = PagesRead
  BY <1>1, <1>2, NoPageRead DEF PagesRead
<1> DEFINE xs == PagesRead
           S == {}
<1>4. Laid(tree', Delivered, xs, S \cap WantedOf(xs), Places(xs))
  <2>1. Laid(Fresh, Delivered, xs, {}, Places(xs))
    BY FreshClear, LaidNone
  <2>2. {} \cap WantedOf(xs) = {}
    OBVIOUS
  <2> QED BY <2>1, <2>2, <1>1, <1>2
<1>5. S = 1..(Len(xs) - Len(todo'))
  BY <1>1, <1>2, <1>3
<1>6. xs = PagesRead'
  BY <1>3
<1> HIDE DEF xs, S
<1> QED BY <1>1, <1>4, <1>5, <1>6, ReadSame

LEMMA WalkStart ==
  ASSUME Typed, Placed, OpenLocal, pc' = "copy"
  PROVE  LaidBy(w.pages[1], Came(w.pages[1]))'
<1>1. pc = "request" /\ UNCHANGED <<w, proto, isFile, tree>> /\ todo' = w.pages[1]
  BY DEF OpenLocal, Save, Downloaded, Goto, Fail, Return, request
<1>2. tree = Fresh /\ w.pages[1] \in Seq(Entry)
  BY <1>1, WorldTypes DEF Placed, Unwritten, Typed, Chosen
<1> DEFINE xs == w.pages[1]
           S == {}
<1>3. Laid(tree', Delivered, xs, S \cap WantedOf(xs), Places(xs))
  <2>1. Laid(Fresh, Delivered, xs, {}, Places(xs))
    BY FreshClear, LaidNone
  <2>2. {} \cap WantedOf(xs) = {}
    OBVIOUS
  <2> QED BY <2>1, <2>2, <1>1, <1>2
<1>4. S = 1..(Len(w.pages[1]) - Len(todo'))
  <2>1. Len(w.pages[1]) - Len(todo') = 0
    BY <1>1, <1>2
  <2> QED BY <2>1
<1> HIDE DEF S
<1> QED BY <1>1, <1>3, <1>4, FirstSame

LEMMA WholeStep == Typed /\ Placed /\ OneFound /\ OutBudget /\ Stages /\ Whole /\ [Next]_vars => Whole'
<1> SUFFICES ASSUME Typed, Placed, OneFound, OutBudget, Stages, Whole, [Next]_vars PROVE Whole'
  OBVIOUS
<1> DEFINE guard == proto # "git" /\ w.at # "link" /\ w.s.maxBytes < MaxInt /\ ~Aside /\ ~Astray
           whole == LaidBy(Arrives, DOMAIN Arrives)'
<1>n. pc # "done" => result = "none"
  BY DEF Stages
<1>a. UNCHANGED <<w, proto>> => Aside' = Aside /\ Astray' = Astray
  BY PlaceSame
<1>q. ASSUME result' # "ok", pc' \notin {"list", "copy", "tar", "zip", "extract"} PROVE Whole'
  BY <1>q DEF Whole
<1>e. ASSUME UNCHANGED <<w, proto>>, result' # "ok", pc' = "extract",
             guard => (~Unpacks' => whole) /\ (Unpacks' => (Out \notin DOMAIN tree' => Clear(tree', Out)))
      PROVE  Whole'
  <2>1. Out' = Out
    BY DEF Out
  <2> QED BY <1>a, <1>e, <2>1 DEF Whole
<1>g. ASSUME UNCHANGED <<w, proto>> PROVE guard \/ Whole'
  BY <1>a, <1>g DEF Whole
<1>0. CASE UNCHANGED vars \/ Done
  <2>1. UNCHANGED <<w, proto, isFile>> /\ UNCHANGED <<pc, tree, todo, page, result>>
    <3>1. UNCHANGED vars
      BY <1>0 DEF Done
    <3> QED BY <3>1 DEF vars, stream, request
  <2>2. LaidBy(PagesRead, Came(PagesRead)) => LaidBy(PagesRead, Came(PagesRead))'
    <3>1. PagesRead' = PagesRead
      BY <2>1 DEF PagesRead
    <3> QED BY <2>1, <3>1, ReadSame DEF LaidBy, Came
  <2>3. LaidBy(w.pages[1], Came(w.pages[1])) => LaidBy(w.pages[1], Came(w.pages[1]))'
    BY <2>1, FirstSame DEF LaidBy, Came
  <2>4. LaidBy(w.inner, Came(w.inner)) => LaidBy(w.inner, Came(w.inner))'
    BY <2>1, InnerSame DEF LaidBy, Came
  <2>5. LaidBy(Arrives, DOMAIN Arrives) => LaidBy(Arrives, DOMAIN Arrives)'
    BY <2>1, ArrivesSame DEF LaidBy
  <2>6. Unpacks' = Unpacks /\ Out' = Out
    BY <2>1, JudgedSame DEF Out
  <2> QED BY <1>a, <2>1, <2>2, <2>3, <2>4, <2>5, <2>6 DEF Whole
<1>1. CASE Detect \/ InvalidKey \/ RequestHTTP \/ RequestOCI \/ Clone \/ fetchArchive
  <2>1. result' # "ok" /\ pc' \notin {"list", "copy", "tar", "zip", "extract"}
    BY <1>1, <1>n DEF Detect, InvalidKey, RequestHTTP, RequestOCI, Clone, fetchArchive, Request, Fail, Return, Goto
  <2> QED BY <2>1, <1>q
<1>2. CASE RequestS3 \/ RequestGCS
  <2>1. UNCHANGED <<w, proto>> /\ result' # "ok" /\ pc' \in {"list", "body", "done"}
    BY <1>2, <1>n DEF RequestS3, RequestGCS, Request, Return, Goto
  <2>2. pc' = "list" => LaidBy(PagesRead, Came(PagesRead))'
    BY <1>2, ListStart
  <2> QED BY <1>a, <2>1, <2>2 DEF Whole
<1>3. CASE Body
  <2>1. UNCHANGED <<w, proto>> /\ result' # "ok" /\ pc' \in {"extract", "done"}
    BY <1>3, <1>n DEF Body, Save, Downloaded, Fail, Return, Goto, request
  <2>2. CASE pc' = "extract"
    <3>1. guard => (~Unpacks' => whole) /\ (Unpacks' => Clear(tree', Out))
      BY <1>3, <2>2, BodyLaid
    <3> HIDE DEF whole, guard
    <3> QED BY <2>1, <2>2, <3>1, <1>e
  <2> QED BY <2>1, <2>2, <1>q
<1>4. CASE ListPage
  <2>1. UNCHANGED <<w, proto>> /\ result' # "ok" /\ pc' \in {"list", "extract", "done"} /\ pc = "list"
    BY <1>4, <1>n DEF ListPage, Downloaded, Fail, Return, Goto, request
  <2>2. guard => LaidBy(PagesRead, Came(PagesRead))
    BY <2>1 DEF Whole
  <2>3. CASE pc' = "list"
    <3>1. guard => LaidBy(PagesRead, Came(PagesRead))'
      BY <1>4, <2>2, <2>3, TurnLaid
    <3> QED BY <1>a, <2>1, <2>3, <3>1 DEF Whole
  <2>4. CASE pc' = "extract"
    <3>1. guard => (~Unpacks' => whole) /\ ~Unpacks'
      BY <1>4, <2>2, <2>4, ListedLaid
    <3> HIDE DEF whole, guard
    <3> QED BY <2>1, <2>4, <3>1, <1>e
  <2> QED BY <2>1, <2>3, <2>4, <1>q
<1>5. CASE GetObject
  <2>1. UNCHANGED <<w, proto>> /\ result' # "ok" /\ pc' \in {"list", "done"} /\ pc = "list"
    BY <1>5, <1>n DEF GetObject, Save, Skip, Advance, Fail, Return, request
  <2>2. pc' = "list" /\ guard => LaidBy(PagesRead, Came(PagesRead))'
    BY <1>5, <2>1, GetLaid DEF Whole
  <2> QED BY <1>a, <2>1, <2>2 DEF Whole
<1>6. CASE Pull
  <2>1. UNCHANGED <<w, proto>> /\ result' # "ok" /\ pc' \in {"extract", "done"}
    BY <1>6, <1>n DEF Pull, Downloaded, Fail, Return, Goto, request
  <2>2. CASE pc' = "extract"
    <3>1. guard => (~Unpacks' => whole) /\ (Unpacks' => (Out \notin DOMAIN tree' => Clear(tree', Out)))
      BY <1>6, <2>2, PulledLaid
    <3> HIDE DEF whole, guard
    <3> QED BY <2>1, <2>2, <3>1, <1>e
  <2> QED BY <2>1, <2>2, <1>q
<1>7. CASE OpenLocal
  <2>1. UNCHANGED <<w, proto>> /\ result' # "ok" /\ pc' \in {"copy", "extract", "done"}
    BY <1>7, <1>n DEF OpenLocal, Save, Downloaded, Fail, Return, Goto, request
  <2>2. CASE pc' = "copy"
    <3>1. LaidBy(w.pages[1], Came(w.pages[1]))'
      BY <1>7, <2>2, WalkStart
    <3> QED BY <1>a, <2>1, <2>2, <3>1 DEF Whole
  <2>3. CASE pc' = "extract"
    <3>1. guard => (~Unpacks' => whole) /\ (Unpacks' => Clear(tree', Out))
      BY <1>7, <2>3, LocalLaid
    <3> HIDE DEF whole, guard
    <3> QED BY <2>1, <2>3, <3>1, <1>e
  <2> QED BY <2>1, <2>2, <2>3, <1>q
<1>8. CASE copyDir
  <2>1. UNCHANGED <<w, proto>> /\ result' # "ok" /\ pc' \in {"copy", "done"} /\ pc = "copy"
    BY <1>8, <1>n DEF copyDir, Save, MakeDir, Advance, Fail, Return, request
  <2>2. pc' = "copy" /\ guard => LaidBy(w.pages[1], Came(w.pages[1]))'
    BY <1>8, <2>1, CopyLaid DEF Whole
  <2> QED BY <1>a, <2>1, <2>2 DEF Whole
<1>9. CASE CopyEnd
  <2>1. UNCHANGED <<w, proto>> /\ result' # "ok" /\ pc' = "extract" /\ pc = "copy"
    BY <1>9, <1>n DEF CopyEnd, Downloaded, Goto, request
  <2>2. guard => (~Unpacks' => whole) /\ ~Unpacks'
    BY <1>9, <2>1, CopiedLaid DEF Whole
  <2> HIDE DEF whole, guard
  <2> QED BY <2>1, <2>2, <1>e
<1>10. CASE HgClone
  <2>1. UNCHANGED <<w, proto>> /\ result' # "ok" /\ pc' \in {"move", "extract", "done"}
    BY <1>10, <1>n DEF HgClone, Downloaded, Fail, Return, Goto, request
  <2>2. CASE pc' = "extract"
    <3>1. guard => (~Unpacks' => whole) /\ ~Unpacks'
      BY <1>10, <2>2, ClonedLaid
    <3> HIDE DEF whole, guard
    <3> QED BY <2>1, <2>2, <3>1, <1>e
  <2> QED BY <2>1, <2>2, <1>q
<1>11. CASE HgMove
  <2>1. UNCHANGED <<w, proto>> /\ result' # "ok" /\ pc' \in {"extract", "done"}
    BY <1>11, <1>n DEF HgMove, Downloaded, Fail, Return, Goto, request
  <2>2. CASE pc' = "extract"
    <3>1. guard => (~Unpacks' => whole) /\ ~Unpacks'
      BY <1>11, <2>2, MovedLaid
    <3> HIDE DEF whole, guard
    <3> QED BY <2>1, <2>2, <3>1, <1>e
  <2> QED BY <2>1, <2>2, <1>q
<1>12. CASE extractArchive \/ ArchiveEnd
  <2>1. pc = "archived" /\ UNCHANGED <<w, proto>>
    BY <1>12 DEF extractArchive, ArchiveEnd, request
  <2>2. proto' = "git"
    BY <2>1 DEF Typed, Stream
  <2> QED BY <2>2 DEF Whole
<1>13. CASE ExtractWithLimit
  <2>1. UNCHANGED <<w, proto>> /\ pc = "extract" /\ pc' \in {"tar", "zip", "done"}
    BY <1>13 DEF ExtractWithLimit, Fail, Return, Goto, request
  <2>2. result' = "ok" => pc' = "done"
    BY <1>13, <1>n DEF ExtractWithLimit, Fail, Return, Goto
  <2>3. guard => /\ ~Unpacks => LaidBy(Arrives, DOMAIN Arrives)
                 /\ Unpacks => (Out \notin DOMAIN tree => Clear(tree, Out))
    BY <2>1 DEF Whole
  <2>4. guard => (result' = "ok" => whole) /\ (pc' \in {"tar", "zip"} => LaidBy(w.inner, Came(w.inner))')
    BY <1>13, <2>3, StartLaid
  <2> QED BY <1>a, <2>1, <2>2, <2>4 DEF Whole
<1>14. CASE untar \/ extractZip
  <2>1. UNCHANGED <<w, proto>> /\ result' # "ok" /\ (pc' = pc \/ pc' = "done") /\ pc \in {"tar", "zip"}
    BY <1>14, <1>n DEF untar, extractZip, Save, MakeDir, Skip, Spend, Advance, Fail, Return, request
  <2>2. pc' = pc /\ guard => LaidBy(w.inner, Came(w.inner))'
    BY <1>14, <2>1, UnpackLaid DEF Whole
  <2> QED BY <1>a, <2>1, <2>2 DEF Whole
<1>15. CASE Extracted
  <2>1. UNCHANGED <<w, proto>> /\ pc' = "done" /\ pc \in {"tar", "zip"}
    BY <1>15 DEF Extracted, Return, request
  <2>2. guard => whole
    BY <1>15, <2>1, EndLaid DEF Whole
  <2> QED BY <1>a, <2>1, <2>2 DEF Whole
<1> QED
  BY <1>0, <1>1, <1>2, <1>3, <1>4, <1>5, <1>6, <1>7, <1>8, <1>9, <1>10, <1>11, <1>12, <1>13, <1>14, <1>15 DEF Next

LEMMA WholeCorrect == Spec => [](Typed /\ Placed /\ OneFound /\ OutBudget /\ Stages /\ OneEntry /\ Whole)
<1>1. Typed /\ Placed /\ OneFound /\ OutBudget /\ Stages /\ OneEntry /\ Whole /\ [Next]_vars
      => Stages' /\ OneEntry' /\ Whole'
  BY StagesStep, OneEntryStep, WholeStep
<1>2. Init => Stages /\ OneEntry /\ Whole
  BY StagesInit, OneEntryInit, WholeInit
<1> QED BY <1>1, <1>2, OneFoundCorrect, BudgetCorrect, PTL DEF Spec

\* WholeOrRefused: whatever interleaving of pages, entries and failures a success comes
\* after, below what is delivered there is exactly one file for every place of an entry
\* that was wanted, and the last of several at one place is there with all its bytes
\* (downloadDir, untar, extractZip, copyDir, hg's move, cleanupOrasMetadata).
THEOREM WholeOrRefusedCorrect == Spec => []WholeOrRefused
<1>1. ASSUME Whole PROVE WholeOrRefused
  <2> SUFFICES ASSUME result = "ok", proto # "git", w.at # "link", w.s.maxBytes < MaxInt, ~Aside, ~Astray
               PROVE  /\ {p \in Files(tree) : IsPrefix(Delivered, p)} = {Place(Arrives[i]) : i \in WantedOf(Arrives)}
                      /\ \A i \in WantedOf(Arrives) :
                           (\A j \in WantedOf(Arrives) : j > i => Place(Arrives[j]) # Place(Arrives[i])) =>
                             tree[Place(Arrives[i])] = File(Arrives[i], Arrives[i].len)
    BY DEF WholeOrRefused
  <2> DEFINE xs == Arrives
  <2>1. LaidBy(xs, DOMAIN xs)
    BY <1>1 DEF Whole
  <2>2. DOMAIN xs \cap WantedOf(xs) = WantedOf(xs)
    BY DEF WantedOf
  <2>3. Laid(tree, Delivered, xs, WantedOf(xs), Places(xs))
    BY <2>1, <2>2 DEF LaidBy
  <2>4. \A i \in WantedOf(xs) : Places(xs)[i] = Place(xs[i])
    BY DEF Places, WantedOf
  <2> HIDE DEF xs
  <2>5. /\ {p \in Files(tree) : IsPrefix(Delivered, p)} = {Place(xs[i]) : i \in WantedOf(xs)}
        /\ \A i \in WantedOf(xs) :
             (\A j \in WantedOf(xs) : j > i => Place(xs[j]) # Place(xs[i])) =>
               tree[Place(xs[i])] = File(xs[i], xs[i].len)
    BY <2>3, <2>4 DEF Laid
  <2> QED BY <2>5 DEF xs
<1> QED BY <1>1, WholeCorrect, PTL

-----------------------------------------------------------------------------
(***************************************************************************)
(* What a call is refused for.                                             *)
(***************************************************************************)
\* Entries that become something other than a directory, and those that become one.
Nondirs(xs) == {i \in DOMAIN xs : xs[i].kind # "dir"}
Dirs(xs) == {i \in DOMAIN xs : xs[i].kind = "dir"}

\* The paths of entries below a directory.
Belows(dir, xs) == [i \in DOMAIN xs |-> Below(dir, xs[i])]

\* What is below dir comes from the entries that came.
ExplainedBy(dir, xs, dirs) ==
  Explained(tree, dir, Came(xs) \cap Nondirs(xs), Came(xs) \cap dirs, Belows(dir, xs))

\* What the entries in S leave of the limit; nothing is used of a limit of MaxInt.
Unused(xs, S) ==
  IF w.s.maxBytes = MaxInt THEN MaxInt ELSE w.s.maxBytes - Cardinality(BytesOf(xs, S))
Spent(xs, S) == limited => left = Unused(xs, S)

\* The same of a platform's archive, whose entries lose their first segment.
Spots(xs) == [i \in DOMAIN xs |-> Spot(xs[i])]
Members(xs) == {i \in DOMAIN xs : xs[i].kind # "pax"}
ArchiveRead(xs) ==
  /\ Explained(tree, Root, Came(xs) \cap (Nondirs(xs) \cap Members(xs)), Came(xs) \cap Dirs(xs), Spots(xs))
  /\ Spent(xs, Came(xs) \cap Selected)
  /\ \A i \in Came(xs) \cap Members(xs) :
       ~containsDotDot(xs[i].name) /\ (w.subdir # <<>> /\ ~found => ~IsPrefix(w.subdir, Tail(xs[i].name)))

\* The causes that RefusedForCause names.
Cause ==
  \/ Unsupported \/ NoSubdir \/ TooLarge \/ Misplaced
  \/ isFile /\ extractors(Extension(w, proto)) = "single"
  \/ proto = "oci" /\ isFile /\ (w.media # "manifest" \/ w.pages[1] = <<>> \/ Only.name \in OrasNames)

\* A file that is unpacked next has the staging directory for itself, but perhaps for
\* the directory it is unpacked to.
Ready(t) == IsDir(t, Root) /\ (Out \in DOMAIN t \/ \A p \in DOMAIN t : ~IsPrefix(Out, p))

\* An extraction has written and used up what the entries that came account for.
UnpackInv ==
  /\ IsDir(tree, Root)
  /\ ExplainedBy(Out, w.inner, Dirs(w.inner))
  /\ Spent(w.inner, Came(w.inner) \cap WantedOf(w.inner))

\* What there is by now in the way of the next entry comes from entries before it, so
\* that a step that is refused shows a cause.
Reasons ==
  /\ pc = "list" => ExplainedBy(Root, PagesRead, {})
  /\ pc = "copy" => ExplainedBy(Root, w.pages[1], Dirs(w.pages[1]))
  /\ pc = "archived" => ArchiveRead(w.pages[1])
  /\ pc = "extract" /\ isFile => Ready(tree)
  /\ pc \in {"tar", "zip"} => UnpackInv
  /\ result = "err" /\ faults = 0 => Cause

LEMMA OpenRoot ==
  ASSUME NEW t, Within(t)
  PROVE  Open(t, Root)
<1> SUFFICES ASSUME NEW q \in DOMAIN t, IsPrefix(q, Root), q # Root PROVE t[q] = Dir
  BY DEF Open
<1>1. q \in Prefixes(Root)
  BY RootAssumption, PrefixIn DEF Within
<1> QED BY <1>1 DEF Within, Fresh

LEMMA OpenOut ==
  ASSUME NEW t, Within(t), IsDir(t, Root)
  PROVE  Open(t, Out)
<1> SUFFICES ASSUME NEW q \in DOMAIN t, IsPrefix(q, Out), q # Out PROVE t[q] = Dir
  BY DEF Open
<1>1. q \in Seq(STRING) /\ Root \in Seq(STRING) /\ Out \in Seq(STRING) /\ IsPrefix(Root, Out)
  BY RootAssumption, OutBelow DEF Within
<1>2. Len(q) <= Len(Root)
  <2>1. Len(q) <= Len(Out) /\ Len(Out) = Len(Root) + 1 /\ Len(q) \in Nat /\ Len(Root) \in Nat
    BY <1>1, PrefixAt, OutBelow
  <2>2. Len(q) # Len(Out)
    <3>1. IsPrefix(Out, Out)
      BY <1>1, PrefixAt
    <3> QED BY <1>1, <3>1, PrefixesMeet
  <2> QED BY <2>1, <2>2
<1>3. IsPrefix(q, Root)
  BY <1>1, <1>2, PrefixesMeet
<1>4. CASE q = Root
  BY <1>4 DEF IsDir
<1>5. CASE q # Root
  BY <1>3, <1>5, OpenRoot DEF Open
<1> QED BY <1>4, <1>5

LEMMA CauseSame ==
  ASSUME UNCHANGED <<w, proto, isFile>>
  PROVE  Cause' = Cause
<1>1. Unpacks' = Unpacks /\ Arrives' = Arrives /\ Only' = Only /\ limited' = limited
  BY JudgedSame DEF Only, limited
<1>p. UNCHANGED <<FilePlace, Aside, Subdirectory, Astray>>
  BY PlaceSame
<1>2. Unsupported' = Unsupported
  BY DEF Unsupported, Repo, checkAllowed, resolvePath
<1>3. NoSubdir' = NoSubdir
  BY <1>p DEF NoSubdir, Commit
<1>4. TooLarge' = TooLarge
  BY <1>1, <1>p DEF TooLarge, Selected, ByGit, Commit, WantedOf, Wanted, Unpacks, IsArchive, Arrives, limited
<1>5. Misplaced' = Misplaced
  BY <1>1, <1>p DEF Misplaced, Unpacks, IsArchive, Arrives, Out
<1> QED BY <1>1, <1>2, <1>3, <1>4, <1>5 DEF Cause, Only

\* One more entry came.
LEMMA ExplainedNext ==
  ASSUME NEW xs \in Seq(Entry), Rest(todo, xs), todo # <<>>, NEW N, NEW M, NEW dir, NEW at,
         Explained(tree, dir, Came(xs) \cap N, Came(xs) \cap M, at),
         NEW k, k = Len(xs) - Len(todo) + 1,
         \/ tree' = tree
         \/ at[k] \in Seq(STRING) /\ k \in M /\ tree' = MkdirAll(tree, at[k])
         \/ at[k] \in Seq(STRING) /\ at[k] # <<>> /\ k \in N /\ \E node : node # Dir /\ tree' = Create(tree, at[k], node)
  PROVE  LET S == 1..(Len(xs) - Len(Tail(todo))) IN Explained(tree', dir, S \cap N, S \cap M, at)
<1> DEFINE S == 1..(Len(xs) - Len(Tail(todo)))
           A == Came(xs) \cap N
           B == Came(xs) \cap M
<1>1. k \in 1..Len(xs) /\ Len(Tail(todo)) = Len(todo) - 1 /\ Len(xs) \in Nat /\ Len(todo) \in Nat
  BY RestTail DEF Rest
<1>2. S = Came(xs) \cup {k} /\ k \in S
  <2>1. S = 1..k /\ Came(xs) = 1..(k - 1) /\ k \in Nat
    BY <1>1 DEF Came
  <2>2. 1..k = 1..(k - 1) \cup {k}
    BY <1>1, <2>1
  <2> QED BY <2>1, <2>2
<1>3. A \subseteq S \cap N /\ B \subseteq S \cap M
  BY <1>2
<1>4. (k \in N => A \cup {k} \subseteq S \cap N) /\ (k \in M => B \cup {k} \subseteq S \cap M)
  BY <1>2
<1> HIDE DEF S, A, B
<1>5. Explained(tree, dir, A, B, at)
  BY DEF A, B
<1>6. Explained(tree', dir, S \cap N, S \cap M, at)
  <2>1. CASE tree' = tree
    BY <1>3, <1>5, <2>1, ExplainedMore
  <2>2. CASE at[k] \in Seq(STRING) /\ k \in M /\ tree' = MkdirAll(tree, at[k])
    <3>1. Explained(tree', dir, A, B \cup {k}, at)
      BY <1>5, <2>2, ExplainedMkdirAll
    <3> QED BY <1>3, <1>4, <2>2, <3>1, ExplainedMore
  <2>3. CASE at[k] \in Seq(STRING) /\ at[k] # <<>> /\ k \in N /\ \E node : node # Dir /\ tree' = Create(tree, at[k], node)
    <3>1. PICK node : node # Dir /\ tree' = Create(tree, at[k], node)
      BY <2>3
    <3>2. Explained(Create(tree, at[k], node), dir, A \cup {k}, B, at)
      BY <1>5, <2>3, <3>1, ExplainedCreate
    <3> QED BY <1>3, <1>4, <2>3, <3>1, <3>2, ExplainedMore
  <2> QED BY <2>1, <2>2, <2>3
<1> QED BY <1>6 DEF S

-----------------------------------------------------------------------------
(***************************************************************************)
(* Why a staging directory refuses a file, a directory or a link.          *)
(***************************************************************************)
LEMMA WholeRemainder == ASSUME NEW a \in Nat \ {0} PROVE a % a = 0
OBVIOUS

\* One more than the largest integer is negative.
LEMMA WrapOver == Wrap(MaxInt + 1) <= 0
<1> DEFINE a == 2 * (MaxInt + 1)
<1>1. a \in Nat \ {0} /\ MaxInt \in Nat
  BY MaxIntAssumption
<1>2. MaxInt + 1 + MaxInt + 1 = a
  BY <1>1
<1> HIDE DEF a
<1>3. a % a = 0
  BY <1>1, WholeRemainder
<1>4. Wrap(MaxInt + 1) = 0 - (MaxInt + 1)
  BY <1>2, <1>3 DEF Wrap, a
<1> QED BY <1>1, <1>4

LEMMA WriteFails ==
  ASSUME NEW len \in Nat, NEW remaining \in 0..MaxInt
  PROVE  /\ ~writeFile(len, TRUE, remaining).ok => len > remaining /\ remaining < MaxInt
         /\ remaining = MaxInt => writeFile(len, TRUE, remaining).n = 0
<1>1. MaxInt \in Nat
  BY MaxIntAssumption
<1>2. CASE remaining = MaxInt
  <2>1. LimitReader(len, Wrap(remaining + 1)) = 0
    BY <1>2, WrapOver DEF LimitReader
  <2>2. writeFile(len, TRUE, remaining).ok = (0 <= remaining)
    BY <2>1 DEF writeFile
  <2>3. writeFile(len, TRUE, remaining).n = 0
    BY <2>1 DEF writeFile
  <2>4. 0 <= remaining
    OBVIOUS
  <2> QED BY <2>2, <2>3, <2>4
<1>3. CASE remaining # MaxInt
  <2>1. remaining \in 0..(MaxInt - 1)
    BY <1>1, <1>3
  <2>2. writeFile(len, TRUE, remaining).ok <=> len <= remaining
    BY <2>1, CopyExact
  <2>3. ~(len <= remaining) => len > remaining
    BY <2>1
  <2>4. remaining < MaxInt
    BY <1>1, <1>3
  <2> QED BY <2>2, <2>3, <2>4, <1>3
<1> QED BY <1>2, <1>3

LEMMA CopyFails ==
  ASSUME NEW len \in Nat, NEW max \in 0..MaxInt, ~Copy(len, max).ok
  PROVE  max > 0 /\ len > max
<1>1. CASE max <= 0
  BY <1>1 DEF Copy
<1>2. CASE max > 0
  <2>1. Copy(len, max) = writeFile(len, TRUE, max)
    BY <1>2 DEF Copy, writeFile
  <2> QED BY <2>1, <1>2, WriteFails
<1> QED BY <1>1, <1>2, MaxIntAssumption

LEMMA BelowType ==
  ASSUME NEW dir \in Seq(STRING), NEW xs \in Seq(Entry), NEW i \in DOMAIN xs
  PROVE  /\ xs[i] \in Entry /\ xs[i].name \in Seq(STRING) /\ Below(dir, xs[i]) \in Seq(STRING)
         /\ Belows(dir, xs)[i] = Below(dir, xs[i])
<1>1. xs[i] \in Entry
  OBVIOUS
<1>2. xs[i].name \in Seq(STRING)
  BY <1>1 DEF Entry
<1>3. dir \o xs[i].name \in Seq(STRING)
  BY <1>2, PrefixOfJoined
<1>4. Below(dir, xs[i]) \in Seq(STRING)
  BY <1>3, CleanType DEF Below
<1> QED BY <1>1, <1>2, <1>4 DEF Belows

\* What is in the way of an entry is bad.
LEMMA BlockedFile ==
  ASSUME NEW dir \in Seq(STRING), dir # <<>>, NEW xs \in Seq(Entry), NEW k \in DOMAIN xs,
         NEW S, NEW D, S \subseteq Nondirs(xs), D \subseteq Dirs(xs), NEW t,
         Explained(t, dir, S, D, Belows(dir, xs)), Open(t, dir), xs[k].kind # "dir",
         ~IsPrefix(dir, Below(dir, xs[k])) \/ ~CanCreate(t, Below(dir, xs[k])),
         NEW all, \A i \in S \cup D \cup {k} : xs[i] \in all
  PROVE  Bad(dir, all)
<1> DEFINE at == Belows(dir, xs)
           p == Below(dir, xs[k])
<1>1. \A i \in DOMAIN xs : at[i] = Below(dir, xs[i]) /\ at[i] \in Seq(STRING)
  BY BelowType
<1>2. p = at[k] /\ p \in Seq(STRING) /\ xs[k] \in all
  BY <1>1
<1>3. S \subseteq DOMAIN xs /\ D \subseteq DOMAIN xs
  BY DEF Nondirs, Dirs
<1> HIDE DEF at, p
<1>4. CASE ~IsPrefix(dir, p) \/ p = dir
  BY <1>2, <1>4 DEF Bad, p
<1>5. CASE IsPrefix(dir, p) /\ p # dir
  <2>1. ~CanCreate(t, p)
    BY <1>5 DEF p
  <2>2. \/ \E i \in S : (IsPrefix(at[i], p) /\ at[i] # p) \/ (IsPrefix(p, at[i]) /\ p # at[i])
        \/ \E i \in D : IsPrefix(p, at[i])
    BY <1>2, <1>5, <2>1, CreateBlocked DEF at
  <2>3. CASE \E i \in S : (IsPrefix(at[i], p) /\ at[i] # p) \/ (IsPrefix(p, at[i]) /\ p # at[i])
    <3>1. PICK i \in S : (IsPrefix(at[i], p) /\ at[i] # p) \/ (IsPrefix(p, at[i]) /\ p # at[i])
      BY <2>3
    <3>2. xs[i].kind # "dir" /\ at[i] = Below(dir, xs[i]) /\ xs[i] \in all
      BY <1>1, <1>3 DEF Nondirs
    <3>3. Clash(dir, xs[i], xs[k]) \/ Clash(dir, xs[k], xs[i])
      BY <3>1, <3>2 DEF Clash, p
    <3> QED BY <3>2, <3>3, <1>2 DEF Bad
  <2>4. CASE \E i \in D : IsPrefix(p, at[i])
    <3>1. PICK i \in D : IsPrefix(p, at[i])
      BY <2>4
    <3>2. xs[i].kind = "dir" /\ at[i] = Below(dir, xs[i]) /\ xs[i] \in all
      BY <1>1, <1>3 DEF Dirs
    <3>3. Clash(dir, xs[k], xs[i])
      BY <3>1, <3>2 DEF Clash, p
    <3> QED BY <3>2, <3>3, <1>2 DEF Bad
  <2> QED BY <2>2, <2>3, <2>4
<1> QED BY <1>4, <1>5

LEMMA BlockedDir ==
  ASSUME NEW dir \in Seq(STRING), NEW xs \in Seq(Entry), NEW k \in DOMAIN xs,
         NEW S, NEW D, S \subseteq Nondirs(xs), NEW t,
         Explained(t, dir, S, D, Belows(dir, xs)), Open(t, dir), xs[k].kind = "dir",
         ~IsPrefix(dir, Below(dir, xs[k])) \/ ~CanMkdirAll(t, Below(dir, xs[k])),
         NEW all, \A i \in S \cup {k} : xs[i] \in all
  PROVE  Bad(dir, all)
<1> DEFINE at == Belows(dir, xs)
           p == Below(dir, xs[k])
<1>1. \A i \in DOMAIN xs : at[i] = Below(dir, xs[i]) /\ at[i] \in Seq(STRING)
  BY BelowType
<1>2. p = at[k] /\ p \in Seq(STRING) /\ xs[k] \in all
  BY <1>1
<1> HIDE DEF at, p
<1>3. CASE ~IsPrefix(dir, p)
  BY <1>2, <1>3 DEF Bad, p
<1>4. CASE IsPrefix(dir, p)
  <2>1. ~CanMkdirAll(t, p)
    BY <1>4 DEF p
  <2>2. PICK i \in S : IsPrefix(at[i], p)
    BY <1>2, <1>4, <2>1, MkdirAllBlocked DEF at
  <2>3. xs[i].kind # "dir" /\ at[i] = Below(dir, xs[i]) /\ xs[i] \in all
    BY <1>1 DEF Nondirs
  <2>4. Clash(dir, xs[i], xs[k])
    BY <2>2, <2>3 DEF Clash, p
  <2> QED BY <1>2, <2>3, <2>4 DEF Bad
<1> QED BY <1>3, <1>4

-----------------------------------------------------------------------------
(***************************************************************************)
(* A listing is refused for what it lists.                                 *)
(***************************************************************************)
LEMMA ReadSoFar ==
  ASSUME NEW pages \in Seq(Seq(Entry)), pages # <<>>, NEW n \in 0..Len(pages)
  PROVE  ToSet(FlattenSeq(SubSeq(pages, 1, n))) \subseteq ToSet(FlattenSeq(pages))
<1> DEFINE Read(m) == FlattenSeq(SubSeq(pages, 1, m))
           S == {m \in Nat : n + m <= Len(pages) => ToSet(Read(n)) \subseteq ToSet(Read(n + m))}
<1>1. n \in Nat /\ Len(pages) \in Nat
  OBVIOUS
<1>2. 0 \in S
  BY <1>1
<1>3. ASSUME NEW m \in Nat, m \in S PROVE m + 1 \in S
  <2> SUFFICES ASSUME n + (m + 1) <= Len(pages) PROVE ToSet(Read(n)) \subseteq ToSet(Read(n + (m + 1)))
    BY <1>1
  <2>1. n + m <= Len(pages) /\ n + m < Len(pages) /\ n + m \in Nat /\ n + (m + 1) = n + m + 1
    BY <1>1
  <2>2. ToSet(Read(n)) \subseteq ToSet(Read(n + m))
    BY <1>3, <2>1
  <2>3. /\ Read(n + m) \in Seq(Entry) /\ Read(n + m + 1) \in Seq(Entry)
        /\ Len(Read(n + m + 1)) - Len(pages[n + m + 1]) = Len(Read(n + m))
        /\ \A i \in 1..Len(Read(n + m)) : Read(n + m + 1)[i] = Read(n + m)[i]
    BY <2>1, PageMore
  <2>4. Len(pages[n + m + 1]) \in Nat
    BY <2>1
  <2> HIDE DEF Read
  <2>5. PICK a \in Seq(Entry), b \in Seq(Entry), l \in Nat :
          a = Read(n + m) /\ b = Read(n + m + 1) /\ Len(b) - l = Len(a) /\ \A i \in 1..Len(a) : b[i] = a[i]
    BY <2>3, <2>4
  <2>6. ToSet(Read(n + m)) \subseteq ToSet(Read(n + m + 1))
    <3>1. DOMAIN a = 1..Len(a) /\ DOMAIN b = 1..Len(b) /\ Len(a) \in Nat /\ Len(b) \in Nat
      OBVIOUS
    <3>2. Len(a) <= Len(b)
      BY <2>5, <3>1
    <3>4. \A i \in DOMAIN a : i \in DOMAIN b /\ b[i] = a[i]
      BY <2>5, <3>1, <3>2
    <3>3. ToSet(a) \subseteq ToSet(b)
      BY <3>4 DEF ToSet
    <3> QED BY <2>5, <3>3
  <2> QED BY <2>1, <2>2, <2>6
<1> HIDE DEF S
<1>4. \A m \in Nat : m \in S
  BY <1>2, <1>3, SetInduction
<1>5. Len(pages) - n \in Nat /\ n + (Len(pages) - n) = Len(pages)
  BY <1>1
<1> HIDE DEF Read
<1>6. ToSet(Read(n)) \subseteq ToSet(Read(Len(pages)))
  <2>1. PICK m \in Nat : m = Len(pages) - n /\ n + m = Len(pages)
    BY <1>5
  <2>2. n + m <= Len(pages) => ToSet(Read(n)) \subseteq ToSet(Read(n + m))
    BY <1>4 DEF S
  <2> QED BY <1>1, <2>1, <2>2
<1>7. SubSeq(pages, 1, Len(pages)) = pages
  OBVIOUS
<1> QED BY <1>6, <1>7 DEF Read

LEMMA ListedSame ==
  ASSUME UNCHANGED w, NEW xs, xs = PagesRead', NEW S, S = 1..(Len(xs) - Len(todo')),
         Explained(tree', Root, S \cap Nondirs(xs), {}, Belows(Root, xs))
  PROVE  ExplainedBy(Root, PagesRead, {})'
<1>1. xs = FlattenSeq(SubSeq(w'.pages, 1, page'))
  BY DEF PagesRead
<1>2. Explained(tree', Root, S \cap Nondirs(xs), S \cap {}, Belows(Root, xs))
  <2>1. S \cap {} = {}
    OBVIOUS
  <2> QED BY <2>1
<1> QED BY <1>1, <1>2 DEF ExplainedBy, Came, Nondirs, Belows, Below, PagesRead

LEMMA GetReason ==
  ASSUME Typed, Placed, OutBudget, Stages, GetObject, ExplainedBy(Root, PagesRead, {})
  PROVE  /\ pc' = "list" => ExplainedBy(Root, PagesRead, {})'
         /\ pc' = "done" /\ faults' = 0 => Cause
<1> DEFINE p == Join(Root, e.name)
           copy == Copy(e.len, w.s.maxBytes)
           below == Clean(Root \o e.name)
<1>1. pc = "list" /\ todo # <<>> /\ UNCHANGED <<w, proto, page>>
  BY DEF GetObject, Save, Skip, Advance, Fail, Return, request, stream
<1>2. isFile = FALSE /\ ~Unpacks /\ proto \in {"s3", "gcs"} /\ Rest(todo, PagesRead) /\ Listing(w.url, proto)
  BY <1>1, NotUnpacked DEF Extracting, Stages
<1>3. e.kind \in {"file", "dir"} /\ e \in Entry /\ e.len \in Nat /\ e.name \in Seq(STRING)
  <2>1. todo \in Seq(Entry) /\ Marked(todo)
    BY <1>1 DEF Typed, Stream, Stages
  <2> QED BY <1>1, <2>1, MarkedTail, EntryHead DEF e
<1>4. World(w) /\ page \in 0..Len(w.pages) /\ w.s.maxBytes \in 0..MaxInt /\ faults \in Nat
  <2>1. World(w) /\ page \in 0..Len(w.pages) /\ faults \in 0..MaxFaults
    BY DEF Typed, Chosen, Stream, Control
  <2>2. w.s.maxBytes \in 0..MaxInt
    BY <2>1, WorldTypes DEF Settings
  <2> QED BY <2>1, <2>2, MaxFaultsAssumption
<1>5. PICK xs \in Seq(Entry) : xs = PagesRead
  BY <1>4, ReadType
<1>6. xs = PagesRead' /\ Rest(todo, xs)
  BY <1>1, <1>2, <1>5 DEF PagesRead
<1>7. PICK k \in DOMAIN xs : k = Len(xs) - Len(todo) + 1 /\ e = xs[k]
  <2>1. Len(xs) - Len(todo) + 1 \in 1..Len(xs) /\ e = xs[Len(xs) - Len(todo) + 1]
    BY <1>1, <1>6, RestTail DEF e
  <2> QED BY <2>1
<1>8. ASSUME NEW x \in ToSet(xs) PROVE x \in ToSet(Arrives)
  <2>1. w.pages \in Seq(Seq(Entry)) /\ w.pages # <<>>
    BY <1>4, WorldTypes
  <2>2. Arrives = FlattenSeq(w.pages)
    BY <1>2 DEF Arrives
  <2> QED BY <2>1, <2>2, <1>4, <1>5, ReadSoFar DEF PagesRead
<1>9. Belows(Root, xs)[k] = below /\ below \in Seq(STRING)
  BY <1>7, RootAssumption, BelowType DEF Below
<1> HIDE DEF copy
<1>10. \/ e.kind = "dir" /\ tree' = tree /\ todo' = Tail(todo) /\ pc' = "list"
       \/ e.kind = "file" /\ p # Escapes /\ CanCreate(tree, p) /\ pc' = "list" /\ todo' = Tail(todo)
            /\ \E node : node # Dir /\ tree' = Create(tree, p, node)
       \/ pc' = "done" /\ e.kind = "file" /\ (p = Escapes \/ ~CanCreate(tree, p))
       \/ pc' = "done" /\ e.kind = "file" /\ ~copy.ok
       \/ pc' = "done" /\ faults' = faults + 1
  <2>1. CASE e.kind = "dir"
    BY <2>1, <1>1 DEF GetObject, Skip, Advance
  <2>2. CASE e.kind = "file" /\ p = Escapes
    BY <2>2, <1>1 DEF GetObject, Fail, Return
  <2>3. CASE e.kind = "file" /\ p # Escapes
    <3>1. Save(e, p, copy, Advance /\ UNCHANGED <<left, found>>)
      BY <2>3 DEF GetObject, copy
    <3>2. CASE ~CanCreate(tree, p)
      BY <2>3, <3>1, <3>2 DEF Save, Fail, Return
    <3>3. CASE CanCreate(tree, p) /\ Faulty /\ Fail
      BY <3>3 DEF Faulty, Fail, Return
    <3>4. CASE CanCreate(tree, p) /\ ~copy.ok
      BY <3>1, <3>4, <2>3 DEF Save, Fail, Return, Faulty
    <3>5. CASE CanCreate(tree, p) /\ copy.ok /\ ~(Faulty /\ Fail)
      <4>1. tree' = Create(tree, p, File(e, copy.n)) /\ todo' = Tail(todo) /\ pc' = pc
        BY <3>1, <3>5 DEF Save, Advance
      <4>2. File(e, copy.n) # Dir
        BY NodeKinds, Zenon DEF File, Dir
      <4> QED BY <4>1, <4>2, <3>5, <2>3, <1>1
    <3> QED BY <3>2, <3>3, <3>4, <3>5
  <2> QED BY <1>3, <2>1, <2>2, <2>3
<1>11. Bad(Root, {x \in ToSet(Arrives) : x.kind # "dir" \/ proto = "git"}) => Cause
  <2>1. ~OneFile(w, proto)
    BY <1>2 DEF OneFile
  <2> QED BY <2>1, <1>2 DEF Cause, Misplaced
<1>12. p # Escapes => p = below /\ IsPrefix(Root, below)
  BY DEF Join, Escapes
<1>13. p = Escapes => ~IsPrefix(Root, below)
  <2>1. IsPrefix(Root, below) => below # <<>>
    BY <1>9, RootAssumption, PrefixAt
  <2> QED BY <2>1 DEF Join, Escapes
<1>14. Explained(tree, Root, Came(xs) \cap Nondirs(xs), Came(xs) \cap {}, Belows(Root, xs))
  BY <1>5 DEF ExplainedBy
<1> HIDE DEF p, below
<1>15. ASSUME pc' = "list" PROVE ExplainedBy(Root, PagesRead, {})'
  <2>1. todo' = Tail(todo)
    BY <1>10, <1>15
  <2>2. \/ tree' = tree
        \/ /\ Belows(Root, xs)[k] \in Seq(STRING) /\ Belows(Root, xs)[k] # <<>> /\ k \in Nondirs(xs)
           /\ \E node : node # Dir /\ tree' = Create(tree, Belows(Root, xs)[k], node)
    <3>1. e.kind = "file" => k \in Nondirs(xs)
      BY <1>7 DEF Nondirs
    <3>2. p # Escapes => below # <<>>
      BY <1>12 DEF Escapes
    <3> QED BY <1>9, <1>10, <1>12, <1>15, <3>1, <3>2
  <2>3. LET S == 1..(Len(xs) - Len(Tail(todo)))
        IN  Explained(tree', Root, S \cap Nondirs(xs), S \cap {}, Belows(Root, xs))
    BY <1>1, <1>6, <1>7, <1>14, <2>2, ExplainedNext
  <2> DEFINE S == 1..(Len(xs) - Len(todo'))
  <2>4. Explained(tree', Root, S \cap Nondirs(xs), {}, Belows(Root, xs))
    <3>1. S \cap {} = {}
      OBVIOUS
    <3> QED BY <2>1, <2>3, <3>1
  <2> QED BY <1>1, <1>6, <2>4, ListedSame
<1>16. ASSUME pc' = "done", faults' = 0 PROVE Cause
  <2>1. faults' # faults + 1
    BY <1>4, <1>16
  <2>2. CASE e.kind = "file" /\ (p = Escapes \/ ~CanCreate(tree, p))
    <3> DEFINE all == {x \in ToSet(Arrives) : x.kind # "dir" \/ proto = "git"}
               A == Came(xs) \cap Nondirs(xs)
               B == Came(xs) \cap {}
    <3>1. ~IsPrefix(Root, below) \/ ~CanCreate(tree, below)
      BY <2>2, <1>12, <1>13
    <3>2. \A i \in A \cup B \cup {k} : xs[i] \in all
      <4>1. \A i \in A \cup B \cup {k} : i \in DOMAIN xs /\ xs[i].kind # "dir"
        BY <2>2, <1>7 DEF Nondirs
      <4>2. \A i \in DOMAIN xs : xs[i] \in ToSet(xs)
        BY DEF ToSet
      <4> QED BY <4>1, <4>2, <1>8
    <3>3. A \subseteq Nondirs(xs) /\ B \subseteq Dirs(xs) /\ Open(tree, Root)
      BY <1>1, PlacedWithin, OpenRoot
    <3>4. Below(Root, xs[k]) = below /\ xs[k].kind # "dir"
      BY <1>7, <2>2 DEF Below, below
    <3>5. Explained(tree, Root, A, B, Belows(Root, xs))
      BY <1>14
    <3> HIDE DEF all, A, B
    <3>6. Bad(Root, all)
      BY <3>1, <3>2, <3>3, <3>4, <3>5, RootAssumption, BlockedFile
    <3> QED BY <3>6, <1>11 DEF all
  <2>3. CASE e.kind = "file" /\ ~copy.ok
    <3>1. limited /\ e.len > w.s.maxBytes
      BY <2>3, <1>3, <1>4, CopyFails DEF copy, limited
    <3>2. e \in ToSet(Arrives)
      BY <1>7, <1>8 DEF ToSet
    <3>3. TooLarge
      BY <3>1, <3>2, <2>3, <1>2 DEF TooLarge
    <3> QED BY <3>3 DEF Cause
  <2> QED BY <1>10, <1>16, <2>1, <2>2, <2>3
<1> QED BY <1>15, <1>16

-----------------------------------------------------------------------------
(***************************************************************************)
(* An extraction is refused for what its archive holds.                    *)
(***************************************************************************)
LEMMA InnerExplained ==
  ASSUME UNCHANGED w, NEW S, S = 1..(Len(w.inner) - Len(todo')),
         Explained(tree', Out, S \cap Nondirs(w.inner), S \cap Dirs(w.inner), Belows(Out, w.inner))
  PROVE  ExplainedBy(Out, w.inner, Dirs(w.inner))'
BY DEF ExplainedBy, Came, Nondirs, Dirs, Belows, Below, Out

LEMMA InnerSpent ==
  ASSUME UNCHANGED <<w, proto, isFile>>, NEW S, S = 1..(Len(w.inner) - Len(todo')),
         limited => left' = Unused(w.inner, S \cap WantedOf(w.inner))
  PROVE  Spent(w.inner, Came(w.inner) \cap WantedOf(w.inner))'
BY PlaceSame DEF Spent, Unused, BytesOf, Came, WantedOf, Wanted, Unpacks, IsArchive, limited

\* What an entry uses of the limit, and what is left.
Uses(xs, T, n, rest) ==
  LET k == Len(xs) - Len(todo) + 1
  IN  /\ k \in T => writeFile(xs[k].len, TRUE, left).ok /\ n = writeFile(xs[k].len, TRUE, left).n
      /\ k \notin T => n = 0
      /\ rest = left - n

LEMMA SpentNext ==
  ASSUME NEW xs \in Seq(Entry), Rest(todo, xs), todo # <<>>, NEW T \in SUBSET (1..Len(xs)),
         w.s.maxBytes \in 0..MaxInt, limited, left >= 0, left \in Int,
         Spent(xs, Came(xs) \cap T), NEW n, NEW rest, Uses(xs, T, n, rest)
  PROVE  rest = Unused(xs, (1..(Len(xs) - Len(Tail(todo)))) \cap T)
<1> DEFINE k == Len(xs) - Len(todo) + 1
           S == 1..(Len(xs) - Len(Tail(todo)))
<1>0. /\ k \in T => writeFile(xs[k].len, TRUE, left).ok /\ n = writeFile(xs[k].len, TRUE, left).n
      /\ k \notin T => n = 0
      /\ rest = left - n
  BY DEF Uses
<1> DEFINE A == Came(xs) \cap T
           max == w.s.maxBytes
<1>1. k \in 1..Len(xs) /\ Len(Tail(todo)) = Len(todo) - 1 /\ Len(xs) \in Nat /\ Len(todo) \in Nat
  BY RestTail DEF Rest
<1>2. S = Came(xs) \cup {k} /\ k \notin Came(xs) /\ Came(xs) \subseteq 1..Len(xs)
  <2>1. S = 1..k /\ Came(xs) = 1..(k - 1) /\ k \in Nat
    BY <1>1 DEF Came
  <2>2. 1..k = 1..(k - 1) \cup {k} /\ k \notin 1..(k - 1) /\ 1..(k - 1) \subseteq 1..Len(xs)
    BY <1>1, <2>1
  <2> QED BY <2>1, <2>2
<1>3. (k \in T => S \cap T = A \cup {k}) /\ (k \notin T => S \cap T = A) /\ k \notin A /\ A \in SUBSET (1..Len(xs))
  BY <1>2
<1>4. xs[k].len \in Nat
  <2>1. xs[k] \in Entry
    BY <1>1
  <2> QED BY <2>1 DEF Entry
<1>5. IsFiniteSet(BytesOf(xs, A)) /\ Cardinality(BytesOf(xs, A)) \in Nat
  BY <1>3, BytesOfFinite
<1>6. left = IF max = MaxInt THEN MaxInt ELSE max - Cardinality(BytesOf(xs, A))
  BY DEF Spent, Unused
<1>7. max \in Nat /\ MaxInt \in Nat /\ max <= MaxInt
  BY MaxIntAssumption
<1> HIDE DEF A, max, S, k
<1>8. left - n = IF max = MaxInt THEN MaxInt ELSE max - Cardinality(BytesOf(xs, S \cap T))
  <2>1. CASE k \notin T
    <3>1. n = 0 /\ left - 0 = left
      BY <1>0, <2>1
    <3>2. S \cap T = A
      BY <1>3, <2>1
    <3> QED BY <3>1, <3>2, <1>6
  <2>2. CASE k \in T /\ max = MaxInt
    <3>1. left \in 0..MaxInt /\ left = MaxInt
      BY <1>6, <1>7, <2>2
    <3>2. n = 0
      BY <3>1, <1>0, <1>4, <2>2, WriteFails
    <3> QED BY <3>1, <3>2, <1>7, <2>2
  <2>3. CASE k \in T /\ max # MaxInt
    <3>1. left \in 0..(MaxInt - 1) /\ left = max - Cardinality(BytesOf(xs, A))
      BY <1>5, <1>6, <1>7, <2>3
    <3>2. n = xs[k].len
      BY <3>1, <1>0, <1>4, <2>3, CopyExact
    <3>3. Cardinality(BytesOf(xs, A \cup {k})) = Cardinality(BytesOf(xs, A)) + xs[k].len
      BY <1>3, <1>4, <1>5, BytesOfMore
    <3>4. S \cap T = A \cup {k}
      BY <1>3, <2>3
    <3>5. PICK c \in Nat, l \in Nat : c = Cardinality(BytesOf(xs, A)) /\ l = xs[k].len
      BY <1>4, <1>5
    <3>6. Cardinality(BytesOf(xs, S \cap T)) = c + l /\ left = max - c /\ n = l
      BY <3>1, <3>2, <3>3, <3>4, <3>5
    <3>7. (max - c) - l = max - (c + l)
      BY <1>7
    <3> QED BY <3>6, <3>7, <2>3
  <2> QED BY <2>1, <2>2, <2>3
<1> QED BY <1>0, <1>8 DEF max, Unused, S

\* An entry that does not fit.
LEMMA SpentExceeds ==
  ASSUME NEW xs \in Seq(Entry), Rest(todo, xs), todo # <<>>, NEW T \in SUBSET (1..Len(xs)),
         w.s.maxBytes \in 0..MaxInt, limited, left >= 0, left \in Int,
         Spent(xs, Came(xs) \cap T),
         NEW k, k = Len(xs) - Len(todo) + 1, k \in T, ~writeFile(xs[k].len, TRUE, left).ok
  PROVE  Cardinality(BytesOf(xs, T)) > w.s.maxBytes
<1> DEFINE A == Came(xs) \cap T
           max == w.s.maxBytes
<1>1. k \in 1..Len(xs) /\ Len(xs) \in Nat /\ Len(todo) \in Nat
  BY RestTail DEF Rest
<1>2. A \subseteq T /\ k \notin A /\ A \in SUBSET (1..Len(xs))
  BY <1>1 DEF Came
<1>4. xs[k].len \in Nat
  <2>1. xs[k] \in Entry
    BY <1>1
  <2> QED BY <2>1 DEF Entry
<1>5. IsFiniteSet(BytesOf(xs, A)) /\ Cardinality(BytesOf(xs, A)) \in Nat
  BY <1>2, BytesOfFinite
<1>6. left = IF max = MaxInt THEN MaxInt ELSE max - Cardinality(BytesOf(xs, A))
  BY DEF Spent, Unused
<1>7. max \in Nat /\ MaxInt \in Nat /\ max <= MaxInt
  BY MaxIntAssumption
<1> HIDE DEF A, max
<1>8. left \in 0..MaxInt
  BY <1>5, <1>6, <1>7
<1>9. xs[k].len > left /\ left < MaxInt
  BY <1>4, <1>8, WriteFails
<1>10. left = max - Cardinality(BytesOf(xs, A))
  BY <1>6, <1>9, <1>7
<1>11. Cardinality(BytesOf(xs, T)) > max
  BY <1>2, <1>7, <1>8, <1>9, <1>10, BytesOfExceed
<1> QED BY <1>11 DEF max

\* What a step does with an entry of an archive.
LEMMA UnpackCases ==
  ASSUME Typed, Stages, untar \/ extractZip, NEW p, p = Join(Out, e.name)
  PROVE  /\ pc \in {"tar", "zip"} /\ todo # <<>> /\ UNCHANGED <<w, proto, isFile>> /\ UnpacksAs(pc) /\ Rest(todo, w.inner)
         /\ LET copy == writeFile(e.len, limited, left)
            IN  \/ /\ pc' = pc /\ todo' = Tail(todo) /\ tree' = tree /\ left' = left
                   /\ pc = "tar" /\ e.kind \notin {"dir", "file"}
                \/ /\ pc' = pc /\ todo' = Tail(todo) /\ tree' = MkdirAll(tree, p) /\ (limited => left' = left - 0)
                   /\ e.kind = "dir" /\ p # Escapes
                \/ /\ pc' = pc /\ todo' = Tail(todo) /\ (limited => left' = left - copy.n) /\ copy.ok
                   /\ e.kind # "dir" /\ (pc = "tar" => e.kind = "file") /\ p # Escapes
                   /\ \E node : node # Dir /\ tree' = Create(tree, p, node)
                \/ pc' = "done" /\ e.kind = "dir" /\ (p = Escapes \/ ~CanMkdirAll(tree, p))
                \/ pc' = "done" /\ e.kind # "dir" /\ (p = Escapes \/ ~CanCreate(tree, p))
                \/ pc' = "done" /\ e.kind # "dir" /\ (pc = "tar" => e.kind = "file") /\ ~copy.ok
                \/ pc' = "done" /\ faults' = faults + 1
<1> DEFINE copy == writeFile(e.len, limited, left)
<1>1. pc \in {"tar", "zip"} /\ todo # <<>> /\ UNCHANGED <<w, proto>> /\ (pc = "tar" <=> untar) /\ (pc = "zip" <=> extractZip)
  BY DEF untar, extractZip, request
<1>2. UnpacksAs(pc) /\ Rest(todo, w.inner)
  BY <1>1 DEF Stages
<1> HIDE DEF copy
<1>3. \/ p = Escapes /\ Fail
      \/ p # Escapes /\ e.kind = "dir" /\ MakeDir(p, Spend(0))
      \/ p # Escapes /\ pc = "tar" /\ e.kind \notin {"dir", "file"} /\ Skip
      \/ p # Escapes /\ (pc = "tar" => e.kind = "file") /\ e.kind # "dir" /\ Save(e, p, copy, Spend(copy.n))
  <2>1. CASE untar
    BY <2>1, <1>1 DEF untar, copy
  <2>2. CASE extractZip
    BY <2>2, <1>1 DEF extractZip, copy
  <2> QED BY <2>1, <2>2
<1>4. isFile' = isFile
  BY <1>3 DEF Skip, MakeDir, Save, Spend, Advance, Fail
<1> DEFINE Goal ==
  \/ /\ pc' = pc /\ todo' = Tail(todo) /\ tree' = tree /\ left' = left
     /\ pc = "tar" /\ e.kind \notin {"dir", "file"}
  \/ /\ pc' = pc /\ todo' = Tail(todo) /\ tree' = MkdirAll(tree, p) /\ (limited => left' = left - 0)
     /\ e.kind = "dir" /\ p # Escapes
  \/ /\ pc' = pc /\ todo' = Tail(todo) /\ (limited => left' = left - copy.n) /\ copy.ok
     /\ e.kind # "dir" /\ (pc = "tar" => e.kind = "file") /\ p # Escapes
     /\ \E node : node # Dir /\ tree' = Create(tree, p, node)
  \/ pc' = "done" /\ e.kind = "dir" /\ (p = Escapes \/ ~CanMkdirAll(tree, p))
  \/ pc' = "done" /\ e.kind # "dir" /\ (p = Escapes \/ ~CanCreate(tree, p))
  \/ pc' = "done" /\ e.kind # "dir" /\ (pc = "tar" => e.kind = "file") /\ ~copy.ok
  \/ pc' = "done" /\ faults' = faults + 1
<1>5. Goal
  <2>1. CASE p = Escapes /\ Fail
    BY <2>1 DEF Fail, Return
  <2>2. CASE p # Escapes /\ e.kind = "dir" /\ MakeDir(p, Spend(0))
    BY <2>2 DEF MakeDir, Spend, Advance, Fail, Return
  <2>3. CASE p # Escapes /\ pc = "tar" /\ e.kind \notin {"dir", "file"} /\ Skip
    BY <2>3 DEF Skip, Advance
  <2>4. CASE p # Escapes /\ (pc = "tar" => e.kind = "file") /\ e.kind # "dir" /\ Save(e, p, copy, Spend(copy.n))
    <3>2. CASE ~CanCreate(tree, p)
      BY <2>4, <3>2 DEF Save, Fail, Return
    <3>3. CASE CanCreate(tree, p) /\ Faulty /\ Fail
      BY <3>3 DEF Faulty, Fail, Return
    <3>4. CASE CanCreate(tree, p) /\ ~copy.ok
      BY <2>4, <3>4 DEF Save, Fail, Return, Faulty
    <3>5. CASE CanCreate(tree, p) /\ copy.ok /\ ~(Faulty /\ Fail)
      <4>1. tree' = Create(tree, p, File(e, copy.n)) /\ todo' = Tail(todo) /\ pc' = pc /\ (limited => left' = left - copy.n)
        BY <2>4, <3>5 DEF Save, Spend, Advance
      <4>2. File(e, copy.n) # Dir
        BY NodeKinds, Zenon DEF File, Dir
      <4> QED BY <4>1, <4>2, <3>5, <2>4
    <3> QED BY <3>2, <3>3, <3>4, <3>5
  <2> QED BY <1>3, <2>1, <2>2, <2>3, <2>4
<1> QED BY <1>1, <1>2, <1>4, <1>5 DEF copy

LEMMA RootStays ==
  ASSUME NEW t, IsDir(t, Root), NEW p, NEW u,
         \/ u = t \/ u = MkdirAll(t, p)
         \/ p \in Seq(STRING) /\ IsPrefix(Out, p) /\ \E node : u = Create(t, p, node)
  PROVE  IsDir(u, Root)
<1>1. CASE u = t
  BY <1>1
<1>2. CASE u = MkdirAll(t, p)
  BY <1>2, MkdirAllKeeps DEF IsDir
<1>3. CASE p \in Seq(STRING) /\ IsPrefix(Out, p) /\ \E node : u = Create(t, p, node)
  <2>1. p # Root
    <3>1. Len(Out) = Len(Root) + 1 /\ Len(Root) \in Nat /\ Out \in Seq(STRING)
      BY RootAssumption, OutBelow
    <3>2. Len(Out) <= Len(p)
      BY <1>3, <3>1, PrefixAt
    <3> QED BY <3>1, <3>2
  <2>2. PICK node : u = Create(t, p, node)
    BY <1>3
  <2>3. Root \in DOMAIN MkdirAll(t, Front(p)) /\ MkdirAll(t, Front(p))[Root] = Dir
    BY MkdirAllKeeps DEF IsDir
  <2> QED BY <2>1, <2>2, <2>3 DEF Create, Put, IsDir
<1> QED BY <1>1, <1>2, <1>3

LEMMA UnpackReason ==
  ASSUME Typed, Placed, Stages, untar \/ extractZip, UnpackInv
  PROVE  /\ pc' = pc => UnpackInv'
         /\ pc' = "done" /\ faults' = 0 => Cause
<1> DEFINE copy == writeFile(e.len, limited, left)
           below == Clean(Out \o e.name)
           xs == w.inner
           T == WantedOf(xs)
<1> PICK p : p = Join(Out, e.name)
  OBVIOUS
<1>1. /\ pc \in {"tar", "zip"} /\ todo # <<>> /\ UNCHANGED <<w, proto, isFile>> /\ UnpacksAs(pc) /\ Rest(todo, xs)
  BY UnpackCases
<1>2. \/ /\ pc' = pc /\ todo' = Tail(todo) /\ tree' = tree /\ left' = left
         /\ pc = "tar" /\ e.kind \notin {"dir", "file"}
      \/ /\ pc' = pc /\ todo' = Tail(todo) /\ tree' = MkdirAll(tree, p) /\ (limited => left' = left - 0)
         /\ e.kind = "dir" /\ p # Escapes
      \/ /\ pc' = pc /\ todo' = Tail(todo) /\ (limited => left' = left - copy.n) /\ copy.ok
         /\ e.kind # "dir" /\ (pc = "tar" => e.kind = "file") /\ p # Escapes
         /\ \E node : node # Dir /\ tree' = Create(tree, p, node)
      \/ pc' = "done" /\ e.kind = "dir" /\ (p = Escapes \/ ~CanMkdirAll(tree, p))
      \/ pc' = "done" /\ e.kind # "dir" /\ (p = Escapes \/ ~CanCreate(tree, p))
      \/ pc' = "done" /\ e.kind # "dir" /\ (pc = "tar" => e.kind = "file") /\ ~copy.ok
      \/ pc' = "done" /\ faults' = faults + 1
  BY UnpackCases
<1>3. Unpacks /\ Arrives = xs /\ (extractors(Extension(w, proto)) = "zip" <=> pc = "zip")
  <2>1. Unpacks
    BY <1>1 DEF UnpacksAs, Unpacks, IsArchive
  <2> QED BY <2>1, <1>1 DEF Arrives, UnpacksAs
<1>4. World(w) /\ w.s.maxBytes \in 0..MaxInt /\ faults \in Nat /\ xs \in Seq(Entry) /\ left \in Int /\ (limited => left >= 0)
  <2>1. World(w) /\ faults \in 0..MaxFaults /\ left \in Int /\ (limited => left >= 0)
    BY DEF Typed, Chosen, Stream, Control
  <2>2. w.s.maxBytes \in 0..MaxInt /\ xs \in Seq(Entry)
    BY <2>1, WorldTypes DEF Settings
  <2> QED BY <2>1, <2>2, MaxFaultsAssumption
<1>5. PICK k \in DOMAIN xs : k = Len(xs) - Len(todo) + 1 /\ e = xs[k]
  <2>1. Len(xs) - Len(todo) + 1 \in 1..Len(xs) /\ e = xs[Len(xs) - Len(todo) + 1]
    BY <1>1, <1>4, RestTail DEF e
  <2> QED BY <2>1
<1>6. Belows(Out, xs)[k] = below /\ below \in Seq(STRING) /\ Below(Out, xs[k]) = below
  BY <1>4, <1>5, OutBelow, BelowType DEF Below
<1>7. Out \in Seq(STRING) /\ Out # <<>>
  <2>1. Out \in Seq(STRING) /\ Len(Out) = Len(Root) + 1 /\ Len(Root) \in Nat
    BY OutBelow, RootAssumption
  <2> QED BY <2>1
<1>8. p # Escapes => p = below /\ IsPrefix(Out, below) /\ below # <<>>
  BY DEF Join, Escapes
<1>9. p = Escapes => ~IsPrefix(Out, below)
  <2>1. IsPrefix(Out, below) => below # <<>>
    BY <1>6, <1>7, PrefixAt
  <2> QED BY <2>1 DEF Join, Escapes
<1>10. k \in T <=> e.kind # "dir" /\ (pc = "tar" => e.kind = "file")
  <2>1. Wanted(e) <=> e.kind # "dir" /\ (pc = "tar" => e.kind = "file")
    BY <1>1, <1>3 DEF Wanted
  <2> QED BY <2>1, <1>5 DEF WantedOf
<1>11. T \in SUBSET (1..Len(xs)) /\ limited \in BOOLEAN
  <2>1. T \subseteq DOMAIN xs
    BY DEF WantedOf
  <2> QED BY <2>1, <1>4 DEF limited
<1>12. Open(tree, Out)
  BY <1>1, PlacedWithin, OpenOut DEF UnpackInv
<1>13. Explained(tree, Out, Came(xs) \cap Nondirs(xs), Came(xs) \cap Dirs(xs), Belows(Out, xs))
  BY DEF UnpackInv, ExplainedBy
<1>14. Spent(xs, Came(xs) \cap T)
  BY DEF UnpackInv
<1>15. (k \in Dirs(xs) <=> e.kind = "dir") /\ (k \in Nondirs(xs) <=> e.kind # "dir")
  BY <1>5 DEF Dirs, Nondirs
<1> HIDE DEF below
<1>16. ASSUME pc' = pc PROVE UnpackInv'
  <2>1. \/ todo' = Tail(todo) /\ tree' = tree /\ left' = left /\ k \notin T
        \/ todo' = Tail(todo) /\ tree' = MkdirAll(tree, below) /\ (limited => left' = left - 0) /\ k \notin T /\ k \in Dirs(xs)
        \/ /\ todo' = Tail(todo) /\ (limited => left' = left - copy.n) /\ copy.ok /\ k \in T /\ k \in Nondirs(xs)
           /\ IsPrefix(Out, below) /\ below # <<>> /\ \E node : node # Dir /\ tree' = Create(tree, below, node)
    BY <1>1, <1>2, <1>8, <1>10, <1>15, <1>16
  <2>2. IsDir(tree', Root)
    <3>1. IsDir(tree, Root)
      BY DEF UnpackInv
    <3> HIDE DEF copy, T
    <3> QED BY <2>1, <3>1, <1>6, RootStays
  <2>3. ExplainedBy(Out, xs, Dirs(xs))'
    <3>1. LET S == 1..(Len(xs) - Len(Tail(todo)))
          IN  Explained(tree', Out, S \cap Nondirs(xs), S \cap Dirs(xs), Belows(Out, xs))
      <4> HIDE DEF copy, T, xs
      <4> QED BY <2>1, <1>1, <1>4, <1>5, <1>6, <1>13, ExplainedNext
    <3> DEFINE S == 1..(Len(xs) - Len(todo'))
    <3>2. Explained(tree', Out, S \cap Nondirs(xs), S \cap Dirs(xs), Belows(Out, xs))
      BY <2>1, <3>1
    <3> HIDE DEF S
    <3>3. S = 1..(Len(w.inner) - Len(todo'))
      BY DEF S
    <3> QED BY <1>1, <3>2, <3>3, InnerExplained
  <2>4. Spent(xs, Came(xs) \cap WantedOf(xs))'
    <3> DEFINE S == 1..(Len(xs) - Len(todo'))
    <3>1. limited => left' = Unused(xs, S \cap T)
      <4> SUFFICES ASSUME limited PROVE left' = Unused(xs, S \cap T)
        OBVIOUS
      <4>1. limited = TRUE
        BY <1>11
      <4> DEFINE n == IF k \in T THEN copy.n ELSE 0
      <4>2. left' = left - n
        <5>1. left - 0 = left
          BY <1>4
        <5> HIDE DEF copy, T
        <5> QED BY <2>1, <5>1
      <4>3. /\ k \in T => writeFile(xs[k].len, TRUE, left).ok /\ n = writeFile(xs[k].len, TRUE, left).n
            /\ k \notin T => n = 0
        <5>1. copy = writeFile(xs[k].len, TRUE, left)
          BY <4>1, <1>5
        <5>2. k \in T => copy.ok
          BY <2>1
        <5> HIDE DEF copy, T
        <5> QED BY <5>1, <5>2
      <4>4. S = 1..(Len(xs) - Len(Tail(todo)))
        BY <2>1
      <4> HIDE DEF n, copy, T, xs, S
      <4>5. PICK rest : rest = left'
        OBVIOUS
      <4>6. rest = Unused(xs, S \cap T)
        <5>1. Uses(xs, T, n, rest)
          BY <1>5, <4>2, <4>3, <4>5 DEF Uses
        <5> QED BY <1>1, <1>4, <1>11, <1>14, <4>4, <5>1, SpentNext
      <4> QED BY <4>5, <4>6
    <3> HIDE DEF S
    <3>2. S = 1..(Len(w.inner) - Len(todo'))
      BY DEF S
    <3> QED BY <1>1, <3>1, <3>2, InnerSpent
  <2> QED BY <1>1, <2>2, <2>3, <2>4 DEF UnpackInv
<1>17. ASSUME pc' = "done", faults' = 0 PROVE Cause
  <2> DEFINE all == ToSet(xs)
             A == Came(xs) \cap Nondirs(xs)
             B == Came(xs) \cap Dirs(xs)
  <2>1. faults' # faults + 1
    BY <1>4, <1>17
  <2>2. Bad(Out, all) => Cause
    BY <1>3 DEF Cause, Misplaced
  <2>3. \A i \in A \cup B \cup {k} : xs[i] \in all
    <3>1. \A i \in A \cup B \cup {k} : i \in DOMAIN xs
      BY <1>5 DEF Nondirs, Dirs
    <3> QED BY <3>1 DEF ToSet
  <2>4. A \subseteq Nondirs(xs) /\ B \subseteq Dirs(xs)
    OBVIOUS
  <2>5. Explained(tree, Out, A, B, Belows(Out, xs))
    BY <1>13
  <2> HIDE DEF A, B, all, copy
  <2>6. CASE e.kind = "dir" /\ (p = Escapes \/ ~CanMkdirAll(tree, p))
    <3>1. ~IsPrefix(Out, below) \/ ~CanMkdirAll(tree, below)
      BY <2>6, <1>8, <1>9
    <3>2. Bad(Out, all)
      <4> HIDE DEF xs
      <4> QED BY <3>1, <2>3, <2>4, <2>5, <2>6, <1>4, <1>5, <1>6, <1>7, <1>12, BlockedDir
    <3> QED BY <3>2, <2>2
  <2>7. CASE e.kind # "dir" /\ (p = Escapes \/ ~CanCreate(tree, p))
    <3>1. ~IsPrefix(Out, below) \/ ~CanCreate(tree, below)
      BY <2>7, <1>8, <1>9
    <3>2. Bad(Out, all)
      <4> HIDE DEF xs
      <4> QED BY <3>1, <2>3, <2>4, <2>5, <2>7, <1>4, <1>5, <1>6, <1>7, <1>12, BlockedFile
    <3> QED BY <3>2, <2>2
  <2>8. CASE e.kind # "dir" /\ (pc = "tar" => e.kind = "file") /\ ~copy.ok
    <3>1. k \in T
      BY <2>8, <1>10
    <3>2. limited = TRUE
      <4> SUFFICES ASSUME ~limited PROVE FALSE
        BY <1>11
      <4>1. copy.ok
        BY DEF copy, writeFile
      <4> QED BY <4>1, <2>8
    <3>3. ~writeFile(xs[k].len, TRUE, left).ok
      BY <3>2, <2>8, <1>5 DEF copy
    <3>4. Cardinality(BytesOf(xs, T)) > w.s.maxBytes
      <4> HIDE DEF xs, T
      <4> QED BY <3>1, <3>2, <3>3, <1>1, <1>4, <1>5, <1>11, <1>14, SpentExceeds
    <3>5. TooLarge
      BY <3>2, <3>4, <1>3 DEF TooLarge
    <3> QED BY <3>5 DEF Cause
  <2> QED BY <1>1, <1>2, <1>17, <2>1, <2>6, <2>7, <2>8
<1> QED BY <1>16, <1>17

-----------------------------------------------------------------------------
(***************************************************************************)
(* What was staged on disk and what a library writes is refused for its    *)
(* size.                                                                   *)
(***************************************************************************)
\* In a staging directory in which nothing is, there is nothing to explain.
LEMMA ExplainedFresh ==
  ASSUME NEW S, NEW D, NEW at
  PROVE  Explained(Fresh, Root, S, D, at)
<1> SUFFICES ASSUME NEW p \in DOMAIN Fresh, IsPrefix(Root, p) PROVE Fresh[p] = Dir /\ p = Root
  BY DEF Explained
<1>1. p = Root
  BY FreshAbove
<1> QED BY <1>1 DEF Fresh

LEMMA FirstExplained ==
  ASSUME UNCHANGED w, NEW S, S = 1..(Len(w.pages[1]) - Len(todo')),
         Explained(tree', Root, S \cap Nondirs(w.pages[1]), S \cap Dirs(w.pages[1]), Belows(Root, w.pages[1]))
  PROVE  ExplainedBy(Root, w.pages[1], Dirs(w.pages[1]))'
BY DEF ExplainedBy, Came, Nondirs, Dirs, Belows, Below

LEMMA WalkStartReason ==
  ASSUME Typed, Placed, OpenLocal, pc' = "copy"
  PROVE  ExplainedBy(Root, w.pages[1], Dirs(w.pages[1]))'
<1>1. pc = "request" /\ UNCHANGED <<w, tree>>
  BY DEF OpenLocal, Save, Downloaded, Goto, Fail, Return, request
<1>2. tree' = Fresh
  BY <1>1 DEF Placed, Unwritten
<1> DEFINE S == 1..(Len(w.pages[1]) - Len(todo'))
<1>3. Explained(tree', Root, S \cap Nondirs(w.pages[1]), S \cap Dirs(w.pages[1]), Belows(Root, w.pages[1]))
  BY <1>2, ExplainedFresh
<1> HIDE DEF S
<1>4. S = 1..(Len(w.pages[1]) - Len(todo'))
  BY DEF S
<1> QED BY <1>1, <1>3, <1>4, FirstExplained

LEMMA ListStartReason ==
  ASSUME Typed, Placed, RequestS3 \/ RequestGCS, pc' = "list"
  PROVE  ExplainedBy(Root, PagesRead, {})'
<1>1. pc = "request" /\ UNCHANGED <<w, tree>>
  BY DEF RequestS3, RequestGCS, Request
<1>2. tree' = Fresh
  BY <1>1 DEF Placed, Unwritten
<1> QED BY <1>2, ExplainedFresh DEF ExplainedBy

LEMMA TurnReason ==
  ASSUME Typed, OutBudget, Stages, ListPage, pc' = "list", ExplainedBy(Root, PagesRead, {})
  PROVE  ExplainedBy(Root, PagesRead, {})'
<1>1. /\ pc = "list" /\ todo = <<>> /\ UNCHANGED <<w, proto, isFile, tree>> /\ page < Len(w.pages)
      /\ page' = page + 1 /\ todo' = w.pages[page + 1]
  BY DEF ListPage, NextPage, Downloaded, Goto, Fail, Return, request
<1>2. World(w) /\ page \in Nat /\ w.pages \in Seq(Seq(Entry)) /\ page \in 0..Len(w.pages)
  BY <1>1, WorldTypes DEF Typed, Chosen, Stream
<1> DEFINE read == PagesRead
           next == FlattenSeq(SubSeq(w.pages, 1, page + 1))
<1>3. /\ read \in Seq(Entry) /\ next \in Seq(Entry)
      /\ Len(next) - Len(w.pages[page + 1]) = Len(read)
      /\ \A i \in 1..Len(read) : next[i] = read[i]
  BY <1>1, <1>2, PageMore DEF PagesRead
<1>4. next = PagesRead'
  BY <1>1 DEF PagesRead
<1>5. Came(read) = DOMAIN read
  BY <1>1, <1>3, AllCame
<1>6. Explained(tree, Root, DOMAIN read \cap Nondirs(read), DOMAIN read \cap {}, Belows(Root, read))
  BY <1>5 DEF ExplainedBy
<1> HIDE DEF read, next
<1>7. DOMAIN read = 1..Len(read) /\ 1..Len(read) \subseteq DOMAIN next
  <2>1. Len(read) \in Nat /\ Len(next) \in Nat /\ w.pages[page + 1] \in Seq(Entry)
    BY <1>1, <1>2, <1>3
  <2>2. Len(w.pages[page + 1]) \in Nat
    BY <2>1
  <2> QED BY <2>1, <2>2, <1>3
<1> DEFINE S == 1..Len(read)
<1>8. Explained(tree, Root, S \cap Nondirs(next), {}, Belows(Root, next))
  <2> DEFINE A == DOMAIN read \cap Nondirs(read)
             B == DOMAIN read \cap {}
  <2>1. A \subseteq S \cap Nondirs(next) /\ B \subseteq {}
    BY <1>3, <1>7 DEF Nondirs
  <2>2. \A i \in A \cup B : Belows(Root, next)[i] = Belows(Root, read)[i]
    BY <1>3, <1>7 DEF Belows
  <2> HIDE DEF A, B, S
  <2>3. Explained(tree, Root, A, B, Belows(Root, read))
    BY <1>6 DEF A, B
  <2> QED BY <2>1, <2>2, <2>3, ExplainedMore
<1>9. PICK xs : xs = next
  OBVIOUS
<1>10. xs = PagesRead'
  BY <1>4, <1>9
<1>11. S = 1..(Len(xs) - Len(todo'))
  BY <1>1, <1>3, <1>9
<1>12. Explained(tree', Root, S \cap Nondirs(xs), {}, Belows(Root, xs))
  <2> HIDE DEF S
  <2> QED BY <1>1, <1>8, <1>9
<1> HIDE DEF S
<1> QED BY <1>1, <1>10, <1>11, <1>12, ListedSame

\* Nothing that a tree has is in the way of anything else of it.
LEMMA TreeHasPlace ==
  ASSUME NEW xs \in Seq(Entry), TreeLike(xs)
  PROVE  ~Bad(Root, ToSet(xs))
<1>1. ASSUME NEW i \in DOMAIN xs
      PROVE  /\ Below(Root, xs[i]) = Root \o xs[i].name /\ xs[i].name \in Seq(STRING)
             /\ IsPrefix(Root, Below(Root, xs[i])) /\ (xs[i].kind # "dir" => Below(Root, xs[i]) # Root)
  <2>1. xs[i].name \in Seq(STRING) /\ Avoids(xs[i].name, Dots) /\ (xs[i].kind # "dir" => xs[i].name # <<>>)
    BY TreeName
  <2>2. Below(Root, xs[i]) = Root \o xs[i].name
    BY <2>1, CleanPlain DEF Below
  <2>3. IsPrefix(Root, Root \o xs[i].name)
    BY <2>1, RootAssumption, PrefixOfJoined
  <2>4. xs[i].name # <<>> => Root \o xs[i].name # Root
    <3>1. Len(Root \o xs[i].name) = Len(Root) + Len(xs[i].name) /\ Len(Root) \in Nat /\ Len(xs[i].name) \in Nat
      BY <2>1, RootAssumption
    <3>2. xs[i].name # <<>> => Len(xs[i].name) # 0
      BY <2>1
    <3> QED BY <3>1, <3>2
  <2> QED BY <2>1, <2>2, <2>3, <2>4
<1>2. ASSUME NEW i \in DOMAIN xs, NEW j \in DOMAIN xs PROVE ~Clash(Root, xs[i], xs[j])
  <2> SUFFICES ASSUME Clash(Root, xs[i], xs[j]) PROVE FALSE
    OBVIOUS
  <2>1. xs[i].kind # "dir" /\ IsPrefix(Below(Root, xs[i]), Below(Root, xs[j]))
        /\ (Below(Root, xs[i]) = Below(Root, xs[j]) => xs[j].kind = "dir")
    BY DEF Clash
  <2>2. IsPrefix(Root \o xs[i].name, Root \o xs[j].name)
    BY <1>1, <2>1
  <2>3. IsPrefix(xs[i].name, xs[j].name)
    BY <1>1, <2>2, RootAssumption, JoinedPrefix
  <2>4. i = j
    BY <2>1, <2>3, TreePair
  <2> QED BY <2>1, <2>4
<1>3. \A x \in ToSet(xs) : \E i \in DOMAIN xs : x = xs[i]
  BY DEF ToSet
<1> QED BY <1>1, <1>2, <1>3 DEF Bad

LEMMA CopyReason ==
  ASSUME Typed, Placed, Stages, copyDir, ExplainedBy(Root, w.pages[1], Dirs(w.pages[1]))
  PROVE  /\ pc' = "copy" => ExplainedBy(Root, w.pages[1], Dirs(w.pages[1]))'
         /\ pc' = "done" => faults' # 0
<1> DEFINE p == Root \o e.name
           copy == Copy(e.len, 0)
<1>1. pc = "copy" /\ todo # <<>> /\ UNCHANGED <<w, proto>>
  BY DEF copyDir, request
<1>2. proto = "file" /\ w.at = "dir" /\ Rest(todo, w.pages[1])
  BY <1>1 DEF Stages
<1>3. World(w) /\ Protocol(w.url) = "file" /\ faults \in Nat
  BY <1>1, <1>2, MaxFaultsAssumption DEF Typed, Chosen, Control
<1>4. PICK xs \in Seq(Entry) : xs = w.pages[1]
  BY <1>3, WorldTypes
<1>5. TreeLike(xs)
  BY <1>2, <1>3, <1>4, WorldsAssumption DEF World
<1>6. PICK k \in DOMAIN xs : k = Len(xs) - Len(todo) + 1 /\ e = xs[k]
  <2>1. Len(xs) - Len(todo) + 1 \in 1..Len(xs) /\ e = xs[Len(xs) - Len(todo) + 1]
    BY <1>1, <1>2, <1>4, RestTail DEF e
  <2> QED BY <2>1
<1>7. /\ e \in Entry /\ e.name \in Seq(STRING) /\ e.len \in Nat /\ e.kind \in {"dir", "file", "link"}
      /\ Avoids(e.name, Dots)
  BY <1>5, <1>6, TreeName
<1>8. copy.ok
  BY DEF copy, Copy
<1>9. p = Below(Root, e) /\ p \in Seq(STRING) /\ p # <<>> /\ Belows(Root, xs)[k] = p /\ IsPrefix(Root, p)
  <2>1. p = Below(Root, e)
    BY <1>7, CleanPlain DEF Below
  <2>2. p \in Seq(STRING) /\ IsPrefix(Root, p)
    BY <1>7, RootAssumption, PrefixOfJoined
  <2>3. p # <<>>
    BY <2>2, RootAssumption, PrefixAt
  <2>4. Belows(Root, xs)[k] = Below(Root, xs[k])
    BY RootAssumption, BelowType
  <2> QED BY <2>1, <2>2, <2>3, <2>4, <1>6
<1> HIDE DEF copy
<1>10. \/ pc' = pc /\ todo' = Tail(todo) /\ e.kind = "dir" /\ tree' = MkdirAll(tree, p)
       \/ pc' = pc /\ todo' = Tail(todo) /\ e.kind # "dir" /\ \E node : node # Dir /\ tree' = Create(tree, p, node)
       \/ pc' = "done" /\ e.kind = "dir" /\ ~CanMkdirAll(tree, p)
       \/ pc' = "done" /\ e.kind # "dir" /\ ~CanCreate(tree, p)
       \/ pc' = "done" /\ faults' = faults + 1
  <2> DEFINE Next1 == Advance /\ UNCHANGED <<left, found>>
  <2>1. CASE e.kind = "dir"
    <3>1. MakeDir(p, Next1)
      BY <2>1 DEF copyDir
    <3> QED BY <2>1, <3>1 DEF MakeDir, Advance, Fail, Return
  <2>2. CASE e.kind = "link"
    <3>1. tree' = Create(tree, p, Link(e)) /\ todo' = Tail(todo) /\ pc' = pc
      BY <2>2 DEF copyDir, Advance
    <3>2. Link(e) # Dir
      BY NodeKinds, Zenon DEF Link, Dir
    <3> QED BY <2>2, <3>1, <3>2
  <2>3. CASE e.kind = "file"
    <3>1. Save(e, p, copy, Next1)
      BY <2>3 DEF copyDir, copy
    <3>2. CASE ~CanCreate(tree, p)
      BY <2>3, <3>1, <3>2 DEF Save, Fail, Return
    <3>3. CASE CanCreate(tree, p) /\ Faulty /\ Fail
      BY <3>3 DEF Faulty, Fail, Return
    <3>5. CASE CanCreate(tree, p) /\ ~(Faulty /\ Fail)
      <4>1. tree' = Create(tree, p, File(e, copy.n)) /\ todo' = Tail(todo) /\ pc' = pc
        BY <3>1, <3>5, <1>8 DEF Save, Advance
      <4>2. File(e, copy.n) # Dir
        BY NodeKinds, Zenon DEF File, Dir
      <4> QED BY <4>1, <4>2, <2>3
    <3> QED BY <3>2, <3>3, <3>5
  <2> QED BY <1>7, <2>1, <2>2, <2>3
<1> HIDE DEF p
<1>11. Explained(tree, Root, Came(xs) \cap Nondirs(xs), Came(xs) \cap Dirs(xs), Belows(Root, xs))
  BY <1>4 DEF ExplainedBy
<1>12. (k \in Dirs(xs) <=> e.kind = "dir") /\ (k \in Nondirs(xs) <=> e.kind # "dir")
  BY <1>6 DEF Dirs, Nondirs
<1>13. Rest(todo, xs)
  BY <1>2, <1>4
<1>14. ASSUME pc' = "copy" PROVE ExplainedBy(Root, w.pages[1], Dirs(w.pages[1]))'
  <2>1. LET S == 1..(Len(xs) - Len(Tail(todo)))
        IN  Explained(tree', Root, S \cap Nondirs(xs), S \cap Dirs(xs), Belows(Root, xs))
    BY <1>1, <1>6, <1>9, <1>10, <1>11, <1>12, <1>13, <1>14, ExplainedNext
  <2> DEFINE S == 1..(Len(xs) - Len(todo'))
  <2>2. todo' = Tail(todo)
    BY <1>10, <1>14
  <2>3. Explained(tree', Root, S \cap Nondirs(w.pages[1]), S \cap Dirs(w.pages[1]), Belows(Root, w.pages[1]))
    BY <2>1, <2>2, <1>4
  <2> HIDE DEF S
  <2>4. S = 1..(Len(w.pages[1]) - Len(todo'))
    BY <1>4 DEF S
  <2> QED BY <1>1, <2>3, <2>4, FirstExplained
<1>15. ASSUME pc' = "done", faults' = 0 PROVE FALSE
  <2> DEFINE A == Came(xs) \cap Nondirs(xs)
             B == Came(xs) \cap Dirs(xs)
             all == ToSet(xs)
  <2>1. \A i \in A \cup B \cup {k} : xs[i] \in all
    <3>1. \A i \in A \cup B \cup {k} : i \in DOMAIN xs
      BY <1>6 DEF Nondirs, Dirs
    <3> QED BY <3>1 DEF ToSet
  <2>2. A \subseteq Nondirs(xs) /\ B \subseteq Dirs(xs) /\ Open(tree, Root)
    BY <1>1, PlacedWithin, OpenRoot
  <2>3. Explained(tree, Root, A, B, Belows(Root, xs))
    BY <1>11
  <2>4. ~Bad(Root, all)
    BY <1>5, TreeHasPlace
  <2> HIDE DEF A, B, all
  <2>5. faults' # faults + 1
    BY <1>3, <1>15
  <2>6. CASE e.kind = "dir" /\ ~CanMkdirAll(tree, p)
    BY <2>1, <2>2, <2>3, <2>4, <2>6, <1>6, <1>9, RootAssumption, BlockedDir
  <2>7. CASE e.kind # "dir" /\ ~CanCreate(tree, p)
    BY <2>1, <2>2, <2>3, <2>4, <2>7, <1>6, <1>9, RootAssumption, BlockedFile
  <2> QED BY <2>5, <2>6, <2>7, <1>1, <1>10, <1>15
<1> QED BY <1>14, <1>15

-----------------------------------------------------------------------------
(***************************************************************************)
(* A platform's archive is refused for its members.                        *)
(***************************************************************************)
\* What a step does with an entry of a platform's archive.
LEMMA ArchiveCases ==
  ASSUME Typed, ArchiveInv, extractArchive, NEW copy, copy = writeArchiveFile(Bytes(e), limited, left),
         NEW rel, rel = Tail(e.name), NEW p, p = Root \o rel
  PROVE  /\ pc = "archived" /\ todo # <<>> /\ proto = "git" /\ UNCHANGED <<w, proto, isFile>> /\ isFile = FALSE
         /\ Rest(todo, w.pages[1])
         /\ \/ /\ pc' = pc /\ todo' = Tail(todo) /\ tree' = tree /\ left' = left /\ found' = found
               /\ e.kind = "pax"
            \/ pc' = "done" /\ e.kind # "pax" /\ containsDotDot(e.name)
            \/ /\ pc' = pc /\ todo' = Tail(todo) /\ tree' = tree /\ left' = left - 0
               /\ found' = (found \/ (rel # <<>> /\ IsPrefix(w.subdir, rel)))
               /\ e.kind # "pax" /\ ~containsDotDot(e.name) /\ ~Taken(e)
            \/ /\ pc' = pc /\ todo' = Tail(todo) /\ tree' = MkdirAll(tree, p) /\ left' = left - 0
               /\ found' = (found \/ (rel # <<>> /\ IsPrefix(w.subdir, rel)))
               /\ e.kind = "dir" /\ ~containsDotDot(e.name)
            \/ /\ pc' = pc /\ todo' = Tail(todo) /\ left' = left - copy.n /\ copy.ok
               /\ found' = (found \/ (rel # <<>> /\ IsPrefix(w.subdir, rel)))
               /\ e.kind \in {"file", "link"} /\ ~containsDotDot(e.name) /\ Taken(e)
               /\ \E node : node # Dir /\ tree' = Create(tree, p, node)
            \/ pc' = "done" /\ e.kind = "dir" /\ ~containsDotDot(e.name) /\ ~CanMkdirAll(tree, p)
            \/ pc' = "done" /\ e.kind \in {"file", "link"} /\ ~containsDotDot(e.name) /\ rel # <<>> /\ ~CanCreate(tree, p)
            \/ pc' = "done" /\ e.kind \in {"file", "link"} /\ ~containsDotDot(e.name) /\ Taken(e) /\ ~copy.ok
            \/ pc' = "done" /\ faults' = faults + 1
<1> DEFINE wrap == IF top = <<>> THEN <<Head(e.name)>> ELSE top
           cone == archiveSelects(StripTop(e, wrap), w.subdir, e.kind = "dir")
           Next1(n) == /\ todo' = Tail(todo) /\ left' = left - n
                       /\ top' = wrap /\ found' = (found \/ (rel # <<>> /\ cone.under))
                       /\ UNCHANGED <<pc, result, page, isFile>>
<1>1. pc = "archived" /\ todo # <<>> /\ UNCHANGED <<w, proto>>
  BY DEF extractArchive, request
<1>2. proto = "git" /\ isFile = FALSE /\ Rest(todo, w.pages[1]) /\ todo \in Seq(Entry)
  <2>1. proto = "git" /\ Rest(todo, w.pages[1]) /\ todo \in Seq(Entry) /\ isFile \in BOOLEAN
    BY <1>1 DEF Typed, Stream
  <2> QED BY <2>1 DEF ArchiveInv
<1>3. isFile' = isFile
  BY DEF extractArchive, Save, MakeDir, Skip, Advance, Fail
<1>4. e \in Entry /\ e.kind \in {"file", "dir", "link", "pax"}
  BY <1>1, <1>2, HeadTail DEF Entry
<1>5. CASE e.kind = "pax"
  <2>1. Skip
    BY <1>5 DEF extractArchive
  <2>2. pc' = pc /\ todo' = Tail(todo) /\ tree' = tree /\ left' = left /\ found' = found
    BY <2>1 DEF Skip, Advance
  <2> QED BY <1>1, <1>2, <1>3, <1>5, <2>2
<1>6. CASE e.kind # "pax"
  <2>1. StripTop(e, wrap) = rel /\ (e.kind # "dir" => rel # <<>>)
    BY <1>1, <1>6, Member
  <2> DEFINE sel == IsPrefix(w.subdir, rel) \/ (e.kind # "dir" /\ Front(rel) \in ancestorDirs(w.subdir))
  <2>2. cone.under = IsPrefix(w.subdir, rel) /\ (cone.selected <=> sel)
    BY <2>1 DEF archiveSelects
  <2>3. Taken(e) <=> e.kind \in {"file", "link"} /\ sel
    BY DEF Taken, archiveSelects
  <2>4. \/ containsDotDot(e.name) /\ Fail
        \/ ~containsDotDot(e.name) /\ (rel = <<>> \/ ~cone.selected) /\ Next1(0) /\ UNCHANGED <<tree, faults>>
        \/ ~containsDotDot(e.name) /\ e.kind = "dir" /\ MakeDir(p, Next1(0))
        \/ ~containsDotDot(e.name) /\ rel # <<>> /\ cone.selected /\ e.kind # "dir" /\ Save(e, p, copy, Next1(copy.n))
    BY <1>6, <2>1 DEF extractArchive
  <2> HIDE DEF wrap, cone, sel
  <2> DEFINE now == found' = (found \/ (rel # <<>> /\ IsPrefix(w.subdir, rel)))
  <2>5. \A n : Next1(n) => pc' = pc /\ todo' = Tail(todo) /\ left' = left - n /\ now
    BY <2>2
  <2> HIDE DEF now, Next1
  <2>6. CASE containsDotDot(e.name) /\ Fail
    BY <1>1, <1>2, <1>3, <1>6, <2>6 DEF Fail, Return
  <2>7. CASE ~containsDotDot(e.name) /\ (rel = <<>> \/ ~cone.selected) /\ Next1(0) /\ UNCHANGED <<tree, faults>>
    <3>1. ~Taken(e)
      BY <1>4, <2>1, <2>2, <2>3, <2>7
    <3>2. pc' = pc /\ todo' = Tail(todo) /\ tree' = tree /\ left' = left - 0 /\ now
      BY <2>5, <2>7
    <3> QED BY <1>1, <1>2, <1>3, <1>6, <2>7, <3>1, <3>2 DEF now
  <2>8. CASE ~containsDotDot(e.name) /\ e.kind = "dir" /\ MakeDir(p, Next1(0))
    <3>1. \/ tree' = MkdirAll(tree, p) /\ Next1(0)
          \/ pc' = "done" /\ ~CanMkdirAll(tree, p)
      BY <2>8 DEF MakeDir, Fail, Return
    <3>2. CASE tree' = MkdirAll(tree, p) /\ Next1(0)
      <4>1. pc' = pc /\ todo' = Tail(todo) /\ left' = left - 0 /\ now
        BY <2>5, <3>2
      <4> QED BY <1>1, <1>2, <1>3, <2>8, <3>2, <4>1 DEF now
    <3>3. CASE pc' = "done" /\ ~CanMkdirAll(tree, p)
      BY <1>1, <1>2, <1>3, <2>8, <3>3
    <3> QED BY <3>1, <3>2, <3>3
  <2>9. CASE ~containsDotDot(e.name) /\ rel # <<>> /\ cone.selected /\ e.kind # "dir" /\ Save(e, p, copy, Next1(copy.n))
    <3>1. \/ pc' = "done" /\ ~CanCreate(tree, p)
          \/ pc' = "done" /\ faults' = faults + 1
          \/ pc' = "done" /\ ~copy.ok
          \/ copy.ok /\ tree' = Create(tree, p, File(e, copy.n)) /\ Next1(copy.n)
      <4>1. CASE ~CanCreate(tree, p)
        BY <4>1, <2>9 DEF Save, Fail, Return
      <4>2. CASE CanCreate(tree, p)
        BY <4>2, <2>9 DEF Save, Fail, Return, Faulty
      <4> QED BY <4>1, <4>2
    <3>2. e.kind \in {"file", "link"} /\ Taken(e)
      BY <1>4, <1>6, <2>2, <2>3, <2>9
    <3>3. CASE copy.ok /\ tree' = Create(tree, p, File(e, copy.n)) /\ Next1(copy.n)
      <4>1. pc' = pc /\ todo' = Tail(todo) /\ left' = left - copy.n /\ now
        BY <2>5, <3>3
      <4>2. File(e, copy.n) # Dir
        BY NodeKinds, Zenon DEF File, Dir
      <4>3. \E node : node # Dir /\ tree' = Create(tree, p, node)
        BY <3>3, <4>2
      <4> QED BY <1>1, <1>2, <1>3, <2>9, <3>2, <3>3, <4>1, <4>3 DEF now
    <3>4. CASE pc' = "done" /\ ~CanCreate(tree, p)
      BY <1>1, <1>2, <1>3, <2>9, <3>2, <3>4
    <3>5. CASE pc' = "done" /\ faults' = faults + 1
      BY <1>1, <1>2, <1>3, <3>5
    <3>6. CASE pc' = "done" /\ ~copy.ok
      BY <1>1, <1>2, <1>3, <2>9, <3>2, <3>6
    <3> QED BY <3>1, <3>3, <3>4, <3>5, <3>6
  <2> QED BY <2>4, <2>6, <2>7, <2>8, <2>9
<1> QED BY <1>5, <1>6

\* Names with one head are as their tails are.
LEMMA TailPrefix ==
  ASSUME NEW a \in Seq(STRING), NEW b \in Seq(STRING), a # <<>>, b # <<>>, Head(a) = Head(b), IsPrefix(Tail(a), Tail(b))
  PROVE  IsPrefix(a, b)
<1>1. /\ Len(a) \in Nat \ {0} /\ Len(b) \in Nat \ {0} /\ Tail(a) \in Seq(STRING) /\ Tail(b) \in Seq(STRING)
      /\ Len(Tail(a)) = Len(a) - 1 /\ Len(Tail(b)) = Len(b) - 1 /\ a[1] = b[1]
      /\ \A i \in 1..Len(Tail(a)) : Tail(a)[i] = a[i + 1]
      /\ \A i \in 1..Len(Tail(b)) : Tail(b)[i] = b[i + 1]
  OBVIOUS
<1> DEFINE c == Tail(a)
           d == Tail(b)
<1> HIDE DEF c, d
<1>2. c \in Seq(STRING) /\ d \in Seq(STRING) /\ IsPrefix(c, d)
  BY <1>1 DEF c, d
<1>3. Len(c) <= Len(d) /\ \A i \in 1..Len(c) : c[i] = d[i]
  BY <1>2, PrefixAt
<1>4. Len(c) = Len(a) - 1 /\ Len(d) = Len(b) - 1 /\ \A i \in 1..Len(c) : c[i] = a[i + 1]
  BY <1>1 DEF c, d
<1>5. \A i \in 1..Len(d) : d[i] = b[i + 1]
  BY <1>1 DEF d
<1>6. ASSUME NEW i \in 1..Len(a) PROVE a[i] = b[i]
  <2>1. CASE i = 1
    BY <1>1, <2>1
  <2>2. CASE i # 1
    <3>1. PICK j \in Nat : i = j + 1 /\ j \in 1..Len(c) /\ j \in 1..Len(d)
      <4>1. i - 1 \in 1..Len(c) /\ i = (i - 1) + 1
        BY <1>1, <1>4, <2>2
      <4>2. i - 1 \in 1..Len(d)
        BY <1>1, <1>3, <1>4, <4>1
      <4> QED BY <4>1, <4>2
    <3> QED BY <3>1, <1>3, <1>4, <1>5
  <2> QED BY <2>1, <2>2
<1>7. Len(a) <= Len(b)
  BY <1>1, <1>3, <1>4
<1> QED BY <1>6, <1>7, PrefixAt

\* Where a member of a platform's archive would be without the directory around it
\* taken off.
LEMMA MemberBelow ==
  ASSUME NEW xs \in Seq(Entry), PlatformArchive(xs), NEW i \in DOMAIN xs, xs[i].kind # "pax", ~containsDotDot(xs[i].name)
  PROVE  /\ xs[i].name \in Seq(STRING) /\ xs[i].name # <<>> /\ Tail(xs[i].name) \in Seq(STRING)
         /\ Below(Root, xs[i]) = Root \o xs[i].name
<1>1. xs[i] \in Entry
  OBVIOUS
<1>2. xs[i].name \in Seq(STRING) /\ xs[i].name # <<>> /\ Avoids(xs[i].name, Still)
  BY <1>1, ArchiveName DEF Entry
<1> DEFINE name == xs[i].name
<1>3. ~Contains(name, "..")
  BY DEF containsDotDot
<1>4. \A k \in DOMAIN name : name[k] \notin Still /\ name[k] # ".."
  <2>1. DOMAIN name = 1..Len(name)
    BY <1>2
  <2>2. \A k \in 1..Len(name) : name[k] # ".."
    BY <1>3 DEF Contains
  <2> QED BY <1>2, <2>1, <2>2 DEF Avoids
<1>5. Avoids(name, Dots)
  BY <1>4 DEF Avoids, Dots
<1> HIDE DEF name
<1>6. Clean(Root \o name) = Root \o name
  BY <1>2, <1>5, CleanPlain DEF name
<1>7. name \in Seq(STRING) /\ name # <<>>
  BY <1>2 DEF name
<1>8. Tail(name) \in Seq(STRING)
  BY <1>7
<1>9. Below(Root, xs[i]) = Root \o name
  BY <1>6, Zenon DEF Below, name
<1> QED BY <1>7, <1>8, <1>9 DEF name

\* What is in the way of a member without that directory is so with it.
LEMMA MemberClash ==
  ASSUME NEW xs \in Seq(Entry), PlatformArchive(xs),
         NEW i \in DOMAIN xs, xs[i].kind # "pax", ~containsDotDot(xs[i].name),
         NEW j \in DOMAIN xs, xs[j].kind # "pax", ~containsDotDot(xs[j].name),
         xs[i].kind # "dir", IsPrefix(Spot(xs[i]), Spot(xs[j])), Spot(xs[i]) = Spot(xs[j]) => xs[j].kind = "dir"
  PROVE  Clash(Root, xs[i], xs[j])
<1>1. /\ xs[i].name \in Seq(STRING) /\ xs[i].name # <<>> /\ Below(Root, xs[i]) = Root \o xs[i].name
      /\ xs[j].name \in Seq(STRING) /\ xs[j].name # <<>> /\ Below(Root, xs[j]) = Root \o xs[j].name
      /\ Tail(xs[i].name) \in Seq(STRING) /\ Tail(xs[j].name) \in Seq(STRING)
  BY MemberBelow
<1>2. Head(xs[i].name) = Head(xs[j].name)
  BY ArchivePair
<1>3. IsPrefix(Tail(xs[i].name), Tail(xs[j].name))
  BY <1>1, RootAssumption, JoinedPrefix DEF Spot
<1>4. IsPrefix(xs[i].name, xs[j].name)
  BY <1>1, <1>2, <1>3, TailPrefix
<1>5. IsPrefix(Root \o xs[i].name, Root \o xs[j].name)
  BY <1>1, <1>4, RootAssumption, JoinedPrefix
<1>6. Root \o xs[i].name = Root \o xs[j].name => xs[i].name = xs[j].name
  BY <1>1, RootAssumption, JoinedSame
<1>7. xs[i].name = xs[j].name => Spot(xs[i]) = Spot(xs[j])
  BY DEF Spot
<1> QED BY <1>1, <1>5, <1>6, <1>7 DEF Clash

\* Without a clash every member has its place.
LEMMA MemberBlocked ==
  ASSUME NEW xs \in Seq(Entry), PlatformArchive(xs), NEW k \in DOMAIN xs, xs[k].kind # "pax", ~containsDotDot(xs[k].name),
         NEW S, NEW D, S \subseteq Nondirs(xs), D \subseteq Dirs(xs),
         \A i \in S \cup D : xs[i].kind # "pax" /\ ~containsDotDot(xs[i].name),
         NEW t, Explained(t, Root, S, D, Spots(xs)), Open(t, Root),
         \/ xs[k].kind = "dir" /\ ~CanMkdirAll(t, Spot(xs[k]))
         \/ xs[k].kind # "dir" /\ Tail(xs[k].name) # <<>> /\ ~CanCreate(t, Spot(xs[k]))
  PROVE  Bad(Root, ToSet(xs))
<1> DEFINE at == Spots(xs)
           p == Spot(xs[k])
           all == ToSet(xs)
           I == S \cup D \cup {k}
           Hits(i, j) == xs[i].kind # "dir" /\ IsPrefix(at[i], at[j]) /\ (at[i] # at[j] \/ xs[j].kind = "dir")
<1>1. \A i \in S \cup D \cup {k} : /\ i \in DOMAIN xs /\ at[i] = Spot(xs[i]) /\ xs[i] \in all
                                   /\ xs[i].kind # "pax" /\ ~containsDotDot(xs[i].name)
  <2>1. \A i \in S \cup D \cup {k} : i \in DOMAIN xs
    BY DEF Nondirs, Dirs
  <2> QED BY <2>1 DEF Spots, ToSet
<1>2. Tail(xs[k].name) \in Seq(STRING)
  BY MemberBelow
<1>3. p \in Seq(STRING) /\ IsPrefix(Root, p)
  BY <1>2, RootAssumption, PrefixOfJoined DEF Spot
<1>4. xs[k].kind # "dir" /\ Tail(xs[k].name) # <<>> => p # Root
  <2> DEFINE rel == Tail(xs[k].name)
  <2>1. Len(Root \o rel) = Len(Root) + Len(rel) /\ Len(Root) \in Nat /\ Len(rel) \in Nat
    BY <1>2, RootAssumption
  <2>2. rel \in Seq(STRING)
    BY <1>2
  <2>3. p = Root \o rel
    BY DEF Spot
  <2> HIDE DEF rel, p
  <2>4. rel # <<>> => Len(rel) # 0
    BY <2>2
  <2> QED BY <2>1, <2>3, <2>4 DEF rel
<1>5. k \in I /\ S \subseteq I /\ D \subseteq I
  OBVIOUS
<1> SUFFICES Bad(Root, all)
  OBVIOUS
<1> HIDE DEF at, p, all, I
<1>6. ASSUME NEW i \in I, NEW j \in I, Hits(i, j) PROVE Bad(Root, all)
  <2>1. /\ i \in DOMAIN xs /\ at[i] = Spot(xs[i]) /\ xs[i] \in all /\ xs[i].kind # "pax" /\ ~containsDotDot(xs[i].name)
        /\ j \in DOMAIN xs /\ at[j] = Spot(xs[j]) /\ xs[j] \in all /\ xs[j].kind # "pax" /\ ~containsDotDot(xs[j].name)
    BY <1>1 DEF I
  <2>2. Clash(Root, xs[i], xs[j])
    BY <1>6, <2>1, MemberClash
  <2> QED BY <2>1, <2>2 DEF Bad
<1>7. p = at[k]
  BY <1>1 DEF p
<1>8. CASE xs[k].kind = "dir" /\ ~CanMkdirAll(t, p)
  <2>1. PICK i \in S : IsPrefix(at[i], p)
    BY <1>3, <1>8, RootAssumption, MkdirAllBlocked DEF at
  <2>2. xs[i].kind # "dir" /\ i \in I
    BY <1>5 DEF Nondirs
  <2>3. Hits(i, k)
    BY <2>1, <2>2, <1>7, <1>8
  <2> HIDE DEF Hits
  <2> QED BY <2>2, <2>3, <1>5, <1>6
<1>9. CASE xs[k].kind # "dir" /\ Tail(xs[k].name) # <<>> /\ ~CanCreate(t, p)
  <2>1. \/ \E i \in S : (IsPrefix(at[i], p) /\ at[i] # p) \/ (IsPrefix(p, at[i]) /\ p # at[i])
        \/ \E i \in D : IsPrefix(p, at[i])
    BY <1>3, <1>4, <1>9, RootAssumption, CreateBlocked DEF at
  <2>2. CASE \E i \in S : (IsPrefix(at[i], p) /\ at[i] # p) \/ (IsPrefix(p, at[i]) /\ p # at[i])
    <3>1. PICK i \in S : (IsPrefix(at[i], p) /\ at[i] # p) \/ (IsPrefix(p, at[i]) /\ p # at[i])
      BY <2>2
    <3>2. xs[i].kind # "dir" /\ xs[k].kind # "dir" /\ i \in I
      BY <1>5, <1>9 DEF Nondirs
    <3>3. Hits(i, k) \/ Hits(k, i)
      BY <3>1, <3>2, <1>7
    <3> HIDE DEF Hits
    <3> QED BY <3>2, <3>3, <1>5, <1>6
  <2>3. CASE \E i \in D : IsPrefix(p, at[i])
    <3>1. PICK i \in D : IsPrefix(p, at[i])
      BY <2>3
    <3>2. xs[i].kind = "dir" /\ xs[k].kind # "dir" /\ i \in I
      BY <1>5, <1>9 DEF Dirs
    <3>3. Hits(k, i)
      BY <3>1, <3>2, <1>7
    <3> HIDE DEF Hits
    <3> QED BY <3>2, <3>3, <1>5, <1>6
  <2> QED BY <2>1, <2>2, <2>3
<1> QED BY <1>8, <1>9 DEF p, all

LEMMA ArchiveReadSame ==
  ASSUME UNCHANGED <<w, proto, isFile>>, NEW S, S = 1..(Len(w.pages[1]) - Len(todo')),
         Explained(tree', Root, S \cap (Nondirs(w.pages[1]) \cap Members(w.pages[1])), S \cap Dirs(w.pages[1]), Spots(w.pages[1])),
         limited => left' = Unused(w.pages[1], S \cap Selected),
         \A i \in S \cap Members(w.pages[1]) :
           ~containsDotDot(w.pages[1][i].name) /\ (w.subdir # <<>> /\ ~found' => ~IsPrefix(w.subdir, Tail(w.pages[1][i].name)))
  PROVE  ArchiveRead(w.pages[1])'
<1>1. Selected' = Selected /\ limited' = limited
  BY DEF Selected, ByGit, Commit, limited
<1>2. Explained(tree, Root, Came(w.pages[1]) \cap (Nondirs(w.pages[1]) \cap Members(w.pages[1])), Came(w.pages[1]) \cap Dirs(w.pages[1]), Spots(w.pages[1]))'
  BY DEF Came, Nondirs, Dirs, Members, Spots, Spot
<1>3. Spent(w.pages[1], Came(w.pages[1]) \cap Selected)'
  BY <1>1 DEF Spent, Unused, BytesOf, Came
<1>4. (\A i \in Came(w.pages[1]) \cap Members(w.pages[1]) :
         ~containsDotDot(w.pages[1][i].name) /\ (w.subdir # <<>> /\ ~found => ~IsPrefix(w.subdir, Tail(w.pages[1][i].name))))'
  BY DEF Came, Members
<1> QED BY <1>2, <1>3, <1>4 DEF ArchiveRead

LEMMA ArchiveStartReason ==
  ASSUME Typed, Placed, fetchArchive, pc' = "archived"
  PROVE  ArchiveRead(w.pages[1])'
<1>1. pc = "archive" /\ UNCHANGED <<w, proto, isFile, tree>> /\ todo' = w.pages[1] /\ left' = w.s.maxBytes
  BY DEF fetchArchive, Fail, Return, Goto
<1>2. tree' = Fresh /\ w.pages[1] \in Seq(Entry) /\ w.s.maxBytes \in 0..MaxInt
  BY <1>1, WorldTypes DEF Placed, Unwritten, Typed, Chosen, Settings
<1> DEFINE xs == w.pages[1]
           S == {}
<1>3. S = 1..(Len(w.pages[1]) - Len(todo'))
  <2>1. Len(w.pages[1]) - Len(todo') = 0
    BY <1>1, <1>2
  <2> QED BY <2>1
<1>4. Explained(tree', Root, S \cap (Nondirs(xs) \cap Members(xs)), S \cap Dirs(xs), Spots(xs))
  BY <1>2, ExplainedFresh
<1>5. left' = Unused(xs, S \cap Selected)
  <2>1. S \cap Selected = {}
    OBVIOUS
  <2>2. Cardinality(BytesOf(xs, {})) = 0
    BY BytesOfNone
  <2>3. w.s.maxBytes - 0 = w.s.maxBytes
    BY <1>2, MaxIntAssumption
  <2> QED BY <1>1, <2>1, <2>2, <2>3 DEF Unused
<1> HIDE DEF S
<1>6. S = {}
  BY DEF S
<1> QED BY <1>1, <1>3, <1>4, <1>5, <1>6, ArchiveReadSame

LEMMA ArchiveEndReason ==
  ASSUME Typed, ArchiveEnd, pc' = "done", ArchiveRead(w.pages[1])
  PROVE  Cause
<1>1. pc = "archived" /\ todo = <<>> /\ w.subdir # <<>> /\ ~found
  BY DEF ArchiveEnd, Downloaded, Goto
<1>2. proto = "git" /\ World(w)
  BY <1>1 DEF Typed, Stream, Chosen
<1>3. PICK xs \in Seq(Entry) : xs = w.pages[1]
  BY <1>2, WorldTypes
<1>4. Came(xs) = DOMAIN xs
  BY <1>1, <1>3, AllCame
<1>5. \A i \in DOMAIN xs : xs[i].kind # "pax" => ~IsPrefix(w.subdir, Tail(xs[i].name))
  BY <1>1, <1>3, <1>4 DEF ArchiveRead, Members
<1>6. ASSUME NEW x \in Commit PROVE ~IsPrefix(w.subdir, x.name)
  <2>1. PICK y \in ToSet(xs) : y.kind # "pax" /\ x = [y EXCEPT !.name = Tail(y.name)]
    BY <1>3 DEF Commit
  <2>2. PICK i \in DOMAIN xs : y = xs[i]
    BY DEF ToSet
  <2>3. y \in Entry
    BY <2>2
  <2>4. x.name = Tail(y.name)
    BY <2>1, <2>3 DEF Entry
  <2> QED BY <1>5, <2>1, <2>2, <2>4
<1> QED BY <1>1, <1>2, <1>6 DEF Cause, NoSubdir

LEMMA TurnOf == ASSUME NEW a \in Nat, NEW b \in Nat, NEW k, k = a - b + 1 PROVE a - b = k - 1 /\ a - (b - 1) = k
OBVIOUS

\* What a member of a platform's archive uses of the limit.
LEMMA MemberUses ==
  ASSUME Typed, pc = "archived", todo # <<>>, limited, NEW copy, copy = writeArchiveFile(Bytes(e), limited, left)
  PROVE  /\ e.kind = "file" => copy = writeFile(e.len, TRUE, left)
         /\ e.kind = "link" => copy.n = 0 /\ copy.ok
<1>1. todo \in Seq(Entry) /\ left \in Int /\ left >= 0 /\ World(w)
  BY DEF Typed, Chosen, Stream
<1>2. e \in Entry /\ e.len \in Nat /\ Bytes(e) \in Nat
  BY <1>1, HeadTail
<1>3. limited = TRUE
  <2>1. limited \in BOOLEAN
    BY DEF limited
  <2> QED BY <2>1
<1>4. copy = writeFile(Bytes(e), TRUE, left)
  BY <1>1, <1>2, <1>3, CopyFits
<1>5. e.kind = "file" => Bytes(e) = e.len
  BY DEF Bytes
<1>6. ASSUME e.kind = "link" PROVE copy.n = 0 /\ copy.ok
  <2>1. copy = writeFile(0, TRUE, left)
    BY <1>4, <1>6 DEF Bytes
  <2>2. writeFile(0, TRUE, left).n \in 0..0
    BY <1>1, CopyFits
  <2>3. writeFile(0, TRUE, left).ok = (writeFile(0, TRUE, left).n <= left)
    BY DEF writeFile
  <2>4. 0 <= left
    BY <1>1
  <2>5. writeFile(0, TRUE, left).n = 0
    <3>1. PICK n \in 0..0 : n = writeFile(0, TRUE, left).n
      BY <2>2
    <3>2. n = 0
      OBVIOUS
    <3> QED BY <3>1, <3>2
  <2>6. writeFile(0, TRUE, left).ok
    BY <2>3, <2>4, <2>5
  <2> QED BY <2>1, <2>5, <2>6
<1> QED BY <1>4, <1>5, <1>6

LEMMA ArchiveReason ==
  ASSUME Typed, Placed, ArchiveInv, extractArchive, ArchiveRead(w.pages[1])
  PROVE  /\ pc' = "archived" => ArchiveRead(w.pages[1])'
         /\ pc' = "done" /\ faults' = 0 => Cause
<1> PICK copy : copy = writeArchiveFile(Bytes(e), limited, left)
  OBVIOUS
<1> PICK rel : rel = Tail(e.name)
  OBVIOUS
<1> PICK p : p = Root \o rel
  OBVIOUS
<1> DEFINE now == found' = (found \/ (rel # <<>> /\ IsPrefix(w.subdir, rel)))
<1>1. /\ pc = "archived" /\ todo # <<>> /\ proto = "git" /\ UNCHANGED <<w, proto, isFile>> /\ isFile = FALSE
      /\ Rest(todo, w.pages[1])
  BY ArchiveCases
<1>2. \/ /\ pc' = pc /\ todo' = Tail(todo) /\ tree' = tree /\ left' = left /\ found' = found
         /\ e.kind = "pax"
      \/ pc' = "done" /\ e.kind # "pax" /\ containsDotDot(e.name)
      \/ /\ pc' = pc /\ todo' = Tail(todo) /\ tree' = tree /\ left' = left - 0 /\ now
         /\ e.kind # "pax" /\ ~containsDotDot(e.name) /\ ~Taken(e)
      \/ /\ pc' = pc /\ todo' = Tail(todo) /\ tree' = MkdirAll(tree, p) /\ left' = left - 0 /\ now
         /\ e.kind = "dir" /\ ~containsDotDot(e.name)
      \/ /\ pc' = pc /\ todo' = Tail(todo) /\ left' = left - copy.n /\ copy.ok /\ now
         /\ e.kind \in {"file", "link"} /\ ~containsDotDot(e.name) /\ Taken(e)
         /\ \E node : node # Dir /\ tree' = Create(tree, p, node)
      \/ pc' = "done" /\ e.kind = "dir" /\ ~containsDotDot(e.name) /\ ~CanMkdirAll(tree, p)
      \/ pc' = "done" /\ e.kind \in {"file", "link"} /\ ~containsDotDot(e.name) /\ rel # <<>> /\ ~CanCreate(tree, p)
      \/ pc' = "done" /\ e.kind \in {"file", "link"} /\ ~containsDotDot(e.name) /\ Taken(e) /\ ~copy.ok
      \/ pc' = "done" /\ faults' = faults + 1
  BY ArchiveCases
<1>3. World(w) /\ Protocol(w.url) = "git" /\ left \in Int /\ (limited => left >= 0) /\ faults \in Nat
  <2>1. World(w) /\ Protocol(w.url) = "git" /\ left \in Int /\ (limited => left >= 0) /\ faults \in 0..MaxFaults
    BY <1>1 DEF Typed, Chosen, Stream, Control
  <2> QED BY <2>1, MaxFaultsAssumption
<1>4. w.subdir \in Seq(STRING) /\ w.s.maxBytes \in 0..MaxInt /\ Len(w.pages) = 1 /\ PlatformArchive(w.pages[1])
  <2>1. w.subdir \in Seq(STRING) /\ w.s.maxBytes \in 0..MaxInt
    BY <1>3, WorldTypes DEF Settings
  <2>2. PlatformArchive(w.pages[1])
    BY <1>3, WorldTypes
  <2>3. Len(w.pages) = 1
    BY <1>3, WorldsAssumption DEF World
  <2> QED BY <2>1, <2>2, <2>3
<1>5. PICK xs \in Seq(Entry) : xs = w.pages[1]
  BY <1>3, WorldTypes
<1>6. Rest(todo, xs) /\ PlatformArchive(xs)
  BY <1>1, <1>4, <1>5
<1>7. PICK k \in DOMAIN xs : k = Len(xs) - Len(todo) + 1 /\ e = xs[k]
  <2>1. Len(xs) - Len(todo) + 1 \in 1..Len(xs) /\ e = xs[Len(xs) - Len(todo) + 1]
    BY <1>1, <1>5, <1>6, RestTail DEF e
  <2> QED BY <2>1
<1>8. e \in Entry /\ e.name \in Seq(STRING) /\ e \in ToSet(xs) /\ e.kind \in {"file", "dir", "link", "pax"}
  <2>1. e \in Entry
    BY <1>7
  <2> QED BY <1>7, <2>1 DEF Entry, ToSet
<1>9. e.kind # "pax" => /\ e.name # <<>> /\ rel \in Seq(STRING) /\ (e.kind # "dir" => rel # <<>>)
  <2> HAVE e.kind # "pax"
  <2>1. e.name # <<>> /\ (e.kind = "dir" \/ Len(e.name) > 1)
    BY <1>6, <1>7, ArchiveName
  <2>2. Tail(e.name) \in Seq(STRING)
    BY <1>8, <2>1, TailType
  <2>3. e.kind # "dir" => rel # <<>>
    BY <1>8, <2>1, LongTail
  <2> QED BY <2>1, <2>2, <2>3
<1>10. PICK T \in SUBSET (1..Len(xs)) : T = Selected
  <2>1. Selected \subseteq DOMAIN xs
    BY <1>5 DEF Selected
  <2> QED BY <2>1
<1>11. k \in T <=> e.kind = "file" /\ Taken(e)
  <2>1. k \in T <=> e.kind = "file" /\ [e EXCEPT !.name = Tail(e.name)] \in ByGit
    BY <1>5, <1>7, <1>10 DEF Selected
  <2>2. e.kind = "file" => (Taken(e) <=> [e EXCEPT !.name = Tail(e.name)] \in ByGit)
    <3> HAVE e.kind = "file"
    <3>1. e.name # <<>> /\ Tail(e.name) # <<>>
      BY <1>9
    <3> QED BY <3>1, <1>4, <1>5, <1>8, TakenByGit
  <2> QED BY <2>1, <2>2
<1>12. Explained(tree, Root, Came(xs) \cap (Nondirs(xs) \cap Members(xs)), Came(xs) \cap Dirs(xs), Spots(xs))
  BY <1>5 DEF ArchiveRead
<1>13. Spent(xs, Came(xs) \cap T)
  BY <1>5, <1>10 DEF ArchiveRead
<1>14. \A i \in Came(xs) \cap Members(xs) :
         ~containsDotDot(xs[i].name) /\ (w.subdir # <<>> /\ ~found => ~IsPrefix(w.subdir, Tail(xs[i].name)))
  BY <1>5 DEF ArchiveRead
<1>15. Spots(xs)[k] = p /\ Spot(xs[k]) = p /\ (e.kind # "pax" => p \in Seq(STRING) /\ p # <<>>)
  <2>1. Spot(xs[k]) = p /\ Spots(xs)[k] = Spot(xs[k])
    BY <1>7 DEF Spot, Spots
  <2>2. e.kind # "pax" => p \in Seq(STRING) /\ IsPrefix(Root, p)
    BY <1>9, RootAssumption, PrefixOfJoined
  <2>3. e.kind # "pax" => p # <<>>
    BY <2>2, RootAssumption, PrefixAt
  <2> QED BY <2>1, <2>2, <2>3
<1>16. /\ k \in Dirs(xs) <=> e.kind = "dir"
       /\ k \in Nondirs(xs) \cap Members(xs) <=> e.kind \in {"file", "link"}
       /\ k \in Members(xs) <=> e.kind # "pax"
  BY <1>7, <1>8 DEF Dirs, Nondirs, Members
<1> HIDE DEF now
<1>17. ASSUME pc' = "archived" PROVE ArchiveRead(w.pages[1])'
  <2> DEFINE S == 1..(Len(xs) - Len(todo'))
  <2>1. /\ todo' = Tail(todo)
        /\ (e.kind = "pax" /\ found' = found) \/ (now /\ e.kind # "pax" /\ ~containsDotDot(e.name))
        /\ \/ tree' = tree /\ left' = left /\ k \notin T
           \/ tree' = MkdirAll(tree, p) /\ left' = left /\ k \notin T /\ e.kind = "dir"
           \/ /\ e.kind \in {"file", "link"} /\ left' = left - copy.n /\ copy.ok
              /\ e.kind = "file" => k \in T
              /\ \E node : node # Dir /\ tree' = Create(tree, p, node)
    <3>1. left - 0 = left
      BY <1>3
    <3> QED BY <1>1, <1>2, <1>11, <1>17, <3>1
  <2>2. Explained(tree', Root, S \cap (Nondirs(xs) \cap Members(xs)), S \cap Dirs(xs), Spots(xs))
    <3>1. \/ tree' = tree
          \/ p \in Seq(STRING) /\ k \in Dirs(xs) /\ tree' = MkdirAll(tree, p)
          \/ /\ p \in Seq(STRING) /\ p # <<>> /\ k \in Nondirs(xs) \cap Members(xs)
             /\ \E node : node # Dir /\ tree' = Create(tree, p, node)
      BY <1>15, <1>16, <2>1
    <3> DEFINE N == Nondirs(xs) \cap Members(xs)
    <3>2. k \in Nondirs(xs) \cap Members(xs) <=> k \in N
      OBVIOUS
    <3> HIDE DEF N
    <3>3. Explained(tree, Root, Came(xs) \cap N, Came(xs) \cap Dirs(xs), Spots(xs))
      BY <1>12 DEF N
    <3>4. LET Z == 1..(Len(xs) - Len(Tail(todo)))
          IN  Explained(tree', Root, Z \cap N, Z \cap Dirs(xs), Spots(xs))
      BY <1>1, <1>6, <1>7, <1>15, <3>1, <3>2, <3>3, ExplainedNext
    <3> QED BY <2>1, <3>4 DEF N
  <2>3. limited => left' = Unused(xs, S \cap T)
    <3> SUFFICES ASSUME limited PROVE left' = Unused(xs, S \cap T)
      OBVIOUS
    <3> DEFINE n == IF k \in T THEN copy.n ELSE 0
    <3>1. left' = left - n
      <4>1. left - 0 = left
        BY <1>3
      <4>2. e.kind = "link" => copy.n = 0
        BY <1>1, MemberUses
      <4>3. e.kind = "link" => k \notin T
        BY <1>11
      <4> QED BY <2>1, <4>1, <4>2, <4>3
    <3>2. Uses(xs, T, n, left')
      <4>1. k \in T => copy.ok /\ copy = writeFile(e.len, TRUE, left)
        <5>1. k \in T => e.kind = "file"
          BY <1>11
        <5> QED BY <1>1, <2>1, <5>1, MemberUses
      <4> HIDE DEF S
      <4>2. /\ k \in T => writeFile(xs[k].len, TRUE, left).ok /\ n = writeFile(xs[k].len, TRUE, left).n
            /\ k \notin T => n = 0
        BY <1>7, <4>1
      <4> HIDE DEF n
      <4> QED BY <1>7, <3>1, <4>2 DEF Uses
    <3> HIDE DEF n
    <3>3. PICK rest, m : rest = left' /\ m = n
      OBVIOUS
    <3>4. Uses(xs, T, m, rest)
      BY <3>2, <3>3
    <3>5. rest = Unused(xs, (1..(Len(xs) - Len(Tail(todo)))) \cap T)
      BY <1>1, <1>3, <1>4, <1>6, <1>13, <3>4, SpentNext
    <3>6. S = 1..(Len(xs) - Len(Tail(todo)))
      BY <2>1
    <3> HIDE DEF S
    <3> QED BY <3>3, <3>5, <3>6
  <2>4. ASSUME NEW i \in S \cap Members(xs)
        PROVE  ~containsDotDot(xs[i].name) /\ (w.subdir # <<>> /\ ~found' => ~IsPrefix(w.subdir, Tail(xs[i].name)))
    <3>1. found' = FALSE => found = FALSE
      <4>1. found \in BOOLEAN
        BY DEF Typed, Stream
      <4> QED BY <2>1, <4>1 DEF now
    <3>2. i \in Came(xs) \/ i = k
      <4>1. Len(xs) - Len(Tail(todo)) = k /\ k \in Nat
        <5>1. Len(Tail(todo)) = Len(todo) - 1 /\ Len(todo) \in Nat /\ Len(xs) \in Nat
          BY <1>1, <1>5, <1>6, RestTail DEF Rest
        <5> HIDE DEF S
        <5>2. Len(xs) - (Len(todo) - 1) = k
          BY <1>7, <5>1, TurnOf
        <5>3. k \in Nat
          BY <1>7
        <5> QED BY <5>1, <5>2, <5>3
      <4>2. i \in 1..k
        BY <2>1, <2>4, <4>1
      <4>3. Came(xs) = 1..(k - 1)
        <5>1. Len(todo) \in Nat /\ Len(xs) \in Nat
          BY <1>6 DEF Rest
        <5>2. Len(xs) - Len(todo) = k - 1
          BY <1>7, <5>1, TurnOf
        <5> HIDE DEF S
        <5> QED BY <5>2, Zenon DEF Came
      <4> QED BY <4>1, <4>2, <4>3
    <3>3. CASE i \in Came(xs)
      BY <1>14, <2>4, <3>1, <3>3
    <3>4. CASE i = k
      <4>1. e.kind # "pax" /\ e = xs[i] /\ rel = Tail(xs[i].name)
        BY <1>7, <1>16, <2>4, <3>4
      <4>2. ~containsDotDot(e.name) /\ now
        BY <2>1, <4>1
      <4>3. w.subdir # <<>> => ~IsPrefix(w.subdir, <<>>)
        <5>1. Len(<<>>) = 0 /\ <<>> \in Seq(STRING) /\ (w.subdir # <<>> => Len(w.subdir) # 0) /\ Len(w.subdir) \in Nat
          BY <1>4
        <5>2. IsPrefix(w.subdir, <<>>) => Len(w.subdir) <= Len(<<>>)
          BY <1>4, <5>1, PrefixAt
        <5> QED BY <5>1, <5>2
      <4>4. rel # <<>> /\ IsPrefix(w.subdir, rel) => found' = TRUE
        BY <4>2 DEF now
      <4> QED BY <4>1, <4>2, <4>3, <4>4
    <3> QED BY <3>2, <3>3, <3>4
  <2> HIDE DEF S
  <2>5. S = 1..(Len(w.pages[1]) - Len(todo'))
    BY <1>5 DEF S
  <2> QED BY <1>1, <1>5, <1>10, <2>2, <2>3, <2>4, <2>5, ArchiveReadSame
<1>18. ASSUME pc' = "done", faults' = 0 PROVE Cause
  <2>1. faults' # faults + 1
    BY <1>3, <1>18
  <2>2. ~Unpacks
    BY <1>1 DEF Unpacks
  <2>3. Bad(Root, ToSet(xs)) => Cause
    <3>1. ~OneFile(w, proto)
      BY <1>1 DEF OneFile
    <3>2. Arrives = xs
      BY <2>2, <1>3, <1>4, <1>5, OnePage DEF Arrives
    <3>3. {x \in ToSet(Arrives) : x.kind # "dir" \/ proto = "git"} = ToSet(xs)
      BY <1>1, <3>2
    <3> QED BY <2>2, <3>1, <3>3 DEF Cause, Misplaced
  <2>4. CASE e.kind # "pax" /\ containsDotDot(e.name)
    BY <2>4, <1>1, <1>5, <1>8 DEF Cause, Misplaced
  <2>5. CASE /\ e.kind # "pax" /\ ~containsDotDot(e.name)
             /\ \/ e.kind = "dir" /\ ~CanMkdirAll(tree, p)
                \/ e.kind # "dir" /\ rel # <<>> /\ ~CanCreate(tree, p)
    <3> DEFINE A == Came(xs) \cap (Nondirs(xs) \cap Members(xs))
               B == Came(xs) \cap Dirs(xs)
    <3>1. A \subseteq Nondirs(xs) /\ B \subseteq Dirs(xs) /\ Open(tree, Root)
      BY <1>1, PlacedWithin, OpenRoot
    <3>2. \A i \in A \cup B : xs[i].kind # "pax" /\ ~containsDotDot(xs[i].name)
      <4>1. A \cup B \subseteq Came(xs) \cap Members(xs)
        BY DEF Dirs, Members
      <4> QED BY <4>1, <1>14 DEF Members
    <3>3. Explained(tree, Root, A, B, Spots(xs))
      BY <1>12
    <3> HIDE DEF A, B
    <3>4. /\ xs[k].kind # "pax" /\ ~containsDotDot(xs[k].name)
          /\ \/ xs[k].kind = "dir" /\ ~CanMkdirAll(tree, Spot(xs[k]))
             \/ xs[k].kind # "dir" /\ Tail(xs[k].name) # <<>> /\ ~CanCreate(tree, Spot(xs[k]))
      BY <1>7, <1>15, <2>5
    <3>5. Bad(Root, ToSet(xs))
      BY <1>6, <3>1, <3>2, <3>3, <3>4, MemberBlocked
    <3> QED BY <2>3, <3>5
  <2>6. CASE e.kind \in {"file", "link"} /\ Taken(e) /\ ~copy.ok
    <3>1. limited
      <4> SUFFICES ASSUME ~limited PROVE FALSE
        OBVIOUS
      <4>1. copy.ok
        BY DEF writeArchiveFile
      <4> QED BY <4>1, <2>6
    <3>2. e.kind = "file" /\ copy = writeFile(e.len, TRUE, left)
      BY <1>1, <2>6, <3>1, MemberUses
    <3>3. k \in T /\ ~writeFile(xs[k].len, TRUE, left).ok
      BY <1>7, <1>11, <2>6, <3>2
    <3>4. Cardinality(BytesOf(xs, T)) > w.s.maxBytes
      BY <1>1, <1>3, <1>4, <1>6, <1>7, <1>13, <3>1, <3>3, SpentExceeds
    <3>5. TooLarge
      BY <1>1, <1>5, <1>10, <2>2, <3>1, <3>4 DEF TooLarge
    <3> QED BY <3>5 DEF Cause
  <2>7. pc # "done"
    BY <1>1
  <2> QED BY <1>2, <1>18, <2>1, <2>4, <2>5, <2>6, <2>7
<1> QED BY <1>17, <1>18

-----------------------------------------------------------------------------
(***************************************************************************)
(* The other steps are refused for what the world does.                    *)
(***************************************************************************)
\* A file can be made in the empty staging directory, under any name but a few.
LEMMA ChildCreated ==
  ASSUME NEW name \in STRING
  PROVE  /\ CanCreate(Fresh, Append(Root, name))
         /\ \A node : Ready(Create(Fresh, Append(Root, name), node))
<1>p. PICK p : p = Append(Root, name)
  OBVIOUS
<1>0. Root \in Seq(STRING)
  BY RootAssumption
<1>a. Front(p) = Root /\ p # <<>>
  BY <1>0, <1>p, FrontAppend
<1>b. p \in Seq(STRING) /\ Len(p) = Len(Root) + 1
  BY <1>0, <1>p, PrefixOfChild
<1>1. Len(Root) \in Nat /\ p # Root
  BY <1>0, <1>b
<1>2. CanCreate(Fresh, p)
  <2>1. p \notin DOMAIN Fresh
    BY <1>p, ChildNotFresh
  <2>2. CanMkdirAll(Fresh, Root)
    BY DEF CanMkdirAll, Fresh
  <2> QED BY <1>a, <2>1, <2>2 DEF CanCreate, IsDir
<1>3. ASSUME NEW node PROVE Ready(Create(Fresh, p, node))
  <2> PICK t : t = Create(Fresh, p, node)
    OBVIOUS
  <2>1. DOMAIN t = DOMAIN Fresh \cup {p} /\ (\A q \in DOMAIN Fresh : q # p => t[q] = Fresh[q])
    BY <1>a DEF Create, Put, MkdirAll, Fresh
  <2>2. Root \in DOMAIN Fresh /\ Root # p
    BY <1>0, <1>1, PrefixesOf DEF Fresh
  <2>3. IsDir(t, Root)
    BY <2>1, <2>2 DEF IsDir, Fresh
  <2>4. ASSUME NEW q \in DOMAIN t, IsPrefix(Out, q) PROVE q = Out
    <3>1. CASE q = p
      <4>1. Out \in Seq(STRING) /\ Len(Out) = Len(p)
        BY <1>b, OutBelow
      <4>2. IsPrefix(p, p)
        BY <1>b, PrefixAt
      <4> QED BY <1>b, <2>4, <3>1, <4>1, <4>2, PrefixesMeet
    <3>2. CASE q \in DOMAIN Fresh
      <4>1. q \in Seq(STRING) /\ IsPrefix(q, Root)
        BY <1>0, <3>2, PrefixesOf DEF Fresh
      <4>2. Len(q) <= Len(Root) /\ Len(q) \in Nat
        BY <1>0, <4>1, PrefixAt
      <4>3. Out \in Seq(STRING) /\ Len(Out) = Len(Root) + 1
        BY OutBelow
      <4>4. Len(Out) <= Len(q)
        BY <2>4, <4>1, <4>3, PrefixAt
      <4> QED BY <1>1, <4>2, <4>3, <4>4
    <3> QED BY <2>1, <3>1, <3>2
  <2> QED BY <2>3, <2>4 DEF Ready
<1> QED BY <1>p, <1>2, <1>3

\* What lies outside the staging directory leaves it ready.
LEMMA ReadyBeside ==
  ASSUME NEW p \in Seq(STRING), Front(p) \in DOMAIN Fresh, ~IsPrefix(Root, p), NEW node
  PROVE  Ready(Create(Fresh, p, node))
<1> PICK t : t = Create(Fresh, p, node)
  OBVIOUS
<1>1. DOMAIN t = DOMAIN Fresh \cup {p} /\ \A q \in DOMAIN Fresh : q # p => t[q] = Dir
  BY MadeInFresh
<1>2. Root \in Seq(STRING) /\ Root \in DOMAIN Fresh /\ IsPrefix(Root, Root)
  BY RootAssumption, PrefixesOf, PrefixAt DEF Fresh
<1>3. IsDir(t, Root)
  BY <1>1, <1>2 DEF IsDir
<1>4. ASSUME NEW q \in DOMAIN t, IsPrefix(Out, q) PROVE FALSE
  <2>1. q \in Seq(STRING) /\ (q # p => IsPrefix(q, Root))
    BY <1>1, RootAssumption, PrefixesOf DEF Fresh
  <2>2. IsPrefix(Root, q)
    BY <1>2, <1>4, <2>1, OutBelow, PrefixTransitive
  <2>3. IsPrefix(q, Root)
    BY <2>1, <2>2
  <2>4. Len(Out) <= Len(q) /\ Len(q) <= Len(Root) /\ Len(Out) = Len(Root) + 1 /\ Len(Root) \in Nat /\ Len(q) \in Nat
    BY <1>2, <1>4, <2>1, <2>3, OutBelow, PrefixAt
  <2> QED BY <2>4
<1> QED BY <1>3, <1>4 DEF Ready

\* In the staging directory there is a place for the one file.
LEMMA BodyPlace ==
  ASSUME World(w), proto = Protocol(w.url), proto \in {"http", "s3", "gcs"}, OneFile(w, proto), ~Aside
  PROVE  IsDir(Fresh, Front(FilePlace)) /\ CanCreate(Fresh, FilePlace)
<1>1. Only.name \in Seq(STRING) /\ Last(Only.name) \in STRING /\ Root \in Seq(STRING)
  BY OnlyEntry, RootAssumption
<1>2. FilePlace \in Seq(STRING)
  <2>1. Root \o Only.name \in Seq(STRING)
    BY <1>1, PrefixOfJoined
  <2>2. Append(Root, Last(Only.name)) \in Seq(STRING)
    BY <1>1, PrefixOfChild
  <2> QED BY <2>1, <2>2, CleanType DEF FilePlace
<1>3. Front(FilePlace) = Root
  BY DEF Aside
<1>4. FilePlace # <<>>
  BY <1>3, RootAssumption DEF Front
<1> PICK p \in Seq(STRING) : p = FilePlace
  BY <1>2
<1> PICK seg \in STRING : seg = Last(p)
  BY <1>4, LastType
<1>5. p = Append(Root, seg)
  BY <1>3, <1>4 DEF Front, Last
<1>6. IsDir(Fresh, Root)
  BY RootAssumption, PrefixesOf DEF IsDir, Fresh
<1> QED BY <1>3, <1>5, <1>6, ChildCreated

\* One file is downloaded.
LEMMA BodyReason ==
  ASSUME Typed, Placed, OutBudget, Body
  PROVE  /\ pc' = "extract" => Ready(tree')
         /\ pc' = "done" /\ faults' = 0 => Cause
<1> PICK p : p = FilePlace
  OBVIOUS
<1> PICK copy : copy = Copy(Only.len, w.s.maxBytes)
  OBVIOUS
<1>1. /\ pc = "body"
      /\ \/ /\ pc' = "extract" /\ IsDir(tree, Front(p)) /\ CanCreate(tree, p)
            /\ tree' = Create(tree, p, File(Only, copy.n))
         \/ pc' = "done" /\ faults' = faults + 1
         \/ pc' = "done" /\ ~copy.ok
         \/ pc' = "done" /\ ~(IsDir(tree, Front(p)) /\ CanCreate(tree, p))
  BY DEF Body, Save, Downloaded, Fail, Return, Goto, Faulty
<1>2. World(w) /\ proto = Protocol(w.url) /\ proto \in {"http", "s3", "gcs"} /\ OneFile(w, proto) /\ tree = Fresh
  BY <1>1 DEF Typed, Chosen, Placed, Unwritten
<1>3. Only \in Entry /\ Last(Only.name) \in STRING
  BY <1>2, OnlyEntry
<1>4. faults \in Nat
  <2>1. faults \in 0..MaxFaults
    BY DEF Typed, Control
  <2> QED BY <2>1, MaxFaultsAssumption
<1>5. ~Unpacks
  BY <1>1, NotUnpacked DEF Extracting
<1>6. ASSUME pc' = "extract" PROVE Ready(tree')
  <2>1. IsDir(Fresh, Front(p)) /\ CanCreate(Fresh, p) /\ tree' = Create(Fresh, p, File(Only, copy.n))
    BY <1>1, <1>2, <1>6
  <2>2. /\ p = Append(Front(p), Last(Only.name)) /\ p \in Seq(STRING) /\ Front(p) \in DOMAIN Fresh
        /\ Aside => ~IsPrefix(Root, p)
    BY <1>2, <2>1, FilePlaced
  <2>3. CASE Aside
    BY <2>1, <2>2, <2>3, ReadyBeside
  <2>4. CASE ~Aside
    <3>1. p = Append(Root, Last(Only.name))
      BY <1>2, <2>2, <2>4 DEF Aside
    <3> QED BY <1>3, <2>1, <3>1, ChildCreated
  <2> QED BY <2>3, <2>4
<1>7. ASSUME pc' = "done", faults' = 0 PROVE Cause
  <2>1. ~(IsDir(Fresh, Front(p)) /\ CanCreate(Fresh, p)) \/ ~copy.ok
    BY <1>1, <1>2, <1>4, <1>7
  <2>2. CASE ~(IsDir(Fresh, Front(p)) /\ CanCreate(Fresh, p))
    <3>1. Aside
      BY <1>2, <2>2, BodyPlace
    <3> QED BY <3>1 DEF Cause, Misplaced
  <2>3. CASE ~copy.ok
    <3>1. w.s.maxBytes \in 0..MaxInt /\ Only.len \in Nat
      BY <1>2, <1>3, WorldTypes DEF Settings, Entry
    <3>2. w.s.maxBytes > 0 /\ Only.len > w.s.maxBytes
      BY <2>3, <3>1, CopyFails
    <3>3. Len(w.pages) = 1 /\ Len(w.pages[1]) = 1
      BY <1>2, OneFileEntry
    <3>4. Arrives = w.pages[1] /\ w.pages[1] \in Seq(Entry)
      BY <1>2, <1>5, <3>3, OnePage DEF Arrives
    <3>5. Only \in ToSet(Arrives)
      BY <3>3, <3>4 DEF Only, ToSet
    <3>6. Only.kind = "file"
      BY <1>2, WorldsAssumption DEF World, Only
    <3>7. \E x \in ToSet(Arrives) : x.kind = "file" /\ x.len > w.s.maxBytes
      BY <3>2, <3>5, <3>6
    <3>8. TooLarge
      BY <1>2, <1>5, <3>2, <3>7 DEF TooLarge, limited
    <3> QED BY <3>8 DEF Cause
  <2> QED BY <2>1, <2>2, <2>3
<1> QED BY <1>6, <1>7

LEMMA FaultsType ==
  ASSUME Typed
  PROVE  faults \in Nat
<1>1. faults \in 0..MaxFaults
  BY DEF Typed, Control
<1> QED BY <1>1, MaxFaultsAssumption

\* A local path is opened, or refused.
LEMMA OpenLocalReason ==
  ASSUME Typed, Placed, OpenLocal
  PROVE  /\ pc' = "extract" /\ isFile' => Ready(tree')
         /\ pc' = "done" /\ faults' = 0 => Cause
<1> PICK name : name = Last(w.local)
  OBVIOUS
<1> PICK copy : copy = Copy(Only.len, 0)
  OBVIOUS
<1> PICK p : p = Append(Root, name)
  OBVIOUS
<1>1. /\ pc = "request" /\ proto = "file"
      /\ \/ (~checkAllowed(w.local, w.s.allowed) \/ w.at = "nothing") /\ pc' = "done"
         \/ pc' = "copy"
         \/ pc' = "extract" /\ isFile' = FALSE
         \/ w.at = "file" /\ pc' = "extract" /\ tree' = Create(tree, p, File(Only, copy.n))
         \/ w.at = "file" /\ pc' = "done" /\ faults' = faults + 1
         \/ w.at = "file" /\ pc' = "done" /\ CanCreate(tree, p) /\ ~copy.ok
         \/ w.at = "file" /\ pc' = "done" /\ ~CanCreate(tree, p)
  BY DEF OpenLocal, Save, Downloaded, Fail, Return, Goto, Faulty
<1>2. World(w) /\ Protocol(w.url) = "file" /\ tree = Fresh
  BY <1>1 DEF Typed, Chosen, Placed, Unwritten
<1>3. faults \in Nat
  BY FaultsType
<1>4. copy.ok = TRUE
  BY DEF Copy
<1>5. w.at = "file" => name \in STRING
  <2> SUFFICES ASSUME w.at = "file" PROVE name \in STRING
    OBVIOUS
  <2>1. w.local \in Seq(STRING)
    BY <1>2, WorldTypes
  <2>2. w.local # <<>>
    BY <1>2, WorldsAssumption DEF World
  <2> QED BY <2>1, <2>2, LastType
<1>6. w.at = "file" => CanCreate(Fresh, p) /\ Ready(Create(Fresh, p, File(Only, copy.n)))
  BY <1>5, ChildCreated
<1>7. ~checkAllowed(w.local, w.s.allowed) \/ w.at = "nothing" => Cause
  BY <1>1 DEF Cause, Unsupported
<1>8. faults + 1 # 0
  BY <1>3
<1> QED BY <1>1, <1>2, <1>4, <1>6, <1>7, <1>8

\* An artifact is pulled.
LEMMA PullReason ==
  ASSUME Typed, Placed, Pull
  PROVE  /\ pc' = "extract" => Ready(tree')
         /\ pc' = "done" => faults' # 0
<1>1. /\ pc = "pull" /\ proto = "oci"
      /\ \/ pc' = "extract" /\ tree' = cleanupOrasMetadata(Plant(tree, Root, w.pages[1]))
         \/ pc' = "done" /\ faults' = faults + 1
  BY DEF Pull, Downloaded, Fail, Return, Goto, Faulty, Placed
<1>2. World(w) /\ Protocol(w.url) = "oci" /\ tree = Fresh
  BY <1>1 DEF Typed, Chosen, Placed, Unwritten
<1>3. pc' = "done" => faults' # 0
  BY <1>1, FaultsType
<1>4. PICK xs \in Seq(Entry) : xs = w.pages[1]
  BY <1>2, WorldTypes
<1>5. TreeLike(xs)
  BY <1>2, <1>4, ManifestNames
<1> DEFINE t == Plant(Fresh, Root, xs)
           u == cleanupOrasMetadata(t)
           gone == {q \in {Append(Root, "oci-layout"), Append(Root, "index.json")} : Children(t, q) = {}}
                     \cup {q \in {Append(Root, "blobs")} : IsDir(t, q) /\ Children(t, q) = {}}
<1>6. u = Without(t, gone)
  BY DEF cleanupOrasMetadata
<1>7. Out \notin gone /\ Root \notin gone
  <2>1. \A seg \in OwnNames : Append(Root, seg) # Root
    <3> TAKE seg \in OwnNames
    <3>1. seg \in STRING
      BY OwnNamesAssumption
    <3>2. Root \in Seq(STRING) /\ Len(Root) \in Nat
      BY RootAssumption
    <3>3. Len(Append(Root, seg)) = Len(Root) + 1
      BY <3>1, <3>2, PrefixOfChild
    <3> QED BY <3>2, <3>3
  <2>2. Append(Root, "oci-layout") # Root /\ Append(Root, "index.json") # Root /\ Append(Root, "blobs") # Root
    BY <2>1 DEF OwnNames
  <2> QED BY <2>2, OwnChildren
<1>8. /\ \A p \in DOMAIN t : p \in DOMAIN Fresh \/ \E i \in DOMAIN xs : p \in Prefixes(Root \o xs[i].name)
      /\ \A i \in DOMAIN xs : Prefixes(Root \o xs[i].name) \subseteq DOMAIN t
      /\ \A p \in DOMAIN t : t[p] # Dir => \E i \in DOMAIN xs : xs[i].kind # "dir" /\ p = Root \o xs[i].name
  <2>1. \A p \in DOMAIN t : p \in DOMAIN Fresh \/ \E i \in DOMAIN xs : p \in Prefixes(Root \o xs[i].name)
    BY <1>5, PlantedInRoot, Zenon
  <2>2. /\ \A i \in DOMAIN xs : Prefixes(Root \o xs[i].name) \subseteq DOMAIN t
        /\ \A p \in DOMAIN t : t[p] # Dir => \E i \in DOMAIN xs : xs[i].kind # "dir" /\ p = Root \o xs[i].name
    BY <1>5, RootAssumption, Planted, Zenon
  <2> QED BY <2>1, <2>2, Zenon
<1>9. Root \in DOMAIN t
  <2>1. Root \in DOMAIN Fresh
    BY RootAssumption, PrefixesOf DEF Fresh
  <2> QED BY <2>1 DEF Plant
<1> HIDE DEF gone, t, u
<1>10. DOMAIN u = DOMAIN t \ gone /\ (\A p \in DOMAIN u : u[p] = t[p])
  BY <1>6 DEF Without
<1>11. IsDir(u, Root)
  <2>1. t[Root] = Dir
    <3> SUFFICES ASSUME t[Root] # Dir PROVE FALSE
      OBVIOUS
    <3>1. PICK i \in DOMAIN xs : xs[i].kind # "dir" /\ Root = Root \o xs[i].name
      BY <1>8, <1>9
    <3>2. xs[i].name \in Seq(STRING) /\ xs[i].name # <<>>
      BY <1>5, <3>1, TreeName
    <3>3. Root \in Seq(STRING) /\ Len(Root) \in Nat /\ Len(xs[i].name) \in Nat /\ Len(xs[i].name) # 0
      BY <3>2, RootAssumption
    <3>4. Len(Root \o xs[i].name) = Len(Root) + Len(xs[i].name)
      BY <3>2, <3>3, Cancel
    <3> QED BY <3>1, <3>3, <3>4
  <2> QED BY <1>7, <1>9, <1>10, <2>1 DEF IsDir
<1>12. Out \in DOMAIN u \/ \A p \in DOMAIN u : ~IsPrefix(Out, p)
  <2> SUFFICES ASSUME NEW p \in DOMAIN u, IsPrefix(Out, p) PROVE Out \in DOMAIN u
    OBVIOUS
  <2>1. p \notin DOMAIN Fresh
    <3> SUFFICES ASSUME p \in DOMAIN Fresh PROVE FALSE
      OBVIOUS
    <3>1. p \in Seq(STRING) /\ IsPrefix(p, Root) /\ Root \in Seq(STRING)
      BY RootAssumption, PrefixesOf DEF Fresh
    <3>2. Len(p) <= Len(Root) /\ Len(p) \in Nat /\ Len(Root) \in Nat
      BY <3>1, PrefixAt
    <3>3. Out \in Seq(STRING) /\ Len(Out) = Len(Root) + 1
      BY OutBelow
    <3>4. Len(Out) <= Len(p)
      BY <3>1, <3>3, PrefixAt
    <3> QED BY <3>2, <3>3, <3>4
  <2>2. PICK i \in DOMAIN xs : p \in Prefixes(Root \o xs[i].name)
    BY <1>8, <1>10, <2>1
  <2>3. xs[i].name \in Seq(STRING) /\ Root \o xs[i].name \in Seq(STRING)
    BY <1>5, TreeName, RootAssumption, PrefixOfJoined
  <2>4. p \in Seq(STRING) /\ IsPrefix(p, Root \o xs[i].name)
    BY <2>2, <2>3, PrefixesOf
  <2>5. Out \in Seq(STRING) /\ IsPrefix(Out, Root \o xs[i].name)
    BY <2>3, <2>4, OutBelow, PrefixTransitive
  <2>6. Out \in Prefixes(Root \o xs[i].name)
    BY <2>3, <2>5, PrefixIn
  <2> QED BY <1>7, <1>8, <1>10, <2>6
<1>13. Ready(u)
  BY <1>11, <1>12 DEF Ready
<1>14. pc' = "extract" => tree' = u
  BY <1>1, <1>2, <1>4 DEF u, t
<1> QED BY <1>3, <1>13, <1>14

\* A clone is refused only where hg may not run.
LEMMA HgCloneReason ==
  ASSUME Typed, HgClone
  PROVE  /\ pc' = "extract" => isFile' = FALSE
         /\ pc' = "done" /\ faults' = 0 => Cause
<1>1. /\ pc = "request" /\ proto = "hg"
      /\ \/ (w.s.noSystem \/ w.refused) /\ pc' = "done"
         \/ pc' = "extract" /\ isFile' = FALSE
         \/ pc' = "move"
         \/ pc' = "done" /\ faults' = faults + 1
  BY DEF HgClone, Downloaded, Fail, Return, Goto, Faulty
<1>2. w.s.noSystem \/ w.refused => Cause
  BY <1>1 DEF Cause, Unsupported
<1>3. faults + 1 # 0
  BY FaultsType
<1> QED BY <1>1, <1>2, <1>3

\* The clone has the subdirectory if an entry is in it, or is it.
LEMMA CloneHas ==
  ASSUME NEW xs \in Seq(Entry), TreeLike(xs), NEW dir \in Seq(STRING), NEW sub \in Seq(STRING),
         NEW i \in DOMAIN xs, IsStrictPrefix(sub, xs[i].name) \/ (xs[i].kind = "dir" /\ xs[i].name = sub)
  PROVE  IsDir(Plant(Fresh, dir, xs), dir \o sub)
<1> PICK t : t = Plant(Fresh, dir, xs)
  OBVIOUS
<1>1. /\ Prefixes(dir \o xs[i].name) \subseteq DOMAIN t
      /\ \A p \in DOMAIN t : t[p] # Dir => \E j \in DOMAIN xs : xs[j].kind # "dir" /\ p = dir \o xs[j].name
  BY Planted, Zenon
<1>2. xs[i].name \in Seq(STRING) /\ IsPrefix(sub, xs[i].name)
  <2>1. xs[i].name \in Seq(STRING)
    BY TreeName
  <2>2. IsPrefix(sub, sub)
    BY PrefixAt
  <2> QED BY <2>1, <2>2 DEF IsStrictPrefix
<1>3. dir \o sub \in DOMAIN t
  <2>1. IsPrefix(dir \o sub, dir \o xs[i].name)
    BY <1>2, JoinedPrefix
  <2>2. dir \o sub \in Seq(STRING) /\ dir \o xs[i].name \in Seq(STRING)
    BY <1>2, PrefixOfJoined
  <2>3. dir \o sub \in Prefixes(dir \o xs[i].name)
    BY <2>1, <2>2, PrefixIn
  <2> QED BY <1>1, <2>3
<1>4. t[dir \o sub] = Dir
  <2> SUFFICES ASSUME t[dir \o sub] # Dir PROVE FALSE
    OBVIOUS
  <2>1. PICK j \in DOMAIN xs : xs[j].kind # "dir" /\ dir \o sub = dir \o xs[j].name
    BY <1>1, <1>3
  <2>2. xs[j].name \in Seq(STRING)
    BY TreeName
  <2>3. xs[j].name = sub
    BY <2>1, <2>2, JoinedSame
  <2>4. i = j
    BY <1>2, <2>1, <2>3, TreePair
  <2> QED BY <2>1, <2>3, <2>4 DEF IsStrictPrefix
<1> QED BY <1>3, <1>4 DEF IsDir

LEMMA NothingAfter == ASSUME NEW a \in Seq(STRING) PROVE a \o <<>> = a
OBVIOUS

\* The clone itself is there.
LEMMA CloneThere ==
  ASSUME NEW xs \in Seq(Entry), TreeLike(xs), NEW dir \in Seq(STRING)
  PROVE  IsDir(Plant(Fresh, dir, xs), dir)
<1> PICK t : t = Plant(Fresh, dir, xs)
  OBVIOUS
<1>1. \A p \in DOMAIN t : t[p] # Dir => \E j \in DOMAIN xs : xs[j].kind # "dir" /\ p = dir \o xs[j].name
  BY Planted, Zenon
<1>2. dir \in DOMAIN t
  BY PrefixesOf DEF Plant
<1>3. t[dir] = Dir
  <2> SUFFICES ASSUME t[dir] # Dir PROVE FALSE
    OBVIOUS
  <2>1. PICK j \in DOMAIN xs : xs[j].kind # "dir" /\ dir = dir \o xs[j].name
    BY <1>1, <1>2
  <2>2. xs[j].name \in Seq(STRING) /\ xs[j].name # <<>>
    BY <2>1, TreeName
  <2>3. Len(dir \o xs[j].name) = Len(dir) + Len(xs[j].name)
    BY <2>2, Cancel
  <2>4. Len(xs[j].name) \in Nat /\ Len(xs[j].name) # 0 /\ Len(dir) \in Nat
    BY <2>2
  <2> QED BY <2>1, <2>3, <2>4
<1> QED BY <1>2, <1>3 DEF IsDir

\* A path in the clone is of an entry below it.
LEMMA CloneOf ==
  ASSUME NEW xs \in Seq(Entry), TreeLike(xs), NEW dir \in Seq(STRING), IsPrefix(Root, dir), NEW rest \in Seq(STRING),
         rest # <<>>, dir \o rest \in DOMAIN Plant(Fresh, dir, xs)
  PROVE  \E i \in DOMAIN xs : IsPrefix(rest, xs[i].name)
<1>0. Root \in Seq(STRING)
  BY RootAssumption
<1>1. dir \o rest \in Seq(STRING) /\ Len(dir \o rest) = Len(dir) + Len(rest)
  BY PrefixOfJoined, Cancel
<1>2. dir \o rest \notin DOMAIN Fresh
  <2> SUFFICES ASSUME dir \o rest \in DOMAIN Fresh PROVE FALSE
    OBVIOUS
  <2>1. IsPrefix(dir \o rest, Root)
    BY <1>0, PrefixesOf DEF Fresh
  <2>2. Len(dir \o rest) <= Len(Root)
    BY <1>0, <1>1, <2>1, PrefixAt
  <2>3. Len(Root) <= Len(dir)
    BY <1>0, PrefixAt
  <2>4. Len(rest) \in Nat /\ Len(rest) # 0 /\ Len(dir) \in Nat /\ Len(Root) \in Nat
    BY <1>0
  <2> QED BY <1>1, <2>2, <2>3, <2>4
<1>3. \A p \in DOMAIN Plant(Fresh, dir, xs) :
        p \in DOMAIN Fresh \cup Prefixes(dir) \/ \E i \in DOMAIN xs : p \in Prefixes(dir \o xs[i].name)
  BY Planted, Zenon
<1>8. dir \o rest \notin Prefixes(dir)
  <2> SUFFICES ASSUME dir \o rest \in Prefixes(dir) PROVE FALSE
    OBVIOUS
  <2>1. IsPrefix(dir \o rest, dir)
    BY PrefixesOf
  <2>2. Len(dir \o rest) <= Len(dir)
    BY <1>1, <2>1, PrefixAt
  <2>3. Len(rest) \in Nat /\ Len(rest) # 0 /\ Len(dir) \in Nat
    OBVIOUS
  <2> QED BY <1>1, <2>2, <2>3
<1>4. PICK i \in DOMAIN xs : dir \o rest \in Prefixes(dir \o xs[i].name)
  BY <1>2, <1>3, <1>8
<1>5. xs[i].name \in Seq(STRING)
  BY TreeName
<1>6. dir \o xs[i].name \in Seq(STRING)
  BY <1>5, PrefixOfJoined
<1>7. IsPrefix(dir \o rest, dir \o xs[i].name)
  BY <1>4, <1>6, PrefixesOf
<1> QED BY <1>5, <1>7, JoinedPrefix

\* A path below another that comes to lie at a child is that child of it.
LEMMA RestIsChild ==
  ASSUME NEW dir \in Seq(STRING), NEW src \in Seq(STRING), NEW q \in Seq(STRING), IsPrefix(src, q), NEW seg \in STRING,
         dir \o SubSeq(q, Len(src) + 1, Len(q)) = Append(dir, seg)
  PROVE  q = src \o <<seg>>
<1>1. Append(dir, seg) = dir \o <<seg>> /\ <<seg>> \in Seq(STRING)
  BY JoinedOne
<1>2. SubSeq(q, Len(src) + 1, Len(q)) \in Seq(STRING)
  BY PrefixAndRest
<1>3. SubSeq(q, Len(src) + 1, Len(q)) = <<seg>>
  BY <1>1, <1>2, JoinedSame
<1> PICK one : one = <<seg>>
  OBVIOUS
<1>4. one \in Seq(STRING) /\ SubSeq(q, Len(src) + 1, Len(q)) = one
  BY <1>1, <1>3
<1>5. src \o one \in Seq(STRING) /\ IsPrefix(src, src \o one)
  BY <1>4, PrefixOfJoined
<1>6. SubSeq(src \o one, Len(src) + 0 + 1, Len(src \o one)) = SubSeq(one, 0 + 1, Len(one))
  <2>1. 0 \in 0..Len(one)
    BY <1>4
  <2> QED BY <1>4, <2>1, RestOfJoined
<1>7. Len(src) + 0 + 1 = Len(src) + 1 /\ 0 + 1 = 1
  OBVIOUS
<1>8. SubSeq(one, 1, Len(one)) = one
  BY <1>4, NothingJoined
<1>9. SubSeq(src \o one, Len(src) + 1, Len(src \o one)) = SubSeq(q, Len(src) + 1, Len(q))
  BY <1>4, <1>6, <1>7, <1>8
<1>10. src \o one = q
  BY <1>5, <1>9, RestInjective
<1> QED BY <1>10

\* The subdirectory is moved where the clone was.
LEMMA HgMoveReason ==
  ASSUME Typed, Placed, Stages, HgMove
  PROVE  /\ pc' = "extract" => isFile' = FALSE
         /\ pc' = "done" => Cause
<1> DEFINE src == srcDir
           moved == {q \in DOMAIN tree : IsStrictPrefix(src, q)}
           To(q) == Root \o SubSeq(q, Len(src) + 1, Len(q))
<1>1. /\ pc = "move" /\ (pc' = "extract" => isFile' = FALSE)
      /\ pc' = "done" => Astray \/ ~IsDir(tree, src) \/ \E q \in moved : To(q) = CloneDir
  BY DEF HgMove, Downloaded, Fail, Return, Goto
<1>2. World(w) /\ proto = "hg" /\ Protocol(w.url) = "hg" /\ tree = Plant(Fresh, CloneDir, w.pages[1]) /\ w.subdir # <<>>
  BY <1>1 DEF Typed, Chosen, Stages
<1>3. PICK xs \in Seq(Entry) : xs = w.pages[1]
  BY <1>2, WorldTypes
<1>4. TreeLike(xs)
  BY <1>2, <1>3, HgWorld
<1>a. CASE Astray
  BY <1>1, <1>a DEF Cause, Misplaced
<1>b. CASE ~Astray
  <2>s. PICK sub \in Seq(STRING) : sub = Subdirectory /\ src = CloneDir \o sub
    BY <1>2, <1>b, SourceBelow
  <2>5. CloneDir \in Seq(STRING) /\ IsPrefix(Root, CloneDir) /\ Root \in Seq(STRING)
    BY <1>2, CloneDirBelow, RootAssumption
  <2>6. src \in Seq(STRING)
    BY <2>s, <2>5, PrefixOfJoined
  <2>7. CASE ~IsDir(tree, src)
    <3>1. ASSUME NEW i \in DOMAIN xs, IsStrictPrefix(sub, xs[i].name) \/ (xs[i].kind = "dir" /\ xs[i].name = sub)
          PROVE  FALSE
      <4>1. IsDir(Plant(Fresh, CloneDir, xs), CloneDir \o sub)
        BY <1>4, <2>5, <3>1, CloneHas
      <4> QED BY <1>2, <1>3, <2>s, <2>7, <4>1
    <3>2. NoSubdir
      <4>1. sub # <<>>
        <5>1. IsDir(Plant(Fresh, CloneDir, xs), CloneDir)
          BY <1>4, <2>5, CloneThere
        <5>2. sub = <<>> => src = CloneDir
          BY <2>s, <2>5, NothingAfter
        <5> QED BY <1>2, <1>3, <2>7, <5>1, <5>2
      <4> QED BY <1>2, <1>3, <2>s, <3>1, <4>1 DEF NoSubdir, ToSet
    <3> QED BY <1>1, <3>2 DEF Cause
  <2>8. CASE \E q \in moved : To(q) = CloneDir
    <3>1. PICK q \in moved : To(q) = CloneDir
      BY <2>8
    <3>2. q \in Seq(STRING) /\ IsPrefix(src, q) /\ q \in DOMAIN tree
      BY <1>1, PlacedWithin DEF Within, IsStrictPrefix
    <3>3. "_clone" \in STRING
      BY OwnNamesAssumption DEF OwnNames
    <3>s. PICK seg \in STRING : seg = "_clone"
      BY <3>3
    <3>4. Root \o SubSeq(q, Len(src) + 1, Len(q)) = Append(Root, seg)
      BY <1>2, <3>1, <3>s DEF CloneDir
    <3> HIDE DEF src, moved, To
    <3>5. q = src \o <<seg>>
      BY <2>5, <2>6, <3>2, <3>4, RestIsChild
    <3>6. src \o <<seg>> = CloneDir \o Append(sub, seg) /\ Append(sub, seg) \in Seq(STRING)
      <4>1. src \o <<seg>> = Append(src, seg)
        BY <2>6, JoinedOne
      <4>2. Append(CloneDir \o sub, seg) = CloneDir \o Append(sub, seg)
        <5> PICK a \in Seq(STRING) : a = CloneDir
          BY <2>5
        <5>1. Append(a \o sub, seg) = a \o Append(sub, seg)
          BY NamesAppended
        <5> QED BY <5>1
      <4>3. Append(sub, seg) \in Seq(STRING)
        BY PrefixOfChild
      <4> QED BY <2>s, <4>1, <4>2, <4>3
    <3>7. PICK rest \in Seq(STRING) : rest = Append(sub, seg)
      BY <3>6
    <3>8. rest # <<>>
      BY <3>7, FrontAppend
    <3>9. CloneDir \o rest \in DOMAIN Plant(Fresh, CloneDir, xs)
      BY <1>2, <1>3, <3>2, <3>5, <3>6, <3>7
    <3>10. \E i \in DOMAIN xs : IsPrefix(rest, xs[i].name)
      BY <1>4, <2>5, <3>8, <3>9, CloneOf
    <3>11. \E x \in ToSet(w.pages[1]) : IsPrefix(Append(Subdirectory, "_clone"), x.name)
      BY <1>3, <2>s, <3>s, <3>7, <3>10 DEF ToSet
    <3>12. Misplaced
      BY <1>2, <3>11 DEF Misplaced
    <3> QED BY <1>1, <3>12 DEF Cause
  <2> QED BY <1>1, <1>b, <2>7, <2>8
<1> QED BY <1>1, <1>a, <1>b

\* What was taken for one file is not one, for a reason that is known of artifacts.
LEMMA NotAlone ==
  ASSUME Typed, OneFound, OneEntry, pc = "extract", isFile, ~Alone(tree)
  PROVE  Cause
<1>0. CASE Aside
  BY <1>0 DEF Cause, Misplaced
<1>1. ~Aside => ~Plain
  BY DEF OneFound
<1>2. ~Aside => proto = "oci" /\ (w.media = "manifest" => \E x \in ToSet(w.pages[1]) : x.name \in OrasNames)
  BY <1>1 DEF Plain
<1>3. CASE ~Aside /\ w.media # "manifest"
  BY <1>2, <1>3 DEF Cause
<1>4. CASE ~Aside /\ w.media = "manifest"
  <2>1. PICK x \in ToSet(w.pages[1]) : x.name \in OrasNames
    BY <1>2, <1>4
  <2>2. Len(w.pages[1]) = 1
    BY <1>4 DEF OneEntry
  <2>3. w.pages[1] \in Seq(Entry)
    BY WorldTypes DEF Typed, Chosen
  <2>4. x = Only
    BY <2>2, <2>3 DEF ToSet, Only
  <2> QED BY <1>2, <1>4, <2>1, <2>4 DEF Cause
<1> QED BY <1>0, <1>3, <1>4

LEMMA NothingCame == ASSUME NEW xs \in Seq(Entry) PROVE 1..(Len(xs) - Len(xs)) = {}
<1>1. Len(xs) - Len(xs) = 0
  OBVIOUS
<1> QED BY <1>1

\* An extraction begins, or there is a cause that it does not.
LEMMA ExtractReason ==
  ASSUME Typed, Placed, Stages, OneFound, OneEntry, ExtractWithLimit, isFile => Ready(tree)
  PROVE  /\ pc' \in {"tar", "zip"} => UnpackInv'
         /\ pc' = "done" /\ result' = "err" => Cause
<1>1. pc = "extract" /\ UNCHANGED <<w, proto, isFile, tree>> /\ result = "none"
  BY DEF ExtractWithLimit, Fail, Return, Goto, request, stream, Stages
<1>2. ASSUME result' = "err" PROVE Cause
  <2>1. isFile /\ \/ Cardinality(Children(tree, Root)) # 1
                  \/ extractors(Extension(w, proto)) = "single"
                  \/ Children(tree, Root) \cap Files(tree) = {}
    BY <1>1, <1>2 DEF ExtractWithLimit, Fail, Return, Goto
  <2>2. CASE extractors(Extension(w, proto)) = "single"
    BY <2>1, <2>2 DEF Cause
  <2>3. CASE Cardinality(Children(tree, Root)) # 1 \/ Children(tree, Root) \cap Files(tree) = {}
    <3>1. ASSUME NEW p \in DOMAIN tree, Children(tree, Root) = {p}, tree[p].kind = "file" PROVE FALSE
      <4>1. Cardinality({p}) = 1
        BY FS_Singleton
      <4>2. p \in Children(tree, Root) \cap Files(tree)
        BY <3>1 DEF Files
      <4> QED BY <2>3, <3>1, <4>1, <4>2
    <3>2. ~Alone(tree)
      BY <3>1 DEF Alone
    <3> QED BY <1>1, <2>1, <3>2, NotAlone
  <2> QED BY <2>1, <2>2, <2>3
<1>3. ASSUME pc' \in {"tar", "zip"} PROVE UnpackInv'
  <2>1. /\ isFile /\ w.s.auto /\ extractors(Extension(w, proto)) \in {"tar", "zip"}
        /\ Children(tree, Root) \subseteq Files(tree) /\ todo' = w.inner /\ left' = w.s.maxBytes
    BY <1>1, <1>3 DEF ExtractWithLimit, Fail, Return, Goto
  <2>2. IsArchive(w, proto)
    BY <2>1 DEF IsArchive
  <2>3. Out \notin Files(tree)
    BY <1>1, <2>1, <2>2 DEF OneFound
  <2>4. Out \notin DOMAIN tree
    BY <2>1, <2>3, OutIsChild
  <2>5. IsDir(tree, Root) /\ \A p \in DOMAIN tree : ~IsPrefix(Out, p)
    BY <2>1, <2>4 DEF Ready
  <2>6. w.inner \in Seq(Entry) /\ w.s.maxBytes \in 0..MaxInt
    BY WorldTypes DEF Typed, Chosen, Settings
  <2> DEFINE S == 1..(Len(w.inner) - Len(todo'))
  <2>7. S = {}
    BY <2>1, <2>6, NothingCame
  <2>8. S = 1..(Len(w.inner) - Len(todo'))
    OBVIOUS
  <2> HIDE DEF S
  <2>9. ExplainedBy(Out, w.inner, Dirs(w.inner))'
    <3>1. Explained(tree', Out, S \cap Nondirs(w.inner), S \cap Dirs(w.inner), Belows(Out, w.inner))
      BY <1>1, <2>5 DEF Explained
    <3> QED BY <1>1, <2>8, <3>1, InnerExplained
  <2>10. Spent(w.inner, Came(w.inner) \cap WantedOf(w.inner))'
    <3>1. S \cap WantedOf(w.inner) = {}
      BY <2>7
    <3>2. Cardinality(BytesOf(w.inner, {})) = 0
      BY BytesOfNone
    <3>3. left' = Unused(w.inner, {})
      <4>1. w.s.maxBytes - 0 = w.s.maxBytes
        BY <2>6
      <4>2. w.s.maxBytes - Cardinality(BytesOf(w.inner, {})) = w.s.maxBytes
        BY <3>2, <4>1
      <4> QED BY <2>1, <4>2 DEF Unused
    <3>4. left' = Unused(w.inner, S \cap WantedOf(w.inner))
      BY <3>1, <3>3
    <3> QED BY <1>1, <2>8, <3>4, InnerSpent
  <2>11. IsDir(tree, Root)'
    BY <1>1, <2>5 DEF IsDir
  <2> QED BY <2>9, <2>10, <2>11 DEF UnpackInv
<1> QED BY <1>2, <1>3

-----------------------------------------------------------------------------
(***************************************************************************)
(* The invariant of what a call is refused for.                            *)
(***************************************************************************)
LEMMA ReasonsInit == Init => Reasons
BY DEF Init, Reasons

LEMMA ReasonsStep ==
  Typed /\ Placed /\ OneFound /\ OutBudget /\ ArchiveInv /\ Stages /\ OneEntry /\ Reasons /\ [Next]_vars => Reasons'
<1> SUFFICES ASSUME Typed, Placed, OneFound, OutBudget, ArchiveInv, Stages, OneEntry, Reasons, [Next]_vars
             PROVE  Reasons'
  OBVIOUS
<1> DEFINE Held == {"list", "copy", "archived", "extract", "tar", "zip"}
<1>n. pc # "done" => result = "none"
  BY DEF Stages
<1>f. faults + 1 # 0
  BY FaultsType
<1>q. ASSUME result' # "err", pc' \notin Held PROVE Reasons'
  BY <1>q DEF Reasons
<1>d. ASSUME UNCHANGED <<w, proto, isFile>>, pc' \notin Held, faults' = 0 => Cause PROVE Reasons'
  <2>1. Cause' = Cause
    BY <1>d, CauseSame
  <2> QED BY <1>d, <2>1 DEF Reasons
<1>x. ASSUME result' # "err", pc' = "extract", isFile' => Ready(tree') PROVE Reasons'
  <2>1. isFile' => Ready(tree)'
    BY <1>x DEF Ready, Out, IsDir
  <2> QED BY <1>x, <2>1 DEF Reasons
<1>0. CASE UNCHANGED vars \/ Done
  <2>1. UNCHANGED vars
    BY <1>0 DEF Done
  <2>2. UNCHANGED <<w, proto, isFile>>
    BY <2>1 DEF vars, request
  <2>3. Cause' = Cause
    BY <2>2, CauseSame
  <2>4. UNCHANGED <<pc, page, todo, left, found, tree, faults, result>>
    BY <2>1 DEF vars, stream
  <2>5. ExplainedBy(Root, PagesRead, {})' = ExplainedBy(Root, PagesRead, {})
    BY <2>2, <2>4 DEF ExplainedBy, PagesRead, Came
  <2>6. ExplainedBy(Root, w.pages[1], Dirs(w.pages[1]))' = ExplainedBy(Root, w.pages[1], Dirs(w.pages[1]))
    BY <2>2, <2>4 DEF ExplainedBy, Came
  <2>7. UnpackInv' = UnpackInv
    <3>1. ExplainedBy(Out, w.inner, Dirs(w.inner))' = ExplainedBy(Out, w.inner, Dirs(w.inner))
      BY <2>2, <2>4 DEF ExplainedBy, Came, Out
    <3>2. WantedOf(w.inner)' = WantedOf(w.inner)
      BY <2>2 DEF WantedOf, Wanted, Unpacks, IsArchive
    <3>3. Spent(w.inner, Came(w.inner) \cap WantedOf(w.inner))' = Spent(w.inner, Came(w.inner) \cap WantedOf(w.inner))
      BY <2>2, <2>4, <3>2 DEF Spent, Unused, limited, Came
    <3> QED BY <2>4, <3>1, <3>3 DEF UnpackInv, IsDir
  <2>8. ArchiveRead(w.pages[1])' = ArchiveRead(w.pages[1])
    BY <2>2, <2>4 DEF ArchiveRead, Came, Spent, Unused, limited, Selected, ByGit, Commit
  <2>9. Ready(tree)' = Ready(tree)
    BY <2>4 DEF Ready, Out
  <2> QED BY <2>2, <2>3, <2>4, <2>5, <2>6, <2>7, <2>8, <2>9 DEF Reasons
<1>1. CASE Detect
  <2>1. pc' \in {"request", "done"} /\ (result' = "err" => proto' = "none")
    BY <1>1, <1>n DEF Detect, Return, Goto
  <2>2. proto' = "none" => Cause'
    BY DEF Cause, Unsupported
  <2> QED BY <2>1, <2>2 DEF Reasons
<1>2. CASE RequestHTTP \/ RequestOCI \/ Clone \/ RequestS3 \/ RequestGCS
  <2>1. /\ UNCHANGED <<w, proto, isFile>>
        /\ \/ pc' \in {"list", "body", "pull", "archive"} /\ result' # "err" /\ (pc' = "list" => RequestS3 \/ RequestGCS)
           \/ pc' = "done" /\ faults' = faults + 1
    BY <1>2, <1>n DEF RequestHTTP, RequestOCI, Clone, RequestS3, RequestGCS, Request, Return, Goto, Faulty
  <2>2. pc' = "list" => ExplainedBy(Root, PagesRead, {})'
    BY <2>1, ListStartReason
  <2>3. CASE pc' = "list" /\ result' # "err"
    BY <2>2, <2>3 DEF Reasons
  <2> QED BY <2>1, <2>3, <1>f, <1>q, <1>d
<1>3. CASE InvalidKey
  <2>1. UNCHANGED <<w, proto, isFile>> /\ pc' = "done" /\ proto = "gcs" /\ w.s.gcp = "invalid"
    BY <1>3 DEF InvalidKey, Fail, Return, request
  <2>2. Cause
    BY <2>1 DEF Cause, Unsupported
  <2> QED BY <2>1, <2>2, <1>d
<1>4. CASE fetchArchive
  <2>1. /\ pc = "archive" /\ UNCHANGED <<w, proto, isFile>>
        /\ \/ pc' = "done" /\ archiveURL(sshToHTTPS(Repo)) = NoHost
           \/ pc' = "archived" /\ result' # "err"
           \/ pc' = "done" /\ faults' = faults + 1
    BY <1>4, <1>n DEF fetchArchive, Fail, Return, Goto, Faulty
  <2>2. archiveURL(sshToHTTPS(Repo)) = NoHost => Cause
    <3>1. proto = "git"
      BY <2>1 DEF Typed, Stream
    <3> QED BY <3>1 DEF Cause, Unsupported
  <2>3. pc' = "archived" => ArchiveRead(w.pages[1])'
    BY <1>4, ArchiveStartReason
  <2>4. CASE pc' = "archived" /\ result' # "err"
    BY <2>3, <2>4 DEF Reasons
  <2> QED BY <2>1, <2>2, <2>4, <1>f, <1>d
<1>5. CASE Body
  <2>1. \/ pc' = "extract" /\ result' # "err"
        \/ pc' = "done" /\ UNCHANGED <<w, proto, isFile>>
    BY <1>5, <1>n DEF Body, Save, Downloaded, Fail, Return, Goto, request
  <2>2. (pc' = "extract" => Ready(tree')) /\ (pc' = "done" /\ faults' = 0 => Cause)
    BY <1>5, BodyReason
  <2> QED BY <2>1, <2>2, <1>x, <1>d
<1>6. CASE ListPage
  <2>1. \/ pc' = "list" /\ result' # "err"
        \/ pc' = "done" /\ UNCHANGED <<w, proto, isFile>> /\ faults' = faults + 1
        \/ pc' = "extract" /\ result' # "err" /\ isFile' = FALSE
    BY <1>6, <1>n DEF ListPage, Downloaded, Fail, Return, Goto, Faulty, request
  <2>2. pc = "list"
    BY <1>6 DEF ListPage
  <2>3. ExplainedBy(Root, PagesRead, {})
    BY <2>2 DEF Reasons
  <2>4. pc' = "list" => ExplainedBy(Root, PagesRead, {})'
    BY <1>6, <2>3, TurnReason
  <2>5. CASE pc' = "list" /\ result' # "err"
    BY <2>4, <2>5 DEF Reasons
  <2> QED BY <2>1, <2>5, <1>f, <1>d, <1>x
<1>7. CASE GetObject
  <2>1. /\ pc = "list" /\ UNCHANGED <<w, proto, isFile>>
        /\ (pc' = "list" /\ result' # "err") \/ pc' = "done"
    BY <1>7, <1>n DEF GetObject, Save, Skip, Advance, Fail, Return, request
  <2>2. ExplainedBy(Root, PagesRead, {})
    BY <2>1 DEF Reasons
  <2>3. (pc' = "list" => ExplainedBy(Root, PagesRead, {})') /\ (pc' = "done" /\ faults' = 0 => Cause)
    BY <1>7, <2>2, GetReason
  <2>4. CASE pc' = "list" /\ result' # "err"
    BY <2>3, <2>4 DEF Reasons
  <2> QED BY <2>1, <2>3, <2>4, <1>d
<1>8. CASE Pull
  <2>1. \/ pc' = "extract" /\ result' # "err"
        \/ pc' = "done" /\ UNCHANGED <<w, proto, isFile>>
    BY <1>8, <1>n DEF Pull, Downloaded, Fail, Return, Goto, request
  <2>2. (pc' = "extract" => Ready(tree')) /\ (pc' = "done" => faults' # 0)
    BY <1>8, PullReason
  <2> QED BY <2>1, <2>2, <1>x, <1>d
<1>9. CASE OpenLocal
  <2>1. /\ UNCHANGED <<w, proto>> /\ pc' \in {"copy", "extract", "done"}
        /\ pc' # "done" => result' # "err"
        /\ pc' = "done" => UNCHANGED isFile
    BY <1>9, <1>n DEF OpenLocal, Save, Downloaded, Fail, Return, Goto, request
  <2>2. (pc' = "extract" /\ isFile' => Ready(tree')) /\ (pc' = "done" /\ faults' = 0 => Cause)
    BY <1>9, OpenLocalReason
  <2>3. pc' = "copy" => ExplainedBy(Root, w.pages[1], Dirs(w.pages[1]))'
    BY <1>9, WalkStartReason
  <2>4. CASE pc' = "copy"
    BY <2>1, <2>3, <2>4 DEF Reasons
  <2> QED BY <2>1, <2>2, <2>4, <1>x, <1>d
<1>10. CASE copyDir
  <2>1. /\ pc = "copy" /\ UNCHANGED <<w, proto, isFile>>
        /\ (pc' = "copy" /\ result' # "err") \/ pc' = "done"
    BY <1>10, <1>n DEF copyDir, Save, MakeDir, Advance, Fail, Return, request
  <2>2. ExplainedBy(Root, w.pages[1], Dirs(w.pages[1]))
    BY <2>1 DEF Reasons
  <2>3. (pc' = "copy" => ExplainedBy(Root, w.pages[1], Dirs(w.pages[1]))') /\ (pc' = "done" => faults' # 0)
    BY <1>10, <2>2, CopyReason
  <2>4. CASE pc' = "copy" /\ result' # "err"
    BY <2>3, <2>4 DEF Reasons
  <2> QED BY <2>1, <2>3, <2>4, <1>d
<1>11. CASE CopyEnd
  <2>1. pc' = "extract" /\ result' # "err" /\ isFile' = FALSE
    BY <1>11, <1>n DEF CopyEnd, Downloaded, Goto
  <2> QED BY <2>1, <1>x
<1>12. CASE HgClone \/ HgMove
  <2>1. \/ pc' \in {"move", "extract"} /\ result' # "err"
        \/ pc' = "done" /\ UNCHANGED <<w, proto, isFile>>
    BY <1>12, <1>n DEF HgClone, HgMove, Downloaded, Fail, Return, Goto, request
  <2>2. (pc' = "extract" => isFile' = FALSE) /\ (pc' = "done" /\ faults' = 0 => Cause)
    BY <1>12, HgCloneReason, HgMoveReason
  <2> QED BY <2>1, <2>2, <1>q, <1>x, <1>d
<1>13. CASE extractArchive
  <2>1. /\ pc = "archived" /\ UNCHANGED <<w, proto, isFile>>
        /\ (pc' = "archived" /\ result' # "err") \/ pc' = "done"
    BY <1>13, <1>n DEF extractArchive, Save, MakeDir, Skip, Advance, Fail, Return, request
  <2>2. ArchiveRead(w.pages[1])
    BY <2>1 DEF Reasons
  <2>3. (pc' = "archived" => ArchiveRead(w.pages[1])') /\ (pc' = "done" /\ faults' = 0 => Cause)
    BY <1>13, <2>2, ArchiveReason
  <2>4. CASE pc' = "archived" /\ result' # "err"
    BY <2>3, <2>4 DEF Reasons
  <2> QED BY <2>1, <2>3, <2>4, <1>d
<1>14. CASE ArchiveEnd
  <2>1. /\ pc = "archived"
        /\ \/ pc' = "extract" /\ result' # "err" /\ isFile' = FALSE
           \/ pc' = "done" /\ UNCHANGED <<w, proto, isFile>>
    BY <1>14, <1>n DEF ArchiveEnd, Downloaded, Fail, Return, Goto, request
  <2>2. ArchiveRead(w.pages[1])
    BY <2>1 DEF Reasons
  <2>3. pc' = "done" => Cause
    BY <1>14, <2>2, ArchiveEndReason
  <2> QED BY <2>1, <2>3, <1>x, <1>d
<1>15. CASE ExtractWithLimit
  <2>1. /\ pc = "extract" /\ UNCHANGED <<w, proto, isFile>>
        /\ \/ pc' \in {"tar", "zip"} /\ result' # "err"
           \/ pc' = "done" /\ result' \in {"ok", "err"}
    BY <1>15, <1>n DEF ExtractWithLimit, Fail, Return, Goto, request
  <2>2. isFile => Ready(tree)
    BY <2>1 DEF Reasons
  <2>3. (pc' \in {"tar", "zip"} => UnpackInv') /\ (pc' = "done" /\ result' = "err" => Cause)
    BY <1>15, <2>2, ExtractReason
  <2>4. CASE pc' \in {"tar", "zip"} /\ result' # "err"
    BY <2>3, <2>4 DEF Reasons
  <2>5. CASE pc' = "done" /\ result' = "ok"
    BY <2>5, <1>q
  <2>6. CASE pc' = "done" /\ result' = "err"
    BY <2>1, <2>3, <2>6, <1>d
  <2> QED BY <2>1, <2>4, <2>5, <2>6
<1>16. CASE untar \/ extractZip
  <2>1. /\ pc \in {"tar", "zip"} /\ UNCHANGED <<w, proto, isFile>>
        /\ (pc' = pc /\ result' # "err") \/ pc' = "done"
    BY <1>16, <1>n DEF untar, extractZip, Save, MakeDir, Skip, Spend, Advance, Fail, Return, request
  <2>2. UnpackInv
    BY <2>1 DEF Reasons
  <2>3. (pc' = pc => UnpackInv') /\ (pc' = "done" /\ faults' = 0 => Cause)
    BY <1>16, <2>2, UnpackReason
  <2>4. CASE pc' = pc /\ result' # "err"
    BY <2>1, <2>3, <2>4 DEF Reasons
  <2> QED BY <2>1, <2>3, <2>4, <1>d
<1>17. CASE Extracted
  <2>1. pc' = "done" /\ result' = "ok"
    BY <1>17 DEF Extracted, Return
  <2> QED BY <2>1, <1>q
<1> QED
  BY <1>0, <1>1, <1>2, <1>3, <1>4, <1>5, <1>6, <1>7, <1>8, <1>9, <1>10, <1>11, <1>12, <1>13, <1>14, <1>15, <1>16, <1>17
  DEF Next

\* RefusedForCause: however pages, entries and steps follow on each other, a call that
\* returns an error although no operation failed does so for one of the causes that the
\* source alone shows: it is none that is had, has no such subdirectory, exceeds the
\* limit, or has a name with no place (Grabber.download, downloadDir, extractArchive,
\* untar, extractZip, copyDir, ExtractWithLimit).
THEOREM RefusedForCauseCorrect == Spec => []RefusedForCause
<1>1. Reasons => RefusedForCause
  BY DEF Reasons, RefusedForCause, Cause
<1>2. Init => Reasons
  BY ReasonsInit
<1>3. Typed /\ Placed /\ OneFound /\ OutBudget /\ ArchiveInv /\ Stages /\ OneEntry /\ Reasons /\ [Next]_vars => Reasons'
  BY ReasonsStep
<1> QED BY <1>1, <1>2, <1>3, BudgetCorrect, WholeCorrect, PTL DEF Spec

=============================================================================
