--------------------------- MODULE FetchTreeProofs ---------------------------
(***************************************************************************)
(* Proofs about Fetch: where in the staging directory everything is put,   *)
(* and how much is written under a limit.                                  *)
(***************************************************************************)
EXTENDS FetchProofs

-----------------------------------------------------------------------------
(***************************************************************************)
(* The staging directory stays what everything is in.                      *)
(***************************************************************************)
\* A child is one segment longer.
LEMMA ChildLength ==
  ASSUME NEW t, NEW p \in Seq(STRING), NEW q \in Children(t, p), q \in Seq(STRING)
  PROVE  Len(q) = Len(p) + 1 /\ IsPrefix(p, q)
<1>1. q # <<>> /\ Front(q) = p
  BY DEF Children
<1>2. Len(p) = Len(q) - 1 /\ IsPrefix(p, q) /\ Len(q) \in Nat
  BY <1>1, FrontProperties
<1> QED BY <1>2

LEMMA PrefixIn ==
  ASSUME NEW a \in Seq(STRING), NEW b \in Seq(STRING), IsPrefix(a, b)
  PROVE  a \in Prefixes(b)
<1>1. Len(a) \in 0..Len(b) /\ SubSeq(a, 1, Len(a)) = SubSeq(b, 1, Len(a))
  BY DEF IsPrefix
<1>2. SubSeq(a, 1, Len(a)) = a
  OBVIOUS
<1> QED BY <1>1, <1>2 DEF Prefixes

LEMMA FrontAppend ==
  ASSUME NEW s \in Seq(STRING), NEW x \in STRING
  PROVE  Front(Append(s, x)) = s /\ Append(s, x) # <<>>
<1> DEFINE p == Append(s, x)
<1>1. p \in Seq(STRING) /\ IsPrefix(s, p) /\ Len(p) = Len(s) + 1
  BY PrefixOfChild
<1> HIDE DEF p
<1>2. Len(s) \in Nat
  OBVIOUS
<1>3. p # <<>>
  BY <1>1, <1>2
<1>4. IsPrefix(Front(p), p) /\ Front(p) \in Seq(STRING) /\ Len(Front(p)) = Len(p) - 1
  BY <1>1, <1>3, FrontProperties
<1>5. Len(Front(p)) = Len(s)
  BY <1>1, <1>2, <1>4
<1>6. Front(p) = s
  BY <1>1, <1>4, <1>5, PrefixesMeet
<1> QED BY <1>3, <1>6 DEF p

\* Of the way to the staging directory nothing is in it.
LEMMA FreshNoChild ==
  ASSUME NEW t, NEW q \in Children(t, Root)
  PROVE  q \notin DOMAIN Fresh
<1> SUFFICES ASSUME q \in DOMAIN Fresh PROVE FALSE
  OBVIOUS
<1>1. q \in Seq(STRING) /\ IsPrefix(q, Root)
  BY RootAssumption, PrefixesOf DEF Fresh
<1>2. Len(q) = Len(Root) + 1 /\ Len(Root) \in Nat
  BY <1>1, RootAssumption, ChildLength
<1>3. Len(q) <= Len(Root)
  BY <1>1, RootAssumption, PrefixAt
<1> QED BY <1>2, <1>3

LEMMA PlantWithin ==
  ASSUME NEW t, Within(t), NEW dir \in Seq(STRING), IsPrefix(Root, dir), NEW entries \in Seq(Entry)
  PROVE  Within(Plant(t, dir, entries))
<1> DEFINE made == Prefixes(dir) \cup UNION {Prefixes(dir \o entries[i].name) : i \in DOMAIN entries}
           At(q) == {i \in DOMAIN entries : entries[i].kind # "dir" /\ dir \o entries[i].name = q}
<1>1. ASSUME NEW i \in DOMAIN entries
      PROVE  dir \o entries[i].name \in Seq(STRING) /\ IsPrefix(Root, dir \o entries[i].name)
  <2>3. entries[i] \in Entry
    BY <1>1
  <2>1. entries[i].name \in Seq(STRING)
    BY <2>3 DEF Entry
  <2>2. dir \o entries[i].name \in Seq(STRING) /\ IsPrefix(dir, dir \o entries[i].name)
    BY <2>1, PrefixOfJoined
  <2> QED BY <2>2, RootAssumption, PrefixTransitive
<1>2. ASSUME NEW q \in made
      PROVE  q \in Seq(STRING) /\ (IsPrefix(q, Root) \/ IsPrefix(Root, q))
  <2>1. CASE q \in Prefixes(dir)
    <3>1. q \in Seq(STRING) /\ IsPrefix(q, dir)
      BY <2>1, PrefixesOf
    <3> QED BY <3>1, RootAssumption, PrefixesMeet
  <2>2. ASSUME NEW i \in DOMAIN entries, q \in Prefixes(dir \o entries[i].name)
        PROVE  q \in Seq(STRING) /\ (IsPrefix(q, Root) \/ IsPrefix(Root, q))
    <3>1. q \in Seq(STRING) /\ IsPrefix(q, dir \o entries[i].name)
      BY <2>2, <1>1, PrefixesOf
    <3> QED BY <3>1, <1>1, RootAssumption, PrefixesMeet
  <2> QED BY <1>2, <2>1, <2>2
<1>3. ASSUME NEW p \in DOMAIN Fresh, p # Root
      PROVE  At(p) = {}
  BY <1>1, <1>3, FreshAbove
<1> HIDE DEF made, At
<1>4. Plant(t, dir, entries) =
        [q \in DOMAIN t \cup made |-> CASE At(q) # {} -> Node(entries[Max(At(q))])
                                        [] At(q) = {} /\ q \in DOMAIN t -> t[q]
                                        [] OTHER -> Dir]
  BY DEF Plant, made, At
<1>5. \A p \in DOMAIN t : At(p) = {} => Plant(t, dir, entries)[p] = t[p]
  BY <1>4
<1>6. DOMAIN Plant(t, dir, entries) = DOMAIN t \cup made
  BY <1>4
<1> QED BY <1>2, <1>3, <1>5, <1>6 DEF Within

\* What is removed is in the staging directory.
LEMMA WithoutWithin ==
  ASSUME NEW t, Within(t), NEW gone, \A p \in gone : Len(p) = Len(Root) + 1
  PROVE  Within(Without(t, gone))
<1>1. ASSUME NEW p \in DOMAIN Fresh PROVE p \notin gone
  <2>1. p \in Seq(STRING) /\ IsPrefix(p, Root)
    BY RootAssumption, PrefixesOf DEF Fresh
  <2>2. Len(p) <= Len(Root) /\ Len(Root) \in Nat /\ Len(p) \in Nat
    BY <2>1, RootAssumption, PrefixAt
  <2> QED BY <2>2
<1>2. /\ DOMAIN Without(t, gone) = DOMAIN t \ gone
      /\ \A p \in DOMAIN t \ gone : Without(t, gone)[p] = t[p]
  BY DEF Without
<1> QED BY <1>1, <1>2 DEF Within

LEMMA CloneDirBelow ==
  ASSUME World(w)
  PROVE  CloneDir \in Seq(STRING) /\ IsPrefix(Root, CloneDir)
<1>1. IsPrefix(Root, Root)
  BY RootAssumption, PrefixAt
<1>3. "_clone" \in STRING
  BY OwnNamesAssumption DEF OwnNames
<1>2. Append(Root, "_clone") \in Seq(STRING) /\ IsPrefix(Root, Append(Root, "_clone"))
  BY <1>3, RootAssumption, PrefixOfChild
<1> QED BY <1>1, <1>2, RootAssumption DEF CloneDir

\* A name of one segment leads to a child of the staging directory, to itself or to
\* the directory above it, where nothing can be created.
LEMMA ChildOrTaken ==
  ASSUME NEW name \in STRING, CanCreate(Fresh, Clean(Append(Root, name)))
  PROVE  Clean(Append(Root, name)) = Append(Root, name)
<1>1. Clean(Append(Root, name)) \in {Root, Front(Root), Append(Root, name)}
  BY RootAssumption, CleanAppend, EnterType
<1>2. Root \in Prefixes(Root)
  BY RootAssumption, PrefixesOf
<1>3. Front(Root) \in Prefixes(Root)
  <2>1. Len(Root) \in Nat /\ Len(Root) # 0
    BY RootAssumption
  <2>2. Len(Root) - 1 \in 0..Len(Root)
    BY <2>1
  <2> QED BY <2>2 DEF Front, Prefixes
<1>4. IsDir(Fresh, Root) /\ IsDir(Fresh, Front(Root))
  BY <1>2, <1>3 DEF IsDir, Fresh
<1> QED BY <1>1, <1>4 DEF CanCreate

\* A path below a directory is that directory and the rest.
LEMMA PrefixRest ==
  ASSUME NEW a \in Seq(STRING), NEW b \in Seq(STRING), IsPrefix(a, b)
  PROVE  LET rest == SubSeq(b, Len(a) + 1, Len(b)) IN rest \in Seq(STRING) /\ b = a \o rest
<1>1. Len(a) \in Nat /\ Len(b) \in Nat /\ Len(a) <= Len(b) /\ \A i \in 1..Len(a) : a[i] = b[i]
  BY PrefixAt
<1> PICK rest : rest = SubSeq(b, Len(a) + 1, Len(b))
  OBVIOUS
<1>2. rest \in Seq(STRING) /\ Len(rest) = Len(b) - Len(a) /\ \A i \in 1..Len(rest) : rest[i] = b[Len(a) + i]
  BY <1>1
<1>3. Len(a \o rest) = Len(b) /\ a \o rest \in Seq(STRING)
  BY <1>1, <1>2
<1>4. \A i \in 1..Len(b) : (a \o rest)[i] = b[i]
  BY <1>1, <1>2
<1>5. a \o rest = b
  BY <1>3, <1>4, SeqEqual
<1> QED BY <1>2, <1>5

LEMMA OutBelow == Out \in Seq(STRING) /\ IsPrefix(Root, Out) /\ Len(Out) = Len(Root) + 1
<1>1. "_extracted" \in STRING
  BY OwnNamesAssumption DEF OwnNames
<1> QED BY <1>1, RootAssumption, PrefixOfChild DEF Out

LEMMA LastType ==
  ASSUME NEW s \in Seq(STRING), s # <<>>
  PROVE  Last(s) \in STRING
BY DEF Last

LEMMA TailType ==
  ASSUME NEW s \in Seq(STRING), s # <<>>
  PROVE  Tail(s) \in Seq(STRING)
OBVIOUS

LEMMA SingleSeq ==
  ASSUME NEW S, NEW x \in S
  PROVE  <<x>> \in Seq(S) /\ Len(<<x>>) = 1 /\ <<x>> # <<>> /\ <<x>>[1] = x
<1>1. <<x>> \in Seq(S)
  OBVIOUS
<1>2. Len(<<x>>) = 1 /\ <<x>>[1] = x
  OBVIOUS
<1> QED BY <1>1, <1>2, EmptySeq

LEMMA NotEmpty ==
  ASSUME NEW S, NEW s \in Seq(S), Len(s) > 0
  PROVE  s # <<>>
BY EmptySeq

\* A source that is one file holds just that.
Lone(x) == OneFile(x, Protocol(x.url)) =>
             Len(x.pages[1]) = 1 /\ x.pages[1][1].kind = "file" /\ x.pages[1][1].name # <<>>

LEMMA LoneFile ==
  ASSUME World(w)
  PROVE  Lone(w)
<1>1. PICK f \in DOMAIN Worlds : w \in Worlds[f]
  BY DEF World
<1>2. \A x \in Worlds[f] : Lone(x)
  BY <1>1, WorldsAssumption, Zenon DEF Lone
<1> QED BY <1>1, <1>2

\* The entry of a source that is one file has a name.
LEMMA OnlyEntry ==
  ASSUME World(w), OneFile(w, Protocol(w.url))
  PROVE  Only \in Entry /\ Only.name \in Seq(STRING) /\ Only.name # <<>> /\ Last(Only.name) \in STRING
<1>2. w.pages[1] \in Seq(Entry)
  BY WorldTypes
<1>0. Len(w.pages[1]) = 1 /\ w.pages[1][1].name # <<>>
  BY LoneFile DEF Lone
<1>1. w.pages[1] # <<>> /\ w.pages[1][1].name # <<>>
  BY <1>0, <1>2
<1>3. Only \in Entry
  BY <1>1, <1>2 DEF Only
<1>4. Only.name \in Seq(STRING) /\ Only.name # <<>>
  BY <1>1, <1>3 DEF Only, Entry
<1> QED BY <1>3, <1>4, LastType

LEMMA OnlyNamed ==
  ASSUME World(w), OneFile(w, Protocol(w.url))
  PROVE  Last(Only.name) \in FileNames(w)
<1>1. w.pages[1] \in Seq(Entry) /\ Len(w.pages[1]) = 1
  BY WorldTypes, LoneFile DEF Lone
<1>2. Only \in ToSet(w.pages[1])
  BY <1>1 DEF Only, ToSet
<1>3. Only.name # <<>>
  BY OnlyEntry
<1> QED BY <1>2, <1>3 DEF FileNames

\* Every segment of a path is some tokens, none of them a slash.
Solid == {x \in Seq(STRING) : x # <<>> /\ \A k \in 1..Len(x) : x[k] # "/"}

LEMMA SolidExtend ==
  ASSUME NEW path \in Seq(STRING), NEW n \in 1..Len(path), NEW segs \in Seq(Solid),
         path[n] # "/" /\ ~Begins(path, n) => segs # <<>>
  PROVE  Extend(segs, path, n) \in Seq(Solid)
<1>0. path[n] \in STRING
  OBVIOUS
<1>1. CASE path[n] = "/"
  BY <1>1 DEF Extend
<1>2. CASE Begins(path, n)
  <2>1. Extend(segs, path, n) = Append(segs, <<path[n]>>)
    BY <1>2 DEF Extend, Begins
  <2>2. <<path[n]>> \in Solid
    BY <1>0, <1>2 DEF Solid, Begins
  <2> QED BY <2>1, <2>2
<1>3. CASE path[n] # "/" /\ ~Begins(path, n)
  <2>1. Extend(segs, path, n) = Append(Front(segs), Append(Last(segs), path[n]))
    BY <1>3 DEF Extend, Begins
  <2>2. segs # <<>> /\ Len(segs) \in Nat /\ Len(segs) > 0
    BY <1>3
  <2>3. Last(segs) \in Solid
    BY <2>2 DEF Last
  <2>4. Append(Last(segs), path[n]) \in Solid
    <3>1. PICK x \in Seq(STRING) : x = Last(segs) /\ \A k \in 1..Len(x) : x[k] # "/"
      BY <2>3 DEF Solid
    <3>2. PICK c \in STRING : c = path[n] /\ c # "/"
      BY <1>0, <1>3
    <3>4. /\ Append(x, c) \in Seq(STRING) /\ Len(Append(x, c)) = Len(x) + 1
          /\ Append(x, c)[Len(x) + 1] = c /\ \A k \in 1..Len(x) : Append(x, c)[k] = x[k]
      BY <3>1, <3>2, AppendProperties
    <3>5. Len(x) \in Nat
      BY <3>1
    <3>3. /\ Append(x, c) \in Seq(STRING) /\ Append(x, c) # <<>>
          /\ \A k \in 1..Len(Append(x, c)) : Append(x, c)[k] # "/"
      <4> PICK y \in Seq(STRING) : y = Append(x, c)
        BY <3>4
      <4> HIDE <3>2
      <4>1. y # <<>>
        BY <3>4, <3>5
      <4>2. ASSUME NEW k \in 1..Len(y) PROVE y[k] # "/"
        BY <3>1, <3>2, <3>4, <3>5, <4>2
      <4> QED BY <4>1, <4>2
    <3> QED BY <3>1, <3>2, <3>3 DEF Solid
  <2>5. Front(segs) \in Seq(Solid)
    <3>1. Len(segs) - 1 \in Nat /\ Len(segs) - 1 <= Len(segs)
      BY <2>2
    <3> QED BY <3>1, SubSeqType DEF Front
  <2> QED BY <2>1, <2>4, <2>5
<1> QED BY <1>1, <1>2, <1>3 DEF Begins

LEMMA SolidSegments ==
  ASSUME NEW path \in Seq(STRING)
  PROVE  Segments(path) \in Seq(Solid)
<1>1. PICK f : Cuts(path, f) /\ Segments(path) = f[Len(path)]
  BY SegmentsCut
<1>0. Len(path) \in Nat
  OBVIOUS
<1>2. /\ f[0] = <<>> /\ \A n \in 1..Len(path) : f[n] = Extend(f[n - 1], path, n)
      /\ \A n \in 1..Len(path) : path[n] # "/" => f[n] # <<>>
  BY <1>1, CutType
<1> DEFINE S == {n \in Nat : n <= Len(path) => f[n] \in Seq(Solid)}
<1>3. 0 \in S
  <2>1. <<>> \in Seq(Solid)
    OBVIOUS
  <2> QED BY <1>2, <2>1
<1>4. \A n \in Nat : n \in S => n + 1 \in S
  <2> TAKE n \in Nat
  <2> HAVE n \in S
  <2> SUFFICES ASSUME n + 1 <= Len(path) PROVE f[n + 1] \in Seq(Solid)
    OBVIOUS
  <2>1. n + 1 \in 1..Len(path) /\ f[n] \in Seq(Solid) /\ (n + 1) - 1 = n
    BY <1>0
  <2>2. path[n + 1] # "/" /\ ~Begins(path, n + 1) => n \in 1..Len(path) /\ path[n] # "/"
    BY <2>1, <1>0 DEF Begins
  <2>3. f[n + 1] = Extend(f[n], path, n + 1)
    BY <1>2, <2>1
  <2> QED BY <1>2, <2>1, <2>2, <2>3, SolidExtend
<1> HIDE DEF S
<1>5. Len(path) \in S
  BY <1>0, <1>3, <1>4, SetInduction
<1> QED BY <1>0, <1>1, <1>5 DEF S

\* A segment, cut at its slashes, is one segment.
LEMMA OneSegment ==
  ASSUME NEW path \in Solid
  PROVE  Len(Segments(path)) = 1
<1>0. path \in Seq(STRING) /\ Len(path) \in Nat /\ Len(path) > 0 /\ \A k \in 1..Len(path) : path[k] # "/"
  BY DEF Solid
<1>1. PICK f : Cuts(path, f) /\ Segments(path) = f[Len(path)]
  BY <1>0, SegmentsCut
<1>2. /\ f[0] = <<>> /\ \A n \in 1..Len(path) : f[n] = Extend(f[n - 1], path, n)
      /\ \A n \in 0..Len(path) : f[n] \in Seq(Seq(STRING))
  BY <1>0, <1>1, CutType
<1> DEFINE S == {n \in Nat : n + 1 <= Len(path) => Len(f[n + 1]) = 1}
<1>8. ASSUME NEW m \in 1..Len(path), NEW segs \in Seq(Seq(STRING)), ~Begins(path, m) => segs # <<>>
      PROVE  Len(Extend(segs, path, m)) = IF Begins(path, m) THEN Len(segs) + 1 ELSE Len(segs)
  BY <1>0, <1>8, ExtendFacts
<1>3. 0 \in S
  <2>1. 1 \in 1..Len(path) /\ 0 \in 0..Len(path)
    BY <1>0
  <2>2. f[1] = Extend(f[1 - 1], path, 1) /\ f[0] \in Seq(Seq(STRING)) /\ f[0] = <<>>
    BY <1>2, <2>1
  <2>3. Begins(path, 1)
    BY <1>0, <2>1 DEF Begins
  <2>4. f[1] = Extend(<<>>, path, 1) /\ <<>> \in Seq(Seq(STRING)) /\ Len(<<>>) = 0
    BY <2>2
  <2>5. Len(f[1]) = Len(<<>>) + 1
    BY <1>8, <2>1, <2>3, <2>4
  <2> QED BY <2>4, <2>5
<1>4. \A n \in Nat : n \in S => n + 1 \in S
  <2> TAKE n \in Nat
  <2> HAVE n \in S
  <2> SUFFICES ASSUME (n + 1) + 1 <= Len(path) PROVE Len(f[(n + 1) + 1]) = 1
    OBVIOUS
  <2>0. Len(f[n + 1]) = 1
    BY <1>0
  <2> PICK m \in Nat : m = n + 2
    OBVIOUS
  <2>1. m \in 1..Len(path) /\ m - 1 \in 0..Len(path) /\ m - 1 \in 1..Len(path) /\ m # 1 /\ m - 1 = n + 1 /\ (n + 1) + 1 = m
    BY <1>0
  <2>5. f[m] = Extend(f[m - 1], path, m) /\ f[m - 1] \in Seq(Seq(STRING)) /\ Len(f[m - 1]) = 1
    BY <1>2, <2>0, <2>1
  <2>2. f[m] = Extend(f[m - 1], path, m) /\ f[m - 1] \in Seq(Seq(STRING)) /\ f[m - 1] # <<>> /\ Len(f[m - 1]) = 1
    <3> PICK g \in Seq(Seq(STRING)) : g = f[m - 1]
      BY <2>5
    <3>1. Len(g) > 0
      BY <2>5
    <3>2. g # <<>>
      BY <3>1, NotEmpty
    <3> QED BY <2>5, <3>2
  <2>3. ~Begins(path, m)
    BY <1>0, <2>1 DEF Begins
  <2>4. Len(f[m]) = 1
    BY <1>8, <2>1, <2>2, <2>3
  <2> QED BY <2>1, <2>4
<1>5. \A n \in Nat : n \in S
  <2> HIDE DEF S
  <2> QED BY <1>3, <1>4, SetInduction
<1>6. Len(path) - 1 \in Nat /\ (Len(path) - 1) + 1 = Len(path)
  BY <1>0
<1>7. Len(f[Len(path)]) = 1
  <2> PICK k \in Nat : k = Len(path) - 1
    BY <1>6
  <2>1. k \in S /\ k + 1 = Len(path) /\ k + 1 <= Len(path)
    BY <1>0, <1>5, <1>6
  <2>2. Len(f[k + 1]) = 1
    BY <2>1
  <2> QED BY <2>1, <2>2
<1> QED BY <1>1, <1>7

\* Only a parameter that is no bool gives the file a name of several segments.
LEMMA OneSegmentName ==
  ASSUME NEW u \in URL, u.archive # "named"
  PROVE  Len(Segments(fileName(u))) = 1
<1>1. u.path \in Seq(STRING)
  BY DEF URL
<1>2. Segments(u.path) \in Seq(Solid)
  BY <1>1, SolidSegments
<1>3. <<"download">> \in Solid
  <2> PICK c \in STRING : c = "download" /\ c # "/"
    BY OwnNamesAssumption DEF OwnNames
  <2>1. <<c>> \in Seq(STRING) /\ Len(<<c>>) = 1 /\ <<c>> # <<>> /\ \A k \in 1..1 : <<c>>[k] # "/"
    BY SingleSeq
  <2> QED BY <2>1 DEF Solid
<1>4. Segments(u.path) # <<>> => Last(Segments(u.path)) \in Solid
  BY <1>2 DEF Last
<1>5. fileName(u) \in Solid
  BY <1>3, <1>4 DEF fileName
<1> QED BY <1>5, OneSegment

LEMMA AppendJoined ==
  ASSUME NEW S, NEW a \in Seq(S), NEW b \in Seq(S), NEW x \in S
  PROVE  Append(a \o b, x) = a \o Append(b, x) /\ a \o b \in Seq(S)
<1>4. <<x>> \in Seq(S)
  OBVIOUS
<1>1. a \o b \in Seq(S) /\ <<x>> \in Seq(S)
  BY <1>4, ConcatProperties
<1>2. Append(a \o b, x) = (a \o b) \o <<x>> /\ Append(b, x) = b \o <<x>>
  BY <1>1, AppendIsConcat
<1>3. (a \o b) \o <<x>> = a \o (b \o <<x>>)
  BY <1>1, ConcatAssociative
<1> QED BY <1>1, <1>2, <1>3

LEMMA NamesAppended ==
  ASSUME NEW a \in Seq(STRING), NEW b \in Seq(STRING), NEW x \in STRING
  PROVE  Append(a \o b, x) = a \o Append(b, x) /\ a \o b \in Seq(STRING)
BY AppendJoined

\* Where the one file of a response or of a store's object is made: in the staging
\* directory, or, if "?archive=" leads out of it, in a directory above.
LEMMA FilePlaced ==
  ASSUME World(w), proto = Protocol(w.url), proto \in {"http", "s3", "gcs"}, OneFile(w, proto),
         IsDir(Fresh, Front(FilePlace)), CanCreate(Fresh, FilePlace)
  PROVE  /\ FilePlace = Append(Front(FilePlace), Last(Only.name)) /\ FilePlace \in Seq(STRING)
         /\ Front(FilePlace) \in DOMAIN Fresh
         /\ Aside => proto = "http" /\ w.url.archive = "named" /\ ~IsPrefix(Root, FilePlace)
<1>1. Only.name \in Seq(STRING) /\ Only.name # <<>> /\ Last(Only.name) \in STRING
  BY OnlyEntry
<1> PICK name \in Seq(STRING) : name = Only.name /\ name # <<>>
  BY <1>1
<1> PICK last \in STRING : last = Last(name)
  BY <1>1
<1>2. Front(FilePlace) \in DOMAIN Fresh
  BY DEF IsDir
<1>3. CASE proto # "http"
  <2>1. FilePlace = Clean(Append(Root, last))
    BY <1>3 DEF FilePlace
  <2>2. FilePlace = Append(Root, last)
    BY <1>1, <2>1, ChildOrTaken
  <2>3. Front(FilePlace) = Root /\ FilePlace \in Seq(STRING)
    BY <1>1, <2>2, RootAssumption, FrontAppend, PrefixOfChild
  <2> QED BY <1>2, <2>2, <2>3 DEF Aside
<1>4. CASE proto = "http"
  <2> DEFINE init == Front(name)
             dir == Clean(Root \o init)
  <2>1. name = Append(init, last)
    BY DEF Front, Last
  <2>0. init \in Seq(STRING)
    BY FrontProperties
  <2>2. Root \o init \in Seq(STRING) /\ Root \o name = Append(Root \o init, last)
    <3> HIDE DEF init
    <3> PICK r \in Seq(STRING) : r = Root
      BY RootAssumption
    <3>1. Append(r \o init, last) = r \o Append(init, last) /\ r \o init \in Seq(STRING)
      BY <2>0, NamesAppended
    <3> QED BY <2>1, <3>1
  <2>3. dir \in Seq(STRING) /\ FilePlace = Enter(dir, last)
    <3>1. FilePlace = Clean(Root \o name)
      BY <1>4 DEF FilePlace
    <3> HIDE DEF init
    <3> QED BY <1>1, <2>2, <3>1, CleanType, CleanAppend
  <2>4. Spells(name, w.url)
    BY <1>4, WorldsAssumption DEF World, Only
  <2>5. w.url \in URL
    BY WorldTypes
  <2>6. FilePlace \in DOMAIN Fresh => FALSE
    BY DEF CanCreate, IsDir, Fresh
  <2> HIDE DEF init, dir
  <2>7. last \notin Dots
    <3> SUFFICES ASSUME last \in Dots PROVE FALSE
      OBVIOUS
    <3>1. IsPrefix(Clean(Root \o name), Root)
      BY <2>4 DEF Spells
    <3>2. IsPrefix(FilePlace, Root)
      BY <1>4, <3>1 DEF FilePlace
    <3>3. FilePlace \in Seq(STRING)
      BY <1>1, <2>3, EnterType
    <3>4. FilePlace \in Prefixes(Root)
      BY <3>2, <3>3, RootAssumption, PrefixIn
    <3> QED BY <2>6, <3>4 DEF Fresh
  <2>8. FilePlace = Append(dir, last)
    BY <2>3, <2>7 DEF Enter, Dots, Still
  <2>9. Front(FilePlace) = dir /\ FilePlace \in Seq(STRING) /\ Len(FilePlace) = Len(dir) + 1
    BY <1>1, <2>3, <2>8, FrontAppend, PrefixOfChild
  <2>10. ASSUME Aside PROVE w.url.archive = "named" /\ ~IsPrefix(Root, FilePlace)
    <3>1. dir # Root
      BY <2>9, <2>10 DEF Aside
    <3>2. IsPrefix(dir, Root)
      BY <1>2, <2>9, RootAssumption, PrefixesOf DEF Fresh
    <3>3. IsPrefix(Root, Root) /\ Len(Root) \in Nat /\ Len(dir) \in Nat
      BY <2>3, RootAssumption, PrefixAt
    <3>4. Len(dir) <= Len(Root) /\ Len(dir) # Len(Root)
      BY <2>3, <3>1, <3>2, <3>3, RootAssumption, PrefixAt, PrefixesMeet
    <3>5. ASSUME IsPrefix(Root, FilePlace) PROVE FALSE
      <4>1. Len(Root) <= Len(FilePlace)
        BY <2>9, <3>5, RootAssumption, PrefixAt
      <4>2. Len(Root) = Len(FilePlace)
        BY <2>9, <3>3, <3>4, <4>1
      <4>3. IsPrefix(FilePlace, FilePlace)
        BY <2>9, PrefixAt
      <4>4. Root = FilePlace
        BY <2>9, <3>5, <4>2, <4>3, RootAssumption, PrefixesMeet
      <4>5. Root \in DOMAIN Fresh
        BY RootAssumption, PrefixesOf DEF Fresh
      <4> QED BY <2>6, <4>4, <4>5
    <3>6. ASSUME w.url.archive # "named" PROVE FALSE
      <4>1. Len(name) = 1
        BY <2>4, <2>5, <3>6, OneSegmentName DEF Spells
      <4>2. init = <<>>
        BY <1>1, <4>1 DEF init, Front
      <4>3. dir = Root
        BY <4>2, RootAssumption DEF dir
      <4> QED BY <3>1, <4>3
    <3> QED BY <3>5, <3>6
  <2> QED BY <1>2, <1>4, <2>8, <2>9, <2>10
<1> QED BY <1>3, <1>4

\* Links, with the places they lead to.
Links(links) == \A q \in DOMAIN links : links[q] \in Seq(STRING)

LEMMA OnwardType ==
  ASSUME NEW links, Links(links), NEW dir \in Seq(STRING), NEW seg \in STRING
  PROVE  Onward(links, dir, seg) \in Seq(STRING)
<1>1. Append(dir, seg) \in Seq(STRING)
  BY AppendProperties
<1> QED BY <1>1 DEF Onward, Links

\* Where the first n segments of a path lead, links followed.
Follows(links, path, f) == f = [n \in 0..Len(path) |-> IF n = 0 THEN <<>> ELSE Onward(links, f[n - 1], path[n])]

LEMMA FollowExists ==
  ASSUME NEW links, Links(links), NEW path \in Seq(STRING)
  PROVE  \E f : Follows(links, path, f)
<1> DEFINE W(n, f) == f = [k \in 0..n |-> IF k = 0 THEN <<>> ELSE Onward(links, f[k - 1], path[k])]
           S == {n \in Nat : \E f : W(n, f)}
<1>1. 0 \in S
  <2>1. W(0, [k \in 0..0 |-> <<>>])
    OBVIOUS
  <2> QED BY <2>1
<1>2. \A n \in Nat : n \in S => n + 1 \in S
  <2> TAKE n \in Nat
  <2> HAVE n \in S
  <2>1. PICK f : W(n, f)
    OBVIOUS
  <2> DEFINE g == [k \in 0..(n + 1) |-> IF k <= n THEN f[k] ELSE Onward(links, f[n], path[n + 1])]
  <2>2. \A k \in 0..(n + 1) : g[k] = IF k = 0 THEN <<>> ELSE Onward(links, g[k - 1], path[k])
    BY <2>1
  <2>3. W(n + 1, g)
    BY <2>2
  <2> HIDE DEF g, W
  <2> QED BY <2>3
<1> HIDE DEF S, W
<1>3. Len(path) \in Nat
  OBVIOUS
<1>5. Len(path) \in S
  BY <1>1, <1>2, <1>3, SetInduction
<1>4. PICK f : W(Len(path), f)
  BY <1>5 DEF S
<1> QED BY <1>4 DEF W, Follows

\* Follow goes the whole path.
LEMMA FollowFollows ==
  ASSUME NEW links, Links(links), NEW path \in Seq(STRING)
  PROVE  \E f : Follows(links, path, f) /\ Follow(links, path) = f[Len(path)]
<1> DEFINE f == CHOOSE f : Follows(links, path, f)
<1>1. Follows(links, path, f)
  BY FollowExists
<1>2. Follow(links, path) = f[Len(path)]
  BY DEF Follow, Follows
<1> HIDE DEF f
<1> QED BY <1>1, <1>2

LEMMA FollowsType ==
  ASSUME NEW links, Links(links), NEW path \in Seq(STRING), NEW f, Follows(links, path, f)
  PROVE  \A n \in 0..Len(path) : f[n] \in Seq(STRING)
<1> DEFINE S == {n \in Nat : n <= Len(path) => f[n] \in Seq(STRING)}
<1>0. Len(path) \in Nat
  OBVIOUS
<1>1. f[0] = <<>> /\ \A n \in 0..Len(path) : n # 0 => f[n] = Onward(links, f[n - 1], path[n])
  <2>1. f = [n \in 0..Len(path) |-> IF n = 0 THEN <<>> ELSE Onward(links, f[n - 1], path[n])]
    BY DEF Follows
  <2>2. 0 \in 0..Len(path)
    BY <1>0
  <2> QED BY <2>1, <2>2
<1>5. <<>> \in Seq(STRING)
  OBVIOUS
<1>2. 0 \in S
  BY <1>1, <1>5
<1>3. \A n \in Nat : n \in S => n + 1 \in S
  <2> TAKE n \in Nat
  <2> HAVE n \in S
  <2> SUFFICES ASSUME n + 1 <= Len(path) PROVE f[n + 1] \in Seq(STRING)
    OBVIOUS
  <2>1. f[n] \in Seq(STRING) /\ path[n + 1] \in STRING /\ f[n + 1] = Onward(links, f[n], path[n + 1])
    BY <1>1
  <2> QED BY <2>1, OnwardType
<1> HIDE DEF S
<1>4. \A n \in Nat : n \in S
  BY <1>2, <1>3, SetInduction
<1> QED BY <1>4 DEF S

LEMMA FollowType ==
  ASSUME NEW links, Links(links), NEW path \in Seq(STRING)
  PROVE  Follow(links, path) \in Seq(STRING)
BY FollowFollows, FollowsType

\* The directory hg's move takes from, when it lies in the clone.
LEMMA SourceBelow ==
  ASSUME World(w), Protocol(w.url) = "hg", proto = "hg"
  PROVE  /\ srcDir \in Seq(STRING)
         /\ ~Astray => Subdirectory \in Seq(STRING) /\ srcDir = CloneDir \o Subdirectory
         /\ w.subdir = <<>> => Subdirectory = <<>> /\ ~Astray
<1>1. CloneDir \in Seq(STRING) /\ w.subdir \in Seq(STRING) /\ Root \in Seq(STRING)
  BY CloneDirBelow, WorldTypes, RootAssumption
<1>2. Links(w.links)
  BY WorldsAssumption DEF World, Links
<1>3. Follow(w.links, Clean(CloneDir \o w.subdir)) \in Seq(STRING)
  BY <1>1, <1>2, PrefixOfJoined, CleanType, FollowType
<1>4. srcDir \in Seq(STRING)
  BY <1>1, <1>3 DEF srcDir
<1>5. ASSUME ~Astray PROVE Subdirectory \in Seq(STRING) /\ srcDir = CloneDir \o Subdirectory
  <2>1. IsPrefix(CloneDir, srcDir)
    BY <1>5 DEF Astray
  <2>2. Subdirectory = SubSeq(srcDir, Len(CloneDir) + 1, Len(srcDir))
    BY DEF Subdirectory
  <2> QED BY <1>1, <1>4, <2>1, <2>2, PrefixRest
<1>6. ASSUME w.subdir = <<>> PROVE Subdirectory = <<>> /\ ~Astray
  <2>1. srcDir = Root /\ CloneDir = Root
    BY <1>6 DEF srcDir, CloneDir
  <2>2. IsPrefix(Root, Root)
    BY <1>1, PrefixAt
  <2>3. SubSeq(Root, Len(Root) + 1, Len(Root)) = <<>>
    BY <1>1
  <2> QED BY <2>1, <2>2, <2>3 DEF Subdirectory, Astray
<1> QED BY <1>4, <1>5, <1>6

\* Before anything is written the staging directory is fresh; afterwards everything is
\* in it, or one file of HTTP's was written in a directory above.
Unwritten == {"detect", "request", "archive", "body", "pull"}

WrittenAside ==
  /\ pc \in {"extract", "done"} /\ proto = "http" /\ w.url.archive = "named" /\ Aside
  /\ FilePlace \in Seq(STRING) /\ ~IsPrefix(Root, FilePlace)
  /\ DOMAIN tree = DOMAIN Fresh \cup {FilePlace}
  /\ \A p \in DOMAIN Fresh : tree[p] = Dir

Placed ==
  /\ Within(tree) \/ WrittenAside
  /\ pc \in Unwritten => tree = Fresh
  /\ pc = "body" => proto \in {"http", "s3", "gcs"} /\ OneFile(w, proto)
  /\ pc = "pull" => proto = "oci"
  /\ pc = "move" => proto = "hg"

LEMMA MadeInFresh ==
  ASSUME NEW p, Front(p) \in DOMAIN Fresh, NEW node
  PROVE  /\ DOMAIN Create(Fresh, p, node) = DOMAIN Fresh \cup {p}
         /\ \A q \in DOMAIN Fresh : q # p => Create(Fresh, p, node)[q] = Dir
<1>1. Prefixes(Front(p)) \subseteq DOMAIN Fresh
  <2>1. Front(p) \in Seq(STRING) /\ IsPrefix(Front(p), Root)
    BY RootAssumption, PrefixesOf DEF Fresh
  <2>2. \A q \in Prefixes(Front(p)) : q \in Seq(STRING) /\ IsPrefix(q, Root)
    BY <2>1, RootAssumption, PrefixesOf, PrefixTransitive
  <2> QED BY <2>2, RootAssumption, PrefixIn DEF Fresh
<1> QED BY <1>1 DEF Create, Put, MkdirAll, Fresh

LEMMA PlacedInit == Init => Placed
<1> SUFFICES ASSUME Init PROVE Placed
  OBVIOUS
<1>1. pc = "detect" /\ tree = Fresh
  BY DEF Init
<1> QED BY <1>1, FreshWithin DEF Placed

LEMMA PlacedStep == Typed /\ Placed /\ [Next]_vars => Placed'
<1> SUFFICES ASSUME Typed, Placed, [Next]_vars PROVE Placed'
  OBVIOUS
<1>w. World(w) /\ (pc # "detect" => proto = Protocol(w.url))
  BY DEF Typed, Chosen
<1>p. w.pages[1] \in Seq(Entry) /\ w.inner \in Seq(Entry) /\ w.local \in Seq(STRING) /\ w.subdir \in Seq(STRING)
  BY <1>w, WorldTypes
<1>e. todo # <<>> => e \in Entry /\ e.name \in Seq(STRING)
  BY HeadTail DEF Typed, Stream, Entry
<1>m. pc' = "move" => proto' = "hg"
  <2> SUFFICES ASSUME pc' = "move" PROVE proto' = "hg"
    OBVIOUS
  <2>1. CASE HgClone
    BY <2>1 DEF HgClone, request
  <2>2. CASE UNCHANGED <<pc, proto>>
    BY <2>2 DEF Placed
  <2>3. HgClone \/ pc' = pc
    <3>1. ASSUME NEW p, NEW secrets, NEW label, Request(p, secrets, label), label # "move" PROVE FALSE
      BY <3>1 DEF Request, Goto, Return
    <3>2. ~(RequestHTTP \/ RequestS3 \/ RequestGCS \/ RequestOCI \/ Clone)
      BY <3>1 DEF RequestHTTP, RequestS3, RequestGCS, RequestOCI, Clone
    <3>3. Detect \/ InvalidKey \/ fetchArchive \/ Body \/ ListPage \/ GetObject \/ Pull \/ OpenLocal => pc' = pc
      BY DEF Detect, InvalidKey, fetchArchive, Body, ListPage, GetObject, Pull, OpenLocal,
           Save, Advance, Skip, Downloaded, Goto, Fail, Return
    <3>4. copyDir \/ CopyEnd \/ HgMove \/ extractArchive \/ ArchiveEnd => pc' = pc
      BY DEF copyDir, CopyEnd, HgMove, extractArchive, ArchiveEnd, Save, MakeDir, Advance, Skip, Downloaded, Goto, Fail, Return
    <3>5. ExtractWithLimit \/ untar \/ extractZip \/ Extracted \/ Done \/ UNCHANGED vars => pc' = pc
      BY DEF ExtractWithLimit, untar, extractZip, Extracted, Done, vars,
           Save, MakeDir, Spend, Advance, Skip, Goto, Fail, Return
    <3> QED BY <3>2, <3>3, <3>4, <3>5 DEF Next
  <2>4. CASE pc' = pc
    <3>1. ~Detect
      BY <2>4 DEF Detect
    <3>2. UNCHANGED proto
      BY <3>1, Stays DEF vars, request
    <3> QED BY <2>2, <2>4, <3>2
  <2> QED BY <2>1, <2>3, <2>4
<1>a. CASE ~Within(tree)
  <2>1. WrittenAside /\ pc \in {"extract", "done"} /\ pc \notin Unwritten
    BY <1>a DEF Placed, WrittenAside, Unwritten
  <2>2. ExtractWithLimit \/ Done \/ UNCHANGED vars
    BY <2>1 DEF Next, Detect, RequestHTTP, RequestS3, RequestGCS, InvalidKey, RequestOCI, Request, Clone, fetchArchive,
         Body, ListPage, GetObject, Pull, OpenLocal, copyDir, CopyEnd, HgClone, HgMove, extractArchive, ArchiveEnd,
         untar, extractZip, Extracted
  <2>3. UNCHANGED <<w, proto, tree>> /\ (pc' = pc \/ ExtractWithLimit)
    BY <2>2 DEF ExtractWithLimit, Done, vars, request
  <2>4. Children(tree, Root) = {}
    <3>1. FilePlace \in Seq(STRING) /\ Front(FilePlace) # Root
      BY <2>1 DEF WrittenAside, Aside
    <3> QED BY <2>1, <3>1, FreshNoChild DEF WrittenAside, Children
  <2>5. Cardinality(Children(tree, Root)) # 1
    BY <2>4, FS_EmptySet
  <2>6. pc' \in {"extract", "done"}
    BY <2>1, <2>3, <2>5 DEF ExtractWithLimit, Fail, Return
  <2>7. WrittenAside'
    BY <2>1, <2>3, <2>6 DEF WrittenAside, Aside, FilePlace, Only, OneFile
  <2> QED BY <1>m, <2>6, <2>7 DEF Placed, Unwritten
<1> SUFFICES ASSUME Within(tree) PROVE Placed'
  BY <1>a
<1>i. Within(tree) /\ (pc \in Unwritten => tree = Fresh)
  BY DEF Placed
<1>r. IsPrefix(Root, Root) /\ Root \in Seq(STRING)
  BY RootAssumption, PrefixAt
<1>k. ASSUME Within(tree'), pc' \notin Unwritten PROVE Placed'
  BY <1>k, <1>m DEF Placed, Within, Unwritten
<1>c. ASSUME NEW p \in Seq(STRING), IsPrefix(Root, p), pc' \notin Unwritten,
             tree' = tree \/ tree' = MkdirAll(tree, p) \/ \E node : tree' = Create(tree, p, node)
      PROVE  Placed'
  <2>1. Within(tree')
    BY <1>c, <1>i, CreateWithin, MkdirAllWithin
  <2> QED BY <2>1, <1>c, <1>k
<1>0. CASE UNCHANGED vars \/ Done
  BY <1>0 DEF Placed, Within, Unwritten, vars, request, Done, OneFile
<1>1. CASE Detect
  BY <1>1, <1>i, <1>m DEF Detect, Placed, Goto, Return, Unwritten
<1>2. CASE RequestHTTP \/ RequestS3 \/ RequestGCS \/ RequestOCI \/ Clone
  <2>1. UNCHANGED <<w, proto, tree>> /\ tree = Fresh
    BY <1>2, <1>i DEF RequestHTTP, RequestS3, RequestGCS, RequestOCI, Clone, Request, Unwritten
  <2>2. pc' = "body" => proto \in {"http", "s3", "gcs"} /\ OneFile(w, proto)
    BY <1>2 DEF RequestHTTP, RequestS3, RequestGCS, RequestOCI, Clone, Request, Goto, Return, OneFile
  <2>3. pc' = "pull" => proto = "oci"
    BY <1>2 DEF RequestHTTP, RequestS3, RequestGCS, RequestOCI, Clone, Request, Goto, Return
  <2> QED BY <2>1, <2>2, <2>3, <1>i, <1>m DEF Placed
<1>3. CASE InvalidKey \/ fetchArchive
  <2>1. UNCHANGED <<w, proto, tree>>
    BY <1>3 DEF InvalidKey, fetchArchive, request
  <2>2. pc' \notin Unwritten
    BY <1>3 DEF InvalidKey, fetchArchive, Goto, Fail, Return, Unwritten
  <2> QED BY <2>1, <2>2, <1>i, <1>k
<1>4. CASE Body
  <2>1. pc = "body" /\ tree = Fresh /\ OneFile(w, proto) /\ proto = Protocol(w.url) /\ proto \in {"http", "s3", "gcs"}
    BY <1>4, <1>i, <1>w DEF Body, Placed, Unwritten
  <2>3. pc' \in {"extract", "done"} /\ pc' \notin Unwritten /\ UNCHANGED <<w, proto>>
    BY <1>4 DEF Body, Save, Downloaded, Goto, Fail, Return, Unwritten, request
  <2>4. CASE IsDir(tree, Front(FilePlace)) /\ CanCreate(tree, FilePlace)
    <3>1. /\ FilePlace \in Seq(STRING) /\ FilePlace = Append(Front(FilePlace), Last(Only.name))
          /\ Front(FilePlace) \in DOMAIN Fresh
          /\ Aside => proto = "http" /\ w.url.archive = "named" /\ ~IsPrefix(Root, FilePlace)
      BY <2>1, <2>4, <1>w, FilePlaced
    <3>2. PICK node : tree' = Create(tree, FilePlace, node)
      BY <1>4, <2>4 DEF Body, Save
    <3>3. CASE Aside
      <4>1. DOMAIN tree' = DOMAIN Fresh \cup {FilePlace} /\ \A p \in DOMAIN Fresh : p # FilePlace => tree'[p] = Dir
        <5> PICK t : t = tree'
          OBVIOUS
        <5> PICK p : p = FilePlace
          OBVIOUS
        <5>1. t = Create(Fresh, p, node) /\ Front(p) \in DOMAIN Fresh
          BY <2>1, <3>1, <3>2
        <5>2. DOMAIN t = DOMAIN Fresh \cup {p} /\ \A q \in DOMAIN Fresh : q # p => t[q] = Dir
          BY <5>1, MadeInFresh
        <5> QED BY <5>2
      <4>2. FilePlace \notin DOMAIN Fresh
        BY <2>1, <2>4 DEF CanCreate, IsDir, Fresh
      <4>3. WrittenAside'
        BY <2>3, <3>1, <3>3, <4>1, <4>2 DEF WrittenAside, Aside, FilePlace, Only, OneFile
      <4> QED BY <1>m, <2>3, <4>3 DEF Placed, Unwritten
    <3>4. CASE ~Aside
      <4>1. Front(FilePlace) = Root
        BY <2>1, <3>4 DEF Aside
      <4>2. FilePlace = Append(Root, Last(Only.name)) /\ Last(Only.name) \in STRING
        BY <1>w, <2>1, <3>1, <4>1, OnlyEntry
      <4>3. IsPrefix(Root, FilePlace)
        BY <4>2, <1>r, PrefixOfChild
      <4> QED BY <2>3, <3>1, <3>2, <4>3, <1>c
    <3> QED BY <3>3, <3>4
  <2>5. CASE ~(IsDir(tree, Front(FilePlace)) /\ CanCreate(tree, FilePlace))
    BY <1>4, <2>3, <2>5, <1>r, <1>c DEF Body, Save
  <2> QED BY <2>4, <2>5
<1>5. CASE ListPage \/ CopyEnd \/ ArchiveEnd
  <2>1. UNCHANGED tree
    BY <1>5 DEF ListPage, CopyEnd, ArchiveEnd
  <2>2. pc' \notin Unwritten
    BY <1>5 DEF ListPage, CopyEnd, ArchiveEnd, Downloaded, Goto, Fail, Return, Unwritten
  <2> QED BY <2>1, <2>2, <1>i, <1>k
<1>6. CASE GetObject
  <2> DEFINE p == Join(Root, e.name)
  <2>1. pc' \notin Unwritten
    BY <1>6 DEF GetObject, Save, Advance, Skip, Fail, Return, Unwritten
  <2>2. CASE UNCHANGED tree
    BY <2>1, <2>2, <1>r, <1>c
  <2>3. CASE ~UNCHANGED tree
    <3>1. p # Escapes /\ \E node : tree' = Create(tree, p, node)
      BY <1>6, <2>3 DEF GetObject, Save, Skip
    <3>2. e.name \in Seq(STRING)
      BY <1>6, <1>e DEF GetObject
    <3>3. p \in Seq(STRING) /\ IsPrefix(Root, p)
      BY <3>1, <3>2, <1>r, JoinBelow
    <3> HIDE DEF p
    <3> QED BY <2>1, <3>1, <3>3, <1>c
  <2> QED BY <2>2, <2>3
<1>7. CASE Pull
  <2> DEFINE pulled == Plant(tree, Root, w.pages[1])
             gone == {p \in {Append(Root, "oci-layout"), Append(Root, "index.json")} : Children(pulled, p) = {}}
                       \cup {p \in {Append(Root, "blobs")} : IsDir(pulled, p) /\ Children(pulled, p) = {}}
  <2>1. pc' \notin Unwritten
    BY <1>7 DEF Pull, Downloaded, Goto, Fail, Return, Unwritten
  <2>2. Within(pulled)
    BY <1>i, <1>p, <1>r, PlantWithin
  <2>3. \A p \in gone : Len(p) = Len(Root) + 1
    <3>1. "oci-layout" \in STRING /\ "index.json" \in STRING /\ "blobs" \in STRING
      BY OwnNamesAssumption DEF OwnNames
    <3> QED BY <3>1, <1>r, PrefixOfChild
  <2>4. Within(cleanupOrasMetadata(pulled))
    BY <2>2, <2>3, WithoutWithin DEF cleanupOrasMetadata
  <2>5. tree' = tree \/ tree' = cleanupOrasMetadata(pulled)
    BY <1>7 DEF Pull
  <2> QED BY <2>1, <2>4, <2>5, <1>i, <1>k
<1>8. CASE OpenLocal
  <2>1. pc' \notin Unwritten
    BY <1>8 DEF OpenLocal, Save, Downloaded, Goto, Fail, Return, Unwritten
  <2>2. Within(Put(tree, Root, Link(Only)))
    BY <1>i, <1>r, PutWithin
  <2>3. CASE tree' = tree \/ tree' = Put(tree, Root, Link(Only))
    BY <2>1, <2>2, <2>3, <1>i, <1>k
  <2>4. CASE ~(tree' = tree \/ tree' = Put(tree, Root, Link(Only)))
    <3>1. proto = "file" /\ pc = "request" /\ w.at = "file"
      BY <1>8, <2>4 DEF OpenLocal
    <3>2. w.local # <<>>
      BY <3>1, <1>w, WorldsAssumption DEF World
    <3>3. \E node : tree' = Create(tree, Append(Root, Last(w.local)), node)
      BY <1>8, <2>4 DEF OpenLocal, Save
    <3>4. Append(Root, Last(w.local)) \in Seq(STRING) /\ IsPrefix(Root, Append(Root, Last(w.local)))
      BY <3>2, <1>p, <1>r, LastType, PrefixOfChild
    <3> QED BY <2>1, <3>3, <3>4, <1>c
  <2> QED BY <2>3, <2>4
<1>9. CASE copyDir
  <2>1. pc' \notin Unwritten
    BY <1>9 DEF copyDir, Save, MakeDir, Advance, Fail, Return, Unwritten
  <2>2. e.name \in Seq(STRING)
    BY <1>9, <1>e DEF copyDir
  <2>3. Root \o e.name \in Seq(STRING) /\ IsPrefix(Root, Root \o e.name)
    BY <2>2, <1>r, PrefixOfJoined
  <2>4. tree' = tree \/ tree' = MkdirAll(tree, Root \o e.name) \/ \E node : tree' = Create(tree, Root \o e.name, node)
    BY <1>9 DEF copyDir, Save, MakeDir
  <2> QED BY <2>1, <2>3, <2>4, <1>c
<1>10. CASE HgClone
  <2>1. pc' \notin Unwritten
    BY <1>10 DEF HgClone, Downloaded, Goto, Fail, Return, Unwritten
  <2>2. Within(Plant(tree, CloneDir, w.pages[1]))
    BY <1>i, <1>p, <1>w, CloneDirBelow, PlantWithin
  <2>3. tree' = tree \/ tree' = Plant(tree, CloneDir, w.pages[1])
    BY <1>10 DEF HgClone
  <2> QED BY <2>1, <2>2, <2>3, <1>i, <1>k
<1>11. CASE HgMove
  <2> DEFINE src   == srcDir
             moved == {q \in DOMAIN tree : IsStrictPrefix(src, q)}
             To(q) == Root \o SubSeq(q, Len(src) + 1, Len(q))
             old(p) == CHOOSE q \in moved : To(q) = p
  <2>1. pc' \notin Unwritten
    BY <1>11 DEF HgMove, Downloaded, Goto, Fail, Return, Unwritten
  <2>2. \/ UNCHANGED tree
        \/ tree' = Plant(Fresh, Root, w.outside)
        \/ tree' = [p \in DOMAIN Fresh \cup {To(q) : q \in moved} |-> IF p \in DOMAIN Fresh THEN Dir ELSE tree[old(p)]]
    BY <1>11 DEF HgMove
  <2>3. ASSUME NEW q \in moved
        PROVE  To(q) \in Seq(STRING) /\ IsPrefix(Root, To(q))
    <3>1. q \in Seq(STRING) /\ Len(src) \in Nat
      <4>1. proto = "hg" /\ Protocol(w.url) = "hg"
        BY <1>11, <1>w DEF HgMove, Placed
      <4>2. src \in Seq(STRING)
        BY <4>1, <1>w, SourceBelow
      <4> QED BY <4>2, <1>i DEF Within
    <3> HIDE DEF src
    <3>2. SubSeq(q, Len(src) + 1, Len(q)) \in Seq(STRING)
      BY <3>1
    <3> QED BY <3>2, <1>r, PrefixOfJoined
  <2> HIDE DEF To, moved, old
  <2>4. \A p \in DOMAIN Fresh : p \in Seq(STRING) /\ IsPrefix(p, Root)
    BY <1>r, PrefixesOf DEF Fresh
  <2>5. Within(Plant(Fresh, Root, w.outside))
    <3>1. w.outside \in Seq(Entry)
      BY <1>w, WorldsAssumption DEF World
    <3> QED BY <3>1, <1>r, FreshWithin, PlantWithin
  <2>6. Within(tree')
    BY <2>2, <2>3, <2>4, <2>5, <1>i DEF Within
  <2> QED BY <2>1, <2>6, <1>k
<1>12. CASE extractArchive
  <2> DEFINE wrap == IF top = <<>> THEN <<Head(e.name)>> ELSE top
             rel  == StripTop(e, wrap)
  <2>1. pc' \notin Unwritten
    BY <1>12 DEF extractArchive, Save, MakeDir, Skip, Advance, Fail, Return, Unwritten
  <2>2. rel \in Seq(STRING) \/ tree' = tree
    <3>1. CASE e.kind = "pax"
      BY <1>12, <3>1 DEF extractArchive, Skip
    <3>2. CASE e.kind # "pax"
      <4>1. Protocol(w.url) = "git" /\ Rest(todo, w.pages[1]) /\ todo # <<>>
        BY <1>12, <1>w DEF Typed, Stream, extractArchive
      <4>2. e.name \in Seq(STRING) /\ e.name # <<>>
        BY <4>1, <3>2, <1>w, ArchiveMember
      <4>3. Tail(e.name) \in Seq(STRING)
        BY <4>2, TailType
      <4>4. rel \in {Tail(e.name), e.name}
        BY DEF StripTop
      <4> QED BY <4>2, <4>3, <4>4
    <3> QED BY <3>1, <3>2
  <2>3. tree' = tree \/ tree' = MkdirAll(tree, Root \o rel) \/ \E node : tree' = Create(tree, Root \o rel, node)
    BY <1>12 DEF extractArchive, Save, MakeDir, Skip
  <2> HIDE DEF rel
  <2>4. CASE tree' = tree
    BY <2>1, <2>4, <1>i, <1>k
  <2>5. CASE rel \in Seq(STRING)
    <3>1. Root \o rel \in Seq(STRING) /\ IsPrefix(Root, Root \o rel)
      BY <2>5, <1>r, PrefixOfJoined
    <3> QED BY <2>1, <2>3, <3>1, <1>c
  <2> QED BY <2>2, <2>4, <2>5
<1>13. CASE ExtractWithLimit
  <2>1. UNCHANGED tree
    BY <1>13 DEF ExtractWithLimit
  <2>2. pc' \notin Unwritten
    BY <1>13 DEF ExtractWithLimit, Goto, Fail, Return, Unwritten
  <2> QED BY <2>1, <2>2, <1>i, <1>k
<1>14. CASE untar \/ extractZip
  <2> DEFINE p == Join(Out, e.name)
  <2>1. pc' \notin Unwritten
    BY <1>14 DEF untar, extractZip, Save, MakeDir, Skip, Spend, Advance, Fail, Return, Unwritten
  <2>2. todo # <<>> /\ e.name \in Seq(STRING)
    BY <1>14, <1>e DEF untar, extractZip
  <2>3. \/ tree' = tree
        \/ p # Escapes /\ (tree' = MkdirAll(tree, p) \/ \E node : tree' = Create(tree, p, node))
    BY <1>14 DEF untar, extractZip, Save, MakeDir, Skip
  <2>4. p # Escapes => p \in Seq(STRING) /\ IsPrefix(Root, p)
    BY <2>2, <1>r, OutBelow, JoinBelow, PrefixTransitive
  <2> HIDE DEF p
  <2> QED BY <2>1, <2>3, <2>4, <1>i, <1>c, <1>k
<1>15. CASE Extracted
  <2>1. pc' \notin Unwritten
    BY <1>15 DEF Extracted, Return, Unwritten
  <2>2. \A p \in Children(tree, Root) \ {Out} : Len(p) = Len(Root) + 1
    BY <1>i, <1>r, ChildLength DEF Children, Within
  <2>3. Within(tree')
    BY <1>15, <2>2, <1>i, WithoutWithin DEF Extracted
  <2> QED BY <2>1, <2>3, <1>k
<1> QED
  BY <1>0, <1>1, <1>2, <1>3, <1>4, <1>5, <1>6, <1>7, <1>8, <1>9, <1>10, <1>11, <1>12, <1>13, <1>14, <1>15 DEF Next

LEMMA PlacedCorrect == Spec => [](Typed /\ Placed)
<1>1. Typed /\ Placed /\ [Next]_vars => Placed'
  BY PlacedStep
<1> QED BY <1>1, PlacedInit, TypedCorrect, PTL DEF Spec

-----------------------------------------------------------------------------
(***************************************************************************)
(* What is in the staging directory itself.                                *)
(***************************************************************************)
\* A download of one file leaves that file and nothing else.
LEMMA AloneCreate ==
  ASSUME NEW name \in STRING, NEW x, NEW n
  PROVE  LET p == Append(Root, name)
             t == Create(Fresh, p, File(x, n))
         IN  p \in DOMAIN t /\ Children(t, Root) = {p} /\ t[p].kind = "file" /\ Files(t) = {p}
<1> DEFINE p == Append(Root, name)
           t == Create(Fresh, p, File(x, n))
<1>1. Front(p) = Root /\ p # <<>>
  BY RootAssumption, FrontAppend
<1>2. Len(p) = Len(Root) + 1
  BY RootAssumption, PrefixOfChild
<1> HIDE DEF p
<1>3. Len(Root) \in Nat
  BY RootAssumption
<1>4. p # Root
  BY <1>2, <1>3
<1>5. DOMAIN t = DOMAIN Fresh \cup {p}
  BY <1>1 DEF Create, Put, MkdirAll, Fresh
<1>6. p \in Children(t, Root)
  BY <1>1, <1>4, <1>5 DEF Children
<1>7. Children(t, Root) \subseteq {p}
  BY <1>5, FreshNoChild DEF Children
<1>8. p \in DOMAIN t /\ t[p] = File(x, n)
  BY CreateKeeps
<1>9. Files(t) = Files(Fresh) \cup {p}
  BY CreateKeeps
<1>10. Files(t) = {p} /\ t[p].kind = "file"
  BY <1>8, <1>9, FreshFiles DEF File
<1> HIDE DEF t
<1>11. Children(t, Root) = {p}
  BY <1>6, <1>7
<1> QED BY <1>8, <1>10, <1>11 DEF p, t

\* What is written below the directory an archive is extracted to leaves the rest of
\* the staging directory as it is.
LEMMA ChildrenBeside ==
  ASSUME NEW t, NEW u, NEW p \in Seq(STRING), IsPrefix(Out, p),
         u = MkdirAll(t, p) \/ \E node : u = Create(t, p, node)
  PROVE  Children(u, Root) \ {Out} = Children(t, Root) \ {Out}
<1>1. p # <<>>
  BY OutBelow, RootAssumption, PrefixAt
<1>2. DOMAIN u \in {DOMAIN t \cup Prefixes(p), DOMAIN t \cup Prefixes(Front(p)) \cup {p}}
  BY DEF Create, Put, MkdirAll
<1>3. ASSUME NEW q \in Prefixes(p) \cup Prefixes(Front(p)) \cup {p}
      PROVE  q \in Seq(STRING) /\ IsPrefix(q, p)
  <2>1. Front(p) \in Seq(STRING) /\ IsPrefix(Front(p), p) /\ IsPrefix(p, p)
    BY <1>1, FrontProperties, PrefixAt
  <2> QED BY <1>3, <2>1, PrefixesOf, PrefixTransitive
<1>4. ASSUME NEW q \in Prefixes(p) \cup Prefixes(Front(p)) \cup {p}, q \in Children(u, Root)
      PROVE  q = Out
  <2>1. Len(q) = Len(Root) + 1
    BY <1>3, <1>4, RootAssumption, ChildLength
  <2> QED BY <1>3, <2>1, OutBelow, PrefixesMeet
<1> QED BY <1>2, <1>4 DEF Children

\* Some of a set of numbers is the largest.
LEMMA Largest ==
  ASSUME NEW n \in Nat, NEW T \in SUBSET (1..n), T # {}
  PROVE  Max(T) \in T
<1> DEFINE S == {k \in Nat : \A U \in SUBSET (1..k) : U # {} => \E m \in U : \A y \in U : m >= y}
<1>1. 0 \in S
  <2>1. ASSUME NEW U \in SUBSET (1..0) PROVE U = {}
    <3>1. \A y \in 1..0 : FALSE
      OBVIOUS
    <3> QED BY <3>1
  <2> QED BY <2>1
<1>2. ASSUME NEW k \in Nat, k \in S PROVE k + 1 \in S
  <2> SUFFICES ASSUME NEW U \in SUBSET (1..(k + 1)), U # {}
               PROVE  \E m \in U : \A y \in U : m >= y
    OBVIOUS
  <2>1. CASE k + 1 \in U
    BY <2>1
  <2>2. CASE k + 1 \notin U
    <3>1. U \in SUBSET (1..k)
      BY <2>2
    <3> QED BY <3>1, <1>2
  <2> QED BY <2>1, <2>2
<1> HIDE DEF S
<1>3. n \in S
  BY <1>1, <1>2, SetInduction
<1>4. \E m \in T : \A y \in T : m >= y
  BY <1>3 DEF S
<1> QED BY <1>4 DEF Max

\* Below a path one name leads to one place.
LEMMA Cancel ==
  ASSUME NEW dir \in Seq(STRING), NEW name \in Seq(STRING)
  PROVE  /\ Len(dir \o name) = Len(dir) + Len(name)
         /\ Len(name) = 1 => dir \o name = Append(dir, name[1]) /\ name[1] \in STRING /\ Last(name) = name[1]
<1>1. Len(dir \o name) = Len(dir) + Len(name)
  OBVIOUS
<1>2. ASSUME Len(name) = 1
      PROVE  dir \o name = Append(dir, name[1]) /\ name[1] \in STRING /\ Last(name) = name[1]
  <2>1. name[1] \in STRING /\ name = <<name[1]>>
    BY <1>2
  <2>2. Last(name) = name[1]
    BY <1>2 DEF Last
  <2>3. dir \o <<name[1]>> = Append(dir, name[1])
    BY <2>1
  <2> QED BY <2>1, <2>2, <2>3
<1> QED BY <1>1, <1>2

\* What is planted in a fresh staging directory and is no directory is an entry.
LEMMA PlantAt ==
  ASSUME NEW entries \in Seq(Entry), NEW q, q \notin DOMAIN Fresh,
         q \in DOMAIN Plant(Fresh, Root, entries), Plant(Fresh, Root, entries)[q] # Dir
  PROVE  \E i \in DOMAIN entries :
           /\ Root \o entries[i].name = q /\ entries[i].kind # "dir"
           /\ Plant(Fresh, Root, entries)[q] = Node(entries[i])
<1> DEFINE made == Prefixes(Root) \cup UNION {Prefixes(Root \o entries[i].name) : i \in DOMAIN entries}
           At(p) == {i \in DOMAIN entries : entries[i].kind # "dir" /\ Root \o entries[i].name = p}
<1>1. Plant(Fresh, Root, entries) =
        [p \in DOMAIN Fresh \cup made |-> CASE At(p) # {} -> Node(entries[Max(At(p))])
                                            [] At(p) = {} /\ p \in DOMAIN Fresh -> Fresh[p]
                                            [] OTHER -> Dir]
  BY DEF Plant
<1>2. At(q) \in SUBSET (1..Len(entries)) /\ Len(entries) \in Nat
  OBVIOUS
<1> HIDE DEF made, At
<1>3. At(q) # {} /\ Plant(Fresh, Root, entries)[q] = Node(entries[Max(At(q))])
  BY <1>1
<1>4. Max(At(q)) \in At(q)
  BY <1>2, <1>3, Largest
<1> QED BY <1>3, <1>4 DEF At

\* A source has finitely many entries, so there are finitely many children.
LEMMA PlantFinite ==
  ASSUME NEW entries \in Seq(Entry)
  PROVE  IsFiniteSet(Children(Plant(Fresh, Root, entries), Root))
<1> DEFINE t == Plant(Fresh, Root, entries)
           n == Len(Root) + 1
           At(i) == Root \o entries[i].name
           f == [i \in 1..Len(entries) |-> SubSeq(At(i), 1, n)]
           T == {f[i] : i \in 1..Len(entries)}
<1>1. IsFiniteSet(1..Len(entries))
  BY FS_Interval
<1>2. f \in Surjection(1..Len(entries), T)
  BY DEF Surjection
<1>3. IsFiniteSet(T)
  BY <1>1, <1>2, FS_Surjection
<1>4. ASSUME NEW q \in Children(t, Root) PROVE q \in T
  <2>1. DOMAIN t = DOMAIN Fresh \cup UNION {Prefixes(At(i)) : i \in DOMAIN entries}
    BY DEF Plant, Fresh
  <2>2. q \in DOMAIN t /\ q \notin DOMAIN Fresh
    BY <1>4, FreshNoChild DEF Children
  <2>3. PICK i \in DOMAIN entries : q \in Prefixes(At(i))
    BY <2>1, <2>2
  <2>4. entries[i] \in Entry
    OBVIOUS
  <2>5. At(i) \in Seq(STRING)
    BY <2>4, RootAssumption, PrefixOfJoined DEF Entry
  <2>6. q \in Seq(STRING)
    BY <2>3, <2>5, PrefixesOf
  <2>7. Len(q) = n
    BY <1>4, <2>6, RootAssumption, ChildLength
  <2>8. PICK l \in 0..Len(At(i)) : q = SubSeq(At(i), 1, l)
    BY <2>3 DEF Prefixes
  <2> HIDE DEF At, n
  <2>9. Len(q) = l
    BY <2>5, <2>8, FirstSegments
  <2>10. q = SubSeq(At(i), 1, n)
    BY <2>7, <2>8, <2>9
  <2>11. i \in 1..Len(entries)
    OBVIOUS
  <2>12. f[i] = q
    BY <2>10, <2>11
  <2> HIDE DEF f
  <2> QED BY <2>11, <2>12
<1>5. Children(t, Root) \in SUBSET T
  BY <1>4
<1> HIDE DEF T, t
<1>6. IsFiniteSet(Children(t, Root))
  BY <1>3, <1>5, FS_Subset
<1> QED BY <1>6 DEF t

\* An entry in the place of a child has a name of one segment.
LEMMA EntryAtChild ==
  ASSUME NEW x \in Entry, NEW seg \in STRING, Root \o x.name = Append(Root, seg)
  PROVE  x.name \in Seq(STRING) /\ Len(x.name) = 1 /\ x.name[1] = seg /\ Last(x.name) = seg /\ x.name # <<>>
<1>1. x.name \in Seq(STRING)
  BY DEF Entry
<1>2. Len(Root \o x.name) = Len(Root) + Len(x.name)
  BY <1>1, RootAssumption, Cancel
<1>3. Len(Append(Root, seg)) = Len(Root) + 1
  BY RootAssumption, PrefixOfChild
<1> DEFINE l == Len(x.name)
           r == Len(Root)
<1>4. l \in Nat /\ r \in Nat
  BY <1>1, RootAssumption
<1>8. r + l = r + 1
  BY <1>2, <1>3
<1> HIDE DEF l, r
<1>9. l = 1
  BY <1>4, <1>8
<1>5. Len(x.name) = 1
  BY <1>9 DEF l
<1>6. Append(Root, x.name[1]) = Append(Root, seg) /\ x.name[1] \in STRING /\ Last(x.name) = x.name[1]
  BY <1>1, <1>5, RootAssumption, Cancel
<1>7. x.name[1] = seg
  BY <1>6, RootAssumption, AppendInjective
<1> QED BY <1>1, <1>5, <1>6, <1>7

LEMMA ChildNotFresh ==
  ASSUME NEW seg \in STRING
  PROVE  Append(Root, seg) \notin DOMAIN Fresh
<1> DEFINE p == Append(Root, seg)
<1>1. Len(p) = Len(Root) + 1
  BY RootAssumption, PrefixOfChild
<1>2. p \in DOMAIN Fresh => Len(p) <= Len(Root)
  BY RootAssumption, PrefixesOf, PrefixAt DEF Fresh
<1> HIDE DEF p
<1>3. Len(Root) \in Nat
  BY RootAssumption
<1>4. p \notin DOMAIN Fresh
  BY <1>1, <1>2, <1>3
<1> QED BY <1>4 DEF p

\* The artifact's entries are in the way of no extraction.
LEMMA OutFree ==
  ASSUME World(w), Protocol(w.url) = "oci", IsArchive(w, "oci")
  PROVE  LET t == Plant(Fresh, Root, w.pages[1]) IN Out \in DOMAIN t => t[Out] = Dir
<1> DEFINE xs == w.pages[1]
           t == Plant(Fresh, Root, xs)
<1> SUFFICES ASSUME Out \in DOMAIN t, t[Out] # Dir PROVE FALSE
  OBVIOUS
<1>1. xs \in Seq(Entry)
  BY WorldTypes
<1>2. "_extracted" \notin FileNames(w)
  BY WorldsAssumption DEF World
<1>3. "_extracted" \in STRING
  BY OwnNamesAssumption DEF OwnNames
<1> HIDE DEF xs
<1>6. Out \notin DOMAIN Fresh
  BY <1>3, ChildNotFresh DEF Out
<1>7. PICK i \in DOMAIN xs : Root \o xs[i].name = Out
  BY <1>1, <1>6, PlantAt
<1>8. xs[i] \in Entry
  BY <1>1
<1>9. Last(xs[i].name) = "_extracted" /\ xs[i].name # <<>>
  BY <1>3, <1>7, <1>8, EntryAtChild DEF Out
<1>10. xs[i] \in ToSet(xs)
  BY DEF ToSet
<1> QED BY <1>2, <1>9, <1>10 DEF FileNames, xs

LEMMA PulledOut ==
  ASSUME World(w), Protocol(w.url) = "oci", IsArchive(w, "oci")
  PROVE  Out \notin Files(cleanupOrasMetadata(Plant(Fresh, Root, w.pages[1])))
<1> DEFINE t == Plant(Fresh, Root, w.pages[1])
<1> SUFFICES ASSUME Out \in Files(cleanupOrasMetadata(t)) PROVE FALSE
  OBVIOUS
<1>1. Out \in DOMAIN t => t[Out] = Dir
  BY OutFree
<1> HIDE DEF t
<1>2. Out \in DOMAIN t /\ t[Out].kind = "file"
  BY DEF Files, cleanupOrasMetadata, Without
<1> QED BY <1>1, <1>2, NodeKinds

\* There is just one file in the staging directory.
Alone(t) == \E p \in DOMAIN t : Children(t, Root) = {p} /\ t[p].kind = "file"

\* The one file of an image manifest stays when oras's own names are removed.
LEMMA PulledAlone ==
  ASSUME World(w), Protocol(w.url) = "oci", PulledFile(Plant(Fresh, Root, w.pages[1]), "manifest"),
         \A x \in ToSet(w.pages[1]) : x.name \notin OrasNames
  PROVE  Alone(cleanupOrasMetadata(Plant(Fresh, Root, w.pages[1])))
<1> DEFINE xs == w.pages[1]
           t == Plant(Fresh, Root, xs)
           u == cleanupOrasMetadata(t)
<1>1. xs \in Seq(Entry)
  BY WorldTypes
<1>2. \A x \in ToSet(xs) : x.kind = "link" => Len(x.name) > 1
  BY WorldsAssumption DEF World
<1>3. \A i \in DOMAIN xs : xs[i] \in ToSet(xs)
  BY DEF ToSet
<1>4. \A x \in ToSet(xs) : x.name \notin OrasNames
  OBVIOUS
<1>5. Cardinality(Children(t, Root)) = 1 /\ \A p \in Children(t, Root) : ~IsDir(t, p)
  BY DEF PulledFile
<1> HIDE DEF xs
<1>6. PICK p : Children(t, Root) = {p}
  BY <1>1, <1>5, PlantFinite, FS_Singleton
<1>7. p \in Children(t, Root) /\ p \in DOMAIN t /\ p # Root
  BY <1>6 DEF Children
<1>8. t[p] # Dir /\ p \notin DOMAIN Fresh
  BY <1>5, <1>7, FreshNoChild DEF IsDir
<1>9. PICK i \in DOMAIN xs : Root \o xs[i].name = p /\ xs[i].kind # "dir" /\ t[p] = Node(xs[i])
  BY <1>1, <1>7, <1>8, PlantAt
<1>10. xs[i] \in Entry /\ xs[i].name \in Seq(STRING) /\ p \in Seq(STRING)
  <2>1. xs[i] \in Entry
    BY <1>1
  <2>2. xs[i].name \in Seq(STRING)
    BY <2>1 DEF Entry
  <2> QED BY <1>9, <2>1, <2>2, RootAssumption, PrefixOfJoined
<1>11. Len(xs[i].name) = 1
  <2> DEFINE l == Len(xs[i].name)
             r == Len(Root)
  <2>1. l \in Nat /\ r \in Nat
    BY <1>10, RootAssumption
  <2>2. r + l = r + 1
    BY <1>7, <1>9, <1>10, RootAssumption, ChildLength, Cancel
  <2> HIDE DEF l, r
  <2>3. l = 1
    BY <2>1, <2>2
  <2> QED BY <2>3 DEF l
<1>12. t[p].kind = "file"
  <2>1. xs[i].kind = "link" => Len(xs[i].name) > 1
    BY <1>2, <1>3
  <2>2. xs[i].kind # "link"
    BY <2>1, <1>11
  <2>3. Node(xs[i]) = File(xs[i], xs[i].len)
    BY <1>9, <2>2, Zenon DEF Node
  <2> QED BY <1>9, <2>3, NodeKinds
<1>13. xs[i].name # <<"oci-layout">> /\ xs[i].name # <<"index.json">>
  BY <1>3, <1>4 DEF OrasNames
<1>14. p # Append(Root, "oci-layout") /\ p # Append(Root, "index.json")
  BY <1>9, <1>10, <1>13, EntryAtChild, OwnNamesAssumption DEF OwnNames
<1> DEFINE gone == {q \in {Append(Root, "oci-layout"), Append(Root, "index.json")} : Children(t, q) = {}}
                     \cup {q \in {Append(Root, "blobs")} : IsDir(t, q) /\ Children(t, q) = {}}
<1>15. u = Without(t, gone)
  BY DEF cleanupOrasMetadata
<1>16. p \notin gone
  BY <1>5, <1>7, <1>14
<1> HIDE DEF gone, t, u
<1>17. p \in DOMAIN u /\ u[p] = t[p] /\ DOMAIN u \subseteq DOMAIN t
  BY <1>7, <1>15, <1>16 DEF Without
<1>18. Children(u, Root) = {p}
  BY <1>6, <1>7, <1>17 DEF Children
<1>19. Alone(u)
  BY <1>12, <1>17, <1>18 DEF Alone
<1> QED BY <1>19 DEF u, t, xs

\* What extraction finds: the one file, which is not in its own way; and while it
\* lasts there is one thing beside what it extracts.
Plain == proto = "oci" => w.media = "manifest" /\ \A x \in ToSet(w.pages[1]) : x.name \notin OrasNames

OneFound ==
  /\ pc = "extract" /\ isFile =>
       /\ IsArchive(w, proto) => Out \notin Files(tree)
       /\ Plain /\ ~Aside => Alone(tree)
  /\ pc \in {"tar", "zip"} => Cardinality(Children(tree, Root) \ {Out}) = 1

\* A file that was downloaded by its name alone.
LEMMA FoundCreated ==
  ASSUME World(w), OneFile(w, Protocol(w.url)), NEW name \in FileNames(w), name \in STRING, NEW n,
         NEW t, t = Create(Fresh, Append(Root, name), File(Only, n))
  PROVE  /\ Alone(t)
         /\ IsArchive(w, Protocol(w.url)) => Out \notin Files(t)
<1>1. Alone(t) /\ Files(t) = {Append(Root, name)}
  BY AloneCreate DEF Alone
<1>2. "_extracted" \notin FileNames(w) \/ ~IsArchive(w, Protocol(w.url))
  BY WorldsAssumption DEF World
<1>3. "_extracted" \in STRING
  BY OwnNamesAssumption DEF OwnNames
<1>4. name # "_extracted" => Append(Root, name) # Out
  BY <1>3, RootAssumption, AppendInjective DEF Out
<1> QED BY <1>1, <1>2, <1>4

LEMMA OneFoundInit == Init => OneFound
BY DEF Init, OneFound

LEMMA OneFoundStep == Typed /\ Placed /\ OneFound /\ [Next]_vars => OneFound'
<1> SUFFICES ASSUME Typed, Placed, OneFound, [Next]_vars PROVE OneFound'
  OBVIOUS
<1>w. World(w) /\ (pc # "detect" => proto = Protocol(w.url))
  BY DEF Typed, Chosen
<1>i. pc \in Unwritten => tree = Fresh
  BY DEF Placed
<1>n. ASSUME pc' \notin {"extract", "tar", "zip"} PROVE OneFound'
  BY <1>n DEF OneFound
<1>d. ASSUME pc' \notin {"tar", "zip"}, isFile' = FALSE PROVE OneFound'
  BY <1>d DEF OneFound
<1>s. ASSUME UNCHANGED <<w, proto>>, pc' = "extract", ~Aside => Alone(tree'), IsArchive(w, proto) => Out \notin Files(tree')
      PROVE  OneFound'
  <2>1. Aside' = Aside
    BY <1>s DEF Aside, FilePlace, Only, OneFile
  <2> QED BY <1>s, <2>1 DEF OneFound, Out
<1>0. CASE UNCHANGED vars \/ Done
  <2>1. UNCHANGED <<w, proto, pc, isFile, tree>>
    BY <1>0 DEF vars, request, Done
  <2>2. Plain' = Plain /\ Out' = Out /\ Aside' = Aside
    BY <2>1 DEF Plain, Out, Aside, FilePlace, Only, OneFile
  <2> QED BY <2>1, <2>2 DEF OneFound
<1>1. CASE Detect
  BY <1>1, <1>n DEF Detect, Goto, Return
<1>2. CASE RequestHTTP \/ RequestS3 \/ RequestGCS \/ RequestOCI \/ Clone
  BY <1>2, <1>n DEF RequestHTTP, RequestS3, RequestGCS, RequestOCI, Clone, Request, Goto, Return
<1>3. CASE InvalidKey \/ fetchArchive
  BY <1>3, <1>n DEF InvalidKey, fetchArchive, Goto, Fail, Return
<1>5. CASE ListPage \/ CopyEnd \/ ArchiveEnd
  <2>1. \/ pc' \notin {"extract", "tar", "zip"}
        \/ pc' = "extract" /\ isFile' = FALSE
    BY <1>5 DEF ListPage, CopyEnd, ArchiveEnd, Downloaded, Goto, Fail, Return
  <2> QED BY <2>1, <1>n, <1>d
<1>6. CASE GetObject
  <2>1. pc' \notin {"extract", "tar", "zip"}
    BY <1>6 DEF GetObject, Save, Skip, Advance, Fail, Return
  <2> QED BY <2>1, <1>n
<1>9. CASE copyDir
  <2>1. pc' \notin {"extract", "tar", "zip"}
    BY <1>9 DEF copyDir, Save, MakeDir, Advance, Fail, Return
  <2> QED BY <2>1, <1>n
<1>10. CASE HgClone \/ HgMove
  <2>1. \/ pc' \notin {"extract", "tar", "zip"}
        \/ pc' = "extract" /\ isFile' = FALSE
    BY <1>10 DEF HgClone, HgMove, Downloaded, Goto, Fail, Return
  <2> QED BY <2>1, <1>n, <1>d
<1>12. CASE extractArchive
  <2>1. pc' \notin {"extract", "tar", "zip"}
    BY <1>12 DEF extractArchive, Save, MakeDir, Skip, Advance, Fail, Return
  <2> QED BY <2>1, <1>n
<1>15. CASE Extracted
  BY <1>15, <1>n DEF Extracted, Return
<1>4. CASE Body
  <2> PICK name : name = Last(Only.name)
    OBVIOUS
  <2>1. pc = "body" /\ tree = Fresh /\ OneFile(w, proto) /\ proto = Protocol(w.url) /\ proto \in {"http", "s3", "gcs"}
    BY <1>4, <1>w, <1>i DEF Body, Placed, Unwritten
  <2>2. Only \in Entry /\ Only.name \in Seq(STRING) /\ Only.name # <<>> /\ name \in STRING
    BY <2>1, <1>w, OnlyEntry
  <2>3. UNCHANGED <<w, proto>>
    BY <1>4 DEF Body, request
  <2>4. CASE pc' = "extract"
    <3>1. /\ IsDir(tree, Front(FilePlace)) /\ CanCreate(tree, FilePlace)
          /\ tree' = Create(tree, FilePlace, File(Only, Copy(Only.len, w.s.maxBytes).n))
      BY <1>4, <2>4 DEF Body, Save, Fail, Return
    <3>2. /\ FilePlace = Append(Front(FilePlace), name) /\ Front(FilePlace) \in DOMAIN Fresh
          /\ Aside => ~IsPrefix(Root, FilePlace)
      BY <2>1, <3>1, <1>w, FilePlaced
    <3>3. CASE Aside
      <4>1. Out \notin DOMAIN Fresh
        BY OwnNamesAssumption, ChildNotFresh DEF Out, OwnNames
      <4>2. Out # FilePlace
        BY <3>2, <3>3, OutBelow
      <4>3. DOMAIN tree' = DOMAIN Fresh \cup {FilePlace}
        BY <2>1, <3>1, <3>2, MadeInFresh
      <4>4. Out \notin Files(tree')
        BY <4>1, <4>2, <4>3 DEF Files
      <4> QED BY <2>3, <2>4, <3>3, <4>4, <1>s
    <3>4. CASE ~Aside
      <4>1. FilePlace = Append(Root, name)
        BY <2>1, <3>2, <3>4 DEF Aside
      <4>2. name \in FileNames(w)
        BY <2>1, <2>2, <1>w, OnlyNamed
      <4>3. Alone(tree') /\ (IsArchive(w, proto) => Out \notin Files(tree'))
        BY <2>1, <2>2, <3>1, <4>1, <4>2, <1>w, FoundCreated
      <4> QED BY <2>3, <2>4, <4>3, <1>s
    <3> QED BY <3>3, <3>4
  <2>5. CASE pc' # "extract"
    <3>1. pc' \notin {"extract", "tar", "zip"}
      BY <1>4, <2>5 DEF Body, Save, Downloaded, Goto, Fail, Return
    <3> QED BY <3>1, <1>n
  <2> QED BY <2>4, <2>5
<1>7. CASE Pull
  <2> DEFINE pulled == Plant(tree, Root, w.pages[1])
  <2>1. pc = "pull" /\ proto = "oci" /\ tree = Fresh /\ Protocol(w.url) = "oci" /\ UNCHANGED <<w, proto>>
    BY <1>7, <1>w, <1>i DEF Pull, Placed, Unwritten, request
  <2>2. CASE pc' = "extract"
    <3>1. isFile' = PulledFile(pulled, w.media) /\ tree' = cleanupOrasMetadata(pulled)
      BY <1>7, <2>2 DEF Pull, Downloaded, Fail, Return
    <3>2. IsArchive(w, proto) => Out \notin Files(tree')
      BY <2>1, <3>1, <1>w, PulledOut
    <3>3. isFile' /\ Plain => Alone(tree')
      BY <2>1, <3>1, <1>w, PulledAlone DEF Plain
    <3>4. Plain' = Plain /\ Out' = Out
      BY <2>1 DEF Plain, Out
    <3> QED BY <2>1, <2>2, <3>2, <3>3, <3>4 DEF OneFound
  <2>3. CASE pc' # "extract"
    <3>1. pc' \notin {"extract", "tar", "zip"}
      BY <1>7, <2>3 DEF Pull, Downloaded, Goto, Fail, Return
    <3> QED BY <3>1, <1>n
  <2> QED BY <2>2, <2>3
<1>8. CASE OpenLocal
  <2> DEFINE name == Last(w.local)
  <2>1. pc = "request" /\ proto = "file" /\ tree = Fresh /\ Protocol(w.url) = "file" /\ UNCHANGED <<w, proto>>
    BY <1>8, <1>w, <1>i DEF OpenLocal, Unwritten, request
  <2>2. CASE pc' = "extract" /\ isFile' # FALSE
    <3>1. w.at = "file" /\ tree' = Create(tree, Append(Root, name), File(Only, Copy(Only.len, 0).n))
      BY <1>8, <2>2 DEF OpenLocal, Save, Downloaded, Goto, Fail, Return
    <3>2. w.local # <<>> /\ w.local \in Seq(STRING)
      BY <2>1, <3>1, <1>w, WorldsAssumption DEF World
    <3>3. name \in STRING /\ name \in FileNames(w)
      BY <3>2, LastType DEF FileNames
    <3>4. OneFile(w, proto)
      BY <2>1, <3>1 DEF OneFile
    <3> HIDE DEF name
    <3>5. Alone(tree') /\ (IsArchive(w, proto) => Out \notin Files(tree'))
      BY <2>1, <3>1, <3>3, <3>4, <1>w, FoundCreated
    <3> QED BY <2>1, <2>2, <3>5, <1>s
  <2>3. CASE pc' = "extract" /\ isFile' = FALSE
    BY <2>3, <1>d
  <2>4. CASE pc' # "extract"
    <3>1. pc' \notin {"extract", "tar", "zip"}
      BY <1>8, <2>4 DEF OpenLocal, Save, Downloaded, Goto, Fail, Return
    <3> QED BY <3>1, <1>n
  <2> QED BY <2>2, <2>3, <2>4
<1>13. CASE ExtractWithLimit
  <2>1. UNCHANGED <<w, proto, tree>> /\ pc = "extract"
    BY <1>13 DEF ExtractWithLimit, request
  <2>2. CASE pc' \in {"tar", "zip"}
    <3>1. /\ isFile /\ Cardinality(Children(tree, Root)) = 1 /\ Children(tree, Root) \subseteq Files(tree)
          /\ extractors(Extension(w, proto)) \in {"tar", "zip"}
      BY <1>13, <2>2 DEF ExtractWithLimit, Goto, Fail, Return
    <3>2. Out \notin Files(tree)
      BY <2>1, <3>1 DEF OneFound, IsArchive
    <3>3. Children(tree, Root) \ {Out} = Children(tree, Root)
      BY <3>1, <3>2
    <3> QED BY <2>1, <2>2, <3>1, <3>3 DEF OneFound, Out
  <2>3. CASE pc' \notin {"tar", "zip"}
    <3>1. pc' \notin {"extract", "tar", "zip"}
      BY <1>13, <2>3 DEF ExtractWithLimit, Goto, Fail, Return
    <3> QED BY <3>1, <1>n
  <2> QED BY <2>2, <2>3
<1>14. CASE untar \/ extractZip
  <2> DEFINE p == Join(Out, e.name)
  <2>1. pc \in {"tar", "zip"} /\ pc' \in {pc, "done"} /\ todo # <<>>
    BY <1>14 DEF untar, extractZip, Save, MakeDir, Skip, Spend, Advance, Fail, Return
  <2>2. e.name \in Seq(STRING)
    BY <2>1, HeadTail DEF Typed, Stream, Entry
  <2>3. \/ tree' = tree
        \/ p # Escapes /\ (tree' = MkdirAll(tree, p) \/ \E node : tree' = Create(tree, p, node))
    BY <1>14 DEF untar, extractZip, Save, MakeDir, Skip
  <2>4. p # Escapes => p \in Seq(STRING) /\ IsPrefix(Out, p)
    BY <2>2, OutBelow, JoinBelow
  <2> HIDE DEF p
  <2>5. Children(tree', Root) \ {Out} = Children(tree, Root) \ {Out}
    BY <2>3, <2>4, ChildrenBeside
  <2> QED BY <2>1, <2>5 DEF OneFound, Out
<1> QED
  BY <1>0, <1>1, <1>2, <1>3, <1>4, <1>5, <1>6, <1>7, <1>8, <1>9, <1>10, <1>12, <1>13, <1>14, <1>15 DEF Next

LEMMA OneFoundCorrect == Spec => [](Typed /\ Placed /\ OneFound)
<1>1. Typed /\ Placed /\ OneFound /\ [Next]_vars => OneFound'
  BY OneFoundStep
<1> QED BY <1>1, OneFoundInit, PlacedCorrect, PTL DEF Spec

\* Inside: whatever the names of objects and entries are, nothing is written outside
\* the staging directory but the file of an HTTP response that "?archive=" leads out of
\* it, nor is anything beside the directory an archive is extracted to (safepath.Join
\* in downloadDir, untar and extractZip; containsDotDot and the wrapping directory in
\* extractArchive; fileName's last segment).
THEOREM InsideCorrect == Spec => []Inside
<1>1. Typed /\ Placed /\ OneFound => Inside
  <2> SUFFICES ASSUME Placed, OneFound PROVE Inside
    OBVIOUS
  <2>1. CASE Within(tree)
    BY <2>1 DEF OneFound, Within, Inside
  <2>2. CASE WrittenAside
    <3>1. \A p \in DOMAIN Fresh : IsPrefix(p, Root)
      BY RootAssumption, PrefixesOf DEF Fresh
    <3> QED BY <2>2, <3>1 DEF OneFound, WrittenAside, Inside
  <2> QED BY <2>1, <2>2 DEF Placed
<1> QED BY <1>1, OneFoundCorrect, PTL

\* SingleFile: when Download returns true there is one file in the staging directory
\* and nothing else, which Grab's checksum and extraction rely on, unless "?archive="
\* leads the file of a response out of it.
THEOREM SingleFileCorrect == Spec => []SingleFile
<1>1. Typed /\ Placed /\ OneFound => SingleFile
  BY DEF OneFound, SingleFile, Plain, Alone
<1> QED BY <1>1, OneFoundCorrect, PTL

-----------------------------------------------------------------------------
(***************************************************************************)
(* Local paths: where links lead.                                          *)
(***************************************************************************)
\* A path with one more segment leads from where the path does.
LEMMA FollowAppend ==
  ASSUME NEW links, Links(links), NEW path \in Seq(STRING), NEW seg \in STRING
  PROVE  Follow(links, Append(path, seg)) = Onward(links, Follow(links, path), seg)
<1> DEFINE more == Append(path, seg)
<1>a. more \in Seq(STRING) /\ Len(more) = Len(path) + 1 /\ more[Len(path) + 1] = seg
  BY AppendProperties
<1>b. \A n \in 1..Len(path) : more[n] = path[n]
  BY AppendProperties
<1>c. Len(path) \in Nat
  OBVIOUS
<1>1. /\ more \in Seq(STRING) /\ Len(more) = Len(path) + 1 /\ more[Len(path) + 1] = seg
      /\ \A n \in 1..Len(path) : more[n] = path[n]
      /\ Len(path) \in Nat
  BY <1>a, <1>b, <1>c
<1>2. PICK f : Follows(links, path, f) /\ Follow(links, path) = f[Len(path)]
  BY FollowFollows
<1>3. PICK g : Follows(links, more, g) /\ Follow(links, more) = g[Len(more)]
  BY <1>1, FollowFollows
<1> HIDE DEF more
<1>4. /\ f[0] = <<>> /\ \A n \in 1..Len(path) : f[n] = Onward(links, f[n - 1], path[n])
      /\ g[0] = <<>> /\ \A n \in 1..(Len(path) + 1) : g[n] = Onward(links, g[n - 1], more[n])
  <2>1. f[0] = <<>> /\ \A n \in 1..Len(path) : f[n] = Onward(links, f[n - 1], path[n])
    BY <1>1, <1>2 DEF Follows
  <2>2. g[0] = <<>> /\ \A n \in 1..(Len(path) + 1) : g[n] = Onward(links, g[n - 1], more[n])
    <3>1. g = [n \in 0..(Len(path) + 1) |-> IF n = 0 THEN <<>> ELSE Onward(links, g[n - 1], more[n])]
      BY <1>1, <1>3 DEF Follows
    <3>2. 0 \in 0..(Len(path) + 1) /\ \A n \in 1..(Len(path) + 1) : n \in 0..(Len(path) + 1) /\ n # 0
      BY <1>1
    <3> QED BY <3>1, <3>2
  <2> QED BY <2>1, <2>2
<1> DEFINE S == {n \in Nat : n <= Len(path) => f[n] = g[n]}
<1>5. 0 \in S
  BY <1>4
<1>6. \A n \in Nat : n \in S => n + 1 \in S
  <2> TAKE n \in Nat
  <2> HAVE n \in S
  <2> SUFFICES ASSUME n + 1 <= Len(path) PROVE f[n + 1] = g[n + 1]
    OBVIOUS
  <2>1. n + 1 \in 1..Len(path) /\ n + 1 \in 1..(Len(path) + 1) /\ f[n] = g[n] /\ (n + 1) - 1 = n
    BY <1>1
  <2> QED BY <2>1, <1>1, <1>4
<1> HIDE DEF S
<1>7. Len(path) \in S
  BY <1>1, <1>5, <1>6, SetInduction
<1>8. f[Len(path)] = g[Len(path)]
  BY <1>1, <1>7 DEF S
<1>9. g[Len(path) + 1] = Onward(links, g[Len(path)], seg)
  <2>1. Len(path) + 1 \in 1..(Len(path) + 1) /\ (Len(path) + 1) - 1 = Len(path)
    BY <1>1
  <2> QED BY <2>1, <1>1, <1>4
<1> QED BY <1>1, <1>2, <1>3, <1>8, <1>9 DEF more

\* Where nothing further is a link, the rest of a path stays as it is.
LEMMA FollowBelow ==
  ASSUME NEW links, Links(links), NEW path \in Seq(STRING), NEW rest \in Seq(STRING),
         \A n \in 1..Len(rest) : Follow(links, path) \o SubSeq(rest, 1, n) \notin DOMAIN links
  PROVE  Follow(links, path \o rest) = Follow(links, path) \o rest
<1>0. PICK at \in Seq(STRING) : at = Follow(links, path)
  BY FollowType
<1> DEFINE Part(n) == SubSeq(rest, 1, n)
           S == {n \in Nat : n <= Len(rest) => Follow(links, path \o Part(n)) = at \o Part(n)}
<1>1. at \in Seq(STRING) /\ Len(rest) \in Nat
  BY <1>0
<1>2. 0 \in S
  <2>1. Part(0) = <<>>
    OBVIOUS
  <2>2. path \o <<>> = path /\ at \o <<>> = at
    BY <1>1
  <2> QED BY <2>1, <2>2, <1>0
<1>3. ASSUME NEW n \in Nat, n < Len(rest)
      PROVE  /\ Part(n) \in Seq(STRING) /\ rest[n + 1] \in STRING
             /\ Part(n + 1) = Append(Part(n), rest[n + 1])
  BY <1>3
<1>5. \A n \in 1..Len(rest) : at \o Part(n) \notin DOMAIN links
  BY <1>0
<1> HIDE DEF Part
<1>6. \A n \in Nat : n \in S => n + 1 \in S
  <2> TAKE n \in Nat
  <2> HAVE n \in S
  <2> SUFFICES ASSUME n + 1 <= Len(rest) PROVE Follow(links, path \o Part(n + 1)) = at \o Part(n + 1)
    OBVIOUS
  <2>1. n < Len(rest) /\ n + 1 \in 1..Len(rest) /\ Follow(links, path \o Part(n)) = at \o Part(n)
    BY <1>1
  <2>2. /\ Part(n) \in Seq(STRING) /\ rest[n + 1] \in STRING
        /\ Part(n + 1) = Append(Part(n), rest[n + 1])
    BY <2>1, <1>3
  <2>3. path \o Part(n + 1) = Append(path \o Part(n), rest[n + 1]) /\ path \o Part(n) \in Seq(STRING)
    <3>1. Append(path \o Part(n), rest[n + 1]) = path \o Append(Part(n), rest[n + 1]) /\ path \o Part(n) \in Seq(STRING)
      BY <2>2, AppendJoined
    <3> QED BY <2>2, <3>1
  <2>4. Follow(links, path \o Part(n + 1)) = Onward(links, at \o Part(n), rest[n + 1])
    <3> DEFINE far == path \o Part(n)
               seg == rest[n + 1]
    <3>1. far \in Seq(STRING) /\ seg \in STRING
      BY <2>2, <2>3
    <3> HIDE DEF far, seg
    <3>2. Follow(links, Append(far, seg)) = Onward(links, Follow(links, far), seg)
      BY <3>1, FollowAppend
    <3> QED BY <2>1, <2>3, <3>2 DEF far, seg
  <2>5. Append(at \o Part(n), rest[n + 1]) = at \o Part(n + 1)
    <3>1. Append(at \o Part(n), rest[n + 1]) = at \o Append(Part(n), rest[n + 1]) /\ at \o Part(n) \in Seq(STRING)
      BY <2>2, AppendJoined
    <3> QED BY <2>2, <3>1
  <2>6. at \o Part(n + 1) \notin DOMAIN links
    BY <2>1, <1>5
  <2> QED BY <2>4, <2>5, <2>6 DEF Onward
<1>7. Len(rest) \in S
  <2> HIDE DEF S
  <2> QED BY <1>1, <1>2, <1>6, SetInduction
<1>8. Part(Len(rest)) = rest
  BY DEF Part
<1> QED BY <1>0, <1>1, <1>7, <1>8

-----------------------------------------------------------------------------
(***************************************************************************)
(* Local paths: what is copied.                                            *)
(***************************************************************************)
\* Every file that is in the tree is one of the source's.
OfSource(t, xs) == \A p \in Files(t) : t[p].of \in ToSet(xs) /\ t[p].of.kind \notin {"dir", "link"}

LEMMA SourceMkdirAll ==
  ASSUME NEW t, NEW xs, OfSource(t, xs), NEW p
  PROVE  OfSource(MkdirAll(t, p), xs)
<1>1. Files(t) \subseteq DOMAIN t
  BY DEF Files
<1> QED BY <1>1, MkdirAllKeeps DEF OfSource

LEMMA SourceFile ==
  ASSUME NEW t, NEW xs, OfSource(t, xs), NEW p, NEW x \in ToSet(xs), x.kind \notin {"dir", "link"}, NEW n
  PROVE  OfSource(Create(t, p, File(x, n)), xs)
<1> DEFINE c == Create(t, p, File(x, n))
<1>1. Files(c) = Files(t) \cup {p} /\ c[p] = File(x, n) /\ \A q \in DOMAIN t \ {p} : c[q] = t[q]
  BY CreateKeeps
<1>2. Files(t) \subseteq DOMAIN t /\ File(x, n).of = x
  BY DEF Files, File
<1> HIDE DEF c
<1>3. ASSUME NEW q \in Files(c) PROVE c[q].of \in ToSet(xs) /\ c[q].of.kind \notin {"dir", "link"}
  <2>1. CASE q = p
    BY <2>1, <1>1, <1>2
  <2>2. CASE q # p
    <3>1. q \in Files(t) /\ c[q] = t[q]
      BY <2>2, <1>1, <1>2
    <3> QED BY <3>1 DEF OfSource
  <2> QED BY <2>1, <2>2
<1> QED BY <1>3 DEF OfSource, c

LEMMA SourceLink ==
  ASSUME NEW t, NEW xs, OfSource(t, xs), NEW p, NEW x
  PROVE  OfSource(Create(t, p, Link(x)), xs)
<1> DEFINE m == MkdirAll(t, Front(p))
<1>1. OfSource(m, xs)
  BY SourceMkdirAll
<1> HIDE DEF m
<1>2. Files(Put(m, p, Link(x))) \subseteq Files(m) /\ \A q \in Files(Put(m, p, Link(x))) : Put(m, p, Link(x))[q] = m[q]
  BY DEF Files, Put, Link
<1> QED BY <1>1, <1>2 DEF Create, OfSource, m

\* A local path is opened only if it is allowed, and the walk of a directory copies
\* its files.
LocalInv ==
  proto = "file" =>
    /\ pc \in {"request", "copy", "extract", "tar", "zip", "done"}
    /\ pc \in {"copy", "extract", "tar", "zip"} \/ Files(tree) # {} => checkAllowed(w.local, w.s.allowed)
    /\ pc = "copy" => w.at = "dir" /\ Rest(todo, w.pages[1])
    /\ w.at = "dir" => /\ pc \notin {"tar", "zip"} /\ (pc = "extract" => ~isFile)
                       /\ OfSource(tree, w.pages[1])

LEMMA LocalInit == Init => LocalInv
BY DEF Init, LocalInv

LEMMA LocalStep == Typed /\ Placed /\ LocalInv /\ [Next]_vars => LocalInv'
<1> SUFFICES ASSUME Typed, Placed, LocalInv, [Next]_vars PROVE LocalInv'
  OBVIOUS
<1>w. World(w) /\ w.pages[1] \in Seq(Entry)
  BY WorldTypes DEF Typed, Chosen
<1>0. CASE UNCHANGED vars \/ Done
  BY <1>0 DEF Done, vars, request, stream, LocalInv, checkAllowed, resolvePath
<1>1. CASE Detect
  <2>1. tree = Fresh /\ tree' = tree /\ pc' \in {"request", "done"}
    BY <1>1 DEF Placed, Unwritten, Detect, Goto, Return
  <2>2. Files(tree') = {}
    BY <2>1, FreshFiles
  <2> QED BY <2>1, <2>2 DEF LocalInv, OfSource
<1>2. CASE Next /\ ~Detect /\ ~Done /\ proto # "file"
  BY <1>2, Stays DEF LocalInv
<1>3. CASE Next /\ ~Detect /\ ~Done /\ proto = "file"
  <2>1. w' = w /\ proto' = "file" /\ pc \in {"request", "copy", "extract", "tar", "zip", "done"}
    BY <1>3, Stays DEF LocalInv
  <2>2. \/ OpenLocal \/ copyDir \/ CopyEnd
        \/ ExtractWithLimit \/ untar \/ extractZip \/ Extracted
    BY <1>3, <2>1 DEF Next, RequestHTTP, RequestS3, RequestGCS, InvalidKey, RequestOCI, Clone, Request, fetchArchive,
         Body, ListPage, GetObject, Pull, HgClone, HgMove, extractArchive, ArchiveEnd
  <2>a. checkAllowed(w.local, w.s.allowed)' <=> checkAllowed(w.local, w.s.allowed)
    BY <2>1 DEF checkAllowed, resolvePath
  <2>3. CASE OpenLocal
    <3>1. pc = "request" /\ tree = Fresh
      BY <2>3 DEF OpenLocal, Placed, Unwritten
    <3>2. Files(tree) = {} /\ OfSource(tree, w.pages[1])
      BY <3>1, FreshFiles DEF OfSource
    <3>3. \/ pc' = "done" /\ tree' = tree
          \/ /\ checkAllowed(w.local, w.s.allowed) /\ w.at = "dir" /\ pc' = "copy" /\ tree' = tree
             /\ todo' = w.pages[1] /\ isFile' = isFile
          \/ checkAllowed(w.local, w.s.allowed) /\ w.at # "dir" /\ pc' \in {"extract", "done"}
      BY <2>3 DEF OpenLocal, Save, Downloaded, Goto, Fail, Return
    <3>4. CASE pc' = "done" /\ tree' = tree
      BY <3>2, <3>4, <2>1 DEF LocalInv
    <3>5. CASE /\ checkAllowed(w.local, w.s.allowed) /\ w.at = "dir" /\ pc' = "copy" /\ tree' = tree
               /\ todo' = w.pages[1] /\ isFile' = isFile
      <4>1. Rest(todo', w.pages[1])
        BY <3>5, <1>w, RestAll
      <4> QED BY <4>1, <3>2, <3>5, <2>1, <2>a DEF LocalInv
    <3>6. CASE checkAllowed(w.local, w.s.allowed) /\ w.at # "dir" /\ pc' \in {"extract", "done"}
      BY <3>6, <2>1, <2>a DEF LocalInv
    <3> QED BY <3>3, <3>4, <3>5, <3>6
  <2>4. CASE copyDir
    <3> DEFINE p == Root \o e.name
    <3>6. pc = "copy" /\ todo # <<>>
      BY <2>4 DEF copyDir
    <3>1. /\ pc = "copy" /\ todo # <<>> /\ w.at = "dir" /\ Rest(todo, w.pages[1]) /\ OfSource(tree, w.pages[1])
          /\ checkAllowed(w.local, w.s.allowed)
      BY <1>3, <3>6 DEF LocalInv
    <3>2. Rest(Tail(todo), w.pages[1]) /\ e \in ToSet(w.pages[1])
      <4> DEFINE xs == w.pages[1]
      <4>1. xs \in Seq(Entry)
        BY <1>w
      <4> HIDE DEF xs
      <4>3. Rest(todo, xs)
        BY <3>1 DEF xs
      <4>2. Rest(Tail(todo), xs) /\ Len(xs) - Len(todo) + 1 \in 1..Len(xs) /\ e = xs[Len(xs) - Len(todo) + 1]
        BY <3>6, <4>1, <4>3, RestTail DEF e
      <4>4. Len(xs) - Len(todo) + 1 \in DOMAIN xs
        BY <4>1, <4>2
      <4>5. e \in ToSet(xs)
        BY <4>2, <4>4 DEF ToSet
      <4> QED BY <4>2, <4>5 DEF xs
    <3>3. \/ pc' = "copy" /\ todo' = Tail(todo)
          \/ pc' = "done"
      BY <3>1, <2>4 DEF copyDir, Save, MakeDir, Advance, Fail, Return
    <3>4. \/ tree' = tree
          \/ tree' = MkdirAll(tree, p)
          \/ tree' = Create(tree, p, Link(e))
          \/ e.kind \notin {"dir", "link"} /\ \E n : tree' = Create(tree, p, File(e, n))
      BY <2>4 DEF copyDir, Save, MakeDir
    <3> HIDE DEF p
    <3>5. OfSource(tree', w.pages[1])
      BY <3>1, <3>2, <3>4, SourceMkdirAll, SourceLink, SourceFile
    <3> QED BY <2>1, <2>a, <3>1, <3>2, <3>3, <3>5 DEF LocalInv
  <2>5. CASE CopyEnd
    <3>1. pc = "copy" /\ pc' = "extract" /\ tree' = tree /\ ~isFile'
      BY <2>5 DEF CopyEnd, Downloaded, Goto
    <3>2. checkAllowed(w.local, w.s.allowed) /\ OfSource(tree, w.pages[1])
      BY <1>3, <3>1 DEF LocalInv
    <3>3. OfSource(tree', w'.pages[1])
      BY <2>1, <3>1, <3>2
    <3> QED BY <2>1, <2>a, <3>1, <3>2, <3>3 DEF LocalInv
  <2>6. CASE ExtractWithLimit
    <3>1. pc = "extract" /\ tree' = tree /\ (pc' = "done" \/ (isFile /\ pc' \in {"tar", "zip"}))
      BY <2>6 DEF ExtractWithLimit, Fail, Return, Goto
    <3>2. checkAllowed(w.local, w.s.allowed) /\ (w.at = "dir" => ~isFile /\ OfSource(tree, w.pages[1]))
      BY <1>3, <3>1 DEF LocalInv
    <3>3. w.at = "dir" => OfSource(tree', w'.pages[1]) /\ pc' = "done"
      BY <2>1, <3>1, <3>2
    <3> QED BY <2>1, <2>a, <3>1, <3>2, <3>3 DEF LocalInv
  <2>7. CASE untar \/ extractZip \/ Extracted
    <3>1. pc \in {"tar", "zip"} /\ pc' \in {"tar", "zip", "done"}
      BY <2>7 DEF untar, extractZip, Extracted, Save, MakeDir, Spend, Skip, Advance, Fail, Return
    <3>2. checkAllowed(w.local, w.s.allowed) /\ w.at # "dir"
      BY <1>3, <3>1 DEF LocalInv
    <3> QED BY <2>1, <2>a, <3>1, <3>2 DEF LocalInv
  <2> QED BY <2>2, <2>3, <2>4, <2>5, <2>6, <2>7
<1> QED BY <1>0, <1>1, <1>2, <1>3

LEMMA LocalCorrect == Spec => [](Typed /\ LocalInv)
<1>1. Typed /\ Placed /\ LocalInv /\ [Next]_vars => LocalInv'
  BY LocalStep
<1> QED BY <1>1, LocalInit, PlacedCorrect, PTL DEF Spec

\* AllowedOnly: every byte that is copied from the local file system lies, after all
\* links are followed, in a directory that was allowed (checkAllowed in file.go, and
\* copyDir's walk, which makes links anew instead of following them).
THEOREM AllowedOnlyCorrect == Spec => []AllowedOnly
<1>1. Typed /\ LocalInv => AllowedOnly
  <2> SUFFICES ASSUME Typed, LocalInv, proto = "file", w.s.allowed # {}, NEW p \in Files(tree)
               PROVE  \E dir \in w.s.allowed :
                        IsPrefix(resolvePath(dir), resolvePath(IF w.at = "dir" THEN w.local \o tree[p].of.name ELSE w.local))
    BY DEF AllowedOnly
  <2>1. World(w) /\ Protocol(w.url) = "file"
    BY DEF Typed, Chosen
  <2>2. PICK dir \in w.s.allowed : IsPrefix(resolvePath(dir), resolvePath(w.local))
    BY DEF LocalInv, checkAllowed
  <2>3. CASE w.at # "dir"
    BY <2>2, <2>3
  <2>4. CASE w.at = "dir"
    <3> DEFINE x == tree[p].of
    <3>1. x \in ToSet(w.pages[1]) /\ x.kind \notin {"dir", "link"}
      BY <2>4 DEF LocalInv, OfSource
    <3>2. Links(w.links) /\ Walked(w)
      BY <2>1, <2>4, WorldsAssumption DEF World, Links
    <3>3. w.local \in Seq(STRING) /\ dir \in Seq(STRING) /\ w.pages[1] \in Seq(Entry)
      BY <2>1, WorldTypes DEF Settings
    <3>4. x.name \in Seq(STRING)
      <4>1. x \in Entry
        BY <3>1, <3>3 DEF ToSet
      <4> QED BY <4>1 DEF Entry
    <3> HIDE DEF x
    <3>5. Follow(w.links, w.local \o x.name) = Follow(w.links, w.local) \o x.name
      BY <3>1, <3>2, <3>3, <3>4, FollowBelow DEF Walked
    <3>6. Follow(w.links, w.local) \in Seq(STRING) /\ Follow(w.links, dir) \in Seq(STRING)
      BY <3>2, <3>3, FollowType
    <3>7. IsPrefix(Follow(w.links, w.local), Follow(w.links, w.local) \o x.name)
          /\ Follow(w.links, w.local) \o x.name \in Seq(STRING)
      BY <3>4, <3>6, PrefixOfJoined
    <3>8. IsPrefix(Follow(w.links, dir), Follow(w.links, w.local \o x.name))
      BY <2>2, <3>5, <3>6, <3>7, PrefixTransitive DEF resolvePath
    <3> QED BY <2>4, <3>8 DEF resolvePath, x
  <2> QED BY <2>3, <2>4
<1> QED BY <1>1, LocalCorrect, PTL

-----------------------------------------------------------------------------
(***************************************************************************)
(* Bytes on disk.                                                          *)
(***************************************************************************)
\* With what is below dir, r more bytes would be within the limit.
Kept(t, dir, r, max) ==
  IsFiniteSet(BytesIn(t, dir)) /\ Cardinality(BytesIn(t, dir)) + r <= max

\* There is no file below dir.
Clear(t, dir) == \A p \in Files(t) : ~IsPrefix(dir, p)

LEMMA ClearBytes ==
  ASSUME NEW t, NEW dir, Clear(t, dir)
  PROVE  IsFiniteSet(BytesIn(t, dir)) /\ Cardinality(BytesIn(t, dir)) = 0
<1>1. BytesIn(t, dir) = {}
  BY DEF BytesIn, Clear
<1> QED BY <1>1, FS_EmptySet

LEMMA FreshClear == ASSUME NEW dir PROVE Clear(Fresh, dir)
BY FreshFiles DEF Clear

LEMMA BytesMkdirAll ==
  ASSUME NEW t, NEW dir, NEW p
  PROVE  BytesIn(MkdirAll(t, p), dir) = BytesIn(t, dir)
<1> DEFINE u == MkdirAll(t, p)
<1>1. Files(u) = Files(t) /\ \A q \in Files(t) : u[q] = t[q]
  BY MkdirAllKeeps DEF Files
<1> HIDE DEF u
<1>2. BytesIn(u, dir) = BytesIn(t, dir)
  BY <1>1 DEF BytesIn
<1> QED BY <1>2 DEF u

\* A file that is written, or written anew, adds its own bytes at most.
LEMMA BytesCreate ==
  ASSUME NEW t, NEW dir, NEW p, NEW x, NEW n \in Nat, IsFiniteSet(BytesIn(t, dir))
  PROVE  LET u == Create(t, p, File(x, n))
         IN  /\ IsFiniteSet(BytesIn(u, dir))
             /\ Cardinality(BytesIn(u, dir)) <= Cardinality(BytesIn(t, dir)) + n
<1> DEFINE u == Create(t, p, File(x, n))
           old == BytesIn(t, dir)
           new == {p} \X (1..n)
<1>1. Files(u) = Files(t) \cup {p} /\ u[p] = File(x, n) /\ \A q \in Files(t) \ {p} : u[q] = t[q]
  BY CreateKeeps DEF Files
<1>2. File(x, n).n = n
  BY DEF File
<1> HIDE DEF u
<1>3. BytesIn(u, dir) \subseteq old \cup new
  BY <1>1, <1>2 DEF BytesIn
<1>4. IsFiniteSet(new) /\ Cardinality(new) = n
  <2>1. IsFiniteSet(1..n) /\ Cardinality(1..n) = n
    BY FS_Interval
  <2>2. IsFiniteSet({p}) /\ Cardinality({p}) = 1
    BY FS_Singleton
  <2> QED BY <2>1, <2>2, FS_Product
<1> HIDE DEF old, new
<1>5. IsFiniteSet(old) /\ Cardinality(old) \in Nat
  BY FS_CardinalityType DEF old
<1>6. /\ IsFiniteSet(old \cup new)
      /\ Cardinality(old \cup new) = Cardinality(old) + Cardinality(new) - Cardinality(old \cap new)
  BY <1>4, <1>5, FS_Union
<1>7. Cardinality(old \cap new) \in Nat
  <2>1. IsFiniteSet(old \cap new)
    BY <1>5, FS_Intersection
  <2> QED BY <2>1, FS_CardinalityType
<1>8. IsFiniteSet(BytesIn(u, dir)) /\ Cardinality(BytesIn(u, dir)) <= Cardinality(old \cup new)
  BY <1>3, <1>6, FS_Subset
<1>9. Cardinality(BytesIn(u, dir)) \in Nat
  BY <1>8, FS_CardinalityType
<1>10. Cardinality(BytesIn(u, dir)) <= Cardinality(old) + n
  BY <1>4, <1>5, <1>6, <1>7, <1>8, <1>9
<1> QED BY <1>8, <1>10 DEF u, old

LEMMA BytesWithout ==
  ASSUME NEW t, NEW dir, NEW gone, IsFiniteSet(BytesIn(t, dir))
  PROVE  /\ IsFiniteSet(BytesIn(Without(t, gone), dir))
         /\ Cardinality(BytesIn(Without(t, gone), dir)) <= Cardinality(BytesIn(t, dir))
<1> DEFINE u == Without(t, gone)
<1>1. Files(u) \subseteq Files(t) /\ \A q \in Files(u) : u[q] = t[q]
  BY DEF Without, Files
<1> HIDE DEF u
<1>2. BytesIn(u, dir) \subseteq BytesIn(t, dir)
  BY <1>1 DEF BytesIn
<1>3. IsFiniteSet(BytesIn(u, dir)) /\ Cardinality(BytesIn(u, dir)) <= Cardinality(BytesIn(t, dir))
  BY <1>2, FS_Subset
<1> QED BY <1>3 DEF u

-----------------------------------------------------------------------------
(***************************************************************************)
(* Copies under a limit.                                                   *)
(***************************************************************************)
\* Wrapping never makes a number larger.
LEMMA WrapLess == ASSUME NEW n \in Nat PROVE Wrap(n) \in Int /\ Wrap(n) <= n
<1> DEFINE m == MaxInt + 1
<1>1. m \in Nat /\ m > 0 /\ n + m \in Nat
  BY MaxIntAssumption
<1> HIDE DEF m
<1>2. (n + m) % (2 * m) \in Nat /\ (n + m) % (2 * m) <= n + m
  BY <1>1
<1>3. Wrap(n) = ((n + m) % (2 * m)) - m
  BY MaxIntAssumption DEF Wrap, m
<1> QED BY <1>1, <1>2, <1>3

\* A copy under a limit writes one byte more than it at most, whatever the limit.
LEMMA CopyBound ==
  ASSUME NEW len \in Nat, NEW r \in Nat
  PROVE  /\ LET c == writeFile(len, TRUE, r) IN c.n \in 0..(r + 1) /\ (c.ok => c.n <= r)
         /\ LET c == writeArchiveFile(len, TRUE, r) IN c.n \in 0..(r + 1) /\ (c.ok => c.n <= r)
         /\ r > 0 => LET c == Copy(len, r) IN c.n \in 0..(r + 1) /\ (c.ok => c.n <= r)
<1>1. PICK k \in Int : k = Wrap(r + 1) /\ k <= r + 1
  BY WrapLess
<1>2. PICK n \in Nat : n = LimitReader(len, k) /\ n <= r + 1
  BY <1>1 DEF LimitReader
<1>3. writeFile(len, TRUE, r) = [n |-> n, ok |-> n <= r]
  BY <1>1, <1>2 DEF writeFile
<1>4. writeArchiveFile(len, TRUE, r) = [n |-> n, ok |-> n <= r]
  BY <1>1, <1>2 DEF writeArchiveFile
<1>5. r > 0 => Copy(len, r) = [n |-> n, ok |-> n <= r]
  BY <1>1, <1>2 DEF Copy
<1>6. n \in 0..(r + 1)
  BY <1>2
<1>7. \A c : c = [n |-> n, ok |-> n <= r] => c.n \in 0..(r + 1) /\ (c.ok => c.n <= r)
  <2> TAKE c
  <2> HAVE c = [n |-> n, ok |-> n <= r]
  <2>1. c.n = n
    OBVIOUS
  <2>2. c.ok <=> n <= r
    BY Zenon
  <2>3. c.ok => c.n <= r
    BY <2>1, <2>2
  <2> QED BY <1>6, <2>1, <2>3
<1> QED BY <1>3, <1>4, <1>5, <1>7

-----------------------------------------------------------------------------
(***************************************************************************)
(* What a step that saves an entry leaves.                                 *)
(***************************************************************************)
\* After a failure one byte more than the limit may be there.
Slack == IF pc = "done" /\ result # "ok" THEN 1 ELSE 0

\* The tree as it was, or with some of the entry or, if the step goes on, with all
\* that the copy writes.
Saved(x, p, copy) ==
  \/ tree' = tree
  \/ \E n \in 0..copy.n : /\ tree' = Create(tree, p, File(x, n))
                          /\ \/ pc' = "done" /\ result' = "err"
                             \/ copy.ok /\ n = copy.n

LEMMA KeptMkdirAll ==
  ASSUME NEW t, NEW dir, NEW p, NEW r, NEW max, Kept(t, dir, r, max)
  PROVE  Kept(MkdirAll(t, p), dir, r, max)
BY BytesMkdirAll DEF Kept

LEMMA KeptCreate ==
  ASSUME NEW t, NEW dir, NEW p, NEW r \in Int, NEW max \in Nat, Kept(t, dir, r, max), NEW x, NEW n \in Nat
  PROVE  Kept(Create(t, p, File(x, n)), dir, r - n, max)
<1> DEFINE u == Create(t, p, File(x, n))
<1>1. IsFiniteSet(BytesIn(t, dir)) /\ Cardinality(BytesIn(t, dir)) + r <= max
  BY DEF Kept
<1>2. IsFiniteSet(BytesIn(u, dir)) /\ Cardinality(BytesIn(u, dir)) <= Cardinality(BytesIn(t, dir)) + n
  BY <1>1, BytesCreate
<1>3. Cardinality(BytesIn(u, dir)) \in Nat /\ Cardinality(BytesIn(t, dir)) \in Nat
  BY <1>1, <1>2, FS_CardinalityType
<1> HIDE DEF u
<1>4. Cardinality(BytesIn(u, dir)) + (r - n) <= max
  BY <1>1, <1>2, <1>3
<1>5. Kept(u, dir, r - n, max)
  BY <1>2, <1>4 DEF Kept
<1> QED BY <1>5 DEF u

LEMMA KeptWithout ==
  ASSUME NEW t, NEW dir, NEW gone, NEW r \in Int, NEW max \in Nat, Kept(t, dir, r, max)
  PROVE  Kept(Without(t, gone), dir, r, max)
<1>1. IsFiniteSet(BytesIn(t, dir)) /\ Cardinality(BytesIn(t, dir)) + r <= max
  BY DEF Kept
<1>2. /\ IsFiniteSet(BytesIn(Without(t, gone), dir))
      /\ Cardinality(BytesIn(Without(t, gone), dir)) <= Cardinality(BytesIn(t, dir))
  BY <1>1, BytesWithout
<1>3. Cardinality(BytesIn(Without(t, gone), dir)) \in Nat /\ Cardinality(BytesIn(t, dir)) \in Nat
  BY <1>1, <1>2, FS_CardinalityType
<1>4. Cardinality(BytesIn(Without(t, gone), dir)) + r <= max
  BY <1>1, <1>2, <1>3
<1> QED BY <1>2, <1>4 DEF Kept

LEMMA KeptLess ==
  ASSUME NEW t, NEW dir, NEW r \in Int, NEW less \in Int, less <= r, NEW max \in Nat, Kept(t, dir, r, max)
  PROVE  Kept(t, dir, less, max)
<1>1. IsFiniteSet(BytesIn(t, dir)) /\ Cardinality(BytesIn(t, dir)) + r <= max
  BY DEF Kept
<1>2. Cardinality(BytesIn(t, dir)) \in Nat
  BY <1>1, FS_CardinalityType
<1>3. Cardinality(BytesIn(t, dir)) + less <= max
  BY <1>1, <1>2
<1> QED BY <1>1, <1>3 DEF Kept

\* One entry saved under what is left: the limit is kept with what is left then, and
\* after a failure but for one byte.
LEMMA KeptSaved ==
  ASSUME NEW dir, NEW p, NEW x, NEW max \in Nat, left \in Nat, Kept(tree, dir, left, max),
         NEW copy, copy.n \in 0..(left + 1), copy.ok => copy.n <= left, Saved(x, p, copy)
  PROVE  \/ pc' = "done" /\ result' = "err" /\ Kept(tree', dir, -1, max)
         \/ tree' = tree
         \/ copy.n <= left /\ Kept(tree', dir, left - copy.n, max)
<1>1. CASE tree' = tree
  BY <1>1
<1>2. CASE tree' # tree
  <2>1. PICK n \in 0..copy.n : /\ tree' = Create(tree, p, File(x, n))
                               /\ (pc' = "done" /\ result' = "err") \/ (copy.ok /\ n = copy.n)
    BY <1>2 DEF Saved
  <2>2. n \in Nat /\ n <= left + 1
    BY <2>1
  <2>3. Kept(tree', dir, left - n, max)
    BY <2>1, <2>2, KeptCreate
  <2>4. CASE pc' = "done" /\ result' = "err"
    <3>1. left - n \in Int /\ -1 <= left - n
      BY <2>2
    <3>2. Kept(tree', dir, -1, max)
      BY <3>1, <2>3, KeptLess
    <3> QED BY <2>4, <3>2
  <2>5. CASE copy.ok /\ n = copy.n
    BY <2>3, <2>5
  <2> QED BY <2>1, <2>4, <2>5
<1> QED BY <1>1, <1>2

-----------------------------------------------------------------------------
(***************************************************************************)
(* The one file that is to be extracted, and nothing where that will go.   *)
(***************************************************************************)
\* A file downloaded by its name alone.
LEMMA FoundClear ==
  ASSUME World(w), OneFile(w, Protocol(w.url)), IsArchive(w, Protocol(w.url)),
         NEW name \in FileNames(w), name \in STRING, NEW n
  PROVE  Clear(Create(Fresh, Append(Root, name), File(Only, n)), Out)
<1> DEFINE p == Append(Root, name)
           t == Create(Fresh, p, File(Only, n))
<1>1. Files(t) = {p}
  BY AloneCreate
<1>2. "_extracted" \in STRING /\ name # "_extracted"
  BY OwnNamesAssumption, WorldsAssumption DEF OwnNames, World
<1>3. p # Out
  BY <1>2, RootAssumption, AppendInjective DEF Out
<1>4. p \in Seq(STRING) /\ Len(p) = Len(Root) + 1
  BY RootAssumption, PrefixOfChild
<1> HIDE DEF p
<1>5. IsPrefix(p, p)
  BY <1>4, PrefixAt
<1>6. ~IsPrefix(Out, p)
  BY <1>3, <1>4, <1>5, OutBelow, PrefixesMeet
<1>7. Clear(t, Out)
  BY <1>1, <1>6 DEF Clear
<1> QED BY <1>7 DEF p

\* The one file of an image manifest.
LEMMA PulledClear ==
  ASSUME World(w), Protocol(w.url) = "oci", IsArchive(w, "oci"),
         PulledFile(Plant(Fresh, Root, w.pages[1]), "manifest")
  PROVE  Clear(cleanupOrasMetadata(Plant(Fresh, Root, w.pages[1])), Out)
<1> DEFINE xs == w.pages[1]
           t == Plant(Fresh, Root, xs)
           u == cleanupOrasMetadata(t)
<1>1. xs \in Seq(Entry)
  BY WorldTypes
<1>2. \A p \in Children(t, Root) : ~IsDir(t, p)
  BY DEF PulledFile
<1>3. Out \in DOMAIN t => t[Out] = Dir
  BY OutFree
<1>4. Front(Out) = Root /\ Out # <<>>
  <2>1. "_extracted" \in STRING
    BY OwnNamesAssumption DEF OwnNames
  <2> QED BY <2>1, RootAssumption, FrontAppend DEF Out
<1>5. Out # Root
  BY OutBelow, RootAssumption
<1>6. Out \notin DOMAIN t
  BY <1>2, <1>3, <1>4, <1>5 DEF Children, IsDir
<1> SUFFICES ASSUME NEW q \in Files(u), IsPrefix(Out, q) PROVE FALSE
  BY DEF Clear
<1>7. q \in DOMAIN t
  BY DEF Files, cleanupOrasMetadata, Without
<1>8. DOMAIN t = DOMAIN Fresh \cup UNION {Prefixes(Root \o xs[i].name) : i \in DOMAIN xs}
  BY DEF Plant, Fresh
<1> HIDE DEF t, xs, u
<1>9. q \notin DOMAIN Fresh
  <2> SUFFICES ASSUME q \in DOMAIN Fresh PROVE FALSE
    OBVIOUS
  <2>1. q \in Seq(STRING) /\ IsPrefix(q, Root)
    BY RootAssumption, PrefixesOf DEF Fresh
  <2>2. Len(q) <= Len(Root) /\ Len(Out) <= Len(q) /\ Len(Out) = Len(Root) + 1
    BY <2>1, RootAssumption, OutBelow, PrefixAt
  <2>3. Len(Root) \in Nat /\ Len(q) \in Nat
    BY <2>1, RootAssumption
  <2> QED BY <2>2, <2>3
<1>10. PICK i \in DOMAIN xs : q \in Prefixes(Root \o xs[i].name)
  BY <1>7, <1>8, <1>9
<1>11. xs[i] \in Entry
  BY <1>1
<1>12. xs[i].name \in Seq(STRING)
  BY <1>11 DEF Entry
<1>13. Root \o xs[i].name \in Seq(STRING)
  BY <1>12, RootAssumption, PrefixOfJoined
<1>14. q \in Seq(STRING) /\ IsPrefix(q, Root \o xs[i].name)
  BY <1>10, <1>13, PrefixesOf
<1>15. IsPrefix(Out, Root \o xs[i].name)
  BY <1>13, <1>14, OutBelow, PrefixTransitive
<1>16. Out \in Prefixes(Root \o xs[i].name)
  BY <1>13, <1>15, OutBelow, PrefixIn
<1> QED BY <1>6, <1>8, <1>16

-----------------------------------------------------------------------------
(***************************************************************************)
(* The budget of an extraction.                                            *)
(***************************************************************************)
\* Only extraction handles the one file that was downloaded.
Extracting == {"extract", "tar", "zip", "done"}

\* What is below _extracted, together with what is left, is within the limit.
Budgeted == limited /\ Unpacks /\ (proto = "oci" => w.media = "manifest")

OutBudget ==
  /\ isFile => pc \in Extracting
  /\ Budgeted =>
       /\ pc = "extract" => Clear(tree, Out)
       /\ pc \in {"tar", "zip"} => Kept(tree, Out, left, w.s.maxBytes)
       /\ pc = "done" => Kept(tree, Out, -Slack, w.s.maxBytes)

LEMMA OutBudgetInit == Init => OutBudget
BY DEF Init, OutBudget, Budgeted, Unpacks

\* Everything before extraction, but for the three ways one file is downloaded.
LEMMA BeforeExtracting ==
  ASSUME Next, pc \notin Extracting, isFile = FALSE, ~Body, ~Pull, ~OpenLocal
  PROVE  isFile' = FALSE
<1>1. CASE Detect \/ RequestHTTP \/ RequestS3 \/ RequestGCS \/ RequestOCI \/ Clone
  BY <1>1 DEF Detect, RequestHTTP, RequestS3, RequestGCS, RequestOCI, Clone, Request
<1>2. CASE InvalidKey \/ fetchArchive
  BY <1>2 DEF InvalidKey, fetchArchive, Fail
<1>3. CASE ListPage \/ CopyEnd \/ ArchiveEnd
  BY <1>3 DEF ListPage, CopyEnd, ArchiveEnd, Downloaded, Fail
<1>4. CASE GetObject
  BY <1>4 DEF GetObject, Save, Skip, Advance, Fail
<1>5. CASE copyDir
  BY <1>5 DEF copyDir, Save, MakeDir, Advance, Fail
<1>6. CASE HgClone
  BY <1>6 DEF HgClone, Downloaded, Fail
<1>7. CASE HgMove
  BY <1>7 DEF HgMove, Downloaded, Fail
<1>8. CASE extractArchive
  BY <1>8 DEF extractArchive, Save, MakeDir, Skip, Advance, Fail
<1>9. ~(ExtractWithLimit \/ untar \/ extractZip \/ Extracted \/ Done)
  BY DEF ExtractWithLimit, untar, extractZip, Extracted, Done, Extracting
<1> QED BY <1>1, <1>2, <1>3, <1>4, <1>5, <1>6, <1>7, <1>8, <1>9 DEF Next

\* An entry that is extracted.
LEMMA ExtractedEntry ==
  ASSUME untar \/ extractZip, Typed, limited
  PROVE  LET p == Join(Out, e.name)
             c == writeFile(e.len, TRUE, left)
         IN  /\ pc \in {"tar", "zip"} /\ UNCHANGED <<w, proto, isFile>> /\ left \in Nat
             /\ c.n \in 0..(left + 1) /\ (c.ok => c.n <= left)
             /\ \/ pc' = "done" /\ result' = "err" /\ (tree' = tree \/ Saved(e, p, c))
                \/ pc' = pc /\ left' = left /\ (tree' = tree \/ tree' = MkdirAll(tree, p))
                \/ pc' = pc /\ left' = left - c.n /\ c.ok /\ tree' = Create(tree, p, File(e, c.n))
<1> DEFINE p == Join(Out, e.name)
           c == writeFile(e.len, TRUE, left)
<1>1. limited = TRUE
  BY DEF limited
<1>2. left \in Nat
  BY DEF Typed, Stream
<1>3. todo # <<>> /\ pc \in {"tar", "zip"} /\ UNCHANGED <<w, proto>>
  BY DEF untar, extractZip, request
<1>4. e.len \in Nat
  BY <1>3, HeadTail DEF Typed, Stream
<1>5. c.n \in 0..(left + 1) /\ (c.ok => c.n <= left)
  BY <1>2, <1>4, CopyBound
<1>6. isFile' = isFile
  BY DEF untar, extractZip, Save, MakeDir, Skip, Spend, Advance, Fail
<1> HIDE DEF p, c
<1>7. c.n \in Nat /\ left - 0 = left
  BY <1>2, <1>5
<1>8. \/ Skip \/ MakeDir(p, Spend(0)) \/ Save(e, p, c, Spend(c.n))
      \/ Fail /\ UNCHANGED tree
  BY <1>1 DEF untar, extractZip, p, c
<1>9. \/ pc' = "done" /\ result' = "err" /\ (tree' = tree \/ Saved(e, p, c))
      \/ pc' = pc /\ left' = left /\ (tree' = tree \/ tree' = MkdirAll(tree, p))
      \/ pc' = pc /\ left' = left - c.n /\ c.ok /\ tree' = Create(tree, p, File(e, c.n))
  <2>1. CASE Skip
    BY <2>1 DEF Skip, Advance
  <2>2. CASE MakeDir(p, Spend(0))
    BY <2>2, <1>1, <1>7 DEF MakeDir, Spend, Advance, Fail, Return
  <2>3. CASE Fail /\ UNCHANGED tree
    BY <2>3 DEF Fail, Return
  <2>4. CASE Save(e, p, c, Spend(c.n))
    <3>1. CASE Fail /\ (tree' = tree \/ \E n \in 0..c.n : tree' = Create(tree, p, File(e, n)))
      BY <3>1 DEF Fail, Return, Saved
    <3>2. CASE tree' = Create(tree, p, File(e, c.n)) /\ (IF c.ok THEN Spend(c.n) ELSE Fail)
      <4>1. CASE c.ok
        BY <3>2, <4>1, <1>1 DEF Spend, Advance
      <4>2. CASE ~c.ok
        <5>1. c.n \in 0..c.n
          BY <1>7
        <5> QED BY <3>2, <4>2, <5>1 DEF Fail, Return, Saved
      <4> QED BY <4>1, <4>2
    <3> QED BY <2>4, <3>1, <3>2 DEF Save
  <2> QED BY <1>8, <2>1, <2>2, <2>3, <2>4
<1> QED BY <1>2, <1>3, <1>5, <1>6, <1>9 DEF p, c

LEMMA OutBudgetStep == Typed /\ Placed /\ OutBudget /\ [Next]_vars => OutBudget'
<1> SUFFICES ASSUME Typed, Placed, OutBudget, [Next]_vars PROVE OutBudget'
  OBVIOUS
<1> DEFINE max == w.s.maxBytes
<1>w. World(w) /\ (pc # "detect" => proto = Protocol(w.url))
  BY DEF Typed, Chosen
<1>m. max \in Nat
  <2>1. max \in 0..MaxInt
    BY <1>w, WorldTypes DEF Settings
  <2> QED BY <2>1, MaxIntAssumption
<1>i. pc \in Unwritten \cup {"request"} => tree = Fresh
  BY DEF Placed, Unwritten
<1>o. Out' = Out
  BY DEF Out
<1>b. ASSUME isFile' = FALSE PROVE OutBudget'
  BY <1>b DEF OutBudget, Budgeted, Unpacks
<1>u. ASSUME UNCHANGED <<w, proto, isFile>> PROVE Budgeted' = Budgeted /\ w'.s.maxBytes = max
  BY <1>u DEF Budgeted, Unpacks, limited, IsArchive
<1>x. ASSUME UNCHANGED <<w, proto>>, pc' = "extract", IsArchive(w, proto) /\ (proto = "oci" => w.media = "manifest") => Clear(tree', Out)
      PROVE  OutBudget'
  <2>1. Budgeted' => Clear(tree', Out)
    BY <1>x DEF Budgeted, Unpacks
  <2> QED BY <1>x, <2>1, <1>o DEF OutBudget, Extracting
<1>s. Slack' \in {0, 1} /\ (result' = "ok" => Slack' = 0)
  BY DEF Slack
<1>0. CASE UNCHANGED vars \/ Done
  <2>1. UNCHANGED <<w, proto, isFile, pc, tree, left, result>>
    BY <1>0 DEF Done, vars, request, stream
  <2>2. Slack' = Slack
    BY <2>1 DEF Slack
  <2> QED BY <2>1, <2>2, <1>u, <1>o DEF OutBudget
<1>1. CASE Next /\ pc \notin Extracting /\ ~Body /\ ~Pull /\ ~OpenLocal
  <2>1. isFile = FALSE
    BY <1>1 DEF OutBudget, Typed, Stream
  <2> QED BY <1>1, <2>1, <1>b, BeforeExtracting
<1>2. CASE Body
  <2> PICK name : name = Last(Only.name)
    OBVIOUS
  <2>1. pc = "body" /\ tree = Fresh /\ OneFile(w, proto) /\ proto = Protocol(w.url) /\ proto \in {"http", "s3", "gcs"}
    BY <1>2, <1>w, <1>i DEF Body, Placed, Unwritten
  <2>2. Only \in Entry /\ Only.name \in Seq(STRING) /\ Only.name # <<>> /\ name \in STRING
    BY <2>1, <1>w, OnlyEntry
  <2>3. UNCHANGED <<w, proto>>
    BY <1>2 DEF Body, request
  <2>4. CASE pc' = "extract"
    <3>1. /\ IsDir(tree, Front(FilePlace)) /\ CanCreate(tree, FilePlace)
          /\ tree' = Create(tree, FilePlace, File(Only, Copy(Only.len, w.s.maxBytes).n))
      BY <1>2, <2>4 DEF Body, Save, Fail, Return
    <3>2. /\ FilePlace = Append(Front(FilePlace), name) /\ FilePlace \in Seq(STRING)
          /\ Front(FilePlace) \in DOMAIN Fresh /\ (Aside => ~IsPrefix(Root, FilePlace))
      BY <2>1, <3>1, <1>w, FilePlaced
    <3>3. CASE Aside
      <4> PICK p \in Seq(STRING) : p = FilePlace /\ ~IsPrefix(Root, p) /\ Front(p) \in DOMAIN Fresh
        BY <3>2, <3>3
      <4> PICK node : node = File(Only, Copy(Only.len, w.s.maxBytes).n)
        OBVIOUS
      <4>0. PICK t : t = tree'
        OBVIOUS
      <4>1. t = Create(Fresh, p, node)
        BY <2>1, <3>1, <4>0
      <4>2. DOMAIN t = DOMAIN Fresh \cup {p} /\ \A q \in DOMAIN Fresh : q # p => t[q] = Dir
        BY <4>1, MadeInFresh
      <4>3. Files(t) \subseteq {p}
        BY <4>2 DEF Files, Dir
      <4>4. ~IsPrefix(Out, p)
        BY OutBelow, RootAssumption, PrefixTransitive
      <4>5. Clear(t, Out)
        BY <4>3, <4>4 DEF Clear
      <4> QED BY <2>3, <2>4, <4>0, <4>5, <1>x
    <3>5. CASE ~Aside
      <4>1. FilePlace = Append(Root, name)
        BY <2>1, <3>2, <3>5 DEF Aside
      <4>2. name \in FileNames(w)
        BY <2>1, <2>2, <1>w, OnlyNamed
      <4>3. IsArchive(w, proto) => Clear(tree', Out)
        BY <2>1, <2>2, <3>1, <4>1, <4>2, <1>w, FoundClear
      <4> QED BY <2>3, <2>4, <4>3, <1>x
    <3> QED BY <3>3, <3>5
  <2>5. CASE pc' # "extract"
    <3>1. isFile' = isFile /\ isFile = FALSE
      BY <1>2, <2>1, <2>5 DEF Body, Save, Downloaded, Goto, Fail, OutBudget, Typed, Stream, Extracting
    <3> QED BY <3>1, <1>b
  <2> QED BY <2>4, <2>5
<1>3. CASE Pull
  <2> DEFINE pulled == Plant(tree, Root, w.pages[1])
  <2>1. pc = "pull" /\ proto = "oci" /\ tree = Fresh /\ Protocol(w.url) = "oci" /\ UNCHANGED <<w, proto>>
    BY <1>3, <1>w, <1>i DEF Pull, Placed, Unwritten, request
  <2>2. CASE pc' = "extract" /\ isFile' # FALSE
    <3>1. isFile' = PulledFile(pulled, w.media) /\ tree' = cleanupOrasMetadata(pulled)
      BY <1>3, <2>2 DEF Pull, Downloaded, Fail, Return
    <3>2. IsArchive(w, proto) /\ w.media = "manifest" => Clear(tree', Out)
      <4>1. PulledFile(pulled, w.media) \in BOOLEAN
        BY DEF PulledFile
      <4> QED BY <2>1, <2>2, <3>1, <4>1, <1>w, PulledClear
    <3> QED BY <2>1, <2>2, <3>2, <1>x
  <2>3. CASE ~(pc' = "extract" /\ isFile' # FALSE)
    <3>1. isFile' = FALSE
      BY <1>3, <2>1, <2>3 DEF Pull, Downloaded, Goto, Fail, OutBudget, Typed, Stream, Extracting
    <3> QED BY <3>1, <1>b
  <2> QED BY <2>2, <2>3
<1>4. CASE OpenLocal
  <2> DEFINE name == Last(w.local)
  <2>1. pc = "request" /\ proto = "file" /\ Protocol(w.url) = "file" /\ UNCHANGED <<w, proto>>
    BY <1>4, <1>w DEF OpenLocal, request
  <2>2. CASE isFile' # FALSE
    <3>0. isFile = FALSE
      BY <2>1 DEF OutBudget, Typed, Stream, Extracting
    <3>1. pc' = "extract" /\ w.at = "file" /\ tree' = Create(tree, Append(Root, name), File(Only, Copy(Only.len, 0).n))
      BY <1>4, <2>2, <3>0 DEF OpenLocal, Save, Downloaded, Goto, Fail, Return
    <3>2. w.local # <<>> /\ w.local \in Seq(STRING)
      BY <2>1, <3>1, <1>w, WorldsAssumption DEF World
    <3>3. name \in STRING /\ name \in FileNames(w)
      BY <3>2, LastType DEF FileNames
    <3>4. OneFile(w, proto)
      BY <2>1, <3>1 DEF OneFile
    <3> HIDE DEF name
    <3>5. tree = Fresh
      BY <2>1, <1>i
    <3>6. IsArchive(w, proto) => Clear(tree', Out)
      BY <2>1, <3>1, <3>3, <3>4, <3>5, <1>w, FoundClear
    <3> QED BY <2>1, <3>1, <3>6, <1>x
  <2> QED BY <2>2, <1>b
<1>5. CASE ExtractWithLimit
  <2>1. UNCHANGED <<w, proto, isFile, tree>> /\ pc = "extract"
    BY <1>5 DEF ExtractWithLimit, request, Fail
  <2>2. pc' = "done" \/ (pc' \in {"tar", "zip"} /\ left' = max)
    BY <1>5 DEF ExtractWithLimit, Fail, Return, Goto
  <2>3. SUFFICES ASSUME Budgeted
                 PROVE  /\ pc' \in {"tar", "zip"} => Kept(tree', Out, left', max)
                        /\ pc' = "done" => Kept(tree', Out, -Slack', max)
    BY <2>1, <2>2, <1>u, <1>o DEF OutBudget, Extracting
  <2>4. IsFiniteSet(BytesIn(tree, Out)) /\ Cardinality(BytesIn(tree, Out)) = 0
    BY <2>1, <2>3, ClearBytes DEF OutBudget
  <2>5. Kept(tree, Out, max, max)
    BY <2>4, <1>m DEF Kept
  <2>6. Kept(tree, Out, -Slack', max)
    BY <2>5, <1>m, <1>s, KeptLess
  <2> QED BY <2>1, <2>2, <2>5, <2>6
<1>6. CASE untar \/ extractZip
  <2>1. pc \in {"tar", "zip"} /\ UNCHANGED <<w, proto, isFile>>
    BY <1>6 DEF untar, extractZip, Save, MakeDir, Skip, Spend, Advance, Fail, request
  <2>2. pc' \in {pc, "done"}
    BY <1>6 DEF untar, extractZip, Save, MakeDir, Skip, Spend, Advance, Fail, Return
  <2>3. SUFFICES ASSUME Budgeted
                 PROVE  /\ pc' \in {"tar", "zip"} => Kept(tree', Out, left', max)
                        /\ pc' = "done" => Kept(tree', Out, -Slack', max)
    BY <2>1, <2>2, <1>u, <1>o DEF OutBudget, Extracting
  <2> DEFINE p == Join(Out, e.name)
             c == writeFile(e.len, TRUE, left)
  <2>4. limited
    BY <2>3 DEF Budgeted
  <2>5. Kept(tree, Out, left, max)
    BY <2>1, <2>3 DEF OutBudget
  <2>6. /\ left \in Nat /\ c.n \in 0..(left + 1) /\ (c.ok => c.n <= left)
        /\ \/ pc' = "done" /\ result' = "err" /\ (tree' = tree \/ Saved(e, p, c))
           \/ pc' = pc /\ left' = left /\ (tree' = tree \/ tree' = MkdirAll(tree, p))
           \/ pc' = pc /\ left' = left - c.n /\ c.ok /\ tree' = Create(tree, p, File(e, c.n))
    BY <1>6, <2>4, ExtractedEntry
  <2> HIDE DEF p, c
  <2>7. CASE pc' = "done" /\ result' = "err" /\ tree' = tree
    BY <2>5, <2>6, <2>7, <1>m, <1>s, KeptLess
  <2>8. CASE pc' = "done" /\ result' = "err" /\ Saved(e, p, c) /\ tree' # tree
    <3>1. Slack' = 1
      BY <2>8 DEF Slack
    <3>2. PICK n \in 0..c.n : tree' = Create(tree, p, File(e, n))
      BY <2>8 DEF Saved
    <3>3. n \in Nat /\ left - n \in Int /\ -1 <= left - n
      BY <2>6, <3>2
    <3>4. Kept(tree', Out, left - n, max)
      BY <2>5, <2>6, <3>2, <3>3, <1>m, KeptCreate
    <3>5. Kept(tree', Out, -1, max)
      BY <3>3, <3>4, <1>m, KeptLess
    <3> QED BY <2>8, <3>1, <3>5
  <2>9. CASE pc' = pc /\ left' = left /\ (tree' = tree \/ tree' = MkdirAll(tree, p))
    BY <2>1, <2>5, <2>9, KeptMkdirAll
  <2>10. CASE pc' = pc /\ left' = left - c.n /\ c.ok /\ tree' = Create(tree, p, File(e, c.n))
    <3>1. PICK n \in Nat : n = c.n
      BY <2>6
    <3>2. tree' = Create(tree, p, File(e, n)) /\ left' = left - n
      BY <2>10, <3>1
    <3>3. Kept(tree', Out, left - n, max)
      BY <2>5, <2>6, <3>2, <1>m, KeptCreate
    <3> QED BY <2>1, <2>10, <3>2, <3>3
  <2> QED BY <2>6, <2>7, <2>8, <2>9, <2>10
<1>7. CASE Extracted
  <2>1. /\ pc \in {"tar", "zip"} /\ UNCHANGED <<w, proto, isFile>>
        /\ pc' = "done" /\ result' = "ok" /\ tree' = Without(tree, Children(tree, Root) \ {Out})
    BY <1>7 DEF Extracted, Return, request
  <2>2. SUFFICES ASSUME Budgeted PROVE Kept(tree', Out, -Slack', max)
    BY <2>1, <1>u, <1>o DEF OutBudget, Extracting
  <2>3. Kept(tree, Out, left, max) /\ left \in Nat
    BY <2>1, <2>2 DEF OutBudget, Typed, Stream, Budgeted
  <2>4. Kept(tree, Out, 0, max)
    BY <2>3, <1>m, KeptLess
  <2>5. Kept(tree', Out, 0, max)
    BY <2>1, <2>4, <1>m, KeptWithout
  <2> QED BY <2>1, <2>5, <1>s
<1>8. Next /\ pc \in Extracting => Done \/ ExtractWithLimit \/ untar \/ extractZip \/ Extracted
  <2> SUFFICES ASSUME Next, pc \in Extracting
               PROVE  Done \/ ExtractWithLimit \/ untar \/ extractZip \/ Extracted
    OBVIOUS
  <2>1. ~(Detect \/ RequestHTTP \/ RequestS3 \/ RequestGCS \/ InvalidKey \/ RequestOCI \/ Clone \/ fetchArchive)
    BY DEF Detect, RequestHTTP, RequestS3, RequestGCS, InvalidKey, RequestOCI, Clone, Request, fetchArchive, Extracting
  <2>2. ~(Body \/ ListPage \/ GetObject \/ Pull \/ OpenLocal \/ copyDir \/ CopyEnd \/ HgClone \/ HgMove)
    BY DEF Body, ListPage, GetObject, Pull, OpenLocal, copyDir, CopyEnd, HgClone, HgMove, Extracting
  <2>3. ~(extractArchive \/ ArchiveEnd)
    BY DEF extractArchive, ArchiveEnd, Extracting
  <2> QED BY <2>1, <2>2, <2>3 DEF Next
<1> QED BY <1>0, <1>1, <1>2, <1>3, <1>4, <1>5, <1>6, <1>7, <1>8

-----------------------------------------------------------------------------
(***************************************************************************)
(* The budget of a platform's archive.                                     *)
(***************************************************************************)
\* What is in the staging directory, together with what is left.
TreeBudget ==
  limited /\ proto = "git" =>
    /\ pc = "archived" => Kept(tree, Root, left, w.s.maxBytes)
    /\ pc = "extract" => Kept(tree, Root, 0, w.s.maxBytes)
    /\ pc = "done" => Kept(tree, Root, -Slack, w.s.maxBytes)

LEMMA TreeBudgetInit == Init => TreeBudget
BY DEF Init, TreeBudget

LEMMA TreeBudgetStep == Typed /\ Placed /\ ArchiveInv /\ TreeBudget /\ [Next]_vars => TreeBudget'
<1> SUFFICES ASSUME Typed, Placed, ArchiveInv, TreeBudget, [Next]_vars PROVE TreeBudget'
  OBVIOUS
<1> DEFINE max == w.s.maxBytes
<1>w. World(w) /\ (pc # "detect" => proto = Protocol(w.url))
  BY DEF Typed, Chosen
<1>m. max \in Nat
  <2>1. max \in 0..MaxInt
    BY <1>w, WorldTypes DEF Settings
  <2> QED BY <2>1, MaxIntAssumption
<1>s. Slack' \in {0, 1} /\ (result' = "ok" => Slack' = 0)
  BY DEF Slack
<1>f. tree = Fresh => Kept(tree, Root, max, max) /\ Kept(tree, Root, -Slack', max)
  <2> HAVE tree = Fresh
  <2>1. IsFiniteSet(BytesIn(tree, Root)) /\ Cardinality(BytesIn(tree, Root)) = 0
    BY FreshClear, ClearBytes
  <2>2. Kept(tree, Root, max, max)
    BY <2>1, <1>m DEF Kept
  <2>3. -Slack' \in Int /\ -Slack' <= max
    BY <1>m, <1>s
  <2> QED BY <2>2, <2>3, <1>m, KeptLess
<1>1. CASE UNCHANGED vars \/ Done
  <2>1. UNCHANGED <<w, proto, pc, tree, left, result>>
    BY <1>1 DEF Done, vars, request, stream
  <2>2. Slack' = Slack /\ limited' = limited
    BY <2>1 DEF Slack, limited
  <2> QED BY <2>1, <2>2 DEF TreeBudget
<1>2. CASE Detect
  <2>1. pc' = "request" \/ proto' = "none"
    BY <1>2 DEF Detect, Goto
  <2> QED BY <2>1 DEF TreeBudget
<1>3. CASE Next /\ ~Detect /\ proto # "git"
  BY <1>3, Stays DEF TreeBudget
<1>4. CASE Next /\ ~Detect /\ ~Done /\ proto = "git" /\ ~limited
  BY <1>4, Stays DEF TreeBudget, limited
<1>5. CASE Next /\ ~Detect /\ ~Done /\ proto = "git" /\ limited
  <2>1. w' = w /\ proto' = "git" /\ pc \in GitStages /\ (pc' # "detect") /\ ~isFile
    BY <1>5, Stays DEF ArchiveInv
  <2>l. left \in Nat /\ limited = TRUE
    BY <1>5 DEF Typed, Stream, limited
  <2>2. Clone \/ fetchArchive \/ extractArchive \/ ArchiveEnd \/ ExtractWithLimit
    BY <1>5, <2>1 DEF Next, RequestHTTP, RequestS3, RequestGCS, InvalidKey, RequestOCI, Request, Body, ListPage,
         GetObject, Pull, OpenLocal, copyDir, CopyEnd, HgClone, HgMove, untar, extractZip, Extracted, GitStages
  <2>3. CASE Clone
    <3>1. \E s : Request("git", s, "archive")
      BY <2>3 DEF Clone
    <3>2. pc = "request" /\ UNCHANGED tree /\ pc' \in {"archive", "done"}
      BY <3>1 DEF Request, Goto, Return
    <3>3. tree = Fresh
      BY <3>2 DEF Placed, Unwritten
    <3> QED BY <2>1, <3>2, <3>3, <1>f DEF TreeBudget
  <2>4. CASE fetchArchive
    <3>1. pc = "archive" /\ UNCHANGED tree /\ (pc' = "done" \/ (pc' = "archived" /\ left' = max))
      BY <2>4 DEF fetchArchive, Fail, Goto, Return
    <3>2. tree = Fresh
      BY <3>1 DEF Placed, Unwritten
    <3> QED BY <2>1, <3>1, <3>2, <1>f DEF TreeBudget
  <2>5. CASE extractArchive
    <3> DEFINE copy == writeArchiveFile(Bytes(e), limited, left)
               p == Root \o StripTop(e, IF top = <<>> THEN <<Head(e.name)>> ELSE top)
    <3>1. pc = "archived" /\ todo # <<>>
      BY <2>5 DEF extractArchive
    <3>2. Kept(tree, Root, left, max)
      BY <1>5, <3>1 DEF TreeBudget
    <3>3. PICK len \in Nat : len = Bytes(e)
      BY <3>1, HeadTail DEF Typed, Stream
    <3>4. copy = writeArchiveFile(len, TRUE, left)
      BY <3>3, <2>l
    <3>5. PICK c : c = copy /\ c.n \in 0..(left + 1) /\ (c.ok => c.n <= left)
      BY <3>4, <2>l, CopyBound
    <3>6. \/ pc' = "done" /\ result' = "err" /\ (tree' = tree \/ Saved(e, p, c))
          \/ pc' = pc /\ left' = left /\ tree' = tree
          \/ pc' = pc /\ left' = left - 0 /\ (tree' = tree \/ tree' = MkdirAll(tree, p))
          \/ pc' = pc /\ left' = left - c.n /\ c.ok /\ tree' = Create(tree, p, File(e, c.n))
      <4>1. c = copy
        BY <3>5
      <4>2. c.n \in 0..c.n
        <5>1. left \in Nat
          BY <2>l
        <5>2. c.n \in 0..(left + 1)
          BY <3>5, Zenon
        <5> QED BY <5>1, <5>2
      <4> HIDE DEF copy
      <4> QED BY <2>5, <4>1, <4>2 DEF extractArchive, Save, MakeDir, Skip, Advance, Fail, Return, Saved, copy
    <3> HIDE DEF copy, p
    <3>7. CASE pc' = "done" /\ result' = "err" /\ (tree' = tree \/ Saved(e, p, c))
      <4>1. Slack' = 1
        BY <3>7 DEF Slack
      <4>2. Kept(tree', Root, -1, max)
        <5>1. CASE tree' = tree
          BY <3>2, <5>1, <2>l, <1>m, KeptLess
        <5>2. CASE tree' # tree
          <6>1. PICK n \in 0..c.n : tree' = Create(tree, p, File(e, n))
            BY <3>7, <5>2 DEF Saved
          <6>2. n \in Nat /\ left - n \in Int /\ -1 <= left - n
            BY <3>5, <6>1, <2>l
          <6>3. Kept(tree', Root, left - n, max)
            BY <3>2, <6>1, <6>2, <2>l, <1>m, KeptCreate
          <6> QED BY <6>2, <6>3, <1>m, KeptLess
        <5> QED BY <5>1, <5>2
      <4> QED BY <2>1, <3>7, <4>1, <4>2 DEF TreeBudget
    <3>8. CASE pc' = pc /\ left' = left /\ (tree' = tree \/ tree' = MkdirAll(tree, p))
      BY <2>1, <3>1, <3>2, <3>8, KeptMkdirAll DEF TreeBudget
    <3>9. CASE pc' = pc /\ left' = left - c.n /\ c.ok /\ tree' = Create(tree, p, File(e, c.n))
      <4>0. c.n \in Nat
        <5>1. left \in Nat
          BY <2>l
        <5>2. c.n \in 0..(left + 1)
          BY <3>5, Zenon
        <5> QED BY <5>1, <5>2
      <4>1. PICK n \in Nat : n = c.n
        BY <4>0
      <4>2. tree' = Create(tree, p, File(e, n)) /\ left' = left - n
        BY <3>9, <4>1
      <4>3. Kept(tree', Root, left - n, max)
        BY <3>2, <4>2, <2>l, <1>m, KeptCreate
      <4> QED BY <2>1, <3>1, <3>9, <4>2, <4>3 DEF TreeBudget
    <3>10. left - 0 = left
      BY <2>l
    <3> QED BY <3>6, <3>7, <3>8, <3>9, <3>10
  <2>6. CASE ArchiveEnd
    <3>1. pc = "archived" /\ UNCHANGED tree /\ pc' \in {"extract", "done"}
      BY <2>6 DEF ArchiveEnd, Fail, Downloaded, Goto, Return
    <3>2. Kept(tree, Root, left, max)
      BY <1>5, <3>1 DEF TreeBudget
    <3>3. Kept(tree, Root, 0, max) /\ Kept(tree, Root, -Slack', max)
      BY <3>2, <2>l, <1>m, <1>s, KeptLess
    <3> QED BY <2>1, <3>1, <3>3 DEF TreeBudget
  <2>7. CASE ExtractWithLimit
    <3>1. pc = "extract" /\ pc' = "done" /\ UNCHANGED tree
      BY <2>1, <2>7 DEF ExtractWithLimit, Return
    <3>2. Kept(tree, Root, 0, max)
      BY <1>5, <3>1 DEF TreeBudget
    <3>3. Kept(tree, Root, -Slack', max)
      BY <3>2, <1>m, <1>s, KeptLess
    <3> QED BY <2>1, <3>1, <3>3 DEF TreeBudget
  <2> QED BY <2>2, <2>3, <2>4, <2>5, <2>6, <2>7
<1> QED BY <1>1, <1>2, <1>3, <1>4, <1>5

-----------------------------------------------------------------------------
(***************************************************************************)
(* The limit of every file.                                                *)
(***************************************************************************)
Under(t, m) == \A p \in Files(t) : t[p].n \in 0..m

LEMMA UnderMkdirAll ==
  ASSUME NEW t, NEW m, Under(t, m), NEW p
  PROVE  Under(MkdirAll(t, p), m)
BY MkdirAllKeeps DEF Under, Files

LEMMA UnderCreate ==
  ASSUME NEW t, NEW m, Under(t, m), NEW p, NEW x, NEW n \in 0..m
  PROVE  Under(Create(t, p, File(x, n)), m)
<1> DEFINE u == Create(t, p, File(x, n))
<1>1. Files(u) = Files(t) \cup {p} /\ u[p] = File(x, n) /\ \A q \in Files(t) \ {p} : u[q] = t[q]
  BY CreateKeeps DEF Files
<1>2. File(x, n).n = n
  BY DEF File
<1> HIDE DEF u
<1>3. Under(u, m)
  BY <1>1, <1>2 DEF Under
<1> QED BY <1>3 DEF u

LEMMA UnderWithout ==
  ASSUME NEW t, NEW m, Under(t, m), NEW gone
  PROVE  Under(Without(t, gone), m)
BY DEF Under, Files, Without

LEMMA UnderMore ==
  ASSUME NEW t, NEW m \in Nat, Under(t, m), NEW more \in Nat, m <= more
  PROVE  Under(t, more)
BY DEF Under

\* One entry saved under what is left of a limit.
LEMMA UnderSaved ==
  ASSUME NEW max \in Nat, NEW r \in Nat, r <= max, Under(tree, max),
         NEW p, NEW x, NEW copy, copy.n \in 0..(r + 1), copy.ok => copy.n <= r, Saved(x, p, copy)
  PROVE  Under(tree', max + Slack')
<1>s. PICK k \in {0, 1} : k = Slack' /\ (pc' = "done" /\ result' = "err" => k = 1)
  BY DEF Slack
<1>0. max + k \in Nat /\ max <= max + k
  OBVIOUS
<1>1. Under(tree, max + k)
  BY <1>0, UnderMore
<1>4. Under(tree', max + k)
  <2>1. CASE tree' = tree
    BY <1>1, <2>1
  <2>2. CASE tree' # tree
    <3>1. PICK n \in 0..copy.n : /\ tree' = Create(tree, p, File(x, n))
                                 /\ (pc' = "done" /\ result' = "err") \/ (copy.ok /\ n = copy.n)
      BY <2>2 DEF Saved
    <3>2. n \in Nat /\ n <= r + 1
      BY <3>1
    <3>3. k = 1 \/ n <= r
      BY <3>1, <1>s
    <3>4. n \in 0..(max + k)
      BY <3>2, <3>3
    <3> QED BY <3>1, <3>4, <1>1, UnderCreate
  <2> QED BY <2>1, <2>2
<1> QED BY <1>4, <1>s

\* The protocols that limit every file of a download.
PerFile == {"http", "s3", "gcs"}

FileBudget ==
  /\ pc = "copy" => proto = "file"
  /\ pc = "move" => proto = "hg"
  /\ limited =>
       /\ pc \in {"tar", "zip"} => left <= w.s.maxBytes
       /\ proto \in PerFile => Under(tree, w.s.maxBytes + Slack)

LEMMA FileBudgetInit == Init => FileBudget
BY DEF Init, FileBudget, PerFile

LEMMA FileBudgetStep == Typed /\ Placed /\ FileBudget /\ [Next]_vars => FileBudget'
<1> SUFFICES ASSUME Typed, Placed, FileBudget, [Next]_vars PROVE FileBudget'
  OBVIOUS
<1> DEFINE max == w.s.maxBytes
<1>w. World(w) /\ (pc # "detect" => proto = Protocol(w.url))
  BY DEF Typed, Chosen
<1>m. max \in Nat
  <2>1. max \in 0..MaxInt
    BY <1>w, WorldTypes DEF Settings
  <2> QED BY <2>1, MaxIntAssumption
<1>s. Slack' \in {0, 1}
  BY DEF Slack
<1>g. ASSUME pc # "done", limited, proto \in PerFile PROVE Under(tree, max)
  <2>1. Slack = 0 /\ max + 0 = max
    BY <1>g, <1>m DEF Slack
  <2> QED BY <1>g, <2>1 DEF FileBudget
\* What leaves no larger files than it may.
<1>k. ASSUME UNCHANGED <<w, proto>>,
             pc' \notin {"tar", "zip"} \/ (limited => left' <= max),
             pc' \in {"copy", "move"} => pc' = pc,
             limited /\ proto \in PerFile => Under(tree', max + Slack')
      PROVE  FileBudget'
  <2>1. limited' = limited
    BY <1>k DEF limited
  <2> QED BY <1>k, <2>1 DEF FileBudget
<1>n. ASSUME Under(tree', max) PROVE Under(tree', max + Slack')
  <2>1. PICK k \in {0, 1} : k = Slack'
    BY <1>s
  <2>2. max + k \in Nat /\ max <= max + k
    BY <1>m
  <2>3. Under(tree', max + k)
    BY <2>2, <1>m, <1>n, UnderMore
  <2> QED BY <2>1, <2>3
<1>t. ASSUME UNCHANGED <<w, proto, tree>>, pc # "done", pc' \notin {"tar", "zip", "copy", "move"} PROVE FileBudget'
  <2>1. limited /\ proto \in PerFile => Under(tree', max)
    BY <1>t, <1>g
  <2> QED BY <2>1, <1>t, <1>n, <1>k
<1>z. ASSUME proto \notin PerFile, UNCHANGED <<w, proto>>, pc' \notin {"tar", "zip", "copy", "move"} \/ (pc' = pc /\ pc \notin {"tar", "zip"})
      PROVE  FileBudget'
  BY <1>z, <1>k
<1>0. CASE UNCHANGED vars \/ Done
  <2>1. UNCHANGED <<w, proto, pc, tree, left, result>>
    BY <1>0 DEF Done, vars, request, stream
  <2>2. Slack' = Slack /\ limited' = limited
    BY <2>1 DEF Slack, limited
  <2> QED BY <2>1, <2>2 DEF FileBudget
<1>1. CASE Detect
  <2>1. pc = "detect" /\ UNCHANGED <<w, tree>> /\ pc' \in {"request", "done"} /\ tree = Fresh
    BY <1>1 DEF Detect, Goto, Return, Placed, Unwritten
  <2>2. Under(tree', max + Slack')
    BY <2>1, FreshFiles DEF Under
  <2>3. limited' = limited /\ w'.s.maxBytes = max
    BY <2>1 DEF limited
  <2> QED BY <2>1, <2>2, <2>3 DEF FileBudget
<1>2. CASE RequestHTTP \/ RequestS3 \/ RequestGCS \/ RequestOCI \/ Clone
  <2>1. UNCHANGED <<w, proto, tree>> /\ pc = "request" /\ pc' \in {"body", "list", "pull", "archive", "done"}
    BY <1>2 DEF RequestHTTP, RequestS3, RequestGCS, RequestOCI, Clone, Request, Goto, Return
  <2> QED BY <2>1, <1>t
<1>3. CASE InvalidKey \/ fetchArchive
  <2>1. UNCHANGED <<w, proto, tree>> /\ pc # "done" /\ pc' \in {"archived", "done"}
    BY <1>3 DEF InvalidKey, fetchArchive, request, Goto, Fail, Return
  <2> QED BY <2>1, <1>t
<1>5. CASE ListPage \/ CopyEnd \/ ArchiveEnd
  <2>1. UNCHANGED <<w, proto, tree>> /\ pc # "done" /\ pc' \in {"list", "extract", "done"}
    BY <1>5 DEF ListPage, CopyEnd, ArchiveEnd, request, Downloaded, Goto, Fail, Return
  <2> QED BY <2>1, <1>t
<1>d. ASSUME UNCHANGED <<w, proto>>, pc # "done", pc' \in {"extract", "list", "done"},
             NEW x, x.len \in Nat, NEW p, limited => Saved(x, p, Copy(x.len, max))
      PROVE  FileBudget'
  <2>1. ASSUME limited, proto \in PerFile PROVE Under(tree', max + Slack')
    <3>1. Under(tree, max) /\ max > 0
      BY <1>d, <2>1, <1>g DEF limited
    <3>2. PICK c : c = Copy(x.len, max) /\ c.n \in 0..(max + 1) /\ (c.ok => c.n <= max)
      BY <3>1, <1>d, <1>m, CopyBound
    <3>3. Saved(x, p, c)
      BY <1>d, <2>1, <3>2
    <3> QED BY <3>1, <3>2, <3>3, <1>m, UnderSaved
  <2> QED BY <2>1, <1>d, <1>k
<1>4. CASE Body
  <2> DEFINE p == FilePlace
             c == Copy(Only.len, max)
  <2>1. UNCHANGED <<w, proto>> /\ pc = "body" /\ pc' \in {"extract", "done"}
    BY <1>4 DEF Body, request, Save, Downloaded, Goto, Fail, Return
  <2>2. Only.len \in Nat
    <3>1. OneFile(w, Protocol(w.url))
      BY <2>1, <1>w DEF Placed
    <3> QED BY <3>1, <1>w, OnlyEntry DEF Entry
  <2>3. limited => Saved(Only, p, c)
    <3> HAVE limited
    <3>1. c.n \in 0..c.n
      <4>1. max > 0
        BY DEF limited
      <4>2. PICK d : d = c /\ d.n \in 0..(max + 1)
        BY <4>1, <2>2, <1>m, CopyBound
      <4>3. d.n \in 0..d.n
        BY <4>2, <1>m
      <4> QED BY <4>2, <4>3
    <3> HIDE DEF p
    <3> QED BY <1>4, <3>1 DEF Body, Save, Saved, Downloaded, Fail, Return, p
  <2> HIDE DEF p
  <2> QED BY <2>1, <2>2, <2>3, <1>d
<1>6. CASE GetObject
  <2> DEFINE p == Join(Root, e.name)
             c == Copy(e.len, max)
  <2>1. UNCHANGED <<w, proto>> /\ pc = "list" /\ todo # <<>> /\ pc' \in {"list", "done"}
    BY <1>6 DEF GetObject, request, Save, Skip, Advance, Fail, Return
  <2>2. e.len \in Nat
    BY <2>1, HeadTail DEF Typed, Stream
  <2>3. limited => Saved(e, p, c)
    <3> HAVE limited
    <3>1. c.n \in 0..c.n
      <4>1. max > 0
        BY DEF limited
      <4>2. PICK d : d = c /\ d.n \in 0..(max + 1)
        BY <4>1, <2>2, <1>m, CopyBound
      <4>3. d.n \in 0..d.n
        BY <4>2, <1>m
      <4> QED BY <4>2, <4>3
    <3> HIDE DEF p
    <3> QED BY <1>6, <3>1 DEF GetObject, Save, Saved, Skip, Advance, Fail, Return, p
  <2> HIDE DEF p
  <2> QED BY <2>1, <2>2, <2>3, <1>d
<1>7. CASE Pull
  <2>1. UNCHANGED <<w, proto>> /\ proto = "oci" /\ pc' \in {"extract", "done"}
    BY <1>7 DEF Pull, Placed, request, Downloaded, Goto, Fail, Return
  <2>2. proto \notin PerFile
    BY <2>1 DEF PerFile
  <2> QED BY <2>1, <2>2, <1>z
<1>8. CASE OpenLocal
  <2>1. UNCHANGED <<w, proto>> /\ proto = "file" /\ pc' \in {"extract", "copy", "done"} /\ pc = "request"
    BY <1>8 DEF OpenLocal, request, Save, Downloaded, Goto, Fail, Return
  <2>2. proto \notin PerFile
    BY <2>1 DEF PerFile
  <2>3. limited' = limited
    BY <2>1 DEF limited
  <2> QED BY <2>1, <2>2, <2>3 DEF FileBudget
<1>9. CASE copyDir
  <2>1. UNCHANGED <<w, proto>> /\ pc = "copy" /\ pc' \in {"copy", "done"}
    BY <1>9 DEF copyDir, request, Save, MakeDir, Advance, Fail, Return
  <2>2. proto \notin PerFile
    BY <2>1 DEF PerFile, FileBudget
  <2> QED BY <2>1, <2>2, <1>z
<1>10. CASE HgClone
  <2>1. UNCHANGED <<w, proto>> /\ proto = "hg" /\ pc' \in {"extract", "move", "done"}
    BY <1>10 DEF HgClone, request, Downloaded, Goto, Fail, Return
  <2>2. proto \notin PerFile
    BY <2>1 DEF PerFile
  <2>3. limited' = limited
    BY <2>1 DEF limited
  <2> QED BY <2>1, <2>2, <2>3 DEF FileBudget
<1>11. CASE HgMove
  <2>1. UNCHANGED <<w, proto>> /\ pc = "move" /\ pc' \in {"extract", "done"}
    BY <1>11 DEF HgMove, request, Downloaded, Goto, Fail, Return
  <2>2. proto \notin PerFile
    BY <2>1 DEF PerFile, FileBudget
  <2> QED BY <2>1, <2>2, <1>z
<1>12. CASE extractArchive
  <2>1. UNCHANGED <<w, proto>> /\ pc = "archived" /\ pc' \in {"archived", "done"} /\ proto = "git"
    BY <1>12 DEF extractArchive, request, Save, MakeDir, Skip, Advance, Fail, Return, Typed, Stream
  <2>2. proto \notin PerFile
    BY <2>1 DEF PerFile
  <2> QED BY <2>1, <2>2, <1>z
<1>13. CASE ExtractWithLimit
  <2>1. /\ UNCHANGED <<w, proto, tree>> /\ pc = "extract"
        /\ pc' = "done" \/ (pc' \in {"tar", "zip"} /\ left' = max)
    BY <1>13 DEF ExtractWithLimit, request, Fail, Return, Goto
  <2>2. limited /\ proto \in PerFile => Under(tree', max + Slack')
    BY <2>1, <1>g, <1>n
  <2> QED BY <2>1, <2>2, <1>m, <1>k
<1>14. CASE (untar \/ extractZip) /\ limited
  <2> DEFINE p == Join(Out, e.name)
             c == writeFile(e.len, TRUE, left)
  <2>6. /\ pc \in {"tar", "zip"} /\ UNCHANGED <<w, proto>>
        /\ left \in Nat /\ c.n \in 0..(left + 1) /\ (c.ok => c.n <= left)
        /\ \/ pc' = "done" /\ result' = "err" /\ (tree' = tree \/ Saved(e, p, c))
           \/ pc' = pc /\ left' = left /\ (tree' = tree \/ tree' = MkdirAll(tree, p))
           \/ pc' = pc /\ left' = left - c.n /\ c.ok /\ tree' = Create(tree, p, File(e, c.n))
    BY <1>14, ExtractedEntry
  <2> HIDE DEF p, c
  <2>7. left <= max
    BY <1>14, <2>6 DEF FileBudget
  <2>8. PICK n \in Nat : n = c.n /\ (c.ok => n <= left)
    BY <2>6
  <2>9. pc' \notin {"tar", "zip"} \/ left' <= max
    BY <2>6, <2>7, <2>8, <1>m
  <2>10. ASSUME proto \in PerFile PROVE Under(tree', max + Slack')
    <3>1. Under(tree, max)
      BY <1>14, <2>6, <2>10, <1>g
    <3>2. CASE tree' = tree \/ tree' = MkdirAll(tree, p)
      BY <3>1, <3>2, <1>n, UnderMkdirAll
    <3>3. CASE Saved(e, p, c)
      BY <3>1, <3>3, <2>6, <2>7, <1>m, UnderSaved
    <3>4. CASE c.ok /\ tree' = Create(tree, p, File(e, c.n))
      <4>1. n \in 0..max /\ tree' = Create(tree, p, File(e, n))
        BY <3>4, <2>6, <2>7, <2>8, <1>m
      <4> QED BY <4>1, <3>1, <1>n, UnderCreate
    <3> QED BY <2>6, <3>2, <3>3, <3>4
  <2> QED BY <2>6, <2>9, <2>10, <1>k
<1>15. CASE (untar \/ extractZip) /\ ~limited
  <2>1. pc \in {"tar", "zip"} /\ pc' \in {pc, "done"} /\ UNCHANGED <<w, proto>>
    BY <1>15 DEF untar, extractZip, request, Save, MakeDir, Skip, Spend, Advance, Fail, Return
  <2> QED BY <2>1, <1>15, <1>k
<1>16. CASE Extracted
  <2>1. /\ UNCHANGED <<w, proto>> /\ pc # "done" /\ pc' = "done"
        /\ tree' = Without(tree, Children(tree, Root) \ {Out})
    BY <1>16 DEF Extracted, request, Return
  <2>2. limited /\ proto \in PerFile => Under(tree', max + Slack')
    BY <2>1, <1>g, <1>n, UnderWithout
  <2> QED BY <2>1, <2>2, <1>k
<1> QED
  BY <1>0, <1>1, <1>2, <1>3, <1>4, <1>5, <1>6, <1>7, <1>8, <1>9, <1>10, <1>11, <1>12, <1>13, <1>14, <1>15, <1>16 DEF Next

-----------------------------------------------------------------------------
LEMMA BudgetCorrect == Spec => [](Typed /\ Placed /\ ArchiveInv /\ OutBudget /\ TreeBudget /\ FileBudget)
<1>1. Typed /\ Placed /\ ArchiveInv /\ OutBudget /\ TreeBudget /\ FileBudget /\ [Next]_vars
      => ArchiveInv' /\ OutBudget' /\ TreeBudget' /\ FileBudget'
  BY ArchiveStep, OutBudgetStep, TreeBudgetStep, FileBudgetStep
<1>2. Init => ArchiveInv /\ OutBudget /\ TreeBudget /\ FileBudget
  BY ArchiveInit, OutBudgetInit, TreeBudgetInit, FileBudgetInit
<1> QED BY <1>1, <1>2, PlacedCorrect, PTL DEF Spec

LEMMA KeptMost ==
  ASSUME NEW t, NEW dir, NEW r \in Int, NEW max \in Nat, Kept(t, dir, r, max), NEW extra \in Nat, -r <= extra
  PROVE  Cardinality(BytesIn(t, dir)) <= max + extra
<1>1. IsFiniteSet(BytesIn(t, dir)) /\ Cardinality(BytesIn(t, dir)) + r <= max
  BY DEF Kept
<1>2. Cardinality(BytesIn(t, dir)) \in Nat
  BY <1>1, FS_CardinalityType
<1> QED BY <1>1, <1>2

\* BudgetKept: what an extraction or a platform's archive writes together, and every
\* file of a download, is never more than one byte beyond the limit, and after a
\* success within it (extractor.remaining, extractArchive's remaining, limitio.Copy),
\* for every limit up to the largest integer.
THEOREM BudgetKeptCorrect == Spec => []BudgetKept
<1>1. ASSUME Typed, Placed, ArchiveInv, OutBudget, TreeBudget, FileBudget PROVE BudgetKept
  <2> DEFINE max == w.s.maxBytes
             extra == IF result = "ok" THEN 0 ELSE 1
  <2>1. max \in Nat
    <3>1. max \in 0..MaxInt
      BY <1>1, WorldTypes DEF Settings, Typed, Chosen
    <3> QED BY <3>1, MaxIntAssumption
  <2>2. PICK k \in {0, 1} : k = Slack /\ k <= extra
    BY DEF Slack
  <2>3. extra \in Nat
    OBVIOUS
  <2>4. ASSUME NEW dir, Clear(tree, dir) PROVE Cardinality(BytesIn(tree, dir)) <= max + extra
    <3>1. Cardinality(BytesIn(tree, dir)) = 0
      BY <2>4, ClearBytes
    <3> QED BY <3>1, <2>1, <2>3
  <2>5. ASSUME NEW dir, Kept(tree, dir, -Slack, max) PROVE Cardinality(BytesIn(tree, dir)) <= max + extra
    <3>1. -k \in Int /\ -(-k) <= extra /\ Kept(tree, dir, -k, max)
      BY <2>2, <2>3, <2>5
    <3> HIDE DEF max, extra
    <3> QED BY <3>1, <2>1, <2>3, KeptMost
  <2>6. ASSUME NEW dir, NEW r \in Nat, Kept(tree, dir, r, max) PROVE Cardinality(BytesIn(tree, dir)) <= max + extra
    <3>1. r \in Int /\ -r <= extra
      BY <2>3
    <3> HIDE DEF max, extra
    <3> QED BY <3>1, <2>1, <2>3, <2>6, KeptMost
  <2> SUFFICES ASSUME limited
               PROVE  /\ Budgeted => Cardinality(BytesIn(tree, Out)) <= max + extra
                      /\ proto = "git" => Cardinality(BytesIn(tree, Root)) <= max + extra
                      /\ proto \in PerFile => \A p \in Files(tree) : tree[p].n <= max + extra
    BY DEF BudgetKept, Budgeted, PerFile
  <2>7. left \in Nat
    BY <1>1 DEF Typed, Stream
  <2> HIDE DEF max, extra
  <2>8. ASSUME Budgeted PROVE Cardinality(BytesIn(tree, Out)) <= max + extra
    <3>1. pc \in Extracting
      BY <1>1, <2>8 DEF OutBudget, Budgeted, Unpacks
    <3>2. CASE pc = "extract"
      BY <1>1, <2>4, <2>8, <3>2 DEF OutBudget
    <3>3. CASE pc \in {"tar", "zip"}
      <4>1. Kept(tree, Out, left, max)
        BY <1>1, <2>8, <3>3 DEF OutBudget, max
      <4> QED BY <4>1, <2>6, <2>7
    <3>4. CASE pc = "done"
      <4>1. Kept(tree, Out, -Slack, max)
        BY <1>1, <2>8, <3>4 DEF OutBudget, max
      <4> QED BY <4>1, <2>5
    <3> QED BY <3>1, <3>2, <3>3, <3>4 DEF Extracting
  <2>9. ASSUME proto = "git" PROVE Cardinality(BytesIn(tree, Root)) <= max + extra
    <3>1. pc \in GitStages
      BY <1>1, <2>9 DEF ArchiveInv
    <3>2. CASE pc \in {"request", "archive"}
      BY <1>1, <2>4, <2>9, <3>2, FreshClear DEF ArchiveInv
    <3>3. CASE pc = "archived"
      <4>1. Kept(tree, Root, left, max)
        BY <1>1, <2>9, <3>3 DEF TreeBudget, max
      <4> QED BY <4>1, <2>6, <2>7
    <3>4. CASE pc = "extract"
      <4>1. Kept(tree, Root, 0, max)
        BY <1>1, <2>9, <3>4 DEF TreeBudget, max
      <4> QED BY <4>1, <2>6
    <3>5. CASE pc = "done"
      <4>1. Kept(tree, Root, -Slack, max)
        BY <1>1, <2>9, <3>5 DEF TreeBudget, max
      <4> QED BY <4>1, <2>5
    <3> QED BY <3>1, <3>2, <3>3, <3>4, <3>5 DEF GitStages
  <2>10. ASSUME proto \in PerFile, NEW p \in Files(tree) PROVE tree[p].n <= max + extra
    <3>1. tree[p].n \in 0..(max + k)
      BY <1>1, <2>2, <2>10 DEF FileBudget, Under, max
    <3> QED BY <3>1, <2>1, <2>2, <2>3
  <2> QED BY <2>8, <2>9, <2>10
<1> QED BY <1>1, BudgetCorrect, PTL

=============================================================================
