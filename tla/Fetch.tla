-------------------------------- MODULE Fetch --------------------------------
(***************************************************************************)
(* One call of Grabber.download and the extraction that follows it: the    *)
(* protocol is chosen, secrets are chosen and sent, and entries arrive one *)
(* by one and are written below the staging directory.  Composes Dispatch, *)
(* Credentials, Staging and Cone.  The git protocol's clones are the       *)
(* module GitDownload; here they only offer their credentials and fail,    *)
(* for a ref that is a commit hash, so that the hosting platform's archive *)
(* comes into play.                                                        *)
(***************************************************************************)
EXTENDS Credentials, Cone

CONSTANTS
  Worlds,    \* the requests and remotes to consider, in families; see below
  MaxFaults  \* bound: operations that fail although nothing is wrong

(***************************************************************************)
(* A world is what is fixed during the call.                               *)
(*   url, s    the URL, and the settings (see Credentials), with           *)
(*             maxBytes, auto (EnableAutoExtract) and allowed, the local   *)
(*             directories that may be copied                              *)
(*   pages     what the source holds in the order it arrives: the pages of *)
(*             a listing, or one page with the object, the response, the   *)
(*             repository, the archive or the local tree.  An entry has a  *)
(*             name (its segments, below the prefix of a listing), a kind, *)
(*             a length and an identity                                    *)
(*   inner     the entries of the one file, if that is an archive          *)
(*   ext       the extension of the one file of a registry                 *)
(*   subdir    the subdirectory requested of a repository                  *)
(*   local     the local path; at: what is there, a "dir", a "file", a     *)
(*             "link" to a directory, or "nothing"; links: the symbolic    *)
(*             links among local paths, or in a clone of hg's, with the    *)
(*             places they lead to                                         *)
(*   outside   what a subdirectory of hg's that leads out of the clone     *)
(*             comes to, if it comes to a directory                        *)
(*   media     of the OCI descriptor: an image "manifest", or a "blob"     *)
(*   refused   the checks before hg refuse its host, or there is no hg     *)
(***************************************************************************)
Entry == [name : Seq(STRING), kind : {"file", "dir", "link", "pax"}, len : Nat, id : Nat]

URL == [force : Protocols \cup {"none"}, form : {"scheme", "bare", "scp", "rooted", "dot"}, scheme : STRING, user : STRING,
        pass : BOOLEAN, host : Seq(STRING), path : Seq(STRING), archive : {"none", "empty", "bool", "named"}, format : Seq(STRING)]

ForAHost == [host : Seq(STRING)]
Settings ==
  [https : Seq([host : Seq(STRING), user : STRING, path : Seq(STRING)]),
   oci : Seq([host : Seq(STRING), blank : BOOLEAN]), keys : Seq(ForAHost), certs : Seq(ForAHost),
   proxies : Seq(ForAHost), request : {"none", "declines", "answers"}, netrc : BOOLEAN,
   machines : Seq([host : Seq(STRING), login : BOOLEAN, password : BOOLEAN]), aws : BOOLEAN,
   gcp : {"none", "key", "invalid"}, endpoint : BOOLEAN, ambient : SUBSET {"cloud", "helper", "agent", "token"},
   noAmbient : BOOLEAN, noSystem : BOOLEAN, sshToHTTPS : BOOLEAN,
   maxBytes : 0..MaxInt, auto : BOOLEAN, allowed : SUBSET Seq(STRING)]

\* Segments that stay, and those that lead nowhere further; a name without some.
Still == {"", "."}
Dots == Still \cup {".."}
Avoids(name, segs) == \A k \in DOMAIN name : name[k] \notin segs

\* What a platform serves of a commit: below one directory, a file once, and headers.
PlatformArchive(xs) ==
  LET members == {i \in DOMAIN xs : xs[i].kind # "pax"}
  IN  /\ \A i \in members : xs[i].name # <<>> /\ (xs[i].kind = "dir" \/ Len(xs[i].name) > 1)
      /\ \A i, j \in members : /\ Head(xs[i].name) = Head(xs[j].name)
                               /\ xs[i].name = xs[j].name /\ "dir" \notin {xs[i].kind, xs[j].kind} => i = j
      /\ \A i \in members : Avoids(xs[i].name, Still)

\* What a local directory, a repository or an artifact holds: names of its own below
\* it, and below a name that is not a directory's nothing.
TreeLike(xs) ==
  \A i \in DOMAIN xs :
    /\ xs[i].kind # "pax" /\ Avoids(xs[i].name, Dots)
    /\ xs[i].kind # "dir" => xs[i].name # <<>> /\ \A j \in DOMAIN xs : IsPrefix(xs[i].name, xs[j].name) => i = j

Store(u, p) == IF p = "s3" THEN parseS3URL(u, u.force = "s3") ELSE parseGCSURL(u, u.force = "gcs")

\* A key that is empty or ends in a slash is a listing.
Listing(u, p) == Store(u, p).key = <<>> \/ Ends(Store(u, p).key, "/")

Extension(x, p) ==
  CASE p = "http" -> Last(Last(Segments(fileName(x.url))))
    [] p \in {"s3", "gcs"} -> Last(Store(x.url, p).key)
    [] p = "oci" -> x.ext
    [] OTHER -> Last(x.url.path)

IsArchive(x, p) == extractors(Extension(x, p)) \in {"tar", "zip"}

\* A source that is one file, and the names that files of a source have.
OneFile(x, p) ==
  p = "http" \/ (p \in {"s3", "gcs"} /\ ~Listing(x.url, p)) \/ (p = "file" /\ x.at = "file")
FileNames(x) == {Last(n) : n \in ({x.local} \cup {y.name : y \in ToSet(x.pages[1])}) \ {<<>>}}

\* The name of the one file of an HTTP response spells the one of its URL.  One with
\* a dot segment at its end is there only if it leads to the staging directory or out.
Spells(name, u) ==
  LET segs == Segments(fileName(u))
  IN  /\ Len(name) = Len(segs)
      /\ \A k \in DOMAIN segs : name[k] # "" /\ \A d \in {".", ".."} : name[k] = d <=> segs[k] = <<d>>
      /\ Last(name) \in Dots => IsPrefix(Clean(Root \o name), Root)

\* One segment further, and on where a link leads.
Onward(links, dir, seg) ==
  LET q == Append(dir, seg) IN IF q \in DOMAIN links THEN links[q] ELSE q

\* A local path with the links on it followed.
Follow(links, path) ==
  LET at[n \in 0..Len(path)] == IF n = 0 THEN <<>> ELSE Onward(links, at[n - 1], path[n])
  IN  at[Len(path)]

\* Where a walk of a local directory comes: to a link, but to nothing behind it.
Walked(x) ==
  \A y \in ToSet(x.pages[1]) : y.kind \notin {"dir", "link"} =>
    \A n \in 1..Len(y.name) : Follow(x.links, x.local) \o SubSeq(y.name, 1, n) \notin DOMAIN x.links

\* Names that are not the source's own, in the staging directory: hg's clone, the
\* directory an archive is extracted to, what oras leaves, and that of a file without
\* one.
OwnNames == {"_clone", "_extracted", "oci-layout", "index.json", "blobs", "download"}

ASSUME OwnNamesAssumption == OwnNames \subseteq STRING
ASSUME MaxFaultsAssumption == MaxFaults \in Nat
ASSUME WorldsAssumption ==
  \A f \in DOMAIN Worlds : \A x \in Worlds[f] :
    /\ x.url \in URL /\ x.s \in Settings
    /\ Len(x.pages) > 0 /\ x.pages \in Seq(Seq(Entry)) /\ x.inner \in Seq(Entry)
    /\ x.subdir \in Seq(STRING) /\ x.local \in Seq(STRING)
    /\ \A q \in DOMAIN x.links : x.links[q] \in Seq(STRING)
    /\ x.outside \in Seq(Entry) /\ TreeLike(x.outside)
    /\ x.at \in {"dir", "file", "link", "nothing"} /\ x.media \in {"manifest", "blob"}
    /\ LET p == Protocol(x.url)
       IN  /\ OneFile(x, p) => /\ Len(x.pages[1]) = 1
                               /\ x.pages[1][1].kind = "file" /\ x.pages[1][1].name # <<>>
           /\ IF p \in {"s3", "gcs"} /\ Listing(x.url, p)
              THEN \A k \in DOMAIN x.pages : \A y \in ToSet(x.pages[k]) : y.kind \in {"file", "dir"}
              ELSE Len(x.pages) = 1
           /\ p = "http" => Spells(x.pages[1][1].name, x.url)
           /\ p = "hg" => \A q \in DOMAIN x.links : \E y \in ToSet(x.pages[1]) :
                            y.kind = "link" /\ q = Append(Root, "_clone") \o y.name
           /\ p = "file" /\ x.at = "file" => x.local # <<>> /\ Last(x.pages[1][1].name) = Last(x.local)
           /\ p = "file" /\ x.at = "dir" => Walked(x)
           /\ (p = "file" /\ x.at = "dir") \/ p \in {"hg", "oci"} => TreeLike(x.pages[1])
           /\ OneFile(x, p) \/ p = "oci" => "_extracted" \notin FileNames(x) \/ ~IsArchive(x, p)
           /\ p = "oci" => \A y \in ToSet(x.pages[1]) : y.name # <<>> /\ (y.kind = "link" => Len(y.name) > 1)
    /\ Protocol(x.url) = "git" => PlatformArchive(x.pages[1])
    /\ Protocol(x.url) \in {"git", "hg"} => (x.subdir = <<>> <=> splitSubdir(x.url.path) = <<>>)

VARIABLES
  w,       \* the world
  pc,      \* the step the call is at
  proto,   \* the protocol that took the URL
  sent,    \* the secrets that were sent
  page,    \* the page of the listing being read
  todo,    \* the entries of it, or of the archive, still to come
  left,    \* extractor.remaining, or extractArchive's
  top,     \* extractArchive: the directory that wraps the archive
  found,   \* extractArchive: something of the subdirectory was there
  tree,    \* the staging directory and what is in it
  isFile,  \* what Download returned
  faults,  \* failures so far
  result   \* "none", "ok", or "err"

stream == <<page, todo, left, top, found>>
request == <<w, proto, sent>>
vars == <<request, pc, stream, tree, isFile, faults, result>>

Init ==
  /\ \E f \in DOMAIN Worlds : w \in Worlds[f]
  /\ pc = "detect" /\ proto = "none" /\ sent = {}
  /\ page = 0 /\ todo = <<>> /\ left = 0 /\ top = <<>> /\ found = FALSE
  /\ tree = Fresh /\ isFile = FALSE /\ faults = 0 /\ result = "none"

Return(r) == pc' = "done" /\ result' = r
Goto(label) == pc' = label /\ UNCHANGED result
Fail == Return("err") /\ UNCHANGED <<stream, isFile>>
Faulty == faults < MaxFaults /\ faults' = faults + 1

\* The download returns without error: extraction is next.
Downloaded(file) == isFile' = file /\ Goto("extract") /\ UNCHANGED stream

e == Head(todo)
limited == w.s.maxBytes > 0
Only == w.pages[1][1]      \* the entry of a source that is one file
Advance == todo' = Tail(todo) /\ UNCHANGED <<pc, result, page, top, isFile>>
Skip == Advance /\ UNCHANGED <<left, found, tree, faults>>

\* Entry x is written to p: all of it, or what the limit allows, or what came before
\* the stream broke off.
Save(x, p, copy, Then) ==
  IF CanCreate(tree, p)
  THEN \/ /\ tree' = Create(tree, p, File(x, copy.n)) /\ UNCHANGED faults
          /\ IF copy.ok THEN Then ELSE Fail
       \/ /\ Faulty /\ Fail
          /\ \E n \in 0..copy.n : tree' = Create(tree, p, File(x, n))
  ELSE Fail /\ UNCHANGED <<tree, faults>>

MakeDir(p, Then) ==
  /\ UNCHANGED faults
  /\ IF CanMkdirAll(tree, p) THEN tree' = MkdirAll(tree, p) /\ Then ELSE Fail /\ UNCHANGED tree

-----------------------------------------------------------------------------
(***************************************************************************)
(* Choosing, and the requests.                                             *)
(***************************************************************************)
Detect ==
  /\ pc = "detect"
  /\ proto' = Protocol(w.url)
  /\ IF proto' = "none" THEN Return("err") ELSE Goto("request")
  /\ UNCHANGED <<w, sent, stream, tree, isFile, faults>>

\* The endpoint a client of an object store talks to.
Endpoint == IF Store(w.url, proto).custom \/ (proto = "gcs" /\ w.s.endpoint) THEN "custom" ELSE "provider"

\* The request is sent with its secrets; it may fail, be refused or time out.
Request(p, secrets, label) ==
  /\ pc = "request" /\ proto = p
  /\ sent' = sent \cup secrets
  /\ \/ Goto(label) /\ UNCHANGED faults
     \/ Faulty /\ Return("err")
  /\ UNCHANGED <<w, proto, stream, tree, isFile>>

RequestHTTP ==
  LET u == WithScheme(w.url)
  IN  Request("http", HTTPCredential(w.s, u) \cup TransportFor(w.s, u.host), "body")

RequestS3 == Request("s3", S3Client(w.s, Endpoint), IF Listing(w.url, proto) THEN "list" ELSE "body")

RequestGCS ==
  /\ w.s.gcp # "invalid"
  /\ Request("gcs", authOption(w.s, Endpoint), IF Listing(w.url, proto) THEN "list" ELSE "body")

InvalidKey ==
  /\ pc = "request" /\ proto = "gcs" /\ w.s.gcp = "invalid"
  /\ Fail
  /\ UNCHANGED <<request, tree, faults>>

RequestOCI ==
  LET u == WithScheme(w.url)
  IN  Request("oci", OCICredential(w.s, u) \cup TransportFor(w.s, u.host), "pull")

\* The repository's URL, which has no subdirectory.
Repo == [WithScheme(w.url) EXCEPT !.path = RepoPath(w.url.path)]

\* The chain of clones goes through the candidate URLs, offers each the first so
\* many of its credentials, and ends in a failure.
Clone ==
  LET urls  == cloneCandidates(w.s, Repo)
      Chain(c) == authCandidates(w.s, urls[c])
      Transport(c) == IF SSH(urls[c]) THEN {} ELSE TransportFor(w.s, urls[c].host)
  IN  \E last \in DOMAIN urls :
        \E n \in [1..last -> UNION {0..Len(Chain(c)) : c \in 1..last}] :
          /\ \A c \in 1..last : n[c] <= Len(Chain(c))
          /\ Request("git", UNION {ToSet(SubSeq(Chain(c), 1, n[c])) \cup Transport(c) : c \in 1..last}, "archive")

\* The platform's archive is asked for, and its entries begin to come.
fetchArchive ==
  LET u == sshToHTTPS(Repo)
  IN  /\ pc = "archive"
      /\ IF archiveURL(u) = NoHost
         THEN Fail /\ UNCHANGED <<sent, faults>>
         ELSE /\ sent' = sent \cup archiveCredentials(w.s, u) \cup TransportFor(w.s, archiveURL(u))
              /\ \/ /\ Goto("archived") /\ todo' = w.pages[1] /\ left' = w.s.maxBytes
                    /\ UNCHANGED <<faults, page, top, found, isFile>>
                 \/ Faulty /\ Fail
      /\ UNCHANGED <<w, proto, tree>>

-----------------------------------------------------------------------------
(***************************************************************************)
(* HTTP, S3 and GCS.  The limit is that of every file, not of a listing.   *)
(***************************************************************************)
\* Where the one file of a source is written.  Of HTTP's name all segments count,
\* and nothing keeps the place in the staging directory.
FilePlace ==
  CASE proto = "http" -> Clean(Root \o Only.name)
    [] proto = "file" -> Append(Root, Last(Only.name))
    [] OTHER          -> Clean(Append(Root, Last(Only.name)))
Aside == OneFile(w, proto) /\ Front(FilePlace) # Root

\* os.Create makes no directory.
Body ==
  /\ pc = "body"
  /\ IF IsDir(tree, Front(FilePlace))
     THEN Save(Only, FilePlace, Copy(Only.len, w.s.maxBytes), Downloaded(TRUE))
     ELSE Fail /\ UNCHANGED <<tree, faults>>
  /\ UNCHANGED request

\* Fault: the token of the next page is not kept, so the first one comes again.
NextPage_NoToken(k) == 1

NextPage(k) == k + 1

ListPage ==
  /\ pc = "list" /\ todo = <<>>
  /\ \/ /\ page < Len(w.pages)
        /\ page' = NextPage(page) /\ todo' = w.pages[page']
        /\ UNCHANGED <<pc, result, left, top, found, isFile, faults>>
     \/ page < Len(w.pages) /\ Faulty /\ Fail
     \/ page = Len(w.pages) /\ Downloaded(FALSE) /\ UNCHANGED faults
  /\ UNCHANGED <<request, tree>>

\* The markers of directories are skipped.
GetObject ==
  LET p == Join(Root, e.name)
  IN  /\ pc = "list" /\ todo # <<>>
      /\ CASE e.kind = "dir" -> Skip
           [] e.kind # "dir" /\ p = Escapes -> Fail /\ UNCHANGED <<tree, faults>>
           [] OTHER -> Save(e, p, Copy(e.len, w.s.maxBytes), Advance /\ UNCHANGED <<left, found>>)
      /\ UNCHANGED request

-----------------------------------------------------------------------------
(***************************************************************************)
(* OCI.                                                                    *)
(***************************************************************************)
Children(t, p) == {q \in DOMAIN t : q # <<>> /\ q # p /\ Front(q) = p}

\* What the library and hg write: a directory, and the entries below it.
Node(x) == CASE x.kind = "dir" -> Dir [] x.kind = "link" -> Link(x) [] OTHER -> File(x, x.len)
Plant(t, dir, entries) ==
  LET made == Prefixes(dir) \cup UNION {Prefixes(dir \o entries[i].name) : i \in DOMAIN entries}
      At(q) == {i \in DOMAIN entries : entries[i].kind # "dir" /\ dir \o entries[i].name = q}
  IN  [q \in DOMAIN t \cup made |->
         CASE At(q) # {} -> Node(entries[Max(At(q))])
           [] At(q) = {} /\ q \in DOMAIN t -> t[q]
           [] OTHER -> Dir]

Without(t, gone) == [q \in DOMAIN t \ gone |-> t[q]]

\* Fault: one directory is taken for one file.
PulledFile_AnyEntry(t, media) == media # "manifest" \/ Cardinality(Children(t, Root)) = 1

PulledFile(t, media) ==
  media # "manifest" \/ (Cardinality(Children(t, Root)) = 1 /\ ~\E p \in Children(t, Root) : IsDir(t, p))

\* The names are removed, whether oras made them or the artifact has them, unless
\* a directory of that name has something in it.
cleanupOrasMetadata(t) ==
  Without(t, {p \in {Append(Root, "oci-layout"), Append(Root, "index.json")} : Children(t, p) = {}}
             \cup {p \in {Append(Root, "blobs")} : IsDir(t, p) /\ Children(t, p) = {}})

Pull ==
  LET pulled == Plant(tree, Root, w.pages[1])
  IN  /\ pc = "pull"
      /\ \/ /\ Downloaded(PulledFile(pulled, w.media))
            /\ tree' = cleanupOrasMetadata(pulled) /\ UNCHANGED faults
         \/ Faulty /\ Fail /\ UNCHANGED tree
      /\ UNCHANGED request

-----------------------------------------------------------------------------
(***************************************************************************)
(* Local paths.  Nothing limits their bytes.                               *)
(***************************************************************************)
resolvePath(path) == Follow(w.links, path)

\* Fault: the paths are compared as they are written.
checkAllowed_Lexical(path, allowed) == allowed = {} \/ \E dir \in allowed : IsPrefix(dir, path)

checkAllowed(path, allowed) ==
  allowed = {} \/ \E dir \in allowed : IsPrefix(resolvePath(dir), resolvePath(path))

\* A directory is walked.  The walk takes a link for what it is, though: the staging
\* directory is removed and the link made in its place.
OpenLocal ==
  LET allowed == checkAllowed(w.local, w.s.allowed)
  IN  /\ pc = "request" /\ proto = "file"
      /\ \/ /\ ~allowed \/ w.at = "nothing"
            /\ Fail /\ UNCHANGED <<tree, faults>>
         \/ /\ allowed /\ w.at = "dir"
            /\ Goto("copy") /\ todo' = w.pages[1]
            /\ UNCHANGED <<page, left, top, found, isFile, tree, faults>>
         \/ /\ allowed /\ w.at = "link"
            /\ tree' = Put(tree, Root, Link(Only)) /\ Downloaded(FALSE) /\ UNCHANGED faults
         \/ /\ allowed /\ w.at = "file"
            /\ Save(Only, Append(Root, Last(w.local)), Copy(Only.len, 0), Downloaded(TRUE))
      /\ UNCHANGED request

copyDir ==
  /\ pc = "copy" /\ todo # <<>>
  /\ LET p == Root \o e.name
         Next1 == Advance /\ UNCHANGED <<left, found>>
     IN  CASE e.kind = "dir"  -> MakeDir(p, Next1)
           [] e.kind = "link" -> tree' = Create(tree, p, Link(e)) /\ Next1 /\ UNCHANGED faults
           [] OTHER           -> Save(e, p, Copy(e.len, 0), Next1)
  /\ UNCHANGED request

CopyEnd ==
  /\ pc = "copy" /\ todo = <<>>
  /\ Downloaded(FALSE)
  /\ UNCHANGED <<request, tree, faults>>

-----------------------------------------------------------------------------
(***************************************************************************)
(* Mercurial.                                                              *)
(***************************************************************************)
CloneDir == IF w.subdir = <<>> THEN Root ELSE Append(Root, "_clone")

HgClone ==
  /\ pc = "request" /\ proto = "hg"
  /\ \/ (w.s.noSystem \/ w.refused) /\ Fail /\ UNCHANGED <<tree, faults>>
     \/ /\ ~(w.s.noSystem \/ w.refused) /\ UNCHANGED faults
        /\ tree' = Plant(tree, CloneDir, w.pages[1])
        /\ IF w.subdir = <<>> THEN Downloaded(FALSE) ELSE Goto("move") /\ UNCHANGED <<stream, isFile>>
     \/ ~(w.s.noSystem \/ w.refused) /\ Faulty /\ Fail /\ UNCHANGED tree
  /\ UNCHANGED request

\* The directory whose children are moved: the path is cleaned, and its links are
\* followed, so it may be any directory of the clone, or none of it at all.
srcDir == IF w.subdir = <<>> THEN Root ELSE Follow(w.links, Clean(CloneDir \o w.subdir))
Astray == proto = "hg" /\ ~IsPrefix(CloneDir, srcDir)
Subdirectory == SubSeq(srcDir, Len(CloneDir) + 1, Len(srcDir))

\* What lies outside can be moved in, but not the staging directory into itself, nor
\* the clone onto itself.
OutsideMoves ==
  /\ ~IsPrefix(srcDir, Root) /\ ~IsPrefix(Root, srcDir)
  /\ w.outside # <<>> /\ \A x \in ToSet(w.outside) : ~IsPrefix(<<"_clone">>, x.name)

\* The children of the directory replace the clone, which one with the name of the
\* clone's own directory cannot.
HgMove ==
  LET src   == srcDir
      moved == {q \in DOMAIN tree : IsStrictPrefix(src, q)}
      To(q) == Root \o SubSeq(q, Len(src) + 1, Len(q))
      old(p) == CHOOSE q \in moved : To(q) = p
  IN  /\ pc = "move"
      /\ CASE ~Astray /\ IsDir(tree, src) /\ (\A q \in moved : To(q) # CloneDir) ->
                /\ tree' = [p \in DOMAIN Fresh \cup {To(q) : q \in moved} |->
                              IF p \in DOMAIN Fresh THEN Dir ELSE tree[old(p)]]
                /\ Downloaded(FALSE)
           [] Astray /\ OutsideMoves -> tree' = Plant(Fresh, Root, w.outside) /\ Downloaded(FALSE)
           [] OTHER -> Fail /\ UNCHANGED tree
      /\ UNCHANGED <<request, faults>>

-----------------------------------------------------------------------------
(***************************************************************************)
(* The archive of a hosting platform.                                      *)
(***************************************************************************)
\* A link has no bytes of its own in a tar stream, and becomes an empty file.
Bytes(x) == IF x.kind = "link" THEN 0 ELSE x.len

extractArchive ==
  LET wrap   == IF top = <<>> THEN <<Head(e.name)>> ELSE top
      rel    == StripTop(e, wrap)
      cone   == archiveSelects(rel, w.subdir, e.kind = "dir")
      copy   == writeArchiveFile(Bytes(e), limited, left)
      Next1(n) == /\ todo' = Tail(todo) /\ left' = left - n
                  /\ top' = wrap /\ found' = (found \/ (rel # <<>> /\ cone.under))
                  /\ UNCHANGED <<pc, result, page, isFile>>
  IN  /\ pc = "archived" /\ todo # <<>>
      /\ CASE e.kind = "pax" -> Skip
           [] e.kind # "pax" /\ containsDotDot(e.name) -> Fail /\ UNCHANGED <<tree, faults>>
           [] e.kind # "pax" /\ ~containsDotDot(e.name) /\ (rel = <<>> \/ ~cone.selected) ->
                Next1(0) /\ UNCHANGED <<tree, faults>>
           [] e.kind = "dir" /\ ~containsDotDot(e.name) /\ rel # <<>> /\ cone.selected ->
                MakeDir(Root \o rel, Next1(0))
           [] OTHER -> Save(e, Root \o rel, copy, Next1(copy.n))
      /\ UNCHANGED request

ArchiveEnd ==
  /\ pc = "archived" /\ todo = <<>>
  /\ IF w.subdir # <<>> /\ ~found THEN Fail ELSE Downloaded(FALSE)
  /\ UNCHANGED <<request, tree, faults>>

-----------------------------------------------------------------------------
(***************************************************************************)
(* Extraction of the one file.                                             *)
(***************************************************************************)
Out == Append(Root, "_extracted")

ExtractWithLimit ==
  LET format == extractors(Extension(w, proto))
  IN  /\ pc = "extract"
      /\ CASE ~isFile \/ ~w.s.auto -> Return("ok") /\ UNCHANGED <<stream, isFile>>
           [] isFile /\ w.s.auto /\ Cardinality(Children(tree, Root)) # 1 -> Fail
           [] OTHER ->
                \/ format = "plain" /\ Return("ok") /\ UNCHANGED <<stream, isFile>>
                   \* one compressed file is written into a directory that nobody makes
                \/ format = "single" /\ ~IsDir(tree, Out) /\ Fail
                   \* a directory cannot be read as an archive
                \/ format \in {"tar", "zip"} /\ Children(tree, Root) \cap Files(tree) = {} /\ Fail
                \/ /\ format \in {"tar", "zip"} /\ Children(tree, Root) \subseteq Files(tree) /\ Goto(format)
                   /\ todo' = w.inner /\ left' = w.s.maxBytes
                   /\ UNCHANGED <<page, top, found, isFile>>
      /\ UNCHANGED <<request, tree, faults>>

Spend(n) == Advance /\ left' = (IF limited THEN left - n ELSE left) /\ UNCHANGED found

\* Of a tar stream only directories and files are extracted.
untar ==
  LET p == Join(Out, e.name)
      copy == writeFile(e.len, limited, left)
  IN  /\ pc = "tar" /\ todo # <<>>
      /\ CASE p = Escapes -> Fail /\ UNCHANGED <<tree, faults>>
           [] p # Escapes /\ e.kind = "dir"  -> MakeDir(p, Spend(0))
           [] p # Escapes /\ e.kind = "file" -> Save(e, p, copy, Spend(copy.n))
           [] OTHER -> Skip
      /\ UNCHANGED request

\* Of a zip file everything else becomes a file.
extractZip ==
  LET p == Join(Out, e.name)
      copy == writeFile(e.len, limited, left)
  IN  /\ pc = "zip" /\ todo # <<>>
      /\ CASE p = Escapes -> Fail /\ UNCHANGED <<tree, faults>>
           [] p # Escapes /\ e.kind = "dir" -> MakeDir(p, Spend(0))
           [] OTHER -> Save(e, p, copy, Spend(copy.n))
      /\ UNCHANGED request

\* The archive is removed; what was extracted is delivered.
Extracted ==
  /\ pc \in {"tar", "zip"} /\ todo = <<>>
  /\ tree' = Without(tree, Children(tree, Root) \ {Out})
  /\ Return("ok")
  /\ UNCHANGED <<request, stream, isFile, faults>>

-----------------------------------------------------------------------------
Done == pc = "done" /\ UNCHANGED vars

Next ==
  \/ Detect
  \/ RequestHTTP \/ RequestS3 \/ RequestGCS \/ InvalidKey \/ RequestOCI \/ Clone \/ fetchArchive
  \/ Body \/ ListPage \/ GetObject \/ Pull
  \/ OpenLocal \/ copyDir \/ CopyEnd
  \/ HgClone \/ HgMove
  \/ extractArchive \/ ArchiveEnd
  \/ ExtractWithLimit \/ untar \/ extractZip \/ Extracted
  \/ Done

Spec == Init /\ [][Next]_vars

-----------------------------------------------------------------------------
(***************************************************************************)
(* What was asked for, in terms of the source alone.                       *)
(***************************************************************************)
Unpacks == isFile /\ w.s.auto /\ IsArchive(w, proto)
Delivered == IF Unpacks THEN Out ELSE Root
Arrives == IF Unpacks THEN w.inner ELSE FlattenSeq(w.pages)

\* The entries of the platform's archive as those of the commit.
Commit == {[x EXCEPT !.name = Tail(x.name)] : x \in {y \in ToSet(w.pages[1]) : y.kind # "pax"}}

\* The entries that git would write: all, or those of the cone, unless it refuses.
ByGit ==
  IF w.subdir = <<>> THEN {x \in Commit : materialisable(x.kind)}
  ELSE sparseEntries(Commit, w.subdir).entries
GitRefuses == w.subdir # <<>> /\ ~sparseEntries(Commit, w.subdir).ok

OrasNames == {<<"index.json">>, <<"oci-layout">>}

\* The entries that are to become files.  A zip file has nothing but files and
\* directories; the names of oras's own files are lost to an artifact.
Wanted(x) ==
  CASE Unpacks /\ extractors(Extension(w, proto)) = "zip" -> x.kind # "dir"
    [] ~Unpacks /\ proto = "hg"  -> x.kind = "file" /\ IsStrictPrefix(Subdirectory, x.name)
    [] ~Unpacks /\ proto = "oci" -> x.kind = "file" /\ x.name \notin OrasNames
    [] OTHER -> x.kind = "file"

Place(x) ==
  CASE Unpacks                     -> Clean(Out \o x.name)
    [] ~Unpacks /\ proto # "oci" /\ isFile -> FilePlace
    [] ~isFile /\ proto = "hg"     -> Root \o SubSeq(x.name, Len(Subdirectory) + 1, Len(x.name))
    [] OTHER                       -> Clean(Root \o x.name)

WantedOf(xs) == {i \in DOMAIN xs : Wanted(xs[i])}

\* The bytes of the entries at the indices in S.
BytesOf(xs, S) == UNION {{i} \X (1..xs[i].len) : i \in S}

-----------------------------------------------------------------------------
(***************************************************************************)
(* Properties of what is written.                                          *)
(***************************************************************************)
\* Every variable has a value of its type.
TypeOK ==
  /\ w.s.maxBytes \in 0..MaxInt /\ w.inner \in Seq(Entry)
  /\ pc \in {"detect", "request", "archive", "archived", "body", "list", "pull", "copy", "move",
             "extract", "tar", "zip", "done"}
  /\ proto \in Protocols \cup {"none"}
  /\ \A x \in sent : x.source \in SecretSources
  /\ page \in 0..Len(w.pages) /\ todo \in Seq(Entry)
  /\ left \in Int /\ (limited => left >= 0)
  /\ top \in Seq(STRING) /\ found \in BOOLEAN
  /\ \A p \in DOMAIN tree : tree[p].kind \in {"dir", "file", "link"}
  /\ isFile \in BOOLEAN /\ faults \in 0..MaxFaults /\ result \in {"none", "ok", "err"}

\* A source that arrived in pieces is delivered whole or not at all: after a
\* success every file that was wanted is there with all its bytes, the last of
\* several with one name, and there is nothing else.  Several steps write it
\* (downloadDir, untar, extractZip, copyDir, hg's move) and any can stop short.
\* A limit of MaxInt is left out: one more than that wraps, and limitio.Copy and
\* writeFile then read nothing.  So are a file that HTTP writes beside the staging
\* directory and a subdirectory that leads out of hg's clone: Grab delivers nothing
\* then, or what was moved in from there.
WholeOrRefused ==
  result = "ok" /\ proto # "git" /\ w.at # "link" /\ w.s.maxBytes < MaxInt /\ ~Aside /\ ~Astray =>
    LET xs == Arrives
    IN  /\ {p \in Files(tree) : IsPrefix(Delivered, p)} = {Place(xs[i]) : i \in WantedOf(xs)}
        /\ \A i \in WantedOf(xs) :
             (\A j \in WantedOf(xs) : j > i => Place(xs[j]) # Place(xs[i])) =>
               tree[Place(xs[i])] = File(xs[i], xs[i].len)

\* The bytes in the files below a directory.
BytesIn(t, dir) == UNION {{p} \X (1..t[p].n) : p \in {q \in Files(t) : IsPrefix(dir, q)}}

\* The limit of bytes holds for everything an extraction writes together, and for
\* every file of a download: never is more than one byte beyond it on disk
\* (extractor.writeFile, writeArchiveFile, limitio.Copy), and none after a success.
\* What a listing or an artifact has in a directory called _extracted is no
\* extraction's; an artifact that is no image manifest is taken for a file unseen.
BudgetKept ==
  LET most == w.s.maxBytes + (IF result = "ok" THEN 0 ELSE 1)
      Held(dir) == Cardinality(BytesIn(tree, dir))
  IN  limited =>
        /\ Unpacks /\ (proto = "oci" => w.media = "manifest") => Held(Out) <= most
        /\ proto = "git" => Held(Root) <= most
        /\ proto \in {"http", "s3", "gcs"} => \A p \in Files(tree) : tree[p].n <= most

\* Nothing is written outside the staging directory, whatever the names of objects
\* and entries are, nor beside the directory an archive is extracted to
\* (safepath.Join in downloadDir, untar and extractZip, containsDotDot), but for the
\* one file of an HTTP response whose "?archive=" leads there (fileName).
Inside ==
  /\ \A p \in DOMAIN tree :
       \/ IsPrefix(p, Root) \/ IsPrefix(Root, p)
       \/ proto = "http" /\ w.url.archive = "named" /\ p = FilePlace
  /\ \A p \in DOMAIN Fresh : p # Root => tree[p] = Dir
  /\ pc \in {"tar", "zip"} => Cardinality(Children(tree, Root) \ {Out}) = 1

\* What a call is refused for although no operation failed.
Unsupported ==
  \/ proto = "none"
  \/ proto = "gcs" /\ w.s.gcp = "invalid"
  \/ proto = "hg" /\ (w.s.noSystem \/ w.refused)
  \/ proto = "file" /\ (w.at = "nothing" \/ ~checkAllowed(w.local, w.s.allowed))
  \/ proto = "git" /\ archiveURL(sshToHTTPS(Repo)) = NoHost

NoSubdir ==
  \/ proto = "git" /\ w.subdir # <<>> /\ ~\E x \in Commit : IsPrefix(w.subdir, x.name)
  \/ /\ proto = "hg" /\ Subdirectory # <<>>
     /\ ~\E x \in ToSet(w.pages[1]) :
           IsStrictPrefix(Subdirectory, x.name) \/ (x.kind = "dir" /\ x.name = Subdirectory)

Selected ==
  LET xs == w.pages[1] IN {i \in DOMAIN xs : xs[i].kind = "file" /\ [xs[i] EXCEPT !.name = Tail(@)] \in ByGit}

TooLarge ==
  /\ limited
  /\ CASE Unpacks -> Cardinality(BytesOf(w.inner, WantedOf(w.inner))) > w.s.maxBytes
       [] ~Unpacks /\ proto \in {"http", "s3", "gcs"} ->
            \E x \in ToSet(Arrives) : x.kind = "file" /\ x.len > w.s.maxBytes
       [] ~Unpacks /\ proto = "git" -> Cardinality(BytesOf(w.pages[1], Selected)) > w.s.maxBytes
       [] OTHER -> FALSE

\* A name that leads out, or to a place where it cannot be: one path a file and a
\* directory, or the directory's own; a file that is downloaded alone and has no place
\* in the staging directory; hg's subdirectory leads out, or has a child "_clone".
Below(dir, x) == Clean(dir \o x.name)
Clash(dir, x, y) ==
  x.kind # "dir" /\ IsPrefix(Below(dir, x), Below(dir, y)) /\ (Below(dir, x) = Below(dir, y) => y.kind = "dir")
Bad(dir, xs) ==
  \/ \E x \in xs : ~IsPrefix(dir, Below(dir, x)) \/ (x.kind # "dir" /\ Below(dir, x) = dir)
  \/ \E x, y \in xs : Clash(dir, x, y)

Misplaced ==
  \/ Unpacks /\ Bad(Out, ToSet(w.inner))
  \/ Aside \/ Astray
  \/ ~Unpacks /\ ~OneFile(w, proto) /\ Bad(Root, {x \in ToSet(Arrives) : x.kind # "dir" \/ proto = "git"})
  \/ proto = "git" /\ \E x \in ToSet(w.pages[1]) : containsDotDot(x.name)
  \/ proto = "hg" /\ w.subdir # <<>> /\ \E x \in ToSet(w.pages[1]) : IsPrefix(Append(Subdirectory, "_clone"), x.name)

\* A call fails only for a cause: an operation failed, or the source is not one that
\* can be had, does not fit the limit, or has names with no place.  An entry that
\* uses the last byte of the limit up is no cause, nor are empty ones after it.
\* Left out are a lone compressed file, which is never extracted, and an artifact
\* that is not an image manifest or has oras's names, taken for one file.
RefusedForCause ==
  result = "err" /\ faults = 0 =>
    \/ Unsupported \/ NoSubdir \/ TooLarge \/ Misplaced
    \/ isFile /\ extractors(Extension(w, proto)) = "single"
    \/ proto = "oci" /\ isFile /\ (w.media # "manifest" \/ w.pages[1] = <<>> \/ Only.name \in OrasNames)

\* protocol.go: Download returns true if a single file was downloaded; Grab's
\* checksum and extraction rely on there being just that file.  An artifact whose
\* descriptor is no image manifest is taken for a file unseen, and one with a file
\* that has a name of oras's own loses it afterwards: these are left out.  So is an
\* HTTP response whose "?archive=" leads out of the directory, which is left empty.
SingleFile ==
  /\ pc = "extract" /\ isFile /\ ~Aside
  /\ proto = "oci" => w.media = "manifest" /\ \A x \in ToSet(w.pages[1]) : x.name \notin OrasNames
  => \E p \in DOMAIN tree : Children(tree, Root) = {p} /\ tree[p].kind = "file"

\* README.md: "If the source is a directory, all contents are copied recursively."
\* A path whose last segment is a symbolic link is a directory to os.Stat and a link
\* to filepath.Walk.
DirectoryCopied == proto = "file" /\ result = "ok" /\ ~isFile => IsDir(tree, Root)

\* What the platform's archive delivers is what the trees of the commit would: the
\* files that sparseEntries selects, at their places (extractArchive: "this fallback
\* and the git path produce the same layout").  Where git refuses the subdirectory the
\* archive does too, unless the commit has an entry of just that name that is no tree:
\* a file, a link or a submodule, which the archive takes for the subdirectory.  Links
\* are left out, which become empty files, and a limit of MaxInt, under which
\* writeArchiveFile reads nothing.
ArchiveLikeGit ==
  result = "ok" /\ proto = "git" /\ w.s.maxBytes < MaxInt =>
    IF GitRefuses
    THEN ~HasTree(Commit, w.subdir) /\ \E x \in Commit : x.name = w.subdir
    ELSE /\ \A p \in Files(tree) : tree[p].of.kind = "file" =>
              [tree[p].of EXCEPT !.name = Tail(@)] \in ByGit
         /\ \A x \in ByGit : x.kind = "file" =>
              /\ Root \o x.name \in Files(tree)
              /\ tree[Root \o x.name].of.id = x.id /\ tree[Root \o x.name].n = x.len

\* git_archive.go of fetchArchive: "If d.subdir is set, only files under it are
\* extracted, with the subdir prefix stripped so its contents land directly in tmpDir".
SubdirStripped ==
  result = "ok" /\ proto = "git" /\ w.subdir # <<>> /\ ~GitRefuses =>
    \A p \in Files(tree) :
      LET rel == Tail(tree[p].of.name)
      IN  IsStrictPrefix(w.subdir, rel) /\ p = Root \o SubSeq(rel, Len(w.subdir) + 1, Len(rel))

\* Every byte that was copied from the local file system lies, after all links are
\* followed, in a directory that was allowed (checkAllowed, and copyDir's making
\* links anew instead of following them).
AllowedOnly ==
  proto = "file" /\ w.s.allowed # {} =>
    \A p \in Files(tree) : \E dir \in w.s.allowed :
      IsPrefix(resolvePath(dir), resolvePath(IF w.at = "dir" THEN w.local \o tree[p].of.name ELSE w.local))

-----------------------------------------------------------------------------
(***************************************************************************)
(* Properties of what is sent, and to whom.                                *)
(***************************************************************************)
\* The URL that credentials are matched with.
Asked == IF proto = "git" THEN sshToHTTPS(Repo) ELSE WithScheme(w.url)

\* A credential that is configured for a host and a path is sent to that host only,
\* or to its platform's API, and only for URLs in that path, segment by segment; one
\* for a user only if the URL names no other (MatchHTTPSCredentials).
CredentialScoped ==
  \A x \in sent : x.source = "https" =>
    LET c == w.s.https[x.i]
    IN  /\ EqualFold(c.host, Asked.host) /\ x.host \in {Asked.host, archiveURL(Asked)}
        /\ Asked.user = "none" \/ Lower(Asked.user) = Lower(c.user)
        /\ IsPrefix(Segments(Fold(c.path)), Segments(Fold(TrimSuffix(TrimSuffix(Asked.path, "/"), ".git"))))

\* The most specific secret has the first turn: one for a host or a shorter path is
\* sent only if all for a longer path that match were, and a default only if those
\* for the host were (MatchHTTPSCredentials, MatchSSHKeys and the other Match
\* functions).
MostSpecificFirst ==
  LET Was(source, i) == \E x \in sent : x.source = source /\ x.i = i
      List(source) == CASE source = "key" -> w.s.keys [] source = "cert" -> w.s.certs
                        [] source = "proxy" -> w.s.proxies [] source = "oci" -> w.s.oci
  IN  \A x \in sent :
        /\ x.source = "https" => \A j \in DOMAIN w.s.https :
             HTTPSMatches(w.s.https[j], Asked) =>
               Len(Segments(w.s.https[j].path)) <= Len(Segments(w.s.https[x.i].path)) \/ Was("https", j)
        /\ x.source \in {"key", "cert", "proxy", "oci"} => LET list == List(x.source) IN
             list[x.i].host = <<>> => \A j \in DOMAIN list :
               list[j].host # <<>> /\ EqualFold(list[j].host, x.host) => Was(x.source, j)

\* What the environment holds is sent only where it belongs: cloud credentials to
\* the provider, or to an endpoint the caller forces s3 on, and nothing at all
\* against NoAmbientCredentials and NoSystemFallback (newClient, authOption,
\* authCandidates, archiveCredentials, tokenFromEnv).
AmbientScoped ==
  \A x \in sent :
    /\ x.source = "cloud" =>
         /\ ~w.s.noAmbient
         /\ x.host = "provider" \/ w.url.force = "s3"
    /\ x.source \in {"helper", "agent", "token"} => ~w.s.noSystem

\* A URL with "?archive=" that is not forced is downloaded as a file, the parameter
\* deciding its format, unless its host belongs to an object store or to Mercurial:
\* git would drop the parameter (isGitURL, fileName).
DirectiveKept ==
  /\ w.url.force = "none" /\ w.url.archive # "none" /\ parseHTTPURL(w.url) /\ pc # "detect"
  /\ \A p \in {"hg", "s3", "gcs"} : ~Detects(p, w.url, FALSE)
  => proto = "http"

\* git.go of isRepoPath: "Whatever is refused here falls through to the HTTP
\* protocol, which downloads it."
RefusedGoesToHTTP ==
  /\ w.url.force = "none" /\ pc # "detect"
  /\ w.url.form = "scheme" /\ w.url.scheme = "https" /\ w.url.host \in knownGitHosts
  /\ ~parseGitURL(w.url, FALSE)
  => proto = "http"

Phase ==
  CASE pc = "detect" -> 6 [] pc = "request" -> 5 [] pc = "archive" -> 4 [] pc = "extract" -> 2
    [] pc \in {"tar", "zip"} -> 1 [] pc = "done" -> 0 [] OTHER -> 3

\* Every download comes to an end, however its loops over pages, objects and entries
\* interleave with failures: each step enters a later phase, or reads a later page of
\* those there are, or leaves fewer of the entries at hand, so no page of a listing is
\* read twice (downloadDir's page token) and no entry either (untar, extractArchive).
ComesToAnEnd ==
  [][\/ Phase' < Phase
     \/ Phase' = Phase /\ page' \in (page + 1)..Len(w.pages)
     \/ Phase' = Phase /\ page' = page /\ Len(todo') < Len(todo)]_vars

=============================================================================
