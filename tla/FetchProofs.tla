----------------------------- MODULE FetchProofs -----------------------------
(***************************************************************************)
(* Proofs about Fetch.                                                     *)
(***************************************************************************)
EXTENDS Fetch, StagingProofs, FiniteSetTheorems, TLAPS

-----------------------------------------------------------------------------
(***************************************************************************)
(* What stays: the world, and the protocol once it is chosen.              *)
(***************************************************************************)
World(x) == \E f \in DOMAIN Worlds : x \in Worlds[f]

Chosen ==
  /\ World(w)
  /\ pc = "detect" => proto = "none"
  /\ pc # "detect" => proto = Protocol(w.url)

LEMMA ChosenInit == Init => Chosen
BY DEF Init, Chosen, World

\* Only Detect chooses, and no step leads back to it.
LEMMA Stays ==
  ASSUME Next, ~Detect
  PROVE  UNCHANGED <<w, proto>> /\ pc # "detect" /\ (pc' # "detect")
<1>1. UNCHANGED <<w, proto>>
  <2>1. CASE RequestHTTP \/ RequestS3 \/ RequestGCS \/ InvalidKey \/ RequestOCI \/ Clone \/ fetchArchive
    BY <2>1 DEF RequestHTTP, RequestS3, RequestGCS, InvalidKey, RequestOCI, Clone, fetchArchive, Request, request
  <2>2. CASE Body \/ ListPage \/ GetObject \/ Pull \/ OpenLocal \/ copyDir \/ CopyEnd \/ HgClone \/ HgMove
    BY <2>2 DEF Body, ListPage, GetObject, Pull, OpenLocal, copyDir, CopyEnd, HgClone, HgMove, request
  <2>3. CASE extractArchive \/ ArchiveEnd \/ ExtractWithLimit \/ untar \/ extractZip \/ Extracted
    BY <2>3 DEF extractArchive, ArchiveEnd, ExtractWithLimit, untar, extractZip, Extracted, request
  <2>4. CASE Done
    BY <2>4 DEF Done, vars, request
  <2> QED BY <2>1, <2>2, <2>3, <2>4 DEF Next
<1>2. pc # "detect" /\ (pc' # "detect")
  <2>1. CASE RequestHTTP \/ RequestS3 \/ RequestGCS \/ InvalidKey \/ RequestOCI \/ Clone \/ fetchArchive
    BY <2>1 DEF RequestHTTP, RequestS3, RequestGCS, InvalidKey, RequestOCI, Clone, fetchArchive, Request,
       Goto, Return, Fail
  <2>2. CASE Body \/ GetObject
    BY <2>2 DEF Body, GetObject, Save, Downloaded, Advance, Skip, Goto, Return, Fail
  <2>8. CASE OpenLocal
    BY <2>8 DEF OpenLocal, Save, Downloaded, Goto, Return, Fail
  <2>9. CASE copyDir
    BY <2>9 DEF copyDir, Save, MakeDir, Advance, Return, Fail
  <2>3. CASE ListPage \/ Pull \/ CopyEnd \/ HgClone \/ HgMove
    BY <2>3 DEF ListPage, Pull, CopyEnd, HgClone, HgMove, Downloaded, Goto, Return, Fail
  <2>4. CASE extractArchive
    BY <2>4 DEF extractArchive, Save, MakeDir, Advance, Skip, Return, Fail
  <2>5. CASE untar \/ extractZip
    BY <2>5 DEF untar, extractZip, Save, MakeDir, Spend, Advance, Skip, Return, Fail
  <2>6. CASE ArchiveEnd \/ ExtractWithLimit \/ Extracted
    BY <2>6 DEF ArchiveEnd, ExtractWithLimit, Extracted, Downloaded, Goto, Return, Fail
  <2>7. CASE Done
    BY <2>7 DEF Done, vars
  <2> QED BY <2>1, <2>2, <2>3, <2>4, <2>5, <2>6, <2>7, <2>8, <2>9 DEF Next
<1> QED BY <1>1, <1>2

LEMMA ChosenStep == Chosen /\ [Next]_vars => Chosen'
<1> SUFFICES ASSUME Chosen, [Next]_vars PROVE Chosen'
  OBVIOUS
<1>1. CASE UNCHANGED vars
  BY <1>1 DEF Chosen, World, vars, request
<1>2. CASE Detect
  BY <1>2 DEF Chosen, World, Detect, Goto, Return
<1>3. CASE Next /\ ~Detect
  BY <1>3, Stays DEF Chosen, World
<1> QED BY <1>1, <1>2, <1>3

LEMMA ChosenCorrect == Spec => []Chosen
BY ChosenInit, ChosenStep, PTL DEF Spec

-----------------------------------------------------------------------------
(***************************************************************************)
(* The choice of the protocol.                                             *)
(***************************************************************************)
LEMMA WorldTypes ==
  ASSUME NEW x, World(x)
  PROVE  /\ x.url \in URL /\ x.s \in Settings
         /\ Len(x.pages) > 0 /\ x.pages \in Seq(Seq(Entry)) /\ x.inner \in Seq(Entry)
         /\ x.subdir \in Seq(STRING) /\ x.local \in Seq(STRING)
         /\ Protocol(x.url) = "git" => PlatformArchive(x.pages[1])
BY WorldsAssumption DEF World

\* Of any protocols some are not behind any other of them.
LEMMA FirstTaker ==
  ASSUME NEW T \in SUBSET Protocols, T # {}
  PROVE  \E p \in T : \A q \in T : Priority(q) <= Priority(p)
<1>1. CASE "git" \in T
  BY <1>1 DEF Protocols, Priority
<1>2. CASE "git" \notin T /\ "hg" \in T
  BY <1>2 DEF Protocols, Priority
<1>3. CASE {"git", "hg"} \cap T = {} /\ "s3" \in T
  BY <1>3 DEF Protocols, Priority
<1>4. CASE {"git", "hg", "s3"} \cap T = {} /\ "gcs" \in T
  BY <1>4 DEF Protocols, Priority
<1>5. CASE {"git", "hg", "s3", "gcs"} \cap T = {} /\ "oci" \in T
  BY <1>5 DEF Protocols, Priority
<1>6. CASE {"git", "hg", "s3", "gcs", "oci"} \cap T = {} /\ "http" \in T
  BY <1>6 DEF Protocols, Priority
<1>7. CASE {"git", "hg", "s3", "gcs", "oci", "http"} \cap T = {}
  BY <1>7 DEF Protocols, Priority
<1> QED BY <1>1, <1>2, <1>3, <1>4, <1>5, <1>6, <1>7 DEF Protocols

\* The protocol that is chosen recognises the URL, forced or not.
LEMMA ProtocolDetects ==
  ASSUME NEW u \in URL, Protocol(u) # "none"
  PROVE  Protocol(u) \in Protocols /\ Detects(Protocol(u), u, u.force = Protocol(u))
<1> DEFINE takers == {p \in Protocols : Detects(p, u, FALSE)}
           Best(p) == p \in takers /\ \A q \in takers : Priority(q) <= Priority(p)
<1>1. CASE u.force \in Protocols
  <2>0. u.force # "none"
    BY <1>1 DEF Protocols
  <2>1. Protocol(u) = IF Detects(u.force, u, TRUE) THEN u.force ELSE "none"
    BY <1>1, <2>0 DEF Protocol
  <2>2. Protocol(u) = u.force /\ Detects(u.force, u, TRUE)
    BY <2>1
  <2>3. (u.force = Protocol(u)) = TRUE
    BY <2>2
  <2> HIDE DEF takers
  <2> QED BY <2>2, <2>3, <1>1
<1>2. CASE u.force = "none" /\ takers # {}
  <2>1. "none" \notin Protocols
    BY DEF Protocols
  <2>2. Protocol(u) = CHOOSE p \in takers : \A q \in takers : Priority(q) <= Priority(p)
    BY <1>2, <2>1 DEF Protocol
  <2>3. Protocol(u) \in takers
    BY <2>2, <1>2, FirstTaker
  <2> QED BY <2>1, <2>3, <1>2
<1>3. CASE u.force \notin Protocols /\ ~(u.force = "none" /\ takers # {})
  <2>1. u.force = "none"
    BY <1>3 DEF URL
  <2>2. Protocol(u) = "none"
    BY <1>3, <2>1 DEF Protocol
  <2> QED BY <2>2
<1> QED BY <1>1, <1>2, <1>3

\* An URL with "?archive=" that HTTP can parse and no store or Mercurial takes.
LEMMA DirectiveGoesToHTTP ==
  ASSUME NEW u \in URL, u.force = "none", u.archive # "none", parseHTTPURL(u),
         \A p \in {"hg", "s3", "gcs"} : ~Detects(p, u, FALSE)
  PROVE  Protocol(u) = "http"
<1> DEFINE takers == {p \in Protocols : Detects(p, u, FALSE)}
<1>1. WithScheme(u).scheme \in {"http", "https"} /\ WithScheme(u).archive = u.archive
  BY DEF parseHTTPURL, WithScheme, URL
<1>2. ~Detects("git", u, FALSE)
  BY <1>1 DEF Detects, parseGitURL, isGitURL, parseHTTPURL
<1>3. ~Detects("oci", u, FALSE)
  BY <1>1 DEF Detects, parseOCIURL, parseHTTPURL, WithScheme
<1>4. ~Detects("file", u, FALSE)
  BY <1>1 DEF Detects, parseFileURL, parseHTTPURL, WithScheme
<1>5. Detects("http", u, FALSE)
  BY DEF Detects
<1>6. takers = {"http"}
  BY <1>2, <1>3, <1>4, <1>5 DEF Protocols
<1>7. u.force \notin Protocols
  BY DEF Protocols
<1>8. Protocol(u) = CHOOSE p \in takers : \A q \in takers : Priority(q) <= Priority(p)
  BY <1>6, <1>7 DEF Protocol
<1>9. Protocol(u) \in takers
  BY <1>6, <1>8, FirstTaker, takers \in SUBSET Protocols
<1> QED BY <1>6, <1>9

\* DirectiveKept: a URL with "?archive=" is downloaded as a file, whatever git would
\* have made of it (isGitURL, Grabber.download).
THEOREM DirectiveKeptCorrect == Spec => []DirectiveKept
<1>1. Chosen => DirectiveKept
  BY DirectiveGoesToHTTP, WorldTypes DEF Chosen, DirectiveKept
<1> QED BY <1>1, ChosenCorrect, PTL
-----------------------------------------------------------------------------
(***************************************************************************)
(* The secrets of each source.                                             *)
(***************************************************************************)
\* A secret is one of the environment only where those are asked for.
Proper(s, u, x) ==
  /\ x.source \in SecretSources
  /\ x.source = "cloud" => ~s.noAmbient /\ (x.host = "provider" \/ u.force = "s3")
  /\ x.source \in {"helper", "agent", "token"} => ~s.noSystem

LEMMA ConfiguredProper ==
  ASSUME NEW s, NEW u, NEW v, NEW x \in HTTPCredential(s, v) \cup OCICredential(s, v) \cup TransportFor(s, v.host)
  PROVE  Proper(s, u, x)
<1>1. x \in HTTPCredential(s, v) => x.source \in {"url", "https", "request", "netrc"}
  BY DEF HTTPCredential, Secret
<1>2. x \in OCICredential(s, v) => x.source \in {"oci", "request", "netrc"}
  BY DEF OCICredential, Secret
<1>3. x \in TransportFor(s, v.host) => x.source \in {"cert", "proxy"}
  BY DEF TransportFor, Secret
<1> QED BY <1>1, <1>2, <1>3 DEF Proper, SecretSources

\* The transport of any host, that of a platform's API included.
LEMMA TransportProper ==
  ASSUME NEW s, NEW u, NEW host, NEW x \in TransportFor(s, host)
  PROVE  Proper(s, u, x)
BY DEF TransportFor, Secret, Proper, SecretSources

LEMMA WhenSeq ==
  ASSUME NEW S, NEW x, NEW c, c => x \in S
  PROVE  When(c, x) \in Seq(S)
BY DEF When

LEMMA SubSeqType ==
  ASSUME NEW S, NEW s \in Seq(S), NEW n \in Nat, n <= Len(s)
  PROVE  SubSeq(s, 1, n) \in Seq(S)
<1>1. \A i \in 1..n : SubSeq(s, 1, n)[i] = s[i] /\ s[i] \in S
  OBVIOUS
<1>2. Len(SubSeq(s, 1, n)) = n /\ DOMAIN SubSeq(s, 1, n) = 1..n
  OBVIOUS
<1> QED BY <1>1, <1>2

\* What matching returns is a sequence, and so is what is made of it.
LEMMA SortedSeq ==
  ASSUME NEW S, IsFiniteSet(S)
  PROVE  \E R : Sorted(S) \in Seq(R)
<1> DEFINE n == Cardinality(S)
           At(k) == CHOOSE i \in S : Cardinality({j \in S : j < i}) = k - 1
<1>1. n \in Nat
  BY FS_CardinalityType
<1>2. Sorted(S) = [k \in 1..n |-> At(k)]
  BY DEF Sorted, InOrder
<1> HIDE DEF At, n
<1>3. Sorted(S) \in Seq({At(k) : k \in 1..n})
  BY <1>1, <1>2
<1> QED BY <1>3

LEMMA MatchHTTPSSeq ==
  ASSUME NEW list, IsFiniteSet(DOMAIN list), NEW u
  PROVE  \E R : MatchHTTPSCredentials(list, u) \in Seq(R)
<1> DEFINE S == {i \in DOMAIN list : HTTPSMatches(list[i], u)}
           n == Cardinality(S)
           Before(i, j) == \/ PathLen(list[i]) > PathLen(list[j])
                           \/ PathLen(list[i]) = PathLen(list[j]) /\ i < j
           At(k) == CHOOSE i \in S : Cardinality({j \in S : Before(j, i)}) = k - 1
<1>1. n \in Nat
  BY FS_CardinalityType, FS_Subset
<1>2. MatchHTTPSCredentials(list, u) = [k \in 1..n |-> At(k)]
  BY DEF MatchHTTPSCredentials, InOrder
<1> HIDE DEF At, n
<1>3. MatchHTTPSCredentials(list, u) \in Seq({At(k) : k \in 1..n})
  BY <1>1, <1>2
<1> QED BY <1>3

LEMMA MatchSSHSeq ==
  ASSUME NEW s, IsFiniteSet(DOMAIN s.keys), NEW host
  PROVE  \E R : MatchSSHKeys(s, host) \in Seq(R)
<1>1. IsFiniteSet(ForHost(s.keys, host)) /\ IsFiniteSet(Defaults(s.keys))
  BY FS_Subset DEF ForHost, Defaults
<1>2. PICK R1 : Sorted(ForHost(s.keys, host)) \in Seq(R1)
  BY <1>1, SortedSeq
<1>3. PICK R2 : Sorted(Defaults(s.keys)) \in Seq(R2)
  BY <1>1, SortedSeq
<1>4. MatchSSHKeys(s, host) \in Seq(R1 \cup R2)
  <2>1. Sorted(ForHost(s.keys, host)) \in Seq(R1 \cup R2) /\ Sorted(Defaults(s.keys)) \in Seq(R1 \cup R2)
    BY <1>2, <1>3
  <2> QED BY <2>1 DEF MatchSSHKeys
<1> QED BY <1>4

LEMMA Finite ==
  ASSUME NEW s \in Settings
  PROVE  IsFiniteSet(DOMAIN s.https) /\ IsFiniteSet(DOMAIN s.keys)
<1>1. \A list : (\E R : list \in Seq(R)) => IsFiniteSet(DOMAIN list)
  <2> TAKE list
  <2> HAVE \E R : list \in Seq(R)
  <2>1. DOMAIN list = 1..Len(list) /\ Len(list) \in Nat
    OBVIOUS
  <2> QED BY <2>1, FS_Interval
<1>2. \E R : s.https \in Seq(R)
  BY DEF Settings
<1>3. \E R : s.keys \in Seq(R)
  BY DEF Settings
<1> QED BY <1>1, <1>2, <1>3

\* The identities of a handshake, and the chain of a URL (resolveSSHAuth,
\* authCandidates): the agent and the helper only where they are allowed.
LEMMA ChainProper ==
  ASSUME NEW s \in Settings, NEW u, NEW v
  PROVE  \E S : authCandidates(s, v) \in Seq(S) /\ \A y \in S : Proper(s, u, y)
<1>0. s.noSystem \in BOOLEAN
  BY DEF Settings
<1>1. CASE SSH(v)
  <2> DEFINE keys == MatchSSHKeys(s, v.host)
  <2>1. PICK R : keys \in Seq(R)
    BY MatchSSHSeq, Finite
  <2> DEFINE S == {y \in [source : SecretSources, i : R \cup {0}, host : {v.host}] : Proper(s, u, y)}
  <2> HIDE DEF keys
  <2>2. [k \in DOMAIN keys |-> Secret("key", keys[k], v.host)] \in Seq(S)
    <3>1. ASSUME NEW k \in DOMAIN keys PROVE Secret("key", keys[k], v.host) \in S
      BY <2>1 DEF Secret, Proper, SecretSources
    <3>2. DOMAIN keys = 1..Len(keys) /\ Len(keys) \in Nat
      BY <2>1
    <3> HIDE DEF S
    <3> QED BY <3>1, <3>2
  <2>3. When("agent" \in s.ambient /\ ~s.noSystem, Secret("agent", 0, v.host)) \in Seq(S)
    <3>1. "agent" \in s.ambient /\ ~s.noSystem => Secret("agent", 0, v.host) \in S
      BY <1>0 DEF Secret, Proper, SecretSources
    <3> HIDE DEF S
    <3> QED BY <3>1, WhenSeq
  <2>4. authCandidates(s, v) = [k \in DOMAIN keys |-> Secret("key", keys[k], v.host)]
                                  \o When("agent" \in s.ambient /\ ~s.noSystem, Secret("agent", 0, v.host))
    BY <1>1 DEF authCandidates, resolveSSHAuth, keys
  <2>5. authCandidates(s, v) \in Seq(S)
    <3> HIDE DEF S
    <3> QED BY <2>2, <2>3, <2>4
  <2> QED BY <2>5
<1>2. CASE ~SSH(v) /\ v.pass
  <2>1. authCandidates(s, v) = <<Secret("url", 0, v.host)>>
    BY <1>2 DEF authCandidates
  <2>2. Proper(s, u, Secret("url", 0, v.host))
    BY DEF Secret, Proper, SecretSources
  <2> DEFINE S == {Secret("url", 0, v.host)}
  <2>3. authCandidates(s, v) \in Seq(S)
    BY <2>1
  <2>4. \A y \in S : Proper(s, u, y)
    BY <2>2
  <2> HIDE DEF S
  <2> QED BY <2>3, <2>4
<1>3. CASE ~SSH(v) /\ ~v.pass
  <2> DEFINE creds == MatchHTTPSCredentials(s.https, v)
  <2>1. PICK R : creds \in Seq(R)
    BY MatchHTTPSSeq, Finite
  <2> DEFINE S == {y \in [source : SecretSources, i : R \cup {0}, host : {v.host}] : Proper(s, u, y)}
  <2> HIDE DEF creds
  <2>2. [k \in DOMAIN creds |-> Secret("https", creds[k], v.host)] \in Seq(S)
    <3>1. ASSUME NEW k \in DOMAIN creds PROVE Secret("https", creds[k], v.host) \in S
      BY <2>1 DEF Secret, Proper, SecretSources
    <3>2. DOMAIN creds = 1..Len(creds) /\ Len(creds) \in Nat
      BY <2>1
    <3> HIDE DEF S
    <3> QED BY <3>1, <3>2
  <2>3. When(RequestCredential(s), Secret("request", 0, v.host)) \in Seq(S)
    <3>1. RequestCredential(s) => Secret("request", 0, v.host) \in S
      BY DEF Secret, Proper, SecretSources
    <3> HIDE DEF S
    <3> QED BY <3>1, WhenSeq
  <2>6. When("helper" \in s.ambient /\ ~s.noSystem, Secret("helper", 0, v.host)) \in Seq(S)
    <3>1. "helper" \in s.ambient /\ ~s.noSystem => Secret("helper", 0, v.host) \in S
      BY <1>0 DEF Secret, Proper, SecretSources
    <3> HIDE DEF S
    <3> QED BY <3>1, WhenSeq
  <2>7. When(v.user # "none", Secret("url", 0, v.host)) \in Seq(S)
    <3>1. v.user # "none" => Secret("url", 0, v.host) \in S
      BY DEF Secret, Proper, SecretSources
    <3> HIDE DEF S
    <3> QED BY <3>1, WhenSeq
  <2>4. authCandidates(s, v) = [k \in DOMAIN creds |-> Secret("https", creds[k], v.host)]
          \o When(RequestCredential(s), Secret("request", 0, v.host))
          \o When("helper" \in s.ambient /\ ~s.noSystem, Secret("helper", 0, v.host))
          \o When(v.user # "none", Secret("url", 0, v.host))
    BY <1>3 DEF authCandidates, creds
  <2>5. authCandidates(s, v) \in Seq(S)
    <3> HIDE DEF S
    <3> QED BY <2>2, <2>3, <2>6, <2>7, <2>4
  <2> QED BY <2>5
<1> QED BY <1>1, <1>2, <1>3

\* The credential for a platform's archive is the first of a list of them.
LEMMA ArchiveCredentialsProper ==
  ASSUME NEW s \in Settings, NEW u, NEW v, NEW x \in archiveCredentials(s, v)
  PROVE  Proper(s, u, x)
<1> DEFINE host    == archiveURL(v)
           account == v.user \notin {"none", "git"}
           static  == MatchHTTPSCredential(s.https, v)
           S       == {y \in [source : SecretSources, i : {0, static}, host : {host}] : Proper(s, u, y)}
           chain   == When(account /\ v.pass, Secret("url", 0, host))
                        \o When(static # 0, Secret("https", static, host))
                        \o When(RequestCredential(s), Secret("request", 0, host))
                        \o When("helper" \in s.ambient /\ ~s.noSystem, Secret("helper", 0, host))
                        \o When(account, Secret("url", 0, host))
                        \o When("token" \in s.ambient /\ ~s.noSystem, Secret("token", 0, host))
<1>1. chain # <<>> /\ x = Head(chain)
  BY DEF archiveCredentials
<1>2. chain \in Seq(S)
  <2> HIDE DEF host, static, account
  <2>1. s.noSystem \in BOOLEAN
    BY DEF Settings
  <2>2. When(account /\ v.pass, Secret("url", 0, host)) \in Seq(S)
    <3>1. account /\ v.pass => Secret("url", 0, host) \in S
      BY DEF Secret, Proper, SecretSources
    <3> HIDE DEF S
    <3> QED BY <3>1, WhenSeq
  <2>3. When(static # 0, Secret("https", static, host)) \in Seq(S)
    <3>1. static # 0 => Secret("https", static, host) \in S
      BY DEF Secret, Proper, SecretSources
    <3> HIDE DEF S
    <3> QED BY <3>1, WhenSeq
  <2>4. When(RequestCredential(s), Secret("request", 0, host)) \in Seq(S)
    <3>1. RequestCredential(s) => Secret("request", 0, host) \in S
      BY DEF Secret, Proper, SecretSources
    <3> HIDE DEF S
    <3> QED BY <3>1, WhenSeq
  <2>5. When("helper" \in s.ambient /\ ~s.noSystem, Secret("helper", 0, host)) \in Seq(S)
    <3>1. "helper" \in s.ambient /\ ~s.noSystem => Secret("helper", 0, host) \in S
      BY <2>1 DEF Secret, Proper, SecretSources
    <3> HIDE DEF S
    <3> QED BY <3>1, WhenSeq
  <2>6. When(account, Secret("url", 0, host)) \in Seq(S)
    <3>1. account => Secret("url", 0, host) \in S
      BY DEF Secret, Proper, SecretSources
    <3> HIDE DEF S
    <3> QED BY <3>1, WhenSeq
  <2>7. When("token" \in s.ambient /\ ~s.noSystem, Secret("token", 0, host)) \in Seq(S)
    <3>1. "token" \in s.ambient /\ ~s.noSystem => Secret("token", 0, host) \in S
      BY <2>1 DEF Secret, Proper, SecretSources
    <3> HIDE DEF S
    <3> QED BY <3>1, WhenSeq
  <2> HIDE DEF S
  <2> QED BY <2>2, <2>3, <2>4, <2>5, <2>6, <2>7
<1>3. x \in S
  <2> HIDE DEF S, chain
  <2> QED BY <1>1, <1>2
<1> QED BY <1>3

-----------------------------------------------------------------------------
(***************************************************************************)
(* What is sent.                                                           *)
(***************************************************************************)
Sent == \A x \in sent : Proper(w.s, w.url, x)

\* A client of an object store sends what the environment has to the provider only,
\* for the URL of a custom endpoint is recognised only when it is forced (parseS3URL).
LEMMA S3Proper ==
  ASSUME Chosen, pc = "request", proto = "s3", NEW x \in S3Client(w.s, Endpoint)
  PROVE  Proper(w.s, w.url, x)
<1>1. parseS3URL(w.url, w.url.force = "s3").ok
  BY ProtocolDetects, WorldTypes DEF Chosen, Detects
<1>2. Store(w.url, proto) = parseS3URL(w.url, w.url.force = "s3")
  BY DEF Store
<1>6. parseS3URL(w.url, w.url.force = "s3").custom => w.url.force = "s3"
  BY <1>1 DEF parseS3URL, Object, NoObject
<1>3. Store(w.url, proto).custom => w.url.force = "s3"
  BY <1>2, <1>6
<1>4. Endpoint = "provider" \/ w.url.force = "s3"
  BY <1>3 DEF Endpoint
<1>5. x.source \in {"aws", "cloud"} /\ (x.source = "cloud" => ~w.s.noAmbient /\ x.host = Endpoint)
  BY DEF S3Client, Secret
<1> QED BY <1>4, <1>5 DEF Proper, SecretSources

LEMMA GCSProper ==
  ASSUME NEW x \in authOption(w.s, Endpoint)
  PROVE  Proper(w.s, w.url, x)
<1>1. /\ x.source \in {"gcp", "cloud"}
      /\ x.source = "cloud" => ~w.s.noAmbient /\ x.host = Endpoint /\ Endpoint # "custom"
  BY DEF authOption, Secret
<1> QED BY <1>1 DEF Proper, SecretSources, Endpoint

LEMMA SentInit == Init => Sent
BY DEF Init, Sent

LEMMA SentStep == Chosen /\ Sent /\ [Next]_vars => Sent'
<1> SUFFICES ASSUME Chosen, Sent, [Next]_vars PROVE Sent'
  OBVIOUS
<1> DEFINE P(x) == Proper(w.s, w.url, x)
<1>0. w.s \in Settings
  BY WorldTypes DEF Chosen
<1>r. ASSUME NEW p, NEW secrets, NEW label, Request(p, secrets, label), \A x \in secrets : P(x)
      PROVE  Sent'
  BY <1>r DEF Request, Sent
<1>1. CASE RequestHTTP
  BY <1>1, <1>r, ConfiguredProper DEF RequestHTTP
<1>2. CASE RequestS3
  <2>1. pc = "request" /\ proto = "s3"
    BY <1>2 DEF RequestS3, Request
  <2>2. \A x \in S3Client(w.s, Endpoint) : P(x)
    BY <2>1, S3Proper
  <2> HIDE DEF P
  <2> QED BY <1>2, <2>2, <1>r DEF RequestS3
<1>3. CASE RequestGCS
  <2>2. \A x \in authOption(w.s, Endpoint) : P(x)
    BY GCSProper
  <2> HIDE DEF P
  <2> QED BY <1>3, <2>2, <1>r DEF RequestGCS
<1>4. CASE RequestOCI
  BY <1>4, <1>r, ConfiguredProper DEF RequestOCI
<1>5. CASE Clone
  <2> DEFINE urls == cloneCandidates(w.s, Repo)
             Chain(c) == authCandidates(w.s, urls[c])
             Transport(c) == IF SSH(urls[c]) THEN {} ELSE TransportFor(w.s, urls[c].host)
             Tried(last, n) == UNION {ToSet(SubSeq(Chain(c), 1, n[c])) \cup Transport(c) : c \in 1..last}
  <2>1. PICK last \in DOMAIN urls :
          \E n \in [1..last -> UNION {0..Len(Chain(c)) : c \in 1..last}] :
            /\ \A c \in 1..last : n[c] <= Len(Chain(c))
            /\ Request("git", Tried(last, n), "archive")
    BY <1>5 DEF Clone
  <2>2. PICK n \in [1..last -> UNION {0..Len(Chain(c)) : c \in 1..last}] :
            /\ \A c \in 1..last : n[c] <= Len(Chain(c))
            /\ Request("git", Tried(last, n), "archive")
    BY <2>1
  <2>3. ASSUME NEW x \in Tried(last, n) PROVE P(x)
    <3>1. PICK c \in 1..last : x \in ToSet(SubSeq(Chain(c), 1, n[c])) \cup Transport(c)
      BY <2>3
    <3>2. CASE x \in Transport(c)
      BY <3>2, TransportProper
    <3>3. CASE x \in ToSet(SubSeq(Chain(c), 1, n[c]))
      <4>1. PICK S : Chain(c) \in Seq(S) /\ \A y \in S : P(y)
        BY <1>0, ChainProper
      <4>0. \A d : Len(Chain(d)) \in Nat
        <5> TAKE d
        <5>1. PICK T : Chain(d) \in Seq(T)
          BY <1>0, ChainProper
        <5> HIDE DEF Chain
        <5> QED BY <5>1
      <4>2. n[c] \in Nat /\ n[c] <= Len(Chain(c))
        <5> HIDE DEF Chain
        <5>1. PICK d \in 1..last : n[c] \in 0..Len(Chain(d))
          BY <2>2
        <5> QED BY <5>1, <4>0, <2>2
      <4> HIDE DEF Chain
      <4>3. SubSeq(Chain(c), 1, n[c]) \in Seq(S)
        BY <4>1, <4>2, SubSeqType
      <4>4. x \in S
        <5>1. PICK k \in DOMAIN SubSeq(Chain(c), 1, n[c]) : x = SubSeq(Chain(c), 1, n[c])[k]
          BY <3>3 DEF ToSet
        <5> QED BY <5>1, <4>3
      <4> QED BY <4>1, <4>4
    <3> QED BY <3>1, <3>2, <3>3
  <2> QED BY <2>2, <2>3, <1>r
<1>6. CASE fetchArchive
  <2>1. \/ UNCHANGED sent
        \/ sent' = sent \cup archiveCredentials(w.s, sshToHTTPS(Repo))
                        \cup TransportFor(w.s, archiveURL(sshToHTTPS(Repo)))
    BY <1>6 DEF fetchArchive
  <2>2. w' = w
    BY <1>6 DEF fetchArchive
  <2> QED BY <2>1, <2>2, <1>0, ArchiveCredentialsProper, TransportProper DEF Sent
<1>7. CASE UNCHANGED <<w, sent>>
  BY <1>7 DEF Sent
<1>8. Detect \/ InvalidKey => UNCHANGED <<w, sent>>
  BY DEF Detect, InvalidKey, request
<1>9. Body \/ ListPage \/ GetObject \/ Pull \/ OpenLocal \/ copyDir \/ CopyEnd \/ HgClone \/ HgMove => UNCHANGED <<w, sent>>
  BY DEF Body, ListPage, GetObject, Pull, OpenLocal, copyDir, CopyEnd, HgClone, HgMove, request
<1>10. extractArchive \/ ArchiveEnd \/ ExtractWithLimit \/ untar \/ extractZip \/ Extracted => UNCHANGED <<w, sent>>
  BY DEF extractArchive, ArchiveEnd, ExtractWithLimit, untar, extractZip, Extracted, request
<1>11. Done \/ UNCHANGED vars => UNCHANGED <<w, sent>>
  BY DEF Done, vars, request
<1> QED BY <1>1, <1>2, <1>3, <1>4, <1>5, <1>6, <1>7, <1>8, <1>9, <1>10, <1>11 DEF Next

LEMMA SentCorrect == Spec => []Sent
<1>1. Spec => []Chosen
  BY ChosenCorrect
<1> QED BY SentInit, SentStep, <1>1, PTL DEF Spec

\* AmbientScoped: what the environment holds is sent only to a cloud's own provider or
\* an endpoint s3 is forced on, and not against the options (newClient, authOption,
\* authCandidates, archiveCredentials, tokenFromEnv).
THEOREM AmbientScopedCorrect == Spec => []AmbientScoped
<1>1. Sent => AmbientScoped
  BY DEF Sent, AmbientScoped, Proper
<1> QED BY <1>1, SentCorrect, PTL
-----------------------------------------------------------------------------
(***************************************************************************)
(* The tree: what every operation leaves in it.                            *)
(***************************************************************************)
Kinds(t) == \A p \in DOMAIN t : t[p].kind \in {"dir", "file", "link"}

LEMMA NodeKinds ==
  /\ Dir.kind = "dir"
  /\ \A x, n : File(x, n).kind = "file"
  /\ \A x : Link(x).kind = "link" /\ Node(x).kind \in {"dir", "file", "link"}
BY DEF Dir, File, Link, Node

LEMMA PutKinds ==
  ASSUME NEW t, Kinds(t), NEW p, NEW node, node.kind \in {"dir", "file", "link"}
  PROVE  Kinds(Put(t, p, node))
BY DEF Kinds, Put

LEMMA MkdirAllKinds ==
  ASSUME NEW t, Kinds(t), NEW p
  PROVE  Kinds(MkdirAll(t, p))
BY NodeKinds DEF Kinds, MkdirAll

LEMMA CreateKinds ==
  ASSUME NEW t, Kinds(t), NEW p, NEW node, node.kind \in {"dir", "file", "link"}
  PROVE  Kinds(Create(t, p, node))
BY PutKinds, MkdirAllKinds DEF Create

LEMMA WithoutKinds ==
  ASSUME NEW t, Kinds(t), NEW gone
  PROVE  Kinds(Without(t, gone))
BY DEF Kinds, Without

LEMMA PlantKinds ==
  ASSUME NEW t, Kinds(t), NEW dir, NEW entries
  PROVE  Kinds(Plant(t, dir, entries))
<1> DEFINE made == Prefixes(dir) \cup UNION {Prefixes(dir \o entries[i].name) : i \in DOMAIN entries}
           At(q) == {i \in DOMAIN entries : entries[i].kind # "dir" /\ dir \o entries[i].name = q}
<1> HIDE DEF made, At
<1>1. Plant(t, dir, entries) =
        [q \in DOMAIN t \cup made |-> CASE At(q) # {} -> Node(entries[Max(At(q))])
                                        [] At(q) = {} /\ q \in DOMAIN t -> t[q]
                                        [] OTHER -> Dir]
  BY DEF Plant, made, At
<1> QED BY <1>1, NodeKinds DEF Kinds

LEMMA FreshKinds == Kinds(Fresh)
BY NodeKinds DEF Kinds, Fresh

LEMMA KindsInit == Init => Kinds(tree)
BY FreshKinds DEF Init

\* Whatever is saved, all or some of it, is a file.
LEMMA KindsStep == Kinds(tree) /\ [Next]_vars => Kinds(tree')
<1> SUFFICES ASSUME Kinds(tree), [Next]_vars PROVE Kinds(tree')
  OBVIOUS
<1>1. ASSUME NEW x, NEW p, NEW n, tree' = Create(tree, p, File(x, n)) PROVE Kinds(tree')
  BY <1>1, CreateKinds, NodeKinds
<1>2. CASE UNCHANGED tree
  BY <1>2
<1>3. Detect \/ RequestHTTP \/ RequestS3 \/ RequestGCS \/ InvalidKey \/ RequestOCI \/ Clone \/ fetchArchive => UNCHANGED tree
  BY DEF Detect, RequestHTTP, RequestS3, RequestGCS, InvalidKey, RequestOCI, Clone, fetchArchive, Request
<1>4. ListPage \/ CopyEnd \/ ArchiveEnd \/ ExtractWithLimit \/ Done \/ UNCHANGED vars => UNCHANGED tree
  BY DEF ListPage, CopyEnd, ArchiveEnd, ExtractWithLimit, Done, vars
<1>5. CASE Body
  BY <1>5, <1>1, <1>2 DEF Body, Save
<1>6. CASE GetObject
  BY <1>6, <1>1, <1>2 DEF GetObject, Save, Skip
<1>7. CASE Pull
  <2>1. Kinds(cleanupOrasMetadata(Plant(tree, Root, w.pages[1])))
    BY PlantKinds, WithoutKinds DEF cleanupOrasMetadata
  <2> QED BY <1>7, <2>1, <1>2 DEF Pull
<1>8. CASE OpenLocal
  <2>1. Kinds(Put(tree, Root, Link(Only)))
    BY PutKinds, NodeKinds
  <2> QED BY <1>8, <2>1, <1>1, <1>2 DEF OpenLocal, Save
<1>9. CASE copyDir
  <2>1. Kinds(MkdirAll(tree, Root \o e.name)) /\ Kinds(Create(tree, Root \o e.name, Link(e)))
    BY MkdirAllKinds, CreateKinds, NodeKinds
  <2> QED BY <1>9, <2>1, <1>1, <1>2 DEF copyDir, Save, MakeDir
<1>10. CASE HgClone
  BY <1>10, <1>2, PlantKinds DEF HgClone
<1>11. CASE HgMove
  <2> DEFINE src   == srcDir
             moved == {q \in DOMAIN tree : IsStrictPrefix(src, q)}
             To(q) == Root \o SubSeq(q, Len(src) + 1, Len(q))
             old(p) == CHOOSE q \in moved : To(q) = p
  <2>1. \/ UNCHANGED tree
        \/ tree' = Plant(Fresh, Root, w.outside)
        \/ tree' = [p \in DOMAIN Fresh \cup {To(q) : q \in moved} |-> IF p \in DOMAIN Fresh THEN Dir ELSE tree[old(p)]]
    BY <1>11 DEF HgMove
  <2> HIDE DEF To
  <2>2. \A p \in {To(q) : q \in moved} : old(p) \in DOMAIN tree
    OBVIOUS
  <2> HIDE DEF old
  <2>3. Kinds(Plant(Fresh, Root, w.outside))
    BY FreshKinds, PlantKinds
  <2> QED BY <2>1, <2>2, <2>3, NodeKinds DEF Kinds
<1>12. CASE extractArchive
  <2>1. \A p : Kinds(MkdirAll(tree, p))
    BY MkdirAllKinds
  <2> QED BY <1>12, <2>1, <1>1, <1>2 DEF extractArchive, Save, MakeDir, Skip
<1>13. CASE untar
  <2>1. \A p : Kinds(MkdirAll(tree, p))
    BY MkdirAllKinds
  <2> QED BY <1>13, <2>1, <1>1, <1>2 DEF untar, Save, MakeDir, Skip
<1>14. CASE extractZip
  <2>1. \A p : Kinds(MkdirAll(tree, p))
    BY MkdirAllKinds
  <2> QED BY <1>14, <2>1, <1>1, <1>2 DEF extractZip, Save, MakeDir, Skip
<1>15. CASE Extracted
  BY <1>15, WithoutKinds DEF Extracted
<1> QED BY <1>2, <1>3, <1>4, <1>5, <1>6, <1>7, <1>8, <1>9, <1>10, <1>11, <1>12, <1>13, <1>14, <1>15 DEF Next
-----------------------------------------------------------------------------
(***************************************************************************)
(* The stream: what is still to come, and what may still be written.       *)
(***************************************************************************)
\* The entries still to come of xs are its last ones.
Rest(td, xs) ==
  /\ td \in Seq(Entry) /\ Len(td) <= Len(xs)
  /\ \A k \in 1..Len(td) : td[k] = xs[Len(xs) - Len(td) + k]

Stream ==
  /\ page \in 0..Len(w.pages) /\ todo \in Seq(Entry)
  /\ left \in Int /\ (limited => left >= 0)
  /\ top \in Seq(STRING) /\ found \in BOOLEAN /\ isFile \in BOOLEAN
  /\ pc \in {"archive", "archived"} => proto = "git"
  /\ pc = "archived" => Rest(todo, w.pages[1])

Control ==
  /\ pc \in {"detect", "request", "archive", "archived", "body", "list", "pull", "copy", "move",
             "extract", "tar", "zip", "done"}
  /\ faults \in 0..MaxFaults /\ result \in {"none", "ok", "err"}

LEMMA ControlInit == Init => Control
<1> SUFFICES ASSUME Init PROVE Control
  OBVIOUS
<1>1. pc = "detect" /\ result = "none" /\ faults = 0
  BY DEF Init
<1> QED BY <1>1, MaxFaultsAssumption DEF Control

LEMMA ControlStep == Control /\ [Next]_vars => Control'
<1> SUFFICES ASSUME Control, [Next]_vars PROVE Control'
  OBVIOUS
<1> USE MaxFaultsAssumption
<1>0. CASE UNCHANGED vars
  BY <1>0 DEF vars, Control
<1>1. CASE Detect
  BY <1>1 DEF Detect, Control, Goto, Return
<1>2. CASE RequestHTTP \/ RequestS3 \/ RequestGCS \/ RequestOCI \/ Clone
  <2>1. \E p, secrets, label : /\ label \in {"body", "list", "pull", "archive"}
                               /\ Request(p, secrets, label)
    BY <1>2 DEF RequestHTTP, RequestS3, RequestGCS, RequestOCI, Clone
  <2> QED BY <2>1 DEF Request, Control, Goto, Return, Faulty
<1>3. CASE InvalidKey \/ fetchArchive
  BY <1>3 DEF InvalidKey, fetchArchive, Control, Goto, Return, Fail, Faulty
<1>4. CASE Body \/ GetObject
  BY <1>4 DEF Body, GetObject, Save, Downloaded, Advance, Skip, Control, Goto, Return, Fail, Faulty
<1>5. CASE ListPage \/ Pull \/ CopyEnd
  BY <1>5 DEF ListPage, Pull, CopyEnd, Downloaded, Control, Goto, Return, Fail, Faulty
<1>6. CASE OpenLocal
  BY <1>6 DEF OpenLocal, Save, Downloaded, Control, Goto, Return, Fail, Faulty
<1>7. CASE copyDir
  BY <1>7 DEF copyDir, Save, MakeDir, Advance, Control, Return, Fail, Faulty
<1>8. CASE HgClone
  BY <1>8 DEF HgClone, Downloaded, Control, Goto, Return, Fail, Faulty
<1>15. CASE HgMove
  <2>1. \/ pc' = "extract" /\ result' = result
        \/ pc' = "done" /\ result' = "err"
    BY <1>15 DEF HgMove, Downloaded, Goto, Return, Fail
  <2>2. faults' = faults
    BY <1>15 DEF HgMove
  <2> QED BY <2>1, <2>2 DEF Control
<1>9. CASE extractArchive
  <2>1. \/ pc' = pc /\ result' = result
        \/ pc' = "done" /\ result' = "err"
    BY <1>9 DEF extractArchive, Save, MakeDir, Advance, Skip, Return, Fail
  <2>2. faults' = faults \/ Faulty
    BY <1>9 DEF extractArchive, Save, MakeDir, Skip
  <2> QED BY <2>1, <2>2 DEF Control, Faulty
<1>10. CASE ArchiveEnd \/ Extracted
  BY <1>10 DEF ArchiveEnd, Extracted, Downloaded, Control, Goto, Return, Fail
<1>11. CASE ExtractWithLimit
  BY <1>11 DEF ExtractWithLimit, Control, Goto, Return, Fail
<1>12. CASE untar
  BY <1>12 DEF untar, Save, MakeDir, Spend, Advance, Skip, Control, Return, Fail, Faulty
<1>13. CASE extractZip
  BY <1>13 DEF extractZip, Save, MakeDir, Spend, Advance, Skip, Control, Return, Fail, Faulty
<1>14. CASE Done
  BY <1>14 DEF Done, vars, Control
<1> QED BY <1>0, <1>1, <1>2, <1>3, <1>4, <1>5, <1>6, <1>7, <1>8, <1>9, <1>10, <1>11, <1>12, <1>13, <1>14, <1>15 DEF Next
LEMMA RestTail ==
  ASSUME NEW xs \in Seq(Entry), NEW td, Rest(td, xs), td # <<>>
  PROVE  /\ Rest(Tail(td), xs) /\ Len(Tail(td)) = Len(td) - 1
         /\ Len(xs) - Len(td) + 1 \in 1..Len(xs) /\ Head(td) = xs[Len(xs) - Len(td) + 1]
<1>1. td \in Seq(Entry) /\ Len(td) \in Nat /\ Len(td) > 0 /\ Len(td) <= Len(xs) /\ Len(xs) \in Nat
  BY DEF Rest
<1>2. Tail(td) \in Seq(Entry) /\ Len(Tail(td)) = Len(td) - 1 /\ \A k \in 1..(Len(td) - 1) : Tail(td)[k] = td[k + 1]
  BY <1>1
<1>3. \A k \in 1..(Len(td) - 1) : Tail(td)[k] = xs[Len(xs) - (Len(td) - 1) + k]
  <2> TAKE k \in 1..(Len(td) - 1)
  <2>1. td[k + 1] = xs[Len(xs) - Len(td) + (k + 1)]
    BY <1>1 DEF Rest
  <2>2. Len(xs) - Len(td) + (k + 1) = Len(xs) - (Len(td) - 1) + k
    BY <1>1
  <2> QED BY <2>1, <2>2, <1>2
<1>4. Head(td) = td[1] /\ td[1] = xs[Len(xs) - Len(td) + 1]
  BY <1>1 DEF Rest
<1> QED BY <1>1, <1>2, <1>3, <1>4 DEF Rest

LEMMA RestAll ==
  ASSUME NEW xs \in Seq(Entry)
  PROVE  Rest(xs, xs)
BY DEF Rest

LEMMA HeadTail ==
  ASSUME todo \in Seq(Entry), todo # <<>>
  PROVE  e \in Entry /\ e.len \in Nat /\ Bytes(e) \in Nat /\ Tail(todo) \in Seq(Entry)
<1>1. e \in Entry /\ Tail(todo) \in Seq(Entry)
  BY DEF e
<1> QED BY <1>1 DEF Entry, Bytes

\* The members of a platform's archive: each by itself, and two of them.
LEMMA ArchiveName ==
  ASSUME NEW xs, PlatformArchive(xs), NEW i \in DOMAIN xs, xs[i].kind # "pax"
  PROVE  /\ xs[i].name # <<>> /\ (xs[i].kind = "dir" \/ Len(xs[i].name) > 1)
         /\ Avoids(xs[i].name, Still)
<1> DEFINE members == {k \in DOMAIN xs : xs[k].kind # "pax"}
<1>1. i \in members
  OBVIOUS
<1>2. \A k \in members : xs[k].name # <<>> /\ (xs[k].kind = "dir" \/ Len(xs[k].name) > 1)
  BY Zenon DEF PlatformArchive
<1>3. \A k \in members : Avoids(xs[k].name, Still)
  BY Zenon DEF PlatformArchive
<1> HIDE DEF members
<1> QED BY <1>1, <1>2, <1>3

LEMMA ArchivePair ==
  ASSUME NEW xs, PlatformArchive(xs), NEW i \in DOMAIN xs, xs[i].kind # "pax",
         NEW j \in DOMAIN xs, xs[j].kind # "pax"
  PROVE  /\ Head(xs[i].name) = Head(xs[j].name)
         /\ xs[i].name = xs[j].name /\ "dir" \notin {xs[i].kind, xs[j].kind} => i = j
<1> DEFINE members == {k \in DOMAIN xs : xs[k].kind # "pax"}
<1>1. i \in members /\ j \in members
  OBVIOUS
<1>2. \A k, l \in members : /\ Head(xs[k].name) = Head(xs[l].name)
                            /\ xs[k].name = xs[l].name /\ "dir" \notin {xs[k].kind, xs[l].kind} => k = l
  BY Zenon DEF PlatformArchive
<1> HIDE DEF members
<1> QED BY <1>1, <1>2

\* An entry of a platform's archive that is no header has a name below a directory.
LEMMA ArchiveMember ==
  ASSUME World(w), Protocol(w.url) = "git", Rest(todo, w.pages[1]), todo # <<>>, e.kind # "pax"
  PROVE  /\ e.name \in Seq(STRING) /\ e.name # <<>> /\ Head(e.name) \in STRING
         /\ e.kind = "dir" \/ Len(e.name) > 1
<1> DEFINE xs == w.pages[1]
           i  == Len(xs) - Len(todo) + 1
<1>1. xs \in Seq(Entry) /\ PlatformArchive(xs)
  BY WorldTypes
<1>2. i \in DOMAIN xs /\ e = xs[i] /\ e \in Entry
  BY <1>1, RestTail DEF e
<1>3. e.name # <<>> /\ (e.kind = "dir" \/ Len(e.name) > 1)
  BY <1>1, <1>2, ArchiveName
<1>4. e.name \in Seq(STRING)
  BY <1>2 DEF Entry
<1> QED BY <1>3, <1>4

LEMMA StreamInit == Init => Stream
<1> SUFFICES ASSUME Init PROVE Stream
  OBVIOUS
<1>1. World(w)
  BY DEF Init, World
<1>2. pc = "detect" /\ page = 0 /\ todo = <<>> /\ left = 0 /\ top = <<>>
  BY DEF Init
<1>7. found \in BOOLEAN /\ isFile \in BOOLEAN
  BY DEF Init
<1>5. w.pages \in Seq(Seq(Entry))
  BY <1>1, WorldTypes
<1>3. page \in 0..Len(w.pages)
  BY <1>2, <1>5
<1>4. left \in Int /\ left >= 0 /\ top \in Seq(STRING)
  BY <1>2
<1>6. todo \in Seq(Entry)
  BY <1>2
<1> QED BY <1>2, <1>3, <1>4, <1>6, <1>7 DEF Stream

\* Where nothing of the stream is touched but one entry is taken off.
LEMMA StreamAdvance ==
  ASSUME Chosen, Stream, todo # <<>>, UNCHANGED <<w, proto, page, top, isFile>>,
         pc' = pc \/ pc' = "done", pc # "archived",
         todo' = todo \/ todo' = Tail(todo),
         left' \in Int, limited => left' >= 0, found' \in BOOLEAN
  PROVE  Stream'
<1>1. todo' \in Seq(Entry)
  BY HeadTail DEF Stream
<1>2. (pc' \in {"archive", "archived"} => proto' = "git") /\ (pc' # "archived")
  BY DEF Stream
<1>3. limited' = limited
  BY DEF limited
<1> QED BY <1>1, <1>2, <1>3 DEF Stream

LEMMA StreamStep == Chosen /\ Stream /\ [Next]_vars => Stream'
<1> SUFFICES ASSUME Chosen, Stream, [Next]_vars PROVE Stream'
  OBVIOUS
<1>w. /\ w.pages \in Seq(Seq(Entry)) /\ Len(w.pages) > 0 /\ w.inner \in Seq(Entry)
      /\ w.pages[1] \in Seq(Entry) /\ w.s \in Settings /\ w.s.maxBytes \in 0..MaxInt
  <2>1. World(w)
    BY DEF Chosen
  <2>2. w.pages \in Seq(Seq(Entry)) /\ Len(w.pages) > 0 /\ w.inner \in Seq(Entry) /\ w.s \in Settings
    BY <2>1, WorldTypes
  <2> QED BY <2>2 DEF Settings
<1>k. ASSUME UNCHANGED <<w, proto, stream>>, isFile' \in BOOLEAN,
             pc' = "archive" => proto = "git", pc' # "archived"
      PROVE  Stream'
  BY <1>k DEF stream, Stream, limited
<1>0. CASE UNCHANGED vars \/ Done
  BY <1>0 DEF Done, vars, request, stream, Stream, limited
<1>1. CASE Detect
  <2>1. Stream /\ UNCHANGED <<w, stream, isFile>> /\ pc' \in {"done", "request"}
    BY <1>1 DEF Detect, Goto, Return
  <2> QED BY <2>1 DEF stream, Stream, limited
<1>2. CASE RequestHTTP \/ RequestS3 \/ RequestGCS \/ RequestOCI \/ Clone
  <2>1. \E p, secrets, label : /\ label \in {"body", "list", "pull"} \/ (label = "archive" /\ p = "git")
                               /\ Request(p, secrets, label)
    BY <1>2 DEF RequestHTTP, RequestS3, RequestGCS, RequestOCI, Clone
  <2>2. UNCHANGED <<w, proto, stream>> /\ isFile' = isFile /\ pc' # "archived" /\ (pc' = "archive" => proto = "git")
    BY <2>1 DEF Request, Goto, Return
  <2> QED BY <2>2, <1>k DEF Stream
<1>3. CASE InvalidKey
  BY <1>3, <1>k DEF InvalidKey, Fail, Return, request, Stream
<1>4. CASE fetchArchive
  <2>1. CASE UNCHANGED <<w, proto, stream>> /\ isFile' = isFile /\ pc' = "done"
    BY <2>1, <1>k DEF Stream
  <2>2. CASE /\ UNCHANGED <<w, proto, page, top, found, isFile>> /\ pc' = "archived"
             /\ todo' = w.pages[1] /\ left' = w.s.maxBytes
    <3>1. Rest(todo', w'.pages[1]) /\ todo' \in Seq(Entry)
      BY <2>2, <1>w, RestAll
    <3>2. left' \in Int /\ left' >= 0
      BY <2>2, <1>w, MaxIntAssumption
    <3>3. proto' = "git"
      BY <2>2, <1>4 DEF Stream, fetchArchive
    <3> QED BY <2>2, <3>1, <3>2, <3>3 DEF Stream
  <2> QED BY <1>4, <2>1, <2>2 DEF fetchArchive, Goto, Return, Fail
<1>5. CASE Body \/ Pull \/ HgClone
  <2>1. UNCHANGED <<w, proto, stream>> /\ isFile' \in BOOLEAN /\ pc' \in {"done", "extract", "move"}
    BY <1>5 DEF Body, Pull, HgClone, Save, Downloaded, Goto, Return, Fail, request, Stream, PulledFile
  <2> QED BY <2>1, <1>k
<1>6. CASE CopyEnd \/ HgMove \/ ArchiveEnd \/ Extracted
  <2>1. UNCHANGED <<w, proto, stream>> /\ isFile' \in BOOLEAN /\ pc' \in {"done", "extract"}
    BY <1>6 DEF CopyEnd, HgMove, ArchiveEnd, Extracted, Downloaded, Goto, Return, Fail, request, Stream
  <2> QED BY <2>1, <1>k
<1>7. CASE ListPage
  <2>1. CASE UNCHANGED <<w, proto, stream>> /\ isFile' \in BOOLEAN /\ pc' \in {"done", "extract"}
    BY <2>1, <1>k
  <2>2. CASE /\ page < Len(w.pages) /\ page' = page + 1 /\ todo' = w.pages[page']
             /\ UNCHANGED <<w, proto, pc, left, top, found, isFile>> /\ pc = "list"
    <3>1. page' \in 1..Len(w.pages)
      BY <2>2, <1>w DEF Stream
    <3>2. todo' \in Seq(Entry)
      BY <2>2, <3>1, <1>w
    <3> QED BY <2>2, <3>1, <3>2 DEF Stream, limited
  <2> QED BY <1>7, <2>1, <2>2 DEF ListPage, NextPage, Downloaded, Goto, Return, Fail, request, Stream
<1>8. CASE GetObject
  <2>1. /\ todo # <<>> /\ pc = "list" /\ UNCHANGED <<w, proto, page, top, isFile, left, found>>
        /\ pc' = pc \/ pc' = "done"
        /\ todo' = todo \/ todo' = Tail(todo)
    BY <1>8 DEF GetObject, Save, Skip, Advance, Return, Fail, request, stream
  <2> QED BY <2>1, StreamAdvance DEF Stream
<1>9. CASE OpenLocal
  <2>1. CASE UNCHANGED <<w, proto, stream>> /\ isFile' \in BOOLEAN /\ pc' \in {"done", "extract"}
    BY <2>1, <1>k
  <2>2. CASE UNCHANGED <<w, proto, page, left, top, found, isFile>> /\ todo' = w.pages[1] /\ pc' = "copy"
    BY <2>2, <1>w DEF Stream, limited
  <2> QED BY <1>9, <2>1, <2>2 DEF OpenLocal, Save, Downloaded, Goto, Return, Fail, request, Stream
<1>10. CASE copyDir
  <2>1. /\ todo # <<>> /\ pc = "copy" /\ UNCHANGED <<w, proto, page, top, isFile, left, found>>
        /\ pc' = pc \/ pc' = "done"
        /\ todo' = todo \/ todo' = Tail(todo)
    BY <1>10 DEF copyDir, Save, MakeDir, Advance, Return, Fail, request, stream
  <2> QED BY <2>1, StreamAdvance DEF Stream
<1>11. CASE ExtractWithLimit
  <2>1. CASE UNCHANGED <<w, proto, stream>> /\ isFile' = isFile /\ pc' = "done"
    BY <2>1, <1>k DEF Stream
  <2>2. CASE /\ UNCHANGED <<w, proto, page, top, found, isFile>> /\ pc' \in {"tar", "zip"}
             /\ todo' = w.inner /\ left' = w.s.maxBytes
    BY <2>2, <1>w, MaxIntAssumption DEF Stream
  <2> QED BY <1>11, <2>1, <2>2 DEF ExtractWithLimit, Goto, Return, Fail, request
<1>12. CASE untar \/ extractZip
  <2> DEFINE copy == writeFile(e.len, limited, left)
  <2>0. todo # <<>> /\ pc \in {"tar", "zip"}
    BY <1>12 DEF untar, extractZip
  <2>5. e.len \in Nat /\ left \in Int /\ limited \in BOOLEAN
    BY <2>0, HeadTail DEF Stream, limited
  <2>1. copy.n \in 0..e.len /\ (limited /\ copy.ok => copy.n <= left)
    BY <2>5, CopyFits
  <2> HIDE DEF copy
  <2>2. /\ UNCHANGED <<w, proto, page, top, isFile, found>>
        /\ pc' = pc \/ pc' = "done"
        /\ todo' = todo \/ todo' = Tail(todo)
    BY <1>12 DEF untar, extractZip, Save, MakeDir, Spend, Skip, Advance, Return, Fail, request, stream
  <2>3. \/ left' = left \/ left' = left - 0
        \/ limited /\ copy.ok /\ left' = left - copy.n
    BY <1>12 DEF untar, extractZip, Save, MakeDir, Spend, Skip, Advance, Return, Fail, request, stream, copy
  <2>4. left' \in Int /\ (limited => left' >= 0)
    BY <2>1, <2>3, <2>5 DEF Stream
  <2> QED BY <2>0, <2>2, <2>4, StreamAdvance DEF Stream
<1>13. CASE extractArchive
  <2> DEFINE copy == writeArchiveFile(Bytes(e), limited, left)
             wrap == IF top = <<>> THEN <<Head(e.name)>> ELSE top
  <2>0. todo # <<>> /\ pc = "archived" /\ UNCHANGED <<w, proto>>
    BY <1>13 DEF extractArchive, request
  <2>1. /\ Bytes(e) \in Nat /\ left \in Int /\ limited \in BOOLEAN
        /\ top \in Seq(STRING) /\ found \in BOOLEAN /\ proto = "git" /\ Rest(todo, w.pages[1])
    BY <2>0, HeadTail DEF Stream, limited
  <2>2. copy.n \in Nat /\ (limited /\ copy.ok => copy.n <= left)
    BY <2>1, CopyFits
  <2>3. e.kind # "pax" => wrap \in Seq(STRING)
    <3> HAVE e.kind # "pax"
    <3>1. Head(e.name) \in STRING
      BY <2>0, <2>1, ArchiveMember DEF Chosen
    <3>2. <<Head(e.name)>> \in Seq(STRING) /\ top \in Seq(STRING)
      BY <3>1, <2>1
    <3> QED BY <3>2
  <2> HIDE DEF copy, wrap
  <2>4. Rest(Tail(todo), w.pages[1]) /\ Tail(todo) \in Seq(Entry)
    BY <2>0, <2>1, <1>w, RestTail DEF Rest
  <2>5. CASE pc' = "done" /\ UNCHANGED <<stream, isFile>>
    BY <2>5, <2>0, <1>k DEF Stream
  <2>6. CASE Skip
    BY <2>6, <2>0, <2>4 DEF Skip, Advance, Stream, limited
  <2>7. CASE /\ e.kind # "pax" /\ todo' = Tail(todo) /\ top' = wrap /\ found' \in BOOLEAN
             /\ UNCHANGED <<pc, page, isFile>>
             /\ \/ left' = left - 0
                \/ copy.ok /\ left' = left - copy.n
    <3>1. left' \in Int /\ (limited => left' >= 0)
      BY <2>1, <2>2, <2>7 DEF Stream
    <3> QED BY <3>1, <2>7, <2>0, <2>3, <2>4 DEF Stream, limited
  <2> QED
    <3> DEFINE rel   == StripTop(e, wrap)
               cone  == archiveSelects(rel, w.subdir, e.kind = "dir")
               Next1(n) == /\ todo' = Tail(todo) /\ left' = left - n
                           /\ top' = wrap /\ found' = (found \/ (rel # <<>> /\ cone.under))
                           /\ UNCHANGED <<pc, result, page, isFile>>
    <3>1. \/ e.kind = "pax" /\ Skip
          \/ Fail
          \/ e.kind # "pax" /\ Next1(0)
          \/ e.kind # "pax" /\ copy.ok /\ Next1(copy.n)
      BY <1>13 DEF extractArchive, Save, MakeDir, copy, wrap
    <3>2. cone.under \in BOOLEAN
      BY DEF archiveSelects, IsPrefix
    <3> HIDE DEF rel, cone
    <3> QED BY <3>1, <3>2, <2>1, <2>5, <2>6, <2>7 DEF Fail, Return
<1> QED BY <1>0, <1>1, <1>2, <1>3, <1>4, <1>5, <1>6, <1>7, <1>8, <1>9, <1>10, <1>11, <1>12, <1>13 DEF Next

Typed == Chosen /\ Sent /\ Kinds(tree) /\ Control /\ Stream

LEMMA TypedCorrect == Spec => []Typed
<1>1. Init => Typed
  BY ChosenInit, SentInit, KindsInit, ControlInit, StreamInit DEF Typed
<1>2. Typed /\ [Next]_vars => Typed'
  <2> SUFFICES ASSUME Typed, [Next]_vars PROVE Typed'
    OBVIOUS
  <2>1. Chosen' /\ Sent' /\ Control' /\ Stream'
    BY ChosenStep, SentStep, ControlStep, StreamStep DEF Typed
  <2>2. Kinds(tree)'
    BY KindsStep DEF Typed, Kinds
  <2> QED BY <2>1, <2>2 DEF Typed
<1> QED BY <1>1, <1>2, PTL DEF Spec

\* TypeOK: every variable has a value of its type, and what is left of a limit is
\* never negative (extractor.remaining, extractArchive's remaining).
THEOREM TypeCorrect == Spec => []TypeOK
<1>1. ASSUME Typed PROVE TypeOK
  <2>1. World(w)
    BY <1>1 DEF Typed, Chosen
  <2>2. w.s.maxBytes \in 0..MaxInt /\ w.inner \in Seq(Entry)
    BY <2>1, WorldTypes DEF Settings
  <2>3. proto \in Protocols \cup {"none"}
    BY <1>1, ProtocolDetects, WorldTypes DEF Typed, Chosen
  <2>4. \A x \in sent : x.source \in SecretSources
    BY <1>1 DEF Typed, Sent, Proper
  <2> QED BY <1>1, <2>2, <2>3, <2>4 DEF Typed, Kinds, Control, Stream, TypeOK
<1> QED BY <1>1, TypedCorrect, PTL
-----------------------------------------------------------------------------
(***************************************************************************)
(* The archive of a platform and the trees of the commit.                  *)
(***************************************************************************)
Taken(x) == x.kind \in {"file", "link"} /\ archiveSelects(Tail(x.name), w.subdir, FALSE).selected
Spot(x) == Root \o Tail(x.name)

\* The tree holds the files taken of the first n entries, and no others.
Unpacked(n) ==
  LET xs == w.pages[1]
  IN  /\ \A p \in Files(tree) : \E i \in 1..n : Taken(xs[i]) /\ p = Spot(xs[i])
      /\ \A i \in 1..n : Taken(xs[i]) =>
           Spot(xs[i]) \in DOMAIN tree /\ tree[Spot(xs[i])] = File(xs[i], Bytes(xs[i]))

Wrapper ==
  LET xs == w.pages[1]
  IN  \A i \in 1..Len(xs) : xs[i].kind # "pax" => top = <<>> \/ top = <<Head(xs[i].name)>>

GitStages == {"request", "archive", "archived", "extract", "done"}

ArchiveInv ==
  LET xs == w.pages[1]
  IN  /\ pc = "detect" => tree = Fresh /\ top = <<>> /\ result = "none" /\ ~isFile
      /\ proto = "git" =>
           /\ pc \in GitStages /\ ~isFile
           /\ pc \in {"request", "archive"} => tree = Fresh /\ top = <<>>
           /\ pc = "archived" => left <= w.s.maxBytes /\ Wrapper
           /\ result = "ok" => pc = "done"
           /\ w.s.maxBytes < MaxInt =>
                /\ pc = "archived" => Unpacked(Len(xs) - Len(todo))
                /\ pc = "extract" \/ result = "ok" => Unpacked(Len(xs))
\* Two names with one head lie at one place only if they are the same.
LEMMA SpotInjective ==
  ASSUME NEW a \in Seq(STRING), NEW b \in Seq(STRING), a # <<>>, b # <<>>, Head(a) = Head(b),
         Root \o Tail(a) = Root \o Tail(b)
  PROVE  a = b
<1>1. Root \in Seq(STRING) /\ Tail(a) \in Seq(STRING) /\ Tail(b) \in Seq(STRING)
  BY RootAssumption
<1>2. Len(Tail(a)) = Len(a) - 1 /\ Len(Tail(b)) = Len(b) - 1 /\ Len(a) \in Nat /\ Len(b) \in Nat /\ Len(Root) \in Nat
  BY <1>1
<1>3. Len(Root \o Tail(a)) = Len(Root) + Len(Tail(a)) /\ Len(Root \o Tail(b)) = Len(Root) + Len(Tail(b))
  BY <1>1
<1>8. Len(Root) + Len(Tail(a)) = Len(Root) + Len(Tail(b))
  BY <1>3
<1>9. Len(Root) \in Nat /\ Len(Tail(a)) \in Nat /\ Len(Tail(b)) \in Nat
  BY <1>1
<1>10. \A i, j, k \in Nat : i + j = i + k => j = k
  OBVIOUS
<1>11. Len(Tail(a)) = Len(Tail(b))
  BY <1>8, <1>9, <1>10
<1>12. \A i, j \in Nat : i - 1 = j - 1 => i = j
  OBVIOUS
<1>13. Len(a) - 1 = Len(b) - 1
  BY <1>2, <1>11
<1>14. Len(a) \in Nat /\ Len(b) \in Nat
  BY <1>2
<1>4. Len(a) = Len(b)
  BY <1>12, <1>13, <1>14
<1>5. \A k \in 1..(Len(a) - 1) : a[k + 1] = b[k + 1]
  <2> TAKE k \in 1..(Len(a) - 1)
  <2>1. (Root \o Tail(a))[Len(Root) + k] = Tail(a)[k] /\ (Root \o Tail(b))[Len(Root) + k] = Tail(b)[k]
    BY <1>1, <1>2, <1>4
  <2> QED BY <2>1, <1>2, <1>4
<1>6. a[1] = b[1]
  OBVIOUS
<1>7. \A k \in 1..Len(a) : a[k] = b[k]
  <2> TAKE k \in 1..Len(a)
  <2>1. CASE k = 1
    BY <2>1, <1>6
  <2>2. CASE k # 1
    <3>1. k - 1 \in 1..(Len(a) - 1) /\ (k - 1) + 1 = k
      BY <2>2, <1>2
    <3> QED BY <3>1, <1>5
  <2> QED BY <2>1, <2>2
<1> QED BY <1>4, <1>7

\* The directory that wraps the archive is taken off the name of every member.
LEMMA Unwrapped ==
  ASSUME NEW x, x.name \in Seq(STRING), x.name # <<>>, x.kind = "dir" \/ Len(x.name) > 1
  PROVE  StripTop(x, <<Head(x.name)>>) = Tail(x.name)
<1>1. IsPrefix(<<Head(x.name)>>, x.name)
  <2>1. Len(<<Head(x.name)>>) = 1 /\ 1 <= Len(x.name)
    OBVIOUS
  <2>2. SubSeq(<<Head(x.name)>>, 1, 1) = SubSeq(x.name, 1, 1)
    OBVIOUS
  <2> QED BY <2>1, <2>2 DEF IsPrefix
<1> QED BY <1>1 DEF StripTop
LEMMA ArchiveInit == Init => ArchiveInv
<1> SUFFICES ASSUME Init PROVE ArchiveInv
  OBVIOUS
<1>1. pc = "detect" /\ proto = "none" /\ tree = Fresh /\ top = <<>> /\ result = "none" /\ ~isFile
  BY DEF Init
<1> QED BY <1>1 DEF ArchiveInv

\* Nothing to unpack yet: a tree without files is right for an archive of which
\* nothing came.
LEMMA UnpackedNone ==
  ASSUME tree = Fresh
  PROVE  Unpacked(0)
BY FreshFiles DEF Unpacked

\* One more entry, which is not taken.
LEMMA UnpackedMore ==
  ASSUME NEW n \in Nat, Unpacked(n), ~Taken(w.pages[1][n + 1]), w' = w,
         Files(tree') = Files(tree),
         \A q \in DOMAIN tree : q \in DOMAIN tree' /\ tree'[q] = tree[q]
  PROVE  Unpacked(n + 1)'
<1>1. 1..(n + 1) = 1..n \cup {n + 1}
  OBVIOUS
<1> QED BY <1>1 DEF Unpacked, Taken

\* One more entry, which is taken and of which everything is written.
LEMMA UnpackedFile ==
  ASSUME NEW n \in Nat, Unpacked(n), w' = w, w.pages[1] \in Seq(Entry), PlatformArchive(w.pages[1]),
         n + 1 \in DOMAIN w.pages[1], Taken(w.pages[1][n + 1]),
         tree' = Create(tree, Spot(w.pages[1][n + 1]), File(w.pages[1][n + 1], Bytes(w.pages[1][n + 1])))
  PROVE  Unpacked(n + 1)'
<1> DEFINE xs == w.pages[1]
           x == xs[n + 1]
<1>1. 1..(n + 1) = 1..n \cup {n + 1} /\ 1..n \subseteq DOMAIN xs
  OBVIOUS
<1>2. /\ Files(tree') = Files(tree) \cup {Spot(x)}
      /\ Spot(x) \in DOMAIN tree' /\ tree'[Spot(x)] = File(x, Bytes(x))
      /\ \A q \in DOMAIN tree \ {Spot(x)} : q \in DOMAIN tree' /\ tree'[q] = tree[q]
  BY CreateKeeps
<1>3. ASSUME NEW i \in 1..n, Taken(xs[i]) PROVE Spot(xs[i]) # Spot(x)
  <2>1. /\ i \in DOMAIN xs /\ i # n + 1 /\ xs[i] \in Entry /\ x \in Entry
        /\ xs[i].kind \notin {"pax", "dir"} /\ x.kind \notin {"pax", "dir"}
    BY <1>1, <1>3 DEF Taken
  <2>2. xs[i].name \in Seq(STRING) /\ x.name \in Seq(STRING)
    BY <2>1 DEF Entry
  <2>3. xs[i].name # <<>> /\ x.name # <<>> /\ Head(xs[i].name) = Head(x.name) /\ xs[i].name # x.name
    BY <2>1, ArchiveName, ArchivePair
  <2> HIDE DEF x
  <2> QED BY <2>2, <2>3, SpotInjective DEF Spot
<1>4. \A p \in Files(tree') : \E i \in 1..(n + 1) : Taken(xs[i]) /\ p = Spot(xs[i])
  BY <1>1, <1>2 DEF Unpacked
<1>5. \A i \in 1..(n + 1) : Taken(xs[i]) =>
         Spot(xs[i]) \in DOMAIN tree' /\ tree'[Spot(xs[i])] = File(xs[i], Bytes(xs[i]))
  <2> TAKE i \in 1..(n + 1)
  <2> HAVE Taken(xs[i])
  <2>1. CASE i = n + 1
    BY <2>1, <1>2
  <2>2. CASE i \in 1..n
    BY <2>2, <1>2, <1>3 DEF Unpacked
  <2> QED BY <1>1, <2>1, <2>2
<1>6. \A y : Taken(y)' <=> Taken(y)
  BY DEF Taken
<1> QED BY <1>4, <1>5, <1>6 DEF Unpacked

LEMMA LongTail ==
  ASSUME NEW s \in Seq(STRING), Len(s) > 1
  PROVE  Tail(s) # <<>>
<1> DEFINE t == Tail(s)
<1>1. Len(t) = Len(s) - 1 /\ Len(s) \in Nat
  OBVIOUS
<1> HIDE DEF t
<1>2. Len(t) # 0
  BY <1>1
<1>3. t # <<>>
  BY <1>2
<1> QED BY <1>3 DEF t

\* The steps of the archive's download, for a member that is no header: what the
\* names extractArchive works with are.
LEMMA Member ==
  ASSUME Typed, ArchiveInv, pc = "archived", todo # <<>>, e.kind # "pax"
  PROVE  LET wrap == IF top = <<>> THEN <<Head(e.name)>> ELSE top
             rel  == StripTop(e, wrap)
         IN  /\ wrap = <<Head(e.name)>> /\ rel = Tail(e.name)
             /\ e.kind # "dir" => rel # <<>>
             /\ \A j \in 1..Len(w.pages[1]) : w.pages[1][j].kind # "pax" => wrap = <<Head(w.pages[1][j].name)>>
<1> DEFINE xs == w.pages[1]
           i  == Len(xs) - Len(todo) + 1
           wrap == IF top = <<>> THEN <<Head(e.name)>> ELSE top
<1>1. World(w) /\ proto = "git" /\ Protocol(w.url) = "git" /\ Rest(todo, xs)
  BY DEF Typed, Chosen, Stream
<1>2. xs \in Seq(Entry) /\ PlatformArchive(xs)
  BY <1>1, WorldTypes
<1>3. i \in 1..Len(xs) /\ e = xs[i]
  BY <1>1, <1>2, RestTail DEF e
<1>4. e.name \in Seq(STRING) /\ e.name # <<>> /\ (e.kind = "dir" \/ Len(e.name) > 1)
  BY <1>1, ArchiveMember
<1>5. top = <<>> \/ top = <<Head(e.name)>>
  BY <1>1, <1>3 DEF ArchiveInv, Wrapper
<1>6. wrap = <<Head(e.name)>>
  BY <1>5
<1>7. StripTop(e, wrap) = Tail(e.name)
  BY <1>4, <1>6, Unwrapped
<1>8. e.kind # "dir" => Tail(e.name) # <<>>
  BY <1>4, LongTail
<1>9. \A j \in 1..Len(xs) : xs[j].kind # "pax" => Head(xs[j].name) = Head(e.name)
  <2> TAKE j \in 1..Len(xs)
  <2> HAVE xs[j].kind # "pax"
  <2>1. j \in DOMAIN xs /\ i \in DOMAIN xs /\ xs[i].kind # "pax"
    BY <1>2, <1>3
  <2>2. Head(xs[j].name) = Head(xs[i].name)
    BY <1>2, <2>1, ArchivePair
  <2> QED BY <2>2, <1>3
<1> QED BY <1>6, <1>7, <1>8, <1>9

LEMMA ArchiveMemberStep ==
  ASSUME Typed, ArchiveInv, extractArchive
  PROVE  ArchiveInv'
<1> DEFINE xs == w.pages[1]
           wrap == IF top = <<>> THEN <<Head(e.name)>> ELSE top
           rel  == StripTop(e, wrap)
           cone == archiveSelects(rel, w.subdir, e.kind = "dir")
           copy == writeArchiveFile(Bytes(e), limited, left)
           More(k) == /\ todo' = Tail(todo) /\ left' = left - k /\ top' = wrap
                      /\ UNCHANGED <<pc, result, isFile>>
<1>1. pc = "archived" /\ todo # <<>> /\ w' = w /\ proto' = proto
  BY DEF extractArchive, request
<1>2. World(w) /\ proto = "git" /\ Protocol(w.url) = "git" /\ Rest(todo, xs) /\ left \in Int
      /\ (limited => left >= 0)
  BY <1>1 DEF Typed, Chosen, Stream
<1>3. xs \in Seq(Entry) /\ PlatformArchive(xs) /\ w.s.maxBytes \in 0..MaxInt
  BY <1>2, WorldTypes DEF Settings
<1>21. todo \in Seq(Entry) /\ Len(todo) \in Nat /\ Len(xs) \in Nat /\ Len(todo) <= Len(xs)
  BY <1>2, <1>3 DEF Rest
<1>25. Len(xs) - Len(todo) \in Nat
  BY <1>21
<1>20. PICK n \in Nat : n = Len(xs) - Len(todo)
  BY <1>25
<1>22. Len(Tail(todo)) = Len(todo) - 1 /\ n + 1 \in 1..Len(xs) /\ Head(todo) = xs[n + 1]
  BY <1>1, <1>2, <1>3, <1>20, RestTail
<1>23. Len(xs) - (Len(todo) - 1) = n + 1
  BY <1>20, <1>21
<1>24. e \in Entry /\ Bytes(e) \in Nat
  BY <1>1, <1>21, HeadTail
<1>4. /\ n + 1 \in DOMAIN xs /\ e = xs[n + 1] /\ e \in Entry /\ Bytes(e) \in Nat
      /\ Len(xs) - Len(Tail(todo)) = n + 1
  <2>1. n + 1 \in DOMAIN xs
    BY <1>3, <1>22
  <2>2. e = xs[n + 1]
    BY <1>22 DEF e
  <2>3. Len(xs) - Len(Tail(todo)) = n + 1
    BY <1>22, <1>23
  <2> QED BY <1>24, <2>1, <2>2, <2>3
<1>5. left <= w.s.maxBytes /\ Wrapper /\ ~isFile /\ result # "ok" /\ (w.s.maxBytes < MaxInt => Unpacked(n))
  BY <1>1, <1>2, <1>20 DEF ArchiveInv
<1>6. CASE Skip /\ e.kind = "pax"
  <2>1. todo' = Tail(todo) /\ UNCHANGED <<pc, result, top, isFile, left, tree>>
    BY <1>6 DEF Skip, Advance
  <2>2. w.s.maxBytes < MaxInt => Unpacked(n + 1)'
    <3> HAVE w.s.maxBytes < MaxInt
    <3>1. ~Taken(xs[n + 1])
      BY <1>4, <1>6 DEF Taken
    <3>2. Files(tree') = Files(tree) /\ \A q \in DOMAIN tree : q \in DOMAIN tree' /\ tree'[q] = tree[q]
      BY <2>1
    <3> QED BY <1>1, <1>4, <1>5, <3>1, <3>2, UnpackedMore
  <2>3. Wrapper'
    BY <1>1, <1>5, <2>1 DEF Wrapper
  <2>4. (Len(w.pages[1]) - Len(todo))' = n + 1
    BY <1>1, <1>4, <2>1
  <2> HIDE DEF xs
  <2> QED BY <1>1, <1>2, <1>5, <2>1, <2>2, <2>3, <2>4 DEF ArchiveInv, GitStages
<1>7. CASE Fail
  BY <1>1, <1>2, <1>5, <1>7 DEF Fail, Return, stream, ArchiveInv, GitStages
<1> HIDE DEF copy
<1>8. ASSUME e.kind # "pax", NEW k \in Nat, More(k),
             w.s.maxBytes < MaxInt => Unpacked(n + 1)'
      PROVE  ArchiveInv'
  <2>1. \A j \in 1..Len(xs) : xs[j].kind # "pax" => wrap = <<Head(xs[j].name)>>
    BY <1>1, <1>8, Member
  <2> HIDE DEF wrap
  <2>2. Wrapper'
    BY <1>1, <1>8, <2>1 DEF Wrapper
  <2>3. left' <= w.s.maxBytes
    BY <1>2, <1>3, <1>5, <1>8
  <2>4. (Len(w.pages[1]) - Len(todo))' = n + 1
    BY <1>1, <1>4, <1>8
  <2> HIDE DEF xs
  <2> QED BY <1>1, <1>2, <1>5, <1>8, <2>2, <2>3, <2>4 DEF ArchiveInv, GitStages
<1>9. ASSUME e.kind # "pax"
      PROVE  /\ rel = Tail(e.name) /\ (e.kind # "dir" => rel # <<>>)
             /\ Taken(e) <=> e.kind # "dir" /\ cone.selected
  <2>1. rel = Tail(e.name) /\ (e.kind # "dir" => rel # <<>>)
    BY <1>1, <1>9, Member
  <2>2. e.kind \in {"file", "dir", "link"}
    BY <1>4, <1>9 DEF Entry
  <2> HIDE DEF rel
  <2>3. cone.selected <=> IsPrefix(w.subdir, rel) \/ (e.kind # "dir" /\ Front(rel) \in ancestorDirs(w.subdir))
    BY DEF archiveSelects
  <2>4. Taken(e) <=> e.kind \in {"file", "link"}
                     /\ (IsPrefix(w.subdir, rel) \/ Front(rel) \in ancestorDirs(w.subdir))
    BY <2>1 DEF Taken, archiveSelects
  <2> QED BY <2>1, <2>2, <2>3, <2>4
<1>10. ASSUME e.kind # "pax", More(0), ~Taken(e), Files(tree') = Files(tree),
              \A q \in DOMAIN tree : q \in DOMAIN tree' /\ tree'[q] = tree[q]
       PROVE  ArchiveInv'
  <2>1. w.s.maxBytes < MaxInt => Unpacked(n + 1)'
    <3> HAVE w.s.maxBytes < MaxInt
    <3> QED BY <1>1, <1>4, <1>5, <1>10, UnpackedMore
  <2> HIDE DEF wrap
  <2> QED BY <1>8, <1>10, <2>1
<1>11. ASSUME e.kind # "pax", Taken(e), More(copy.n), copy.ok,
              tree' = Create(tree, Root \o rel, File(e, copy.n))
       PROVE  ArchiveInv'
  <2>1. copy.n \in Nat
    <3>1. limited \in BOOLEAN
      BY DEF limited
    <3> QED BY <1>2, <1>4, <3>1, CopyFits DEF copy
  <2>2. w.s.maxBytes < MaxInt => Unpacked(n + 1)'
    <3> HAVE w.s.maxBytes < MaxInt
    <3>1. w.s.maxBytes \in 0..(MaxInt - 1)
      BY <1>3, MaxIntAssumption
    <3>2. copy.n = Bytes(e)
      BY <1>2, <1>4, <1>5, <1>11, <3>1, MemberCopy DEF copy, limited
    <3>3. tree' = Create(tree, Spot(e), File(e, Bytes(e)))
      BY <1>9, <1>11, <3>2 DEF Spot
    <3> QED BY <1>1, <1>3, <1>4, <1>5, <1>11, <3>3, UnpackedFile
  <2> HIDE DEF wrap
  <2> QED BY <1>8, <1>11, <2>1, <2>2
<1> QED
  <2>1. \/ e.kind = "pax" /\ Skip
        \/ Fail
        \/ e.kind # "pax" /\ More(0) /\ UNCHANGED tree /\ (rel = <<>> \/ ~cone.selected)
        \/ e.kind = "dir" /\ More(0) /\ tree' = MkdirAll(tree, Root \o rel)
        \/ /\ e.kind \notin {"pax", "dir"} /\ cone.selected /\ copy.ok /\ More(copy.n)
           /\ tree' = Create(tree, Root \o rel, File(e, copy.n))
    BY DEF extractArchive, Save, MakeDir, copy
  <2>2. CASE e.kind # "pax" /\ More(0) /\ UNCHANGED tree /\ (rel = <<>> \/ ~cone.selected)
    BY <2>2, <1>9, <1>10
  <2>3. CASE e.kind = "dir" /\ More(0) /\ tree' = MkdirAll(tree, Root \o rel)
    BY <2>3, <1>9, <1>10, MkdirAllKeeps
  <2>4. CASE /\ e.kind \notin {"pax", "dir"} /\ cone.selected /\ copy.ok /\ More(copy.n)
             /\ tree' = Create(tree, Root \o rel, File(e, copy.n))
    BY <2>4, <1>9, <1>11
  <2> HIDE DEF wrap, rel, cone, copy, More
  <2> QED BY <2>1, <2>2, <2>3, <2>4, <1>6, <1>7

LEMMA ArchiveStep == Typed /\ ArchiveInv /\ [Next]_vars => ArchiveInv'
<1> SUFFICES ASSUME Typed, ArchiveInv, [Next]_vars PROVE ArchiveInv'
  OBVIOUS
<1>1. CASE UNCHANGED vars \/ Done
  <2>1. UNCHANGED <<w, pc, proto, todo, left, top, tree, isFile, result>>
    BY <1>1 DEF Done, vars, request, stream
  <2>2. Wrapper' <=> Wrapper
    BY <2>1 DEF Wrapper
  <2>3. \A n : Unpacked(n)' <=> Unpacked(n)
    BY <2>1 DEF Unpacked, Taken
  <2> QED BY <2>1, <2>2, <2>3 DEF ArchiveInv
<1>2. CASE Detect
  <2>1. /\ pc = "detect" /\ UNCHANGED <<tree, top, isFile>>
        /\ \/ pc' = "request" /\ result' = result
           \/ pc' = "done" /\ result' = "err"
    BY <1>2 DEF Detect, Goto, Return, stream
  <2>2. tree = Fresh /\ top = <<>> /\ ~isFile /\ result = "none"
    BY <2>1 DEF ArchiveInv
  <2> QED BY <2>1, <2>2 DEF ArchiveInv, GitStages
<1>3. CASE Next /\ ~Detect /\ proto # "git"
  BY <1>3, Stays DEF ArchiveInv
<1>4. CASE Next /\ ~Detect /\ ~Done /\ proto = "git"
  <2>1. w' = w /\ proto' = "git" /\ pc \in GitStages /\ pc # "detect" /\ (pc' # "detect") /\ ~isFile
    BY <1>4, Stays DEF ArchiveInv
  <2>2. Clone \/ fetchArchive \/ extractArchive \/ ArchiveEnd \/ ExtractWithLimit
    BY <1>4, <2>1 DEF Next, RequestHTTP, RequestS3, RequestGCS, InvalidKey, RequestOCI, Request, Body, ListPage,
         GetObject, Pull, OpenLocal, copyDir, CopyEnd, HgClone, HgMove, untar, extractZip, Extracted, GitStages
  <2>3. CASE Clone
    <3>1. \E s : Request("git", s, "archive")
      BY <2>3 DEF Clone
    <3>2. /\ pc = "request" /\ UNCHANGED <<tree, top, isFile>>
          /\ \/ pc' = "archive" /\ result' = result
             \/ pc' = "done" /\ result' = "err"
      BY <3>1 DEF Request, Goto, Return, stream
    <3>3. tree = Fresh /\ top = <<>> /\ result # "ok"
      BY <1>4, <3>2 DEF ArchiveInv
    <3> QED BY <2>1, <3>2, <3>3 DEF ArchiveInv, GitStages
  <2>4. CASE fetchArchive
    <3>1. /\ pc = "archive" /\ UNCHANGED <<tree, top, isFile>>
          /\ \/ pc' = "archived" /\ result' = result /\ todo' = w.pages[1] /\ left' = w.s.maxBytes
             \/ pc' = "done" /\ result' = "err"
      BY <2>4 DEF fetchArchive, Fail, Goto, Return, stream
    <3>2. tree = Fresh /\ top = <<>> /\ result # "ok"
      BY <1>4, <3>1 DEF ArchiveInv
    <3>3. CASE pc' = "done" /\ result' = "err"
      BY <2>1, <3>1, <3>3 DEF ArchiveInv, GitStages
    <3>4. CASE pc' = "archived" /\ result' = result /\ todo' = w.pages[1] /\ left' = w.s.maxBytes
      <4>1. Wrapper'
        BY <3>1, <3>2 DEF Wrapper
      <4>2. Unpacked(0)'
        BY <3>1, <3>2, FreshFiles DEF Unpacked, Fresh
      <4>3. w.pages[1] \in Seq(Entry) /\ w.s.maxBytes \in Int
        BY WorldTypes, MaxIntAssumption DEF Typed, Chosen, Settings
      <4>4. (Len(w.pages[1]) - Len(todo))' = 0
        BY <2>1, <3>4, <4>3
      <4>5. left' <= w'.s.maxBytes
        BY <2>1, <3>4, <4>3
      <4> QED BY <2>1, <3>1, <3>2, <3>4, <4>1, <4>2, <4>4, <4>5 DEF ArchiveInv, GitStages
    <3> QED BY <3>1, <3>3, <3>4
  <2>5. CASE extractArchive
    BY <2>5, ArchiveMemberStep
  <2>6. CASE ArchiveEnd
    <3>1. /\ pc = "archived" /\ todo = <<>> /\ UNCHANGED tree /\ ~isFile'
          /\ \/ pc' = "extract" /\ result' = result
             \/ pc' = "done" /\ result' = "err"
      BY <2>1, <2>6 DEF ArchiveEnd, Fail, Downloaded, Goto, Return
    <3>2. result # "ok" /\ (w.s.maxBytes < MaxInt => Unpacked(Len(w.pages[1]) - Len(todo)))
      BY <1>4, <3>1 DEF ArchiveInv
    <3>3. w.pages[1] \in Seq(Entry)
      BY WorldTypes DEF Typed, Chosen
    <3>4. Len(w.pages[1]) - Len(todo) = Len(w.pages[1])
      BY <3>1, <3>3
    <3>5. \A n : Unpacked(n)' <=> Unpacked(n)
      BY <2>1, <3>1 DEF Unpacked, Taken
    <3>6. w.s.maxBytes < MaxInt => Unpacked(Len(w.pages[1]))'
      BY <2>1, <3>2, <3>4, <3>5
    <3> QED BY <2>1, <3>1, <3>2, <3>6 DEF ArchiveInv, GitStages
  <2>7. CASE ExtractWithLimit
    <3>1. pc = "extract" /\ pc' = "done" /\ result' = "ok" /\ UNCHANGED <<tree, isFile>>
      BY <2>1, <2>7 DEF ExtractWithLimit, Return
    <3>2. w.s.maxBytes < MaxInt => Unpacked(Len(w.pages[1]))
      BY <1>4, <3>1 DEF ArchiveInv
    <3>5. \A n : Unpacked(n)' <=> Unpacked(n)
      BY <2>1, <3>1 DEF Unpacked, Taken
    <3>6. w.s.maxBytes < MaxInt => Unpacked(Len(w.pages[1]))'
      BY <2>1, <3>2, <3>5
    <3> QED BY <2>1, <3>1, <3>6 DEF ArchiveInv, GitStages
  <2> QED BY <2>2, <2>3, <2>4, <2>5, <2>6, <2>7
<1> QED BY <1>1, <1>2, <1>3, <1>4

\* The archive's download ends well only if something of the subdirectory came, which
\* the commit then has.
InCommit == \E x \in Commit : IsPrefix(w.subdir, x.name)

FoundInv ==
  /\ pc = "detect" => ~found /\ result = "none"
  /\ proto = "git" =>
       /\ pc \in {"request", "archive"} => ~found
       /\ found => InCommit
       /\ pc = "extract" \/ result = "ok" => w.subdir = <<>> \/ InCommit
       /\ result = "ok" => pc = "done"

LEMMA FoundInit == Init => FoundInv
<1> SUFFICES ASSUME Init PROVE FoundInv
  OBVIOUS
<1>1. pc = "detect" /\ proto = "none" /\ ~found /\ result = "none"
  BY DEF Init
<1> QED BY <1>1 DEF FoundInv

\* A member is one of the subdirectory only if the commit has it there.
LEMMA FoundMember ==
  ASSUME Typed, ArchiveInv, extractArchive
  PROVE  \/ pc' = "done" /\ result' = "err" /\ found' = found
         \/ pc' = pc /\ result' = result /\ (found' => found \/ InCommit)
<1> DEFINE wrap == IF top = <<>> THEN <<Head(e.name)>> ELSE top
           rel  == StripTop(e, wrap)
           cone == archiveSelects(rel, w.subdir, e.kind = "dir")
<1>1. pc = "archived" /\ todo # <<>>
  BY DEF extractArchive
<1>2. CASE e.kind = "pax"
  BY <1>2 DEF extractArchive, Skip, Advance
<1>3. CASE e.kind # "pax"
  <2>1. rel = Tail(e.name)
    BY <1>1, <1>3, Member
  <2>2. e \in ToSet(w.pages[1]) /\ e \in Entry
    <3>1. World(w) /\ proto = "git" /\ Protocol(w.url) = "git" /\ Rest(todo, w.pages[1])
      BY <1>1 DEF Typed, Chosen, Stream, ArchiveInv
    <3>2. w.pages[1] \in Seq(Entry)
      BY <3>1, WorldTypes
    <3> QED BY <1>1, <3>1, <3>2, RestTail DEF e, ToSet
  <2>3. [e EXCEPT !.name = Tail(e.name)] \in Commit
    BY <1>3, <2>2 DEF Commit
  <2>4. [e EXCEPT !.name = Tail(e.name)].name = Tail(e.name)
    BY <2>2 DEF Entry
  <2>5. cone.under => InCommit
    BY <2>1, <2>3, <2>4 DEF archiveSelects, InCommit
  <2> HIDE DEF cone, rel, wrap
  <2>6. \/ Fail
        \/ UNCHANGED <<pc, result>> /\ found' = (found \/ (rel # <<>> /\ cone.under))
    <3>1. \A x, p, copy, n : Save(x, p, copy, UNCHANGED <<pc, result>> /\ n) => Fail \/ (UNCHANGED <<pc, result>> /\ n)
      BY DEF Save
    <3> QED BY <1>3 DEF extractArchive, Save, MakeDir, wrap, rel, cone
  <2> QED BY <2>5, <2>6 DEF Fail, Return, stream
<1> QED BY <1>2, <1>3

LEMMA FoundStep == Typed /\ ArchiveInv /\ FoundInv /\ [Next]_vars => FoundInv'
<1> SUFFICES ASSUME Typed, ArchiveInv, FoundInv, [Next]_vars PROVE FoundInv'
  OBVIOUS
<1>1. CASE UNCHANGED vars \/ Done
  <2>1. UNCHANGED <<w, pc, proto, found, result>>
    BY <1>1 DEF Done, vars, request, stream
  <2> QED BY <2>1 DEF FoundInv, InCommit, Commit
<1>2. CASE Detect
  <2>1. /\ pc = "detect" /\ found' = found
        /\ \/ pc' = "request" /\ result' = result
           \/ pc' = "done" /\ result' = "err"
    BY <1>2 DEF Detect, Goto, Return, stream
  <2> QED BY <2>1 DEF FoundInv
<1>3. CASE Next /\ ~Detect /\ proto # "git"
  BY <1>3, Stays DEF FoundInv
<1>4. CASE Next /\ ~Detect /\ ~Done /\ proto = "git"
  <2>1. w' = w /\ proto' = "git" /\ pc \in GitStages /\ pc # "detect" /\ (pc' # "detect") /\ ~isFile
    BY <1>4, Stays DEF ArchiveInv
  <2>2. Clone \/ fetchArchive \/ extractArchive \/ ArchiveEnd \/ ExtractWithLimit
    BY <1>4, <2>1 DEF Next, RequestHTTP, RequestS3, RequestGCS, InvalidKey, RequestOCI, Request, Body, ListPage,
         GetObject, Pull, OpenLocal, copyDir, CopyEnd, HgClone, HgMove, untar, extractZip, Extracted, GitStages
  <2>3. InCommit' <=> InCommit
    BY <2>1 DEF InCommit, Commit
  <2>4. CASE Clone
    <3>1. \E s : Request("git", s, "archive")
      BY <2>4 DEF Clone
    <3>2. /\ pc = "request" /\ found' = found
          /\ \/ pc' = "archive" /\ result' = result
             \/ pc' = "done" /\ result' = "err"
      BY <3>1 DEF Request, Goto, Return, stream
    <3> QED BY <1>4, <2>1, <3>2 DEF FoundInv
  <2>5. CASE fetchArchive
    <3>1. /\ pc = "archive" /\ found' = found
          /\ \/ pc' = "archived" /\ result' = result
             \/ pc' = "done" /\ result' = "err"
      BY <2>5 DEF fetchArchive, Fail, Goto, Return, stream
    <3> QED BY <1>4, <2>1, <3>1 DEF FoundInv
  <2>6. CASE extractArchive
    <3>1. pc = "archived" /\ result # "ok"
      BY <1>4, <2>6 DEF extractArchive, FoundInv
    <3> QED BY <1>4, <2>1, <2>3, <2>6, <3>1, FoundMember DEF FoundInv
  <2>7. CASE ArchiveEnd
    <3>1. /\ pc = "archived" /\ found' = found
          /\ \/ pc' = "extract" /\ result' = result /\ (w.subdir = <<>> \/ found)
             \/ pc' = "done" /\ result' = "err"
      BY <2>7 DEF ArchiveEnd, Fail, Downloaded, Goto, Return, stream
    <3> QED BY <1>4, <2>1, <2>3, <3>1 DEF FoundInv
  <2>8. CASE ExtractWithLimit
    <3>1. pc = "extract" /\ pc' = "done" /\ found' = found
      BY <2>1, <2>8 DEF ExtractWithLimit, Return, stream
    <3> QED BY <1>4, <2>1, <2>3, <3>1 DEF FoundInv
  <2> QED BY <2>2, <2>4, <2>5, <2>6, <2>7, <2>8
<1> QED BY <1>1, <1>2, <1>3, <1>4

LEMMA StrictlyLonger ==
  ASSUME NEW a \in Seq(STRING), NEW b \in Seq(STRING), NEW c \in Seq(STRING),
         IsPrefix(a, b), IsStrictPrefix(b, c)
  PROVE  IsStrictPrefix(a, c)
<1>1. IsPrefix(b, c) /\ b # c /\ IsPrefix(b, b)
  BY PrefixAt DEF IsStrictPrefix
<1>2. IsPrefix(a, c)
  BY <1>1, PrefixTransitive
<1>3. Len(a) <= Len(b) /\ Len(b) <= Len(c) /\ Len(a) \in Nat /\ Len(b) \in Nat
  BY <1>1, PrefixAt
<1>4. a = c => Len(b) = Len(c)
  BY <1>3
<1>5. IsPrefix(c, c)
  BY PrefixAt
<1>6. Len(b) # Len(c)
  BY <1>1, <1>5, PrefixesMeet
<1> QED BY <1>2, <1>4, <1>6 DEF IsStrictPrefix

\* git refuses a subdirectory that is no tree, and only that: a directory on the way
\* to one that is has something below it.
LEMMA RefusedWithoutTree ==
  ASSUME World(w), Protocol(w.url) = "git", GitRefuses
  PROVE  ~HasTree(Commit, w.subdir)
<1>1. w.subdir # <<>> /\ w.subdir \in Seq(STRING) /\ w.pages[1] \in Seq(Entry) /\ Len(w.subdir) \in Nat
  BY WorldTypes DEF GitRefuses
<1>2. PICK dir \in ancestorDirs(w.subdir) \cup {w.subdir} : ~HasTree(Commit, dir)
  BY DEF GitRefuses, sparseEntries
<1>3. CASE dir = w.subdir
  BY <1>2, <1>3
<1>4. CASE dir \in ancestorDirs(w.subdir)
  <2>1. dir # <<>>
    BY <1>2 DEF HasTree
  <2>2. PICK i \in 0..(Len(w.subdir) - 1) : dir = SubSeq(w.subdir, 1, i)
    BY <1>4, <2>1 DEF ancestorDirs
  <2>3. dir \in Seq(STRING) /\ IsPrefix(dir, w.subdir)
    BY <1>1, <2>2, FirstSegments
  <2>4. ASSUME NEW x \in Commit, IsStrictPrefix(w.subdir, x.name) PROVE FALSE
    <3>1. PICK y \in ToSet(w.pages[1]) : y.kind # "pax" /\ x = [y EXCEPT !.name = Tail(y.name)]
      BY DEF Commit
    <3>2. y \in Entry
      BY <1>1 DEF ToSet
    <3>3. x.name = Tail(y.name)
      BY <3>1, <3>2 DEF Entry
    <3>4. x.name \in Seq(STRING)
      <4>1. PICK k \in DOMAIN w.pages[1] : y = w.pages[1][k]
        BY DEF ToSet
      <4>2. y.name # <<>>
        <5>1. PlatformArchive(w.pages[1])
          BY WorldTypes
        <5>2. w.pages[1][k].kind # "pax"
          BY <3>1, <4>1
        <5> QED BY <4>1, <5>1, <5>2, ArchiveName
      <4>3. PICK n \in Seq(STRING) : n = y.name
        BY <3>2 DEF Entry
      <4>4. n # <<>> /\ x.name = Tail(n)
        BY <3>3, <4>2, <4>3
      <4>5. Tail(n) \in Seq(STRING)
        BY <4>4
      <4> QED BY <4>4, <4>5
    <3>5. IsStrictPrefix(dir, x.name)
      BY <1>1, <2>3, <2>4, <3>4, StrictlyLonger
    <3> QED BY <1>2, <3>5 DEF HasTree
  <2> QED BY <1>1, <2>4 DEF HasTree
<1> QED BY <1>2, <1>3, <1>4

\* The stream and the trees select alike: what lies in the subdirectory, and the
\* files on the way to it, a file of the subdirectory's own name among them.
LEMMA ConeAgrees ==
  ASSUME NEW rel \in Seq(STRING), rel # <<>>, NEW subdir \in Seq(STRING)
  PROVE  archiveSelects(rel, subdir, FALSE).selected <=>
           \/ subdir = <<>>
           \/ Front(rel) \in ancestorDirs(subdir)
           \/ IsStrictPrefix(subdir, rel)
<1>1. archiveSelects(rel, subdir, FALSE).selected <=> IsPrefix(subdir, rel) \/ Front(rel) \in ancestorDirs(subdir)
  BY DEF archiveSelects
<1>2. subdir = <<>> => IsPrefix(subdir, rel)
  <2> HAVE subdir = <<>>
  <2>1. Len(subdir) = 0 /\ Len(rel) \in Nat
    OBVIOUS
  <2>2. SubSeq(subdir, 1, 0) = <<>> /\ SubSeq(rel, 1, 0) = <<>>
    OBVIOUS
  <2> QED BY <2>1, <2>2 DEF IsPrefix
<1>3. IsPrefix(subdir, rel) => IsStrictPrefix(subdir, rel) \/ subdir = rel
  BY DEF IsStrictPrefix
<1>4. IsStrictPrefix(subdir, rel) => IsPrefix(subdir, rel)
  BY DEF IsStrictPrefix
<1>5. Front(rel) \in ancestorDirs(rel)
  <2>1. Front(rel) = SubSeq(rel, 1, Len(rel) - 1) /\ Len(rel) - 1 \in 0..(Len(rel) - 1)
    BY DEF Front
  <2> QED BY <2>1 DEF ancestorDirs
<1> QED BY <1>1, <1>2, <1>3, <1>4, <1>5

LEMMA TakenByGit ==
  ASSUME NEW y \in Entry, y.name # <<>>, Tail(y.name) # <<>>, y.kind = "file", y \in ToSet(w.pages[1]),
         w.subdir \in Seq(STRING)
  PROVE  Taken(y) <=> [y EXCEPT !.name = Tail(y.name)] \in ByGit
<1> DEFINE x == [y EXCEPT !.name = Tail(y.name)]
<1>1. y.name \in Seq(STRING) /\ Tail(y.name) \in Seq(STRING)
  BY DEF Entry
<1>2. x.name = Tail(y.name) /\ x.kind = "file"
  BY DEF Entry
<1>3. x \in Commit
  BY DEF Commit
<1>4. Taken(y) <=> archiveSelects(Tail(y.name), w.subdir, FALSE).selected
  BY DEF Taken
<1> HIDE DEF x
<1>5. x \in ByGit <=> \/ w.subdir = <<>>
                      \/ Front(Tail(y.name)) \in ancestorDirs(w.subdir)
                      \/ w.subdir # <<>> /\ IsStrictPrefix(w.subdir, Tail(y.name))
  BY <1>2, <1>3 DEF ByGit, sparseEntries, materialisable
<1> QED BY <1>1, <1>4, <1>5, ConeAgrees DEF x

\* ArchiveLikeGit: the archive of a platform is unpacked to the tree that the trees
\* of the commit would give, whatever the platform's archive, the subdirectory and
\* the limit below MaxInt are; and where git refuses the subdirectory it is unpacked
\* only for an entry of just that name (extractArchive and archiveSelects, against
\* sparseEntries).
THEOREM ArchiveLikeGitCorrect == Spec => []ArchiveLikeGit
<1>1. ASSUME Typed, ArchiveInv, FoundInv PROVE ArchiveLikeGit
  <2> DEFINE xs == w.pages[1]
  <2>8. ASSUME result = "ok", proto = "git", GitRefuses
        PROVE  ~HasTree(Commit, w.subdir) /\ \E x \in Commit : x.name = w.subdir
    <3>1. World(w) /\ Protocol(w.url) = "git" /\ w.subdir # <<>> /\ InCommit
      BY <1>1, <2>8 DEF ArchiveInv, FoundInv, Typed, Chosen, GitRefuses
    <3>2. ~HasTree(Commit, w.subdir)
      BY <2>8, <3>1, RefusedWithoutTree
    <3>3. PICK x \in Commit : IsPrefix(w.subdir, x.name)
      BY <3>1 DEF InCommit
    <3>4. ~IsStrictPrefix(w.subdir, x.name)
      BY <3>2 DEF HasTree
    <3> QED BY <3>2, <3>3, <3>4 DEF IsStrictPrefix
  <2> SUFFICES ASSUME result = "ok", proto = "git", w.s.maxBytes < MaxInt
               PROVE  /\ \A p \in Files(tree) : tree[p].of.kind = "file" =>
                           [tree[p].of EXCEPT !.name = Tail(@)] \in ByGit
                      /\ \A x \in ByGit : x.kind = "file" =>
                           /\ Root \o x.name \in Files(tree)
                           /\ tree[Root \o x.name].of.id = x.id
                           /\ tree[Root \o x.name].n = x.len
    BY <2>8 DEF ArchiveLikeGit
  <2>1. Unpacked(Len(xs))
    BY <1>1 DEF ArchiveInv
  <2>2. World(w) /\ Protocol(w.url) = "git"
    <3>1. pc # "detect"
      BY <1>1 DEF ArchiveInv
    <3> QED BY <1>1, <3>1 DEF Typed, Chosen
  <2>3. xs \in Seq(Entry) /\ PlatformArchive(xs) /\ w.subdir \in Seq(STRING)
    BY <2>2, WorldTypes
  <2>4. \A i \in 1..Len(xs) : xs[i] \in Entry /\ xs[i] \in ToSet(xs)
    BY <2>3 DEF ToSet
  <2>5. ASSUME NEW i \in 1..Len(xs), xs[i].kind \notin {"pax", "dir"}
        PROVE  xs[i].name # <<>> /\ Tail(xs[i].name) # <<>>
    <3>1. xs[i].name \in Seq(STRING)
      BY <2>4 DEF Entry
    <3>2. xs[i].name # <<>> /\ Len(xs[i].name) > 1
      <4>1. i \in DOMAIN xs /\ xs[i].kind # "pax" /\ xs[i].kind # "dir"
        BY <2>3, <2>5
      <4> QED BY <4>1, <2>3, ArchiveName
    <3> QED BY <3>1, <3>2, LongTail
  <2>6. ASSUME NEW p \in Files(tree), tree[p].of.kind = "file"
        PROVE  [tree[p].of EXCEPT !.name = Tail(@)] \in ByGit
    <3>1. PICK i \in 1..Len(xs) : Taken(xs[i]) /\ p = Spot(xs[i])
      BY <2>1 DEF Unpacked
    <3>2. tree[p] = File(xs[i], Bytes(xs[i]))
      BY <2>1, <3>1 DEF Unpacked
    <3>3. tree[p].of = xs[i]
      BY <3>2 DEF File
    <3>4. xs[i].kind = "file"
      BY <2>6, <3>3
    <3>5. [xs[i] EXCEPT !.name = Tail(xs[i].name)] \in ByGit
      BY <2>3, <2>4, <2>5, <3>1, <3>4, TakenByGit
    <3> QED BY <3>3, <3>5
  <2>7. ASSUME NEW x \in ByGit, x.kind = "file"
        PROVE  /\ Root \o x.name \in Files(tree)
               /\ tree[Root \o x.name].of.id = x.id /\ tree[Root \o x.name].n = x.len
    <3>1. x \in Commit
      BY DEF ByGit, sparseEntries
    <3>9. PICK y \in ToSet(xs) : y.kind # "pax" /\ x = [y EXCEPT !.name = Tail(y.name)]
      BY <3>1 DEF Commit
    <3>10. PICK i \in 1..Len(xs) : y = xs[i]
      BY <2>3 DEF ToSet
    <3>2. xs[i].kind # "pax" /\ x = [xs[i] EXCEPT !.name = Tail(xs[i].name)]
      BY <3>9, <3>10
    <3>3. /\ x.name = Tail(xs[i].name) /\ x.kind = xs[i].kind /\ x.id = xs[i].id /\ x.len = xs[i].len
          /\ xs[i] \in Entry
      BY <2>4, <3>2 DEF Entry
    <3>4. Taken(xs[i])
      BY <2>3, <2>4, <2>5, <2>7, <3>2, <3>3, TakenByGit
    <3>5. Spot(xs[i]) \in DOMAIN tree /\ tree[Spot(xs[i])] = File(xs[i], Bytes(xs[i]))
      BY <2>1, <3>4 DEF Unpacked
    <3>6. Spot(xs[i]) = Root \o x.name
      BY <3>3 DEF Spot
    <3>7. Bytes(xs[i]) = xs[i].len
      BY <2>7, <3>3 DEF Bytes
    <3>8. File(xs[i], xs[i].len).kind = "file" /\ File(xs[i], xs[i].len).of = xs[i] /\ File(xs[i], xs[i].len).n = xs[i].len
      BY DEF File
    <3> HIDE DEF xs
    <3> QED BY <3>3, <3>5, <3>6, <3>7, <3>8 DEF Files
  <2> QED BY <2>6, <2>7
<1> QED BY <1>1, ArchiveInit, ArchiveStep, FoundInit, FoundStep, TypedCorrect, PTL DEF Spec
-----------------------------------------------------------------------------
(***************************************************************************)
(* Progress: what a step does to the phase, the page and the entries.      *)
(***************************************************************************)
Forward == Phase' < Phase
PageOn  == Phase' = Phase /\ page' \in (page + 1)..Len(w.pages)
Fewer   == Phase' = Phase /\ page' = page /\ Len(todo') < Len(todo)

LEMMA TailFewer ==
  ASSUME NEW s \in Seq(Entry), s # <<>>
  PROVE  Len(Tail(s)) < Len(s)
OBVIOUS

\* One entry is taken off, or the download ends.
LEMMA OneFewer ==
  ASSUME Stream, todo # <<>>, pc \in {"list", "copy", "archived", "tar", "zip"},
         pc' = "done" \/ (pc' = pc /\ page' = page /\ todo' = Tail(todo))
  PROVE  Forward \/ Fewer
<1>1. CASE pc' = "done"
  BY <1>1 DEF Forward, Phase
<1>2. CASE pc' = pc /\ page' = page /\ todo' = Tail(todo)
  <2>1. Len(todo') < Len(todo)
    BY <1>2, TailFewer DEF Stream
  <2>2. Phase' = Phase
    BY <1>2 DEF Phase
  <2> QED BY <1>2, <2>1, <2>2 DEF Fewer
<1> QED BY <1>1, <1>2

LEMMA ProgressStep == Stream /\ [Next]_vars => (Forward \/ PageOn \/ Fewer \/ UNCHANGED vars)
<1> SUFFICES ASSUME Stream, Next, ~ UNCHANGED vars PROVE Forward \/ PageOn \/ Fewer
  OBVIOUS
<1>1. CASE Detect
  BY <1>1 DEF Detect, Goto, Return, Forward, Phase
<1>2. CASE RequestHTTP \/ RequestS3 \/ RequestGCS \/ RequestOCI \/ Clone
  <2>1. \E p, secrets, label : /\ label \in {"body", "list", "pull", "archive"}
                               /\ Request(p, secrets, label)
    BY <1>2 DEF RequestHTTP, RequestS3, RequestGCS, RequestOCI, Clone
  <2>2. pc = "request" /\ pc' \in {"body", "list", "pull", "archive", "done"}
    BY <2>1 DEF Request, Goto, Return
  <2> QED BY <2>2 DEF Forward, Phase
<1>3. CASE InvalidKey \/ OpenLocal \/ HgClone
  <2>1. pc = "request" /\ pc' \in {"copy", "move", "extract", "done"}
    BY <1>3 DEF InvalidKey, OpenLocal, HgClone, Save, Downloaded, Goto, Return, Fail
  <2> QED BY <2>1 DEF Forward, Phase
<1>4. CASE fetchArchive
  <2>1. pc = "archive" /\ pc' \in {"archived", "done"}
    BY <1>4 DEF fetchArchive, Goto, Return, Fail
  <2> QED BY <2>1 DEF Forward, Phase
<1>5. CASE Body \/ Pull \/ HgMove \/ CopyEnd \/ ArchiveEnd
  <2>1. pc \in {"body", "pull", "move", "copy", "archived"} /\ pc' \in {"extract", "done"}
    BY <1>5 DEF Body, Pull, HgMove, CopyEnd, ArchiveEnd, Save, Downloaded, Goto, Return, Fail
  <2> QED BY <2>1 DEF Forward, Phase
<1>6. CASE ListPage
  <2>1. pc = "list" /\ (pc' \in {"extract", "done"} \/ (pc' = pc /\ page < Len(w.pages) /\ page' = page + 1))
    BY <1>6 DEF ListPage, NextPage, Downloaded, Goto, Return, Fail, request
  <2>2. page \in Int /\ Len(w.pages) \in Int
    BY DEF Stream
  <2>3. CASE pc' \in {"extract", "done"}
    BY <2>1, <2>3 DEF Forward, Phase
  <2>4. CASE pc' = pc /\ page < Len(w.pages) /\ page' = page + 1
    BY <2>2, <2>4 DEF PageOn, Phase
  <2> QED BY <2>1, <2>3, <2>4
<1>7. CASE GetObject
  <2>1. todo # <<>> /\ pc = "list" /\ (pc' = "done" \/ (pc' = pc /\ page' = page /\ todo' = Tail(todo)))
    BY <1>7 DEF GetObject, Save, Skip, Advance, Return, Fail, request, stream
  <2> QED BY <2>1, OneFewer
<1>8. CASE copyDir
  <2>1. todo # <<>> /\ pc = "copy" /\ (pc' = "done" \/ (pc' = pc /\ page' = page /\ todo' = Tail(todo)))
    BY <1>8 DEF copyDir, Save, MakeDir, Advance, Return, Fail, request, stream
  <2> QED BY <2>1, OneFewer
<1>9. CASE extractArchive
  <2>1. todo # <<>> /\ pc = "archived" /\ (pc' = "done" \/ (pc' = pc /\ page' = page /\ todo' = Tail(todo)))
    BY <1>9 DEF extractArchive, Save, MakeDir, Skip, Advance, Return, Fail, request, stream
  <2> QED BY <2>1, OneFewer
<1>10. CASE untar \/ extractZip
  <2>1. todo # <<>> /\ pc \in {"tar", "zip"} /\ (pc' = "done" \/ (pc' = pc /\ page' = page /\ todo' = Tail(todo)))
    BY <1>10 DEF untar, extractZip, Save, MakeDir, Spend, Skip, Advance, Return, Fail, request, stream
  <2> QED BY <2>1, OneFewer
<1>11. CASE ExtractWithLimit
  <2>1. pc = "extract" /\ pc' \in {"tar", "zip", "done"}
    BY <1>11 DEF ExtractWithLimit, Goto, Return, Fail
  <2> QED BY <2>1 DEF Forward, Phase
<1>12. CASE Extracted
  <2>1. pc \in {"tar", "zip"} /\ pc' = "done"
    BY <1>12 DEF Extracted, Return, Fail
  <2> QED BY <2>1 DEF Forward, Phase
<1>13. CASE Done
  BY <1>13 DEF Done
<1> QED BY <1>1, <1>2, <1>3, <1>4, <1>5, <1>6, <1>7, <1>8, <1>9, <1>10, <1>11, <1>12, <1>13 DEF Next

\* ComesToAnEnd: each step of a download reaches a later phase, reads a later page of
\* those there are, or leaves fewer entries at hand, however long the listing or the
\* archive is and whatever fails on the way (downloadDir's page token, untar's entries).
THEOREM ComesToAnEndCorrect == Spec => ComesToAnEnd
<1>1. Typed /\ [Next]_vars
      => [\/ Phase' < Phase
          \/ Phase' = Phase /\ page' \in (page + 1)..Len(w.pages)
          \/ Phase' = Phase /\ page' = page /\ Len(todo') < Len(todo)]_vars
  BY ProgressStep DEF Typed, Forward, PageOn, Fewer
<1> QED BY <1>1, TypedCorrect, PTL DEF Spec, ComesToAnEnd
-----------------------------------------------------------------------------
(***************************************************************************)
(* Orders: what InOrder lists.                                             *)
(***************************************************************************)
\* R is a strict total order on S; Before(S, R, i) is what comes before i.
Orders(R, S) ==
  /\ \A i \in S : <<i, i>> \notin R
  /\ \A i, j, k \in S : <<i, j>> \in R /\ <<j, k>> \in R => <<i, k>> \in R
  /\ \A i, j \in S : i # j => <<i, j>> \in R \/ <<j, i>> \in R

Ahead(S, R, i) == {j \in S : <<j, i>> \in R}

\* The members of a finite set have each a rank of their own.
LEMMA Ranks ==
  ASSUME NEW S, IsFiniteSet(S), NEW R, Orders(R, S)
  PROVE  /\ Cardinality(S) \in Nat
         /\ \A i \in S : Cardinality(Ahead(S, R, i)) \in 0..(Cardinality(S) - 1)
         /\ \A i, j \in S : <<i, j>> \in R => Cardinality(Ahead(S, R, i)) < Cardinality(Ahead(S, R, j))
         /\ \A k \in 0..(Cardinality(S) - 1) : \E i \in S : Cardinality(Ahead(S, R, i)) = k
<1>1. Cardinality(S) \in Nat
  BY FS_CardinalityType
<1>2. \A i \in S : IsFiniteSet(Ahead(S, R, i)) /\ Cardinality(Ahead(S, R, i)) \in Nat
  BY FS_Subset, FS_CardinalityType DEF Ahead
<1>3. \A i, j \in S : <<i, j>> \in R => Cardinality(Ahead(S, R, i)) < Cardinality(Ahead(S, R, j))
  <2> TAKE i, j \in S
  <2> HAVE <<i, j>> \in R
  <2>1. Ahead(S, R, i) \subseteq Ahead(S, R, j)
    BY DEF Ahead, Orders
  <2>2. i \in Ahead(S, R, j) /\ i \notin Ahead(S, R, i)
    BY DEF Ahead, Orders
  <2>3. /\ Cardinality(Ahead(S, R, i)) <= Cardinality(Ahead(S, R, j))
        /\ Cardinality(Ahead(S, R, i)) # Cardinality(Ahead(S, R, j))
    BY <2>1, <2>2, <1>2, FS_Subset
  <2> QED BY <2>3, <1>2
<1>4. \A i \in S : Cardinality(Ahead(S, R, i)) \in 0..(Cardinality(S) - 1)
  <2> TAKE i \in S
  <2>1. Ahead(S, R, i) \subseteq S /\ i \notin Ahead(S, R, i)
    BY DEF Ahead, Orders
  <2>2. /\ Cardinality(Ahead(S, R, i)) <= Cardinality(S)
        /\ Cardinality(Ahead(S, R, i)) # Cardinality(S)
    BY <2>1, FS_Subset
  <2> QED BY <2>2, <1>1, <1>2
<1>5. \A k \in 0..(Cardinality(S) - 1) : \E i \in S : Cardinality(Ahead(S, R, i)) = k
  <2> DEFINE T == 0..(Cardinality(S) - 1)
             rank == [i \in S |-> Cardinality(Ahead(S, R, i))]
  <2>1. IsFiniteSet(T) /\ Cardinality(T) = Cardinality(S)
    BY <1>1, FS_Interval
  <2>2. rank \in [S -> T]
    BY <1>4
  <2>3. \A i, j \in S : rank[i] = rank[j] => i = j
    <3> TAKE i, j \in S
    <3> HAVE rank[i] = rank[j]
    <3>1. Cardinality(Ahead(S, R, i)) = Cardinality(Ahead(S, R, j))
      OBVIOUS
    <3>2. <<i, j>> \notin R /\ <<j, i>> \notin R
      BY <3>1, <1>2, <1>3
    <3> QED BY <3>2 DEF Orders
  <2>4. rank \in Injection(S, T)
    <3> HIDE DEF rank, T
    <3> QED BY <2>2, <2>3 DEF Injection, IsInjective
  <2>5. rank \in Surjection(S, T)
    <3> HIDE DEF rank, T
    <3> QED BY <2>1, <2>4, FS_Injection
  <2>6. \A k \in T : \E i \in S : rank[i] = k
    <3> HIDE DEF rank, T
    <3> QED BY <2>5 DEF Surjection
  <2> QED BY <2>6
<1> QED BY <1>1, <1>3, <1>4, <1>5

ByRank(S, R, L) == L = [k \in 1..Cardinality(S) |-> CHOOSE i \in S : Cardinality(Ahead(S, R, i)) = k - 1]

\* A list of the members by their ranks has each of them, in order.
LEMMA Lists ==
  ASSUME NEW S, IsFiniteSet(S), NEW R, Orders(R, S), NEW L, ByRank(S, R, L)
  PROVE  /\ L \in Seq(S)
         /\ \A i \in S : \E k \in DOMAIN L : L[k] = i
         /\ \A k, m \in DOMAIN L : <<L[k], L[m]>> \in R => k < m
<1>0. Cardinality(S) \in Nat /\ DOMAIN L = 1..Cardinality(S)
  BY Ranks DEF ByRank
<1>1. \A k \in DOMAIN L : L[k] \in S /\ Cardinality(Ahead(S, R, L[k])) = k - 1
  <2> TAKE k \in DOMAIN L
  <2>1. k - 1 \in 0..(Cardinality(S) - 1)
    BY <1>0
  <2>2. \E i \in S : Cardinality(Ahead(S, R, i)) = k - 1
    BY <2>1, Ranks
  <2>3. L[k] = CHOOSE i \in S : Cardinality(Ahead(S, R, i)) = k - 1
    BY <1>0 DEF ByRank
  <2> QED BY <2>2, <2>3
<1>2. L \in Seq(S)
  BY <1>0, <1>1 DEF ByRank
<1>3. \A i \in S : \E k \in DOMAIN L : L[k] = i
  <2> TAKE i \in S
  <2>1. PICK r \in 0..(Cardinality(S) - 1) : r = Cardinality(Ahead(S, R, i))
    BY Ranks
  <2>2. r + 1 \in DOMAIN L
    BY <2>1, <1>0
  <2>3. Cardinality(Ahead(S, R, L[r + 1])) = r /\ L[r + 1] \in S
    BY <2>2, <2>1, <1>1
  <2>4. ~(r < r)
    BY <2>1
  <2>5. <<i, L[r + 1]>> \notin R /\ <<L[r + 1], i>> \notin R
    BY <2>1, <2>3, <2>4, Ranks
  <2>6. L[r + 1] = i
    BY <2>3, <2>5 DEF Orders
  <2> QED BY <2>2, <2>6
<1>4. \A k, m \in DOMAIN L : <<L[k], L[m]>> \in R => k < m
  <2> TAKE k, m \in DOMAIN L
  <2> HAVE <<L[k], L[m]>> \in R
  <2>1. k - 1 < m - 1
    BY <1>1, Ranks
  <2> QED BY <2>1, <1>0
<1> QED BY <1>2, <1>3, <1>4

\* Indices in the order of their numbers (Sorted).
LEMMA SortedLists ==
  ASSUME NEW S, IsFiniteSet(S), S \subseteq Nat
  PROVE  /\ Sorted(S) \in Seq(S)
         /\ \A i \in S : \E k \in DOMAIN Sorted(S) : Sorted(S)[k] = i
<1> DEFINE R == {p \in S \X S : p[1] < p[2]}
<1>1. Orders(R, S)
  BY DEF Orders
<1>2. \A i \in S : Ahead(S, R, i) = {j \in S : j < i}
  BY DEF Ahead
<1>3. Sorted(S) = [k \in 1..Cardinality(S) |-> CHOOSE i \in S : Cardinality({j \in S : j < i}) = k - 1]
  BY DEF Sorted, InOrder
<1>4. \A k : (CHOOSE i \in S : Cardinality({j \in S : j < i}) = k - 1)
             = CHOOSE i \in S : Cardinality(Ahead(S, R, i)) = k - 1
  <2> HIDE DEF R
  <2> QED BY <1>2
<1>5. Sorted(S) = [k \in 1..Cardinality(S) |-> CHOOSE i \in S : Cardinality(Ahead(S, R, i)) = k - 1]
  <2> HIDE DEF R
  <2> QED BY <1>3, <1>4
<1> HIDE DEF R
<1>6. ByRank(S, R, Sorted(S))
  BY <1>5 DEF ByRank
<1> QED BY <1>1, <1>6, Lists
-----------------------------------------------------------------------------
(***************************************************************************)
(* Matching: which secrets are chosen, and in which order.                 *)
(***************************************************************************)
LEMMA TrimType ==
  ASSUME NEW p \in Seq(STRING), NEW t
  PROVE  /\ TrimSuffix(p, t) \in Seq(STRING)
         /\ TrimSuffix(p, t) = p \/ p = Append(TrimSuffix(p, t), t)
<1>1. CASE Ends(p, t)
  <2>1. p # <<>> /\ p[Len(p)] = t /\ TrimSuffix(p, t) = Front(p)
    BY <1>1 DEF Ends, TrimSuffix, Last
  <2>3. Len(p) \in Nat /\ Len(p) > 0 /\ Len(p) - 1 \in Nat
    BY <2>1
  <2>4. \A i \in 1..(Len(p) - 1) : SubSeq(p, 1, Len(p) - 1)[i] = p[i] /\ p[i] \in STRING
    BY <2>3
  <2>5. SubSeq(p, 1, Len(p) - 1) \in Seq(STRING) /\ Len(SubSeq(p, 1, Len(p) - 1)) = Len(p) - 1
    BY <2>3, <2>1, FrontProperties DEF Front
  <2>6. PICK f \in Seq(STRING) : f = Front(p)
    BY <2>5 DEF Front
  <2>7. Len(f) = Len(p) - 1 /\ \A i \in 1..(Len(p) - 1) : f[i] = p[i]
    BY <2>4, <2>5, <2>6 DEF Front
  <2>8. p = Append(f, p[Len(p)])
    BY <2>3, <2>7
  <2>2. Front(p) \in Seq(STRING) /\ p = Append(Front(p), p[Len(p)])
    BY <2>6, <2>8
  <2> QED BY <2>1, <2>2
<1>2. CASE ~Ends(p, t)
  BY <1>2 DEF TrimSuffix
<1> QED BY <1>1, <1>2

Matching(s, u) == {i \in DOMAIN s.https : HTTPSMatches(s.https[i], u)}

\* The order of MatchHTTPSCredentials: the longer path, and then the lower index.
MoreSpecific(s, i, j) ==
  \/ PathLen(s.https[i]) > PathLen(s.https[j])
  \/ PathLen(s.https[i]) = PathLen(s.https[j]) /\ i < j

LEMMA PathLenType ==
  ASSUME NEW s \in Settings, NEW i \in DOMAIN s.https
  PROVE  /\ s.https[i].path \in Seq(STRING) /\ PathLen(s.https[i]) \in Int /\ i \in Nat
<1>1. /\ s.https \in Seq([host : Seq(STRING), user : STRING, path : Seq(STRING)])
  BY DEF Settings
<1> DEFINE T == [host : Seq(STRING), user : STRING, path : Seq(STRING)]
<1>5. s.https[i] \in T /\ i \in Nat
  <2>1. PICK q \in Seq(T) : q = s.https
    BY <1>1
  <2> HIDE DEF T
  <2> QED BY <2>1
<1>2. s.https[i].path \in Seq(STRING) /\ i \in Nat
  BY <1>5
<1>3. TrimSuffix(s.https[i].path, "/") \in Seq(STRING)
  BY <1>2, TrimType
<1>4. Len(TrimSuffix(s.https[i].path, "/")) \in Int
  BY <1>3
<1> QED BY <1>2, <1>4 DEF PathLen

\* All that match are offered, and the longest path first.
LEMMA Offered ==
  ASSUME NEW s \in Settings, NEW u
  PROVE  LET L == MatchHTTPSCredentials(s.https, u)
         IN  /\ L \in Seq(Matching(s, u))
             /\ \A i \in Matching(s, u) : \E k \in DOMAIN L : L[k] = i
             /\ \A k, m \in DOMAIN L : MoreSpecific(s, L[k], L[m]) => k < m
<1> DEFINE S == Matching(s, u)
           R == {p \in S \X S : MoreSpecific(s, p[1], p[2])}
           L == MatchHTTPSCredentials(s.https, u)
<1>0. IsFiniteSet(S) /\ \A i \in S : PathLen(s.https[i]) \in Int /\ i \in Nat
  <2>1. S \subseteq DOMAIN s.https
    BY DEF Matching
  <2> QED BY <2>1, Finite, FS_Subset, PathLenType
<1>r. \A i, j \in S : <<i, j>> \in R <=> MoreSpecific(s, i, j)
  OBVIOUS
<1>1. Orders(R, S)
  <2>1. \A i \in S : ~MoreSpecific(s, i, i)
    <3> HIDE DEF S
    <3> QED BY <1>0 DEF MoreSpecific
  <2>2. \A i, j, k \in S : MoreSpecific(s, i, j) /\ MoreSpecific(s, j, k) => MoreSpecific(s, i, k)
    <3> HIDE DEF S
    <3> QED BY <1>0 DEF MoreSpecific
  <2>3. \A i, j \in S : i # j => MoreSpecific(s, i, j) \/ MoreSpecific(s, j, i)
    <3> HIDE DEF S
    <3> QED BY <1>0 DEF MoreSpecific
  <2> HIDE DEF S, R
  <2> QED BY <1>r, <2>1, <2>2, <2>3 DEF Orders
<1>2. \A i \in S : Ahead(S, R, i) = {j \in S : MoreSpecific(s, j, i)}
  <2> HIDE DEF S, R
  <2> QED BY <1>r DEF Ahead
<1>3. L = [k \in 1..Cardinality(S) |-> CHOOSE i \in S : Cardinality({j \in S : MoreSpecific(s, j, i)}) = k - 1]
  BY DEF MatchHTTPSCredentials, InOrder, Matching, MoreSpecific
<1>4. \A k : (CHOOSE i \in S : Cardinality({j \in S : MoreSpecific(s, j, i)}) = k - 1)
             = CHOOSE i \in S : Cardinality(Ahead(S, R, i)) = k - 1
  <2> HIDE DEF R, S
  <2> QED BY <1>2
<1>5. ByRank(S, R, L)
  <2>1. L = [k \in 1..Cardinality(S) |-> CHOOSE i \in S : Cardinality(Ahead(S, R, i)) = k - 1]
    <3> HIDE DEF R, S
    <3> QED BY <1>3, <1>4
  <2> HIDE DEF R, S, L
  <2> QED BY <2>1 DEF ByRank
<1> HIDE DEF R, S, L
<1>6. /\ L \in Seq(S)
      /\ \A i \in S : \E k \in DOMAIN L : L[k] = i
      /\ \A k, m \in DOMAIN L : <<L[k], L[m]>> \in R => k < m
  BY <1>0, <1>1, <1>5, Lists
<1>7. \A k \in DOMAIN L : L[k] \in S
  BY <1>6
<1>8. \A k, m \in DOMAIN L : MoreSpecific(s, L[k], L[m]) => k < m
  BY <1>6, <1>7, <1>r
<1> QED BY <1>6, <1>8 DEF L, S

\* The one that MatchHTTPSCredential returns has none before it.
LEMMA MostSpecificMatch ==
  ASSUME NEW s \in Settings, NEW u, MatchHTTPSCredential(s.https, u) # 0
  PROVE  /\ MatchHTTPSCredential(s.https, u) \in Matching(s, u)
         /\ \A j \in Matching(s, u) : ~MoreSpecific(s, j, MatchHTTPSCredential(s.https, u))
<1> DEFINE L == MatchHTTPSCredentials(s.https, u)
<1>1. /\ L \in Seq(Matching(s, u))
      /\ \A i \in Matching(s, u) : \E k \in DOMAIN L : L[k] = i
      /\ \A k, m \in DOMAIN L : MoreSpecific(s, L[k], L[m]) => k < m
  BY Offered
<1>2. L # <<>> /\ MatchHTTPSCredential(s.https, u) = Head(L)
  BY DEF MatchHTTPSCredential
<1> HIDE DEF L
<1>3. 1 \in DOMAIN L /\ Head(L) = L[1] /\ L[1] \in Matching(s, u)
  BY <1>1, <1>2
<1>4. \A j \in Matching(s, u) : ~MoreSpecific(s, j, L[1])
  <2> TAKE j \in Matching(s, u)
  <2>1. PICK k \in DOMAIN L : L[k] = j
    BY <1>1
  <2>2. k \in Nat /\ k >= 1
    BY <1>1
  <2> QED BY <2>1, <2>2, <1>1, <1>3
<1> QED BY <1>2, <1>3, <1>4

LEMMA FirstMember ==
  ASSUME NEW S, S \subseteq Nat, S # {}
  PROVE  First(S) \in S /\ \A j \in S : First(S) <= j
<1>1. PICK x \in S : \A y \in S : ~(<<y, x>> \in OpToRel(<, Nat))
  BY NatLessThanWellFounded, WFMin
<1>2. \A y \in S : x <= y
  <2> TAKE y \in S
  <2>1. x \in Nat /\ y \in Nat
    OBVIOUS
  <2>2. <<y, x>> \in Nat \X Nat
    BY <2>1
  <2>3. y < x => <<y, x>> \in OpToRel(<, Nat)
    BY <2>1 DEF OpToRel
  <2>4. ~(<<y, x>> \in OpToRel(<, Nat))
    BY <1>1, Zenon
  <2>5. ~(y < x)
    BY <2>3, <2>4, Zenon
  <2> QED BY <2>1, <2>5
<1> QED BY <1>2 DEF First

\* A default is only chosen where nothing is for the host (MatchProxy and the others).
LEMMA MatchHostOrder ==
  ASSUME NEW list, NEW T, list \in Seq(T), NEW host, MatchHost(list, host) # 0,
         list[MatchHost(list, host)].host = <<>>
  PROVE  ForHost(list, host) = {}
<1>1. ForHost(list, host) \subseteq Nat
  BY DEF ForHost
<1>2. ASSUME ForHost(list, host) # {} PROVE FALSE
  <2>1. MatchHost(list, host) \in ForHost(list, host)
    BY <1>1, <1>2, FirstMember DEF MatchHost
  <2> QED BY <2>1 DEF ForHost
<1> QED BY <1>2

\* The keys of a handshake: those for the host before the others.
LEMMA KeysOrder ==
  ASSUME NEW s \in Settings, NEW host
  PROVE  LET keys == MatchSSHKeys(s, host)
         IN  /\ keys \in Seq(DOMAIN s.keys)
             /\ \A k \in DOMAIN keys : s.keys[keys[k]].host = <<>> =>
                  \A j \in ForHost(s.keys, host) : \E m \in DOMAIN keys : m < k /\ keys[m] = j
<1> DEFINE A == ForHost(s.keys, host)
           B == Defaults(s.keys)
           keys == MatchSSHKeys(s, host)
<1>0. s.keys \in Seq(ForAHost)
  BY DEF Settings
<1>1. A \subseteq DOMAIN s.keys /\ B \subseteq DOMAIN s.keys /\ DOMAIN s.keys \subseteq Nat
  BY <1>0 DEF ForHost, Defaults
<1>2. IsFiniteSet(A) /\ IsFiniteSet(B)
  BY <1>1, Finite, FS_Subset
<1>3. \A i \in A : s.keys[i].host # <<>>
  BY DEF ForHost
<1> HIDE DEF A, B
<1>4. /\ Sorted(A) \in Seq(A) /\ Sorted(B) \in Seq(B)
      /\ \A i \in A : \E k \in DOMAIN Sorted(A) : Sorted(A)[k] = i
  BY <1>1, <1>2, SortedLists
<1>5. keys = Sorted(A) \o Sorted(B)
  BY DEF MatchSSHKeys, A, B
<1> HIDE DEF keys
<1> DEFINE sa == Sorted(A)
           sb == Sorted(B)
<1>6. sa \in Seq(DOMAIN s.keys) /\ sb \in Seq(DOMAIN s.keys)
  BY <1>1, <1>4
<1>7. \A k \in DOMAIN sa : sa[k] \in A
  BY <1>4
<1>8. \A i \in A : \E k \in DOMAIN sa : sa[k] = i
  BY <1>4
<1> HIDE DEF sa, sb
<1>9. keys = sa \o sb
  BY <1>5 DEF sa, sb
<1>10. /\ keys \in Seq(DOMAIN s.keys) /\ DOMAIN sa \subseteq DOMAIN keys
       /\ \A k \in DOMAIN sa : keys[k] = sa[k]
       /\ DOMAIN sa = 1..Len(sa) /\ Len(sa) \in Nat /\ DOMAIN keys = 1..Len(keys) /\ Len(keys) \in Nat
  BY <1>6, <1>9
<1>11. ASSUME NEW k \in DOMAIN keys, s.keys[keys[k]].host = <<>>, NEW j \in A
       PROVE  \E m \in DOMAIN keys : m < k /\ keys[m] = j
  <2>1. k \notin DOMAIN sa
    BY <1>3, <1>7, <1>10, <1>11
  <2>2. PICK m \in DOMAIN sa : sa[m] = j
    BY <1>8
  <2>3. m < k
    BY <2>1, <1>10
  <2> QED BY <2>2, <2>3, <1>10
<1> QED BY <1>10, <1>11 DEF keys, A
-----------------------------------------------------------------------------
(***************************************************************************)
(* Segments: a path cut at its slashes.                                    *)
(***************************************************************************)
\* The segments of the first n tokens, for every n.
Cuts(path, f) == f = [n \in 0..Len(path) |-> IF n = 0 THEN <<>> ELSE Extend(f[n - 1], path, n)]

LEMMA CutExists ==
  ASSUME NEW path \in Seq(STRING)
  PROVE  \E f : Cuts(path, f)
<1> DEFINE W(n, f) == f = [k \in 0..n |-> IF k = 0 THEN <<>> ELSE Extend(f[k - 1], path, k)]
           S == {n \in Nat : \E f : W(n, f)}
<1>1. 0 \in S
  <2>1. W(0, [k \in 0..0 |-> <<>>])
    OBVIOUS
  <2> QED BY <2>1
<1>2. \A n \in Nat : n \in S => n + 1 \in S
  <2> TAKE n \in Nat
  <2> HAVE n \in S
  <2>1. PICK f : W(n, f)
    OBVIOUS
  <2> DEFINE g == [k \in 0..(n + 1) |-> IF k <= n THEN f[k] ELSE Extend(f[n], path, n + 1)]
  <2>2. \A k \in 0..(n + 1) : g[k] = IF k = 0 THEN <<>> ELSE Extend(g[k - 1], path, k)
    BY <2>1
  <2>3. W(n + 1, g)
    BY <2>2
  <2> HIDE DEF g, W
  <2> QED BY <2>3
<1> HIDE DEF S, W
<1>3. Len(path) \in Nat
  OBVIOUS
<1>5. Len(path) \in S
  BY <1>1, <1>2, <1>3, SetInduction
<1>4. PICK f : W(Len(path), f)
  BY <1>5 DEF S
<1> QED BY <1>4 DEF W, Cuts

LEMMA SegmentsCut ==
  ASSUME NEW path \in Seq(STRING)
  PROVE  \E f : Cuts(path, f) /\ Segments(path) = f[Len(path)]
<1> DEFINE f == CHOOSE f : Cuts(path, f)
<1>1. Cuts(path, f)
  BY CutExists
<1>2. Segments(path) = f[Len(path)]
  BY DEF Segments, Cuts
<1> HIDE DEF f
<1> QED BY <1>1, <1>2

LEMMA SubSeqAt ==
  ASSUME NEW S, NEW s \in Seq(S), NEW n \in Nat, n <= Len(s)
  PROVE  Len(SubSeq(s, 1, n)) = n /\ \A i \in 1..n : SubSeq(s, 1, n)[i] = s[i]
OBVIOUS

\* A token begins a segment.
Begins(path, n) == path[n] # "/" /\ (n = 1 \/ path[n - 1] = "/")

\* What one more token does to the segments.
LEMMA ExtendFacts ==
  ASSUME NEW path \in Seq(STRING), NEW n \in 1..Len(path), NEW segs \in Seq(Seq(STRING)),
         path[n] # "/" /\ ~Begins(path, n) => segs # <<>>
  PROVE  /\ Extend(segs, path, n) \in Seq(Seq(STRING))
         /\ Len(Extend(segs, path, n)) = (IF Begins(path, n) THEN Len(segs) + 1 ELSE Len(segs))
         /\ \A i \in 1..Len(segs) : i < Len(segs) \/ path[n] = "/" \/ Begins(path, n)
                                      => Extend(segs, path, n)[i] = segs[i]
<1>0. path[n] \in STRING
  OBVIOUS
<1>1. CASE path[n] = "/"
  BY <1>1 DEF Extend, Begins
<1>2. CASE Begins(path, n)
  <2>1. Extend(segs, path, n) = Append(segs, <<path[n]>>)
    BY <1>2 DEF Extend, Begins
  <2>2. <<path[n]>> \in Seq(STRING)
    BY <1>0
  <2> QED BY <1>2, <2>1, <2>2
<1>3. CASE path[n] # "/" /\ ~Begins(path, n)
  <2>1. Extend(segs, path, n) = Append(Front(segs), Append(Last(segs), path[n]))
    BY <1>3 DEF Extend, Begins
  <2>2. segs # <<>> /\ Len(segs) \in Nat /\ Len(segs) > 0
    BY <1>3
  <2>3. Last(segs) \in Seq(STRING)
    BY <2>2 DEF Last
  <2>4. Append(Last(segs), path[n]) \in Seq(STRING)
    BY <2>3, <1>0
  <2>5. /\ Front(segs) \in Seq(Seq(STRING)) /\ Len(Front(segs)) = Len(segs) - 1
        /\ \A i \in 1..(Len(segs) - 1) : Front(segs)[i] = segs[i]
    <3>1. Len(segs) - 1 \in Nat /\ Len(segs) - 1 <= Len(segs)
      BY <2>2
    <3>2. SubSeq(segs, 1, Len(segs) - 1) \in Seq(Seq(STRING))
      BY <3>1, SubSeqType
    <3>3. /\ Len(SubSeq(segs, 1, Len(segs) - 1)) = Len(segs) - 1
          /\ \A i \in 1..(Len(segs) - 1) : SubSeq(segs, 1, Len(segs) - 1)[i] = segs[i]
      BY <3>1, SubSeqAt
    <3> QED BY <3>2, <3>3 DEF Front
  <2> QED BY <1>3, <2>1, <2>2, <2>4, <2>5
<1> QED BY <1>1, <1>2, <1>3 DEF Begins

\* Of the first n tokens the last segment is there once it was begun.
LEMMA CutType ==
  ASSUME NEW path \in Seq(STRING), NEW f, Cuts(path, f)
  PROVE  /\ f[0] = <<>>
         /\ \A n \in 1..Len(path) : f[n] = Extend(f[n - 1], path, n)
         /\ \A n \in 0..Len(path) : f[n] \in Seq(Seq(STRING)) /\ (n > 0 /\ path[n] # "/" => f[n] # <<>>)
<1>0. Len(path) \in Nat
  OBVIOUS
<1>1. f[0] = <<>> /\ \A n \in 1..Len(path) : f[n] = Extend(f[n - 1], path, n)
  <2>1. f = [n \in 0..Len(path) |-> IF n = 0 THEN <<>> ELSE Extend(f[n - 1], path, n)]
    BY DEF Cuts
  <2>2. 0 \in 0..Len(path) /\ \A n \in 1..Len(path) : n \in 0..Len(path) /\ n # 0
    BY <1>0
  <2> QED BY <2>1, <2>2
<1> DEFINE Good(n) == f[n] \in Seq(Seq(STRING)) /\ (n > 0 /\ path[n] # "/" => f[n] # <<>>)
           S == {n \in Nat : n <= Len(path) => Good(n)}
<1>2. 0 \in S
  <2>1. <<>> \in Seq(Seq(STRING))
    OBVIOUS
  <2>2. Good(0)
    BY <2>1, <1>1
  <2> QED BY <2>2
<1>3. \A n \in Nat : n \in S => n + 1 \in S
  <2> TAKE n \in Nat
  <2> HAVE n \in S
  <2> SUFFICES ASSUME n + 1 <= Len(path) PROVE Good(n + 1)
    OBVIOUS
  <2>1. n + 1 \in 1..Len(path) /\ Good(n) /\ (n + 1) - 1 = n
    BY <1>0
  <2>2. f[n + 1] = Extend(f[n], path, n + 1)
    BY <1>1, <2>1
  <2>3. path[n + 1] # "/" /\ ~Begins(path, n + 1) => f[n] # <<>>
    BY <2>1 DEF Begins
  <2>4. /\ f[n + 1] \in Seq(Seq(STRING))
        /\ Len(f[n + 1]) = (IF Begins(path, n + 1) THEN Len(f[n]) + 1 ELSE Len(f[n]))
    BY <2>1, <2>2, <2>3, ExtendFacts
  <2>5. path[n + 1] # "/" => Len(f[n + 1]) > 0
    BY <2>1, <2>3, <2>4
  <2> QED BY <2>4, <2>5
<1> HIDE DEF S
<1>4. \A n \in Nat : n \in S
  BY <1>2, <1>3, SetInduction
<1>5. \A n \in 0..Len(path) : Good(n)
  BY <1>4, <1>0 DEF S
<1> QED BY <1>1, <1>5

LEMMA CutStep ==
  ASSUME NEW path \in Seq(STRING), NEW f, Cuts(path, f), NEW n \in 1..Len(path)
  PROVE  /\ f[n - 1] \in Seq(Seq(STRING)) /\ f[n] \in Seq(Seq(STRING))
         /\ Len(f[n]) = (IF Begins(path, n) THEN Len(f[n - 1]) + 1 ELSE Len(f[n - 1]))
         /\ \A i \in 1..Len(f[n - 1]) : i < Len(f[n - 1]) \/ path[n] = "/" \/ Begins(path, n)
                                          => f[n][i] = f[n - 1][i]
<1>1. n - 1 \in 0..Len(path) /\ n \in 0..Len(path) /\ (n # 1 => n - 1 > 0)
  OBVIOUS
<1>2. /\ f[n - 1] \in Seq(Seq(STRING)) /\ f[n] \in Seq(Seq(STRING)) /\ f[n] = Extend(f[n - 1], path, n)
      /\ n - 1 > 0 /\ path[n - 1] # "/" => f[n - 1] # <<>>
  BY <1>1, CutType
<1>3. path[n] # "/" /\ ~Begins(path, n) => f[n - 1] # <<>>
  BY <1>1, <1>2 DEF Begins
<1>4. PICK segs \in Seq(Seq(STRING)) : segs = f[n - 1]
  BY <1>2
<1>5. /\ Len(Extend(segs, path, n)) = (IF Begins(path, n) THEN Len(segs) + 1 ELSE Len(segs))
      /\ \A i \in 1..Len(segs) : i < Len(segs) \/ path[n] = "/" \/ Begins(path, n)
                                   => Extend(segs, path, n)[i] = segs[i]
  BY <1>3, <1>4, ExtendFacts
<1>6. f[n] = Extend(segs, path, n)
  BY <1>2, <1>4
<1> QED BY <1>2, <1>4, <1>5, <1>6

\* The segments of more tokens are no fewer.
LEMMA CutGrows ==
  ASSUME NEW path \in Seq(STRING), NEW f, Cuts(path, f), NEW k \in 0..Len(path)
  PROVE  Len(f[k]) <= Len(f[Len(path)])
<1>0. Len(path) \in Nat
  OBVIOUS
<1> DEFINE S == {d \in Nat : k + d <= Len(path) => Len(f[k]) <= Len(f[k + d])}
<1>1. \A n \in 0..Len(path) : Len(f[n]) \in Nat
  BY CutType
<1>2. 0 \in S
  <2>1. k + 0 = k /\ Len(f[k]) \in Nat
    BY <1>1
  <2> QED BY <2>1
<1>3. \A d \in Nat : d \in S => d + 1 \in S
  <2> TAKE d \in Nat
  <2> HAVE d \in S
  <2> SUFFICES ASSUME k + (d + 1) <= Len(path) PROVE Len(f[k]) <= Len(f[k + (d + 1)])
    OBVIOUS
  <2>1. PICK n \in 1..Len(path) : n = k + (d + 1)
    BY <1>0
  <2>2. n - 1 = k + d /\ n - 1 \in 0..Len(path)
    BY <2>1
  <2>3. Len(f[n]) = Len(f[n - 1]) + 1 \/ Len(f[n]) = Len(f[n - 1])
    BY CutStep
  <2>4. Len(f[k]) <= Len(f[n - 1])
    BY <2>2, <1>0
  <2>5. Len(f[k]) \in Nat /\ Len(f[n - 1]) \in Nat
    BY <1>1, <2>2
  <2>6. Len(f[k]) <= Len(f[n])
    BY <2>3, <2>4, <2>5
  <2> QED BY <2>1, <2>6
<1> HIDE DEF S
<1>4. PICK d \in Nat : k + d = Len(path)
  <2>1. Len(path) - k \in Nat /\ k + (Len(path) - k) = Len(path)
    BY <1>0
  <2> QED BY <2>1
<1>5. d \in S
  BY <1>2, <1>3, SetInduction
<1> QED BY <1>4, <1>5, <1>0 DEF S

\* As long as the slashes are at the same places there are as many segments.
LEMMA CutsAgree ==
  ASSUME NEW p \in Seq(STRING), NEW q \in Seq(STRING), NEW f, NEW g, Cuts(p, f), Cuts(q, g),
         Len(p) <= Len(q), \A n \in 1..Len(p) : p[n] = "/" <=> q[n] = "/"
  PROVE  \A n \in 0..Len(p) : Len(f[n]) = Len(g[n])
<1>0. Len(p) \in Nat /\ Len(q) \in Nat
  OBVIOUS
<1>1. f[0] = <<>> /\ g[0] = <<>>
  BY CutType
<1>2. \A n \in 0..Len(p) : Len(f[n]) = Len(g[n])
  <2> DEFINE S == {n \in Nat : n <= Len(p) => Len(f[n]) = Len(g[n])}
  <2>1. 0 \in S
    BY <1>1
  <2>2. \A n \in Nat : n \in S => n + 1 \in S
    <3> TAKE n \in Nat
    <3> HAVE n \in S
    <3> SUFFICES ASSUME n + 1 <= Len(p) PROVE Len(f[n + 1]) = Len(g[n + 1])
      OBVIOUS
    <3>1. PICK m \in 1..Len(p) : m = n + 1
      BY <1>0
    <3>2. m \in 1..Len(q) /\ m - 1 = n /\ (m = 1 \/ m - 1 \in 1..Len(p))
      BY <1>0, <3>1
    <3>3. Begins(p, m) <=> Begins(q, m)
      BY <3>2 DEF Begins
    <3>4. Len(f[m - 1]) = Len(g[m - 1])
      BY <3>1, <3>2, <1>0
    <3>5. Len(f[m]) = (IF Begins(p, m) THEN Len(f[m - 1]) + 1 ELSE Len(f[m - 1]))
      BY CutStep
    <3>6. Len(g[m]) = (IF Begins(q, m) THEN Len(g[m - 1]) + 1 ELSE Len(g[m - 1]))
      BY <3>2, CutStep
    <3> QED BY <3>1, <3>3, <3>4, <3>5, <3>6
  <2> HIDE DEF S
  <2>3. \A n \in Nat : n \in S
    BY <2>1, <2>2, SetInduction
  <2> QED BY <2>3, <1>0 DEF S
<1> QED BY <1>2

\* As long as the tokens are the same, so are the segments.
LEMMA CutsSame ==
  ASSUME NEW p \in Seq(STRING), NEW q \in Seq(STRING), NEW f, NEW g, Cuts(p, f), Cuts(q, g),
         Len(p) <= Len(q), \A n \in 1..Len(p) : p[n] = q[n]
  PROVE  \A n \in 0..Len(p) : f[n] = g[n]
<1>0. Len(p) \in Nat /\ Len(q) \in Nat
  OBVIOUS
<1>1. f[0] = <<>> /\ g[0] = <<>>
  BY CutType
<1> DEFINE S == {n \in Nat : n <= Len(p) => f[n] = g[n]}
<1>2. 0 \in S
  BY <1>1
<1>3. \A n \in Nat : n \in S => n + 1 \in S
  <2> TAKE n \in Nat
  <2> HAVE n \in S
  <2> SUFFICES ASSUME n + 1 <= Len(p) PROVE f[n + 1] = g[n + 1]
    OBVIOUS
  <2>1. PICK m \in 1..Len(p) : m = n + 1
    BY <1>0
  <2>2. m \in 1..Len(q) /\ m - 1 = n /\ (m = 1 \/ m - 1 \in 1..Len(p))
    BY <1>0, <2>1
  <2>3. p[m] = q[m] /\ (m = 1 \/ p[m - 1] = q[m - 1])
    BY <2>2
  <2>4. f[m - 1] = g[m - 1]
    BY <2>1, <2>2, <1>0
  <2>5. f[m] = Extend(f[m - 1], p, m) /\ g[m] = Extend(g[m - 1], q, m)
    BY <2>2, CutType
  <2>6. f[m] = g[m]
    BY <2>3, <2>4, <2>5 DEF Extend
  <2> QED BY <2>1, <2>6
<1> HIDE DEF S
<1>4. \A n \in Nat : n \in S
  BY <1>2, <1>3, SetInduction
<1> QED BY <1>4, <1>0 DEF S

\* A path whose slashes are those at the beginning of another has no more segments.
LEMMA FewerSegments ==
  ASSUME NEW p \in Seq(STRING), NEW q \in Seq(STRING),
         Len(p) <= Len(q), \A n \in 1..Len(p) : p[n] = "/" <=> q[n] = "/"
  PROVE  Len(Segments(p)) <= Len(Segments(q))
<1>1. PICK f : Cuts(p, f) /\ Segments(p) = f[Len(p)]
  BY SegmentsCut
<1>2. PICK g : Cuts(q, g) /\ Segments(q) = g[Len(q)]
  BY SegmentsCut
<1>3. Len(p) \in 0..Len(p) /\ Len(p) \in 0..Len(q)
  OBVIOUS
<1>4. Len(f[Len(p)]) = Len(g[Len(p)])
  BY <1>1, <1>2, <1>3, CutsAgree
<1>5. Len(g[Len(p)]) <= Len(g[Len(q)])
  BY <1>2, <1>3, CutGrows
<1> QED BY <1>1, <1>2, <1>4, <1>5

\* A slash at the end makes no difference.
LEMMA SlashAtEnd ==
  ASSUME NEW p \in Seq(STRING), NEW q \in Seq(STRING),
         Len(q) = Len(p) + 1, q[Len(q)] = "/", \A n \in 1..Len(p) : p[n] = q[n]
  PROVE  Segments(q) = Segments(p)
<1>1. PICK f : Cuts(p, f) /\ Segments(p) = f[Len(p)]
  BY SegmentsCut
<1>2. PICK g : Cuts(q, g) /\ Segments(q) = g[Len(q)]
  BY SegmentsCut
<1>3. /\ Len(p) \in Nat /\ Len(q) = Len(p) + 1 /\ q[Len(q)] = "/"
      /\ \A n \in 1..Len(p) : p[n] = q[n]
  OBVIOUS
<1>4. f[Len(p)] = g[Len(p)]
  <2>1. Len(p) <= Len(q) /\ Len(p) \in 0..Len(p)
    BY <1>3
  <2>2. \A n \in 0..Len(p) : f[n] = g[n]
    BY <2>1, <1>1, <1>2, <1>3, CutsSame
  <2> QED BY <2>1, <2>2
<1>5. Len(q) \in 1..Len(q) /\ Len(q) - 1 = Len(p)
  BY <1>3
<1>6. g[Len(q)] = Extend(g[Len(q) - 1], q, Len(q))
  BY <1>2, <1>5, CutType
<1>7. g[Len(q)] = g[Len(p)]
  BY <1>3, <1>5, <1>6 DEF Extend
<1> QED BY <1>1, <1>2, <1>4, <1>7

LEMMA PrefixByParts ==
  ASSUME NEW S, NEW a \in Seq(S), NEW b \in Seq(S), Len(a) <= Len(b), \A i \in 1..Len(a) : a[i] = b[i]
  PROVE  IsPrefix(a, b)
<1>1. Len(a) \in Nat /\ SubSeq(a, 1, Len(a)) = a
  OBVIOUS
<1>2. /\ SubSeq(b, 1, Len(a)) \in Seq(S) /\ Len(SubSeq(b, 1, Len(a))) = Len(a)
      /\ \A i \in 1..Len(a) : SubSeq(b, 1, Len(a))[i] = b[i]
  BY <1>1, SubSeqType, SubSeqAt
<1>3. PICK c \in Seq(S) : c = SubSeq(b, 1, Len(a))
  BY <1>2
<1>4. c = a
  BY <1>2, <1>3
<1> QED BY <1>1, <1>3, <1>4 DEF IsPrefix

\* A path that goes on behind another with a slash goes on behind its segments.
LEMMA SegmentPrefix ==
  ASSUME NEW p \in Seq(STRING), NEW q \in Seq(STRING),
         Len(p) <= Len(q), \A n \in 1..Len(p) : p[n] = q[n],
         Len(p) = Len(q) \/ q[Len(p) + 1] = "/"
  PROVE  IsPrefix(Segments(p), Segments(q))
<1>1. PICK f : Cuts(p, f) /\ Segments(p) = f[Len(p)]
  BY SegmentsCut
<1>2. PICK g : Cuts(q, g) /\ Segments(q) = g[Len(q)]
  BY SegmentsCut
<1> DEFINE k == Len(p)
<1>3. k \in Nat /\ Len(q) \in Nat /\ k <= Len(q) /\ k \in 0..Len(q)
  OBVIOUS
<1>4. f[k] = g[k]
  <2>1. k \in 0..Len(p)
    BY <1>3
  <2> QED BY <2>1, <1>1, <1>2, CutsSame
<1> HIDE DEF k
<1>5. \A n \in 0..Len(q) : g[n] \in Seq(Seq(STRING))
  BY <1>2, CutType
<1> DEFINE Kept(n) == /\ Len(g[k]) <= Len(g[n]) /\ \A i \in 1..Len(g[k]) : g[n][i] = g[k][i]
                      /\ n > k /\ q[n] # "/" => Len(g[k]) < Len(g[n])
           S == {d \in Nat : k + d <= Len(q) => Kept(k + d)}
<1>6. 0 \in S
  <2>1. Len(g[k]) \in Nat /\ k + 0 = k
    BY <1>3, <1>5
  <2>2. Kept(k)
    BY <2>1, <1>3
  <2> HIDE DEF Kept
  <2> QED BY <2>1, <2>2
<1>7. \A d \in Nat : d \in S => d + 1 \in S
  <2> TAKE d \in Nat
  <2> HAVE d \in S
  <2> SUFFICES ASSUME k + (d + 1) <= Len(q) PROVE Kept(k + (d + 1))
    OBVIOUS
  <2>1. PICK n \in 1..Len(q) : n = k + (d + 1)
    BY <1>3
  <2>2. n - 1 = k + d /\ n - 1 \in 0..Len(q) /\ n > k /\ n \in 0..Len(q) /\ (d > 0 => n - 1 > k) /\ (d = 0 => n = k + 1)
    BY <1>3, <2>1
  <2>3. Kept(n - 1)
    <3>1. k + d <= Len(q)
      BY <1>3
    <3> HIDE DEF Kept
    <3> QED BY <3>1, <2>2
  <2>4. /\ Len(g[n]) = (IF Begins(q, n) THEN Len(g[n - 1]) + 1 ELSE Len(g[n - 1]))
        /\ \A i \in 1..Len(g[n - 1]) : i < Len(g[n - 1]) \/ q[n] = "/" \/ Begins(q, n) => g[n][i] = g[n - 1][i]
    BY <1>2, CutStep
  <2>5. Len(g[k]) \in Nat /\ Len(g[n - 1]) \in Nat
    BY <1>3, <1>5, <2>2
  <2>6. q[n] = "/" \/ Begins(q, n) \/ Len(g[k]) < Len(g[n - 1])
    <3>1. CASE d = 0
      <4>1. n = k + 1 /\ k # Len(q)
        BY <3>1, <2>2, <1>3
      <4> QED BY <4>1 DEF k
    <3>2. CASE d > 0
      BY <3>2, <2>2, <2>3, <1>3 DEF Begins
    <3> QED BY <3>1, <3>2
  <2>7. Len(g[k]) <= Len(g[n]) /\ \A i \in 1..Len(g[k]) : g[n][i] = g[k][i]
    <3>1. Len(g[k]) <= Len(g[n])
      BY <2>3, <2>4, <2>5
    <3>2. ASSUME NEW i \in 1..Len(g[k]) PROVE g[n][i] = g[k][i]
      <4>1. g[n - 1][i] = g[k][i]
        BY <2>3
      <4>2. i \in 1..Len(g[n - 1]) /\ i <= Len(g[k])
        BY <2>3, <2>5
      <4>3. i < Len(g[n - 1]) \/ q[n] = "/" \/ Begins(q, n)
        BY <2>5, <2>6, <4>2
      <4>4. g[n][i] = g[n - 1][i]
        BY <2>4, <4>2, <4>3
      <4> QED BY <4>1, <4>4
    <3> QED BY <3>1, <3>2
  <2>8. q[n] # "/" => Len(g[k]) < Len(g[n])
    BY <2>3, <2>4, <2>5, <2>6
  <2>9. Kept(n)
    BY <2>7, <2>8
  <2> HIDE DEF Kept
  <2> QED BY <2>1, <2>9
<1> HIDE DEF S, Kept
<1>8. PICK d \in Nat : k + d = Len(q)
  <2>1. Len(q) - k \in Nat /\ k + (Len(q) - k) = Len(q)
    BY <1>3
  <2> QED BY <2>1
<1>9. d \in S
  BY <1>6, <1>7, SetInduction
<1>10. Kept(Len(q))
  BY <1>8, <1>9, <1>3 DEF S
<1>11. g[k] \in Seq(Seq(STRING)) /\ g[Len(q)] \in Seq(Seq(STRING))
  BY <1>3, <1>5
<1>12. IsPrefix(g[k], g[Len(q)])
  BY <1>10, <1>11, PrefixByParts DEF Kept
<1> QED BY <1>1, <1>2, <1>4, <1>12 DEF k
-----------------------------------------------------------------------------
(***************************************************************************)
(* What matches: prefixes by tokens, in either case, are prefixes by       *)
(* segments.                                                               *)
(***************************************************************************)
LEMMA LowerType ==
  ASSUME NEW t \in STRING
  PROVE  Lower(t) \in STRING /\ (Lower(t) = "/" <=> t = "/")
BY CapsAssumption DEF Lower

LEMMA FoldType ==
  ASSUME NEW p \in Seq(STRING)
  PROVE  /\ Fold(p) \in Seq(STRING) /\ Len(Fold(p)) = Len(p)
         /\ \A n \in 1..Len(p) : Fold(p)[n] = Lower(p[n]) /\ (Fold(p)[n] = "/" <=> p[n] = "/")
<1>1. DOMAIN p = 1..Len(p) /\ Len(p) \in Nat /\ \A n \in 1..Len(p) : p[n] \in STRING
  OBVIOUS
<1>2. Fold(p) = [n \in 1..Len(p) |-> Lower(p[n])]
  BY <1>1 DEF Fold
<1>3. \A n \in 1..Len(p) : Lower(p[n]) \in STRING /\ (Lower(p[n]) = "/" <=> p[n] = "/")
  BY <1>1, LowerType
<1>4. Fold(p) \in Seq(STRING) /\ Len(Fold(p)) = Len(p)
  BY <1>1, <1>2, <1>3
<1> QED BY <1>2, <1>3, <1>4

LEMMA TrimSegments ==
  ASSUME NEW p \in Seq(STRING)
  PROVE  /\ Segments(TrimSuffix(p, "/")) = Segments(p)
         /\ Segments(Fold(TrimSuffix(p, "/"))) = Segments(Fold(p))
<1>1. PICK t : t = TrimSuffix(p, "/")
  OBVIOUS
<1>2. t \in Seq(STRING) /\ (t = p \/ p = Append(t, "/"))
  BY <1>1, TrimType
<1>3. CASE t = p
  BY <1>1, <1>3
<1>4. CASE p = Append(t, "/")
  <2>1. Len(p) = Len(t) + 1 /\ p[Len(p)] = "/" /\ (\A n \in 1..Len(t) : t[n] = p[n]) /\ Len(t) \in Nat
    BY <1>2, <1>4
  <2>2. Segments(p) = Segments(t)
    BY <1>2, <2>1, SlashAtEnd
  <2>3. /\ Fold(p) \in Seq(STRING) /\ Fold(t) \in Seq(STRING)
        /\ Len(Fold(p)) = Len(p) /\ Len(Fold(t)) = Len(t)
        /\ \A n \in 1..Len(p) : Fold(p)[n] = Lower(p[n]) /\ (Fold(p)[n] = "/" <=> p[n] = "/")
        /\ \A n \in 1..Len(t) : Fold(t)[n] = Lower(t[n])
    BY <1>2, FoldType
  <2>4. Len(p) \in 1..Len(p) /\ \A n \in 1..Len(t) : n \in 1..Len(p)
    BY <2>1
  <2>5. Fold(p)[Len(Fold(p))] = "/" /\ \A n \in 1..Len(Fold(t)) : Fold(t)[n] = Fold(p)[n]
    BY <2>1, <2>3, <2>4
  <2>6. Segments(Fold(p)) = Segments(Fold(t))
    BY <2>1, <2>3, <2>5, SlashAtEnd
  <2> QED BY <1>1, <2>2, <2>6
<1> QED BY <1>2, <1>3, <1>4

Repository(u) == TrimSuffix(TrimSuffix(u.path, "/"), ".git")

\* What a credential's path is to a URL that it matches.
LEMMA MatchFacts ==
  ASSUME NEW s \in Settings, NEW u, u.path \in Seq(STRING), NEW i \in Matching(s, u), s.https[i].path # <<>>
  PROVE  LET t == TrimSuffix(s.https[i].path, "/")
             v == Repository(u)
         IN  /\ t \in Seq(STRING) /\ v \in Seq(STRING) /\ Len(t) <= Len(v)
             /\ \A n \in 1..Len(t) : Fold(t)[n] = Fold(v)[n] /\ (t[n] = "/" <=> v[n] = "/")
             /\ Len(t) = Len(v) \/ v[Len(t) + 1] = "/"
             /\ PathLen(s.https[i]) = Len(t)
<1> DEFINE c == s.https[i]
<1>1. PICK t : t = TrimSuffix(c.path, "/")
  OBVIOUS
<1>2. PICK v : v = Repository(u)
  OBVIOUS
<1>3. c.path \in Seq(STRING) /\ HTTPSMatches(c, u)
  BY PathLenType DEF Matching
<1>4. t \in Seq(STRING)
  BY <1>1, <1>3, TrimType
<1>5. v \in Seq(STRING)
  BY <1>2, TrimType DEF Repository
<1>6. IsPrefix(Fold(t), Fold(v)) /\ (Len(v) = Len(t) \/ v[Len(t) + 1] = "/")
  BY <1>1, <1>2, <1>3 DEF HTTPSMatches, hasSegmentPrefixFold, hasPrefixFold, Repository
<1>7. /\ Fold(t) \in Seq(STRING) /\ Len(Fold(t)) = Len(t) /\ Fold(v) \in Seq(STRING) /\ Len(Fold(v)) = Len(v)
      /\ \A n \in 1..Len(t) : Fold(t)[n] = "/" <=> t[n] = "/"
      /\ \A n \in 1..Len(v) : Fold(v)[n] = "/" <=> v[n] = "/"
  BY <1>4, <1>5, FoldType
<1>8. Len(t) <= Len(v) /\ \A n \in 1..Len(t) : Fold(t)[n] = Fold(v)[n]
  BY <1>6, <1>7, PrefixAt
<1>9. \A n \in 1..Len(t) : t[n] = "/" <=> v[n] = "/"
  <2> TAKE n \in 1..Len(t)
  <2>1. n \in 1..Len(v)
    BY <1>4, <1>5, <1>8
  <2>2. (Fold(t)[n] = "/" <=> t[n] = "/") /\ (Fold(v)[n] = "/" <=> v[n] = "/")
    BY <1>7, <2>1
  <2> QED BY <1>8, <2>2
<1>10. PathLen(c) = Len(t)
  BY <1>1 DEF PathLen
<1> QED BY <1>1, <1>2, <1>4, <1>5, <1>6, <1>8, <1>9, <1>10

\* A credential's path is one of the URL's, segment by segment (hasSegmentPrefixFold).
LEMMA MatchScoped ==
  ASSUME NEW s \in Settings, NEW u, u.path \in Seq(STRING), NEW i \in Matching(s, u)
  PROVE  IsPrefix(Segments(Fold(s.https[i].path)), Segments(Fold(Repository(u))))
<1>0. s.https[i].path \in Seq(STRING)
  BY PathLenType DEF Matching
<1>1. PICK v : v = Fold(Repository(u)) /\ v \in Seq(STRING)
  <2>1. Repository(u) \in Seq(STRING)
    BY TrimType DEF Repository
  <2> QED BY <2>1, FoldType
<1>2. CASE s.https[i].path = <<>>
  <2>1. PICK p \in Seq(STRING) : p = Fold(s.https[i].path) /\ Len(p) = 0
    BY <1>0, <1>2, FoldType
  <2>2. Len(p) <= Len(v) /\ \A n \in 1..Len(p) : p[n] = v[n]
    BY <1>1, <2>1
  <2>3. PICK f : Cuts(p, f) /\ Segments(p) = f[Len(p)]
    BY SegmentsCut
  <2>4. PICK g : Cuts(v, g) /\ Segments(v) = g[Len(v)]
    BY <1>1, SegmentsCut
  <2>5. Segments(p) = <<>>
    BY <2>1, <2>3, CutType
  <2>6. Segments(v) \in Seq(Seq(STRING))
    <3>1. Len(v) \in 0..Len(v)
      BY <1>1
    <3> QED BY <1>1, <3>1, <2>4, CutType
  <2>7. PICK a \in Seq(Seq(STRING)) : a = Segments(p) /\ Len(a) = 0
    <3> DEFINE nil == <<>>
    <3>1. nil \in Seq(Seq(STRING)) /\ Len(nil) = 0
      OBVIOUS
    <3>2. Segments(p) = nil
      BY <2>5
    <3> HIDE DEF nil
    <3> QED BY <3>1, <3>2
  <2>9. Len(a) <= Len(Segments(v)) /\ \A n \in 1..Len(a) : a[n] = Segments(v)[n]
    BY <2>6, <2>7
  <2>8. IsPrefix(a, Segments(v))
    BY <2>6, <2>7, <2>9, PrefixByParts
  <2> QED BY <1>1, <2>1, <2>7, <2>8
<1>3. CASE s.https[i].path # <<>>
  <2>1. PICK t : t = TrimSuffix(s.https[i].path, "/")
    OBVIOUS
  <2>2. PICK r : r = Repository(u)
    OBVIOUS
  <2>3. /\ t \in Seq(STRING) /\ r \in Seq(STRING) /\ Len(t) <= Len(r)
        /\ \A n \in 1..Len(t) : Fold(t)[n] = Fold(r)[n]
        /\ Len(t) = Len(r) \/ r[Len(t) + 1] = "/"
    BY <1>3, <2>1, <2>2, MatchFacts
  <2>4. /\ Fold(t) \in Seq(STRING) /\ Len(Fold(t)) = Len(t) /\ Fold(r) \in Seq(STRING) /\ Len(Fold(r)) = Len(r)
        /\ \A n \in 1..Len(r) : Fold(r)[n] = "/" <=> r[n] = "/"
    BY <2>3, FoldType
  <2>5. Len(t) = Len(r) \/ Fold(r)[Len(t) + 1] = "/"
    <3>1. Len(t) # Len(r) => Len(t) + 1 \in 1..Len(r)
      BY <2>3
    <3> QED BY <2>3, <2>4, <3>1
  <2>6. IsPrefix(Segments(Fold(t)), Segments(Fold(r)))
    BY <2>3, <2>4, <2>5, SegmentPrefix
  <2>7. Segments(Fold(t)) = Segments(Fold(s.https[i].path))
    BY <1>0, <2>1, TrimSegments
  <2> QED BY <2>2, <2>6, <2>7
<1> QED BY <1>2, <1>3

\* A match that does not come before another has no more segments.
LEMMA MatchOrder ==
  ASSUME NEW s \in Settings, NEW u, u.path \in Seq(STRING), NEW i \in Matching(s, u), NEW j \in Matching(s, u),
         ~MoreSpecific(s, j, i)
  PROVE  Len(Segments(s.https[j].path)) <= Len(Segments(s.https[i].path))
<1>1. /\ s.https[i].path \in Seq(STRING) /\ s.https[j].path \in Seq(STRING)
      /\ PathLen(s.https[i]) \in Int /\ PathLen(s.https[j]) \in Int
  BY PathLenType DEF Matching
<1>2. PathLen(s.https[j]) <= PathLen(s.https[i])
  BY <1>1 DEF MoreSpecific
<1>3. CASE s.https[j].path = <<>>
  <2>1. PICK p \in Seq(STRING) : p = s.https[j].path /\ Len(p) = 0
    BY <1>1, <1>3
  <2>2. PICK q \in Seq(STRING) : q = s.https[i].path
    BY <1>1
  <2>3. Len(p) <= Len(q) /\ \A n \in 1..Len(p) : p[n] = "/" <=> q[n] = "/"
    BY <2>1
  <2> QED BY <2>1, <2>2, <2>3, FewerSegments
<1>4. CASE s.https[j].path # <<>>
  <2>1. PICK t : t = TrimSuffix(s.https[j].path, "/")
    OBVIOUS
  <2>2. PICK r : r = Repository(u)
    OBVIOUS
  <2>3. /\ t \in Seq(STRING) /\ Len(t) <= Len(r) /\ PathLen(s.https[j]) = Len(t)
        /\ \A n \in 1..Len(t) : t[n] = "/" <=> r[n] = "/"
    BY <1>4, <2>1, <2>2, MatchFacts
  <2>4. Len(t) >= 0
    BY <2>3
  <2>5. s.https[i].path # <<>>
    <3>1. s.https[i].path = <<>> => PathLen(s.https[i]) = -1
      BY DEF PathLen
    <3> QED BY <3>1, <1>2, <2>3, <2>4
  <2>6. PICK v : v = TrimSuffix(s.https[i].path, "/")
    OBVIOUS
  <2>7. /\ v \in Seq(STRING) /\ PathLen(s.https[i]) = Len(v)
        /\ \A n \in 1..Len(v) : v[n] = "/" <=> r[n] = "/"
    BY <2>5, <2>6, <2>2, MatchFacts
  <2>8. Len(t) <= Len(v)
    BY <1>2, <2>3, <2>7
  <2>9. \A n \in 1..Len(t) : t[n] = "/" <=> v[n] = "/"
    <3> TAKE n \in 1..Len(t)
    <3>1. n \in 1..Len(v)
      BY <2>3, <2>7, <2>8
    <3> QED BY <3>1, <2>3, <2>7
  <2>10. Len(Segments(t)) <= Len(Segments(v))
    BY <2>3, <2>7, <2>8, <2>9, FewerSegments
  <2>11. Segments(t) = Segments(s.https[j].path) /\ Segments(v) = Segments(s.https[i].path)
    BY <1>1, <2>1, <2>6, TrimSegments
  <2> QED BY <2>10, <2>11
<1> QED BY <1>3, <1>4
-----------------------------------------------------------------------------
(***************************************************************************)
(* Which secrets are sent, and in which order.                             *)
(***************************************************************************)
\* An HTTPS credential is one that matches u, for its host or its platform's.
Scoped(s, u, x) ==
  x.source = "https" => x.i \in Matching(s, u) /\ x.host \in {u.host, archiveURL(u)}

Configured(s, source) ==
  CASE source = "key" -> s.keys [] source = "cert" -> s.certs [] source = "proxy" -> s.proxies [] source = "oci" -> s.oci

ByHost == {"key", "cert", "proxy", "oci"}

\* What is before a secret of X in the order of its source is in X too.
InTurn(s, u, X) ==
  \A x \in X :
    /\ x.source = "https" =>
         \A j \in Matching(s, u) : MoreSpecific(s, j, x.i) => \E y \in X : y.source = "https" /\ y.i = j
    /\ x.source \in ByHost =>
         LET list == Configured(s, x.source)
         IN  list[x.i].host = <<>> => \A j \in ForHost(list, x.host) : \E y \in X : y.source = x.source /\ y.i = j

\* Both at once, of a set of secrets.
Fair(s, u, X) == (\A x \in X : Scoped(s, u, x)) /\ InTurn(s, u, X)

LEMMA FairUnion ==
  ASSUME NEW s, NEW u, NEW C, \A X \in C : Fair(s, u, X)
  PROVE  Fair(s, u, UNION C)
<1> DEFINE Z == UNION C
<1>1. ASSUME NEW x \in Z
      PROVE  /\ Scoped(s, u, x)
             /\ x.source = "https" =>
                  \A j \in Matching(s, u) : MoreSpecific(s, j, x.i) => \E y \in Z : y.source = "https" /\ y.i = j
             /\ x.source \in ByHost =>
                  LET list == Configured(s, x.source)
                  IN  list[x.i].host = <<>> => \A j \in ForHost(list, x.host) : \E y \in Z : y.source = x.source /\ y.i = j
  <2>1. PICK X \in C : x \in X
    OBVIOUS
  <2>2. Fair(s, u, X) /\ X \subseteq Z
    BY <2>1
  <2> HIDE DEF Z
  <2> QED BY <2>1, <2>2 DEF Fair, InTurn
<1> HIDE DEF Z
<1>2. Fair(s, u, Z)
  BY <1>1 DEF Fair, InTurn
<1> QED BY <1>2 DEF Z

LEMMA FairPair ==
  ASSUME NEW s, NEW u, NEW X, NEW Y, Fair(s, u, X), Fair(s, u, Y)
  PROVE  Fair(s, u, X \cup Y)
<1>1. \A Z \in {X, Y} : Fair(s, u, Z)
  OBVIOUS
<1>2. X \cup Y = UNION {X, Y}
  OBVIOUS
<1>3. PICK C : C = {X, Y}
  OBVIOUS
<1>4. Fair(s, u, UNION C)
  BY <1>1, <1>3, FairUnion
<1> QED BY <1>2, <1>3, <1>4

\* Secrets of which there is one each, or that are not matched.
LEMMA FairOthers ==
  ASSUME NEW s, NEW u, NEW X, \A x \in X : x.source \notin ByHost \cup {"https"}
  PROVE  Fair(s, u, X)
BY DEF Fair, Scoped, InTurn

\* The secrets of a transport.
LEMMA TransportFair ==
  ASSUME NEW s \in Settings, NEW u, NEW host
  PROVE  Fair(s, u, TransportFor(s, host))
<1>0. s.certs \in Seq(ForAHost) /\ s.proxies \in Seq(ForAHost)
  BY DEF Settings
<1> DEFINE X == TransportFor(s, host)
<1>1. ASSUME NEW x \in X
      PROVE  /\ x.source \in {"cert", "proxy"} /\ x.host = host
             /\ x.source = "cert" => x.i = MatchHost(s.certs, host) /\ x.i # 0
             /\ x.source = "proxy" => x.i = MatchHost(s.proxies, host) /\ x.i # 0
  BY DEF TransportFor, Secret, MatchClientCertificate, MatchProxy
<1> HIDE DEF X
<1>2. ASSUME NEW x \in X, Configured(s, x.source)[x.i].host = <<>>
      PROVE  ForHost(Configured(s, x.source), x.host) = {}
  <2>1. CASE x.source = "cert"
    <3>1. Configured(s, x.source) = s.certs
      BY <2>1 DEF Configured
    <3> QED BY <1>0, <1>1, <1>2, <2>1, <3>1, MatchHostOrder
  <2>2. CASE x.source = "proxy"
    <3>1. Configured(s, x.source) = s.proxies
      BY <2>2 DEF Configured
    <3> QED BY <1>0, <1>1, <1>2, <2>2, <3>1, MatchHostOrder
  <2> QED BY <1>1, <2>1, <2>2
<1>3. \A x \in X : Scoped(s, u, x)
  BY <1>1 DEF Scoped
<1>4. InTurn(s, u, X)
  BY <1>1, <1>2 DEF InTurn
<1> QED BY <1>3, <1>4 DEF Fair, X

\* One HTTPS credential: the most specific.
LEMMA StaticFair ==
  ASSUME NEW s \in Settings, NEW u, MatchHTTPSCredential(s.https, u) # 0, NEW host \in {u.host, archiveURL(u)}
  PROVE  Fair(s, u, {Secret("https", MatchHTTPSCredential(s.https, u), host)})
<1>1. PICK i : i = MatchHTTPSCredential(s.https, u)
  OBVIOUS
<1>2. i \in Matching(s, u) /\ \A j \in Matching(s, u) : ~MoreSpecific(s, j, i)
  BY <1>1, MostSpecificMatch
<1>3. PICK x : x = Secret("https", i, host)
  OBVIOUS
<1>4. x.source = "https" /\ x.i = i /\ x.host = host
  BY <1>3 DEF Secret
<1>5. Fair(s, u, {x})
  BY <1>2, <1>4 DEF Fair, Scoped, InTurn, ByHost
<1> QED BY <1>1, <1>3, <1>5

LEMMA HTTPFair ==
  ASSUME NEW s \in Settings, NEW u
  PROVE  Fair(s, u, HTTPCredential(s, u))
<1> DEFINE X == HTTPCredential(s, u)
<1>1. CASE u.user = "none" /\ MatchHTTPSCredential(s.https, u) # 0
  <2>1. X = {Secret("https", MatchHTTPSCredential(s.https, u), u.host)}
    BY <1>1 DEF HTTPCredential
  <2> HIDE DEF X
  <2>2. u.host \in {u.host, archiveURL(u)}
    OBVIOUS
  <2>3. Fair(s, u, {Secret("https", MatchHTTPSCredential(s.https, u), u.host)})
    BY <1>1, <2>2, StaticFair
  <2> QED BY <2>1, <2>3 DEF X
<1>2. CASE ~(u.user = "none" /\ MatchHTTPSCredential(s.https, u) # 0)
  <2>1. \A x \in X : x.source \in {"url", "request", "netrc"}
    BY <1>2 DEF HTTPCredential, Secret
  <2> HIDE DEF X
  <2>2. \A x \in X : x.source \notin ByHost \cup {"https"}
    BY <2>1 DEF ByHost
  <2> QED BY <2>2, FairOthers DEF X
<1> QED BY <1>1, <1>2

LEMMA OCIFair ==
  ASSUME NEW s \in Settings, NEW u
  PROVE  Fair(s, u, OCICredential(s, u))
<1> DEFINE X == OCICredential(s, u)
<1>0. \E T : s.oci \in Seq(T)
  BY DEF Settings
<1>1. ASSUME NEW x \in X
      PROVE  /\ x.source \in {"oci", "request", "netrc"}
             /\ x.source = "oci" => x.i = MatchHost(s.oci, u.host) /\ x.i # 0 /\ x.host = u.host
  BY DEF OCICredential, Secret, MatchOCICredential
<1> HIDE DEF X
<1>2. ASSUME NEW x \in X, x.source \in ByHost, Configured(s, x.source)[x.i].host = <<>>
      PROVE  ForHost(Configured(s, x.source), x.host) = {}
  <2>1. x.source = "oci"
    BY <1>1, <1>2 DEF ByHost
  <2>2. Configured(s, x.source) = s.oci
    BY <2>1 DEF Configured
  <2> QED BY <1>0, <1>1, <1>2, <2>1, <2>2, MatchHostOrder
<1>3. \A x \in X : Scoped(s, u, x)
  BY <1>1 DEF Scoped
<1>4. InTurn(s, u, X)
  BY <1>1, <1>2 DEF InTurn
<1> QED BY <1>3, <1>4 DEF Fair, X
-----------------------------------------------------------------------------
(***************************************************************************)
(* Chains: what is offered of them is fair, however far they are followed. *)
(***************************************************************************)
\* Secrets that are neither matched nor configured for a host.
Loose(host) == [source : {"url", "request", "helper", "agent", "token"}, i : {0}, host : {host}]

LEMMA LooseSecret ==
  ASSUME NEW source \in {"url", "request", "helper", "agent", "token"}, NEW host, NEW c
  PROVE  When(c, Secret(source, 0, host)) \in Seq(Loose(host))
<1>1. Secret(source, 0, host) \in Loose(host)
  BY DEF Secret, Loose
<1> QED BY <1>1, WhenSeq

\* C is A, and then more of S.
Followed(A, C, S) ==
  /\ Len(C) >= Len(A)
  /\ \A k \in 1..Len(A) : C[k] = A[k]
  /\ \A k \in 1..Len(C) : k > Len(A) => C[k] \in S

LEMMA FollowedOn ==
  ASSUME NEW T, NEW S, S \subseteq T, NEW A \in Seq(T), NEW C \in Seq(T), Followed(A, C, S), NEW B \in Seq(S)
  PROVE  C \o B \in Seq(T) /\ Followed(A, C \o B, S)
<1>1. B \in Seq(T)
  OBVIOUS
<1>0. C \o B \in Seq(T)
  BY <1>1
<1>2. PICK D \in Seq(T) : D = C \o B
  BY <1>0
<1>3. /\ Len(D) = Len(C) + Len(B) /\ Len(A) \in Nat /\ Len(B) \in Nat /\ Len(C) \in Nat
      /\ \A k \in 1..Len(C) : D[k] = C[k]
      /\ \A k \in 1..Len(D) : k > Len(C) => D[k] = B[k - Len(C)] /\ k - Len(C) \in 1..Len(B)
  BY <1>1, <1>2
<1>4. \A m \in 1..Len(B) : B[m] \in S
  OBVIOUS
<1>5. Followed(A, D, S)
  <2>1. Len(D) >= Len(A)
    BY <1>3 DEF Followed
  <2>2. \A k \in 1..Len(A) : D[k] = A[k]
    BY <1>3 DEF Followed
  <2>3. ASSUME NEW k \in 1..Len(D), k > Len(A) PROVE D[k] \in S
    <3>1. CASE k > Len(C)
      BY <1>3, <1>4, <3>1
    <3>2. CASE ~(k > Len(C))
      <4>1. k \in 1..Len(C)
        BY <1>3, <3>2
      <4> QED BY <1>3, <2>3, <4>1 DEF Followed
    <3> QED BY <3>1, <3>2
  <2> QED BY <2>1, <2>2, <2>3 DEF Followed
<1> QED BY <1>2, <1>5

\* The first n of such a chain.
LEMMA FollowedFor ==
  ASSUME NEW T, NEW S, NEW A \in Seq(T), NEW C \in Seq(T), Followed(A, C, S), NEW n \in Nat, n <= Len(C)
  PROVE  LET X == ToSet(SubSeq(C, 1, n))
         IN  /\ \A x \in X : x \in S \/ \E k \in 1..Len(A) : k <= n /\ x = A[k]
             /\ \A k \in 1..Len(A) : k <= n => A[k] \in X
<1>1. PICK D : D = SubSeq(C, 1, n)
  OBVIOUS
<1>2. DOMAIN D = 1..n /\ \A k \in 1..n : D[k] = C[k]
  BY <1>1
<1>3. Len(C) \in Nat /\ Len(A) \in Nat
  OBVIOUS
<1>4. ASSUME NEW x \in ToSet(D) PROVE x \in S \/ \E k \in 1..Len(A) : k <= n /\ x = A[k]
  <2>1. PICK k \in 1..n : x = C[k]
    BY <1>2 DEF ToSet
  <2>2. k \in 1..Len(C)
    BY <1>3
  <2>3. k > Len(A) \/ k \in 1..Len(A)
    BY <1>3
  <2> QED BY <2>1, <2>2, <2>3 DEF Followed
<1>5. ASSUME NEW k \in 1..Len(A), k <= n PROVE A[k] \in ToSet(D)
  <2>1. k \in 1..n
    BY <1>5
  <2>2. D[k] = A[k]
    BY <1>2, <2>1 DEF Followed
  <2> QED BY <1>2, <2>1, <2>2 DEF ToSet
<1> QED BY <1>1, <1>4, <1>5

LEMMA FollowedSelf ==
  ASSUME NEW T, NEW A \in Seq(T), NEW S
  PROVE  Followed(A, A, S)
BY DEF Followed

LEMMA SSHFair ==
  ASSUME NEW s \in Settings, NEW u, NEW v, SSH(v), NEW n \in Nat, n <= Len(authCandidates(s, v))
  PROVE  Fair(s, u, ToSet(SubSeq(authCandidates(s, v), 1, n)))
<1> DEFINE keys == MatchSSHKeys(s, v.host)
           A == [k \in DOMAIN keys |-> Secret("key", keys[k], v.host)]
           B == When("agent" \in s.ambient /\ ~s.noSystem, Secret("agent", 0, v.host))
           T == {Secret("key", i, v.host) : i \in DOMAIN s.keys} \cup Loose(v.host)
           C == authCandidates(s, v)
           X == ToSet(SubSeq(C, 1, n))
<1>1. /\ keys \in Seq(DOMAIN s.keys)
      /\ \A k \in DOMAIN keys : s.keys[keys[k]].host = <<>> =>
           \A j \in ForHost(s.keys, v.host) : \E m \in DOMAIN keys : m < k /\ keys[m] = j
  BY KeysOrder
<1>2. C = A \o B
  BY DEF authCandidates, resolveSSHAuth
<1>3. B \in Seq(Loose(v.host))
  BY LooseSecret
<1> HIDE DEF B, keys
<1>4. A \in Seq(T) /\ Len(A) = Len(keys) /\ DOMAIN keys = 1..Len(A) /\ Len(A) \in Nat
  <2>1. \A k \in DOMAIN keys : Secret("key", keys[k], v.host) \in T
    BY <1>1
  <2>2. DOMAIN keys = 1..Len(keys) /\ Len(keys) \in Nat
    BY <1>1
  <2> HIDE DEF T
  <2> QED BY <2>1, <2>2
<1>5. \A k \in 1..Len(A) : A[k].source = "key" /\ A[k].i = keys[k] /\ A[k].host = v.host
  BY <1>4 DEF Secret
<1> HIDE DEF A
<1>6. C \in Seq(T) /\ Followed(A, C, Loose(v.host))
  <2>1. Loose(v.host) \subseteq T
    OBVIOUS
  <2> HIDE DEF T
  <2>2. Followed(A, A, Loose(v.host))
    BY <1>4, FollowedSelf
  <2>3. A \o B \in Seq(T) /\ Followed(A, A \o B, Loose(v.host))
    BY <2>1, <2>2, <1>3, <1>4, FollowedOn
  <2> QED BY <2>3, <1>2
<1> HIDE DEF T
<1>7. n <= Len(C)
  OBVIOUS
<1> HIDE DEF C
<1>8. /\ \A x \in X : x \in Loose(v.host) \/ \E k \in 1..Len(A) : k <= n /\ x = A[k]
      /\ \A k \in 1..Len(A) : k <= n => A[k] \in X
  BY <1>4, <1>6, <1>7, FollowedFor
<1> HIDE DEF X
<1>9. ASSUME NEW x \in X, x \notin Loose(v.host)
      PROVE  /\ x.source = "key" /\ x.host = v.host
             /\ s.keys[x.i].host = <<>> => \A j \in ForHost(s.keys, v.host) : \E y \in X : y.source = "key" /\ y.i = j
  <2>1. PICK k \in 1..Len(A) : k <= n /\ x = A[k]
    BY <1>8, <1>9
  <2>2. x.source = "key" /\ x.host = v.host /\ x.i = keys[k]
    BY <1>5, <2>1
  <2>3. ASSUME s.keys[x.i].host = <<>>, NEW j \in ForHost(s.keys, v.host)
        PROVE  \E y \in X : y.source = "key" /\ y.i = j
    <3>1. PICK m \in DOMAIN keys : m < k /\ keys[m] = j
      BY <1>1, <1>4, <2>1, <2>2, <2>3
    <3>2. m \in 1..Len(A) /\ m <= n
      BY <1>4, <2>1, <3>1
    <3>3. A[m] \in X /\ A[m].source = "key" /\ A[m].i = j
      BY <1>5, <1>8, <3>1, <3>2
    <3> QED BY <3>3
  <2> QED BY <2>2, <2>3
<1>10. \A x \in X : x \in Loose(v.host) => x.source \notin ByHost \cup {"https"}
  BY DEF Loose, ByHost
<1>11. \A x \in X : Scoped(s, u, x)
  <2> TAKE x \in X
  <2>1. x.source # "https"
    BY <1>9, <1>10
  <2> QED BY <2>1 DEF Scoped
<1>12. InTurn(s, u, X)
  <2>1. ASSUME NEW x \in X, x.source = "https" PROVE FALSE
    BY <1>9, <1>10, <2>1
  <2>2. ASSUME NEW x \in X, x.source \in ByHost
        PROVE  LET list == Configured(s, x.source)
               IN  list[x.i].host = <<>> => \A j \in ForHost(list, x.host) : \E y \in X : y.source = x.source /\ y.i = j
    <3>1. x \notin Loose(v.host)
      BY <1>10, <2>2
    <3>2. x.source = "key" /\ x.host = v.host
      BY <1>9, <3>1
    <3>3. Configured(s, x.source) = s.keys
      BY <3>2 DEF Configured
    <3> QED BY <1>9, <3>1, <3>2, <3>3
  <2> QED BY <2>1, <2>2 DEF InTurn
<1> QED BY <1>11, <1>12 DEF Fair, X, C

LEMMA HTTPSFair ==
  ASSUME NEW s \in Settings, NEW u, ~SSH(u), ~u.pass, NEW n \in Nat, n <= Len(authCandidates(s, u))
  PROVE  Fair(s, u, ToSet(SubSeq(authCandidates(s, u), 1, n)))
<1> DEFINE creds == MatchHTTPSCredentials(s.https, u)
           A == [k \in DOMAIN creds |-> Secret("https", creds[k], u.host)]
           B1 == When(RequestCredential(s), Secret("request", 0, u.host))
           B2 == When("helper" \in s.ambient /\ ~s.noSystem, Secret("helper", 0, u.host))
           B3 == When(u.user # "none", Secret("url", 0, u.host))
           T == {Secret("https", i, u.host) : i \in Matching(s, u)} \cup Loose(u.host)
           C == authCandidates(s, u)
           X == ToSet(SubSeq(C, 1, n))
<1>1. /\ creds \in Seq(Matching(s, u))
      /\ \A i \in Matching(s, u) : \E k \in DOMAIN creds : creds[k] = i
      /\ \A k, m \in DOMAIN creds : MoreSpecific(s, creds[k], creds[m]) => k < m
  BY Offered
<1>2. C = A \o B1 \o B2 \o B3
  BY DEF authCandidates
<1>3. B1 \in Seq(Loose(u.host)) /\ B2 \in Seq(Loose(u.host)) /\ B3 \in Seq(Loose(u.host))
  BY LooseSecret
<1> HIDE DEF B1, B2, B3, creds
<1>4. A \in Seq(T) /\ Len(A) = Len(creds) /\ DOMAIN creds = 1..Len(A) /\ Len(A) \in Nat
  <2>1. \A k \in DOMAIN creds : Secret("https", creds[k], u.host) \in T
    BY <1>1
  <2>2. DOMAIN creds = 1..Len(creds) /\ Len(creds) \in Nat
    BY <1>1
  <2> HIDE DEF T
  <2> QED BY <2>1, <2>2
<1>5. \A k \in 1..Len(A) : A[k].source = "https" /\ A[k].i = creds[k] /\ A[k].host = u.host
  BY <1>4 DEF Secret
<1> HIDE DEF A
<1>6. C \in Seq(T) /\ Followed(A, C, Loose(u.host))
  <2>1. Loose(u.host) \subseteq T
    OBVIOUS
  <2> HIDE DEF T
  <2>2. Followed(A, A, Loose(u.host))
    BY <1>4, FollowedSelf
  <2>3. A \o B1 \in Seq(T) /\ Followed(A, A \o B1, Loose(u.host))
    BY <2>1, <2>2, <1>3, <1>4, FollowedOn
  <2>4. A \o B1 \o B2 \in Seq(T) /\ Followed(A, A \o B1 \o B2, Loose(u.host))
    BY <2>1, <2>3, <1>3, <1>4, FollowedOn
  <2>5. A \o B1 \o B2 \o B3 \in Seq(T) /\ Followed(A, A \o B1 \o B2 \o B3, Loose(u.host))
    BY <2>1, <2>4, <1>3, <1>4, FollowedOn
  <2> QED BY <2>5, <1>2
<1> HIDE DEF T
<1>7. n <= Len(C)
  OBVIOUS
<1> HIDE DEF C
<1>8. /\ \A x \in X : x \in Loose(u.host) \/ \E k \in 1..Len(A) : k <= n /\ x = A[k]
      /\ \A k \in 1..Len(A) : k <= n => A[k] \in X
  BY <1>4, <1>6, <1>7, FollowedFor
<1> HIDE DEF X
<1>9. ASSUME NEW x \in X, x \notin Loose(u.host)
      PROVE  /\ x.source = "https" /\ x.host = u.host /\ x.i \in Matching(s, u)
             /\ \A j \in Matching(s, u) : MoreSpecific(s, j, x.i) => \E y \in X : y.source = "https" /\ y.i = j
  <2>1. PICK k \in 1..Len(A) : k <= n /\ x = A[k]
    BY <1>8, <1>9
  <2>2. x.source = "https" /\ x.host = u.host /\ x.i = creds[k] /\ creds[k] \in Matching(s, u)
    BY <1>1, <1>4, <1>5, <2>1
  <2>3. ASSUME NEW j \in Matching(s, u), MoreSpecific(s, j, x.i)
        PROVE  \E y \in X : y.source = "https" /\ y.i = j
    <3>1. PICK m \in DOMAIN creds : creds[m] = j
      BY <1>1
    <3>2. k \in DOMAIN creds
      BY <1>4
    <3>3. m < k
      BY <1>1, <2>2, <2>3, <3>1, <3>2
    <3>4. m \in 1..Len(A) /\ m <= n
      BY <1>4, <2>1, <3>1, <3>3
    <3>5. A[m] \in X /\ A[m].source = "https" /\ A[m].i = j
      BY <1>5, <1>8, <3>1, <3>4
    <3> QED BY <3>5
  <2> QED BY <2>2, <2>3
<1>10. \A x \in X : x \in Loose(u.host) => x.source \notin ByHost \cup {"https"}
  BY DEF Loose, ByHost
<1>11. \A x \in X : Scoped(s, u, x)
  BY <1>9, <1>10 DEF Scoped
<1>12. InTurn(s, u, X)
  <2>1. \A x \in X : x.source \notin ByHost
    BY <1>9, <1>10 DEF ByHost
  <2>2. \A x \in X : x.source = "https" =>
          \A j \in Matching(s, u) : MoreSpecific(s, j, x.i) => \E y \in X : y.source = "https" /\ y.i = j
    BY <1>9, <1>10
  <2> QED BY <2>1, <2>2 DEF InTurn
<1> QED BY <1>11, <1>12 DEF Fair, X, C

LEMMA OverSSH ==
  ASSUME NEW r, "form" \in DOMAIN r, "scheme" \in DOMAIN r
  PROVE  SSH(httpsToSSH(r))
<1>1. PICK v : v = httpsToSSH(r)
  OBVIOUS
<1>2. v.form = "scheme" /\ v.scheme = "ssh"
  BY <1>1 DEF httpsToSSH
<1>3. WithScheme(v) = v
  BY <1>2 DEF WithScheme
<1> QED BY <1>1, <1>2, <1>3 DEF SSH

\* The URLs that are tried over HTTPS are all the one that is matched with.
LEMMA CandidateMatched ==
  ASSUME NEW s, NEW r, "form" \in DOMAIN r, "scheme" \in DOMAIN r,
         NEW c \in DOMAIN cloneCandidates(s, r),
         ~SSH(cloneCandidates(s, r)[c])
  PROVE  cloneCandidates(s, r)[c] = sshToHTTPS(r)
<1>1. CASE s.sshToHTTPS
  <2>1. cloneCandidates(s, r) = <<sshToHTTPS(r)>>
    BY <1>1 DEF cloneCandidates
  <2> QED BY <2>1
<1>2. CASE ~s.sshToHTTPS /\ SSH(r)
  <2>1. cloneCandidates(s, r) = <<r, sshToHTTPS(r)>>
    BY <1>2 DEF cloneCandidates
  <2> QED BY <1>2, <2>1
<1>3. CASE ~s.sshToHTTPS /\ ~SSH(r)
  <2>1. cloneCandidates(s, r) \in {<<r, httpsToSSH(r)>>, <<r>>}
    BY <1>3 DEF cloneCandidates
  <2>2. cloneCandidates(s, r)[c] = r \/ cloneCandidates(s, r) = <<r, httpsToSSH(r)>>
    BY <2>1
  <2>3. ASSUME cloneCandidates(s, r) = <<r, httpsToSSH(r)>> PROVE cloneCandidates(s, r)[c] \in {r, httpsToSSH(r)}
    BY <2>3
  <2>4. sshToHTTPS(r) = r
    BY <1>3 DEF sshToHTTPS
  <2> QED BY <2>2, <2>3, <2>4, OverSSH
<1> QED BY <1>1, <1>2, <1>3

LEMMA ChainFair ==
  ASSUME NEW s \in Settings, NEW u, NEW v, SSH(v) \/ v = u, NEW n \in Nat, n <= Len(authCandidates(s, v))
  PROVE  Fair(s, u, ToSet(SubSeq(authCandidates(s, v), 1, n)))
<1>1. CASE SSH(v)
  BY <1>1, SSHFair
<1>2. CASE ~SSH(v) /\ v.pass
  <2>1. authCandidates(s, v) = <<Secret("url", 0, v.host)>>
    BY <1>2 DEF authCandidates
  <2> DEFINE S == {Secret("url", 0, v.host)}
             X == ToSet(SubSeq(authCandidates(s, v), 1, n))
  <2>2. authCandidates(s, v) \in Seq(S)
    BY <2>1
  <2>3. \A x \in S : x.source = "url"
    BY DEF Secret
  <2> HIDE DEF S
  <2>4. SubSeq(authCandidates(s, v), 1, n) \in Seq(S)
    BY <2>2, SubSeqType
  <2>5. \A x \in X : x \in S
    BY <2>4 DEF ToSet
  <2> HIDE DEF X
  <2>6. \A x \in X : x.source \notin ByHost \cup {"https"}
    BY <2>3, <2>5 DEF ByHost
  <2> QED BY <2>6, FairOthers DEF X
<1>3. CASE ~SSH(v) /\ ~v.pass
  BY <1>3, HTTPSFair
<1> QED BY <1>1, <1>2, <1>3

LEMMA ArchiveFair ==
  ASSUME NEW s \in Settings, NEW u
  PROVE  Fair(s, u, archiveCredentials(s, u))
<1> DEFINE host    == archiveURL(u)
           account == u.user \notin {"none", "git"}
           static  == MatchHTTPSCredential(s.https, u)
           S       == {y \in {Secret("https", static, host)} : static # 0}
                        \cup [source : {"url", "request", "helper", "agent", "token"}, i : {0}, host : {host}]
           chain   == When(account /\ u.pass, Secret("url", 0, host))
                        \o When(static # 0, Secret("https", static, host))
                        \o When(RequestCredential(s), Secret("request", 0, host))
                        \o When("helper" \in s.ambient /\ ~s.noSystem, Secret("helper", 0, host))
                        \o When(account, Secret("url", 0, host))
                        \o When("token" \in s.ambient /\ ~s.noSystem, Secret("token", 0, host))
           X       == archiveCredentials(s, u)
<1>1. X = {} \/ (chain # <<>> /\ X = {Head(chain)})
  BY DEF archiveCredentials
<1>2. chain \in Seq(S)
  <2> HIDE DEF host, static, account
  <2>1. \A source \in {"url", "request", "helper", "agent", "token"} : Secret(source, 0, host) \in S
    BY DEF Secret
  <2>2. When(account /\ u.pass, Secret("url", 0, host)) \in Seq(S)
    <3> HIDE DEF S
    <3> QED BY <2>1, WhenSeq
  <2>3. When(static # 0, Secret("https", static, host)) \in Seq(S)
    <3>1. static # 0 => Secret("https", static, host) \in S
      OBVIOUS
    <3> HIDE DEF S
    <3> QED BY <3>1, WhenSeq
  <2>4. When(RequestCredential(s), Secret("request", 0, host)) \in Seq(S)
    <3> HIDE DEF S
    <3> QED BY <2>1, WhenSeq
  <2>5. When("helper" \in s.ambient /\ ~s.noSystem, Secret("helper", 0, host)) \in Seq(S)
    <3> HIDE DEF S
    <3> QED BY <2>1, WhenSeq
  <2>6. When(account, Secret("url", 0, host)) \in Seq(S)
    <3> HIDE DEF S
    <3> QED BY <2>1, WhenSeq
  <2>7. When("token" \in s.ambient /\ ~s.noSystem, Secret("token", 0, host)) \in Seq(S)
    <3> HIDE DEF S
    <3> QED BY <2>1, WhenSeq
  <2> HIDE DEF S
  <2> QED BY <2>2, <2>3, <2>4, <2>5, <2>6, <2>7
<1>3. X = {} \/ \E x \in S : X = {x}
  <2> HIDE DEF S, X, chain
  <2> QED BY <1>1, <1>2
<1> HIDE DEF X, chain
<1>4. CASE X = {}
  BY <1>4, FairOthers DEF X
<1>5. ASSUME NEW x \in S, X = {x} PROVE Fair(s, u, X)
  <2>1. CASE static # 0 /\ x = Secret("https", static, host)
    <3>1. host \in {u.host, archiveURL(u)}
      OBVIOUS
    <3>2. Fair(s, u, {Secret("https", static, host)})
      BY <2>1, <3>1, StaticFair
    <3> QED BY <3>2, <2>1, <1>5
  <2>2. CASE x \in [source : {"url", "request", "helper", "agent", "token"}, i : {0}, host : {host}]
    <3>1. x.source \notin ByHost \cup {"https"}
      BY <2>2 DEF ByHost
    <3>2. \A y \in X : y.source \notin ByHost \cup {"https"}
      BY <3>1, <1>5
    <3> QED BY <3>2, FairOthers
  <2> QED BY <2>1, <2>2
<1> QED BY <1>3, <1>4, <1>5 DEF X

\* What was sent so far is scoped and in its turn; before the protocol is chosen
\* nothing was sent.
Due == (pc = "detect" => sent = {}) /\ Fair(w.s, Asked, sent)

LEMMA DueInit == Init => Due
<1>1. \A s, u : Fair(s, u, {})
  BY DEF Fair, InTurn
<1> QED BY <1>1 DEF Init, Due

LEMMA RepoFields ==
  ASSUME Chosen
  PROVE  "form" \in DOMAIN Repo /\ "scheme" \in DOMAIN Repo
<1>1. w.url \in URL
  BY WorldTypes DEF Chosen
<1> QED BY <1>1 DEF Repo, WithScheme, URL

\* A request adds what is fair of its own.
LEMMA RequestDue ==
  ASSUME Due, NEW p, NEW secrets, NEW label, label # "detect", Request(p, secrets, label), Fair(w.s, Asked, secrets)
  PROVE  Due'
<1>1. sent' = sent \cup secrets /\ UNCHANGED <<w, proto>> /\ pc' # "detect"
  BY DEF Request, Goto, Return
<1>2. Asked' = Asked
  BY <1>1 DEF Asked, Repo
<1>3. Fair(w.s, Asked, sent \cup secrets)
  BY FairPair DEF Due
<1> QED BY <1>1, <1>2, <1>3 DEF Due

LEMMA CloneDue ==
  ASSUME Chosen, Due, Clone
  PROVE  Due'
<1> DEFINE urls == cloneCandidates(w.s, Repo)
           Chain(c) == authCandidates(w.s, urls[c])
           Transport(c) == IF SSH(urls[c]) THEN {} ELSE TransportFor(w.s, urls[c].host)
           Part(n, c) == ToSet(SubSeq(Chain(c), 1, n[c])) \cup Transport(c)
           Tried(last, n) == UNION {Part(n, c) : c \in 1..last}
<1>0. w.s \in Settings
  BY WorldTypes DEF Chosen
<1>1. PICK last \in DOMAIN urls :
        \E n \in [1..last -> UNION {0..Len(Chain(c)) : c \in 1..last}] :
          /\ \A c \in 1..last : n[c] <= Len(Chain(c))
          /\ Request("git", Tried(last, n), "archive")
  BY DEF Clone
<1>2. PICK n \in [1..last -> UNION {0..Len(Chain(c)) : c \in 1..last}] :
          /\ \A c \in 1..last : n[c] <= Len(Chain(c))
          /\ Request("git", Tried(last, n), "archive")
  BY <1>1
<1>3. 1..last \subseteq DOMAIN urls
  <2>1. \E T : urls \in Seq(T)
    <3>1. PICK T : T = {Repo, sshToHTTPS(Repo), httpsToSSH(Repo)}
      OBVIOUS
    <3>2. Repo \in T /\ sshToHTTPS(Repo) \in T /\ httpsToSSH(Repo) \in T
      BY <3>1
    <3>3. urls \in {<<sshToHTTPS(Repo)>>, <<Repo, sshToHTTPS(Repo)>>, <<Repo, httpsToSSH(Repo)>>, <<Repo>>}
      BY DEF cloneCandidates
    <3> HIDE DEF urls
    <3>4. urls \in Seq(T)
      BY <3>2, <3>3
    <3> QED BY <3>4
  <2>2. DOMAIN urls = 1..Len(urls) /\ Len(urls) \in Nat
    <3> HIDE DEF urls
    <3> QED BY <2>1
  <2> HIDE DEF urls
  <2> QED BY <2>2
<1>4. Asked = sshToHTTPS(Repo)
  BY <1>2 DEF Request, Asked
<1>5. ASSUME NEW c \in 1..last PROVE Fair(w.s, Asked, Part(n, c))
  <2>1. c \in DOMAIN urls
    BY <1>3
  <2>2. SSH(urls[c]) \/ urls[c] = Asked
    BY <2>1, <1>4, RepoFields, CandidateMatched
  <2>0. \A d : Len(Chain(d)) \in Nat
    <3> TAKE d
    <3>1. PICK T : Chain(d) \in Seq(T)
      BY <1>0, ChainProper
    <3> HIDE DEF Chain
    <3> QED BY <3>1
  <2>3. n[c] \in Nat /\ n[c] <= Len(Chain(c))
    <3> HIDE DEF Chain
    <3>1. PICK d \in 1..last : n[c] \in 0..Len(Chain(d))
      BY <1>2
    <3> QED BY <3>1, <2>0, <1>2
  <2>4. Fair(w.s, Asked, ToSet(SubSeq(Chain(c), 1, n[c])))
    BY <1>0, <2>2, <2>3, ChainFair
  <2>5. Fair(w.s, Asked, Transport(c))
    <3>1. CASE SSH(urls[c])
      <4>1. Transport(c) = {}
        BY <3>1
      <4> HIDE DEF Transport
      <4> QED BY <4>1, FairOthers
    <3>2. CASE ~SSH(urls[c])
      <4>1. Transport(c) = TransportFor(w.s, urls[c].host)
        BY <3>2
      <4> HIDE DEF Transport
      <4> QED BY <4>1, <1>0, TransportFair
    <3> QED BY <3>1, <3>2
  <2> HIDE DEF Chain, Transport
  <2> QED BY <2>4, <2>5, FairPair
<1>6. Fair(w.s, Asked, Tried(last, n))
  <2> HIDE DEF Part
  <2>1. PICK C : C = {Part(n, c) : c \in 1..last}
    OBVIOUS
  <2>2. \A X \in C : Fair(w.s, Asked, X)
    BY <2>1, <1>5
  <2>3. Fair(w.s, Asked, UNION C)
    BY <2>2, FairUnion
  <2> QED BY <2>1, <2>3
<1> HIDE DEF Tried
<1> QED BY <1>2, <1>6, RequestDue

LEMMA DueStep == Typed /\ Due /\ [Next]_vars => Due'
<1> SUFFICES ASSUME Typed, Due, [Next]_vars PROVE Due'
  OBVIOUS
<1>c. Chosen
  BY DEF Typed
<1>0. w.s \in Settings
  BY <1>c, WorldTypes DEF Chosen
<1>1. CASE RequestHTTP
  <2>1. PICK u : u = WithScheme(w.url)
    OBVIOUS
  <2>2. Request("http", HTTPCredential(w.s, u) \cup TransportFor(w.s, u.host), "body")
    BY <1>1, <2>1 DEF RequestHTTP
  <2>3. Asked = u
    BY <2>1, <2>2 DEF Asked, Request
  <2>4. Fair(w.s, Asked, HTTPCredential(w.s, u) \cup TransportFor(w.s, u.host))
    BY <1>0, <2>3, HTTPFair, TransportFair, FairPair
  <2> QED BY <2>2, <2>4, RequestDue
<1>2. CASE RequestS3
  <2>1. PICK secrets, label :
          label # "detect" /\ secrets = S3Client(w.s, Endpoint) /\ Request("s3", secrets, label)
    BY <1>2 DEF RequestS3
  <2>2. \A x \in secrets : x.source \in {"aws", "cloud"}
    BY <2>1 DEF S3Client, Secret
  <2>3. Fair(w.s, Asked, secrets)
    BY <2>2, FairOthers DEF ByHost
  <2> QED BY <2>1, <2>3, RequestDue
<1>3. CASE RequestGCS
  <2>1. PICK secrets, label :
          label # "detect" /\ secrets = authOption(w.s, Endpoint) /\ Request("gcs", secrets, label)
    BY <1>3 DEF RequestGCS
  <2>2. \A x \in secrets : x.source \in {"gcp", "cloud"}
    BY <2>1 DEF authOption, Secret
  <2>3. Fair(w.s, Asked, secrets)
    BY <2>2, FairOthers DEF ByHost
  <2> QED BY <2>1, <2>3, RequestDue
<1>4. CASE RequestOCI
  <2>1. PICK u : u = WithScheme(w.url)
    OBVIOUS
  <2>2. Request("oci", OCICredential(w.s, u) \cup TransportFor(w.s, u.host), "pull")
    BY <1>4, <2>1 DEF RequestOCI
  <2>3. Asked = u
    BY <2>1, <2>2 DEF Asked, Request
  <2>4. Fair(w.s, Asked, OCICredential(w.s, u) \cup TransportFor(w.s, u.host))
    BY <1>0, <2>3, OCIFair, TransportFair, FairPair
  <2> QED BY <2>2, <2>4, RequestDue
<1>5. CASE Clone
  BY <1>5, <1>c, CloneDue
<1>6. CASE fetchArchive
  <2>1. pc = "archive" /\ UNCHANGED <<w, proto>> /\ pc' # "detect"
    BY <1>6 DEF fetchArchive, Goto, Fail, Return
  <2>2. Asked' = Asked
    BY <2>1 DEF Asked, Repo
  <2>3. PICK u : u = sshToHTTPS(Repo)
    OBVIOUS
  <2>4. \/ UNCHANGED sent
        \/ sent' = sent \cup archiveCredentials(w.s, u) \cup TransportFor(w.s, archiveURL(u))
    BY <1>6, <2>3 DEF fetchArchive
  <2>5. CASE UNCHANGED sent
    BY <2>1, <2>2, <2>5 DEF Due
  <2>6. CASE sent' = sent \cup archiveCredentials(w.s, u) \cup TransportFor(w.s, archiveURL(u))
    <3>1. Asked = u
      <4>1. proto = "git"
        BY <2>1 DEF Typed, Stream
      <4> QED BY <4>1, <2>3 DEF Asked
    <3>2. Fair(w.s, Asked, archiveCredentials(w.s, u))
      BY <1>0, <3>1, ArchiveFair
    <3>3. Fair(w.s, Asked, TransportFor(w.s, archiveURL(u)))
      BY <1>0, TransportFair
    <3>4. Fair(w.s, Asked, sent \cup archiveCredentials(w.s, u))
      BY <3>2, FairPair DEF Due
    <3>5. Fair(w.s, Asked, sent')
      BY <2>6, <3>3, <3>4, FairPair
    <3> QED BY <2>1, <2>2, <3>5 DEF Due
  <2> QED BY <2>4, <2>5, <2>6
<1>7. CASE Detect
  <2>1. sent = {} /\ sent' = {}
    BY <1>7 DEF Detect, Due
  <2>2. Fair(w'.s, Asked', {})
    BY FairOthers
  <2> QED BY <2>1, <2>2 DEF Due
<1>8. CASE UNCHANGED <<w, proto, sent>> /\ pc' # "detect"
  <2>1. Asked' = Asked
    BY <1>8 DEF Asked, Repo
  <2> QED BY <1>8, <2>1 DEF Due
<1>9. CASE UNCHANGED vars
  <2>1. UNCHANGED <<w, proto, sent, pc>>
    BY <1>9 DEF vars, request
  <2>2. Asked' = Asked
    BY <2>1 DEF Asked, Repo
  <2> QED BY <2>1, <2>2 DEF Due
<1>10. CASE Next /\ ~Detect /\ ~(RequestHTTP \/ RequestS3 \/ RequestGCS \/ RequestOCI \/ Clone \/ fetchArchive)
  <2>1. UNCHANGED <<w, proto>> /\ pc' # "detect"
    BY <1>10, Stays
  <2>2. InvalidKey \/ Body \/ ListPage \/ GetObject \/ Pull \/ OpenLocal \/ copyDir \/ CopyEnd \/ HgClone \/ HgMove
        => UNCHANGED sent
    BY DEF InvalidKey, Body, ListPage, GetObject, Pull, OpenLocal, copyDir, CopyEnd, HgClone, HgMove, request
  <2>3. extractArchive \/ ArchiveEnd \/ ExtractWithLimit \/ untar \/ extractZip \/ Extracted \/ Done => UNCHANGED sent
    BY DEF extractArchive, ArchiveEnd, ExtractWithLimit, untar, extractZip, Extracted, Done, vars, request
  <2>4. UNCHANGED sent
    BY <1>10, <2>2, <2>3 DEF Next
  <2> QED BY <2>1, <2>4, <1>8
<1> QED BY <1>1, <1>2, <1>3, <1>4, <1>5, <1>6, <1>7, <1>9, <1>10

LEMMA RepoPathType ==
  ASSUME NEW path \in Seq(STRING)
  PROVE  RepoPath(path) \in Seq(STRING)
<1>1. CASE DoubleSlash(path) = {}
  BY <1>1 DEF RepoPath
<1>2. CASE DoubleSlash(path) # {}
  <2>1. PICK i : i = First(DoubleSlash(path))
    OBVIOUS
  <2>2. DoubleSlash(path) \subseteq 1..(Len(path) - 1) /\ Len(path) \in Nat
    BY DEF DoubleSlash
  <2>3. DoubleSlash(path) \subseteq Nat
    BY <2>2
  <2>4. i \in 1..(Len(path) - 1)
    BY <1>2, <2>1, <2>2, <2>3, FirstMember
  <2>5. RepoPath(path) = SubSeq(path, 1, i - 1)
    BY <1>2, <2>1 DEF RepoPath, First
  <2>6. i - 1 \in Nat /\ i - 1 <= Len(path)
    BY <2>2, <2>4
  <2> QED BY <2>5, <2>6, SubSeqType
<1> QED BY <1>1, <1>2

LEMMA AskedPath ==
  ASSUME Chosen
  PROVE  Asked.path \in Seq(STRING)
<1>1. w.url \in URL
  BY WorldTypes DEF Chosen
<1>2. w.url.path \in Seq(STRING) /\ WithScheme(w.url).path = w.url.path /\ "path" \in DOMAIN WithScheme(w.url)
  BY <1>1 DEF URL, WithScheme
<1>3. Repo.path \in Seq(STRING)
  BY <1>2, RepoPathType DEF Repo
<1>4. sshToHTTPS(Repo).path = Repo.path
  BY DEF sshToHTTPS
<1> QED BY <1>2, <1>3, <1>4 DEF Asked

LEMMA DueCorrect == Spec => []Due
<1>1. Spec => []Typed
  BY TypedCorrect
<1> QED BY DueInit, DueStep, <1>1, PTL DEF Spec

\* CredentialScoped: a credential configured for a host and a path goes to that host,
\* or its platform's API, and only for URLs in that path, whatever the settings, the
\* URL and the protocol are (MatchHTTPSCredentials, hasSegmentPrefixFold).
THEOREM CredentialScopedCorrect == Spec => []CredentialScoped
<1>1. ASSUME Chosen, Due PROVE CredentialScoped
  <2>1. w.s \in Settings
    BY <1>1, WorldTypes DEF Chosen
  <2>2. PICK u : u = Asked /\ u.path \in Seq(STRING)
    BY <1>1, AskedPath
  <2>3. ASSUME NEW x \in sent, x.source = "https"
        PROVE  LET c == w.s.https[x.i]
               IN  /\ EqualFold(c.host, u.host) /\ x.host \in {u.host, archiveURL(u)}
                   /\ u.user = "none" \/ Lower(u.user) = Lower(c.user)
                   /\ IsPrefix(Segments(Fold(c.path)), Segments(Fold(TrimSuffix(TrimSuffix(u.path, "/"), ".git"))))
    <3>1. x.i \in Matching(w.s, u) /\ x.host \in {u.host, archiveURL(u)}
      BY <1>1, <2>2, <2>3 DEF Due, Fair, Scoped
    <3>2. HTTPSMatches(w.s.https[x.i], u)
      BY <3>1 DEF Matching
    <3>3. IsPrefix(Segments(Fold(w.s.https[x.i].path)), Segments(Fold(Repository(u))))
      BY <2>1, <2>2, <3>1, MatchScoped
    <3>4. EqualFold(w.s.https[x.i].host, u.host) /\ (u.user = "none" \/ Lower(u.user) = Lower(w.s.https[x.i].user))
      BY <3>2 DEF HTTPSMatches
    <3> QED BY <3>1, <3>3, <3>4 DEF Repository
  <2> QED BY <2>2, <2>3 DEF CredentialScoped
<1> QED BY <1>1, ChosenCorrect, DueCorrect, PTL

\* MostSpecificFirst: no secret is sent before one that is more specific, however many
\* match and however far the chain is followed (MatchHTTPSCredentials, MatchSSHKeys
\* and the other Match functions).
THEOREM MostSpecificFirstCorrect == Spec => []MostSpecificFirst
<1>1. ASSUME Chosen, Due PROVE MostSpecificFirst
  <2>1. w.s \in Settings
    BY <1>1, WorldTypes DEF Chosen
  <2>2. PICK u : u = Asked /\ u.path \in Seq(STRING)
    BY <1>1, AskedPath
  <2>3. (\A x \in sent : Scoped(w.s, u, x)) /\ InTurn(w.s, u, sent)
    BY <1>1, <2>2 DEF Due, Fair
  <2>4. ASSUME NEW x \in sent, x.source = "https", NEW j \in DOMAIN w.s.https, HTTPSMatches(w.s.https[j], u)
        PROVE  \/ Len(Segments(w.s.https[j].path)) <= Len(Segments(w.s.https[x.i].path))
               \/ \E y \in sent : y.source = "https" /\ y.i = j
    <3>1. x.i \in Matching(w.s, u) /\ j \in Matching(w.s, u)
      BY <2>3, <2>4 DEF Scoped, Matching
    <3>2. CASE MoreSpecific(w.s, j, x.i)
      BY <2>3, <2>4, <3>1, <3>2 DEF InTurn
    <3>3. CASE ~MoreSpecific(w.s, j, x.i)
      BY <2>1, <2>2, <3>1, <3>3, MatchOrder
    <3> QED BY <3>2, <3>3
  <2>5. ASSUME NEW x \in sent, x.source \in ByHost
        PROVE  LET list == Configured(w.s, x.source)
               IN  list[x.i].host = <<>> => \A j \in DOMAIN list :
                     list[j].host # <<>> /\ EqualFold(list[j].host, x.host) =>
                       \E y \in sent : y.source = x.source /\ y.i = j
    BY <2>3, <2>5 DEF InTurn, ForHost
  <2> QED BY <2>2, <2>4, <2>5 DEF MostSpecificFirst, ByHost, Configured
<1> QED BY <1>1, ChosenCorrect, DueCorrect, PTL

=============================================================================
