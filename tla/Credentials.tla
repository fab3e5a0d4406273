----------------------------- MODULE Credentials -----------------------------
(***************************************************************************)
(* Which secret goes with a request: the Match functions of settings.go,   *)
(* and the order in which every protocol asks its sources (authCandidates, *)
(* archiveCredentials, the Downloads of http and oci, the clients of s3    *)
(* and gcs).                                                               *)
(*                                                                         *)
(* Settings have, as far as secrets go:                                    *)
(*   https     HTTPS credentials: host, user, path                         *)
(*   oci, keys, certs, proxies                                             *)
(*             by host, <<>> being any host; a blank OCI credential has    *)
(*             neither user nor password                                   *)
(*   request   the dynamic function: "none", "declines" or "answers"       *)
(*   netrc     whether it is enabled; machines: its entries in order, by   *)
(*             host, <<>> being default, and whether one has a login and a *)
(*             password                                                    *)
(*   aws, gcp  configured; gcp may be "invalid"                            *)
(*   endpoint  GCPCredentials.Endpoint is set                              *)
(*   ambient   what the environment has: "cloud" credentials, a credential *)
(*             "helper" that answers, an SSH "agent", API "token"s         *)
(*   noAmbient, noSystem, sshToHTTPS  the options of that name             *)
(***************************************************************************)
EXTENDS Dispatch

CONSTANT Caps  \* function: the tokens with capital letters, in lower case

ASSUME CapsAssumption ==
  \A tok \in DOMAIN Caps : tok # "/" /\ Caps[tok] \in STRING \ {"/"}

Lower(tok) == IF tok \in DOMAIN Caps THEN Caps[tok] ELSE tok
Fold(s) == [i \in DOMAIN s |-> Lower(s[i])]
EqualFold(s, t) == Fold(s) = Fold(t)

\* A secret that is sent: where it comes from, which of several, and to which host.
Secret(source, i, host) == [source |-> source, i |-> i, host |-> host]
SecretSources ==
  {"url", "https", "oci", "request", "netrc", "cert", "proxy", "aws", "gcp", "cloud", "key", "agent", "helper", "token"}

First(S) == CHOOSE i \in S : \A j \in S : i <= j
FirstOr0(S) == IF S = {} THEN 0 ELSE First(S)

-----------------------------------------------------------------------------
(***************************************************************************)
(* Matching.  The result is an index into the settings, 0 for none.        *)
(***************************************************************************)
hasPrefixFold(s, prefix) == IsPrefix(Fold(prefix), Fold(s))

\* Fault: any prefix will do, a sibling's name included.
hasSegmentPrefixFold_AnyPrefix(s, prefix) == hasPrefixFold(s, prefix)

hasSegmentPrefixFold(s, prefix) ==
  hasPrefixFold(s, prefix) /\ (Len(s) = Len(prefix) \/ s[Len(prefix) + 1] = "/")

HTTPSMatches(c, u) ==
  /\ EqualFold(c.host, u.host)
  /\ u.user = "none" \/ Lower(c.user) = Lower(u.user)
  /\ \/ c.path = <<>>
     \/ hasSegmentPrefixFold(TrimSuffix(TrimSuffix(u.path, "/"), ".git"), TrimSuffix(c.path, "/"))

\* A credential for a host only is the least specific.
PathLen(c) == IF c.path = <<>> THEN -1 ELSE Len(TrimSuffix(c.path, "/"))

\* The members of a finite set in an order: the k-th has k - 1 before it.
InOrder(S, Before(_, _)) ==
  [k \in 1..Cardinality(S) |-> CHOOSE i \in S : Cardinality({j \in S : Before(j, i)}) = k - 1]

\* Fault: configuration order decides.
MatchHTTPSCredentials_Unsorted(creds, u) ==
  InOrder({i \in DOMAIN creds : HTTPSMatches(creds[i], u)}, LAMBDA i, j : i < j)

\* Most specific first, and in configuration order among equals.
MatchHTTPSCredentials(creds, u) ==
  InOrder({i \in DOMAIN creds : HTTPSMatches(creds[i], u)},
          LAMBDA i, j : \/ PathLen(creds[i]) > PathLen(creds[j])
                        \/ PathLen(creds[i]) = PathLen(creds[j]) /\ i < j)

MatchHTTPSCredential(creds, u) ==
  LET all == MatchHTTPSCredentials(creds, u) IN IF all = <<>> THEN 0 ELSE Head(all)

ForHost(list, host) == {i \in DOMAIN list : list[i].host # <<>> /\ EqualFold(list[i].host, host)}
Defaults(list) == {i \in DOMAIN list : list[i].host = <<>>}

\* The host's own, or a default: certificates, proxies, registries and keys alike.
MatchHost(list, host) ==
  IF ForHost(list, host) # {} THEN First(ForHost(list, host)) ELSE FirstOr0(Defaults(list))

MatchOCICredential(s, host) == MatchHost(s.oci, host)
MatchClientCertificate(s, host) == MatchHost(s.certs, host)
MatchProxy(s, host) == MatchHost(s.proxies, host)
MatchSSHKey(s, host) == MatchHost(s.keys, host)

Sorted(S) == InOrder(S, LAMBDA i, j : i < j)

\* All keys for the host and then all defaults: they are offered in one handshake.
MatchSSHKeys(s, host) == Sorted(ForHost(s.keys, host)) \o Sorted(Defaults(s.keys))

\* netrc.Lookup compares the host as it is written.
netrcLookup(s, host) ==
  LET machines == {i \in DOMAIN s.machines : s.machines[i].host # <<>> /\ s.machines[i].host = host}
  IN  IF machines # {} THEN First(machines) ELSE FirstOr0(Defaults(s.machines))

RequestCredential(s) == s.request = "answers"

-----------------------------------------------------------------------------
(***************************************************************************)
(* The protocols.  Each gives the set of secrets of one request.           *)
(***************************************************************************)
HTTPCredential(s, u) ==
  LET static == MatchHTTPSCredential(s.https, u)
      entry  == netrcLookup(s, u.host)
  IN  CASE u.user # "none" -> {Secret("url", 0, u.host)}
        [] u.user = "none" /\ static # 0 -> {Secret("https", static, u.host)}
        [] u.user = "none" /\ static = 0 /\ RequestCredential(s) -> {Secret("request", 0, u.host)}
        [] OTHER -> IF s.netrc /\ entry # 0 /\ s.machines[entry].login
                    THEN {Secret("netrc", entry, u.host)} ELSE {}

OCICredential(s, u) ==
  LET static == MatchOCICredential(s, u.host)
      entry  == netrcLookup(s, u.host)
  IN  CASE static # 0 /\ ~s.oci[static].blank -> {Secret("oci", static, u.host)}
        [] ~(static # 0 /\ ~s.oci[static].blank) /\ RequestCredential(s) ->
             {Secret("request", 0, u.host)}
        [] OTHER -> IF s.netrc /\ entry # 0 /\ (s.machines[entry].login \/ s.machines[entry].password)
                    THEN {Secret("netrc", entry, u.host)} ELSE {}

\* The transport of a host presents its certificate and sends its proxy the
\* credentials of the proxy.
TransportFor(s, host) ==
  {Secret("cert", i, host) : i \in {MatchClientCertificate(s, host)} \ {0}}
    \cup {Secret("proxy", i, host) : i \in {MatchProxy(s, host)} \ {0}}

\* The clients of the object stores; "custom" is an endpoint the caller names.
S3Client(s, endpoint) ==
  CASE s.aws -> {Secret("aws", 0, endpoint)}
    [] ~s.aws /\ ~s.noAmbient /\ "cloud" \in s.ambient -> {Secret("cloud", 0, endpoint)}
    [] OTHER -> {}

\* Fault: an endpoint the caller names gets the ambient credentials too.
authOption_AnyEndpoint(s, endpoint) ==
  CASE s.gcp = "key" -> {Secret("gcp", 0, endpoint)}
    [] s.gcp # "key" /\ ~s.noAmbient /\ "cloud" \in s.ambient -> {Secret("cloud", 0, endpoint)}
    [] OTHER -> {}

authOption(s, endpoint) ==
  CASE s.gcp = "key" -> {Secret("gcp", 0, endpoint)}
    [] s.gcp # "key" /\ endpoint # "custom" /\ ~s.noAmbient /\ "cloud" \in s.ambient ->
         {Secret("cloud", 0, endpoint)}
    [] OTHER -> {}

-----------------------------------------------------------------------------
(***************************************************************************)
(* Git.                                                                    *)
(***************************************************************************)
SSH(u) == u.form = "scp" \/ WithScheme(u).scheme = "ssh"

sshToHTTPS(u) ==
  IF SSH(u) THEN [u EXCEPT !.form = "scheme", !.scheme = "https", !.user = "none", !.pass = FALSE] ELSE u

\* Azure DevOps, which has other hosts and paths for SSH, is left out of both.
httpsToSSH(u) == [u EXCEPT !.form = "scheme", !.scheme = "ssh", !.user = "git", !.pass = FALSE]

\* The URLs of one repository: the other scheme is tried where it could work.
cloneCandidates(s, u) ==
  CASE s.sshToHTTPS -> <<sshToHTTPS(u)>>
    [] ~s.sshToHTTPS /\ SSH(u) -> <<u, sshToHTTPS(u)>>
    [] OTHER -> IF /\ WithScheme(u).scheme \in {"https", "http"} /\ MatchSSHKey(s, u.host) # 0
                   /\ Segments(TrimSuffix(u.path, ".git")) # <<>>
                THEN <<u, httpsToSSH(u)>> ELSE <<u>>

When(condition, secret) == IF condition THEN <<secret>> ELSE <<>>

\* The identities of one handshake, those of the agent last.
resolveSSHAuth(s, u) ==
  LET keys == MatchSSHKeys(s, u.host)
  IN  [k \in DOMAIN keys |-> Secret("key", keys[k], u.host)]
        \o When("agent" \in s.ambient /\ ~s.noSystem, Secret("agent", 0, u.host))

\* The chain of one URL.  A user name alone is what is offered last.
authCandidates(s, u) ==
  LET creds == MatchHTTPSCredentials(s.https, u)
  IN  CASE SSH(u) -> resolveSSHAuth(s, u)
        [] ~SSH(u) /\ u.pass -> <<Secret("url", 0, u.host)>>
        [] OTHER -> [k \in DOMAIN creds |-> Secret("https", creds[k], u.host)]
                      \o When(RequestCredential(s), Secret("request", 0, u.host))
                      \o When("helper" \in s.ambient /\ ~s.noSystem, Secret("helper", 0, u.host))
                      \o When(u.user # "none", Secret("url", 0, u.host))

\* The API host that serves archives of a repository, NoHost where there is none.
NoHost == <<>>
archiveURL(u) ==
  LET On(host) == IsSuffix(host, u.host)
  IN  IF Len(Segments(TrimSuffix(u.path, ".git"))) < 2 THEN NoHost
      ELSE CASE On(<<"github", "com">>) -> <<"api", "github", "com">>
             [] On(<<"gitlab", "com">>) -> <<"gitlab", "com">>
             [] On(<<"bitbucket", "org">>) -> <<"bitbucket", "org">>
             [] OTHER -> NoHost

\* With the request for the archive: the first of these.  "git" is the placeholder
\* of an SSH URL and no account; the token is one for the platform.
archiveCredentials(s, u) ==
  LET host    == archiveURL(u)
      account == u.user \notin {"none", "git"}
      static  == MatchHTTPSCredential(s.https, u)
      chain   == When(account /\ u.pass, Secret("url", 0, host))
                   \o When(static # 0, Secret("https", static, host))
                   \o When(RequestCredential(s), Secret("request", 0, host))
                   \o When("helper" \in s.ambient /\ ~s.noSystem, Secret("helper", 0, host))
                   \o When(account, Secret("url", 0, host))
                   \o When("token" \in s.ambient /\ ~s.noSystem, Secret("token", 0, host))
  IN  IF chain = <<>> THEN {} ELSE {Head(chain)}

=============================================================================
