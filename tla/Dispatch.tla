------------------------------- MODULE Dispatch -------------------------------
(***************************************************************************)
(* Which protocol takes a URL: the force prefix and the order of           *)
(* priorities of grabber.go, and the Detect and DetectForced of every      *)
(* protocol.                                                               *)
(*                                                                         *)
(* A URL is parsed already.                                                *)
(*   force    the part before "::" if that is the prefix of a protocol, or *)
(*            "none"; after anything else "::" is part of the URL, as in an  *)
(*            IPv6 address                                                   *)
(*   form     "scheme" with a scheme, "bare" without, "scp" (user@host:    *)
(*            path), "rooted" (/path), "dot" (./path or ../path)           *)
(*   scheme   of a URL with one                                            *)
(*   user     the user name, or "none"; pass: a password with it           *)
(*   host     its labels                                                   *)
(*   path     its characters, in tokens: "/", ".git", the extensions of    *)
(*            archives, and parts of names                                 *)
(*   archive  the parameter archive: "none", "empty", a "bool", or "named" *)
(*            with any other value; format: what follows "archive" in the    *)
(*            name that value gives the file, in tokens as a path            *)
(* Hosts and reserved names are in lower case, as the code makes them.     *)
(***************************************************************************)
EXTENDS Integers, Sequences, FiniteSets, SequencesExt

Protocols == {"git", "hg", "s3", "gcs", "oci", "http", "file"}

Priority(p) ==
  CASE p = "git" -> 90 [] p = "hg" -> 80 [] p = "s3" -> 70 [] p = "gcs" -> 60
    [] p = "oci" -> 50 [] p = "http" -> 20 [] p = "file" -> 10

-----------------------------------------------------------------------------
(***************************************************************************)
(* Text.                                                                   *)
(***************************************************************************)
Ends(s, t) == s # <<>> /\ Last(s) = t
TrimPrefix(s, t) == IF s # <<>> /\ Head(s) = t THEN Tail(s) ELSE s
TrimSuffix(s, t) == IF Ends(s, t) THEN Front(s) ELSE s

\* One token further: a slash ends a segment, and the token after it begins one.
Extend(segs, path, n) ==
  CASE path[n] = "/" -> segs
    [] path[n] # "/" /\ (n = 1 \/ path[n - 1] = "/") -> Append(segs, <<path[n]>>)
    [] OTHER -> Append(Front(segs), Append(Last(segs), path[n]))

\* The segments of a path, each a sequence of tokens; empty ones are left out.
Segments(path) ==
  LET at[n \in 0..Len(path)] == IF n = 0 THEN <<>> ELSE Extend(at[n - 1], path, n)
  IN  at[Len(path)]

\* What comes before, and after, the first of two adjacent slashes.
DoubleSlash(path) == {i \in 1..(Len(path) - 1) : path[i] = "/" /\ path[i + 1] = "/"}
RepoPath(path) ==
  IF DoubleSlash(path) = {} THEN path
  ELSE SubSeq(path, 1, (CHOOSE i \in DoubleSlash(path) : \A j \in DoubleSlash(path) : i <= j) - 1)
splitSubdir(path) == IF RepoPath(path) = path THEN <<>> ELSE SubSeq(path, Len(RepoPath(path)) + 3, Len(path))

\* The part of /bucket/key after the bucket.
KeyOf(path) ==
  LET rest == TrimPrefix(path, "/")
      cuts == {i \in DOMAIN rest : rest[i] = "/"}
  IN  IF cuts = {} THEN <<>>
      ELSE SubSeq(rest, (CHOOSE i \in cuts : \A j \in cuts : i <= j) + 1, Len(rest))
HasBucket(path) == LET rest == TrimPrefix(path, "/") IN rest # <<>> /\ Head(rest) # "/"

\* A URL without a scheme is given https.  A local path then has no host, or ".".
WithScheme(u) ==
  CASE u.form \in {"scheme", "scp"} -> u
    [] u.form = "bare"   -> [u EXCEPT !.scheme = "https"]
    [] u.form = "rooted" -> [u EXCEPT !.scheme = "https", !.host = <<>>]
    [] u.form = "dot"    -> [u EXCEPT !.scheme = "https", !.host = <<".">>]

-----------------------------------------------------------------------------
(***************************************************************************)
(* Git.                                                                    *)
(***************************************************************************)
knownGitHosts ==
  {<<"github", "com">>, <<"gitlab", "com">>, <<"bitbucket", "org">>,
   <<"codeberg", "org">>, <<"dev", "azure", "com">>, <<"sr", "ht">>}
gitlabLegacyRoutes == {<<"raw">>, <<"blob">>, <<"tree">>, <<"archive">>, <<"releases">>}

isRepoPath(host, path) ==
  LET segs == Segments(RepoPath(path))
  IN  /\ Len(segs) >= 2 /\ segs[1] # <<"api">>
      /\ host \in {<<"github", "com">>, <<"bitbucket", "org">>, <<"codeberg", "org">>} => Len(segs) = 2
      /\ host = <<"gitlab", "com">> =>
           \A i \in DOMAIN segs : segs[i] # <<"-">> /\ (i > 2 => segs[i] \notin gitlabLegacyRoutes)

\* Whether a path names a repository by its suffix, with a subdirectory or not.
GitSuffix(path) ==
  \/ Ends(path, ".git")
  \/ \E i \in DoubleSlash(path) : i > 1 /\ path[i - 1] = ".git"

\* Fault: the suffix is looked at before the archive parameter.
isGitURL_SuffixFirst(u) ==
  \/ u.scheme = "ssh"
  \/ GitSuffix(u.path)
  \/ u.archive = "none" /\ u.host \in knownGitHosts /\ isRepoPath(u.host, u.path)

isGitURL(u) ==
  \/ u.scheme = "ssh"
  \/ /\ u.archive = "none"
     /\ \/ GitSuffix(u.path)
        \/ u.host \in knownGitHosts /\ isRepoPath(u.host, u.path)

parseGitURL(u, forced) == u.form = "scp" \/ forced \/ isGitURL(WithScheme(u))

-----------------------------------------------------------------------------
(***************************************************************************)
(* The others.  None of them can parse the scp form.                       *)
(***************************************************************************)
knownHgHosts == {<<"bitbucket", "org">>}
parseHgURL(u, forced) == u.form # "scp" /\ (forced \/ WithScheme(u).host \in knownHgHosts)

\* An object store's URL: does it parse, is the host an endpoint of the caller's
\* own, and what is the key.
Object(ok, custom, key) == [ok |-> ok, custom |-> custom, key |-> key]
NoObject == Object(FALSE, FALSE, <<>>)

parseS3URL(u, forced) ==
  LET v == WithScheme(u)
      aws == \E i \in 1..(Len(v.host) - 1) : v.host[i] = "amazonaws" /\ v.host[i + 1] = "com"
  IN  IF u.form = "scp" THEN NoObject
      ELSE CASE v.scheme = "s3" /\ v.host # <<>> -> Object(TRUE, FALSE, TrimPrefix(v.path, "/"))
             [] v.scheme = "s3" /\ v.host = <<>> ->
                  Object(TrimPrefix(v.path, "/") # <<>>, FALSE, KeyOf(v.path))
             [] v.scheme # "s3" /\ ~aws -> Object(forced /\ HasBucket(v.path), TRUE, KeyOf(v.path))
             [] v.scheme # "s3" /\ aws /\ Head(v.host) = "s3" ->
                  Object(HasBucket(v.path), FALSE, KeyOf(v.path))
             [] OTHER -> Object(Contains(v.host, "s3"), FALSE, TrimPrefix(v.path, "/"))

parseGCSURL(u, forced) ==
  LET v == WithScheme(u)
      google == <<"storage", "googleapis", "com">>
  IN  IF u.form = "scp" THEN NoObject
      ELSE CASE v.host \in {google, <<"storage", "cloud", "google", "com">>} ->
                  Object(HasBucket(v.path), FALSE, KeyOf(v.path))
             [] IsStrictSuffix(google, v.host) -> Object(TRUE, FALSE, TrimPrefix(v.path, "/"))
             [] OTHER -> Object(forced /\ HasBucket(v.path), TRUE, KeyOf(v.path))

parseOCIURL(u, forced) ==
  /\ u.form # "scp"
  /\ IF u.form = "scheme" THEN u.scheme = "oci" ELSE forced
  /\ WithScheme(u).host # <<>> /\ TrimPrefix(u.path, "/") # <<>>

parseHTTPURL(u) ==
  /\ u.form \in {"scheme", "bare"} /\ WithScheme(u).scheme \in {"http", "https"}
  /\ u.host # <<>>

parseFileURL(u) ==
  \/ u.form = "scheme" /\ u.scheme = "file" /\ u.path # <<>>
  \/ u.form \in {"rooted", "dot"}

Detects(p, u, forced) ==
  CASE p = "git"  -> parseGitURL(u, forced)
    [] p = "hg"   -> parseHgURL(u, forced)
    [] p = "s3"   -> parseS3URL(u, forced).ok
    [] p = "gcs"  -> parseGCSURL(u, forced).ok
    [] p = "oci"  -> parseOCIURL(u, forced)
    [] p = "http" -> parseHTTPURL(u)
    [] p = "file" -> parseFileURL(u)

\* The protocol Grabber.download hands the URL to, or "none".  A prefix commits to
\* its protocol.
Protocol(u) ==
  LET takers == {p \in Protocols : Detects(p, u, FALSE)}
  IN  CASE u.force # "none" -> IF Detects(u.force, u, TRUE) THEN u.force ELSE "none"
        [] u.force = "none" /\ takers # {} ->
             CHOOSE p \in takers : \A q \in takers : Priority(q) <= Priority(p)
        [] OTHER -> "none"

-----------------------------------------------------------------------------
(***************************************************************************)
(* What the name of a downloaded file says of its format.                  *)
(***************************************************************************)
extractors(ext) ==
  CASE ext = ".tgz" -> "tar" [] ext = ".zip" -> "zip" [] ext = ".gz" -> "single" [] OTHER -> "plain"

\* The name an HTTP response is written to, which the parameter may make a path.
fileName(u) ==
  LET segs == Segments(u.path)
  IN  CASE u.archive = "bool"  -> <<"download">>
        [] u.archive = "named" -> <<"archive">> \o u.format
        [] OTHER -> IF segs = <<>> \/ Last(segs) = <<".">> THEN <<"download">> ELSE Last(segs)

=============================================================================
