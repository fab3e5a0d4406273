------------------------------- MODULE MCFetch -------------------------------
(***************************************************************************)
(* Instances of Fetch: families of worlds, each around one question.       *)
(***************************************************************************)
EXTENDS Fetch

MCRoot == <<"tmp", "s">>
MCCaps == [t \in {"GitHub", "Org"} |-> IF t = "Org" THEN "org" ELSE "github"]

X(name, kind, len, id) == [name |-> name, kind |-> kind, len |-> len, id |-> id]
F(name, len, id) == X(name, "file", len, id)
D(name) == X(name, "dir", 0, 0)

\* The sequences of at most n elements of S.
UpTo(S, n) == UNION {[1..k -> S] : k \in 0..n}

\* The elements of a sequence at the places in S.
Chosen(s, S) ==
  FoldLeft(LAMBDA got, i : IF i \in S THEN Append(got, s[i]) ELSE got, <<>>, [i \in DOMAIN s |-> i])

S0 == [https |-> <<>>, oci |-> <<>>, keys |-> <<>>, certs |-> <<>>, proxies |-> <<>>,
       request |-> "none", netrc |-> FALSE, machines |-> <<>>, aws |-> FALSE, gcp |-> "none",
       endpoint |-> FALSE, ambient |-> {}, noAmbient |-> FALSE, noSystem |-> FALSE,
       sshToHTTPS |-> FALSE, maxBytes |-> 0, auto |-> TRUE, allowed |-> {}]

\* A URL with a scheme; one of another form; a forced one.
U(scheme, host, path) ==
  [force |-> "none", form |-> "scheme", scheme |-> scheme, user |-> "none", pass |-> FALSE,
   host |-> host, path |-> path, archive |-> "none", format |-> <<>>]
Form(u, form) == [u EXCEPT !.form = form]
Forced(p, u) == [u EXCEPT !.force = p]
Named(u, format) == [u EXCEPT !.archive = "named", !.format = format]

W0 == [url |-> U("https", <<"h">>, <<"/", "f">>), s |-> S0, pages |-> <<<<>>>>, inner |-> <<>>,
       ext |-> "none", subdir |-> <<>>, local |-> <<>>, at |-> "dir", links |-> <<>>, outside |-> <<>>,
       media |-> "manifest", refused |-> FALSE]

\* The name that the file of an HTTP response gets.
Spelled(u) ==
  [k \in DOMAIN Segments(fileName(u)) |-> FoldLeft(LAMBDA s, t : s \o t, "", Segments(fileName(u))[k])]

\* A file, wrapped if it comes in an archive.
One(u) == <<<<F(IF Protocol(u) = "http" THEN Spelled(u) ELSE <<"t", "f">>, 1, 1)>>>>

GitHub == <<"github", "com">>
Example == <<"example", "com">>
Amazon == <<"s3", "amazonaws", "com">>
Google == <<"storage", "googleapis", "com">>
RepoAt(host) == <<"/", "org", "/", "re", "po">>

-----------------------------------------------------------------------------
\* One file: around the limit, of the three protocols, with a name of no place, or of
\* one above the staging directory.
Responses ==
  {U("https", Example, p) : p \in {<<"/", "f">>, <<"/", "f", ".gz">>, <<"/", "k", "/", "..">>}}
  \cup {Named(U("https", Example, <<"/", "f">>), format) :
          format \in {<<".zip", "/", "..", "/", "g", ".tgz">>, <<".", "/", "..">>, <<".tgz", "/", "g">>,
                     <<".", "/", "..", "/", "..", "/", "g", ".tgz">>,
                     <<".", "/", "..", "/", "..", "/", "..", "/", "..", "/", "g">>}}
Bodies ==
  {[W0 EXCEPT !.url = u, !.pages = <<<<F(Spelled(u), len, 1)>>>>, !.inner = <<F(<<"i">>, 1, 4)>>,
              !.s.maxBytes = max, !.s.auto = auto] :
     u \in Responses, len \in {0, 2, 3, 4}, max \in {0, 2, MaxInt}, auto \in BOOLEAN}
  \cup
  {[W0 EXCEPT !.url = u, !.pages = <<<<F(name, len, 1)>>>>, !.s.maxBytes = max] :
     u \in {U("s3", <<"b">>, <<"/", "f">>), U("https", Google, <<"/", "b", "/", "f">>)},
     name \in {<<"f">>, <<"..">>, <<"k", ".">>}, len \in {0, 2, 3, 4}, max \in {0, 2, MaxInt}}

\* Listings of two pages: keys that clean to one path, escape, or clash.
Keys == {F(<<"a">>, 1, 1), F(<<"a">>, 2, 2), F(<<"a", "b">>, 3, 3), F(<<"x", "..", "c">>, 1, 4),
         F(<<"..", "y">>, 1, 5), F(<<"x", "..">>, 1, 6), D(<<"a">>)}
Listings ==
  {[W0 EXCEPT !.url = u, !.pages = <<p, q>>, !.s.maxBytes = max] :
     u \in {U("s3", <<"b">>, <<"/", "k", "/">>), U("https", Google, <<"/", "b">>)},
     p \in UpTo(Keys, 2), q \in UpTo(Keys, 2), max \in {0, 2}}

\* Archives in one file: the budget to the byte, names and kinds.
Packed == {F(<<"a">>, 1, 1), F(<<"d", "b">>, 2, 2), F(<<"c">>, 0, 3), F(<<"d">>, 1, 4), D(<<"d">>), D(<<".">>),
           F(<<"..", "e">>, 1, 5), X(<<"l">>, "link", 1, 6), X(<<"g">>, "pax", 1, 7)}
Archives ==
  {[W0 EXCEPT !.url = u, !.pages = <<<<F(Spelled(u), 1, 9)>>>>, !.inner = xs, !.s.maxBytes = max] :
     u \in {U("https", Example, <<"/", "f", ".tgz">>), U("https", Example, <<"/", "f", ".zip">>)},
     xs \in UpTo(Packed, 3), max \in {0, 2, 3}}

\* Archives of a hosting platform: entries in order, with gaps, for four requests.
Tree == <<X(<<"pax">>, "pax", 1, 8), D(<<"t">>), F(<<"t", "r">>, 1, 1), D(<<"t", "m">>), F(<<"t", "m", "f">>, 1, 2),
          F(<<"t", "m", "s", "g">>, 2, 3), F(<<"t", "n", "h">>, 1, 4), X(<<"t", "l">>, "link", 1, 5)>>
Subdirs == {<<>>, <<"m">>, <<"m", "s">>, <<"z">>, <<"r">>, <<"l">>}
WithSubdir(u, subdir) == IF subdir = <<>> THEN u ELSE [u EXCEPT !.path = @ \o <<"/", "/", "sub">>]
Platforms ==
  {[W0 EXCEPT !.url = WithSubdir(U("https", GitHub, RepoAt(GitHub)), subdir), !.subdir = subdir,
              !.pages = <<Chosen(Tree, S)>>, !.s.maxBytes = max] :
     subdir \in Subdirs, S \in SUBSET DOMAIN Tree, max \in {0, 2, 3}}
  \cup {[W0 EXCEPT !.url = U("https", GitHub, RepoAt(GitHub)), !.pages = <<xs>>] :
     xs \in {<<F(<<"t", "..", "x">>, 1, 1)>>, <<F(<<"t", "r">>, 1, 1), F(<<"t", "r", "q">>, 1, 2)>>,
             <<F(<<"t", "r">>, 1, 1), D(<<"t", "r">>)>>}}
  \cup {[W0 EXCEPT !.url = U("https", GitHub, RepoAt(GitHub)), !.pages = <<Tree>>, !.s.maxBytes = MaxInt]}
  \cup {[W0 EXCEPT !.url = Forced("git", U("https", Example, RepoAt(Example)))]}

\* Credentials by host, path and user, and the sources after them.
Https == {[host |-> <<"GitHub", "com">>, user |-> "u", path |-> <<>>],
          [host |-> GitHub, user |-> "u", path |-> <<"/", "Org">>],
          [host |-> GitHub, user |-> "v", path |-> <<"/", "org", "/", "re">>],
          [host |-> GitHub, user |-> "v", path |-> RepoAt(GitHub)],
          [host |-> Example, user |-> "u", path |-> <<>>]}
ForHosts == {[host |-> <<>>], [host |-> GitHub], [host |-> Example]}
Reqs == {U("https", GitHub, RepoAt(GitHub)), U("https", GitHub, RepoAt(GitHub) \o <<".git">>),
         Form(U("none", GitHub, RepoAt(GitHub) \o <<".git">>), "scp"),
         [U("ssh", GitHub, RepoAt(GitHub)) EXCEPT !.user = "git"],
         Forced("http", U("https", GitHub, RepoAt(GitHub))),
         Forced("http", [U("https", GitHub, RepoAt(GitHub)) EXCEPT !.user = "u"]),
         [U("https", GitHub, RepoAt(GitHub)) EXCEPT !.user = "u"],
         [U("https", GitHub, RepoAt(GitHub)) EXCEPT !.user = "u", !.pass = TRUE]}
Requests ==
  {[W0 EXCEPT !.url = u, !.pages = One(u), !.s.https = cs, !.s.noSystem = no,
              !.s.ambient = {"helper", "agent", "token"}] :
     u \in Reqs, cs \in UpTo(Https, 2), no \in BOOLEAN}
  \cup {[W0 EXCEPT !.url = u, !.pages = One(u), !.s.keys = hs, !.s.certs = hs, !.s.proxies = hs,
              !.s.sshToHTTPS = to, !.s.ambient = {"agent"}] :
     u \in Reqs, hs \in UpTo(ForHosts, 2), to \in BOOLEAN}
  \cup {[W0 EXCEPT !.url = u, !.pages = One(u), !.s.request = r, !.s.netrc = n, !.s.machines = ms] :
     u \in Reqs, r \in {"declines", "answers"}, n \in BOOLEAN,
     ms \in UpTo({[host |-> h, login |-> l, password |-> TRUE] : h \in {<<>>, GitHub}, l \in BOOLEAN}, 1)}

\* Registries.
Pulled == <<F(<<"a">>, 1, 1), F(<<"d", "b">>, 1, 2), D(<<"blobs">>), F(<<"index.json">>, 1, 3)>>
Registries ==
  {[W0 EXCEPT !.url = U("oci", GitHub, <<"/", "org">>), !.media = m, !.ext = x, !.inner = <<F(<<"i">>, 1, 4)>>,
              !.pages = <<Chosen(Pulled, S)>>] :
     m \in {"manifest", "blob"}, x \in {"none", ".tgz"}, S \in SUBSET DOMAIN Pulled}
  \cup {[W0 EXCEPT !.url = Form(Forced("oci", U("none", GitHub, <<"/", "org">>)), "bare"),
              !.pages = <<<<F(<<"a">>, 1, 1)>>>>, !.s.certs = hs,
              !.s.oci = [k \in DOMAIN hs |-> [host |-> hs[k].host, blank |-> b]], !.s.request = r, !.s.netrc = TRUE,
              !.s.machines = <<[host |-> GitHub, login |-> FALSE, password |-> TRUE]>>] :
     hs \in UpTo(ForHosts, 2), b \in BOOLEAN, r \in {"none", "answers"}}

\* The clients of object stores.
Clouds ==
  {[W0 EXCEPT !.url = u, !.pages = <<<<F(<<"f">>, 1, 1)>>>>, !.s.aws = a, !.s.gcp = g, !.s.endpoint = ep,
              !.s.noAmbient = no, !.s.ambient = amb] :
     u \in {Forced("s3", U("https", Example, <<"/", "b", "/", "f">>)),
            Forced("gcs", U("https", Example, <<"/", "b", "/", "f">>)),
            U("https", Amazon, <<"/", "b", "/", "f">>), U("https", <<"b">> \o Amazon, <<"/", "f">>),
            U("https", <<"b">> \o Google, <<"/", "f">>), U("https", Example, <<"/", "b", "/", "f">>)},
     a \in BOOLEAN, g \in {"none", "key", "invalid"}, ep \in BOOLEAN, no \in BOOLEAN, amb \in {{}, {"cloud"}}}

\* URLs of every form and host, forced or not, with and without "?archive=".
Paths == {RepoAt(GitHub), RepoAt(GitHub) \o <<".git">>, RepoAt(GitHub) \o <<".git", "/", "/", "sub">>,
          <<"/", "api", "/", "org", "/", "f", ".tgz">>, <<"/", "org", "/", "re", "/", "-", "/", "f", ".zip">>,
          <<"/", "org", "/", "re", "/", "raw", "/", "f">>, <<"/", "org">>, <<>>}
Urls ==
  {x \in {[W0 EXCEPT !.url = u, !.pages = One(u), !.local = <<"f">>, !.at = "file",
                     !.subdir = IF splitSubdir(u.path) = <<>> THEN <<>> ELSE <<"sub">>] : u \in
     {[U(scheme, host, p) EXCEPT !.form = form, !.force = force, !.archive = a,
                                 !.format = IF a = "named" THEN <<".tgz">> ELSE <<>>] :
     <<form, scheme>> \in {<<"scheme", "https">>, <<"scheme", "ssh">>, <<"scheme", "file">>, <<"bare", "none">>,
                           <<"scheme", "other">>, <<"rooted", "none">>, <<"dot", "none">>},
     host \in {GitHub, <<"gitlab", "com">>, <<"sr", "ht">>, Example}, p \in Paths,
     force \in {"none", "git", "http", "file"}, a \in {"none", "empty", "bool", "named"}}} : x.url.form \in {"rooted", "dot"} => x.url.path # <<>>}

\* Mercurial, and the name of its own directory.
Hg == {F(<<"a">>, 1, 1), F(<<"m", "b">>, 1, 2), F(<<"m", "_clone">>, 1, 3), D(<<"m">>), X(<<"m", "l">>, "link", 1, 4)}
Mercurial ==
  {[W0 EXCEPT !.url = WithSubdir(Forced("hg", U("https", Example, RepoAt(Example))), subdir), !.subdir = subdir,
      !.pages = <<SetToSeq(S)>>, !.s.noSystem = no, !.refused = r] :
     subdir \in {<<>>, <<"m">>, <<"a">>, <<"z">>}, S \in SUBSET Hg, no \in BOOLEAN, r \in BOOLEAN}

\* Subdirectories of Mercurial's that are not cleaned, lead out, or over a link.
HgPaths ==
  {[W0 EXCEPT !.url = WithSubdir(Forced("hg", U("https", Example, RepoAt(Example))), subdir), !.subdir = subdir,
      !.links = <<"tmp", "s", "_clone", "m", "l">> :> to, !.outside = out,
      !.pages = <<<<F(<<"a">>, 1, 1), F(<<"m", "b">>, 1, 2), X(<<"m", "l">>, "link", 1, 4), F(<<"n", "c">>, 1, 5)>>>>] :
     subdir \in {<<"m", "..">>, <<".", "m">>, <<"..">>, <<"..", "..">>, <<"..", "..", "x">>, <<"..", "x">>, <<"m", "l">>},
     to \in {<<"tmp", "s", "_clone", "n">>, <<"tmp", "s", "_clone", "a">>, <<"x">>},
     out \in {<<>>, <<D(<<>>)>>, <<F(<<"o">>, 1, 7)>>, <<F(<<"_clone", "o">>, 1, 7)>>}}
Bitbucket ==
  {[W0 EXCEPT !.url = u, !.pages = One(u)] :
     u \in {U("https", host, <<"/", "org", "/", "re", "/", "downloads", "/", "f", ".zip">>) :
              host \in {GitHub, <<"codeberg", "org">>, <<"bitbucket", "org">>}}}

\* Local paths: links on the way, and directories that are allowed.
Locals ==
  {[W0 EXCEPT !.url = Form(U("none", <<>>, <<"/", "f", ".tgz">>), "rooted"), !.at = at, !.local = p, !.links = l,
              !.s.allowed = ok, !.inner = <<F(<<"i">>, 1, 4)>>,
              !.pages = IF at = "file" THEN <<<<F(<<Last(p)>>, 3, 1)>>>>
                        ELSE <<<<F(<<"a">>, 1, 1), D(<<"d">>), F(<<"d", "b">>, 2, 2), X(<<"k">>, "link", 0, 3)>>>>,
              !.s.maxBytes = max] :
     at \in {"dir", "file", "nothing"}, p \in {<<"ok", "x">>, <<"ok", "ln", "x">>, <<"okay", "x">>},
     l \in {<<>>, <<"ok", "ln">> :> <<"no">>, <<"ok", "ln">> :> <<"ok", "in">>, <<"ok">> :> <<"no">>},
     ok \in SUBSET {<<"ok">>, <<"no", "x">>}, max \in {0, 2}}
LinkedLocal ==
  {[W0 EXCEPT !.url = Form(U("none", <<>>, <<"/", "f">>), "rooted"), !.at = "link", !.local = <<"x">>,
              !.links = <<"x">> :> <<"y">>, !.pages = <<<<F(<<"a">>, 1, 1)>>>>]}

MCWorlds ==
  <<Bodies, Listings, Archives, Platforms, Requests, Registries, Clouds, Urls, Mercurial, HgPaths, Bitbucket, Locals,
    LinkedLocal>>

=============================================================================
