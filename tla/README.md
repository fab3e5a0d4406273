# grabber in TLA+

`grabber` fetches a source (a git repository, an HTTP file, an object, a local
path, ...) named by one URL into a destination directory. This directory holds
TLA+ models of the parts where its correctness is hard to see from one run: what
happens when attempts fail half-way and others follow, when several calls share a
directory or a cache, and when the network changes its mind.

Model-check a run with `tlc -config MCGrab.cfg MCGrab`; check the proofs of a module
with `tlapm GrabProofs.tla`, and so for the other seven modules named `*Proofs`.
`PROJECT.json` maps every definition to the lines it models and lists runs,
hazards, findings and theorems. An operator named `X_Something` and introduced by
a comment `Fault:` is a wrong variant of `X`; no specification uses it. It is
there to show which property notices the fault.

## The system

| Part | Source | State | Operations | What is hard |
|---|---|---|---|---|
| Grab pipeline | `grabber.go` | a staging directory per call, the destination | make staging, download, verify, extract, rename or copy, clean up | several Grabs into one destination; failure in the middle; which directory is removed |
| Extraction | `extract/` | a byte budget, `_extracted` | one function per format | partial output, budget boundary |
| Git chain | `protocols/git/` | the staging directory, lists of errors, the credential in use | candidates, probe, guard, credentials, sparse, pinned, clone, archive | three nested loops of fallbacks that share one directory and decide by error class |
| SSRF guard | `ssrf/ssrf.go`, `proxied.go` | settings only | `CheckHost`, `CheckProxiedHost`, `DialContext`/`Control` | DNS answers change between check and use; two spellings of one host |
| Lookup cache | `ssrf/lookupcache.go` | entries, calls in flight | `lookup`, `run` | goroutines, shared calls, expiry, eviction, cancellation |
| Guarded transport | `settings/envproxy.go`, `settings.go` | a proxy decision per request | `RoundTrip`, Proxy function, dial | redirects that mix proxied and direct requests on one transport |
| Matching of credentials, keys, proxies, certificates, netrc | `settings/settings.go`, `internal/netrc` | none | `Match*`, `Lookup` | order, host and path boundaries, several spellings of one URL |
| Dispatch | `grabber.go`, `protocols/protocol.go` | none | `Detect`, `DetectForced` | seven recognisers in one order |
| HTTP, S3, GCS, OCI, Mercurial, file | `protocols/*` | the staging directory | `Download` | sources that come in pieces and break off, names with no place, which secret goes where |
| Paths and bytes | `internal/safepath`, `internal/limitio` | none | `Join`, `Copy` | boundaries |
| Options, command line, helpers | `options.go`, `cmd/`, `internal/` | none | | |

`Grab` calls one protocol's `Download` with its staging directory; git, HTTP and
the object stores send their requests through the guarded transport; the
transport asks the guard, and the guard's proxied check asks the lookup cache,
which all Grabs of the process share. The destination directory is the other
thing Grabs share.

What makes each part correct:

- **Lookup cache**: one resolution of a name at a time; an answer is served only
  while it is current; bounded; every lookup returns; a caller that gives up
  changes nothing for the others.
- **Guard and transport**: no connection to a blocked address; a proxy is asked
  only for targets that were checked in every spelling; nothing else is refused.
- **Git chain**: a success holds the output of one attempt only; a download that
  can succeed does; no credential is used before its turn; the chain ends.
- **Downloads and extraction**: what is delivered is whole, within the limit and
  inside its directory; nothing is refused without a cause; every loop ends; the
  archive of a platform selects what git would.
- **Dispatch and credentials**: a URL's directive is kept; a secret goes to its
  host and path only, the most specific first, and those of the environment where
  they belong.
- **Grab**: nothing unverified is delivered; the destination is merged into, not
  replaced; concurrent Grabs neither fail nor corrupt one another; no staging
  directory is left.

## Modules

| Module | Models | Checked by |
|---|---|---|
| `LookupService` | abstract: what a lookup promises, with no map, mutex or channel | |
| `LookupCache` | `ssrf/lookupcache.go` | `MCLookupCache` (2 configurations), `LookupCacheProofs` |
| `GuardedFetch` | `ssrf.go`, `proxied.go`, `envproxy.go` and the transports of `settings.go` around one fetch | `MCGuardedFetch`, `GuardedFetchProofs` |
| `GitDownload` | `git.go` (Download to cloneAndPrepare), `sparse.go`, `pinned.go`, `git_archive.go` (as one step) | `MCGitDownload` (3 configurations), `GitDownloadProofs` |
| `Grab` | `grabber.go`, with the outcomes of `extract.go` | `MCGrab` (2 configurations), `GrabProofs` |
| `Staging` | `safepath.go`, `limitio.go`, the budgets of `extract.go` and `git_archive.go`, a directory tree | through `Fetch`, `StagingProofs` |
| `Dispatch` | `Grabber.download` and every protocol's `Detect` and `DetectForced` | through `Fetch` |
| `Credentials` | the `Match*` functions, netrc, and each protocol's order of sources | through `Fetch` |
| `Cone` | `sparseEntries` and `archiveSelects` | through `Fetch` |
| `Fetch` | the `Download` of HTTP, S3, GCS, OCI, Mercurial and file, git's archive, and `extract.go`, composing the four above | `MCFetch` (4 configurations), `FetchProofs`, `FetchTreeProofs`, `FetchResultProofs` |

### LookupCache and LookupService

`entries` and `inflight` are the two maps; `call` is every `lookupCall` with the
progress of the goroutine that runs it, named after the request that started it;
`caller` is every goroutine in `lookup`. An action is one critical section of
`mu` or one step between two: `Hit`, `Join` and `Start` are the three ways out of
the first critical section of `lookup`, `Return` and `GiveUp` its `select`,
`Resolve`, `Store` and `Close` the steps of `run`. The expiry is computed in
`Resolve`, before the mutex is taken, as in the code; the `Close` of the deferred
function is separate from the `Store`, because callers run between them. A panic
of the resolver ends the program and is not modelled.

`LookupService` has requests and queries only. The mapping (`queryOf`,
`requestOf`) hides the maps, the waiting and the steps after a store: `Hit` and
`Return` are `Serve`, `Start` is `Open`, `Resolve` is `Answer`, `Store` is
`Retire`, `GiveUp` is `Abandon`, and `Join`, `Close` and `Cancel` are stutters.

### GuardedFetch

One fetch: the check before it (`CheckSSRFHostFor`, for the protocols that make
it), then a request, its redirects, and for each request the Proxy function, the
check of a proxied target and the dial. Addresses are the classes the guard tells
apart: public, loopback, private, in the local NAT64 prefix, or carrying a private
IPv4 address. A host is the sequence of ASCII spellings `asciiForms` gives it,
each a literal, a number `inet_aton` would read, or a name; the IDNA conversion
itself is a constant (`asciiForms`), and so is which hosts it is made for (`nonASCII`:
a host that is not ASCII stays one if its two spellings are the same). DNS may change and cached answers may expire at any time;
the lookup cache is what `LookupService` promises, an answer DNS gave lately.

### GitDownload

One `Download`. A *world* is what is fixed during it: how the ref reads, where the
remote has it, what the remote can serve, the credential sources of each candidate
URL, whether the platform has an archive. `pc` walks through the code;
`url`, `source`, `attempt` are the loop variables of `Download`, `gitDownload` and
`cloneByAttempts`; a Go error is the set of sentinels `errors.Is` finds in it, so
that `errors.Join` and `%w` are union. `tmp` records, for everything in the staging
directory, which URL, credential and route wrote it and what it is.
The archive is a
"snapshot": it holds no submodules, even when they were asked for.
`PrepareReturns` and `GitDownloadReturns` are the returns through the nested
functions. `Exchange` is the remote (external): its proper answer, a rejection of
the credential, a passing failure (counted in `faults`), which may be a timeout of the
network that `errors.Is` takes for a context's, or a failure because the context is done.

### Grab

Several Grabs, each with its staging directory, and one destination. A file is a
sequence of blocks so that two copies of one file interleave; `OpenFile` truncates
and `WriteBlock` writes at the offset of its own descriptor, leaving a hole where
the file has meanwhile become shorter. `os.Rename` looks first and refuses any directory
that exists, an empty one too (`Refused`); `rename(2)` itself replaces one that another
Grab has made since, as long as it is empty (`Renamable`). `from` is the variable `tmpDir` after extraction, and `Cleanup`
removes what the deferred call captured. What the URL yields is `Source`. A path
is a link wherever it occurs or nowhere: a regular file written through a link
that another source left in the destination is outside the module.

### Fetch, with Staging, Dispatch, Credentials and Cone

One call of `Grabber.download` and the extraction after it. The four modules it
extends hold the pure parts as operators; `Fetch` has the state: the secrets sent,
the page and the entries still to come, what is left of the budget, the tree below
the staging directory. `Detect` chooses the protocol, a `Request` action per
protocol sends its secrets, and then one action writes one object, entry or file:
`GetObject` under `ListPage` for a listing, `untar`, `extractZip`, `extractArchive`,
`copyDir`. `Save` is the way all of them write: everything, as much as the limit
allows, or some part of it and then a failure (counted in `faults`).

A URL is parsed: `force` is a protocol's prefix before "::" (anything else before it,
as in an IPv6 address, is part of the URL), its host is the sequence of its labels, its path the sequence of
the tokens the code looks for ("/", ".git", extensions, parts of names), so that a
prefix of characters and a prefix of segments differ. `?archive=` is absent, empty, a
boolean or a name; `fileName` puts that name behind "archive." as it is written, so the
name of an HTTP file is a path and may have several segments, ".." among them. A file's contents are the
entry they come from and their length. The counter of a limit wraps at `MaxInt`.
The object stores' SDKs, `oras`, `hg` and the tar and zip readers are external: they
yield the entries of a world in order, or fail.

Two places are not confined by the code, and the model follows it there. An HTTP file is
written where `filepath.Join` puts its name (`FilePlace`): in the staging directory, in a
directory above it, or nowhere if there is no such directory; the download reports a
single file all the same (`Aside`). Mercurial's subdirectory is cleaned, joined and
followed over links of the clone (`srcDir`): it may be any directory of the clone or its
root, or lead out of it (`Astray`), where it finds what the world has `outside` or
nothing. The clone's parent and the directories above fail: `os.Rename` does not move the
clone onto itself, nor a directory into itself. `sparseEntries` yields the selected entries
and whether it returns without error, which it does only if the subdirectory and the
directories on the way to it have trees.

For git only the part around the platform's archive is here. `Clone` stands for
everything `GitDownload` models: it goes through the candidate URLs, offers each of
them credentials in order, and fails for a commit hash, as it must for the archive
to be asked for.

`ArchiveLikeGit` compares two of the code's own algorithms: where `sparseEntries` selects
entries the archive delivers these, and where it refuses (`GitRefuses`) the archive is refused. `CredentialScoped` and
`MostSpecificFirst` state by segments what the code computes by characters.
`WholeOrRefused` and `RefusedForCause` together say when a download succeeds, in
terms of the source alone: files that are wanted, their places, their lengths.

## Runs

| Run | Shows | Bounds |
|---|---|---|
| `lookup_cache` | `TypeOK`, `SingleFlight`, `ServedCurrent`, `ImplementsService` | 2 callers, 2 lookups each, 1 name, clock 0..2, TTLs 2 and 1: expiry, a second call after the first and giving up all occur while another waits |
| `lookup_full` | `CacheBounded`, `LookupReturns` | 2 callers, 2 lookups each, 2 names, a cache of 1: replacing, clearing and concurrent stores. The clock stands still: a failure expires at once (`ErrTTL = 0`) and an answer does not |
| `git_download` | `TypeOK`, `CleanOutput`, `HealthyDownloadSucceeds`, `LazyCredentials`, `DefinitiveStops`, `Terminates` | about 2,500 worlds, 2 failed exchanges: two failures make any two routes fall through one after the other |
| `grab_delivery` | `TypeOK`, `DeliveredWhole`, `MergePreserves`, `GrabSucceeds`, `Verified`, `StagingRemoved` | 3 Grabs, files of 1 to 3 blocks, 1 failure: a rename won by a third while two copy the same file; and 3 Grabs of which one has any combination of checksums, one any format, and one is refused (6,300,000 states, two minutes) |
| `fetch` | `TypeOK`, `WholeOrRefused`, `BudgetKept`, `Inside`, `ArchiveLikeGit`, `RefusedForCause`, `SingleFile`, `AllowedOnly`, `CredentialScoped`, `MostSpecificFirst`, `AmbientScoped`, `DirectiveKept`, `ComesToAnEnd` | about 28,000 worlds in thirteen families, 1 failure: see below |
| `guarded_fetch` | `TypeOK`, `GuardedDial`, `ProxiedTargetsChecked`, `RefusedForCause` | 6 hosts, 1 redirect, 1 change of DNS, all guard levels and proxy routes |

Deadlock is checked in all runs but those of the lookup cache, whose callers may
stop asking (`MaxRequests`); elsewhere the only step of a finished system is
`Returned`. Symmetry is over callers and over Grabs, which the specifications
treat alike; the runs with liveness use none.

`Fetch`'s worlds are families around one question each: one file, listings of two
pages with up to two keys each, archives of up to three entries, every subset of the
entries of a platform's archive for five subdirectories, two credentials out of five,
registries, cloud clients, URLs, Mercurial, its subdirectories that are not plain names,
bitbucket, local paths and one that is a link. Each family has
the names, kinds and lengths that its code tells apart: two entries are enough for a
clash or for one name twice, three to use a budget of 2 or 3 up to the byte and go
on; two pages for a page token; two credentials for an order. A source is read in
one pass, so a failure leaves nothing for a second one to meet: one is enough.
`MaxInt = 7` is above every length, so that only the limit itself can wrap. Outside the
staging directory there are the directories above it and nothing else, in which an HTTP
file can be made; one whose name goes down and ends in ".." is there only if it leads to
the staging directory or above it (`Spells`). What lies outside hg's clone is on the same
file system, and one tree.

`GitDownload`'s worlds are three families (named refs, hashes, credential chains)
and not their product: what the remote has and what the credentials are meet only
in `Exchange`.

Six more runs end in a violation, each of one property that quotes the
documentation:

| Run | The documentation | The code |
|---|---|---|
| `git_short_hash` | "resolving a short hash walks every ref" | with a subdirectory only the default branch is searched |
| `git_cone` | "Directories off that path are excluded entirely", "only the transfer size changes" | the full-clone fallback delivers the whole tree |
| `grab_compressed` | `.gz`, `.bz2`, `.xz`, `.zst`, `.lz4` are extracted | the decompressors write into `_extracted`, which is never made |
| `bitbucket_download` | "Whatever is refused here falls through to the HTTP protocol" | Mercurial comes before HTTP and takes every URL of bitbucket.org |
| `archive_subdir` | "only files under it are extracted, with the subdir prefix stripped" (`git_archive.go:37-40`) | the files on the way to the subdirectory are extracted as well, and all keep their paths, as the git routes have it |
| `local_link` | "If the source is a directory, all contents are copied recursively" | a link to a directory is delivered as a link |

## Fairness

- `LookupCache!FairSpec`: weak fairness of every caller's own step and of every
  call. Goroutines that can run do run, and the resolver is called under a timeout
  of its own (`lookupcache.go:84`), so `Resolve` happens. Cancellation and new
  lookups have none.
- `GitDownload!FairSpec`: weak fairness of `Step`. The code is sequential and every
  exchange ends, if not otherwise with the context. `Cancel` has none: the chain
  ends without it.
- `Fetch` states none. That a download comes to an end is `ComesToAnEnd`: every step
  enters a later phase, or a later page of those there are, or leaves fewer entries at
  hand, an order in which nothing goes on for ever. As the code is sequential and
  deadlock is checked, that is termination as long as exchanges return.

## Proofs

All theorems are about the specifications that the runs check, for every value of
the constants that satisfies the assumptions below. Each rests on an inductive
invariant, which was checked by TLC on the instances of the runs before it was
proved, and on one lemma per conjunct that has a step per action.

**`LookupCacheProofs`**, for all sets of callers, all finite non-empty sets of names and
all bounds:

- `TypeCorrect`, `SingleFlightCorrect`, `ServedCurrentCorrect`: the three
  invariants, from one inductive invariant. `SingleFlight` alone is not inductive:
  `RegistryInv` adds that the running calls are exactly the registered ones, that
  a registered call is registered under its own host, and that a request that has
  not started a call finds its call free. `ServiceInv` adds where a cached entry
  comes from (a stored call of that host) and what a waiter waits on (a call of its
  host that was not stored before it asked), which `ServedCurrent` needs at the
  moment of the return.
- `CacheBoundedCorrect`: by cardinality of the map before and after the store.
- `ServiceRefinement`: initial states map to initial states and every action to the
  action of the service listed above or a stutter, using the inductive invariant:
  a `Hit` serves a retired query that has not expired, a `Return` one that the
  request was there for.

**`GuardedFetchProofs`**, for any hosts, spellings, answers, worlds and bounds: all of
the run's properties.

- `GuardedDialCorrect`. A connection is made with the decision at hand, so `DialInv`
  adds `DecisionFresh`, that a request about to dial has the decision `"direct"`.
  `Send` establishes it, which is the point of `envProxyTransport.RoundTrip` making
  a decision per request.
- `TypeCorrect`: with `PendingHere`, that what is still to be checked are spellings of
  the host.
- `ProxiedTargetsCheckedCorrect`: `ProxiedInv` adds that what DNS and the cache hold is
  something DNS has said (`Said`) and that the spellings a check has dealt with have
  passed (`SpellingsPassed`), which at the last of them says that the host did.
- `RefusedForCauseCorrect`: `RefusedInv` adds that the addresses the dialer tries are the
  host's own or of one answer DNS has given (`TargetsSaid`), as DNS may have changed
  by the time one of them is refused.

**`GitDownloadProofs`**, for any worlds (candidates, credentials, refs, what a remote can
serve) and any number of failures: all of the run's safety and action properties.

- `TypeCorrect`, from `Control`: which variables mean something at which step of the
  three nested loops.
- `LazyCredentialsCorrect`: `LazyInv` with `SourcesSpent`, that every source before
  the one at hand had no credential or saw it rejected.
- `DefinitiveStopsCorrect`, an action property: `StopInv` says that with a definitive
  answer among the errors the loop over the URLs is left.
- `CleanOutputCorrect`: `CleanInv`. The property is about the end; what carries it is
  what the staging directory holds at each step, which is never anything but output
  of the attempt at hand (`Holds`), and that no error is lost on the way to the final
  one (`ErrorsKept`): a URL that was given up is never taken for a success.
- `HealthyDownloadSucceedsCorrect`: `HealthInv`. A failure at the end is explained
  backwards by what every loop has been through: `NoneMissed` for the candidates,
  `ChainSound` for the credentials, `RouteSound` for the routes of one attempt,
  each saying that what was passed over could not have succeeded; `ArchiveInv` for the
  last resort.

**`GrabProofs`**, for any number of Grabs and any sources, destinations and failures: all
of the properties of `grab_delivery`.

- `TypeCorrect`: with `Made`, that the destination is a directory as long as anyone
  copies into it.
- `StagingRemovedCorrect` and `VerifiedCorrect`: `StageInv` says what each
  Grab's staging directory and `_extracted` hold at each stage (`Staged`,
  `Underway`), that what the deferred call removes is all of it, and that past
  the verification it is as demanded.
- `MergePreservesCorrect`: what was there and is in no source stays, link or file.
- `DeliveredWholeCorrect`: the invariant is at the level of blocks. While several
  descriptors write one path, every block behind a writer's offset is right or
  is still ahead of another writer, and the truncating ones are among these
  (`FileWhole`, `Agreed`); whoever finishes last leaves the whole file.
- `GrabSucceedsCorrect`: a failure has a cause other than another Grab, but for the
  links that two of them share.

**`StagingProofs`** has the lemmas about paths, trees and bytes. What a recursive function
computes needs induction, and the library's induction theorems take an operator;
`SetInduction` states it of a set instead, so that a property of `Clean` or `Follow`
is proved by showing that every number is in the set of those that have it.
`CopyExact`: for any limit below the largest integer a copy succeeds just if
everything fits, and wrote everything then and one byte more than the limit
otherwise, in each of the three implementations.

**`FetchProofs`**, for any worlds. The invariant is `Typed`: the protocol is
the one `Detect` chose and stays (`Chosen`), every secret sent is one the protocol's
settings allow (`Sent`), what kinds of things are in the tree (`Kinds`), the ranges of
the control state (`Control`), and what is left of the budget and of the source
(`Stream`).

- `TypeCorrect`, `DirectiveKeptCorrect`, `AmbientScopedCorrect`: from it directly.
- `ArchiveLikeGitCorrect`: `ArchiveInv` describes the tree after the first `n` entries
  of the archive (`Unpacked(n)`): each selected file among them is there and whole,
  and nothing else; `Wrapper` says that the directory that is taken off the names is
  the one of the first entry, and of all others. The two algorithms for the cone,
  one on a stream and one on trees, are compared in lemmas of their own. `FoundInv` says
  what proves that the subdirectory exists: an entry at or below it, which `HasTree` asks
  for too, but for an entry of just that name.
- `ComesToAnEndCorrect`, an action property: from `Stream` alone.
- `CredentialScopedCorrect` and `MostSpecificFirstCorrect`: `Due`, that of the secrets sent so
  far each was in scope and in its turn (`Fair`), which holds of every request's own
  and of a chain as far as it is followed. Three groups of lemmas carry it:
  `Lists`, that `InOrder` enumerates a finite set under a total order, each member once
  and in its place; `SegmentsCut` and `SegmentPrefix`, that a prefix by characters that
  ends where the other path has a slash, or ends too, is a prefix by segments;
  `MatchScoped` and `MatchOrder`, that matching and its order by length of the
  path agree with segments.

**`FetchTreeProofs`**, on the tree and the bytes in it:

- `InsideCorrect`: `Placed`, that everything in the tree is at, above or below the
  staging directory, with directories above it, for any names: `Join` and `Clean`
  are proved to give such a path or to refuse it. `WrittenAside` is the exception: the one
  file of an HTTP response with a named `?archive=`, at `FilePlace`, in an existing directory.
- `SingleFileCorrect`: `OneFound`: extraction finds one file, which is not in its own way,
  and until it ends there is one thing beside what it extracts, unless the file is `Aside`. This is what `Grab`
  assumes of a source that reports a file (`SourcesAssumption`).
- `AllowedOnlyCorrect`: `LocalInv`, that a local path is only opened when it is allowed
  and that every file in the tree is one of its own; and the lemma `FollowBelow`, that a
  path with no link on it, taken below a directory, leads below where that leads.
- `BudgetKeptCorrect`: `OutBudget` (an extraction), `TreeBudget` (a platform's archive)
  say that what is written and what is left of the budget together never exceed the
  limit, but for one byte after a failure (`Slack`); an extraction starts with no file
  in `_extracted` (`Clear`), and a file that is written again gives its bytes back.
  `FileBudget` says it of every file of a download. All of it holds up to the largest
  integer, as wrapping makes a read smaller.

**`FetchResultProofs`**, for any worlds, on how a call ends. The two properties are about
the end and speak of the source alone; what carries them is one description of the
staging directory per protocol, after the first `n` entries. `Stages` says which
entries these are (`Came`): those of the pages read, the walk or the archive that are
not in `todo`; `OneEntry` that what is taken for one file is one.

- `WholeOrRefusedCorrect`: `Whole`, that below what is delivered there is one file for
  every place of a wanted entry among those that came, the last of several at one place
  whole, and no other (`Laid`). A listing needs it of all pages read, put in one
  sequence (`PagesRead`); hg and `oras` put a whole repository or artifact there in one
  step (`Plant`), which the moves of hg's subdirectory keep (`MovedLaid`), whatever spelling
  of the subdirectory led there.
- `RefusedForCauseCorrect`: `Reasons`. A step is refused because of what is in its way
  or because the limit is used up; for that to be a cause in the source, everything
  that can be in the way must come from entries before it (`Explained`: a file is at the
  place of one, a directory on the way to one), and what is left must be the limit
  less the bytes of the wanted ones among them (`Spent`). Two entries that meet are then
  a clash of two names, and one that does not fit makes their sum too large.
  `ArchiveRead` says the same of a platform's archive, without the first segment.

What the proofs assume of the constants, each `ASSUME` evaluated by TLC in the runs:

- `LookupCache`: lifetimes are natural numbers with `ErrTTL <= TTL`, the cache holds
  at least one entry, and the address lists are none of the four words used for
  other outcomes.
- `GuardedFetch`: a spelling is a literal of a known address or a name; answers and
  worlds have their types.
- `GitDownload`: worlds have their types, with at least one candidate URL; an empty
  repository has no refs.
- `Grab`: `NoFile` and `NoDir` are no contents; a source that is a file yields one path,
  which is not a link (`SingleFile`); contents have at least one block.
- `Credentials`: of the tokens with capital letters none is "/", nor is its lower case.
- `Staging`: `Root` is a clean absolute path other than "/".
- `Fetch`: worlds have their types, and what each source can yield is what the code or
  the program it asks lets through. A source that is one file is one entry with a name,
  other than `_extracted` if it is an archive, a local one has the last segment
  of its path, and HTTP's is spelled as its URL gives it (`Spells`); a listing has objects and markers of directories, and any other
  source one page. A walk of a local directory names nothing behind a link (`Walked`;
  `filepath.Walk` does not follow them), and what it, a repository or an artifact holds is
  a tree: no segment that is empty, "." or "..", and nothing below what is no directory
  (`TreeLike`); the links of a clone are at entries of it. An artifact's links are in directories. A platform's archive has its
  entries in one directory, no file twice and no "." or empty segment
  (`PlatformArchive`). The names the code itself gives (`_clone`, `_extracted`, ...) are
  strings. Of the names in a listing or in an archive that is extracted nothing is assumed.

Only model-checked:

- liveness under fairness, which is beyond the provers: `LookupReturns` and `Terminates`;
- the six properties that the code violates.

## Not modelled

- The options assign one field each, and the command line calls `Grab` once.
- Turning text into what the models start from: `url.Parse`, IDNA, the tokens of a
  netrc file, keys and known hosts, the lines of `git credential fill`; TLS set-up;
  the environment of subprocesses, version and error texts.
- Azure DevOps's own hosts and paths for SSH; regions of S3; permissions and modes.
- A local file system that changes between the check and the copy, and two calls
  over one source. Concurrency of Grabs is `Grab`'s, at the destination.
- What the SDKs, `oras` and `hg` do inside. Redirects are `GuardedFetch`'s.
- `lookupCache.reset` exists for tests.

Some behaviours are modelled and left out of a property by a condition, because the
code really does them and a caller may mind:

- a limit of the largest int64 reads nothing, and empty files are delivered
  (`WholeOrRefused`, `ArchiveLikeGit`);
- an artifact that has one of oras's own names among its files loses that file, and
  one that is no image manifest is taken for a file (`SingleFile`, `RefusedForCause`,
  `BudgetKept`). Which artifacts these are was found by the attempt to prove
  `SingleFile`: it is not enough that the one file has another name;
- objects of a listing below a directory called `_extracted` are no extraction's
  (`BudgetKept`, found in the same way);
- a URL without a host (git forced on a local path) gets the secrets that are for any
  host; these are its own then, so `MostSpecificFirst` speaks of secrets that
  name a host (found by the attempt to prove it);
- links in a platform's archive become empty files (`ArchiveLikeGit` speaks of regular
  files), and a file, link or submodule named as the subdirectory passes for it there,
  where the trees refuse it: in this one case the conclusion of `ArchiveLikeGit` asks only
  that such an entry exists. "Only the requested directory proves it exists"
  (`git_archive.go`) is meant otherwise;
- an HTTP file whose `?archive=` leads out of the staging directory is written there, true
  is returned and nothing is staged, so that the Grab delivers nothing, or fails if it has
  to extract: `Inside` allows this one place, and `WholeOrRefused` and `SingleFile` leave
  the response out (`Aside`). The comment of `Download` in `protocol.go` promises a single
  file;
- a subdirectory of Mercurial's that leads out of its clone delivers what is moved in
  from there (`WholeOrRefused` leaves it out, `Astray`; it is missing there afterwards,
  which the model does not show).

`PROJECT.json` lists them among the hazards. That `CleanOutput` does not see submodules of
the wrong commit is there too.

## Plan

1. Done: `LookupCache` with its abstract service, `GitDownload`, `Grab`,
   `GuardedFetch`, `Staging`, `Dispatch`, `Credentials`, `Cone` and `Fetch`.
2. Done: proofs of every safety and action property of the passing runs.
3. Left to model: the proxied check composed with `LookupCache` instead of its promise.
