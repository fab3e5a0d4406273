---------------------------- MODULE GuardedFetch ----------------------------
(***************************************************************************)
(* One fetch over HTTP through the transport of Settings.RoundTripperForHost *)
(* with the guard of package ssrf: the check before the fetch, then a      *)
(* chain of requests that redirects make, each sent directly or through a  *)
(* proxy, while the answers of DNS change.                                 *)
(*                                                                         *)
(* Addresses are told apart only as the guard does: an address is its      *)
(* class.                                                                  *)
(***************************************************************************)
EXTENDS Naturals, Sequences, FiniteSets

CONSTANTS
  Names,      \* DNS names, ProbeName among them
  ProbeName,  \* dnsProbeName
  Hosts,      \* hosts a URL or a redirect may name
  asciiForms, \* the spellings of each host a server can receive, see Form
  nonASCII,   \* the hosts that are not ASCII, or have an empty label
  Answers,    \* what DNS may say of a name, see Answer
  Worlds,     \* settings and environments to consider, see World
  MaxHops,    \* bound: redirects
  MaxChanges  \* bound: changes of DNS

Addresses == {"public", "loopback", "private", "nat64Local", "carriesPrivate"}

\* A spelling is an address literal, a number inet_aton reads as an address, or a
\* name.  A host with no spelling cannot be converted.
Form == [kind : {"literal", "numeric", "name"}, is : Addresses \cup Names \cup {"number"}]

Answer == [status : {"ok", "unknown", "failing"}, addrs : SUBSET Addresses]

(***************************************************************************)
(*   level     the guard's level, Default being resolved to Internal       *)
(*   custom    the addresses the predicate of level Custom blocks          *)
(*   allowHosts, allowIPs  the allow list                                  *)
(*   fixed     a proxy configured for the host of the fetch                *)
(*   env       the hosts the environment sends through its proxy           *)
(*   proxyAddr the address of that proxy                                   *)
(*   precheck  the protocol calls CheckSSRFHostFor before the fetch        *)
(***************************************************************************)
World ==
  [level : {"None", "Loopback", "Internal", "Custom"}, custom : SUBSET Addresses,
   allowHosts : SUBSET Form, allowIPs : SUBSET Addresses, fixed : BOOLEAN,
   env : SUBSET Hosts, proxyAddr : Addresses, precheck : BOOLEAN]

ASSUME NamesAssumption == ProbeName \in Names
ASSUME HostsAssumption ==
  /\ asciiForms \in [Hosts -> Seq(Form)]
  /\ \A h \in Hosts : \A k \in 1..Len(asciiForms[h]) :
       LET f == asciiForms[h][k]
       IN  (f.kind = "literal" => f.is \in Addresses) /\ (f.kind = "name" => f.is \in Names)
  /\ \A h \in Hosts \ nonASCII : Len(asciiForms[h]) = 1
ASSUME AnswersAssumption == Answers \subseteq Answer
ASSUME WorldsAssumption == Worlds \subseteq World
ASSUME BoundsAssumption == MaxHops \in Nat /\ MaxChanges \in Nat

VARIABLES
  w,         \* the world
  dns,       \* what DNS says of each name now
  changes,   \* how often that has changed
  cache,     \* sharedLookups: answers kept for CheckProxiedHost
  ctx,       \* "live", or "done"
  pc,        \* the step of the fetch
  host,      \* the host of the current request
  hops,      \* redirects followed
  pending,   \* spellings CheckProxiedHost has still to check
  decision,  \* proxyDecision of the request: "direct" or "proxied"
  targets,   \* addresses the dialer has still to try
  conns,     \* history: the connections made
  handed,    \* history: the requests handed to a proxy
  said,      \* history: what DNS has said of each name
  result     \* "none", "fetched", "refused" or "unreachable"

network == <<dns, changes, cache, ctx, said>>
history == <<conns, handed>>
vars == <<w, network, pc, host, hops, pending, decision, targets, history, result>>

-----------------------------------------------------------------------------
(***************************************************************************)
(* The guard.                                                              *)
(***************************************************************************)
Enabled == w.level # "None"

Blocked(a) ==
  /\ Enabled /\ a \notin w.allowIPs
  /\ \/ w.level = "Custom" /\ a \in w.custom
     \/ w.level = "Loopback" /\ a = "loopback"
     \/ w.level = "Internal" /\ a \in {"loopback", "private"}

embeddedIPv4(a) == IF a = "carriesPrivate" THEN {"private"} ELSE {}

blockedWithEmbedded(a) ==
  /\ a \notin w.allowIPs
  /\ \/ Blocked(a)
     \/ w.level = "Internal" /\ a = "nat64Local"
     \/ \E v \in embeddedIPv4(a) : Blocked(v)

hostAllowed(f) == f \in w.allowHosts

\* What CheckHost says of a name with this answer: one address that is not
\* blocked is enough, since the dialer checks again.
HostPasses(answer) ==
  answer.status = "ok" /\ (answer.addrs = {} \/ \E a \in answer.addrs : ~Blocked(a))

\* The spelling the client itself dials.
Dialed(h) == asciiForms[h][1]
Convertible(h) == asciiForms[h] # <<>>

-----------------------------------------------------------------------------
Init ==
  /\ w \in Worlds
  /\ dns \in [Names -> Answers] /\ changes = 0 /\ cache = [n \in {} |-> dns[n]]
  /\ ctx = "live"
  /\ host \in Hosts /\ hops = 0
  /\ pc = (IF w.precheck THEN "precheck" ELSE "send")
  /\ pending = {} /\ decision = "direct" /\ targets = {}
  /\ conns = {} /\ handed = {} /\ result = "none"
  /\ said = [n \in Names |-> {dns[n]}]

Goto(label) == pc' = label /\ UNCHANGED result
Ends(r) == pc' = "done" /\ result' = r

(***************************************************************************)
(* The network around the fetch.                                           *)
(***************************************************************************)
DnsChange(n) ==
  /\ pc # "done" /\ changes < MaxChanges
  /\ \E answer \in Answers \ {dns[n]} :
       /\ dns' = [dns EXCEPT ![n] = answer]
       /\ said' = [said EXCEPT ![n] = @ \cup {answer}]
  /\ changes' = changes + 1
  /\ UNCHANGED <<w, cache, ctx, pc, host, hops, pending, decision, targets, history, result>>

\* A cached answer expires.
Expire(n) ==
  /\ pc # "done" /\ n \in DOMAIN cache
  /\ cache' = [m \in DOMAIN cache \ {n} |-> cache[m]]
  /\ UNCHANGED <<w, dns, changes, ctx, said, pc, host, hops, pending, decision, targets,
                 history, result>>

Cancel ==
  /\ pc # "done" /\ ctx = "live" /\ ctx' = "done"
  /\ UNCHANGED <<w, dns, changes, cache, said, pc, host, hops, pending, decision, targets,
                 history, result>>

\* sharedLookups.lookup, as LookupCache promises it: an answer DNS gave lately.
Looked(n) == IF n \in DOMAIN cache THEN cache[n] ELSE dns[n]
Remember(names) == cache' = [n \in DOMAIN cache \cup names |-> Looked(n)]

-----------------------------------------------------------------------------
(***************************************************************************)
(* CheckSSRFHostFor, before the fetch.                                     *)
(***************************************************************************)
EnvProxyApplies == ~w.fixed /\ host \in w.env

\* CheckHost looks the host up as it is written, which finds none that is not
\* ASCII, even if only one spelling of it can be received.
ASCII(h) == h \notin nonASCII

Checked(f) ==
  \/ hostAllowed(f)
  \/ f.kind = "literal" /\ ~Blocked(f.is)
  \/ f.kind = "name" /\ ctx = "live" /\ HostPasses(dns[f.is])

\* CheckHost, for a host that goes to no proxy of the environment.
CheckHost ==
  /\ pc = "precheck" /\ ~EnvProxyApplies
  /\ IF ~Enabled \/ (ASCII(host) /\ Checked(Dialed(host)))
     THEN Goto("send")
     ELSE Ends("refused")
  /\ UNCHANGED <<w, network, host, hops, pending, decision, targets, history>>

\* CheckProxiedHost, or its refusal of a host that cannot be converted; after is
\* where the check goes on to.
StartCheck(after) ==
  IF ~Enabled THEN Goto(after) /\ UNCHANGED pending
  ELSE IF ~Convertible(host) THEN Ends("refused") /\ UNCHANGED pending
  ELSE /\ Goto(IF after = "send" THEN "prechecking" ELSE "checking")
       /\ pending' = {asciiForms[host][k] : k \in 1..Len(asciiForms[host])}

PrecheckProxied ==
  /\ pc = "precheck" /\ EnvProxyApplies
  /\ StartCheck("send")
  /\ UNCHANGED <<w, network, host, hops, decision, targets, history>>

Checking == pc \in {"checking", "prechecking"}
Passes(f) == pending' = pending \ {f} /\ UNCHANGED <<pc, result>>
Refuses == Ends("refused") /\ UNCHANGED pending

\* checkProxiedASCII for a spelling that needs no lookup.
CheckLiteral(f) ==
  /\ Checking /\ f \in pending
  /\ hostAllowed(f) \/ f.kind # "name"
  /\ IF hostAllowed(f) \/ (f.kind = "literal" /\ ~blockedWithEmbedded(f.is))
     THEN Passes(f)
     ELSE Refuses
  /\ UNCHANGED <<w, network, host, hops, decision, targets, history>>

\* Fault: one address that is not blocked is enough, as for CheckHost.
NamePasses_Any(answer) ==
  answer.status = "unknown" \/ (answer.status = "ok" /\ \E a \in answer.addrs : ~blockedWithEmbedded(a))

\* ... and for a name.  An unknown name passes: only the proxy may have DNS.
NamePasses(answer) ==
  answer.status = "unknown" \/ (answer.status = "ok" /\ \A a \in answer.addrs : ~blockedWithEmbedded(a))

CheckName(f) ==
  /\ Checking /\ f \in pending /\ f.kind = "name" /\ ~hostAllowed(f)
  /\ Looked(f.is).status # "failing"
  /\ Remember({f.is})
  /\ IF NamePasses(Looked(f.is)) THEN Passes(f) ELSE Refuses
  /\ UNCHANGED <<w, dns, changes, ctx, said, host, hops, decision, targets, history>>

\* lookupFailureAllowed: a lookup that fails otherwise passes only if that of a
\* well-known name fails too.  A context that is done passes as well.
FailureAllowed == Looked(ProbeName).status # "ok"

CheckFailed(f) ==
  /\ Checking /\ f \in pending /\ f.kind = "name" /\ ~hostAllowed(f)
  /\ Looked(f.is).status = "failing"
  /\ IF FailureAllowed THEN Passes(f) ELSE Refuses
  /\ Remember({f.is, ProbeName})
  /\ UNCHANGED <<w, dns, changes, ctx, said, host, hops, decision, targets, history>>

\* The lookup fails because the context is done.
CheckCancelled(f) ==
  /\ Checking /\ f \in pending /\ f.kind = "name" /\ ~hostAllowed(f) /\ ctx = "done"
  /\ Passes(f)
  /\ UNCHANGED <<w, network, host, hops, decision, targets, history>>

\* Fault: the check is left after any number of spellings.
CheckDone_Early ==
  /\ Checking
  /\ Goto(IF pc = "prechecking" THEN "send" ELSE "toProxy")
  /\ UNCHANGED <<w, network, host, hops, pending, decision, targets, history>>

CheckDone ==
  /\ Checking /\ pending = {}
  /\ Goto(IF pc = "prechecking" THEN "send" ELSE "toProxy")
  /\ UNCHANGED <<w, network, host, hops, pending, decision, targets, history>>

-----------------------------------------------------------------------------
(***************************************************************************)
(* A request: the transport's Proxy function, then its DialContext.        *)
(***************************************************************************)
\* Fault: the decision lives as long as the transport.
Send_KeepsDecision ==
  /\ pc = "send"
  /\ IF EnvProxyApplies
     THEN StartCheck("toProxy")
     ELSE Goto(IF w.fixed THEN "toProxy" ELSE "dial") /\ UNCHANGED pending
  /\ UNCHANGED <<w, network, host, hops, decision, targets, history>>

\* envProxyTransport.RoundTrip starts with a decision of its own, and the Proxy
\* function makes it.
Send ==
  /\ pc = "send"
  /\ decision' = "direct"
  /\ IF EnvProxyApplies
     THEN StartCheck("toProxy")
     ELSE Goto(IF w.fixed THEN "toProxy" ELSE "dial") /\ UNCHANGED pending
  /\ UNCHANGED <<w, network, host, hops, targets, history>>

\* Fault: the dial to the proxy is guarded like any other.
ToProxy_Guarded ==
  /\ pc = "toProxy"
  /\ decision' = IF w.fixed THEN "direct" ELSE "proxied"
  /\ IF Blocked(w.proxyAddr)
     THEN Ends("refused") /\ UNCHANGED history
     ELSE /\ Goto("answer") /\ UNCHANGED conns
          /\ handed' = handed \cup {[host |-> host, fixed |-> w.fixed, ctx |-> ctx]}
  /\ UNCHANGED <<w, network, host, hops, pending, targets>>

\* The request goes to a proxy; its address is exempt from the guard, by the
\* decision or, for a configured proxy, by name.
ToProxy ==
  /\ pc = "toProxy"
  /\ decision' = IF w.fixed THEN "direct" ELSE "proxied"
  /\ handed' = handed \cup {[host |-> host, fixed |-> w.fixed, ctx |-> ctx]}
  /\ Goto("answer")
  /\ UNCHANGED <<w, network, host, hops, pending, targets, conns>>

\* The dialer resolves the host.  A number may be read as any address.
Resolved(f) ==
  CASE f.kind = "literal" -> {{f.is}}
    [] f.kind = "numeric" -> {{a} : a \in Addresses}
    [] f.kind = "name" -> IF dns[f.is].status = "ok" THEN {dns[f.is].addrs} ELSE {}

Dial ==
  /\ pc = "dial" /\ Convertible(host) /\ ctx = "live"
  /\ \E addrs \in Resolved(Dialed(host)) : targets' = addrs
  /\ Goto("connect")
  /\ UNCHANGED <<w, network, host, hops, pending, decision, history>>

DialFails ==
  /\ pc = "dial"
  /\ Convertible(host) => ctx = "done" \/ Dialed(host).kind # "literal"
  /\ Ends("unreachable")
  /\ UNCHANGED <<w, network, host, hops, pending, decision, targets, history>>

\* Control runs on every address before it is connected to, unless the dial is
\* exempt.
Guarded == Enabled /\ decision = "direct" /\ ~hostAllowed(Dialed(host))

Connect(a) ==
  /\ pc = "connect" /\ a \in targets /\ ~(Guarded /\ Blocked(a))
  /\ conns' = conns \cup {[host |-> host, addr |-> a]}
  /\ Goto("answer")
  /\ UNCHANGED <<w, network, host, hops, pending, decision, targets, handed>>

ConnectRefused ==
  /\ pc = "connect" /\ targets # {}
  /\ Guarded /\ \A a \in targets : Blocked(a)
  /\ Ends("refused")
  /\ UNCHANGED <<w, network, host, hops, pending, decision, targets, history>>

\* An address is refused or does not answer, and the dialer tries another.
Skip(a) ==
  /\ pc = "connect" /\ a \in targets
  /\ targets' = targets \ {a}
  /\ UNCHANGED <<w, network, pc, host, hops, pending, decision, history, result>>

ConnectFails ==
  /\ pc = "connect" /\ targets = {} /\ Ends("unreachable")
  /\ UNCHANGED <<w, network, host, hops, pending, decision, targets, history>>

\* The server answers, with a redirect perhaps.
Redirect ==
  /\ pc = "answer" /\ hops < MaxHops
  /\ hops' = hops + 1 /\ host' \in Hosts /\ Goto("send")
  /\ UNCHANGED <<w, network, pending, decision, targets, history>>

Respond ==
  /\ pc = "answer" /\ Ends(IF ctx = "live" THEN "fetched" ELSE "unreachable")
  /\ UNCHANGED <<w, network, host, hops, pending, decision, targets, history>>

-----------------------------------------------------------------------------
Returned == pc = "done" /\ UNCHANGED vars

Next ==
  \/ (\E n \in Names : DnsChange(n) \/ Expire(n)) \/ Cancel
  \/ CheckHost \/ PrecheckProxied
  \/ (\E f \in pending : CheckLiteral(f) \/ CheckName(f) \/ CheckFailed(f) \/ CheckCancelled(f))
  \/ CheckDone \/ Send \/ ToProxy
  \/ Dial \/ DialFails \/ (\E a \in targets : Connect(a) \/ Skip(a))
  \/ ConnectRefused \/ ConnectFails
  \/ Redirect \/ Respond
  \/ Returned

Spec == Init /\ [][Next]_vars

-----------------------------------------------------------------------------
(***************************************************************************)
(* Properties.                                                             *)
(***************************************************************************)
Spellings(h) == {asciiForms[h][k] : k \in 1..Len(asciiForms[h])}

\* Every variable keeps to its type, and a check is left only when no spelling
\* of the host is still to be checked.
TypeOK ==
  /\ w \in World /\ ctx \in {"live", "done"}
  /\ dns \in [Names -> Answer] /\ changes \in 0..MaxChanges
  /\ said \in [Names -> SUBSET Answer]
  /\ DOMAIN cache \subseteq Names /\ cache \in [DOMAIN cache -> Answer]
  /\ pc \in {"precheck", "prechecking", "send", "checking", "toProxy", "dial",
             "connect", "answer", "done"}
  /\ host \in Hosts /\ hops \in 0..MaxHops
  /\ pending \subseteq Form /\ (pending # {} => Checking \/ pc = "done")
  /\ decision \in {"direct", "proxied"} /\ targets \subseteq Addresses
  /\ conns \subseteq [host : Hosts, addr : Addresses]
  /\ handed \subseteq [host : Hosts, fixed : BOOLEAN, ctx : {"live", "done"}]
  /\ result \in {"none", "fetched", "refused", "unreachable"}

\* No connection is made to a blocked address, except for a host that is on the
\* allow list: whatever DNS said when the host was checked and says when it is
\* dialed, wherever redirects lead, and though the same transport dials a proxy
\* without a check ("this is what gives DNS-rebinding and redirect safety",
\* ssrf.go:275-278).
GuardedDial ==
  \A c \in conns : Blocked(c.addr) => hostAllowed(Dialed(c.host))

\* A request is handed to the proxy of the environment only when every spelling
\* of its host that the proxy may receive passed: each is on the allow list, is
\* the literal of an address that is not blocked, or is a name of which DNS has
\* said that it has no blocked address or that it is unknown, or whose lookup
\* failed when that of the well-known name did.  A cancelled request is let
\* through unchecked (proxied.go:152).
ProxiedTargetsChecked ==
  \A r \in handed : Enabled /\ ~r.fixed /\ r.ctx = "live" =>
    \A f \in Spellings(r.host) :
      \/ hostAllowed(f)
      \/ f.kind = "literal" /\ ~blockedWithEmbedded(f.is)
      \/ f.kind = "name" /\ \E answer \in said[f.is] :
           /\ answer.status = "ok" => \A a \in answer.addrs : ~blockedWithEmbedded(a)
           /\ answer.status = "failing" => \E p \in said[ProbeName] : p.status # "ok"

\* A fetch is refused for a cause that lies in the host at hand: its spelling, or
\* something DNS said of it.  In particular a proxy on a private address is
\* reached (envproxy.go:30-32), and a fetch refused says nothing of earlier hosts.
RefusedForCause ==
  result = "refused" =>
    \/ ~ASCII(host)
    \/ \E f \in Spellings(host) :
         \/ f.kind = "numeric"
         \/ f.kind = "literal" /\ blockedWithEmbedded(f.is)
         \/ f.kind = "name" /\ ctx = "done"
         \/ f.kind = "name" /\ \E answer \in said[f.is] :
              answer.status = "ok" => \E a \in answer.addrs : blockedWithEmbedded(a)

=============================================================================
