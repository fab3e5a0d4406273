------------------------- MODULE GuardedFetchProofs -------------------------
(***************************************************************************)
(* No connection to a blocked address, no unchecked request to a proxy and *)
(* no refusal without a cause, for every set of hosts, spellings, names,   *)
(* answers and settings and any number of redirects and changes of DNS.    *)
(***************************************************************************)
EXTENDS GuardedFetch, TLAPS

\* A dial that is not for a proxy runs with a decision that says so: the Proxy
\* function of the same request made it, however the requests before went.
DecisionFresh == pc \in {"dial", "connect"} => decision = "direct"

DialInv == DecisionFresh /\ GuardedDial

\* While the settings stay, so does what the guard says of an address and a host.
LEMMA GuardConstant ==
  ASSUME w' = w
  PROVE  /\ \A a : Blocked(a)' <=> Blocked(a)
         /\ \A h : hostAllowed(Dialed(h))' <=> hostAllowed(Dialed(h))
  BY DEF Blocked, Enabled, hostAllowed, Dialed

\* Nothing has been dialed at first.
LEMMA DialInit == Init => DialInv
  BY DEF Init, DialInv, DecisionFresh, GuardedDial

\* A step that leaves the connections alone keeps them guarded.
LEMMA ConnsKept ==
  ASSUME GuardedDial, w' = w, conns' = conns
  PROVE  GuardedDial'
  BY GuardConstant DEF GuardedDial

\* Every step keeps the decisions fresh and the connections guarded.
LEMMA DialStep == DialInv /\ [Next]_vars => DialInv'
<1> SUFFICES ASSUME DialInv, [Next]_vars PROVE DialInv'
  OBVIOUS
<1> USE DEF DialInv, DecisionFresh, Goto, Ends, network, history
<1>1. ASSUME NEW n \in Names, DnsChange(n) PROVE DialInv'
  BY <1>1, ConnsKept DEF DnsChange
<1>2. ASSUME NEW n \in Names, Expire(n) PROVE DialInv'
  BY <1>2, ConnsKept DEF Expire
<1>3. CASE Cancel
  BY <1>3, ConnsKept DEF Cancel
<1>4. CASE CheckHost
  BY <1>4, ConnsKept DEF CheckHost
<1>5. CASE PrecheckProxied
  BY <1>5, ConnsKept DEF PrecheckProxied, StartCheck
<1>6. ASSUME NEW f \in pending,
             CheckLiteral(f) \/ CheckName(f) \/ CheckFailed(f) \/ CheckCancelled(f)
      PROVE  DialInv'
  BY <1>6, ConnsKept
     DEF CheckLiteral, CheckName, CheckFailed, CheckCancelled, Passes, Refuses, Checking
<1>7. CASE CheckDone
  BY <1>7, ConnsKept DEF CheckDone
<1>8. CASE Send
  BY <1>8, ConnsKept DEF Send, StartCheck
<1>9. CASE ToProxy
  BY <1>9, ConnsKept DEF ToProxy
<1>10. CASE Dial
  BY <1>10, ConnsKept DEF Dial
<1>11. CASE DialFails
  BY <1>11, ConnsKept DEF DialFails
<1>12. ASSUME NEW a \in targets, Connect(a) PROVE DialInv'
  <2>1. ~Blocked(a) \/ hostAllowed(Dialed(host))
    BY <1>12 DEF Connect, Guarded, Blocked
  <2>2. w' = w /\ conns' = conns \cup {[host |-> host, addr |-> a]}
    BY <1>12 DEF Connect
  <2>3. GuardedDial'
    BY <2>1, <2>2, GuardConstant DEF GuardedDial
  <2> QED
    BY <1>12, <2>3 DEF Connect
<1>13. ASSUME NEW a \in targets, Skip(a) PROVE DialInv'
  BY <1>13, ConnsKept DEF Skip
<1>14. CASE ConnectRefused
  BY <1>14, ConnsKept DEF ConnectRefused
<1>15. CASE ConnectFails
  BY <1>15, ConnsKept DEF ConnectFails
<1>16. CASE Redirect
  BY <1>16, ConnsKept DEF Redirect
<1>17. CASE Respond
  BY <1>17, ConnsKept DEF Respond
<1>18. CASE UNCHANGED vars
  BY <1>18, ConnsKept DEF vars
<1> QED
  BY <1>1, <1>2, <1>3, <1>4, <1>5, <1>6, <1>7, <1>8, <1>9, <1>10, <1>11, <1>12,
     <1>13, <1>14, <1>15, <1>16, <1>17, <1>18 DEF Next, Returned

\* GuardedDial (ssrf.go:285-322, envproxy.go:45-79) holds of every behaviour: a
\* fetch never connects to a blocked address unless its host is allow-listed.
THEOREM GuardedDialCorrect == Spec => []GuardedDial
<1>1. Init => DialInv
  BY DialInit
<1>2. DialInv /\ [Next]_vars => DialInv'
  BY DialStep
<1>3. DialInv => GuardedDial
  BY DEF DialInv
<1> QED
  BY <1>1, <1>2, <1>3, PTL DEF Spec

-----------------------------------------------------------------------------
(***************************************************************************)
(* Types.                                                                  *)
(***************************************************************************)
\* What is known of the spellings of a host.
LEMMA SpellingFacts ==
  ASSUME NEW h \in Hosts, NEW f \in Spellings(h)
  PROVE  /\ f \in Form
         /\ f.kind = "literal" => f.is \in Addresses
         /\ f.kind = "name" => f.is \in Names
  BY HostsAssumption DEF Spellings

\* The spelling that is dialed is one of the host.
LEMMA DialedSpelling ==
  ASSUME NEW h \in Hosts, Convertible(h)
  PROVE  Dialed(h) \in Spellings(h)
<1>1. asciiForms[h] \in Seq(Form) /\ asciiForms[h] # <<>>
  BY HostsAssumption DEF Convertible
<1>2. 1 \in 1..Len(asciiForms[h])
  BY <1>1
<1> QED
  BY <1>2 DEF Dialed, Spellings

\* The spellings still to be checked are those of the host.
PendingHere == pending # {} => pending \subseteq Spellings(host)

TypeInv == TypeOK /\ PendingHere

\* What a spelling resolves to.
LEMMA ResolvedFacts ==
  ASSUME NEW f \in Form, NEW addrs \in Resolved(f)
  PROVE  \/ f.kind = "literal" /\ addrs = {f.is}
         \/ f.kind = "numeric" /\ \E a \in Addresses : addrs = {a}
         \/ f.kind = "name" /\ dns[f.is].status = "ok" /\ addrs = dns[f.is].addrs
<1>1. f.kind \in {"literal", "numeric", "name"}
  BY DEF Form
<1>2. CASE f.kind = "literal"
  BY <1>2 DEF Resolved
<1>3. CASE f.kind = "numeric"
  BY <1>3 DEF Resolved
<1>4. CASE f.kind = "name"
  BY <1>4 DEF Resolved
<1> QED
  BY <1>1, <1>2, <1>3, <1>4

LEMMA TypeInit == Init => TypeInv
  BY AnswersAssumption, WorldsAssumption, BoundsAssumption
     DEF Init, TypeInv, TypeOK, PendingHere, Checking, Answer

\* An answer that is looked up is one, and keeping it keeps the cache one of answers.
LEMMA CacheTyped ==
  ASSUME TypeOK, NEW names \in SUBSET Names, Remember(names)
  PROVE  DOMAIN cache' \subseteq Names /\ cache' \in [DOMAIN cache' -> Answer]
  BY DEF TypeOK, Remember, Looked

\* Every step keeps the types.
LEMMA TypeStep == TypeInv /\ [Next]_vars => TypeInv'
<1> SUFFICES ASSUME TypeInv, [Next]_vars PROVE TypeInv'
  OBVIOUS
<1> USE BoundsAssumption
    DEF TypeInv, TypeOK, PendingHere, Goto, Ends, network, history, Checking, Spellings
<1>1. ASSUME NEW n \in Names, DnsChange(n) PROVE TypeInv'
  BY <1>1, AnswersAssumption DEF DnsChange
<1>2. ASSUME NEW n \in Names, Expire(n) PROVE TypeInv'
  BY <1>2 DEF Expire
<1>3. CASE Cancel
  BY <1>3 DEF Cancel
<1>4. CASE CheckHost
  BY <1>4 DEF CheckHost
<1>5. ASSUME NEW after \in {"send", "toProxy"}, StartCheck(after), pc \in {"precheck", "send"},
             UNCHANGED <<w, network, host, hops, targets, history>>,
             decision' \in {"direct", "proxied"}
      PROVE  TypeInv'
  <2>1. {asciiForms[host][k] : k \in 1..Len(asciiForms[host])} \subseteq Form
    BY HostsAssumption
  <2> QED
    BY <1>5, <2>1 DEF StartCheck
<1>6. CASE PrecheckProxied
  BY <1>5, <1>6 DEF PrecheckProxied
<1>7. ASSUME NEW f \in pending, CheckLiteral(f) \/ CheckCancelled(f) PROVE TypeInv'
  BY <1>7 DEF CheckLiteral, CheckCancelled, Passes, Refuses
<1>8. ASSUME NEW f \in pending, CheckName(f) \/ CheckFailed(f) PROVE TypeInv'
  <2>1. f.is \in Names
    BY <1>8, SpellingFacts DEF CheckName, CheckFailed
  <2>2. DOMAIN cache' \subseteq Names /\ cache' \in [DOMAIN cache' -> Answer]
    BY <1>8, <2>1, CacheTyped, NamesAssumption DEF CheckName, CheckFailed
  <2> QED
    BY <1>8, <2>2 DEF CheckName, CheckFailed, Passes, Refuses
<1>9. CASE CheckDone
  BY <1>9 DEF CheckDone
<1>10. CASE Send
  BY <1>5, <1>10 DEF Send
<1>11. CASE ToProxy
  BY <1>11 DEF ToProxy, World
<1>12. CASE Dial
  <2>1. Dialed(host) \in Spellings(host)
    BY <1>12, DialedSpelling DEF Dial
  <2>2. \A addrs \in Resolved(Dialed(host)) : addrs \subseteq Addresses
    BY <2>1, SpellingFacts, ResolvedFacts DEF Answer
  <2> QED
    BY <1>12, <2>2 DEF Dial
<1>13. CASE DialFails
  BY <1>13 DEF DialFails
<1>14. ASSUME NEW a \in targets, Connect(a) \/ Skip(a) PROVE TypeInv'
  BY <1>14 DEF Connect, Skip
<1>15. CASE ConnectRefused \/ ConnectFails
  BY <1>15 DEF ConnectRefused, ConnectFails
<1>16. CASE Redirect
  BY <1>16 DEF Redirect
<1>17. CASE Respond
  BY <1>17 DEF Respond
<1>18. CASE UNCHANGED vars
  BY <1>18 DEF vars
<1> QED
  BY <1>1, <1>2, <1>3, <1>4, <1>6, <1>7, <1>8, <1>9, <1>10, <1>11, <1>12, <1>13,
     <1>14, <1>15, <1>16, <1>17, <1>18 DEF Next, Returned

\* TypeOK (ssrf.go:194-322, proxied.go:51-163, envproxy.go:45-105) holds of every behaviour; in
\* particular a check is left only when no spelling is still to be checked.
THEOREM TypeCorrect == Spec => []TypeOK
<1>1. TypeInv => TypeOK
  BY DEF TypeInv
<1> QED
  BY <1>1, TypeInit, TypeStep, PTL DEF Spec

-----------------------------------------------------------------------------
(***************************************************************************)
(* What a proxy is handed.                                                 *)
(***************************************************************************)
\* What DNS says, and what is kept of it, is something it has said.
Said ==
  /\ \A n \in Names : dns[n] \in said[n]
  /\ \A n \in DOMAIN cache : cache[n] \in said[n]

\* A spelling that may be handed to a proxy.
Passed(f) ==
  \/ hostAllowed(f)
  \/ f.kind = "literal" /\ ~blockedWithEmbedded(f.is)
  \/ f.kind = "name" /\ \E answer \in said[f.is] :
       /\ answer.status = "ok" => \A a \in answer.addrs : ~blockedWithEmbedded(a)
       /\ answer.status = "failing" => \E p \in said[ProbeName] : p.status # "ok"

\* The check of a live request has passed every spelling it has dealt with, and all
\* of them when the request goes to the proxy.
SpellingsPassed ==
  /\ pc = "checking" /\ ctx = "live" => \A f \in Spellings(host) \ pending : Passed(f)
  /\ pc = "toProxy" /\ ctx = "live" /\ Enabled /\ ~w.fixed => \A f \in Spellings(host) : Passed(f)

ProxiedInv == TypeInv /\ Said /\ SpellingsPassed /\ ProxiedTargetsChecked

\* The answer of a lookup is one DNS has given.
LEMMA LookedSaid ==
  ASSUME Said, NEW n \in Names
  PROVE  Looked(n) \in said[n]
  BY DEF Said, Looked

\* What DNS has said it will always have said, and the settings stay.
LEMMA SaidGrows ==
  ASSUME TypeOK, [Next]_vars
  PROVE  w' = w /\ \A n \in Names : said[n] \subseteq said'[n]
<1> USE DEF network, TypeOK
<1>1. ASSUME NEW n \in Names, DnsChange(n) PROVE w' = w /\ \A m \in Names : said[m] \subseteq said'[m]
  BY <1>1 DEF DnsChange
<1>2. CASE w' = w /\ said' = said
  BY <1>2
<1> QED
  BY <1>1, <1>2
     DEF Next, Returned, vars, Expire, Cancel, CheckHost, PrecheckProxied, CheckLiteral,
         CheckName, CheckFailed, CheckCancelled, CheckDone, Send, ToProxy, Dial, DialFails,
         Connect, Skip, ConnectRefused, ConnectFails, Redirect, Respond

\* Every step keeps what is kept something DNS has said.
LEMMA SaidStep == TypeInv /\ Said /\ [Next]_vars => Said'
<1> SUFFICES ASSUME TypeInv, Said, [Next]_vars PROVE Said'
  OBVIOUS
<1> USE DEF network, TypeInv, TypeOK
<1>1. ASSUME NEW n \in Names, DnsChange(n) PROVE Said'
  BY <1>1 DEF DnsChange, Said
<1>2. ASSUME NEW n \in Names, Expire(n) PROVE Said'
  BY <1>2 DEF Expire, Said
<1>3. ASSUME NEW f \in pending, CheckName(f) \/ CheckFailed(f) PROVE Said'
  <2>1. f.is \in Names
    BY <1>3, SpellingFacts DEF PendingHere, CheckName, CheckFailed
  <2>2. \A n \in DOMAIN cache \cup {f.is, ProbeName} : Looked(n) \in said[n]
    BY <2>1, LookedSaid, NamesAssumption
  <2> QED
    BY <1>3, <2>2 DEF CheckName, CheckFailed, Remember, Said
<1>4. CASE dns' = dns /\ cache' = cache /\ said' = said
  BY <1>4 DEF Said
<1> QED
  BY <1>1, <1>2, <1>3, <1>4
     DEF Next, Returned, vars, Cancel, CheckHost, PrecheckProxied, CheckLiteral,
         CheckCancelled, CheckDone, Send, ToProxy, Dial, DialFails,
         Connect, Skip, ConnectRefused, ConnectFails, Redirect, Respond

\* A spelling that passed has passed for good.
LEMMA PassedKept ==
  ASSUME TypeOK, [Next]_vars, NEW h \in Hosts, NEW f \in Spellings(h), Passed(f)
  PROVE  Passed(f)'
<1>1. w' = w /\ \A n \in Names : said[n] \subseteq said'[n]
  BY SaidGrows
<1>2. f.kind = "name" => f.is \in Names
  BY SpellingFacts
<1>3. \A a : blockedWithEmbedded(a)' <=> blockedWithEmbedded(a)
  BY <1>1 DEF blockedWithEmbedded, Blocked, Enabled
<1> QED
  BY <1>1, <1>2, <1>3, NamesAssumption DEF Passed, hostAllowed

\* A check passes a spelling of a live request only for a reason.
LEMMA PassesPassed ==
  ASSUME TypeInv, Said, ctx = "live", NEW f \in pending,
         CheckLiteral(f) \/ CheckName(f) \/ CheckFailed(f) \/ CheckCancelled(f), pc' # "done"
  PROVE  Passed(f) /\ pending' = pending \ {f} /\ pc' = pc
<1>1. f.kind = "name" => f.is \in Names
  BY SpellingFacts DEF TypeInv, TypeOK, PendingHere
<1>2. CASE CheckLiteral(f)
  BY <1>2 DEF CheckLiteral, Passes, Refuses, Ends, Passed
<1>3. CASE CheckName(f)
  <2>1. NamePasses(Looked(f.is)) /\ f.kind = "name" /\ Looked(f.is).status # "failing"
    BY <1>3 DEF CheckName, Refuses, Ends
  <2>2. Looked(f.is) \in said[f.is]
    BY <1>1, <2>1, LookedSaid
  <2> QED
    BY <1>3, <2>1, <2>2 DEF CheckName, Passes, Passed, NamePasses
<1>4. CASE CheckFailed(f)
  <2>1. FailureAllowed /\ f.kind = "name" /\ Looked(f.is).status = "failing"
    BY <1>4 DEF CheckFailed, Refuses, Ends
  <2>2. Looked(f.is) \in said[f.is] /\ Looked(ProbeName) \in said[ProbeName]
    BY <1>1, <2>1, LookedSaid, NamesAssumption
  <2> QED
    BY <1>4, <2>1, <2>2 DEF CheckFailed, Passes, Passed, FailureAllowed
<1>5. CASE CheckCancelled(f)
  BY <1>5 DEF CheckCancelled
<1> QED
  BY <1>2, <1>3, <1>4, <1>5

\* Every step keeps it so that what was dealt with has passed.
LEMMA SpellingsPassedStep == ProxiedInv /\ [Next]_vars => SpellingsPassed'
<1> SUFFICES ASSUME ProxiedInv, [Next]_vars PROVE SpellingsPassed'
  OBVIOUS
<1> USE DEF ProxiedInv, TypeInv, TypeOK, Goto, Ends, network
<1>1. w' = w
  BY SaidGrows
<1>2. ASSUME host' = host, ctx' = "live" => ctx = "live",
             pc' = "checking" => pc = "checking" /\ pending \subseteq pending',
             pc' = "toProxy" => pc = "toProxy"
      PROVE  SpellingsPassed'
  BY <1>1, <1>2, PassedKept DEF SpellingsPassed, Spellings, Enabled
<1>3. ASSUME NEW f \in pending,
             CheckLiteral(f) \/ CheckName(f) \/ CheckFailed(f) \/ CheckCancelled(f)
      PROVE  SpellingsPassed'
  <2>1. host' = host /\ ctx' = ctx /\ (pc' = "done" \/ pc' = pc) /\ Checking
    BY <1>3 DEF CheckLiteral, CheckName, CheckFailed, CheckCancelled, Passes, Refuses
  <2>2. SUFFICES ASSUME pc = "checking", pc' = "checking", ctx = "live", NEW g \in Spellings(host) \ pending'
                 PROVE  Passed(g)'
    BY <2>1 DEF SpellingsPassed, Spellings, Checking
  <2>3. Passed(f) /\ pending' = pending \ {f}
    BY <1>3, <2>2, PassesPassed
  <2>4. Passed(g)
    BY <2>2, <2>3 DEF SpellingsPassed
  <2> QED
    BY <2>4, PassedKept
<1>4. CASE CheckDone
  <2>1. pc = "checking" /\ ctx = "live" => \A f \in Spellings(host) : Passed(f)
    BY <1>4 DEF CheckDone, SpellingsPassed
  <2> QED
    BY <1>1, <1>4, <2>1, PassedKept DEF CheckDone, SpellingsPassed, Spellings, Enabled, Checking
<1>5. CASE Send
  BY <1>1, <1>5 DEF Send, StartCheck, SpellingsPassed, EnvProxyApplies, Enabled, Spellings
<1>6. CASE PrecheckProxied
  BY <1>6 DEF PrecheckProxied, StartCheck, SpellingsPassed
<1>7. CASE Redirect
  BY <1>7 DEF Redirect, SpellingsPassed
<1> QED
  BY <1>2, <1>3, <1>4, <1>5, <1>6, <1>7
     DEF Next, Returned, vars, DnsChange, Expire, Cancel, CheckHost, ToProxy, Dial,
         DialFails, Connect, Skip, ConnectRefused, ConnectFails, Respond

\* Every step hands over checked hosts only.
LEMMA ProxiedStep == ProxiedInv /\ [Next]_vars => ProxiedTargetsChecked'
<1> SUFFICES ASSUME ProxiedInv, [Next]_vars PROVE ProxiedTargetsChecked'
  OBVIOUS
<1> USE DEF ProxiedInv, TypeInv, TypeOK
<1>1. w' = w
  BY SaidGrows
<1>2. SUFFICES ASSUME NEW r \in handed', Enabled, ~r.fixed, r.ctx = "live",
                      NEW f \in Spellings(r.host)
               PROVE  Passed(f)'
  BY <1>1 DEF ProxiedTargetsChecked, Passed, Enabled, Spellings
<1>3. CASE r \in handed
  <2>1. r.host \in Hosts /\ Passed(f)
    BY <1>2, <1>3 DEF ProxiedTargetsChecked, Passed
  <2> QED
    BY <2>1, PassedKept
<1>4. CASE r \notin handed
  <2>1. ToProxy
    BY <1>4
       DEF Next, Returned, vars, history, DnsChange, Expire, Cancel, CheckHost,
           PrecheckProxied, CheckLiteral, CheckName, CheckFailed, CheckCancelled, CheckDone,
           Send, Dial, DialFails, Connect, Skip, ConnectRefused, ConnectFails, Redirect, Respond
  <2>2. r = [host |-> host, fixed |-> w.fixed, ctx |-> ctx] /\ pc = "toProxy"
    BY <1>4, <2>1 DEF ToProxy
  <2>3. Passed(f)
    BY <1>2, <2>2 DEF SpellingsPassed
  <2> QED
    BY <2>2, <2>3, PassedKept
<1> QED
  BY <1>3, <1>4

\* ProxiedTargetsChecked (proxied.go:51-163, envproxy.go:45-105) holds of every
\* behaviour: no live request reaches the environment's proxy with a spelling of
\* its host unchecked.
THEOREM ProxiedTargetsCheckedCorrect == Spec => []ProxiedTargetsChecked
<1>1. Init => ProxiedInv
  BY TypeInit DEF Init, ProxiedInv, Said, SpellingsPassed, ProxiedTargetsChecked
<1>2. ProxiedInv /\ [Next]_vars => ProxiedInv'
  BY TypeStep, SaidStep, SpellingsPassedStep, ProxiedStep DEF ProxiedInv
<1>3. ProxiedInv => ProxiedTargetsChecked
  BY DEF ProxiedInv
<1> QED
  BY <1>1, <1>2, <1>3, PTL DEF Spec

-----------------------------------------------------------------------------
(***************************************************************************)
(* Why a fetch is refused.                                                 *)
(***************************************************************************)
\* What the dialer tries are addresses that the host is, or that DNS has given.
TargetsSaid ==
  pc = "connect" =>
    /\ Convertible(host)
    /\ Dialed(host).kind = "literal" => targets \subseteq {Dialed(host).is}
    /\ Dialed(host).kind = "name" => \E answer \in said[Dialed(host).is] :
                                       answer.status = "ok" /\ targets \subseteq answer.addrs

\* A fetch with a result is over.
OverWithResult == result # "none" => pc = "done"

RefusedInv == TypeInv /\ Said /\ TargetsSaid /\ OverWithResult /\ RefusedForCause

\* What is blocked is blocked with what it embeds.
LEMMA BlockedEmbedded == \A a : Blocked(a) => blockedWithEmbedded(a)
  BY DEF Blocked, blockedWithEmbedded

\* A spelling is of a kind that CheckHost and CheckProxiedHost know.
LEMMA KindFacts ==
  ASSUME NEW h \in Hosts, NEW f \in Spellings(h)
  PROVE  f.kind \in {"literal", "numeric", "name"}
  BY SpellingFacts DEF Form

\* A host in ASCII can be converted.
LEMMA ASCIIConvertible == \A h \in Hosts : ASCII(h) => Convertible(h)
<1> SUFFICES ASSUME NEW h \in Hosts, h \notin nonASCII PROVE asciiForms[h] # <<>>
  BY DEF ASCII, Convertible
<1>1. Len(asciiForms[h]) = 1
  BY HostsAssumption
<1> QED
  BY <1>1

\* Every step keeps the targets those of the host.
LEMMA TargetsStep == RefusedInv /\ [Next]_vars => TargetsSaid' /\ OverWithResult'
<1> SUFFICES ASSUME RefusedInv, [Next]_vars PROVE TargetsSaid' /\ OverWithResult'
  OBVIOUS
<1> USE DEF RefusedInv, TypeInv, TypeOK, Goto, Ends, network, history, OverWithResult
<1>1. \A n \in Names : said[n] \subseteq said'[n]
  BY SaidGrows
<1>2. Convertible(host) => /\ Dialed(host) \in Form
                           /\ Dialed(host).kind = "name" => Dialed(host).is \in Names
  BY DialedSpelling, SpellingFacts
<1>3. CASE Dial
  <2>1. targets' \in Resolved(Dialed(host)) /\ Convertible(host) /\ pc' = "connect" /\ result' = result
    BY <1>3 DEF Dial
  <2>2. host' = host /\ said' = said /\ pc = "dial"
    BY <1>3 DEF Dial
  <2>3. Dialed(host).kind = "name" => dns[Dialed(host).is] \in said[Dialed(host).is]
    BY <1>2, <2>1 DEF Said
  <2>4. \/ Dialed(host).kind = "literal" /\ targets' = {Dialed(host).is}
        \/ Dialed(host).kind = "numeric"
        \/ Dialed(host).kind = "name" /\ dns[Dialed(host).is].status = "ok"
             /\ targets' = dns[Dialed(host).is].addrs
    BY <1>2, <2>1, ResolvedFacts
  <2> QED
    BY <2>1, <2>2, <2>3, <2>4 DEF TargetsSaid, Convertible, Dialed
<1>4. ASSUME host' = host, targets' \subseteq targets, pc' = "connect" => pc = "connect"
      PROVE  TargetsSaid'
  BY <1>1, <1>2, <1>4 DEF TargetsSaid, Convertible, Dialed
<1>5. ASSUME pc' # "connect" PROVE TargetsSaid'
  BY <1>5 DEF TargetsSaid
<1>6. CASE CheckHost \/ PrecheckProxied \/ Send
  BY <1>5, <1>6 DEF CheckHost, PrecheckProxied, Send, StartCheck
<1>7. ASSUME NEW f \in pending,
             CheckLiteral(f) \/ CheckName(f) \/ CheckFailed(f) \/ CheckCancelled(f)
      PROVE  TargetsSaid' /\ OverWithResult'
  BY <1>5, <1>7 DEF CheckLiteral, CheckName, CheckFailed, CheckCancelled, Passes, Refuses, Checking
<1>8. CASE CheckDone \/ ToProxy \/ Redirect \/ Respond \/ DialFails \/ ConnectFails \/ ConnectRefused
  BY <1>5, <1>8 DEF CheckDone, ToProxy, Redirect, Respond, DialFails, ConnectFails, ConnectRefused, Checking
<1>9. ASSUME NEW a \in targets, Connect(a) \/ Skip(a) PROVE TargetsSaid' /\ OverWithResult'
  BY <1>4, <1>5, <1>9 DEF Connect, Skip
<1>10. ASSUME NEW n \in Names, DnsChange(n) \/ Expire(n) PROVE TargetsSaid' /\ OverWithResult'
  BY <1>4, <1>10 DEF DnsChange, Expire
<1>11. CASE Cancel
  BY <1>4, <1>11 DEF Cancel
<1>12. CASE UNCHANGED vars
  BY <1>4, <1>12 DEF vars
<1> QED
  BY <1>3, <1>6, <1>7, <1>8, <1>9, <1>10, <1>11, <1>12 DEF Next, Returned

\* A refusal has a cause when it is made.
LEMMA RefusalCause ==
  ASSUME RefusedInv, [Next]_vars, result # "refused", result' = "refused"
  PROVE  RefusedForCause'
<1> USE DEF RefusedInv, TypeInv, TypeOK, Goto, Ends, network, history
<1>1. w' = w /\ \A a : blockedWithEmbedded(a)' <=> blockedWithEmbedded(a)
  BY SaidGrows DEF blockedWithEmbedded, Blocked, Enabled
<1>h. host \in Hosts
  OBVIOUS
<1>2. ASSUME host' = host, ctx' = ctx, said' = said, ~ASCII(host)
      PROVE  RefusedForCause'
  BY <1>2 DEF RefusedForCause, ASCII
<1>3. ASSUME host' = host, ctx' = ctx, said' = said, NEW f \in Spellings(host),
             \/ f.kind = "numeric"
             \/ f.kind = "literal" /\ blockedWithEmbedded(f.is)
             \/ f.kind = "name" /\ ctx = "done"
             \/ f.kind = "name" /\ \E answer \in said[f.is] :
                  answer.status = "ok" => \E a \in answer.addrs : blockedWithEmbedded(a)
      PROVE  RefusedForCause'
  BY <1>1, <1>3 DEF RefusedForCause, Spellings
<1>4. CASE CheckHost
  <2>1. host' = host /\ ctx' = ctx /\ said' = said
    BY <1>4 DEF CheckHost
  <2>2. SUFFICES ASSUME ASCII(host) PROVE RefusedForCause'
    BY <1>2, <2>1
  <2> DEFINE f == Dialed(host)
  <2>3. ~Checked(f)
    BY <1>4, <2>2 DEF CheckHost
  <2>4. Convertible(host)
    BY <1>h, <2>2, ASCIIConvertible
  <2>5. f \in Spellings(host) /\ f.kind \in {"literal", "numeric", "name"}
    BY <2>4, DialedSpelling, KindFacts
  <2>6. f.kind = "literal" => blockedWithEmbedded(f.is)
    BY <2>3, BlockedEmbedded DEF Checked
  <2>7. f.kind = "name" /\ ctx = "live" =>
          dns[f.is] \in said[f.is] /\ ~HostPasses(dns[f.is])
    BY <2>3, <2>5, SpellingFacts DEF Checked, Said
  <2>8. f.kind = "name" /\ ctx = "live" => \E answer \in said[f.is] :
          answer.status = "ok" => \E a \in answer.addrs : blockedWithEmbedded(a)
    BY <2>7, BlockedEmbedded DEF HostPasses
  <2> QED
    BY <1>3, <2>1, <2>5, <2>6, <2>8
<1>5. CASE PrecheckProxied \/ Send
  <2>1. host' = host /\ ctx' = ctx /\ said' = said /\ ~Convertible(host)
    BY <1>5 DEF PrecheckProxied, Send, StartCheck
  <2> QED
    BY <1>h, <1>2, <2>1, ASCIIConvertible
<1>6. ASSUME NEW f \in pending,
             CheckLiteral(f) \/ CheckName(f) \/ CheckFailed(f) \/ CheckCancelled(f)
      PROVE  RefusedForCause'
  <2>1. host' = host /\ ctx' = ctx /\ said' = said
    BY <1>6 DEF CheckLiteral, CheckName, CheckFailed, CheckCancelled
  <2>2. f \in Spellings(host) /\ f.kind \in {"literal", "numeric", "name"}
    BY KindFacts DEF PendingHere
  <2>3. CASE CheckLiteral(f)
    BY <1>3, <2>1, <2>2, <2>3 DEF CheckLiteral, Passes
  <2>4. CASE CheckName(f)
    <3>1. f.kind = "name" /\ Looked(f.is).status # "failing" /\ ~NamePasses(Looked(f.is))
      BY <2>4 DEF CheckName, Passes
    <3>2. Looked(f.is) \in said[f.is]
      BY <2>2, <3>1, SpellingFacts, LookedSaid
    <3> QED
      BY <1>3, <2>1, <2>2, <3>1, <3>2 DEF NamePasses
  <2>5. CASE CheckFailed(f)
    <3>1. f.kind = "name" /\ Looked(f.is).status = "failing"
      BY <2>5 DEF CheckFailed
    <3>2. Looked(f.is) \in said[f.is]
      BY <2>2, <3>1, SpellingFacts, LookedSaid
    <3> QED
      BY <1>3, <2>1, <2>2, <3>1, <3>2
  <2>6. CASE CheckCancelled(f)
    BY <2>6 DEF CheckCancelled, Passes
  <2> QED
    BY <1>6, <2>3, <2>4, <2>5, <2>6
<1>7. CASE ConnectRefused
  <2> DEFINE f == Dialed(host)
  <2>1. /\ host' = host /\ ctx' = ctx /\ said' = said /\ pc = "connect"
        /\ targets # {} /\ \A a \in targets : Blocked(a)
    BY <1>7 DEF ConnectRefused
  <2>2. f \in Spellings(host) /\ f.kind \in {"literal", "numeric", "name"}
    BY <2>1, DialedSpelling, KindFacts DEF TargetsSaid
  <2>3. PICK a \in targets : blockedWithEmbedded(a)
    BY <2>1, BlockedEmbedded
  <2>4. /\ f.kind = "literal" => a = f.is
        /\ f.kind = "name" => \E answer \in said[f.is] : a \in answer.addrs
    BY <2>1, <2>3 DEF TargetsSaid
  <2> QED
    BY <1>3, <2>1, <2>2, <2>3, <2>4
<1> QED
  BY <1>4, <1>5, <1>6, <1>7
     DEF Next, Returned, vars, DnsChange, Expire, Cancel, CheckDone, ToProxy, Dial,
         DialFails, Connect, Skip, ConnectFails, Redirect, Respond

\* After a refusal nothing happens any more.
LEMMA RefusedStep == RefusedInv /\ [Next]_vars => RefusedForCause'
<1> SUFFICES ASSUME RefusedInv, [Next]_vars, result' = "refused" PROVE RefusedForCause'
  BY DEF RefusedForCause
<1>1. CASE result # "refused"
  BY <1>1, RefusalCause
<1>2. CASE result = "refused"
  <2>1. pc = "done"
    BY <1>2 DEF RefusedInv, OverWithResult
  <2>2. UNCHANGED vars
    BY <2>1
       DEF Next, Returned, DnsChange, Expire, Cancel, CheckHost, PrecheckProxied, Checking,
           CheckLiteral, CheckName, CheckFailed, CheckCancelled, CheckDone, Send, ToProxy,
           Dial, DialFails, Connect, Skip, ConnectRefused, ConnectFails, Redirect, Respond
  <2>3. w' = w /\ host' = host /\ ctx' = ctx /\ said' = said /\ result' = result
    BY <2>2 DEF vars, network
  <2> QED
    BY <1>2, <2>3
       DEF RefusedInv, RefusedForCause, ASCII, Spellings, blockedWithEmbedded, Blocked, Enabled
<1> QED
  BY <1>1, <1>2

\* RefusedForCause (ssrf.go:194-233, 307-322, proxied.go:51-163) holds of
\* every behaviour: no fetch is refused for what another host or a proxy is.
THEOREM RefusedForCauseCorrect == Spec => []RefusedForCause
<1>1. Init => RefusedInv
  BY TypeInit
     DEF Init, RefusedInv, Said, TargetsSaid, OverWithResult, RefusedForCause
<1>2. RefusedInv /\ [Next]_vars => RefusedInv'
  BY TypeStep, SaidStep, TargetsStep, RefusedStep DEF RefusedInv
<1>3. RefusedInv => RefusedForCause
  BY DEF RefusedInv
<1> QED
  BY <1>1, <1>2, <1>3, PTL DEF Spec

=============================================================================
