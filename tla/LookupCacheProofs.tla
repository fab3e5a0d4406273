-------------------------- MODULE LookupCacheProofs --------------------------
(***************************************************************************)
(* Proofs about LookupCache, for any number of callers, hosts and requests *)
(* and any lifetimes.                                                      *)
(***************************************************************************)
EXTENDS LookupCache, FiniteSetTheorems, TLAPS

\* What the inflight map holds is a call that is running for that host ...
InflightRuns ==
  \A h \in Hosts :
    inflight[h] # NoCall => Running(inflight[h]) /\ call[inflight[h]].host = h

\* ... and every running call is in it.
RunningRegistered == \A k \in Calls : Running(k) => inflight[call[k].host] = k

\* A request that has started no call leaves the name of its call unused.
NamesUnused ==
  \A c \in Callers, m \in 1..MaxRequests :
    (m > caller[c].n \/ (m = caller[c].n /\ caller[c].pc = "entering"))
      => call[<<c, m>>].st = "free"

\* A caller in lookup is in one of its requests.
RequestOpen ==
  \A c \in Callers : caller[c].pc # "idle" => caller[c].n \in 1..MaxRequests

\* A cached answer is the answer of a call for that host.
EntriesAnswered ==
  \A h \in Hosts :
    entries[h] # Nothing =>
      \E k \in Calls : /\ call[k].st \in {"stored", "closed"}
                       /\ call[k].host = h
                       /\ call[k].res = entries[h]

\* Nobody has asked in the future.
SinceNow == \A c \in Callers : caller[c].since <= now

\* A waiting caller waits on a call for its host that had not been stored when
\* the caller asked.
WaitersServed ==
  \A c \in Callers :
    caller[c].pc = "waiting" =>
      /\ caller[c].on \in Calls
      /\ call[caller[c].on].st # "free"
      /\ call[caller[c].on].host = caller[c].host
      /\ Running(caller[c].on) \/ caller[c].since <= call[caller[c].on].stored

RegistryInv == InflightRuns /\ RunningRegistered /\ NamesUnused /\ RequestOpen

ServiceInv == EntriesAnswered /\ SinceNow /\ WaitersServed /\ ServedCurrent

-----------------------------------------------------------------------------
\* The value for "no call in flight" names no call.
LEMMA NoCallNotCall == NoCall \notin Calls
BY DEF NoCall, Calls

\* Records start with a host that is one.
LEMMA AnyHostIsHost == AnyHost \in Hosts
BY HostsAssumption DEF AnyHost

\* A lookupResult is neither a missing one nor a context error.
LEMMA ResultNotNothing == Nothing \notin Result /\ Cancelled \notin Result /\ Cancelled # Nothing
BY AddrsAssumption DEF Nothing, Cancelled, Result, Answers

\* The map run stores into is a map of results, cleared or not.
LEMMA EvictedType == TypeOK => Evicted \in [Hosts -> Result \cup {Nothing}]
BY DEF TypeOK, Evicted

\* What run makes of an answer is a lookupResult.
LEMMA ResolvedType == ASSUME TypeOK, NEW out \in Answers
                      PROVE  [out |-> out, expires |-> now + Ttl(out)] \in Result
BY TTLAssumption DEF TypeOK, Ttl, Result, Time

\* The types hold of an empty cache.
LEMMA TypeInit == Init => TypeOK
BY AnyHostIsHost, BoundAssumption DEF Init, TypeOK, Time, CallRecord, CallerRecord

\* One step keeps the types.  The last two conjuncts of TypeOK are disturbed only
\* where a call answers and where a caller returns.
LEMMA TypeStep == TypeOK /\ RequestOpen /\ WaitersServed /\ [Next]_vars => TypeOK'
<1> SUFFICES ASSUME TypeOK, RequestOpen, WaitersServed, [Next]_vars PROVE TypeOK'
  OBVIOUS
<1>t. /\ caller \in [Callers -> CallerRecord]
      /\ inflight \in [Hosts -> Calls \cup {NoCall}]
      /\ \A c \in Callers : caller[c] \in CallerRecord /\ caller[c].host \in Hosts
  BY DEF TypeOK, CallerRecord
<1> USE DEF TypeOK
<1>1. ASSUME NEW c \in Callers, NEW h \in Hosts, Lookup(c, h) PROVE TypeOK'
  <2>1. caller'[c] \in CallerRecord /\ caller'[c].pc = "entering"
    BY <1>1, BoundAssumption DEF Lookup, CallerRecord
  <2>2. QED BY <1>1, <2>1 DEF Lookup
<1>2. ASSUME NEW c \in Callers, Cancel(c) PROVE TypeOK'
  <2>1. caller'[c] \in CallerRecord /\ caller'[c].pc # "returned"
    BY <1>2 DEF Cancel, CallerRecord
  <2>2. QED BY <1>2, <2>1 DEF Cancel
<1>3. ASSUME NEW c \in Callers, GiveUp(c) PROVE TypeOK'
  <2>0. caller[c] \in CallerRecord
    BY <1>t
  <2> HIDE DEF TypeOK
  <2>1. caller'[c] = [caller[c] EXCEPT !.pc = "returned", !.on = NoCall, !.res = Cancelled]
    BY <1>3, <1>t DEF GiveUp
  <2>2. caller'[c] \in CallerRecord /\ caller'[c].res = Cancelled
    BY <2>0, <2>1 DEF CallerRecord
  <2>3. caller'[c] \in CallerRecord /\ caller'[c].res # Nothing
    BY <2>2, ResultNotNothing
  <2>4. QED BY <1>3, <2>3 DEF GiveUp, TypeOK
<1>4. ASSUME NEW c \in Callers, Hit(c) PROVE TypeOK'
  <2>0. caller[c] \in CallerRecord
    BY <1>t
  <2>1. entries[caller[c].host] \in Result
    BY <1>4, <1>t DEF Hit, Fresh
  <2> HIDE DEF TypeOK
  <2>2. caller'[c] = [caller[c] EXCEPT !.pc = "returned", !.res = entries[caller[c].host]]
    BY <1>4, <1>t DEF Hit
  <2>3. caller'[c] \in CallerRecord /\ caller'[c].res \in Result
    BY <2>0, <2>1, <2>2 DEF CallerRecord
  <2>4. caller'[c] \in CallerRecord /\ caller'[c].res # Nothing
    BY <2>3, ResultNotNothing
  <2>5. QED BY <1>4, <2>4 DEF Hit, TypeOK
<1>5. ASSUME NEW c \in Callers, Join(c) PROVE TypeOK'
  <2>0. caller[c] \in CallerRecord
    BY <1>t
  <2> HIDE DEF TypeOK
  <2>1. inflight[caller[c].host] \in Calls \cup {NoCall}
    BY <1>t
  <2>2. caller'[c] = [caller[c] EXCEPT !.pc = "waiting", !.on = inflight[caller[c].host]]
    BY <1>5, <1>t DEF Join
  <2>3. caller'[c] \in CallerRecord /\ caller'[c].pc # "returned"
    BY <2>0, <2>1, <2>2 DEF CallerRecord
  <2>4. QED BY <1>5, <2>3 DEF Join, TypeOK
<1>6. ASSUME NEW c \in Callers, Start(c) PROVE TypeOK'
  <2>0. caller[c] \in CallerRecord
    BY <1>t
  <2> DEFINE k == <<c, caller[c].n>>
  <2>1. k \in Calls /\ caller[c].host \in Hosts
    BY <1>6 DEF Start, RequestOpen, Calls, CallerRecord
  <2> HIDE DEF k
  <2>c. caller'[c] = [caller[c] EXCEPT !.pc = "waiting", !.on = k]
    BY <1>6, <1>t DEF Start, k
  <2>2. caller'[c] \in CallerRecord /\ caller'[c].pc # "returned"
    <3> HIDE DEF TypeOK
    <3>1. QED BY <2>0, <2>1, <2>c DEF CallerRecord
  <2>3. call'[k] \in CallRecord /\ call'[k].st = "resolving"
    BY <1>6, <2>1 DEF Start, CallRecord, k
  <2>4. QED BY <1>6, <2>1, <2>2, <2>3 DEF Start, k
<1>7. ASSUME NEW c \in Callers, Return(c) PROVE TypeOK'
  <2>0. caller[c] \in CallerRecord
    BY <1>t
  <2>1. call[caller[c].on].res \in Result
    BY <1>7 DEF Return, WaitersServed
  <2> HIDE DEF TypeOK
  <2>2. caller'[c] = [caller[c] EXCEPT !.pc = "returned", !.on = NoCall,
                                       !.res = call[caller[c].on].res]
    BY <1>7, <1>t DEF Return
  <2>3. caller'[c] \in CallerRecord /\ caller'[c].res \in Result
    BY <2>0, <2>1, <2>2 DEF CallerRecord
  <2>4. caller'[c] \in CallerRecord /\ caller'[c].res # Nothing
    BY <2>3, ResultNotNothing
  <2>5. QED BY <1>7, <2>4 DEF Return, TypeOK
<1>8. ASSUME NEW k \in Calls, NEW out \in Answers, Resolve(k, out) PROVE TypeOK'
  <2>1. call'[k] \in CallRecord /\ call'[k].res \in Result
    BY <1>8, ResolvedType DEF Resolve, CallRecord
  <2>2. QED BY <1>8, <2>1 DEF Resolve
<1>9. ASSUME NEW k \in Calls, Store(k) PROVE TypeOK'
  <2>1. call'[k] \in CallRecord /\ call'[k].res \in Result /\ call[k].host \in Hosts
    BY <1>9 DEF Store, CallRecord
  <2>2. entries' \in [Hosts -> Result \cup {Nothing}]
    BY <1>9, <2>1, EvictedType DEF Store
  <2>3. QED BY <1>9, <2>1, <2>2 DEF Store
<1>10. ASSUME NEW k \in Calls, Close(k) PROVE TypeOK'
  <2>1. call'[k] \in CallRecord /\ call'[k].res \in Result
    BY <1>10 DEF Close, CallRecord
  <2>2. QED BY <1>10, <2>1 DEF Close
<1>11. CASE Tick
  BY <1>11, BoundAssumption DEF Tick, Time
<1>12. CASE UNCHANGED vars
  BY <1>12 DEF vars
<1>13. QED
  BY <1>1, <1>2, <1>3, <1>4, <1>5, <1>6, <1>7, <1>8, <1>9, <1>10, <1>11, <1>12
     DEF Next, CallerStep, CallStep

-----------------------------------------------------------------------------
\* Nothing is registered at first.
LEMMA RegistryInit == Init => RegistryInv
BY AnyHostIsHost
   DEF Init, RegistryInv, InflightRuns, RunningRegistered, NamesUnused, RequestOpen, Running,
       Calls

\* One step keeps the inflight map and the running goroutines in agreement.  The
\* store of a call unregisters that very call because the map agreed before.
LEMMA RegistryStep == TypeOK /\ RegistryInv /\ [Next]_vars => RegistryInv'
<1> SUFFICES ASSUME TypeOK, RegistryInv, [Next]_vars PROVE RegistryInv'
  OBVIOUS
<1> USE DEF RegistryInv, InflightRuns, RunningRegistered, NamesUnused, RequestOpen, Running
<1>t. /\ caller \in [Callers -> CallerRecord]
      /\ call \in [Calls -> CallRecord]
      /\ inflight \in [Hosts -> Calls \cup {NoCall}]
      /\ \A k \in Calls : call[k].host \in Hosts
      /\ \A c \in Callers : caller[c].n \in 0..MaxRequests /\ caller[c].host \in Hosts
  BY DEF TypeOK, CallRecord, CallerRecord
<1>1. ASSUME NEW c \in Callers, NEW h \in Hosts, Lookup(c, h) PROVE RegistryInv'
  <2>1. /\ caller'[c].n = caller[c].n + 1 /\ caller'[c].n \in 1..MaxRequests
        /\ \A d \in Callers : d # c => caller'[d] = caller[d]
        /\ call' = call /\ inflight' = inflight
    BY <1>1, <1>t, BoundAssumption DEF Lookup
  <2>2. \A m \in 1..MaxRequests : m >= caller'[c].n => call'[<<c, m>>].st = "free"
    BY <2>1, <1>t
  <2>3. QED BY <2>1, <2>2, <1>t, BoundAssumption
<1>2. ASSUME NEW c \in Callers, Cancel(c) \/ GiveUp(c) \/ Hit(c) \/ Join(c) \/ Return(c)
      PROVE  RegistryInv'
  <2>1. /\ caller'[c].n = caller[c].n
        /\ caller[c].pc \in {"entering", "waiting"}
        /\ caller'[c].pc = "entering" => caller[c].pc = "entering"
        /\ \A d \in Callers : d # c => caller'[d] = caller[d]
        /\ call' = call /\ inflight' = inflight
    BY <1>2, <1>t DEF Cancel, GiveUp, Hit, Join, Return, CallerRecord
  <2>2. QED BY <2>1, <1>t
<1>3. ASSUME NEW c \in Callers, Start(c) PROVE RegistryInv'
  <2> DEFINE k == <<c, caller[c].n>>
             h == caller[c].host
  <2>1. caller[c].n \in 1..MaxRequests /\ k \in Calls /\ h \in Hosts
    BY <1>3, <1>t DEF Start, Calls
  <2>2. call[k].st = "free"
    BY <1>3, <2>1 DEF Start
  <2>3. /\ call'[k].st = "resolving" /\ call'[k].host = h
        /\ \A j \in Calls : j # k => call'[j] = call[j]
    BY <1>3, <2>1, <1>t DEF Start, CallRecord
  <2>4. /\ caller'[c].n = caller[c].n /\ caller'[c].pc = "waiting"
        /\ \A d \in Callers : d # c => caller'[d] = caller[d]
    BY <1>3, <1>t DEF Start, CallerRecord
  <2>5. /\ inflight[h] = NoCall /\ inflight'[h] = k
        /\ \A g \in Hosts : g # h => inflight'[g] = inflight[g]
    BY <1>3, <2>1, <1>t DEF Start
  <2> HIDE DEF k, h
  <2>6. InflightRuns'
    BY <2>1, <2>2, <2>3, <2>5, <1>t
  <2>7. RunningRegistered'
    BY <2>1, <2>2, <2>3, <2>5, <1>t, NoCallNotCall
  <2>8. NamesUnused'
    <3>1. SUFFICES ASSUME NEW d \in Callers, NEW m \in 1..MaxRequests,
                          m > caller'[d].n \/ (m = caller'[d].n /\ caller'[d].pc = "entering")
                   PROVE  call'[<<d, m>>].st = "free"
      BY DEF NamesUnused
    <3>2. <<d, m>> # k
      BY <3>1, <2>1, <2>4, <1>t DEF k
    <3>3. call[<<d, m>>].st = "free"
      BY <3>1, <2>4, <1>t
    <3>4. <<d, m>> \in Calls
      BY DEF Calls
    <3>5. QED BY <3>2, <3>3, <3>4, <2>3
  <2>9. RequestOpen'
    BY <2>1, <2>4
  <2>10. QED BY <2>6, <2>7, <2>8, <2>9
<1>4. ASSUME NEW k \in Calls, (\E out \in Answers : Resolve(k, out)) \/ Close(k)
      PROVE  RegistryInv'
  <2>1. /\ call'[k].host = call[k].host
        /\ Running(k)' <=> Running(k)
        /\ call[k].st # "free"
        /\ \A j \in Calls : j # k => call'[j] = call[j]
        /\ inflight' = inflight /\ caller' = caller
    BY <1>4, <1>t DEF Resolve, Close, CallRecord
  <2>2. \A j \in Calls : (Running(j)' <=> Running(j)) /\ call'[j].host = call[j].host
    BY <2>1
  <2>3. InflightRuns'
    BY <2>1, <2>2, <1>t
  <2>4. RunningRegistered'
    BY <2>1, <2>2, <1>t
  <2>5. NamesUnused'
    <3>1. SUFFICES ASSUME NEW d \in Callers, NEW m \in 1..MaxRequests,
                          m > caller[d].n \/ (m = caller[d].n /\ caller[d].pc = "entering")
                   PROVE  call'[<<d, m>>].st = "free"
      BY <2>1 DEF NamesUnused
    <3>2. <<d, m>> \in Calls /\ call[<<d, m>>].st = "free"
      BY <3>1 DEF Calls
    <3>3. <<d, m>> # k
      BY <3>2, <2>1
    <3>4. QED BY <3>2, <3>3, <2>1
  <2>6. RequestOpen'
    BY <2>1
  <2>7. QED BY <2>3, <2>4, <2>5, <2>6
<1>5. ASSUME NEW k \in Calls, Store(k) PROVE RegistryInv'
  <2> DEFINE h == call[k].host
  <2>1. /\ call'[k].st = "stored" /\ call'[k].host = h /\ Running(k) /\ h \in Hosts
        /\ \A j \in Calls : j # k => call'[j] = call[j]
        /\ caller' = caller
        /\ inflight'[h] = NoCall
        /\ \A g \in Hosts : g # h => inflight'[g] = inflight[g]
    BY <1>5, <1>t DEF Store, CallRecord
  <2>2. inflight[h] = k
    BY <2>1
  <2> HIDE DEF h
  <2>3. InflightRuns'
    BY <2>1, <2>2, <1>t
  <2>4. RunningRegistered'
    <3>1. SUFFICES ASSUME NEW j \in Calls, Running(j)' PROVE inflight'[call'[j].host] = j
      OBVIOUS
    <3>2. j # k
      BY <3>1, <2>1
    <3>3. Running(j) /\ call'[j] = call[j]
      BY <3>1, <3>2, <2>1
    <3>4. QED BY <3>2, <3>3, <2>1, <2>2, <1>t
  <2>5. NamesUnused'
    BY <2>1, <1>t DEF Calls
  <2>6. RequestOpen'
    BY <2>1
  <2>7. QED BY <2>3, <2>4, <2>5, <2>6
<1>6. CASE Tick \/ UNCHANGED vars
  BY <1>6 DEF Tick, vars
<1>7. QED
  BY <1>1, <1>2, <1>3, <1>4, <1>5, <1>6 DEF Next, CallerStep, CallStep

-----------------------------------------------------------------------------
\* Nothing has been served at first.
LEMMA ServiceInit == Init => ServiceInv
BY DEF Init, ServiceInv, EntriesAnswered, SinceNow, WaitersServed, ServedCurrent

\* One step keeps what callers are waiting for, and have been served, current.
LEMMA ServiceStep ==
  TypeOK /\ RegistryInv /\ ServiceInv /\ [Next]_vars => ServiceInv'
<1> SUFFICES ASSUME TypeOK, RegistryInv, ServiceInv, [Next]_vars PROVE ServiceInv'
  OBVIOUS
<1> USE DEF ServiceInv, EntriesAnswered, SinceNow, WaitersServed, ServedCurrent, Running
<1>t. /\ now \in Int
      /\ entries \in [Hosts -> Result \cup {Nothing}]
      /\ caller \in [Callers -> CallerRecord]
      /\ call \in [Calls -> CallRecord]
      /\ \A k \in Calls : call[k].host \in Hosts /\ call[k].stored \in Int
      /\ \A c \in Callers : caller[c].host \in Hosts /\ caller[c].since \in Int
      /\ \A k \in Calls :
           call[k].st \in {"answered", "stored", "closed"} => call[k].res.expires \in Int
  BY DEF TypeOK, CallRecord, CallerRecord, Time, Result
<1>1. ASSUME NEW c \in Callers, NEW h \in Hosts, Lookup(c, h) PROVE ServiceInv'
  <2>1. /\ caller'[c].pc = "entering" /\ caller'[c].since = now
        /\ \A d \in Callers : d # c => caller'[d] = caller[d]
        /\ call' = call /\ entries' = entries /\ now' = now
    BY <1>1, <1>t DEF Lookup
  <2>2. QED BY <2>1, <1>t
<1>2. ASSUME NEW c \in Callers, Cancel(c) PROVE ServiceInv'
  <2>1. /\ caller'[c].pc = caller[c].pc /\ caller'[c].since = caller[c].since
        /\ caller'[c].on = caller[c].on /\ caller'[c].host = caller[c].host
        /\ caller[c].pc # "returned"
        /\ \A d \in Callers : d # c => caller'[d] = caller[d]
        /\ call' = call /\ entries' = entries /\ now' = now
    BY <1>2, <1>t DEF Cancel, CallerRecord
  <2>2. QED BY <2>1, <1>t
<1>3. ASSUME NEW c \in Callers, GiveUp(c) PROVE ServiceInv'
  <2>1. /\ caller'[c].pc = "returned" /\ caller'[c].since = caller[c].since
        /\ caller'[c].res = Cancelled
        /\ \A d \in Callers : d # c => caller'[d] = caller[d]
        /\ call' = call /\ entries' = entries /\ now' = now
    BY <1>3, <1>t DEF GiveUp, CallerRecord
  <2>2. QED BY <2>1, <1>t
<1>4. ASSUME NEW c \in Callers, Hit(c) PROVE ServiceInv'
  <2>1. /\ caller'[c].pc = "returned" /\ caller'[c].since = caller[c].since
        /\ caller'[c].host = caller[c].host /\ caller'[c].res = entries[caller[c].host]
        /\ \A d \in Callers : d # c => caller'[d] = caller[d]
        /\ call' = call /\ entries' = entries /\ now' = now
    BY <1>4, <1>t DEF Hit, CallerRecord
  <2>2. PICK k \in Calls : /\ call[k].st \in {"stored", "closed"}
                           /\ call[k].host = caller[c].host
                           /\ call[k].res = entries[caller[c].host]
    BY <1>4, <1>t DEF Hit, Fresh
  <2>3. caller[c].since < call[k].res.expires
    BY <1>4, <2>2, <1>t DEF Hit, Fresh
  <2>4. QED BY <2>1, <2>2, <2>3, <1>t
<1>5. ASSUME NEW c \in Callers, Join(c) PROVE ServiceInv'
  <2> DEFINE k == inflight[caller[c].host]
  <2>1. /\ caller'[c].pc = "waiting" /\ caller'[c].since = caller[c].since
        /\ caller'[c].host = caller[c].host /\ caller'[c].on = k
        /\ \A d \in Callers : d # c => caller'[d] = caller[d]
        /\ call' = call /\ entries' = entries /\ now' = now
    BY <1>5, <1>t DEF Join, CallerRecord
  <2>2. k \in Calls /\ Running(k) /\ call[k].host = caller[c].host
    BY <1>5, <1>t DEF Join, RegistryInv, InflightRuns, TypeOK
  <2>3. QED BY <2>1, <2>2, <1>t
<1>6. ASSUME NEW c \in Callers, Start(c) PROVE ServiceInv'
  <2> DEFINE k == <<c, caller[c].n>>
  <2>1. caller[c].n \in 1..MaxRequests /\ k \in Calls
    BY <1>6, <1>t DEF Start, Calls, RegistryInv, RequestOpen
  <2>2. call[k].st = "free"
    BY <1>6, <2>1 DEF Start, RegistryInv, NamesUnused
  <2>3. /\ call'[k].st = "resolving" /\ call'[k].host = caller[c].host
        /\ \A j \in Calls : j # k => call'[j] = call[j]
        /\ entries' = entries /\ now' = now
    BY <1>6, <2>1, <1>t DEF Start, CallRecord
  <2>4. /\ caller'[c].pc = "waiting" /\ caller'[c].since = caller[c].since
        /\ caller'[c].host = caller[c].host /\ caller'[c].on = k
        /\ \A d \in Callers : d # c => caller'[d] = caller[d]
    BY <1>6, <1>t DEF Start, CallerRecord
  <2> HIDE DEF k
  <2>5. EntriesAnswered' /\ SinceNow' /\ WaitersServed'
    BY <2>1, <2>2, <2>3, <2>4, <1>t
  <2>6. ServedCurrent'
    BY <2>2, <2>3, <2>4, <1>t
  <2>7. QED BY <2>5, <2>6
<1>7. ASSUME NEW c \in Callers, Return(c) PROVE ServiceInv'
  <2> DEFINE k == caller[c].on
  <2>1. /\ caller'[c].pc = "returned" /\ caller'[c].since = caller[c].since
        /\ caller'[c].host = caller[c].host /\ caller'[c].res = call[k].res
        /\ \A d \in Callers : d # c => caller'[d] = caller[d]
        /\ call' = call /\ entries' = entries /\ now' = now
    BY <1>7, <1>t DEF Return, CallerRecord
  <2>2. /\ k \in Calls /\ call[k].st = "closed" /\ call[k].host = caller[c].host
        /\ caller[c].since <= call[k].stored
    BY <1>7 DEF Return
  <2>3. QED BY <2>1, <2>2, <1>t
<1>8. ASSUME NEW k \in Calls, NEW out \in Answers, Resolve(k, out) PROVE ServiceInv'
  <2>1. /\ call[k].st = "resolving" /\ call'[k].st = "answered"
        /\ call'[k].host = call[k].host
        /\ \A j \in Calls : j # k => call'[j] = call[j]
        /\ caller' = caller /\ entries' = entries /\ now' = now
    BY <1>8, <1>t DEF Resolve, CallRecord
  <2>2. QED BY <2>1, <1>t
<1>9. ASSUME NEW k \in Calls, Store(k) PROVE ServiceInv'
  <2>1. /\ call[k].st = "answered" /\ call'[k].st = "stored" /\ call'[k].stored = now
        /\ call'[k].host = call[k].host /\ call'[k].res = call[k].res
        /\ \A j \in Calls : j # k => call'[j] = call[j]
        /\ caller' = caller /\ now' = now
    BY <1>9, <1>t DEF Store, CallRecord
  <2>2. EntriesAnswered'
    <3>1. SUFFICES ASSUME NEW h \in Hosts, entries'[h] # Nothing
                   PROVE  \E j \in Calls : /\ call'[j].st \in {"stored", "closed"}
                                           /\ call'[j].host = h
                                           /\ call'[j].res = entries'[h]
      OBVIOUS
    <3>2. CASE h = call[k].host
      <4>1. entries'[h] = call[k].res
        BY <1>9, <3>2, <1>t, EvictedType DEF Store
      <4>2. QED BY <4>1, <3>2, <2>1
    <3>3. CASE h # call[k].host
      <4>1. entries'[h] = entries[h]
        BY <1>9, <3>1, <3>3, <1>t, EvictedType DEF Store, Evicted
      <4>2. QED BY <4>1, <3>1, <2>1, <1>t
    <3>4. QED BY <3>2, <3>3
  <2>3. SinceNow' /\ WaitersServed'
    BY <2>1, <1>t
  <2>4. ServedCurrent'
    BY <2>1, <1>t
  <2>5. QED BY <2>2, <2>3, <2>4
<1>10. ASSUME NEW k \in Calls, Close(k) PROVE ServiceInv'
  <2>1. /\ call[k].st = "stored" /\ call'[k].st = "closed"
        /\ call'[k].stored = call[k].stored
        /\ call'[k].host = call[k].host /\ call'[k].res = call[k].res
        /\ \A j \in Calls : j # k => call'[j] = call[j]
        /\ caller' = caller /\ entries' = entries /\ now' = now
    BY <1>10, <1>t DEF Close, CallRecord
  <2>2. EntriesAnswered' /\ SinceNow' /\ WaitersServed'
    BY <2>1, <1>t
  <2>3. ServedCurrent'
    BY <2>1, <1>t
  <2>4. QED BY <2>2, <2>3
<1>11. CASE Tick
  <2>1. now' = now + 1 /\ caller' = caller /\ call' = call /\ entries' = entries
    BY <1>11 DEF Tick
  <2>2. QED BY <2>1, <1>t
<1>12. CASE UNCHANGED vars
  BY <1>12 DEF vars
<1>13. QED
  BY <1>1, <1>2, <1>3, <1>4, <1>5, <1>6, <1>7, <1>8, <1>9, <1>10, <1>11, <1>12
     DEF Next, CallerStep, CallStep

-----------------------------------------------------------------------------
\* The conjunction is inductive: the types need RequestOpen and WaitersServed, the
\* service needs the registry.
LEMMA Inductive == Spec => [](TypeOK /\ RegistryInv /\ ServiceInv)
<1>1. Init => TypeOK /\ RegistryInv /\ ServiceInv
  BY TypeInit, RegistryInit, ServiceInit
<1>2. TypeOK /\ RegistryInv /\ ServiceInv /\ [Next]_vars
        => (TypeOK /\ RegistryInv /\ ServiceInv)'
  BY TypeStep, RegistryStep, ServiceStep DEF RegistryInv, ServiceInv
<1>3. QED BY <1>1, <1>2, PTL DEF Spec

\* The types of lookupCache, its calls and its callers hold for ever, and no caller
\* of lookup returns with the zero result of a call that has not answered.
THEOREM TypeCorrect == Spec => []TypeOK
BY Inductive, PTL

\* Concurrent lookups of one name share a single call, for any number of callers.
THEOREM SingleFlightCorrect == Spec => []SingleFlight
<1>1. TypeOK /\ RegistryInv => SingleFlight
  BY DEF RegistryInv, RunningRegistered, SingleFlight
<1>2. QED BY <1>1, Inductive, PTL

\* What lookup hands out was got for that host and was current when it was asked
\* for, for any number of callers and any lifetimes.
THEOREM ServedCurrentCorrect == Spec => []ServedCurrent
<1>1. ServiceInv => ServedCurrent
  BY DEF ServiceInv
<1>2. QED BY <1>1, Inductive, PTL

-----------------------------------------------------------------------------
\* The map run stores into has room for one more name, or has the name already.
LEMMA EvictedBounded ==
  ASSUME TypeOK, CacheBounded, NEW k \in Calls, Store(k)
  PROVE  CacheBounded'
<1> DEFINE Left == {h \in Hosts : Evicted[h] # Nothing}
<1>1. /\ entries' = [Evicted EXCEPT ![call[k].host] = call[k].res]
      /\ Evicted \in [Hosts -> Result \cup {Nothing}]
  BY EvictedType DEF Store
<1>2. Cached' \subseteq Left \cup {call[k].host}
  BY <1>1 DEF Cached
<1>3. IsFiniteSet(Left) /\ IsFiniteSet(Cached) /\ Cardinality(Cached) \in Nat
  BY HostsAssumption, FS_Subset, FS_CardinalityType DEF Cached
<1>4. Cardinality(Left) \in Nat /\ Cardinality(Left) + 1 <= CacheMax
  <2>1. CASE Cardinality(Cached) >= CacheMax
    <3>1. Left = {}
      BY <2>1 DEF Evicted
    <3>2. QED BY <3>1, FS_EmptySet, CacheMaxAssumption
  <2>2. CASE ~(Cardinality(Cached) >= CacheMax)
    <3>1. Left = Cached
      BY <2>2 DEF Evicted, Cached
    <3>2. Cardinality(Cached) + 1 <= CacheMax
      BY <2>2, <1>3, CacheMaxAssumption
    <3>3. QED BY <3>1, <3>2, <1>3
  <2>3. QED BY <2>1, <2>2
<1>5. /\ IsFiniteSet(Left \cup {call[k].host})
      /\ Cardinality(Left \cup {call[k].host}) \in Nat
      /\ Cardinality(Left \cup {call[k].host}) <= Cardinality(Left) + 1
  <2> HIDE DEF Left
  <2>1. /\ IsFiniteSet(Left \cup {call[k].host})
        /\ Cardinality(Left \cup {call[k].host}) \in {Cardinality(Left), Cardinality(Left) + 1}
    BY <1>3, FS_AddElement
  <2>2. QED BY <2>1, <1>4
<1>6. /\ Cardinality(Cached') <= Cardinality(Left \cup {call[k].host})
      /\ Cardinality(Cached') \in Nat
  BY <1>2, <1>5, FS_Subset, FS_CardinalityType
<1>7. QED BY <1>4, <1>5, <1>6, CacheMaxAssumption DEF CacheBounded, Cached

\* The cache never outgrows lookupCacheMax, for any capacity of at least one.
THEOREM CacheBoundedCorrect == Spec => []CacheBounded
<1>1. Init => CacheBounded
  <2>1. Init => Cached = {}
    BY DEF Init, Cached
  <2>2. QED BY <2>1, FS_EmptySet, CacheMaxAssumption DEF CacheBounded
<1>2. TypeOK /\ CacheBounded /\ [Next]_vars => CacheBounded'
  <2> SUFFICES ASSUME TypeOK, CacheBounded, [Next]_vars PROVE CacheBounded'
    OBVIOUS
  <2>1. CASE \E k \in Calls : Store(k)
    BY <2>1, EvictedBounded
  <2>2. CASE UNCHANGED entries
    BY <2>2 DEF CacheBounded, Cached
  <2>3. QED
    BY <2>1, <2>2
       DEF Next, CallerStep, CallStep, vars, Lookup, Cancel, GiveUp, Hit, Join, Start,
           Return, Resolve, Close, Tick
<1>3. QED BY <1>1, <1>2, TypeCorrect, PTL DEF Spec

-----------------------------------------------------------------------------
\* The steps of the cache, seen through the refinement mapping.
Q == [k \in Calls |-> queryOf(k)]
R == [c \in Callers |-> requestOf(c)]

\* An empty cache is a service nobody has asked.
LEMMA RefinementInit == Init => Service!Init
BY DEF Init, Service!Init, queryOf, requestOf, Calls, Service!Queries, Nothing,
       Service!Nothing, AnyHost, Service!AnyHost

\* Every step of the cache is one of the service, or none.
LEMMA RefinementStep ==
  TypeOK /\ RegistryInv /\ ServiceInv /\ [Next]_vars => [Service!Next]_(Service!svars)
<1> SUFFICES ASSUME TypeOK, RegistryInv, ServiceInv, [Next]_vars
             PROVE  Service!Next \/ (now' = now /\ Q' = Q /\ R' = R)
  BY DEF Service!svars, Q, R
<1>q. Q' = [k \in Calls |-> queryOf(k)'] /\ R' = [c \in Callers |-> requestOf(c)']
  BY DEF Q, R
<1>r. /\ \A j \in Calls : call'[j] = call[j] => queryOf(j)' = queryOf(j)
      /\ \A c \in Callers : caller'[c] = caller[c] => requestOf(c)' = requestOf(c)
  BY DEF queryOf, requestOf
<1>t. /\ caller \in [Callers -> CallerRecord]
      /\ call \in [Calls -> CallRecord]
      /\ \A c \in Callers : caller[c].pc \in {"idle", "entering", "waiting", "returned"}
  BY DEF TypeOK, CallRecord, CallerRecord
<1>1. ASSUME NEW c \in Callers, NEW h \in Hosts, Lookup(c, h) PROVE Service!Next
  <2>1. caller' = [caller EXCEPT ![c] = caller'[c]]
    BY <1>1, <1>t DEF Lookup
  <2>2. requestOf(c)' = [st |-> "asking", n |-> requestOf(c).n + 1, host |-> h,
                         since |-> now, res |-> Nothing]
    BY <1>1, <1>t DEF Lookup, requestOf
  <2>3. requestOf(c).st # "asking" /\ requestOf(c).n < MaxRequests
    BY <1>1 DEF Lookup, requestOf
  <2>4. R' = [R EXCEPT ![c] = requestOf(c)'] /\ Q' = Q
    BY <2>1, <1>1, <1>q, <1>r, <1>t DEF R, Q, Lookup
  <2>5. Service!Ask(c, h)
    BY <2>2, <2>3, <2>4, <1>1 DEF Service!Ask, R, Q, Lookup, Nothing, Service!Nothing
  <2>6. QED BY <2>5 DEF Service!Next
<1>2. ASSUME NEW c \in Callers, Cancel(c) \/ Join(c) PROVE Q' = Q /\ R' = R /\ now' = now
  <2>1. /\ call' = call /\ now' = now
        /\ \A d \in Callers : d # c => caller'[d] = caller[d]
    BY <1>2, <1>t DEF Cancel, Join
  <2>2. requestOf(c)' = requestOf(c)
    BY <1>2, <1>t DEF Cancel, Join, requestOf, CallerRecord
  <2>3. QED BY <2>1, <2>2, <1>q, <1>r DEF Q, R
<1>3. ASSUME NEW c \in Callers, GiveUp(c) PROVE Service!Next
  <2>1. /\ call' = call /\ now' = now
        /\ \A d \in Callers : d # c => caller'[d] = caller[d]
    BY <1>3, <1>t DEF GiveUp
  <2>2. /\ requestOf(c).st = "asking"
        /\ requestOf(c)' = Service!ServedWith(requestOf(c), Cancelled)
    <3>1. /\ caller[c].pc = "waiting" /\ caller'[c].pc = "returned"
          /\ caller'[c].res = Cancelled /\ caller'[c].n = caller[c].n
          /\ caller'[c].host = caller[c].host /\ caller'[c].since = caller[c].since
      BY <1>3, <1>t DEF GiveUp, CallerRecord
    <3>2. QED BY <3>1 DEF requestOf, Service!ServedWith
  <2>3. R' = [R EXCEPT ![c] = requestOf(c)'] /\ Q' = Q
    BY <2>1, <1>q, <1>r DEF R, Q
  <2>4. Service!Abandon(c)
    BY <2>1, <2>2, <2>3 DEF Service!Abandon, R, Q, Cancelled, Service!Cancelled
  <2>5. QED BY <2>4 DEF Service!Next
<1>4. ASSUME NEW c \in Callers, Hit(c) \/ Return(c) PROVE Service!Next
  <2>1. /\ call' = call /\ now' = now
        /\ \A d \in Callers : d # c => caller'[d] = caller[d]
    BY <1>4, <1>t DEF Hit, Return
  <2>2. PICK k \in Calls :
          /\ call[k].st \in {"stored", "closed"}
          /\ call[k].host = caller[c].host
          /\ now < call[k].res.expires \/ caller[c].since <= call[k].stored
          /\ requestOf(c)' = Service!ServedWith(requestOf(c), call[k].res)
    <3>1. CASE Hit(c)
      <4>1. PICK k \in Calls : /\ call[k].st \in {"stored", "closed"}
                               /\ call[k].host = caller[c].host
                               /\ call[k].res = entries[caller[c].host]
        BY <3>1, <1>t DEF Hit, Fresh, ServiceInv, EntriesAnswered, CallerRecord
      <4>2. now < call[k].res.expires
        BY <3>1, <4>1 DEF Hit, Fresh
      <4>3. requestOf(c)' = Service!ServedWith(requestOf(c), call[k].res)
        <5>1. /\ caller[c].pc = "entering" /\ caller'[c].pc = "returned"
              /\ caller'[c].res = call[k].res /\ caller'[c].n = caller[c].n
              /\ caller'[c].host = caller[c].host /\ caller'[c].since = caller[c].since
          BY <3>1, <4>1, <1>t DEF Hit, CallerRecord
        <5>2. QED BY <5>1 DEF requestOf, Service!ServedWith
      <4>4. QED BY <4>1, <4>2, <4>3
    <3>2. CASE Return(c)
      <4> DEFINE k == caller[c].on
      <4>1. /\ k \in Calls /\ call[k].st = "closed" /\ call[k].host = caller[c].host
            /\ caller[c].since <= call[k].stored
        BY <3>2 DEF Return, ServiceInv, WaitersServed, Running
      <4>2. requestOf(c)' = Service!ServedWith(requestOf(c), call[k].res)
        <5>1. /\ caller[c].pc = "waiting" /\ caller'[c].pc = "returned"
              /\ caller'[c].res = call[k].res /\ caller'[c].n = caller[c].n
              /\ caller'[c].host = caller[c].host /\ caller'[c].since = caller[c].since
          BY <3>2, <4>1, <1>t DEF Return, CallerRecord
        <5>2. QED BY <5>1 DEF requestOf, Service!ServedWith
      <4>3. QED BY <4>1, <4>2
    <3>3. QED BY <1>4, <3>1, <3>2
  <2>3. R' = [R EXCEPT ![c] = requestOf(c)'] /\ Q' = Q
    BY <2>1, <1>q, <1>r DEF R, Q
  <2>4. /\ requestOf(c).st = "asking"
        /\ requestOf(c).host = caller[c].host /\ requestOf(c).since = caller[c].since
    BY <1>4, <1>t DEF Hit, Return, requestOf
  <2>5. /\ queryOf(k).st = "retired" /\ queryOf(k).host = call[k].host
        /\ queryOf(k).res = call[k].res /\ queryOf(k).retired = call[k].stored
    BY <2>2 DEF queryOf
  <2>6. Service!Serve(c, k)
    BY <2>1, <2>2, <2>3, <2>4, <2>5 DEF Service!Serve, R, Q
  <2>7. QED BY <2>6 DEF Service!Next, Service!Queries, Calls
<1>5. ASSUME NEW c \in Callers, Start(c) PROVE Service!Next
  <2>1. PICK k \in Calls, h \in Hosts : /\ k = <<c, caller[c].n>> /\ h = caller[c].host
                                       /\ call[k].st = "free"
    BY <1>5, <1>t DEF Start, RegistryInv, RequestOpen, NamesUnused, Calls, CallerRecord
  <2>2. /\ now' = now
        /\ \A d \in Callers : d # c => caller'[d] = caller[d]
        /\ \A j \in Calls : j # k => call'[j] = call[j]
    BY <1>5, <2>1, <1>t DEF Start
  <2>3. requestOf(c)' = requestOf(c) /\ requestOf(c).st = "asking"
        /\ requestOf(c).host = h /\ requestOf(c).n = caller[c].n
    BY <1>5, <2>1, <1>t DEF Start, requestOf, CallerRecord
  <2>4. /\ queryOf(k).st = "none"
        /\ queryOf(k)' = [st |-> "open", host |-> h, res |-> queryOf(k).res,
                           retired |-> queryOf(k).retired]
    <3>1. /\ call'[k].st = "resolving" /\ call'[k].host = h
          /\ call'[k].res = call[k].res /\ call'[k].stored = call[k].stored
      BY <1>5, <2>1, <1>t DEF Start, CallRecord
    <3>2. QED BY <3>1, <2>1 DEF queryOf
  <2>5. \A j \in Calls : queryOf(j).st \in {"open", "answered"} => queryOf(j).host # h
    <3>1. SUFFICES ASSUME NEW j \in Calls, queryOf(j).st \in {"open", "answered"}, call[j].host = h
                   PROVE  FALSE
      BY DEF queryOf
    <3>2. Running(j)
      BY <3>1, <1>t DEF queryOf, Running, CallRecord
    <3>3. inflight[h] = j /\ inflight[h] = NoCall
      BY <3>1, <3>2, <2>1, <1>5 DEF RegistryInv, RunningRegistered, Start
    <3>4. QED BY <3>3, NoCallNotCall
  <2>6. Q' = [Q EXCEPT ![k] = queryOf(k)'] /\ R' = R
    BY <2>1, <2>2, <2>3, <1>q, <1>r DEF Q, R
  <2>q. Q[k] = queryOf(k) /\ R[c] = requestOf(c) /\ k = <<c, R[c].n>> /\ h = R[c].host
    BY <2>1, <2>3 DEF Q, R
  <2>o. \A j \in Calls : Q[j].st \in {"open", "answered"} => Q[j].host # R[c].host
    BY <2>5, <2>q DEF Q
  <2>u. Q' = [Q EXCEPT ![k] = [st |-> "open", host |-> R[c].host, res |-> @.res,
                               retired |-> @.retired]]
    BY <2>4, <2>6, <2>q DEF Q
  <2>7. Service!Open(c)
    <3>1. R[c].st = "asking" /\ Q[<<c, R[c].n>>].st = "none" /\ UNCHANGED <<now, R>>
      BY <2>2, <2>3, <2>4, <2>6, <2>q
    <3>2. \A j \in Service!Queries :
            Q[j].st \in {"open", "answered"} => Q[j].host # R[c].host
      BY <2>o DEF Service!Queries, Calls
    <3>3. Q' = [Q EXCEPT ![<<c, R[c].n>>] =
                  [st |-> "open", host |-> R[c].host, res |-> @.res, retired |-> @.retired]]
      BY <2>u, <2>q
    <3>4. QED BY <3>1, <3>2, <3>3, Zenon DEF Service!Open, Q, R
  <2>8. QED BY <2>7 DEF Service!Next
<1>6. ASSUME NEW k \in Calls, NEW out \in Answers, Resolve(k, out) PROVE Service!Next
  <2>1. /\ caller' = caller /\ now' = now
        /\ \A j \in Calls : j # k => call'[j] = call[j]
    BY <1>6, <1>t DEF Resolve
  <2>2. /\ queryOf(k).st = "open"
        /\ queryOf(k)' = [st |-> "answered", host |-> queryOf(k).host,
                           retired |-> queryOf(k).retired,
                           res |-> [out |-> out, expires |-> now + Ttl(out)]]
    <3>1. /\ call[k].st = "resolving" /\ call'[k].st = "answered"
          /\ call'[k].res = [out |-> out, expires |-> now + Ttl(out)]
          /\ call'[k].host = call[k].host /\ call'[k].stored = call[k].stored
      BY <1>6, <1>t DEF Resolve, CallRecord
    <3>2. QED BY <3>1 DEF queryOf
  <2>3. Q' = [Q EXCEPT ![k] = queryOf(k)'] /\ R' = R
    BY <2>1, <1>q, <1>r DEF Q, R
  <2>4. Service!Answer(k, out)
    BY <2>1, <2>2, <2>3 DEF Service!Answer, Q, R, Ttl, Service!Reuse
  <2>5. QED BY <2>4 DEF Service!Next, Service!Queries, Calls, Answers, Service!Answers
<1>7. ASSUME NEW k \in Calls, Store(k) PROVE Service!Next
  <2>1. /\ caller' = caller /\ now' = now
        /\ \A j \in Calls : j # k => call'[j] = call[j]
    BY <1>7, <1>t DEF Store
  <2>2. /\ queryOf(k).st = "answered"
        /\ queryOf(k)' = [st |-> "retired", host |-> queryOf(k).host,
                           res |-> queryOf(k).res, retired |-> now]
    <3>1. /\ call[k].st = "answered" /\ call'[k].st = "stored"
          /\ call'[k].res = call[k].res /\ call'[k].host = call[k].host
          /\ call'[k].stored = now
      BY <1>7, <1>t DEF Store, CallRecord
    <3>2. QED BY <3>1 DEF queryOf
  <2>3. Q' = [Q EXCEPT ![k] = queryOf(k)'] /\ R' = R
    BY <2>1, <1>q, <1>r DEF Q, R
  <2>4. Service!Retire(k)
    BY <2>1, <2>2, <2>3 DEF Service!Retire, Q, R
  <2>5. QED BY <2>4 DEF Service!Next, Service!Queries, Calls
<1>8. ASSUME NEW k \in Calls, Close(k) PROVE Q' = Q /\ R' = R /\ now' = now
  <2>1. /\ caller' = caller /\ now' = now
        /\ \A j \in Calls : j # k => call'[j] = call[j]
    BY <1>8, <1>t DEF Close
  <2>2. queryOf(k)' = queryOf(k)
    BY <1>8, <1>t DEF Close, queryOf, CallRecord
  <2>3. QED BY <2>1, <2>2, <1>q, <1>r DEF Q, R
<1>9. CASE Tick
  <2>1. Q' = Q /\ R' = R
    BY <1>9, <1>q, <1>r DEF Tick, Q, R
  <2>2. Service!Tick
    BY <1>9, <2>1 DEF Tick, Service!Tick, Q, R
  <2>3. QED BY <2>2 DEF Service!Next
<1>10. CASE UNCHANGED vars
  BY <1>10, <1>q, <1>r DEF vars, Q, R
<1>11. QED
  BY <1>1, <1>2, <1>3, <1>4, <1>5, <1>6, <1>7, <1>8, <1>9, <1>10
     DEF Next, CallerStep, CallStep

\* lookupcache.go implements the lookup service: for every number of callers,
\* hosts and requests, each step of the cache is a step of the service or none.
THEOREM ServiceRefinement == Spec => ImplementsService
<1>1. Init => Service!Init
  BY RefinementInit
<1>2. QED
  BY <1>1, RefinementStep, Inductive, PTL DEF Spec, ImplementsService, Service!ServiceSpec

=============================================================================
