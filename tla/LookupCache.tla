----------------------------- MODULE LookupCache -----------------------------
(***************************************************************************)
(* The shared name-lookup cache of the SSRF guard, ssrf/lookupcache.go.    *)
(*                                                                         *)
(* Callers run lookup concurrently.  A caller either finds a fresh entry,  *)
(* joins the call in flight for its host, or starts one; a call is a       *)
(* goroutine (run) that resolves the name, stores the answer under the     *)
(* mutex and then closes its done channel.  One action is one critical     *)
(* section of mu, or one step between two of them.  A call is named after  *)
(* the request that started it, so names are never reused.                 *)
(***************************************************************************)
EXTENDS Integers, FiniteSets

CONSTANTS
  Callers,      \* goroutines that call lookup
  Hosts,        \* the names they look up
  Addrs,        \* the address lists the resolver can answer with
  TTL,          \* lookupCacheTTL, for an answer and for "no such host"
  ErrTTL,       \* lookupErrorTTL, for any other failure
  CacheMax,     \* lookupCacheMax
  MaxRequests,  \* bound: the lookups one caller makes
  MaxTime       \* bound: the clock

ASSUME TTLAssumption == TTL \in Nat /\ ErrTTL \in Nat /\ ErrTTL <= TTL
ASSUME CacheMaxAssumption == CacheMax \in Nat \ {0}
ASSUME BoundAssumption == MaxRequests \in Nat /\ MaxTime \in Nat
ASSUME HostsAssumption == IsFiniteSet(Hosts) /\ Hosts # {}
ASSUME AddrsAssumption == Addrs \cap {"notfound", "failure", "cancelled", "none"} = {}

VARIABLES
  now,       \* the clock read through c.now()
  entries,   \* lookupCache.entries
  inflight,  \* lookupCache.inflight
  call,      \* every lookupCall and the state of the goroutine that runs it
  caller     \* every caller of lookup

vars == <<now, entries, inflight, call, caller>>

Time == 0..MaxTime
Calls == Callers \X (1..MaxRequests)
NoCall == <<>>
AnyHost == CHOOSE h \in Hosts : TRUE

\* What the resolver can return: addresses, "no such host", another failure.
Answers == Addrs \cup {"notfound", "failure"}

\* A lookupResult.  Nothing and Cancelled are a missing one and ctx.Err().
Result == [out : Answers, expires : Nat]
Nothing == [out |-> "none", expires |-> 0]
Cancelled == [out |-> "cancelled", expires |-> 0]

Ttl(out) == IF out = "failure" THEN ErrTTL ELSE TTL

\* Fault: an entry is served for as long as it is in the map.
Fresh_NoExpiry(h) == entries[h] # Nothing

\* The guard of the first return in lookup: now().Before(r.expires).
Fresh(h) == entries[h] # Nothing /\ now < entries[h].expires

Cached == {h \in Hosts : entries[h] # Nothing}

\* The calls whose answer is not in the cache yet.
Running(k) == call[k].st \in {"resolving", "answered"}

\* A lookupCall, with its goroutine's progress and the time it was stored at.
CallRecord ==
  [st : {"free", "resolving", "answered", "stored", "closed"},
   host : Hosts, res : Result \cup {Nothing}, stored : Time]

\* A caller: its request, when it asked, its context, and the call it waits on.
CallerRecord ==
  [pc : {"idle", "entering", "waiting", "returned"},
   n : 0..MaxRequests, host : Hosts, since : Time, ctx : {"live", "done"},
   on : Calls \cup {NoCall}, res : Result \cup {Nothing, Cancelled}]

-----------------------------------------------------------------------------
Init ==
  /\ now = 0
  /\ entries = [h \in Hosts |-> Nothing]
  /\ inflight = [h \in Hosts |-> NoCall]
  /\ call = [k \in Calls |->
              [st |-> "free", host |-> AnyHost, res |-> Nothing, stored |-> 0]]
  /\ caller = [c \in Callers |->
                [pc |-> "idle", n |-> 0, host |-> AnyHost, since |-> 0,
                 ctx |-> "live", on |-> NoCall, res |-> Nothing]]

\* A caller enters lookup with a context of its own and waits for mu.
Lookup(c, h) ==
  /\ caller[c].pc \in {"idle", "returned"}
  /\ caller[c].n < MaxRequests
  /\ caller' = [caller EXCEPT ![c] =
                  [pc |-> "entering", n |-> @.n + 1, host |-> h, since |-> now,
                   ctx |-> "live", on |-> NoCall, res |-> Nothing]]
  /\ UNCHANGED <<now, entries, inflight, call>>

\* The caller's context is cancelled or runs out.
Cancel(c) ==
  /\ caller[c].pc \in {"entering", "waiting"}
  /\ caller[c].ctx = "live"
  /\ caller' = [caller EXCEPT ![c].ctx = "done"]
  /\ UNCHANGED <<now, entries, inflight, call>>

\* Critical section of lookup, a fresh entry: it is returned at once.
Hit(c) ==
  /\ caller[c].pc = "entering"
  /\ Fresh(caller[c].host)
  /\ caller' = [caller EXCEPT ![c].pc = "returned",
                              ![c].res = entries[caller[c].host]]
  /\ UNCHANGED <<now, entries, inflight, call>>

\* Critical section of lookup, a call is in flight: the caller waits for it.
Join(c) ==
  /\ caller[c].pc = "entering"
  /\ ~Fresh(caller[c].host)
  /\ inflight[caller[c].host] # NoCall
  /\ caller' = [caller EXCEPT ![c].pc = "waiting",
                              ![c].on = inflight[caller[c].host]]
  /\ UNCHANGED <<now, entries, inflight, call>>

\* Fault: the call in flight is not looked for.
Start_NoInflightCheck(c) ==
  LET h == caller[c].host
      k == <<c, caller[c].n>>
  IN  /\ caller[c].pc = "entering"
      /\ ~Fresh(h)
      /\ inflight' = [inflight EXCEPT ![h] = k]
      /\ call' = [call EXCEPT ![k] = [@ EXCEPT !.st = "resolving", !.host = h]]
      /\ caller' = [caller EXCEPT ![c].pc = "waiting", ![c].on = k]
      /\ UNCHANGED <<now, entries>>

\* Critical section of lookup, nothing in flight: the caller registers a call
\* and spawns the goroutine that runs it.
Start(c) ==
  LET h == caller[c].host
      k == <<c, caller[c].n>>
  IN  /\ caller[c].pc = "entering"
      /\ ~Fresh(h)
      /\ inflight[h] = NoCall
      /\ inflight' = [inflight EXCEPT ![h] = k]
      /\ call' = [call EXCEPT ![k] = [@ EXCEPT !.st = "resolving", !.host = h]]
      /\ caller' = [caller EXCEPT ![c].pc = "waiting", ![c].on = k]
      /\ UNCHANGED <<now, entries>>

\* Fault: the result is read without waiting for done.
Return_NoWait(c) ==
  /\ caller[c].pc = "waiting"
  /\ caller' = [caller EXCEPT ![c].pc = "returned", ![c].on = NoCall,
                              ![c].res = call[caller[c].on].res]
  /\ UNCHANGED <<now, entries, inflight, call>>

\* The select of lookup: the call is done.
Return(c) ==
  /\ caller[c].pc = "waiting"
  /\ call[caller[c].on].st = "closed"
  /\ caller' = [caller EXCEPT ![c].pc = "returned", ![c].on = NoCall,
                              ![c].res = call[caller[c].on].res]
  /\ UNCHANGED <<now, entries, inflight, call>>

\* Fault: a caller that gives up takes the shared call out of the map.
GiveUp_Unregisters(c) ==
  /\ caller[c].pc = "waiting"
  /\ caller[c].ctx = "done"
  /\ caller' = [caller EXCEPT ![c].pc = "returned", ![c].on = NoCall,
                              ![c].res = Cancelled]
  /\ inflight' = [inflight EXCEPT ![caller[c].host] = NoCall]
  /\ UNCHANGED <<now, entries, call>>

\* The select of lookup: the caller's own context is done.  With both branches
\* ready either may be taken.
GiveUp(c) ==
  /\ caller[c].pc = "waiting"
  /\ caller[c].ctx = "done"
  /\ caller' = [caller EXCEPT ![c].pc = "returned", ![c].on = NoCall,
                              ![c].res = Cancelled]
  /\ UNCHANGED <<now, entries, inflight, call>>

\* run: the resolver answers (at the latest when the call's own timeout passes,
\* as a failure) and the expiry is computed, before mu is taken.
Resolve(k, out) ==
  /\ call[k].st = "resolving"
  /\ call' = [call EXCEPT ![k].st = "answered",
                          ![k].res = [out |-> out, expires |-> now + Ttl(out)]]
  /\ UNCHANGED <<now, entries, inflight, caller>>

\* Fault: the cache is cleared one entry late.
Evicted_OffByOne == IF Cardinality(Cached) > CacheMax
                    THEN [h \in Hosts |-> Nothing]
                    ELSE entries

\* The map run stores into: a full cache is replaced by an empty one.
Evicted == IF Cardinality(Cached) >= CacheMax
           THEN [h \in Hosts |-> Nothing]
           ELSE entries

\* Critical section of run: the answer is stored, the call unregistered.
Store(k) ==
  /\ call[k].st = "answered"
  /\ entries' = [Evicted EXCEPT ![call[k].host] = call[k].res]
  /\ inflight' = [inflight EXCEPT ![call[k].host] = NoCall]
  /\ call' = [call EXCEPT ![k].st = "stored", ![k].stored = now]
  /\ UNCHANGED <<now, caller>>

\* Fault: done is closed on the success path only.
Close_OnSuccess(k) ==
  /\ call[k].st = "stored"
  /\ call[k].res.out # "failure"
  /\ call' = [call EXCEPT ![k].st = "closed"]
  /\ UNCHANGED <<now, entries, inflight, caller>>

\* run returns: the deferred close(call.done) wakes the waiters.
Close(k) ==
  /\ call[k].st = "stored"
  /\ call' = [call EXCEPT ![k].st = "closed"]
  /\ UNCHANGED <<now, entries, inflight, caller>>

Tick ==
  /\ now < MaxTime
  /\ now' = now + 1
  /\ UNCHANGED <<entries, inflight, call, caller>>

CallerStep(c) == Hit(c) \/ Join(c) \/ Start(c) \/ Return(c)
CallStep(k) == (\E out \in Answers : Resolve(k, out)) \/ Store(k) \/ Close(k)

Next ==
  \/ \E c \in Callers, h \in Hosts : Lookup(c, h)
  \/ \E c \in Callers : Cancel(c) \/ GiveUp(c) \/ CallerStep(c)
  \/ \E k \in Calls : CallStep(k)
  \/ Tick

\* Goroutines that can run do run, and a lookup under its own timeout returns.
\* Nothing obliges a context to be cancelled or a caller to come back.
Fairness ==
  /\ \A c \in Callers : WF_vars(CallerStep(c))
  /\ \A k \in Calls : WF_vars(CallStep(k))

Spec == Init /\ [][Next]_vars
FairSpec == Spec /\ Fairness

-----------------------------------------------------------------------------
\* Every variable has its type.  A call that has answered carries a result, and
\* no caller returns with the zero lookupResult of a call that has not: to the
\* guard, no addresses and no error mean "nothing blocked".
TypeOK ==
  /\ now \in Time
  /\ entries \in [Hosts -> Result \cup {Nothing}]
  /\ inflight \in [Hosts -> Calls \cup {NoCall}]
  /\ call \in [Calls -> CallRecord]
  /\ caller \in [Callers -> CallerRecord]
  /\ \A k \in Calls :
       call[k].st \in {"answered", "stored", "closed"} => call[k].res \in Result
  /\ \A c \in Callers : caller[c].pc = "returned" => caller[c].res # Nothing

\* "Concurrent lookups of one name share a single call" (lookupcache.go:25):
\* however callers, runners and expiries interleave, no host is ever being
\* resolved by two goroutines whose answers have yet to reach the cache.
SingleFlight ==
  \A k1, k2 \in Calls :
    Running(k1) /\ Running(k2) /\ call[k1].host = call[k2].host => k1 = k2

\* The cache never holds more than lookupCacheMax names, although run tests the
\* size before it inserts and may replace a name the map already has.
CacheBounded == Cardinality(Cached) <= CacheMax

\* What lookup hands out is an answer some call got for that very host, and it
\* was current: it had not expired when the caller asked, or its call had not
\* been stored yet when the caller asked.  In particular a failure is not
\* reused past lookupErrorTTL, whoever else was waiting on it.
ServedCurrent ==
  \A c \in Callers :
    caller[c].pc = "returned" /\ caller[c].res # Cancelled =>
      \E k \in Calls :
        /\ call[k].st \in {"stored", "closed"}
        /\ call[k].host = caller[c].host
        /\ call[k].res = caller[c].res
        /\ caller[c].since < call[k].res.expires \/ caller[c].since <= call[k].stored

\* Every lookup returns, whether or not its context is ever cancelled
\* (lookupcache.go:82: done "must close").
LookupReturns ==
  \A c \in Callers :
    caller[c].pc \in {"entering", "waiting"} ~> caller[c].pc = "returned"

-----------------------------------------------------------------------------
\* The refinement mapping: a goroutine's steps after the store, and the mutex
\* and channel a caller waits at, are not visible in the service.
queryOf(k) ==
  [st |-> CASE call[k].st = "free" -> "none"
            [] call[k].st = "resolving" -> "open"
            [] call[k].st = "answered" -> "answered"
            [] call[k].st \in {"stored", "closed"} -> "retired",
   host |-> call[k].host, res |-> call[k].res, retired |-> call[k].stored]

requestOf(c) ==
  [st |-> CASE caller[c].pc = "idle" -> "idle"
            [] caller[c].pc \in {"entering", "waiting"} -> "asking"
            [] caller[c].pc = "returned" -> "served",
   n |-> caller[c].n, host |-> caller[c].host, since |-> caller[c].since,
   res |-> caller[c].res]

Service == INSTANCE LookupService
             WITH query <- [k \in Calls |-> queryOf(k)],
                  request <- [c \in Callers |-> requestOf(c)]

\* The cache, its mutex and its goroutines implement the lookup service: every
\* answer served is current, every name is asked for by one query at a time, and
\* a caller that gives up changes nothing for the others.
ImplementsService == Service!ServiceSpec

=============================================================================
