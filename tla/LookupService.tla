---------------------------- MODULE LookupService ----------------------------
(***************************************************************************)
(* What sharedLookups.lookup promises its callers, with no map, mutex,     *)
(* channel or capacity: requests are served from resolver queries, one     *)
(* query at a time for a name, and an answer is served only while it is    *)
(* current.  LookupCache implements this specification.                    *)
(***************************************************************************)
EXTENDS Integers

CONSTANTS Callers, Hosts, Addrs, TTL, ErrTTL, MaxRequests, MaxTime

VARIABLES
  now,      \* the clock
  query,    \* the questions put to the resolver
  request   \* what each caller asked and was told

svars == <<now, query, request>>

Queries == Callers \X (1..MaxRequests)
Answers == Addrs \cup {"notfound", "failure"}
Nothing == [out |-> "none", expires |-> 0]
Cancelled == [out |-> "cancelled", expires |-> 0]
Reuse(out) == IF out = "failure" THEN ErrTTL ELSE TTL

AnyHost == CHOOSE h \in Hosts : TRUE

Init ==
  /\ now = 0
  /\ query = [q \in Queries |->
               [st |-> "none", host |-> AnyHost, res |-> Nothing, retired |-> 0]]
  /\ request = [c \in Callers |->
                 [st |-> "idle", n |-> 0, host |-> AnyHost, since |-> 0,
                  res |-> Nothing]]

Ask(c, h) ==
  /\ request[c].st # "asking"
  /\ request[c].n < MaxRequests
  /\ request' = [request EXCEPT ![c] =
                   [st |-> "asking", n |-> @.n + 1, host |-> h, since |-> now,
                    res |-> Nothing]]
  /\ UNCHANGED <<now, query>>

\* The resolver is asked only on behalf of a request, and never about a name
\* it is being asked about already.
Open(c) ==
  LET q == <<c, request[c].n>>
  IN  /\ request[c].st = "asking"
      /\ query[q].st = "none"
      /\ \A p \in Queries :
           query[p].st \in {"open", "answered"} => query[p].host # request[c].host
      /\ query' = [query EXCEPT ![q] =
                     [st |-> "open", host |-> request[c].host, res |-> @.res,
                      retired |-> @.retired]]
      /\ UNCHANGED <<now, request>>

Answer(q, out) ==
  /\ query[q].st = "open"
  /\ query' = [query EXCEPT ![q] =
                 [st |-> "answered", host |-> @.host, retired |-> @.retired,
                  res |-> [out |-> out, expires |-> now + Reuse(out)]]]
  /\ UNCHANGED <<now, request>>

\* From here on only the lifetime of the answer allows it to be served to those
\* who ask later.
Retire(q) ==
  /\ query[q].st = "answered"
  /\ query' = [query EXCEPT ![q] =
                 [st |-> "retired", host |-> @.host, res |-> @.res, retired |-> now]]
  /\ UNCHANGED <<now, request>>

ServedWith(r, res) ==
  [st |-> "served", n |-> r.n, host |-> r.host, since |-> r.since, res |-> res]

Serve(c, q) ==
  /\ request[c].st = "asking"
  /\ query[q].st = "retired"
  /\ query[q].host = request[c].host
  /\ now < query[q].res.expires \/ request[c].since <= query[q].retired
  /\ request' = [request EXCEPT ![c] = ServedWith(@, query[q].res)]
  /\ UNCHANGED <<now, query>>

\* A caller whose context ends is told so; nobody else is affected.
Abandon(c) ==
  /\ request[c].st = "asking"
  /\ request' = [request EXCEPT ![c] = ServedWith(@, Cancelled)]
  /\ UNCHANGED <<now, query>>

Tick ==
  /\ now < MaxTime
  /\ now' = now + 1
  /\ UNCHANGED <<query, request>>

Next ==
  \/ \E c \in Callers, h \in Hosts : Ask(c, h)
  \/ \E c \in Callers : Open(c) \/ Abandon(c)
  \/ \E q \in Queries, out \in Answers : Answer(q, out)
  \/ \E q \in Queries : Retire(q)
  \/ \E c \in Callers, q \in Queries : Serve(c, q)
  \/ Tick

ServiceSpec == Init /\ [][Next]_svars

=============================================================================
