--------------------------- MODULE MCGuardedFetch ---------------------------
(***************************************************************************)
(* Hosts, answers and settings for GuardedFetch.                           *)
(***************************************************************************)
EXTENDS GuardedFetch

Name(n) == [kind |-> "name", is |-> n]
Literal(a) == [kind |-> "literal", is |-> a]
Number == [kind |-> "numeric", is |-> "number"]

\* A host by name, a public and a translation address, a number; and of those that
\* are not ASCII one whose two forms differ, one whose forms do not, and one with none.
MCForms ==
  [named |-> <<Name("n")>>, open |-> <<Literal("public")>>,
   carrier |-> <<Literal("carriesPrivate")>>, number |-> <<Number>>,
   wide |-> <<Name("n"), Literal("private")>>,
   mapped |-> <<Name("n")>>, broken |-> <<>>]

MCHosts == DOMAIN MCForms
MCNonASCII == {"wide", "mapped", "broken"}

Addrs(as) == [status |-> "ok", addrs |-> as]

MCAnswers ==
  {Addrs({"public"}), Addrs({"private"}), Addrs({"public", "private"}),
   [status |-> "unknown", addrs |-> {}], [status |-> "failing", addrs |-> {}]}

Base ==
  [level |-> "Internal", custom |-> {"public"}, allowHosts |-> {}, allowIPs |-> {},
   fixed |-> FALSE, env |-> {}, proxyAddr |-> "private", precheck |-> FALSE]

\* Direct, through the environment's proxy, some hosts of each, and through a
\* configured proxy.
Routes == {<<FALSE, {}>>, <<FALSE, MCHosts>>, <<FALSE, {"open", "wide"}>>, <<TRUE, {}>>}

MCWorlds ==
  {[Base EXCEPT !.fixed = r[1], !.env = r[2], !.precheck = p] : r \in Routes, p \in BOOLEAN}
    \cup
  {[Base EXCEPT !.env = {"open", "wide"}, !.level = l] : l \in {"None", "Loopback", "Custom"}}
    \cup
  {[Base EXCEPT !.env = {"wide"}, !.allowHosts = {Name("n")}],
   [Base EXCEPT !.env = {"wide"}, !.allowIPs = {"private"}]}

=============================================================================
