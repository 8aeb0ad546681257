-------------------------- MODULE RequestForwarder --------------------------
(***************************************************************************)
(* The routing table of the reverse proxy (request_forwarder.hpp): the     *)
(* constructor reads the routes of the configuration file one by one, and  *)
(* getForwarder looks up the target of each request.                       *)
(*                                                                         *)
(* A path is a sequence of characters; a key that ends in Star is a        *)
(* wildcard.  A forwarder is named by the index of the route that made it; *)
(* 0 is the null pointer.                                                  *)
(***************************************************************************)
EXTENDS Integers, Sequences, FiniteSets

CONSTANTS Char,       (* characters                                        *)
          Key,        (* the paths that routes name                        *)
          Target,     (* the targets of requests                           *)
          MaxRoutes,  (* bound: routes in the configuration                *)
          Star        (* the character *                                   *)

ASSUME RouteAssumption ==
  /\ MaxRoutes \in Nat
  /\ Star \in Char
  /\ \A k \in Key \cup Target : k \in Seq(Char)

\* known: forwardMaker has the type, or the type is null.  complete: path, ip
\* and port are strings, and default is a Boolean if it is there.  A type that
\* is not a string throws as well: such a route counts as known, incomplete.
Route == [path : Key, known : BOOLEAN, complete : BOOLEAN, default : BOOLEAN]

VARIABLES
  config,   (* the routes of the configuration file                        *)
  next,     (* the route the constructor's loop has come to                *)
  phase,    (* "loading", "ready" or "refused": the constructor threw      *)
  table,    (* from the keys registered so far to forwarders               *)
  default,  (* defaultForwarder                                            *)
  order,    (* the order in which the unordered_map yields its keys        *)
  answer    (* the target last looked up and the forwarder it was given    *)

vars == <<config, next, phase, table, default, order, answer>>

TypeOK ==
  /\ config \in Seq(Route) /\ Len(config) <= MaxRoutes
  /\ next \in 1..(Len(config) + 1)
  /\ phase \in {"loading", "ready", "refused"}
  /\ DOMAIN table \subseteq Key /\ \A k \in DOMAIN table : table[k] \in 1..Len(config)
  /\ default \in 0..Len(config)
  /\ order \in Seq(DOMAIN table)
  /\ answer = <<>> \/ answer \in Target \X (0..Len(config))

Init ==
  /\ config \in UNION {[1..n -> Route] : n \in 0..MaxRoutes}
  /\ next = 1
  /\ phase = "loading"
  /\ table = << >>
  /\ default = 0
  /\ order = << >>
  /\ answer = <<>>

\* VARIANT: emplace: the first route with a path keeps it.
AddRoute_Keeps(k, f) ==
  table' = [j \in DOMAIN table \cup {k} |-> IF j \in DOMAIN table THEN table[j] ELSE f]

\* addRoute: table[path] = route.
AddRoute(k, f) ==
  table' = [j \in DOMAIN table \cup {k} |-> IF j = k THEN f ELSE table[j]]

\* VARIANT: a missing field is read as an empty string.
Throws_Never(r) == FALSE

\* get<std::string>() or get<bool>() throws: r lacks a field it must have.
Throws(r) == r.known /\ ~r.complete

\* One turn of the constructor's loop.  A route of unknown type is passed
\* over, whatever else it lacks; an incomplete one makes the constructor throw,
\* and the table dies with it.
LoadRoute ==
  /\ phase = "loading"
  /\ next <= Len(config)
  /\ LET r == config[next] IN
     \/ /\ ~r.known
        /\ next' = next + 1
        /\ UNCHANGED <<phase, table, default>>
     \/ /\ Throws(r)
        /\ phase' = "refused"
        /\ UNCHANGED <<next, table, default>>
     \/ /\ r.known /\ ~Throws(r)
        /\ AddRoute(r.path, next)
        /\ default' = IF r.default THEN next ELSE default
        /\ next' = next + 1
        /\ UNCHANGED phase
  /\ UNCHANGED <<config, order, answer>>

\* The sequences that list each element of S once: all of S in |S| places.
Listings(S) ==
  {s \in [1..Cardinality(S) -> S] : \A k \in S : \E i \in DOMAIN s : s[i] = k}

\* The constructor returns; from here on the table, and so the order of its
\* iteration, is fixed.
Loaded ==
  /\ phase = "loading"
  /\ next > Len(config)
  /\ phase' = "ready"
  /\ order' \in Listings(DOMAIN table)
  /\ UNCHANGED <<config, next, table, default, answer>>

IsWildcard(k) == k # <<>> /\ k[Len(k)] = Star

StartsWith(t, p) == Len(p) <= Len(t) /\ SubSeq(t, 1, Len(p)) = p

\* The wildcard k matches target t: t starts with k less its *.
Covers(k, t) == IsWildcard(k) /\ StartsWith(t, SubSeq(k, 1, Len(k) - 1))

\* wildCardMatch: the first key of the table's iteration that covers t.
WildCardMatch(t) ==
  LET hits == {i \in DOMAIN order : Covers(order[i], t)} IN
  IF hits = {} THEN 0
  ELSE table[order[CHOOSE i \in hits : \A j \in hits : i <= j]]

\* getForwarder: a wildcard, else the exact key, else the default.
Lookup(t) ==
  CASE WildCardMatch(t) # 0 -> WildCardMatch(t)
    [] WildCardMatch(t) = 0 /\ t \in DOMAIN table -> table[t]
    [] OTHER -> default

GetForwarder(t) ==
  /\ phase = "ready"
  /\ answer' = <<t, Lookup(t)>>
  /\ UNCHANGED <<config, next, phase, table, default, order>>

\* The constructor's exception has left main.
Refused == phase = "refused" /\ UNCHANGED vars

Next == LoadRoute \/ Loaded \/ (\E t \in Target : GetForwarder(t)) \/ Refused

Spec == Init /\ [][Next]_vars

-----------------------------------------------------------------------------
(***************************************************************************)
(* Properties.                                                             *)
(***************************************************************************)
\* The routes that count, and of those the ones no later route replaces.
Usable == {i \in DOMAIN config : config[i].known}
Standing ==
  {i \in Usable : \A j \in Usable : config[j].path = config[i].path => j <= i}

\* The routes that may answer t, read off the configuration alone: any
\* standing wildcard that covers it; without one, the standing route with
\* exactly its path; without that, the last default route, or none.
Candidates(t) ==
  LET wild  == {i \in Standing : Covers(config[i].path, t)}
      exact == {i \in Standing : config[i].path = t}
      dflt  == {i \in Usable : config[i].default}
  IN  CASE wild # {} -> wild
        [] wild = {} /\ exact # {} -> exact
        [] wild = {} /\ exact = {} /\ dflt # {} ->
             {i \in dflt : \A j \in dflt : j <= i}
        [] OTHER -> {0}

\* Every lookup is answered by a route the configuration file names for it,
\* whatever the loop overwrote and whatever order the hash table is in; the
\* null forwarder, which processRequest turns into a 500, is given out only
\* when no route covers the target and no default exists.
AnsweredByConfig == answer # <<>> => answer[2] \in Candidates(answer[1])

\* The proxy refuses to start exactly when a route of known type lacks a
\* field; a half-loaded table never serves.
RefusedIfBroken ==
  /\ phase = "refused" => \E i \in Usable : ~config[i].complete
  /\ phase = "ready" => \A i \in Usable : config[i].complete
=============================================================================
