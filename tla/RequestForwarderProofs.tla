----------------------- MODULE RequestForwarderProofs -----------------------
(***************************************************************************)
(* The routing table serves what its configuration names, for every        *)
(* configuration, every set of paths and every iteration order of the hash *)
(* table.  The argument is one inductive invariant, RInv: at every turn of *)
(* the constructor's loop the table is the one that the routes read so far *)
(* describe.                                                               *)
(***************************************************************************)
EXTENDS RequestForwarder, FiniteSetTheorems, WellFoundedInduction, TLAPS

\* The routes of known type that the loop has passed.
Seen == {i \in Usable : i < next}

\* Each key of the table leads to the last route seen with that path.
TableIsSeen ==
  /\ \A i \in Seen : config[i].complete /\ config[i].path \in DOMAIN table
  /\ \A k \in DOMAIN table :
       /\ table[k] \in Seen /\ config[table[k]].path = k
       /\ \A j \in Seen : config[j].path = k => j <= table[k]

\* The default forwarder is that of the last default route seen.
DefaultIsSeen ==
  \/ default = 0 /\ \A i \in Seen : ~config[i].default
  \/ /\ default \in Seen /\ config[default].default
     /\ \A j \in Seen : config[j].default => j <= default

\* How far the loop is in each phase, and that the iteration order, once it is
\* fixed, yields every key.
PhaseShape ==
  /\ phase = "loading" => order = << >> /\ answer = <<>>
  /\ phase = "refused" =>
       /\ order = << >> /\ answer = <<>>
       /\ next \in Usable /\ ~config[next].complete
  /\ phase = "ready" =>
       /\ next > Len(config)
       /\ \A k \in DOMAIN table : \E i \in DOMAIN order : order[i] = k

RInv == /\ TypeOK /\ IsFiniteSet(DOMAIN table)
        /\ TableIsSeen /\ DefaultIsSeen /\ PhaseShape /\ AnsweredByConfig

-----------------------------------------------------------------------------
\* A set of positions has a first one, so the CHOOSE of WildCardMatch, the
\* find_if of the code, yields a position of the set.
LEMMA FirstExists ==
  ASSUME NEW S, S \subseteq Nat, S # {}
  PROVE  LET i == CHOOSE i \in S : \A j \in S : i <= j IN
         i \in S /\ \A j \in S : i <= j
<1>1. PICK i \in S : \A j \in S : ~(<<j, i>> \in OpToRel(<, Nat))
  BY WFMin, NatLessThanWellFounded
<1>2. OpToRel(<, Nat) = {ss \in Nat \X Nat : ss[1] < ss[2]}
  BY DEF OpToRel
<1>3. ASSUME NEW j \in S PROVE i <= j
  <2>1. <<j, i>> \notin {ss \in Nat \X Nat : ss[1] < ss[2]}
    BY <1>1, <1>2
  <2>2. QED BY <2>1
<1>4. QED BY <1>3

LEMMA InitInv == Init => RInv
<1> SUFFICES ASSUME Init PROVE RInv
  OBVIOUS
<1>1. config \in Seq(Route) /\ Len(config) \in 0..MaxRoutes
  BY RouteAssumption DEF Init, RouteAssumption
<1>2. DOMAIN table = {} /\ order = << >> /\ Seen = {}
  BY <1>1 DEF Init, Seen, Usable
<1>3. TypeOK
  BY <1>1, <1>2, RouteAssumption DEF Init, TypeOK, RouteAssumption
<1>4. TableIsSeen /\ DefaultIsSeen /\ PhaseShape /\ AnsweredByConfig
  BY <1>2 DEF Init, TableIsSeen, DefaultIsSeen, PhaseShape, AnsweredByConfig
<1>5. QED BY <1>2, <1>3, <1>4, FS_EmptySet DEF RInv

-----------------------------------------------------------------------------
(***************************************************************************)
(* The constructor's loop.                                                 *)
(***************************************************************************)
\* A route of unknown type leaves no trace.
LEMMA SkipKeeps ==
  ASSUME RInv, phase = "loading", next <= Len(config), ~config[next].known,
         next' = next + 1, UNCHANGED <<config, phase, table, default, order, answer>>
  PROVE  RInv'
<1>1. TypeOK /\ next \in DOMAIN config /\ Len(config) \in Nat /\ next \in Nat
  BY DEF RInv, TypeOK
<1>2. Seen' = Seen
  BY <1>1 DEF Seen, Usable
<1>3. TypeOK'
  BY <1>1 DEF TypeOK
<1>4. TableIsSeen' /\ DefaultIsSeen'
  BY <1>2 DEF RInv, TableIsSeen, DefaultIsSeen
<1>5. PhaseShape' /\ AnsweredByConfig'
  BY DEF RInv, PhaseShape, AnsweredByConfig
<1>6. QED BY <1>3, <1>4, <1>5 DEF RInv

\* A route that lacks a field stops the loop at that route.
LEMMA ThrowKeeps ==
  ASSUME RInv, phase = "loading", next <= Len(config), Throws(config[next]),
         phase' = "refused",
         UNCHANGED <<config, next, table, default, order, answer>>
  PROVE  RInv'
<1>1. TypeOK'
  BY DEF RInv, TypeOK
<1>2. TableIsSeen' /\ DefaultIsSeen'
  BY DEF RInv, TableIsSeen, DefaultIsSeen, Seen, Usable
<1>3. next \in Usable /\ ~config[next].complete
  BY DEF RInv, TypeOK, Usable, Throws
<1>4. PhaseShape' /\ AnsweredByConfig'
  BY <1>3 DEF RInv, PhaseShape, AnsweredByConfig, Usable
<1>5. QED BY <1>1, <1>2, <1>4 DEF RInv

\* addRoute registers the route the loop has come to, which is later than any
\* that had its path before.
LEMMA AddKeeps ==
  ASSUME RInv, phase = "loading", next <= Len(config), config[next].known,
         config[next].complete, AddRoute(config[next].path, next),
         default' = IF config[next].default THEN next ELSE default,
         next' = next + 1, UNCHANGED <<config, phase, order, answer>>
  PROVE  RInv'
<1> DEFINE k == config[next].path
<1>1. TypeOK /\ next \in DOMAIN config /\ Len(config) \in Nat /\ next \in Nat
      /\ k \in Key
  <2>1. TypeOK /\ next \in DOMAIN config /\ Len(config) \in Nat /\ next \in Nat
        /\ config[next] \in Route
    BY DEF RInv, TypeOK
  <2>2. QED BY <2>1 DEF Route
<1>2. Seen' = Seen \cup {next} /\ \A i \in Seen : i \in Nat /\ i < next
  BY <1>1 DEF Seen, Usable
<1>3. /\ DOMAIN table' = DOMAIN table \cup {k} /\ table'[k] = next
      /\ \A j \in DOMAIN table \ {k} : table'[j] = table[j]
  BY DEF AddRoute
<1>4. IsFiniteSet(DOMAIN table)'
  BY <1>3, FS_AddElement DEF RInv
<1>5. TypeOK'
  <2>1. order = << >> /\ answer = <<>>
    BY DEF RInv, PhaseShape
  <2>2. default' \in 0..Len(config)' /\ next' \in 1..(Len(config) + 1)'
    BY <1>1 DEF TypeOK
  <2>3. (DOMAIN table)' \subseteq Key
        /\ \A j \in (DOMAIN table)' : table'[j] \in 1..Len(config)'
    BY <1>1, <1>3 DEF TypeOK
  <2>4. QED BY <1>1, <2>1, <2>2, <2>3 DEF TypeOK
<1>6. TableIsSeen'
  <2>1. \A i \in Seen' : config'[i].complete /\ config'[i].path \in DOMAIN table'
    BY <1>2, <1>3 DEF RInv, TableIsSeen
  <2>2. ASSUME NEW j \in DOMAIN table'
        PROVE  /\ table'[j] \in Seen' /\ config'[table'[j]].path = j
               /\ \A i \in Seen' : config'[i].path = j => i <= table'[j]
    <3>1. CASE j = k
      BY <1>1, <1>2, <1>3, <3>1
    <3>2. CASE j # k
      BY <1>2, <1>3, <3>2 DEF RInv, TableIsSeen
    <3>3. QED BY <3>1, <3>2
  <2>3. QED BY <2>1, <2>2 DEF TableIsSeen
<1>7. DefaultIsSeen'
  BY <1>1, <1>2 DEF RInv, DefaultIsSeen
<1>8. PhaseShape' /\ AnsweredByConfig'
  BY DEF RInv, PhaseShape, AnsweredByConfig
<1>9. QED BY <1>4, <1>5, <1>6, <1>7, <1>8 DEF RInv

\* The loop is over: the table is complete and its order is fixed.
LEMMA LoadedKeeps ==
  ASSUME RInv, Loaded
  PROVE  RInv'
<1>1. /\ UNCHANGED <<config, next, table, default, answer>>
      /\ next > Len(config) /\ phase = "loading" /\ phase' = "ready"
      /\ order' \in Listings(DOMAIN table)
  BY DEF Loaded
<1>2. Cardinality(DOMAIN table) \in Nat
  BY FS_CardinalityType DEF RInv
<1>3. order' \in Seq(DOMAIN table)
  BY <1>1, <1>2 DEF Listings
<1>4. TypeOK'
  BY <1>1, <1>3 DEF RInv, TypeOK
<1>5. TableIsSeen' /\ DefaultIsSeen'
  BY <1>1 DEF RInv, TableIsSeen, DefaultIsSeen, Seen, Usable
<1>6. PhaseShape'
  BY <1>1 DEF PhaseShape, Listings
<1>7. AnsweredByConfig'
  BY <1>1 DEF RInv, PhaseShape, AnsweredByConfig
<1>8. QED BY <1>1, <1>4, <1>5, <1>6, <1>7 DEF RInv

-----------------------------------------------------------------------------
(***************************************************************************)
(* The lookup.                                                             *)
(***************************************************************************)
\* When the loop is over, the table holds the standing routes and no others.
LEMMA TableIsStanding ==
  ASSUME RInv, phase = "ready"
  PROVE  /\ Seen = Usable /\ Usable \subseteq 1..Len(config)
         /\ \A k \in DOMAIN table : table[k] \in Standing /\ config[table[k]].path = k
         /\ \A i \in Standing : config[i].path \in DOMAIN table
                                /\ table[config[i].path] = i
<1>1. TypeOK /\ TableIsSeen /\ next > Len(config) /\ Len(config) \in Nat /\ next \in Nat
      /\ DOMAIN config = 1..Len(config)
  BY DEF RInv, PhaseShape, TypeOK
<1>2. Seen = Usable /\ Usable \subseteq 1..Len(config)
  BY <1>1 DEF Seen, Usable
<1>3. \A k \in DOMAIN table : table[k] \in Standing /\ config[table[k]].path = k
  BY <1>1, <1>2 DEF TableIsSeen, Standing
<1>4. ASSUME NEW i \in Standing
      PROVE  config[i].path \in DOMAIN table /\ table[config[i].path] = i
  <2>1. i \in Usable /\ config[i].path \in DOMAIN table
    BY <1>1, <1>2 DEF TableIsSeen, Standing
  <2>2. table[config[i].path] \in Standing
        /\ config[table[config[i].path]].path = config[i].path
    BY <1>3, <2>1
  <2>3. table[config[i].path] <= i /\ i <= table[config[i].path]
    BY <2>1, <2>2 DEF Standing
  <2>4. table[config[i].path] \in Nat /\ i \in Nat
    <3>1. table[config[i].path] \in Usable
      BY <2>2 DEF Standing
    <3>2. table[config[i].path] \in 1..Len(config) /\ i \in 1..Len(config)
      BY <1>2, <2>1, <3>1
    <3>3. Len(config) \in Nat
      BY <1>1
    <3>4. QED BY <3>2, <3>3
  <2>5. QED BY <2>1, <2>3, <2>4
<1>5. QED BY <1>2, <1>3, <1>4

\* wildCardMatch gives some standing wildcard that covers the target, and null
\* only if there is none, whatever order the hash table is in.
LEMMA WildCardIsStanding ==
  ASSUME RInv, phase = "ready", NEW t
  PROVE  LET wild == {i \in Standing : Covers(config[i].path, t)} IN
         \/ WildCardMatch(t) = 0 /\ wild = {}
         \/ WildCardMatch(t) \in wild /\ WildCardMatch(t) # 0
<1> DEFINE wild == {i \in Standing : Covers(config[i].path, t)}
           hits == {i \in DOMAIN order : Covers(order[i], t)}
           i0   == CHOOSE i \in hits : \A j \in hits : i <= j
<1>1. order \in Seq(DOMAIN table)
  BY DEF RInv, TypeOK
<1>2. DOMAIN order \subseteq Nat /\ \A i \in DOMAIN order : order[i] \in DOMAIN table
  BY <1>1
<1>3. CASE hits = {}
  <2>1. ASSUME NEW i \in wild PROVE FALSE
    <3>1. config[i].path \in DOMAIN table /\ Covers(config[i].path, t)
      BY TableIsStanding
    <3>2. PICK n \in DOMAIN order : order[n] = config[i].path
      BY <3>1 DEF RInv, PhaseShape
    <3>3. QED BY <1>3, <3>1, <3>2
  <2>2. WildCardMatch(t) = 0
    BY <1>3 DEF WildCardMatch
  <2>3. QED BY <2>1, <2>2
<1>4. CASE hits # {}
  <2>1. i0 \in hits
    <3>1. hits \subseteq Nat
      BY <1>2
    <3>2. QED BY <1>4, <3>1, FirstExists
  <2>2. WildCardMatch(t) = table[order[i0]]
    BY <1>4 DEF WildCardMatch
  <2>3. order[i0] \in DOMAIN table /\ Covers(order[i0], t)
    BY <1>2, <2>1
  <2>4. table[order[i0]] \in Standing /\ config[table[order[i0]]].path = order[i0]
    BY <2>3, TableIsStanding
  <2>5. table[order[i0]] # 0
    BY <2>3 DEF RInv, TypeOK
  <2>6. QED BY <2>2, <2>3, <2>4, <2>5
<1>5. QED BY <1>3, <1>4

\* getForwarder gives an answer that the configuration names.
LEMMA LookupIsCandidate ==
  ASSUME RInv, phase = "ready", NEW t
  PROVE  Lookup(t) \in Candidates(t) /\ Lookup(t) \in 0..Len(config)
<1> DEFINE wild  == {i \in Standing : Covers(config[i].path, t)}
           exact == {i \in Standing : config[i].path = t}
           dflt  == {i \in Usable : config[i].default}
<1>1. /\ Usable \subseteq 1..Len(config) /\ Standing \subseteq Usable /\ Seen = Usable
      /\ Len(config) \in Nat
  BY TableIsStanding DEF Standing, RInv, TypeOK
<1>2. CASE WildCardMatch(t) # 0
  <2>1. Lookup(t) = WildCardMatch(t) /\ Lookup(t) \in wild
    BY <1>2, WildCardIsStanding DEF Lookup
  <2>2. Candidates(t) = wild
    BY <2>1 DEF Candidates
  <2>3. Lookup(t) \in 1..Len(config)
    BY <1>1, <2>1
  <2>4. Lookup(t) \in 0..Len(config)
    BY <1>1, <2>3
  <2>5. QED BY <2>1, <2>2, <2>4
<1>3. CASE WildCardMatch(t) = 0 /\ t \in DOMAIN table
  <2>1. Lookup(t) = table[t] /\ wild = {}
    BY <1>3, WildCardIsStanding DEF Lookup
  <2>2. Lookup(t) \in exact
    BY <1>3, <2>1, TableIsStanding
  <2>3. Candidates(t) = exact
    BY <2>1, <2>2 DEF Candidates
  <2>4. Lookup(t) \in 1..Len(config)
    BY <1>1, <2>2
  <2>5. Lookup(t) \in 0..Len(config)
    BY <1>1, <2>4
  <2>6. QED BY <2>2, <2>3, <2>5
<1>4. CASE WildCardMatch(t) = 0 /\ t \notin DOMAIN table
  <2>1. Lookup(t) = default /\ wild = {}
    BY <1>4, WildCardIsStanding DEF Lookup
  <2>2. exact = {}
    BY <1>4, TableIsStanding
  <2>3. CASE dflt = {}
    <3>1. default = 0
      BY <1>1, <2>3 DEF RInv, DefaultIsSeen
    <3>2. Candidates(t) = {0}
      BY <2>1, <2>2, <2>3 DEF Candidates
    <3>3. QED BY <1>1, <2>1, <3>1, <3>2
  <2>4. CASE dflt # {}
    <3>1. default \in {i \in dflt : \A j \in dflt : j <= i}
      BY <1>1, <2>4 DEF RInv, DefaultIsSeen
    <3>2. Candidates(t) = {i \in dflt : \A j \in dflt : j <= i}
      BY <2>1, <2>2, <2>4 DEF Candidates
    <3>3. QED BY <1>1, <2>1, <3>1, <3>2
  <2>5. QED BY <2>3, <2>4
<1>5. QED BY <1>2, <1>3, <1>4

LEMMA GetForwarderKeeps ==
  ASSUME RInv, NEW t \in Target, GetForwarder(t)
  PROVE  RInv'
<1>1. /\ UNCHANGED <<config, next, phase, table, default, order>>
      /\ phase = "ready" /\ answer' = <<t, Lookup(t)>>
  BY DEF GetForwarder
<1>2. Lookup(t) \in Candidates(t) /\ Lookup(t) \in 0..Len(config)
  BY <1>1, LookupIsCandidate
<1>3. TypeOK'
  BY <1>1, <1>2 DEF RInv, TypeOK
<1>4. TableIsSeen' /\ DefaultIsSeen' /\ PhaseShape'
  BY <1>1 DEF RInv, TableIsSeen, DefaultIsSeen, PhaseShape, Seen, Usable
<1>5. Candidates(t)' = Candidates(t)
  BY <1>1 DEF Candidates, Standing, Usable
<1>6. AnsweredByConfig'
  BY <1>1, <1>2, <1>5 DEF AnsweredByConfig
<1>7. QED BY <1>1, <1>3, <1>4, <1>6 DEF RInv

-----------------------------------------------------------------------------
LEMMA StepInv == RInv /\ [Next]_vars => RInv'
<1> SUFFICES ASSUME RInv, [Next]_vars PROVE RInv'
  OBVIOUS
<1>1. CASE LoadRoute
  <2>1. CASE ~config[next].known
    BY <1>1, <2>1, SkipKeeps DEF LoadRoute, Throws
  <2>2. CASE Throws(config[next])
    BY <1>1, <2>2, ThrowKeeps DEF LoadRoute, Throws
  <2>3. CASE config[next].known /\ ~Throws(config[next])
    BY <1>1, <2>3, AddKeeps DEF LoadRoute, Throws
  <2>4. QED BY <2>1, <2>2, <2>3
<1>2. CASE Loaded
  BY <1>2, LoadedKeeps
<1>3. CASE \E t \in Target : GetForwarder(t)
  BY <1>3, GetForwarderKeeps
<1>4. CASE UNCHANGED vars
  BY <1>4 DEF vars, RInv, TypeOK, TableIsSeen, DefaultIsSeen, PhaseShape,
              AnsweredByConfig, Candidates, Standing, Seen, Usable
<1>5. QED BY <1>1, <1>2, <1>3, <1>4 DEF Next, Refused

THEOREM Invariance == Spec => []RInv
BY InitInv, StepInv, PTL DEF Spec

\* The state keeps its types; in particular every key leads to a route of the
\* configuration.
THEOREM TypeCorrect == Spec => []TypeOK
<1>1. RInv => TypeOK
  BY DEF RInv
<1>2. QED BY <1>1, Invariance, PTL

\* getForwarder answers every target with a route that the configuration names
\* for it, and with null only if there is none.
THEOREM LookupIsRight == Spec => []AnsweredByConfig
<1>1. RInv => AnsweredByConfig
  BY DEF RInv
<1>2. QED BY <1>1, Invariance, PTL

\* The constructor throws exactly on a route of known type that lacks a field.
THEOREM BrokenIsRefused == Spec => []RefusedIfBroken
<1>1. RInv => RefusedIfBroken
  <2>1. ASSUME RInv, phase = "ready" PROVE \A i \in Usable : config[i].complete
    BY <2>1, TableIsStanding DEF RInv, TableIsSeen
  <2>2. QED BY <2>1 DEF RInv, PhaseShape, RefusedIfBroken
<1>2. QED BY <1>1, Invariance, PTL
=============================================================================
