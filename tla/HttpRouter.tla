----------------------------- MODULE HttpRouter -----------------------------
(***************************************************************************)
(* The router of the dump server (http_server.hpp): handlers are           *)
(* registered for path patterns at start-up and each request is dispatched *)
(* to the first pattern that equals its path, where equality is that of    *)
(* request_mapper.hpp and the map is the vector of flat_map.hpp.           *)
(*                                                                         *)
(* A path is a sequence of pieces of text, the slashes among them; in a    *)
(* pattern a member of Var stands for a {name} (in a path that is text     *)
(* like any other).  A handler is named by the number of its registration. *)
(***************************************************************************)
EXTENDS Integers, Sequences, FiniteSets

CONSTANTS Text,         (* what paths are made of, / included              *)
          Var,          (* the {names} of patterns                         *)
          Pattern,      (* the patterns handlers are registered for        *)
          Url,          (* the paths of requests                           *)
          Query,        (* what follows the ? of a request                 *)
          Method,       (* the verbs of registrations and requests         *)
          Body,         (* the body types handlers ask for                 *)
          MaxHandlers   (* bound: registrations                            *)

ASSUME RouterAssumption ==
  /\ Text \cap Var = {}
  /\ \A p \in Pattern : p \in Seq(Text \cup Var)
  /\ \A u \in Url : u \in Seq(Text)
  /\ Method \subseteq {"get", "put", "post", "delete", "head"}
  /\ Body \subseteq {"any", "string", "dynamic"}
  /\ \A q \in Query : q.kept \in Seq(Text) /\ q.params \in Seq(Var \X Text)
  /\ MaxHandlers \in Nat

VARIABLES
  phase,     (* "registering" or "serving"                                 *)
  handlers,  (* per map: sequence of [key, method, handler]                *)
  wanted,    (* history: pattern, verb and body type of each registration  *)
  request,   (* the request under way                                      *)
  reply      (* what became of it                                          *)

vars == <<phase, handlers, wanted, request, reply>>

Maps == {"get", "post", "delete"}

\* The verbs with an add_..._handler; add_delete_handler is a template that
\* does not compile when it is used.
Registrable == {"get", "post", "put"}

Outcome == {"none", "ran", "mismatch", "notfound"}
Silent(o) == [outcome |-> o, by |-> 0, key |-> <<>>, params |-> <<>>]

TypeOK ==
  /\ phase \in {"registering", "serving"}
  /\ wanted \in Seq([path : Pattern, method : Method, body : Body])
  /\ DOMAIN handlers = Maps
  /\ \A m \in Maps : \A i \in DOMAIN handlers[m] :
       /\ handlers[m][i].path \in Pattern /\ handlers[m][i].method \in Method
       /\ handlers[m][i].handler \in DOMAIN wanted
  /\ request = <<>> \/ request \in Url \X Query \X Method
  /\ reply.outcome \in Outcome /\ reply.by \in 0..Len(wanted)
  /\ reply.params \in Seq(Var \X Seq(Text))

Init ==
  /\ phase = "registering"
  /\ handlers = [m \in Maps |-> <<>>]
  /\ wanted = <<>>
  /\ request = <<>>
  /\ reply = Silent("none")

-----------------------------------------------------------------------------
(***************************************************************************)
(* Pattern matching.                                                       *)
(***************************************************************************)
\* The pieces of the first i parts of p: the text before each {name}, and the
\* text after the last one.
Cut(p) ==
  LET cut[i \in 0..Len(p)] ==
        IF i = 0 THEN << <<>> >>
        ELSE LET before == cut[i - 1] IN
             IF p[i] \in Var THEN Append(before, <<>>)
             ELSE [before EXCEPT ![Len(before)] = Append(@, p[i])]
  IN  cut

\* regex_range::get_unmatched: the pieces of p, without an empty last one if p
\* has a {name}.
Pieces(p) ==
  LET all == Cut(p)[Len(p)] IN
  IF Len(all) > 1 /\ all[Len(all)] = <<>> THEN SubSeq(all, 1, Len(all) - 1) ELSE all

\* The {names} among the first i parts of p.
Named(p) ==
  LET named[i \in 0..Len(p)] ==
        IF i = 0 THEN <<>>
        ELSE IF p[i] \in Var THEN Append(named[i - 1], p[i]) ELSE named[i - 1]
  IN  named

\* regex_range::get_matched: the {names} of p.
Names(p) == Named(p)[Len(p)]

At(u, x, i) == i + Len(x) - 1 <= Len(u) /\ SubSeq(u, i, i + Len(x) - 1) = x

\* std::string::find from position i on: the first occurrence, or 0.
Find(u, x, i) ==
  LET hits == {j \in i..(Len(u) + 1) : At(u, x, j)} IN
  IF hits = {} THEN 0 ELSE CHOOSE j \in hits : \A k \in hits : j <= k

\* The places at which the pieces of p are found one after the other in u,
\* each sought where the one before ended; 0 from the first that is missing.
Places(p, u) ==
  LET ps == Pieces(p)
      place[n \in 1..Len(ps)] ==
        IF n = 1 THEN Find(u, ps[1], 1)
        ELSE LET before == place[n - 1] IN
             IF before = 0 THEN 0 ELSE Find(u, ps[n], before + Len(ps[n - 1]))
  IN  place

\* VARIANT: split_count is compared with the number of {names}.
Equals_Miscounted(p, u) ==
  LET ps == Pieces(p)  at == Places(p, u)  n == Len(ps) IN
  /\ at[n] # 0
  /\ IF n <= 2 THEN p = u ELSE at[n] + Len(ps[n]) - 1 = Len(u)

\* request_mapper's operator==: all pieces are found and nothing follows the
\* last; a pattern of one piece must equal the path literally.
Equals(p, u) ==
  LET ps == Pieces(p)  at == Places(p, u)  n == Len(ps) IN
  /\ at[n] # 0
  /\ IF n = 1 THEN p = u ELSE at[n] + Len(ps[n]) - 1 = Len(u)

\* VARIANT: the places are those in the rest of the path, not in the path.
PathParams_Relative(p, u) ==
  LET ps == Pieces(p)  at == Places(p, u)  n == Len(ps) - 1 IN
  IF n = 0 \/ n # Len(Names(p)) THEN <<>>
  ELSE [i \in 1..n |-> <<Names(p)[i], SubSeq(u, Len(ps[i]) + 1, at[i + 1] - 1)>>]

\* extract_params_from_path: what stands between the pieces, if there is one
\* such gap for each {name}.
PathParams(p, u) ==
  LET ps == Pieces(p)  at == Places(p, u)  n == Len(ps) - 1 IN
  IF n = 0 \/ n # Len(Names(p)) THEN <<>>
  ELSE [i \in 1..n |->
          <<Names(p)[i], SubSeq(u, at[i] + Len(ps[i]), at[i + 1] - 1)>>]

\* parse_function cuts the target at the first ? after its last /: with a / in
\* the query, what comes before that cut stays in the name (q.kept), and only
\* what comes after it is parsed (q.params).
NameOf(u, q) == u \o q.kept

\* VARIANT: name and value are taken in the wrong order.
QueryParams_Swapped(q) == [i \in DOMAIN q.params |-> <<q.params[i][2], <<q.params[i][1]>>>>]

\* The query's parameters, in their order; they come before those of the path.
QueryParams(q) == [i \in DOMAIN q.params |-> <<q.params[i][1], <<q.params[i][2]>>>>]

-----------------------------------------------------------------------------
(***************************************************************************)
(* Registration and dispatch.                                              *)
(***************************************************************************)
\* handler_for_verb.
HandlerMap(m) ==
  CASE m \in {"put", "post"} -> "post"
    [] m = "delete" -> "delete"
    [] OTHER -> "get"

\* VARIANT: the verb is not part of the key.
Hits_AnyVerb(m, u) == {i \in DOMAIN handlers[HandlerMap(m)] :
                         Equals(handlers[HandlerMap(m)][i].path, u)}

\* The entries of m's map that are equal to the key (u, m).
Hits(m, u) == {i \in DOMAIN handlers[HandlerMap(m)] :
                 LET e == handlers[HandlerMap(m)][i] IN
                 e.method = m /\ Equals(e.path, u)}

\* flat_map::find: the first of them.
FirstHit(m, u) == CHOOSE i \in Hits(m, u) : \A j \in Hits(m, u) : i <= j

\* add_handler: handlers[mapper] = h.  If an entry equals the new key, that
\* entry keeps its key and only its handler is replaced.
Register(p, m, b) ==
  /\ phase = "registering"
  /\ Len(wanted) < MaxHandlers
  /\ wanted' = Append(wanted, [path |-> p, method |-> m, body |-> b])
  /\ LET n == Len(wanted) + 1 IN
     handlers' =
       [handlers EXCEPT ![HandlerMap(m)] =
          IF Hits(m, p) = {}
            THEN Append(@, [path |-> p, method |-> m, handler |-> n])
            ELSE [@ EXCEPT ![FirstHit(m, p)].handler = n]]
  /\ UNCHANGED <<phase, request, reply>>

\* server.start
Start ==
  /\ phase = "registering"
  /\ phase' = "serving"
  /\ UNCHANGED <<handlers, wanted, request, reply>>

\* BodyHandlerImpl's test, for the StringbodyRequest that the stream readers
\* always make.  It throws on a handler for a DynamicbodyRequest.
TypesMatch(h) == wanted[h].body # "dynamic"

\* process_request.
ProcessRequest(u, q, m) ==
  /\ phase = "serving"
  /\ request = <<>>
  /\ request' = <<u, q, m>>
  /\ reply' =
       IF Hits(m, NameOf(u, q)) = {} THEN Silent("notfound")
       ELSE LET e == handlers[HandlerMap(m)][FirstHit(m, NameOf(u, q))] IN
            IF ~TypesMatch(e.handler) THEN Silent("mismatch")
            ELSE [outcome |-> "ran", by |-> e.handler, key |-> e.path,
                  params |-> QueryParams(q) \o PathParams(e.path, NameOf(u, q))]
  /\ UNCHANGED <<phase, handlers, wanted>>

\* The reply goes to sendResponse.  Requests change nothing in the router, so
\* one at a time stands for any number of them.
Return ==
  /\ request # <<>>
  /\ request' = <<>>
  /\ reply' = Silent("none")
  /\ UNCHANGED <<phase, handlers, wanted>>

Next ==
  \/ \E p \in Pattern, m \in Method \cap Registrable, b \in Body : Register(p, m, b)
  \/ Start
  \/ \E u \in Url, q \in Query, m \in Method : ProcessRequest(u, q, m)
  \/ Return

Spec == Init /\ [][Next]_vars

-----------------------------------------------------------------------------
(***************************************************************************)
(* Properties.                                                             *)
(***************************************************************************)
\* The path handed to the router in the request under way.
Asked == NameOf(request[1], request[2])

\* The handler that runs was registered for the request's verb, and its path
\* either is the pattern that matched the request or was itself matched by it
\* when it was registered, and so took over the entry of that pattern.
RunsForItsKey ==
  reply.outcome = "ran" =>
    LET w == wanted[reply.by] IN
    /\ w.method = request[3]
    /\ Equals(reply.key, Asked)
    /\ w.path = reply.key \/ Equals(reply.key, w.path)

\* No {name} stands at the end of p.
EndsInText(p) == p # <<>> => p[Len(p)] \notin Var

\* The first i pieces, with the gaps between them.
Woven(ps, gap) ==
  LET woven[i \in 1..Len(ps)] ==
        IF i = 1 THEN ps[1] ELSE woven[i - 1] \o gap[i - 1] \o ps[i]
  IN  woven

\* The path parameters a handler sees are the request's own text, one for each
\* {name} unless the pattern ends in one: put back between the pieces of the
\* pattern they give the path, or an end of it, as the first piece need not
\* stand at its beginning.
ParamsRebuildPath ==
  reply.outcome = "ran" /\ EndsInText(reply.key) /\ Names(reply.key) # <<>> =>
    LET ps    == Pieces(reply.key)
        from  == Len(QueryParams(request[2]))
        whole == Woven(ps, [i \in 1..(Len(ps) - 1) |-> reply.params[from + i][2]])[Len(ps)]
    IN  /\ Len(reply.params) = from + Len(ps) - 1
        /\ Len(ps) = Len(Names(reply.key)) + 1
        /\ Len(whole) <= Len(Asked)
        /\ SubSeq(Asked, Len(Asked) - Len(whole) + 1, Len(Asked)) = whole

\* u is p with one piece of text, foreign to the pattern, for each {name}.
Instance(p, u) ==
  /\ Len(u) = Len(p)
  /\ \A i \in DOMAIN p :
       IF p[i] \in Var THEN u[i] \notin {p[j] : j \in DOMAIN p} ELSE u[i] = p[i]

\* A request for an instance of a registered pattern is dispatched: no later
\* registration takes its entry away without serving it, and only a path that
\* is "not decorated" (request_mapper.hpp:30) has to match exactly, which one
\* that ends in its {name} counts as.
InstanceFound ==
  reply.outcome = "notfound" /\ request[2].kept = <<>> =>
    ~\E i \in DOMAIN wanted :
        /\ wanted[i].method = request[3]
        /\ EndsInText(wanted[i].path) /\ Instance(wanted[i].path, request[1])

\* What the handlers of DumpUploader are there for, "Respond to GET request"
\* (dump_uploader.hpp:58): a request that finds its handler gets its answer.
HandlersRespond == reply.outcome # "mismatch"
=============================================================================
