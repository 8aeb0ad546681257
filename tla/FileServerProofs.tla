-------------------------- MODULE FileServerProofs --------------------------
(***************************************************************************)
(* The loop of the file server serves in turn and answers what it hears,   *)
(* for any set of clients and any targets.                                 *)
(***************************************************************************)
EXTENDS FileServer, SequenceTheorems, TLAPS

\* Only a request that parsed makes the loop open a file, and the loop answers
\* from a file only after it opened one.
Heard ==
  /\ at \in {"open", "respond"} => sent[held] \in TargetKind
  /\ at = "respond" => opened

IInv == TypeOK /\ InTurn /\ AnsweredIfHeard /\ Heard

\* The connection of the turn, as a sequence.
Turn == IF held = None THEN <<>> ELSE <<held>>

-----------------------------------------------------------------------------
\* A connection moves from the backlog to the turn, or from the turn to the
\* released ...
LEMMA Moves ==
  ASSUME NEW a \in Seq(Conn), NEW c \in Seq(Conn), NEW x \in Conn
  PROVE  /\ Append(a, x) \o <<>> \o c = a \o <<x>> \o c
         /\ c # <<>> => a \o <<Head(c)>> \o Tail(c) = a \o <<>> \o c
<1>1. Append(a, x) \o <<>> \o c = a \o <<x>> \o c
  <2>1. Append(a, x) = a \o <<x>> /\ Append(a, x) \in Seq(Conn)
    BY AppendIsConcat, AppendProperties
  <2>2. QED BY <2>1, ConcatEmptySeq
<1>2. ASSUME c # <<>> PROVE a \o <<Head(c)>> \o Tail(c) = a \o <<>> \o c
  <2>1. Head(c) \in Conn /\ Tail(c) \in Seq(Conn) /\ <<Head(c)>> \in Seq(Conn)
    BY <1>2, HeadTailProperties
  <2>2. <<Head(c)>> \o Tail(c) = c
    BY <1>2, <2>1
  <2>3. (a \o <<Head(c)>>) \o Tail(c) = a \o (<<Head(c)>> \o Tail(c))
    BY <2>1, ConcatAssociative
  <2>4. QED BY <2>2, <2>3, ConcatEmptySeq
<1>3. QED BY <1>1, <1>2

\* ... and a new one goes to the end of the backlog.
LEMMA Joins ==
  ASSUME NEW a \in Seq(Conn), NEW b \in Seq(Conn), NEW c \in Seq(Conn), NEW x \in Conn
  PROVE  Append(a \o b \o c, x) = a \o b \o Append(c, x)
<1> DEFINE p == a \o b
           y == <<x>>
<1>1. p \in Seq(Conn) /\ y \in Seq(Conn) /\ p \o c \in Seq(Conn)
  BY ConcatProperties
<1>2. Append(p \o c, x) = (p \o c) \o y /\ Append(c, x) = c \o y
  BY <1>1, AppendIsConcat
<1> HIDE DEF p, y
<1>3. (p \o c) \o y = p \o (c \o y)
  BY <1>1, ConcatAssociative
<1>4. QED BY <1>2, <1>3 DEF p

LEMMA InitInv == Init => IInv
<1> SUFFICES ASSUME Init PROVE IInv
  OBVIOUS
<1>1. TypeOK
  <2>1. opened \in BOOLEAN /\ gone \in [Conn -> BOOLEAN]
    BY DEF Init
  <2>2. /\ at \in At /\ held \in Conn \cup {None} /\ (held = None <=> at = "accept")
        /\ reply \in [Conn -> Reply] /\ sent \in [Conn -> Wire]
    BY FileServerAssumption DEF Init, At, Reply, Wire
  <2>3. backlog \in Seq(Conn) /\ arrived \in Seq(Conn) /\ released \in Seq(Conn)
    BY DEF Init
  <2>4. QED BY <2>1, <2>2, <2>3 DEF TypeOK
<1>2. InTurn
  BY DEF Init, InTurn
<1>3. AnsweredIfHeard /\ Heard
  BY DEF Init, AnsweredIfHeard, LetDown, Heard
<1>4. QED BY <1>1, <1>2, <1>3 DEF IInv

-----------------------------------------------------------------------------
(***************************************************************************)
(* The clients.                                                            *)
(***************************************************************************)
LEMMA ClientKeeps ==
  ASSUME IInv, NEW c \in Conn, Connect(c) \/ Leave(c) \/ \E m \in Wire : Send(c, m)
  PROVE  IInv'
<1> USE FileServerAssumption
<1>1. CASE Connect(c)
  <2>1. /\ backlog' = Append(backlog, c) /\ arrived' = Append(arrived, c)
        /\ sent' = [sent EXCEPT ![c] = "silent"] /\ sent[c] = "absent"
        /\ UNCHANGED <<at, held, reply, opened, released, gone>>
    BY <1>1 DEF Connect, serverVars
  <2>2. TypeOK'
    BY <2>1 DEF IInv, TypeOK, Wire
  <2>3. InTurn'
    <3>1. /\ released \in Seq(Conn) /\ backlog \in Seq(Conn) /\ Turn \in Seq(Conn)
          /\ arrived = released \o Turn \o backlog
      BY DEF IInv, TypeOK, InTurn, Turn
    <3>2. arrived' = released \o Turn \o Append(backlog, c)
      <4>1. Append(released \o Turn \o backlog, c) = released \o Turn \o Append(backlog, c)
        BY <3>1, Joins
      <4>2. QED BY <2>1, <3>1, <4>1
    <3>3. QED BY <2>1, <3>2 DEF InTurn, Turn
  <2>4. AnsweredIfHeard' /\ Heard'
    BY <2>1 DEF IInv, TypeOK, AnsweredIfHeard, LetDown, Heard, TargetKind
  <2>5. QED BY <2>2, <2>3, <2>4 DEF IInv
<1>2. CASE Leave(c)
  <2>1. gone' = [gone EXCEPT ![c] = TRUE]
        /\ UNCHANGED <<at, held, reply, opened, released, sent, arrived, backlog>>
    BY <1>2 DEF Leave, serverVars
  <2>2. AnsweredIfHeard' /\ Heard'
    BY <2>1 DEF IInv, TypeOK, AnsweredIfHeard, LetDown, Heard
  <2>3. QED BY <2>1, <2>2 DEF IInv, TypeOK, InTurn
<1>3. ASSUME NEW m \in Wire, Send(c, m) PROVE IInv'
  <2>1. /\ sent' = [sent EXCEPT ![c] = m] /\ ~gone[c]
        /\ \/ sent[c] = "silent" /\ m \in {"hello", "garbage"}
           \/ sent[c] = "hello" /\ m \in Targets \cup {"malformed"}
        /\ UNCHANGED <<at, held, reply, opened, released, gone, arrived, backlog>>
    BY <1>3 DEF Send, NextOnWire, serverVars
  <2>2. AnsweredIfHeard' /\ Heard'
    BY <2>1 DEF IInv, TypeOK, AnsweredIfHeard, LetDown, Heard, TargetKind
  <2>3. QED BY <2>1, <2>2 DEF IInv, TypeOK, InTurn
<1>4. QED BY <1>1, <1>2, <1>3

-----------------------------------------------------------------------------
(***************************************************************************)
(* The loop.                                                               *)
(***************************************************************************)
LEMMA AcceptKeeps == IInv /\ Accept => IInv'
<1> SUFFICES ASSUME IInv, Accept PROVE IInv'
  OBVIOUS
<1> USE FileServerAssumption
<1>1. /\ at = "accept" /\ held = None /\ backlog # <<>> /\ backlog \in Seq(Conn)
      /\ at' = "handshake" /\ held' = Head(backlog) /\ backlog' = Tail(backlog)
      /\ UNCHANGED <<reply, opened, released, sent, gone, arrived>>
  BY DEF Accept, clientVars, IInv, TypeOK
<1>2. held' \in Conn /\ held' # None /\ backlog' \in Seq(Conn)
  BY <1>1, HeadTailProperties
<1>3. TypeOK'
  BY <1>1, <1>2 DEF IInv, TypeOK, At
<1>4. InTurn'
  <2>1. arrived = released \o <<>> \o backlog /\ released \in Seq(Conn)
    BY <1>1 DEF IInv, TypeOK, InTurn
  <2>2. arrived = released \o <<held'>> \o backlog'
    BY <1>1, <1>2, <2>1, Moves
  <2>3. QED BY <1>1, <1>2, <2>2 DEF InTurn
<1>5. AnsweredIfHeard' /\ Heard'
  BY <1>1 DEF IInv, AnsweredIfHeard, LetDown, Heard
<1>6. QED BY <1>3, <1>4, <1>5 DEF IInv

LEMMA ShutdownKeeps == IInv /\ Shutdown => IInv'
<1> SUFFICES ASSUME IInv, Shutdown PROVE IInv'
  OBVIOUS
<1> USE FileServerAssumption
<1>1. /\ held \in Conn /\ held # None /\ released \in Seq(Conn) /\ backlog \in Seq(Conn)
      /\ at' = "accept" /\ held' = None /\ released' = Append(released, held)
      /\ opened' = FALSE /\ UNCHANGED <<reply, sent, gone, arrived, backlog>>
  BY DEF Shutdown, clientVars, IInv, TypeOK
<1>2. TypeOK'
  BY <1>1, AppendProperties DEF IInv, TypeOK, At
<1>3. InTurn'
  <2>1. arrived = released \o <<held>> \o backlog
    BY <1>1 DEF IInv, InTurn
  <2>2. arrived = released' \o <<>> \o backlog
    BY <1>1, <2>1, Moves
  <2>3. QED BY <1>1, <2>2 DEF InTurn
<1>4. AnsweredIfHeard' /\ Heard'
  BY <1>1 DEF IInv, AnsweredIfHeard, LetDown, Heard
<1>5. QED BY <1>2, <1>3, <1>4 DEF IInv

\* The calls between accept and the end of the turn keep the stream.
LEMMA TurnKeeps == IInv /\ (Handshake \/ Read \/ Open \/ Respond) => IInv'
<1> SUFFICES ASSUME IInv, Handshake \/ Read \/ Open \/ Respond PROVE IInv'
  OBVIOUS
<1> USE FileServerAssumption
<1>1. /\ at \in {"handshake", "read", "open", "respond"} /\ held \in Conn /\ held # None
      /\ at' \in {"read", "open", "respond", "shutdown", "dead"}
      /\ opened' \in BOOLEAN
      /\ UNCHANGED <<held, backlog, released, sent, gone, arrived>>
  BY DEF Handshake, Read, Open, Respond, Write, Goto, clientVars, IInv, TypeOK
<1>2. /\ reply' = reply \/ (/\ \E r \in Reply \ {"none"} : reply' = [reply EXCEPT ![held] = r]
                            /\ at \in {"open", "respond"})
      /\ at' = "shutdown" /\ reply'[held] = "none" =>
           gone[held] \/ sent[held] \in {"garbage", "malformed"} \/ opened'
  <2>1. CASE Handshake \/ Read
    BY <2>1 DEF Handshake, Read, Goto, ReadThrows
  <2>2. CASE Open
    BY <1>1, <2>2 DEF Open, Write, Goto, IInv, TypeOK, Reply
  <2>3. CASE Respond
    <3>1. opened /\ opened' = opened
      BY <2>3 DEF Respond, Write, Goto, IInv, Heard
    <3>2. QED BY <1>1, <2>3, <3>1 DEF Respond, Write, Goto, Reply
  <2>4. QED BY <2>1, <2>2, <2>3
<1>3. at \in {"open", "respond"} => sent[held] \in TargetKind
  BY DEF IInv, Heard
<1>4. TypeOK' /\ InTurn'
  BY <1>1, <1>2 DEF IInv, TypeOK, InTurn, At
<1>5. AnsweredIfHeard'
  <2>1. ASSUME NEW c \in Conn, reply'[c] # "none" PROVE sent[c] \in TargetKind
    BY <1>2, <1>3, <2>1 DEF IInv, TypeOK, AnsweredIfHeard
  <2>2. QED BY <1>1, <1>2, <2>1 DEF AnsweredIfHeard, LetDown
<1>6. Heard'
  BY <1>1, <1>3 DEF Handshake, Read, Open, Respond, Write, Goto, Heard
<1>7. QED BY <1>4, <1>5, <1>6 DEF IInv

LEMMA StepInv == IInv /\ [Next]_vars => IInv'
<1> SUFFICES ASSUME IInv, [Next]_vars PROVE IInv'
  OBVIOUS
<1>1. CASE UNCHANGED vars
  BY <1>1 DEF vars, serverVars, clientVars, IInv, TypeOK, InTurn,
               AnsweredIfHeard, LetDown, Heard
<1>2. QED BY <1>1, ClientKeeps, AcceptKeeps, ShutdownKeeps, TurnKeeps DEF Next, Serve, Idle

-----------------------------------------------------------------------------
(***************************************************************************)
(* The theorems.                                                           *)
(***************************************************************************)
\* The invariant holds in every state.
THEOREM Invariance == Spec => []IInv
BY InitInv, StepInv, PTL DEF Spec

\* The state keeps its types: a stream is open exactly while a turn lasts.
THEOREM TypeCorrect == Spec => []TypeOK
<1>1. IInv => TypeOK
  BY DEF IInv
<1>2. QED BY <1>1, Invariance, PTL

\* No stream is lost, closed twice or served out of turn.
THEOREM ServedInTurn == Spec => []InTurn
<1>1. IInv => InTurn
  BY DEF IInv
<1>2. QED BY <1>1, Invariance, PTL

\* A client that is there goes without a reply only if it sent no request that
\* parses, or if the file it asked for opened and then could not be read.
THEOREM HeardIsAnswered == Spec => []AnsweredIfHeard
<1>1. IInv => AnsweredIfHeard
  BY DEF IInv
<1>2. QED BY <1>1, Invariance, PTL
-----------------------------------------------------------------------------
(***************************************************************************)
(* The loop implements ConnectionService with one slot.                    *)
(***************************************************************************)
Done(c)  == \E i \in DOMAIN released : released[i] = c
Queued(c) == \E i \in DOMAIN backlog : backlog[i] = c

\* A connection is in one place, and what it has been sent fits the place.
Placed ==
  /\ \A i, j \in DOMAIN backlog : backlog[i] = backlog[j] => i = j
  /\ \A c \in Conn :
       /\ Queued(c) => sent[c] # "absent" /\ ~Done(c) /\ held # c
       /\ Done(c) => sent[c] # "absent" /\ held # c
       /\ held = c => sent[c] # "absent"
       /\ reply[c] # "none" => Done(c) \/ held = c
  /\ at \in {"handshake", "read", "open", "respond"} => reply[held] = "none"

LEMMA InitPlaced == Init => Placed
BY FileServerAssumption DEF Init, Placed, Queued, Done

\* A queue and its new tail, and its rest.
LEMMA DoneAppends ==
  ASSUME NEW s \in Seq(Conn), NEW x \in Conn, NEW c \in Conn
  PROVE  LET t == Append(s, x) IN
         (\E i \in DOMAIN t : t[i] = c) <=> (\E i \in DOMAIN s : s[i] = c) \/ c = x
<1> DEFINE t == Append(s, x)
<1>1. /\ Len(s) \in Nat /\ DOMAIN s = 1..Len(s) /\ DOMAIN t = 1..(Len(s) + 1)
      /\ t[Len(s) + 1] = x /\ \A i \in 1..Len(s) : t[i] = s[i]
  OBVIOUS
<1> HIDE DEF t
<1>2. QED BY <1>1

LEMMA TailKeeps ==
  ASSUME NEW s \in Seq(Conn), s # <<>>, NEW c \in Conn,
         \A i, j \in DOMAIN s : s[i] = s[j] => i = j
  PROVE  LET t == Tail(s) IN
         /\ (\E i \in DOMAIN t : t[i] = c) <=> (\E i \in DOMAIN s : s[i] = c) /\ c # Head(s)
         /\ \E i \in DOMAIN s : s[i] = Head(s)
         /\ \A i, j \in DOMAIN t : t[i] = t[j] => i = j
<1> DEFINE t == Tail(s)
<1>1. /\ Len(s) \in Nat /\ Len(s) >= 1 /\ DOMAIN s = 1..Len(s) /\ DOMAIN t = 1..(Len(s) - 1)
      /\ Head(s) = s[1] /\ \A i \in 1..(Len(s) - 1) : t[i] = s[i + 1]
  OBVIOUS
<1> HIDE DEF t
<1>2. \A i \in 1..(Len(s) - 1) : i + 1 \in 1..Len(s) /\ i + 1 # 1
  BY <1>1
<1>3. ASSUME NEW i \in 1..Len(s), i # 1
      PROVE  i - 1 \in 1..(Len(s) - 1) /\ t[i - 1] = s[i]
  <2>1. i - 1 \in 1..(Len(s) - 1) /\ (i - 1) + 1 = i
    BY <1>1, <1>3
  <2>2. t[i - 1] = s[(i - 1) + 1]
    BY <1>1, <2>1
  <2>3. QED BY <2>1, <2>2
<1>4. 1 \in DOMAIN s
  BY <1>1
<1>5. (\E i \in DOMAIN t : t[i] = c) => (\E i \in DOMAIN s : s[i] = c) /\ c # Head(s)
  BY <1>1, <1>2, <1>4
<1>6. (\E i \in DOMAIN s : s[i] = c) /\ c # Head(s) => \E i \in DOMAIN t : t[i] = c
  BY <1>1, <1>3
<1>7. \A i, j \in DOMAIN t : t[i] = t[j] => i + 1 = j + 1
  BY <1>1, <1>2
<1>8. \A i, j \in DOMAIN t : i + 1 = j + 1 => i = j
  BY <1>1
<1>9. QED BY <1>1, <1>4, <1>5, <1>6, <1>7, <1>8 DEF t

\* The status of a connection follows from the place it is in.
LEMMA StatusIs ==
  ASSUME Placed, NEW c \in Conn
  PROVE  /\ sent[c] = "absent" => StatusOf(c) = "away"
         /\ Done(c) => StatusOf(c) = "ended"
         /\ held = c => StatusOf(c) = IF reply[c] = "none" THEN "serving" ELSE "answered"
         /\ sent[c] # "absent" /\ ~Done(c) /\ held # c => StatusOf(c) = "waiting"
         /\ Queued(c) => StatusOf(c) = "waiting"
BY DEF Placed, StatusOf, Done

\* A step that moves no connection and answers none is not seen.
LEMMA Unseen ==
  ASSUME UNCHANGED <<held, released, reply>>,
         \A c \in Conn : sent[c] = "absent" <=> sent'[c] = "absent"
  PROVE  UNCHANGED <<[c \in Conn |-> StatusOf(c)], [w \in {"turn"} |-> held]>>
BY DEF StatusOf

LEMMA ServiceInit == Init => Service!Init
BY FileServerAssumption DEF Init, Service!Init, StatusOf

\* The clients: one that connects arrives.
LEMMA ClientRefines ==
  ASSUME IInv, Placed, NEW c \in Conn, Connect(c) \/ Leave(c) \/ \E m \in Wire : Send(c, m)
  PROVE  Placed' /\ [Service!Next]_(Service!vars)
<1>1. CASE Connect(c)
  <2>1. /\ backlog' = Append(backlog, c) /\ backlog \in Seq(Conn) /\ at # "dead"
        /\ sent' = [sent EXCEPT ![c] = "silent"] /\ sent[c] = "absent" /\ sent \in [Conn -> Wire]
        /\ UNCHANGED <<at, held, reply, released, gone>>
    BY <1>1 DEF Connect, serverVars, IInv, TypeOK
  <2>2. \A d \in Conn : (Queued(d)' <=> Queued(d) \/ d = c) /\ (Done(d)' <=> Done(d))
    BY <2>1, DoneAppends DEF Queued, Done
  <2>3. ~Queued(c) /\ ~Done(c) /\ held # c
    BY <2>1 DEF Placed
  <2>4. \A i, j \in DOMAIN backlog' : backlog'[i] = backlog'[j] => i = j
    <3>1. /\ Len(backlog) \in Nat /\ DOMAIN backlog = 1..Len(backlog)
          /\ DOMAIN backlog' = 1..(Len(backlog) + 1) /\ backlog'[Len(backlog) + 1] = c
          /\ \A i \in 1..Len(backlog) : backlog'[i] = backlog[i]
      BY <2>1
    <3>2. QED BY <2>3, <3>1 DEF Placed, Queued
  <2>5. Placed'
    BY <2>1, <2>2, <2>3, <2>4 DEF Placed
  <2>6. /\ StatusOf(c) = "away" /\ StatusOf(c)' = "waiting"
        /\ \A d \in Conn : d # c => StatusOf(d)' = StatusOf(d)
    BY <2>1, <2>3 DEF StatusOf, Done
  <2>7. Service!Arrive(c) /\ UNCHANGED (at = "dead")
    BY <2>1, <2>6 DEF Service!Arrive
  <2>8. QED BY <2>1, <2>5, <2>7 DEF Service!Next, Service!Serve
<1>2. CASE Leave(c) \/ \E m \in Wire : Send(c, m)
  <2>1. /\ UNCHANGED <<at, held, reply, released, backlog>>
        /\ \A d \in Conn : sent[d] = "absent" <=> sent'[d] = "absent"
    BY <1>2, FileServerAssumption
       DEF Leave, Send, NextOnWire, serverVars, IInv, TypeOK, TargetKind
  <2>2. Placed'
    BY <2>1 DEF Placed, Queued, Done
  <2>3. QED BY <2>1, <2>2, Unseen DEF Service!vars
<1>3. QED BY <1>1, <1>2

\* The loop: accept takes the slot, a write answers, the guard ends.
LEMMA AcceptRefines == IInv /\ Placed /\ Accept => Placed' /\ [Service!Next]_(Service!vars)
<1> SUFFICES ASSUME IInv, Placed, Accept PROVE Placed' /\ [Service!Next]_(Service!vars)
  OBVIOUS
<1>0. PICK x : x = Head(backlog)
  OBVIOUS
<1>1. /\ at = "accept" /\ held = None /\ backlog # <<>> /\ backlog \in Seq(Conn)
      /\ at' = "handshake" /\ held' = x /\ backlog' = Tail(backlog)
      /\ UNCHANGED <<reply, released, sent, gone>>
  BY <1>0 DEF Accept, clientVars, IInv, TypeOK
<1>2. x \in Conn /\ x # None
  BY <1>0, <1>1, HeadTailProperties, FileServerAssumption
<1>3. /\ \A d \in Conn : (Queued(d)' <=> Queued(d) /\ d # x) /\ (Done(d)' <=> Done(d))
      /\ Queued(x) /\ \A i, j \in DOMAIN backlog' : backlog'[i] = backlog'[j] => i = j
  BY <1>0, <1>1, <1>2, TailKeeps DEF Queued, Done, Placed
<1>4. ~Done(x) /\ sent[x] # "absent" /\ reply[x] = "none"
  BY <1>1, <1>2, <1>3, FileServerAssumption DEF Placed
<1>5. Placed'
  BY <1>1, <1>2, <1>3, <1>4, FileServerAssumption DEF Placed
<1>6. /\ StatusOf(x) = "waiting" /\ StatusOf(x)' = "serving"
      /\ \A d \in Conn : d # x => StatusOf(d)' = StatusOf(d)
  <2>1. StatusOf(x) = "waiting"
    BY <1>1, <1>2, <1>4, StatusIs
  <2>2. ~Done(x)'
    BY <1>2, <1>3, <1>4
  <2>3. StatusOf(x)' = "serving"
    BY <1>1, <1>4, <2>2 DEF StatusOf, Done
  <2>4. ASSUME NEW d \in Conn, d # x PROVE StatusOf(d)' = StatusOf(d)
    <3>1. held # d /\ held' # d
      BY <1>1, <2>4, FileServerAssumption
    <3>2. QED BY <1>1, <3>1 DEF StatusOf
  <2>5. QED BY <2>1, <2>3, <2>4
<1>7. Service!Assign("turn", x) /\ UNCHANGED (at = "dead")
  BY <1>1, <1>2, <1>6 DEF Service!Assign
<1>8. QED BY <1>1, <1>2, <1>5, <1>7 DEF Service!Next, Service!Serve

LEMMA ShutdownRefines == IInv /\ Placed /\ Shutdown => Placed' /\ [Service!Next]_(Service!vars)
<1> SUFFICES ASSUME IInv, Placed, Shutdown PROVE Placed' /\ [Service!Next]_(Service!vars)
  OBVIOUS
<1>1. /\ at = "shutdown" /\ held \in Conn /\ held # None /\ released \in Seq(Conn)
      /\ at' = "accept" /\ held' = None /\ released' = Append(released, held)
      /\ UNCHANGED <<reply, sent, gone, backlog>>
  BY FileServerAssumption DEF Shutdown, clientVars, IInv, TypeOK
<1>2. \A d \in Conn : (Done(d)' <=> Done(d) \/ d = held) /\ (Queued(d)' <=> Queued(d))
  BY <1>1, DoneAppends DEF Queued, Done
<1>3. \A d \in Conn : held' # d
  BY <1>1, FileServerAssumption
<1>4. Placed'
  BY <1>1, <1>2, <1>3 DEF Placed
<1>5. StatusOf(held) \in {"serving", "answered"}
  BY <1>1, StatusIs
<1>6. \A d \in Conn : StatusOf(d)' = IF d = held THEN "ended" ELSE StatusOf(d)
  <2>1. \A d \in Conn : d # held => StatusOf(d)' = StatusOf(d)
    BY <1>1, <1>2, <1>3 DEF StatusOf, Done
  <2>2. sent[held] # "absent"
    BY <1>1 DEF Placed
  <2>3. ASSUME NEW d \in Conn, d = held PROVE StatusOf(d)' = "ended"
    BY <1>1, <1>2, <2>2, <2>3 DEF StatusOf, Done
  <2>4. QED BY <2>1, <2>3
<1>7. Service!End("turn") /\ UNCHANGED (at = "dead")
  BY <1>1, <1>5, <1>6 DEF Service!End
<1>8. QED BY <1>1, <1>4, <1>7 DEF Service!Next, Service!Serve

LEMMA TurnRefines ==
  IInv /\ Placed /\ (Handshake \/ Read \/ Open \/ Respond) =>
    Placed' /\ [Service!Next]_(Service!vars)
<1> SUFFICES ASSUME IInv, Placed, Handshake \/ Read \/ Open \/ Respond
             PROVE  Placed' /\ [Service!Next]_(Service!vars)
  OBVIOUS
<1>1. /\ at \in {"handshake", "read", "open", "respond"}
      /\ held \in Conn /\ reply \in [Conn -> Reply]
      /\ UNCHANGED <<held, backlog, released, sent, gone>> /\ reply[held] = "none"
  BY DEF Handshake, Read, Open, Respond, Write, Goto, clientVars, IInv, TypeOK, Placed
<1>2. CASE \E r \in Reply \ {"none"} : reply' = [reply EXCEPT ![held] = r] /\ at' = "shutdown"
  <2>1. PICK r \in Reply \ {"none"} : reply' = [reply EXCEPT ![held] = r] /\ at' = "shutdown"
    BY <1>2
  <2>2. Placed'
    BY <1>1, <2>1 DEF Placed, Queued, Done
  <2>3. \A d \in Conn : StatusOf(d)' = IF d = held THEN "answered" ELSE StatusOf(d)
    BY <1>1, <2>1 DEF StatusOf, Placed, Done
  <2>4. StatusOf(held) = "serving"
    BY <1>1, StatusIs
  <2>5. Service!Answer("turn") /\ UNCHANGED (at = "dead")
    BY <1>1, <2>1, <2>3, <2>4 DEF Service!Answer
  <2>6. QED BY <1>1, <2>2, <2>5 DEF Service!Next, Service!Serve
<1>3. CASE UNCHANGED reply /\ at' \in {"read", "open", "respond", "shutdown", "dead"}
  <2>1. Placed'
    BY <1>1, <1>3 DEF Placed, Queued, Done
  <2>2. UNCHANGED <<[c \in Conn |-> StatusOf(c)], [w \in {"turn"} |-> held]>>
    BY <1>1, <1>3, Unseen
  <2>3. CASE at' = "dead"
    BY <1>1, <2>1, <2>2, <2>3 DEF Service!Next, Service!Halt
  <2>4. CASE at' # "dead"
    BY <1>1, <2>1, <2>2, <2>4 DEF Service!vars
  <2>5. QED BY <2>3, <2>4
<1>4. QED BY <1>2, <1>3 DEF Handshake, Read, Open, Respond, Write, Goto, Reply

LEMMA StepRefines == IInv /\ Placed /\ [Next]_vars => Placed' /\ [Service!Next]_(Service!vars)
<1> SUFFICES ASSUME IInv, Placed, [Next]_vars PROVE Placed' /\ [Service!Next]_(Service!vars)
  OBVIOUS
<1>1. CASE UNCHANGED vars
  <2>1. UNCHANGED <<at, held, backlog, reply, released, sent>>
    BY <1>1 DEF vars, serverVars, clientVars
  <2>2. Placed'
    BY <2>1 DEF Placed, Queued, Done
  <2>3. QED BY <2>1, <2>2, Unseen DEF Service!vars
<1>2. QED BY <1>1, ClientRefines, AcceptRefines, ShutdownRefines, TurnRefines DEF Next, Serve, Idle

\* The file server is the service that Server is too, with a single slot: its
\* connections arrive, wait, are served one at a time, answered at most once
\* and let go.
THEOREM Refinement == Spec => ServiceSpec
<1>1. Init => IInv /\ Placed /\ Service!Init
  BY InitInv, InitPlaced, ServiceInit
<1>2. IInv /\ Placed /\ [Next]_vars => (IInv /\ Placed)' /\ [Service!Next]_(Service!vars)
  BY StepInv, StepRefines
<1>3. QED BY <1>1, <1>2, PTL DEF Spec, ServiceSpec, Service!Spec
=============================================================================
