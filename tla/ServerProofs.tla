---------------------------- MODULE ServerProofs ----------------------------
(***************************************************************************)
(* What Server promises for every set of connections and threads, either   *)
(* kind of stream and either accept loop.  The argument is one inductive   *)
(* invariant, IInv.                                                        *)
(***************************************************************************)
EXTENDS Server, FiniteSetTheorems, TLAPS

\* The accept chain, spelled out: which coroutine it is, if it is alive.
ChainShape ==
  /\ server = "starting" =>
       accepting = 0 /\ handshaking = {} /\ handingOff = {}
  /\ server = "listening" =>
       \/ accepting = 1 /\ handshaking = {} /\ handingOff = {}
       \/ accepting = 0 /\ (\E c \in Conn : handshaking = {c}) /\ handingOff = {}
       \/ accepting = 0 /\ handshaking = {} /\ (\E c \in Conn : handingOff = {c})

\* A connection is inside the pipeline exactly while a thread runs it.
StageOfRunning == \A c \in Conn : stage[c] # "none" <=> c \in Running

\* What each stage already knows about the request and the client.
StageKnows ==
  \A c \in Conn :
    /\ stage[c] \in {"select", "process"} => sent[c] = "request"
    /\ reply[c] = "spoiled" => stage[c] = "log" \/ ended[c] = "dropped"
    /\ SslOn /\ c \in handingOff => sent[c] \notin {"silent", "garbage"}
    /\ sent[c] = "absent" => ended[c] = "no"

IInv == /\ TypeOK /\ ChainShape /\ OneOwner /\ StageOfRunning
        /\ ReplyAccounting /\ OnlyGenuineServed /\ StageKnows

-----------------------------------------------------------------------------
(***************************************************************************)
(* The backlog as a queue: what Append and Tail do to its elements.        *)
(***************************************************************************)
\* Connect appends to the backlog: one more element, still no duplicates.
LEMMA AppendElements ==
  ASSUME NEW S, NEW s \in Seq(S), NEW e \in S
  PROVE  LET t == Append(s, e) IN
         /\ t \in Seq(S)
         /\ {t[i] : i \in DOMAIN t} = {s[i] : i \in DOMAIN s} \cup {e}
         /\ (/\ e \notin {s[i] : i \in DOMAIN s}
             /\ \A i, j \in DOMAIN s : s[i] = s[j] => i = j)
            => \A i, j \in DOMAIN t : t[i] = t[j] => i = j
<1> DEFINE t == Append(s, e)
<1>1. /\ t \in Seq(S) /\ Len(s) \in Nat
      /\ DOMAIN s = 1..Len(s) /\ DOMAIN t = 1..(Len(s) + 1)
      /\ t[Len(s) + 1] = e
      /\ \A i \in 1..Len(s) : t[i] = s[i]
  OBVIOUS
<1>2. {t[i] : i \in DOMAIN t} = {s[i] : i \in DOMAIN s} \cup {e}
  BY <1>1
<1>3. ASSUME e \notin {s[i] : i \in DOMAIN s},
             \A i, j \in DOMAIN s : s[i] = s[j] => i = j
      PROVE  \A i, j \in DOMAIN t : t[i] = t[j] => i = j
  BY <1>1, <1>3
<1>4. QED BY <1>1, <1>2, <1>3

\* Accept takes the head: it leaves the backlog and the rest keeps its order.
LEMMA TailElements ==
  ASSUME NEW S, NEW s \in Seq(S), s # <<>>,
         \A i, j \in DOMAIN s : s[i] = s[j] => i = j
  PROVE  LET t == Tail(s) IN
         /\ t \in Seq(S) /\ Head(s) \in S
         /\ {t[i] : i \in DOMAIN t} = {s[i] : i \in DOMAIN s} \ {Head(s)}
         /\ Head(s) \in {s[i] : i \in DOMAIN s}
         /\ \A i, j \in DOMAIN t : t[i] = t[j] => i = j
<1> DEFINE t == Tail(s)
<1>1. /\ t \in Seq(S) /\ Len(s) \in Nat /\ Len(s) >= 1
      /\ DOMAIN s = 1..Len(s) /\ DOMAIN t = 1..(Len(s) - 1)
      /\ Head(s) = s[1] /\ s[1] \in S
      /\ \A i \in 1..(Len(s) - 1) : t[i] = s[i + 1]
  OBVIOUS
<1> HIDE DEF t
<1>2. {t[i] : i \in DOMAIN t} \subseteq {s[i] : i \in DOMAIN s} \ {Head(s)}
  <2> SUFFICES ASSUME NEW i \in DOMAIN t
               PROVE  t[i] \in {s[k] : k \in DOMAIN s} \ {Head(s)}
    OBVIOUS
  <2>1. i + 1 \in DOMAIN s /\ i + 1 # 1 /\ 1 \in DOMAIN s
    BY <1>1
  <2>2. QED BY <1>1, <2>1
<1>3. {s[i] : i \in DOMAIN s} \ {Head(s)} \subseteq {t[i] : i \in DOMAIN t}
  <2> SUFFICES ASSUME NEW i \in DOMAIN s, s[i] # Head(s)
               PROVE  s[i] \in {t[k] : k \in DOMAIN t}
    OBVIOUS
  <2>1. i # 1 /\ i - 1 \in DOMAIN t /\ (i - 1) + 1 = i
    BY <1>1
  <2>2. t[i - 1] = s[i]
    BY <1>1, <2>1
  <2>3. QED BY <2>1, <2>2
<1>4. \A i, j \in DOMAIN t : t[i] = t[j] => i = j
  <2> SUFFICES ASSUME NEW i \in DOMAIN t, NEW j \in DOMAIN t, t[i] = t[j]
               PROVE  i = j
    OBVIOUS
  <2>1. /\ i + 1 \in DOMAIN s /\ j + 1 \in DOMAIN s /\ i \in Int /\ j \in Int
        /\ s[i + 1] = s[j + 1]
    BY <1>1
  <2>2. i + 1 = j + 1
    BY <2>1
  <2>3. QED BY <2>1, <2>2
<1>5. 1 \in DOMAIN s
  BY <1>1
<1>6. QED BY <1>1, <1>2, <1>3, <1>4, <1>5 DEF t

-----------------------------------------------------------------------------
(***************************************************************************)
(* IInv holds at first and every step preserves it.                        *)
(***************************************************************************)
\* Before Listen there is no coroutine, no task and no connection.
LEMMA InitInv == Init => IInv
<1> SUFFICES ASSUME Init PROVE IInv
  OBVIOUS
<1>1. InBacklog = {} /\ Running = {} /\ Live = {}
  BY ServerAssumption DEF Init, InBacklog, Running, Live, ServerAssumption
<1>2. TypeOK
  BY ServerAssumption DEF Init, TypeOK, ServerAssumption, Stage, Reply, End, Wire
<1>3. OneOwner
  BY <1>1, ServerAssumption DEF Init, OneOwner, ServerAssumption
<1>4. ChainShape /\ StageOfRunning /\ ReplyAccounting /\ OnlyGenuineServed /\ StageKnows
  BY <1>1 DEF Init, ChainShape, StageOfRunning, ReplyAccounting,
              OnlyGenuineServed, StageKnows
<1>5. QED BY <1>2, <1>3, <1>4 DEF IInv

\* A step that leaves backlog, threads and the life of connections alone
\* changes no derived set of owners.
LEMMA SameOwners ==
  /\ UNCHANGED backlog => InBacklog' = InBacklog
  /\ UNCHANGED worker => Running' = Running
  /\ UNCHANGED <<sent, ended>> => Live' = Live
BY DEF InBacklog, Running, Live

\* A disturbance of the clients' wires or of start-up touches no owner.
LEMMA StartKeeps ==
  ASSUME IInv, Listen \/ BindFails
  PROVE  IInv'
<1>1. TypeOK'
  BY DEF IInv, TypeOK, Listen, BindFails, poolVars, pipeVars, clientVars
<1>2. OneOwner'
  BY SameOwners DEF IInv, OneOwner, Listen, BindFails, poolVars, pipeVars, clientVars
<1>3. ChainShape'
  BY DEF IInv, ChainShape, Listen, BindFails
<1>4. StageOfRunning' /\ ReplyAccounting' /\ OnlyGenuineServed' /\ StageKnows'
  BY SameOwners DEF IInv, StageOfRunning, ReplyAccounting, OnlyGenuineServed,
     StageKnows, Listen, BindFails, poolVars, pipeVars, clientVars
<1>5. QED BY <1>1, <1>2, <1>3, <1>4 DEF IInv

\* A new client enters the backlog, owned by the kernel only.
LEMMA ConnectKeeps ==
  ASSUME IInv, NEW c \in Conn, Connect(c)
  PROVE  IInv'
<1> USE DEF poolVars, pipeVars
<1>1. TypeOK /\ OneOwner /\ backlog' = Append(backlog, c)
  BY DEF IInv, Connect
<1>2. c \notin Live
  BY DEF Connect, Live
<1>3. /\ InBacklog' = InBacklog \cup {c}
      /\ backlog' \in Seq(Conn)
      /\ \A i, j \in DOMAIN backlog' : backlog'[i] = backlog'[j] => i = j
  <2>1. /\ backlog \in Seq(Conn) /\ c \notin InBacklog
        /\ \A i, j \in DOMAIN backlog : backlog[i] = backlog[j] => i = j
    BY <1>1, <1>2 DEF TypeOK, OneOwner
  <2> DEFINE t == Append(backlog, c)
  <2>2. /\ t \in Seq(Conn)
        /\ {t[i] : i \in DOMAIN t} = {backlog[i] : i \in DOMAIN backlog} \cup {c}
        /\ \A i, j \in DOMAIN t : t[i] = t[j] => i = j
    BY <2>1, AppendElements DEF InBacklog
  <2> HIDE DEF t
  <2>3. backlog' = t
    BY <1>1 DEF t
  <2>4. QED BY <2>2, <2>3 DEF InBacklog
<1>4. Live' = Live \cup {c} /\ Running' = Running
  <2>1. ended[c] = "no"
    BY DEF IInv, Connect, StageKnows
  <2>2. QED BY <2>1, <1>1 DEF Connect, Live, TypeOK, Running
<1>5. TypeOK'
  BY <1>1, <1>3 DEF TypeOK, Connect, Wire
<1>6. OneOwner'
  BY <1>1, <1>2, <1>3, <1>4 DEF OneOwner, Connect
<1>7. ChainShape'
  BY DEF IInv, ChainShape, Connect
<1>8. StageOfRunning' /\ ReplyAccounting'
  BY <1>4 DEF IInv, StageOfRunning, ReplyAccounting, Connect
<1>9. OnlyGenuineServed' /\ StageKnows'
  BY <1>1, <1>2, <1>4 DEF IInv, OnlyGenuineServed, StageKnows, OneOwner, Connect, TypeOK
<1>10. QED BY <1>5, <1>6, <1>7, <1>8, <1>9 DEF IInv

\* What a client sends or its leaving moves no connection: the wire only gets
\* ahead of what the stages know.
LEMMA WireKeeps ==
  ASSUME IInv, NEW c \in Conn,
         Leave(c) \/ (\E m \in Wire : Send(c, m))
  PROVE  IInv'
<1> USE DEF chainVars, poolVars, pipeVars
<1>1. /\ UNCHANGED <<server, accepting, handshaking, handingOff, faults, backlog,
                     queue, worker, stage, reply, written, ended>>
      /\ sent' = sent \/ (\E m \in NextOnWire(c) : sent' = [sent EXCEPT ![c] = m])
      /\ gone' = gone \/ gone' = [gone EXCEPT ![c] = TRUE]
      /\ sent[c] # "absent"
      /\ TypeOK
  BY DEF IInv, Leave, Send, NextOnWire
<1>2. /\ sent' \in [Conn -> Wire] /\ gone' \in [Conn -> BOOLEAN]
      /\ \A d \in Conn : gone[d] => gone'[d]
      /\ \A d \in Conn : sent'[d] = "absent" <=> sent[d] = "absent"
      /\ \A d \in Conn : sent[d] = "request" => sent'[d] = "request"
      /\ \A d \in Conn : SslOn /\ sent[d] \notin {"silent", "garbage"} =>
                           sent'[d] \notin {"silent", "garbage"}
  <2>1. NextOnWire(c) \subseteq {"hello", "garbage", "request", "malformed"}
    BY DEF NextOnWire
  <2>2. NextOnWire(c) # {} => sent[c] # "request"
    BY DEF NextOnWire
  <2>3. SslOn /\ sent[c] \notin {"silent", "garbage"} =>
          NextOnWire(c) \subseteq {"request", "malformed"}
    BY DEF NextOnWire
  <2>4. QED BY <1>1, <2>1, <2>2, <2>3 DEF TypeOK, Wire
<1>3. TypeOK'
  BY <1>1, <1>2 DEF TypeOK
<1>4. Live' = Live
  BY <1>1, <1>2 DEF Live
<1>5. OneOwner'
  BY <1>1, <1>4, SameOwners DEF IInv, OneOwner
<1>6. ChainShape' /\ StageOfRunning'
  BY <1>1, SameOwners DEF IInv, ChainShape, StageOfRunning
<1>7. ReplyAccounting'
  BY <1>1, <1>2 DEF IInv, ReplyAccounting
<1>8. OnlyGenuineServed'
  BY <1>1, <1>2, SameOwners DEF IInv, OnlyGenuineServed
<1>9. StageKnows'
  BY <1>1, <1>2 DEF IInv, StageKnows
<1>10. QED BY <1>3, <1>5, <1>6, <1>7, <1>8, <1>9 DEF IInv

\* The waiting coroutine takes the oldest connection out of the backlog.
LEMMA AcceptKeeps ==
  ASSUME IInv, Accept
  PROVE  IInv'
<1> USE DEF poolVars, pipeVars, clientVars
<1> DEFINE h == Head(backlog)
<1>1. /\ TypeOK /\ OneOwner /\ backlog # <<>> /\ backlog' = Tail(backlog)
      /\ UNCHANGED <<server, faults, queue, worker, stage, reply, written, ended,
                     sent, gone>>
  BY DEF IInv, Accept
<1>2. /\ h \in Conn /\ h \in InBacklog
      /\ backlog' \in Seq(Conn)
      /\ InBacklog' = InBacklog \ {h}
      /\ \A i, j \in DOMAIN backlog' : backlog'[i] = backlog'[j] => i = j
  <2> DEFINE t == Tail(backlog)
  <2>1. /\ t \in Seq(Conn) /\ h \in Conn
        /\ {t[i] : i \in DOMAIN t} = {backlog[i] : i \in DOMAIN backlog} \ {h}
        /\ h \in {backlog[i] : i \in DOMAIN backlog}
        /\ \A i, j \in DOMAIN t : t[i] = t[j] => i = j
    <3>1. /\ backlog \in Seq(Conn)
          /\ \A i, j \in DOMAIN backlog : backlog[i] = backlog[j] => i = j
      BY <1>1 DEF TypeOK, OneOwner
    <3>2. QED BY <1>1, <3>1, TailElements
  <2> HIDE DEF t
  <2>2. backlog' = t
    BY <1>1 DEF t
  <2>3. QED BY <2>1, <2>2 DEF InBacklog
<1>3. /\ accepting = 1 /\ handshaking = {} /\ handingOff = {} /\ accepting' = 0
      /\ server = "listening"
      /\ IF SslOn THEN handshaking' = {h} /\ handingOff' = {}
                  ELSE handshaking' = {} /\ handingOff' = {h}
  <2>1. accepting = 1 /\ handshaking = {} /\ handingOff = {} /\ server = "listening"
    BY DEF IInv, ChainShape, Accept, Waiting
  <2>2. QED BY <2>1 DEF Accept
<1> HIDE DEF h
<1>4. TypeOK'
  BY <1>1, <1>2, <1>3 DEF TypeOK
<1>5. OneOwner'
  BY <1>1, <1>2, <1>3, SameOwners DEF OneOwner
<1>6. ChainShape'
  BY <1>1, <1>2, <1>3 DEF ChainShape
<1>7. StageOfRunning' /\ ReplyAccounting' /\ OnlyGenuineServed'
  BY <1>1, SameOwners DEF IInv, StageOfRunning, ReplyAccounting, OnlyGenuineServed
<1>8. StageKnows'
  BY <1>1, <1>3 DEF IInv, StageKnows
<1>9. QED BY <1>4, <1>5, <1>6, <1>7, <1>8 DEF IInv

\* A failed accept either ends the server or leaves one coroutine waiting.
LEMMA AcceptFailsKeeps ==
  ASSUME IInv, AcceptFails
  PROVE  IInv'
<1> USE DEF poolVars, pipeVars, clientVars
<1>1. /\ UNCHANGED <<handshaking, handingOff, backlog, queue, worker, stage, reply,
                     written, ended, sent, gone>>
      /\ server = "listening" /\ accepting = 1 /\ TypeOK
      /\ \/ server' = "terminated" /\ accepting' = 0
         \/ server' = "listening" /\ accepting' = 1
  BY DEF IInv, ChainShape, AcceptFails, Waiting
<1>2. TypeOK'
  BY <1>1, ServerAssumption DEF TypeOK, AcceptFails, ServerAssumption
<1>3. OneOwner'
  BY <1>1, SameOwners DEF IInv, OneOwner
<1>4. ChainShape'
  BY <1>1 DEF IInv, ChainShape
<1>5. StageOfRunning' /\ ReplyAccounting' /\ OnlyGenuineServed' /\ StageKnows'
  BY <1>1, SameOwners DEF IInv, StageOfRunning, ReplyAccounting,
                          OnlyGenuineServed, StageKnows
<1>6. QED BY <1>2, <1>3, <1>4, <1>5 DEF IInv

\* The coroutine keeps its one connection through the handshake.
LEMMA HandshakeDoneKeeps ==
  ASSUME IInv, NEW c \in Conn, HandshakeDone(c)
  PROVE  IInv'
<1> USE DEF poolVars, pipeVars, clientVars
<1>1. /\ UNCHANGED <<server, accepting, faults, backlog, queue, worker, stage, reply,
                     written, ended, sent, gone>>
      /\ server = "listening" /\ accepting = 0
      /\ handshaking = {c} /\ handingOff = {}
      /\ handshaking' = {} /\ handingOff' = {c}
      /\ sent[c] \notin {"silent", "garbage"}
      /\ TypeOK
  BY DEF IInv, ChainShape, HandshakeDone
<1>2. TypeOK'
  BY <1>1 DEF TypeOK
<1>3. OneOwner'
  BY <1>1, SameOwners DEF IInv, OneOwner
<1>4. ChainShape'
  BY <1>1 DEF ChainShape
<1>5. StageOfRunning' /\ ReplyAccounting' /\ OnlyGenuineServed' /\ StageKnows'
  BY <1>1, SameOwners DEF IInv, StageOfRunning, ReplyAccounting,
                          OnlyGenuineServed, StageKnows
<1>6. QED BY <1>2, <1>3, <1>4, <1>5 DEF IInv

\* A failed handshake ends the connection and the chain accepts again.
LEMMA HandshakeFailsKeeps ==
  ASSUME IInv, NEW c \in Conn, HandshakeFails(c)
  PROVE  IInv'
<1> USE DEF poolVars, pipeVars, clientVars
<1>1. /\ UNCHANGED <<server, faults, backlog, queue, worker, stage, reply, written,
                     sent, gone>>
      /\ server = "listening" /\ accepting' = 1
      /\ handshaking = {c} /\ handingOff = {}
      /\ handshaking' = {} /\ handingOff' = {}
      /\ ended' = [ended EXCEPT ![c] = "rejected"]
      /\ TypeOK
  BY DEF IInv, ChainShape, HandshakeFails, Respawn
<1>2. c \in Live /\ c \notin Running /\ ended[c] = "no" /\ sent[c] # "absent"
  BY <1>1 DEF IInv, OneOwner, Live
<1>3. Live' = Live \ {c}
  BY <1>1, <1>2 DEF Live, TypeOK
<1>4. TypeOK'
  BY <1>1 DEF TypeOK, End
<1>5. OneOwner'
  BY <1>1, <1>3, SameOwners DEF IInv, OneOwner
<1>6. ChainShape'
  BY <1>1 DEF ChainShape
<1>7. stage[c] = "none"
  BY <1>1, <1>2 DEF IInv, StageOfRunning
<1>8. StageOfRunning' /\ ReplyAccounting' /\ OnlyGenuineServed' /\ StageKnows'
  BY <1>1, <1>2, <1>7, SameOwners
     DEF IInv, StageOfRunning, ReplyAccounting, OnlyGenuineServed, StageKnows, TypeOK
<1>9. QED BY <1>4, <1>5, <1>6, <1>8 DEF IInv

\* do_work gives its connection to the pool and the chain accepts again.
LEMMA HandOffKeeps ==
  ASSUME IInv, NEW c \in Conn, HandOff(c)
  PROVE  IInv'
<1> USE DEF poolVars, pipeVars, clientVars
<1>1. /\ UNCHANGED <<server, faults, backlog, worker, stage, reply, written, ended,
                     sent, gone>>
      /\ server = "listening" /\ accepting' = 1
      /\ handingOff = {c} /\ handshaking = {}
      /\ handingOff' = {} /\ handshaking' = {}
      /\ queue' = queue \cup {c}
      /\ TypeOK
  BY DEF IInv, ChainShape, HandOff, Surrender, Respawn
<1>2. TypeOK'
  BY <1>1 DEF TypeOK
<1>3. OneOwner'
  BY <1>1, SameOwners DEF IInv, OneOwner
<1>4. ChainShape'
  BY <1>1 DEF ChainShape
<1>5. StageOfRunning' /\ ReplyAccounting' /\ OnlyGenuineServed' /\ StageKnows'
  BY <1>1, SameOwners DEF IInv, StageOfRunning, ReplyAccounting,
                          OnlyGenuineServed, StageKnows
<1>6. QED BY <1>2, <1>3, <1>4, <1>5 DEF IInv

\* An idle thread takes a connection out of the queue: it changes owner.
LEMMA TakeKeeps ==
  ASSUME IInv, NEW w \in Worker, NEW c \in Conn, Take(w, c)
  PROVE  IInv'
<1> USE DEF chainVars, clientVars
<1>1. /\ UNCHANGED <<server, accepting, handshaking, handingOff, faults, backlog,
                     reply, written, ended, sent, gone>>
      /\ worker[w] = None /\ c \in queue /\ c # None
      /\ queue' = queue \ {c}
      /\ worker' = [worker EXCEPT ![w] = c]
      /\ stage' = [stage EXCEPT ![c] = "read"]
      /\ TypeOK
  BY ServerAssumption DEF IInv, Take, ServerAssumption
<1>2. /\ c \notin Running
      /\ c \in Live
      /\ c \notin InBacklog \cup handshaking \cup handingOff
  BY <1>1 DEF IInv, OneOwner
<1>3. Running' = Running \cup {c}
  <2>1. \A d \in Conn : d # c => (d \in Running' <=> d \in Running)
    BY <1>1, ServerAssumption DEF Running, TypeOK, ServerAssumption
  <2>2. c \in Running'
    BY <1>1 DEF Running, TypeOK
  <2>3. QED BY <2>1, <2>2 DEF Running
<1>4. \A u, v \in Worker : worker'[u] = worker'[v] /\ worker'[u] # None => u = v
  BY <1>1, <1>2 DEF IInv, OneOwner, TypeOK, Running
<1>5. TypeOK'
  BY <1>1 DEF TypeOK, Stage
<1>6. OneOwner'
  BY <1>1, <1>2, <1>3, <1>4, SameOwners DEF IInv, OneOwner
<1>7. ChainShape'
  BY <1>1 DEF IInv, ChainShape
<1>8. StageOfRunning'
  BY <1>1, <1>3 DEF IInv, StageOfRunning, TypeOK
<1>9. ReplyAccounting' /\ OnlyGenuineServed' /\ StageKnows'
  <2>1. stage[c] = "none" /\ ended[c] = "no"
    BY <1>1, <1>2 DEF IInv, StageOfRunning, Live
  <2>2. QED
    BY <1>1, <1>3, <2>1 DEF IInv, ReplyAccounting, OnlyGenuineServed, StageKnows, TypeOK
<1>10. QED BY <1>5, <1>6, <1>7, <1>8, <1>9 DEF IInv

\* A stage that ends and hands over to the next one stays with its thread.
LEMMA StageKeepsOwners ==
  ASSUME IInv, NEW c \in Conn, NEW s \in Stage \ {"none"}, stage[c] # "none", Goto(c, s)
  PROVE  /\ stage' = [stage EXCEPT ![c] = s] /\ stage' \in [Conn -> Stage]
         /\ UNCHANGED <<backlog, handshaking, handingOff, queue, worker, sent, ended,
                        gone>>
         /\ Running' = Running
         /\ OneOwner' /\ ChainShape' /\ StageOfRunning'
<1>1. /\ UNCHANGED <<server, accepting, handshaking, handingOff, backlog, queue, worker,
                     ended, sent, gone>>
      /\ stage' = [stage EXCEPT ![c] = s]
      /\ TypeOK
  BY DEF IInv, Goto, chainVars, poolVars, clientVars
<1>2. Running' = Running /\ OneOwner' /\ ChainShape'
  BY <1>1, SameOwners DEF IInv, OneOwner, ChainShape
<1>3. stage' \in [Conn -> Stage] /\ StageOfRunning'
  BY <1>1, SameOwners DEF IInv, StageOfRunning, TypeOK
<1>4. QED BY <1>1, <1>2, <1>3

\* read, select, process and write: what each stage leaves behind is what the
\* next one relies on, and the reply is counted as it is written.
LEMMA StageKeeps ==
  ASSUME IInv, NEW w \in Worker, NEW c \in Conn,
         Read(w, c) \/ Select(w, c) \/ Process(w, c) \/ Write(w, c)
  PROVE  IInv'
<1>1. PICK s \in {"select", "process", "write", "finish", "log"} : Goto(c, s)
  BY DEF Read, Select, Process, Write, WriteAll, WriteFails, WriteComesShort, ReplyWith,
         OnWriteError
<1>2. /\ stage[c] \in {"read", "select", "process", "write"} /\ TypeOK
      /\ ended[c] = "no" /\ written[c] = 0
  <2>1. stage[c] \in {"read", "select", "process", "write"} /\ TypeOK /\ worker[w] = c
    BY DEF IInv, Read, Select, Process, Write, At
  <2>2. c \in Live
    BY <2>1 DEF IInv, OneOwner, Running
  <2>3. QED BY <2>1, <2>2 DEF Live, IInv, ReplyAccounting, TypeOK
<1>3. /\ stage' = [stage EXCEPT ![c] = s] /\ stage' \in [Conn -> Stage]
      /\ UNCHANGED <<backlog, handshaking, handingOff, queue, worker, sent, ended, gone>>
      /\ Running' = Running
      /\ OneOwner' /\ ChainShape' /\ StageOfRunning'
  BY <1>1, <1>2, StageKeepsOwners DEF Stage
<1>4. TypeOK'
  <2>1. reply' = reply \/ (\E r \in Reply : reply' = [reply EXCEPT ![c] = r])
    BY DEF Read, Select, Process, Write, WriteAll, WriteFails, WriteComesShort,
           ReplyWith, Reply
  <2>2. written' = written \/ written' = [written EXCEPT ![c] = @ + 1]
    BY DEF Read, Select, Process, Write, WriteAll, WriteFails, WriteComesShort
  <2>3. reply' \in [Conn -> Reply]
    BY <1>2, <2>1 DEF TypeOK
  <2>4. written' \in [Conn -> 0..1]
    BY <1>2, <2>2 DEF TypeOK
  <2>5. QED
    BY <1>1, <1>2, <1>3, <2>3, <2>4 DEF TypeOK, Goto, chainVars, poolVars, clientVars
<1>5. CASE Read(w, c) \/ Select(w, c) \/ Process(w, c)
  <2>1. /\ written' = written
        /\ stage[c] \in {"read", "select", "process"}
        /\ stage'[c] \in {"select", "process", "write"}
        /\ stage'[c] \in {"select", "process"} => sent[c] = "request"
        /\ \/ reply' = reply
           \/ \E r \in {"response", "error"} :
                /\ reply' = [reply EXCEPT ![c] = r]
                /\ r # "error" => sent[c] = "request"
    BY <1>2, <1>3, <1>5 DEF IInv, StageKnows, Read, Select, Process, ReplyWith, At, Goto,
       Parsed, TypeOK
  <2>2. ReplyAccounting'
    BY <1>2, <1>3, <2>1 DEF IInv, ReplyAccounting, TypeOK
  <2>3. OnlyGenuineServed'
    BY <1>2, <1>3, <2>1 DEF IInv, OnlyGenuineServed, TypeOK
  <2>4. StageKnows'
    BY <1>2, <1>3, <2>1 DEF IInv, StageKnows, TypeOK
  <2>5. QED BY <1>3, <1>4, <2>2, <2>3, <2>4 DEF IInv
<1>6. CASE Write(w, c)
  <2>1. /\ stage[c] = "write"
        /\ \/ /\ stage'[c] = "finish" /\ reply' = reply
              /\ written' = [written EXCEPT ![c] = @ + 1]
           \/ /\ stage'[c] = "log" /\ written' = written
              /\ \/ gone[c] /\ reply' = reply
                 \/ reply[c] = "response" /\ reply' = [reply EXCEPT ![c] = "spoiled"]
    BY <1>2, <1>3, <1>6 DEF Write, WriteAll, WriteFails, WriteComesShort, At, Goto,
                            OnWriteError, TypeOK
  <2>2. reply[c] # "spoiled"
    BY <1>2, <2>1 DEF IInv, StageKnows
  <2>3. ReplyAccounting'
    BY <1>2, <1>3, <2>1, <2>2 DEF IInv, ReplyAccounting, TypeOK
  <2>4. OnlyGenuineServed'
    BY <1>2, <1>3, <2>1 DEF IInv, OnlyGenuineServed, TypeOK
  <2>5. StageKnows'
    BY <1>2, <1>3, <2>1 DEF IInv, StageKnows, TypeOK
  <2>6. QED BY <1>3, <1>4, <2>3, <2>4, <2>5 DEF IInv
<1>7. QED BY <1>5, <1>6

\* A close that throws, after the reply, leaves the connection to the last
\* error handler.
LEMMA CloseThrowsKeeps ==
  ASSUME IInv, NEW w \in Worker, NEW c \in Conn,
         At(w, c, "finish"), CloseThrows(c)
  PROVE  IInv'
<1>1. stage[c] = "finish" /\ TypeOK /\ c \in Live
  <2>1. stage[c] = "finish" /\ worker[w] = c /\ TypeOK
    BY DEF IInv, At
  <2>2. QED BY <2>1 DEF IInv, OneOwner, Running
<1>2. /\ stage' = [stage EXCEPT ![c] = "log"] /\ stage' \in [Conn -> Stage]
      /\ UNCHANGED <<backlog, handshaking, handingOff, queue, worker, sent, ended, gone>>
      /\ Running' = Running
      /\ OneOwner' /\ ChainShape' /\ StageOfRunning'
  BY <1>1, StageKeepsOwners DEF Stage, CloseThrows, IInv, TypeOK
<1>3. TypeOK'
  BY <1>1, <1>2 DEF TypeOK, CloseThrows, Goto, chainVars, poolVars,
     clientVars
<1>4. ReplyAccounting' /\ OnlyGenuineServed' /\ StageKnows'
  BY <1>1, <1>2 DEF IInv, ReplyAccounting, OnlyGenuineServed, StageKnows, TypeOK, Live,
     CloseThrows
<1>5. QED BY <1>2, <1>3, <1>4 DEF IInv

\* The thread lets its connection go.
LEMMA ReleaseKeeps ==
  ASSUME IInv, NEW w \in Worker, NEW c \in Conn,
         \/ At(w, c, "finish") /\ Release(w, c, "finished")
         \/ LogError(w, c)
  PROVE  IInv'
<1> USE DEF chainVars, clientVars
<1>1. /\ UNCHANGED <<server, accepting, handshaking, handingOff, faults, backlog,
                     queue, reply, written, sent, gone>>
      /\ worker[w] = c /\ c # None
      /\ worker' = [worker EXCEPT ![w] = None]
      /\ stage' = [stage EXCEPT ![c] = "none"]
      /\ \/ stage[c] = "finish" /\ ended' = [ended EXCEPT ![c] = "finished"]
         \/ stage[c] = "log" /\ ended' = [ended EXCEPT ![c] = "dropped"]
      /\ TypeOK
  BY ServerAssumption DEF IInv, LogError, At, Release, ServerAssumption
<1>2. c \in Running /\ c \in Live
  BY <1>1 DEF IInv, OneOwner, Running
<1>3. Live' = Live \ {c}
  BY <1>1, <1>2 DEF Live, TypeOK
<1>4. Running' = Running \ {c}
  <2>1. \A d \in Conn : d # c => (d \in Running' <=> d \in Running)
    BY <1>1, ServerAssumption DEF Running, TypeOK, ServerAssumption
  <2>2. \A v \in Worker : worker'[v] # c
    BY <1>1 DEF IInv, OneOwner, TypeOK
  <2>3. QED BY <2>1, <2>2 DEF Running
<1>5. \A u, v \in Worker : worker'[u] = worker'[v] /\ worker'[u] # None => u = v
  BY <1>1 DEF IInv, OneOwner, TypeOK
<1>6. TypeOK'
  BY <1>1 DEF TypeOK, Stage, End
<1>7. OneOwner'
  BY <1>1, <1>2, <1>3, <1>4, <1>5, SameOwners DEF IInv, OneOwner
<1>8. ChainShape' /\ StageOfRunning'
  BY <1>1, <1>2, <1>4 DEF IInv, ChainShape, StageOfRunning, TypeOK
<1>9. ReplyAccounting'
  BY <1>1, <1>2 DEF IInv, ReplyAccounting, StageKnows, TypeOK, Live
<1>10. OnlyGenuineServed'
  BY <1>1, <1>4 DEF IInv, OnlyGenuineServed
<1>11. StageKnows'
  BY <1>1, <1>2 DEF IInv, StageKnows, TypeOK, Live
<1>12. QED BY <1>6, <1>7, <1>8, <1>9, <1>10, <1>11 DEF IInv

\* Every step of the server and its clients preserves IInv.
LEMMA StepInv == IInv /\ [Next]_vars => IInv'
<1> SUFFICES ASSUME IInv, [Next]_vars PROVE IInv'
  OBVIOUS
<1>1. CASE Listen \/ BindFails
  BY <1>1, StartKeeps
<1>2. CASE Chain
  BY <1>2, AcceptKeeps, AcceptFailsKeeps, HandshakeDoneKeeps, HandshakeFailsKeeps,
     HandOffKeeps DEF Chain
<1>3. CASE Pool
  BY <1>3, TakeKeeps, StageKeeps, ReleaseKeeps, CloseThrowsKeeps
     DEF Pool, Pipeline, Finish
<1>4. CASE Client
  BY <1>4, ConnectKeeps, WireKeeps DEF Client
<1>5. CASE UNCHANGED vars
  BY <1>5, SameOwners
     DEF vars, chainVars, poolVars, pipeVars, clientVars, IInv, TypeOK, ChainShape,
         OneOwner, StageOfRunning, ReplyAccounting, OnlyGenuineServed, StageKnows
<1>6. QED BY <1>1, <1>2, <1>3, <1>4, <1>5 DEF Next, Idle

\* One coroutine at most: the shape gives the count.
LEMMA ShapeIsSingle == ChainShape => SingleChain
<1> SUFFICES ASSUME ChainShape, server = "listening"
             PROVE  accepting + Cardinality(handshaking) + Cardinality(handingOff) = 1
  BY DEF SingleChain
<1>1. Cardinality({}) = 0 /\ \A c : Cardinality({c}) = 1
  BY FS_EmptySet, FS_Singleton
<1>2. CASE accepting = 1 /\ handshaking = {} /\ handingOff = {}
  BY <1>1, <1>2
<1>3. CASE accepting = 0 /\ (\E c \in Conn : handshaking = {c}) /\ handingOff = {}
  <2>1. Cardinality(handshaking) = 1 /\ Cardinality(handingOff) = 0
    BY <1>1, <1>3
  <2>2. QED BY <1>3, <2>1
<1>4. CASE accepting = 0 /\ handshaking = {} /\ (\E c \in Conn : handingOff = {c})
  <2>1. Cardinality(handshaking) = 0 /\ Cardinality(handingOff) = 1
    BY <1>1, <1>4
  <2>2. QED BY <1>4, <2>1
<1>5. QED BY <1>2, <1>3, <1>4 DEF ChainShape

-----------------------------------------------------------------------------
(***************************************************************************)
(* The theorems.                                                           *)
(***************************************************************************)
\* IInv holds in every state the server can reach.
THEOREM Invariance == Spec => []IInv
BY InitInv, StepInv, PTL DEF Spec

\* The state keeps its types: in particular the count of waiting coroutines
\* is never negative nor above one, and no thread runs anything but a connection.
THEOREM TypeCorrect == Spec => []TypeOK
<1>1. IInv => TypeOK
  BY DEF IInv
<1>2. QED BY <1>1, Invariance, PTL

\* acceptAsyncConnection and waitForConnection keep exactly one accept chain
\* alive while the server listens, whatever fails and whoever connects.
THEOREM ChainIsSingle == Spec => []SingleChain
<1>1. IInv => SingleChain
  BY ShapeIsSingle DEF IInv
<1>2. QED BY <1>1, Invariance, PTL

\* Every live connection has exactly one owner, for any number of clients and
\* threads: moved-from readers are never used and no reader is leaked.
THEOREM OwnerIsUnique == Spec => []OneOwner
<1>1. IInv => OneOwner
  BY DEF IInv
<1>2. QED BY <1>1, Invariance, PTL

\* handleClientRequest closes a connection only after its one reply, and lets
\* none go without it unless the client has gone or the body came up short.
THEOREM RepliesAreCounted == Spec => []ReplyAccounting
<1>1. IInv => ReplyAccounting
  BY DEF IInv
<1>2. QED BY <1>1, Invariance, PTL

\* Only parsed requests reach the forwarder and only clients that completed
\* their handshake reach the pool.
THEOREM GenuineServed == Spec => []OnlyGenuineServed
<1>1. IInv => OnlyGenuineServed
  BY DEF IInv
<1>2. QED BY <1>1, Invariance, PTL

-----------------------------------------------------------------------------
(***************************************************************************)
(* The server implements ConnectionService.                                *)
(***************************************************************************)
Statuses == [c \in Conn |-> StatusOf(c)]

\* Nobody has connected and no thread serves anyone.
LEMMA ServiceInit == Init => Service!Init
BY DEF Init, Service!Init, StatusOf

\* A step that changes nothing a client can see is a stutter of the service.
LEMMA Unseen ==
  ASSUME UNCHANGED <<ended, sent, stage, written, worker>>,
         server # "terminated", server' # "terminated"
  PROVE  UNCHANGED Service!vars
BY DEF Service!vars, StatusOf

\* A step that changes the status of one connection changes no other's.
LEMMA StatusChange ==
  ASSUME NEW c \in Conn, NEW s,
         \A d \in Conn \ {c} :
           /\ ended'[d] = ended[d] /\ stage'[d] = stage[d]
           /\ (sent'[d] = "absent" <=> sent[d] = "absent")
           /\ written'[d] = written[d],
         StatusOf(c)' = s
  PROVE  Statuses' = [Statuses EXCEPT ![c] = s]
<1>1. \A d \in Conn \ {c} : StatusOf(d)' = StatusOf(d)
  BY DEF StatusOf
<1>2. QED BY <1>1 DEF Statuses

\* Stages before the reply is written are one status to the client.
LEMMA ServiceStages ==
  ASSUME IInv, NEW w \in Worker, NEW c \in Conn,
         Read(w, c) \/ Select(w, c) \/ Process(w, c) \/ Write(w, c)
  PROVE  [Service!Next]_(Service!vars)
<1>1. PICK s \in {"select", "process", "write", "finish", "log"} : Goto(c, s)
  BY DEF Read, Select, Process, Write, WriteAll, WriteFails, WriteComesShort, ReplyWith,
         OnWriteError
<1>2. /\ stage[c] \in {"read", "select", "process", "write"}
      /\ worker[w] = c /\ server = "listening" /\ TypeOK
      /\ stage' = [stage EXCEPT ![c] = s]
      /\ UNCHANGED <<server, worker, ended, sent>>
  BY <1>1 DEF IInv, Read, Select, Process, Write, At, Goto, chainVars, poolVars, clientVars
<1>3. written[c] = 0 /\ ended[c] = "no" /\ sent[c] # "absent"
  <2>1. c \in Live
    BY <1>2 DEF IInv, OneOwner, Running
  <2>2. QED BY <1>2, <2>1 DEF IInv, ReplyAccounting, Live, TypeOK
<1>4. StatusOf(c) = "serving"
  BY <1>2, <1>3 DEF StatusOf
<1>5. CASE written' = written
  <2>1. \A d \in Conn : StatusOf(d)' = StatusOf(d)
    BY <1>2, <1>3, <1>5 DEF StatusOf, TypeOK
  <2>2. QED BY <1>2, <2>1 DEF Service!vars
<1>6. CASE written' = [written EXCEPT ![c] = @ + 1]
  <2>1. stage'[c] # "none" /\ written'[c] = 1 /\ ended'[c] = "no"
    BY <1>2, <1>3, <1>6 DEF TypeOK
  <2>2. StatusOf(c)' = "answered"
    BY <1>2, <1>3, <2>1 DEF StatusOf
  <2>3. Statuses' = [Statuses EXCEPT ![c] = "answered"]
    BY <1>2, <1>6, <2>2, StatusChange DEF TypeOK
  <2>4. Service!Answer(w)
    BY <1>2, <1>4, <2>3 DEF Service!Answer, Statuses
  <2>5. QED BY <1>2, <2>4 DEF Service!Next, Service!Serve
<1>7. QED BY <1>5, <1>6 DEF Read, Select, Process, Write, WriteAll, WriteFails,
                            WriteComesShort, ReplyWith

\* Taking a connection from the queue assigns it a slot of the service.
LEMMA ServiceTake ==
  ASSUME IInv, NEW w \in Worker, NEW c \in Conn, Take(w, c)
  PROVE  [Service!Next]_(Service!vars)
<1>1. /\ server = "listening" /\ server' = "listening" /\ TypeOK
      /\ worker[w] = None /\ worker' = [worker EXCEPT ![w] = c]
      /\ stage' = [stage EXCEPT ![c] = "read"]
      /\ UNCHANGED <<sent, ended, written>>
      /\ c \in queue
  BY DEF IInv, Take, chainVars, clientVars
<1>2. c \in Live /\ c \notin Running
  BY <1>1 DEF IInv, OneOwner
<1>3. /\ ended[c] = "no" /\ sent[c] # "absent" /\ stage[c] = "none" /\ written[c] = 0
      /\ stage'[c] = "read"
  BY <1>1, <1>2 DEF IInv, Live, StageOfRunning, ReplyAccounting, TypeOK
<1>4. StatusOf(c) = "waiting" /\ StatusOf(c)' = "serving"
  BY <1>1, <1>3 DEF StatusOf
<1>5. Statuses' = [Statuses EXCEPT ![c] = "serving"]
  BY <1>1, <1>4, StatusChange DEF TypeOK
<1>6. Service!Assign(w, c)
  BY <1>1, <1>4, <1>5 DEF Service!Assign, Statuses
<1>7. QED BY <1>1, <1>6 DEF Service!Next, Service!Serve

\* A close that throws after the reply is no news to the client.
LEMMA ServiceCloseThrows ==
  ASSUME IInv, NEW w \in Worker, NEW c \in Conn,
         At(w, c, "finish"), CloseThrows(c)
  PROVE  UNCHANGED Service!vars
<1>1. /\ stage[c] = "finish" /\ stage' = [stage EXCEPT ![c] = "log"]
      /\ UNCHANGED <<server, worker, ended, sent, written>> /\ TypeOK
  BY DEF IInv, At, CloseThrows, Goto, chainVars, poolVars, clientVars
<1>2. \A d \in Conn : stage'[d] # "none" <=> stage[d] # "none"
  BY <1>1 DEF TypeOK
<1>3. \A d \in Conn : StatusOf(d)' = StatusOf(d)
  BY <1>1, <1>2 DEF StatusOf
<1>4. QED BY <1>1, <1>3 DEF Service!vars

\* However the pipeline ends, the service's slot lets its connection go.
LEMMA ServiceEnd ==
  ASSUME IInv, NEW w \in Worker, NEW c \in Conn,
         \/ At(w, c, "finish") /\ Release(w, c, "finished")
         \/ LogError(w, c)
  PROVE  [Service!Next]_(Service!vars)
<1>1. /\ server = "listening" /\ server' = "listening" /\ TypeOK
      /\ worker[w] = c /\ worker' = [worker EXCEPT ![w] = None]
      /\ stage[c] # "none" /\ stage' = [stage EXCEPT ![c] = "none"]
      /\ UNCHANGED <<sent, written>>
      /\ \E how \in {"finished", "dropped"} : ended' = [ended EXCEPT ![c] = how]
  BY DEF IInv, LogError, At, Release, chainVars, clientVars
<1>2. c \in Live
  BY <1>1 DEF IInv, OneOwner, Running
<1>3. ended[c] = "no" /\ sent[c] # "absent" /\ ended'[c] # "no"
  BY <1>1, <1>2 DEF Live, TypeOK
<1>4. StatusOf(c) \in {"serving", "answered"} /\ StatusOf(c)' = "ended"
  BY <1>1, <1>3 DEF StatusOf
<1>5. Statuses' = [Statuses EXCEPT ![c] = "ended"]
  BY <1>1, <1>4, StatusChange DEF TypeOK
<1>6. Service!End(w)
  BY <1>1, <1>4, <1>5 DEF Service!End, Statuses
<1>7. QED BY <1>1, <1>6 DEF Service!Next, Service!Serve

\* A failed handshake turns its client away while it waits.
LEMMA ServiceTurnAway ==
  ASSUME IInv, NEW c \in Conn, HandshakeFails(c)
  PROVE  [Service!Next]_(Service!vars)
<1>1. /\ server = "listening" /\ server' = "listening" /\ TypeOK
      /\ UNCHANGED <<worker, stage, written, sent>>
      /\ ended' = [ended EXCEPT ![c] = "rejected"]
      /\ c \in handshaking
  BY DEF IInv, HandshakeFails, poolVars, pipeVars, clientVars
<1>2. c \in Live /\ c \notin Running
  BY <1>1 DEF IInv, OneOwner
<1>3. /\ ended[c] = "no" /\ sent[c] # "absent" /\ stage[c] = "none"
      /\ ended'[c] = "rejected"
  BY <1>1, <1>2 DEF IInv, Live, StageOfRunning, TypeOK
<1>4. StatusOf(c) = "waiting" /\ StatusOf(c)' = "ended"
  BY <1>1, <1>3 DEF StatusOf
<1>5. Statuses' = [Statuses EXCEPT ![c] = "ended"]
  BY <1>1, <1>4, StatusChange DEF TypeOK
<1>6. Service!TurnAway(c)
  BY <1>1, <1>4, <1>5 DEF Service!TurnAway, Statuses
<1>7. QED BY <1>1, <1>6 DEF Service!Next, Service!Serve

\* A client that connects arrives.
LEMMA ServiceArrive ==
  ASSUME IInv, NEW c \in Conn, Connect(c)
  PROVE  [Service!Next]_(Service!vars)
<1>1. /\ server = "listening" /\ server' = "listening" /\ TypeOK
      /\ UNCHANGED <<worker, stage, written, ended>>
      /\ sent[c] = "absent" /\ sent' = [sent EXCEPT ![c] = "silent"]
  BY DEF IInv, Connect, poolVars, pipeVars
<1>2. ended[c] = "no" /\ stage[c] = "none" /\ sent'[c] = "silent"
  <2>1. c \notin Live
    BY <1>1 DEF Live
  <2>2. c \notin Running
    BY <2>1 DEF IInv, OneOwner
  <2>3. QED BY <1>1, <2>2 DEF IInv, StageKnows, StageOfRunning, TypeOK
<1>3. StatusOf(c) = "away" /\ StatusOf(c)' = "waiting"
  BY <1>1, <1>2 DEF StatusOf
<1>4. Statuses' = [Statuses EXCEPT ![c] = "waiting"]
  BY <1>1, <1>3, StatusChange DEF TypeOK
<1>5. Service!Arrive(c)
  BY <1>1, <1>3, <1>4 DEF Service!Arrive, Statuses
<1>6. QED BY <1>1, <1>5 DEF Service!Next, Service!Serve

\* What a client puts on its wire once it is connected changes no status.
LEMMA ServiceWire ==
  ASSUME IInv, NEW c \in Conn, Leave(c) \/ (\E m \in Wire : Send(c, m))
  PROVE  [Service!Next]_(Service!vars)
<1>1. /\ UNCHANGED <<server, worker, stage, written, ended>>
      /\ sent' = sent \/ (\E m \in Wire \ {"absent"} : sent' = [sent EXCEPT ![c] = m])
      /\ sent[c] # "absent" /\ TypeOK
  BY DEF IInv, Leave, Send, NextOnWire, chainVars, poolVars, pipeVars
<1>2. \A d \in Conn : sent'[d] = "absent" <=> sent[d] = "absent"
  BY <1>1 DEF TypeOK
<1>3. \A d \in Conn : StatusOf(d)' = StatusOf(d)
  BY <1>1, <1>2 DEF StatusOf
<1>4. QED BY <1>1, <1>3 DEF Service!vars

\* Start-up and the accept chain are invisible, unless they end the process.
LEMMA ServiceChain ==
  ASSUME IInv, \/ Listen \/ BindFails \/ Accept \/ AcceptFails
               \/ \E c \in Conn : HandshakeDone(c) \/ HandOff(c)
  PROVE  [Service!Next]_(Service!vars)
<1>1. /\ UNCHANGED <<worker, stage, written, ended, sent>>
      /\ server # "terminated"
  BY DEF Listen, BindFails, Accept, AcceptFails, HandshakeDone, HandOff,
         poolVars, pipeVars, clientVars
<1>2. CASE server' # "terminated"
  BY <1>1, <1>2, Unseen
<1>3. CASE server' = "terminated"
  <2>1. \A d \in Conn : StatusOf(d)' = StatusOf(d)
    BY <1>1 DEF StatusOf
  <2>2. QED BY <1>1, <1>3, <2>1 DEF Service!Next, Service!Halt
<1>4. QED BY <1>2, <1>3

\* Every step of the server is a step of the service or a stutter.
LEMMA ServiceStep == IInv /\ [Next]_vars => [Service!Next]_(Service!vars)
<1> SUFFICES ASSUME IInv, [Next]_vars PROVE [Service!Next]_(Service!vars)
  OBVIOUS
<1>1. CASE Listen \/ BindFails \/ Chain
  BY <1>1, ServiceChain, ServiceTurnAway DEF Chain
<1>2. CASE Pool
  BY <1>2, ServiceTake, ServiceStages, ServiceEnd, ServiceCloseThrows
     DEF Pool, Pipeline, Finish
<1>3. CASE Client
  BY <1>3, ServiceArrive, ServiceWire DEF Client
<1>4. CASE UNCHANGED vars
  BY <1>4 DEF vars, chainVars, poolVars, pipeVars, clientVars, Service!vars, StatusOf
<1>5. QED BY <1>1, <1>2, <1>3, <1>4 DEF Next, Idle

\* The coroutines, the queue and the pool together implement the service the
\* clients are promised: one slot each, at most one reply, ended for good.
THEOREM Refinement == Spec => ServiceSpec
BY Invariance, ServiceInit, ServiceStep, PTL DEF Spec, ServiceSpec, Service!Spec
=============================================================================
