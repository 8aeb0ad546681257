------------------------- MODULE ReverseProxyProofs -------------------------
(***************************************************************************)
(* What the composed proxy inherits from its parts, and what only the two  *)
(* together guarantee, for any number of connections and threads.          *)
(***************************************************************************)
EXTENDS ReverseProxy, ServerProofs

\* The server's stage and the forwarder's position go together.
Coupled ==
  /\ pc \in [Conn -> F!PC]
  /\ \A c \in Conn :
       /\ stage[c] \notin {"process", "write"} => pc[c] \in {"idle", "done"}
       /\ stage[c] = "write" /\ reply[c] = "response" => pc[c] = "sending"
       /\ stage[c] = "write" /\ reply[c] # "response" => pc[c] \in {"idle", "done"}

PInv == IInv /\ Coupled

-----------------------------------------------------------------------------
(***************************************************************************)
(* Every step of the proxy is a step of each part, or a stutter of it.     *)
(***************************************************************************)
\* Seen without its forwarders the proxy is a server.
LEMMA StepOfServer == [ProxyNext]_proxyVars => [Next]_vars
<1> SUFFICES ASSUME [ProxyNext]_proxyVars PROVE [Next]_vars
  OBVIOUS
<1>1. CASE Beside
  BY <1>1 DEF Beside, Next, Pool
<1>2. ASSUME NEW w \in Worker, NEW c \in Conn, Serve(w, c)
      PROVE  [Next]_vars
  <2>1. CASE Forward(w, c)
    <3>1. Process(w, c) \/ UNCHANGED vars
      BY <2>1 DEF Forward, Process, OnThrow
    <3>2. QED BY <3>1 DEF Next, Pool, Pipeline
  <2>2. CASE Respond(w, c)
    <3>1. Write(w, c) \/ UNCHANGED vars
      BY <2>2 DEF Respond, Write
    <3>2. QED BY <3>1 DEF Next, Pool, Pipeline
  <2>3. CASE Read(w, c) \/ SelectRoute(w, c) \/ WriteError(w, c) \/ Finish(w, c)
             \/ LogError(w, c)
    <3>1. Pipeline(w, c)
      BY <2>3 DEF SelectRoute, WriteError, Pipeline
    <3>2. QED BY <3>1 DEF Next, Pool
  <2>4. QED BY <1>2, <2>1, <2>2, <2>3 DEF Serve
<1>3. CASE UNCHANGED vars
  BY <1>3
<1>4. QED BY <1>1, <1>2, <1>3 DEF ProxyNext, proxyVars

\* Seen without its server the proxy is a set of forwarders.
LEMMA StepOfForwarder == [ProxyNext]_proxyVars => [F!Next]_(F!vars)
<1> SUFFICES ASSUME [ProxyNext]_proxyVars PROVE [F!Next]_(F!vars)
  OBVIOUS
<1>1. CASE UNCHANGED relayVars
  BY <1>1 DEF relayVars, F!vars
<1>2. ASSUME NEW w \in Worker, NEW c \in Conn, Forward(w, c) \/ Respond(w, c)
      PROVE  F!Next
  BY <1>2 DEF Forward, Respond, DropResponse, F!Next, F!Deliver
<1>3. CASE F!Tick
  BY <1>3 DEF F!Next
<1>4. QED BY <1>1, <1>2, <1>3 DEF ProxyNext, Beside, Serve, proxyVars

-----------------------------------------------------------------------------
(***************************************************************************)
(* The coupling invariant.                                                 *)
(***************************************************************************)
\* A step of c's forwarder moves no other request.
LEMMA OnlyOneMoves ==
  ASSUME NEW c \in Conn, F!Fetch(c) \/ F!Deliver(c), pc \in [Conn -> F!PC]
  PROVE  \E p \in F!PC : pc' = [pc EXCEPT ![c] = p]
<1>1. UNCHANGED pc \/ \E p \in F!PC : F!Goto(c, p)
  <2> USE DEF F!Goto, F!Fail, F!PC
  <2>1. CASE F!Begin(c) \/ F!Open(c) \/ F!Now(c) \/ F!LocalTime(c) \/ F!NameFile(c)
    BY <2>1 DEF F!Begin, F!BeginStreamFails, F!Open, F!Now, F!LocalTime, F!NameFile
  <2>2. CASE \E h \in Heads, n \in 0..MaxSize : F!ReadHeader(c, h, n)
    BY <2>2 DEF F!ReadHeader, F!FlexibleNext
  <2>3. CASE F!ReceiveChunk(c) \/ F!ReceiveDone(c) \/ F!ReceiveFails(c) \/ F!OpenUrl(c)
    BY <2>3 DEF F!ReceiveChunk, F!ReceiveDone, F!ReceiveFails, F!OnReadError, F!OpenUrl
  <2>4. CASE F!Deliver(c)
    BY <2>4 DEF F!Deliver, F!SendChunk, F!SendDone, F!ShortRead, F!Abandon
  <2>5. QED BY <2>1, <2>2, <2>3, <2>4 DEF F!Fetch
<1>2. pc' = [pc EXCEPT ![c] = pc[c]] \/ \E p \in F!PC : pc' = [pc EXCEPT ![c] = p]
  BY <1>1 DEF F!Goto
<1>3. QED BY <1>2

\* At first nothing runs on either side.
LEMMA ProxyInitInv == ProxyInit => PInv
BY InitInv DEF ProxyInit, PInv, Coupled, Init, F!Init, F!PC

\* Server and forwarder move in step.
LEMMA ProxyStepInv == PInv /\ [ProxyNext]_proxyVars => PInv'
<1> SUFFICES ASSUME PInv, [ProxyNext]_proxyVars PROVE Coupled'
  BY StepOfServer, StepInv DEF PInv
<1>1. TypeOK /\ Coupled /\ pc \in [Conn -> F!PC]
  BY DEF PInv, IInv, Coupled
<1>2. CASE UNCHANGED <<stage, reply, pc>>
  BY <1>1, <1>2 DEF Coupled
<1>3. ASSUME NEW w \in Worker, NEW c \in Conn, Forward(w, c)
      PROVE  Coupled'
  <2>1. PICK p \in F!PC : pc' = [pc EXCEPT ![c] = p]
    BY <1>1, <1>3, OnlyOneMoves DEF Forward
  <2>2. \/ UNCHANGED <<stage, reply>> /\ p \notin {"sending", "done"}
        \/ /\ stage' = [stage EXCEPT ![c] = "write"]
           /\ \/ reply' = [reply EXCEPT ![c] = "response"] /\ p = "sending"
              \/ reply' = [reply EXCEPT ![c] = "error"] /\ p = "done"
    BY <1>1, <1>3, <2>1 DEF Forward, OnThrow, ReplyWith, Goto, vars, pipeVars
  <2>3. stage[c] = "process"
    BY <1>3 DEF Forward, At
  <2>4. QED BY <1>1, <2>1, <2>2, <2>3 DEF Coupled, TypeOK
<1>4. ASSUME NEW w \in Worker, NEW c \in Conn, Respond(w, c)
      PROVE  Coupled'
  <2>1. stage[c] = "write" /\ reply[c] = "response" /\ pc[c] = "sending"
    BY <1>1, <1>4 DEF Respond, At, Coupled
  <2>2. \/ UNCHANGED <<stage, reply, pc>>
        \/ /\ pc' = [pc EXCEPT ![c] = "done"]
           /\ \E s \in {"finish", "log"} : stage' = [stage EXCEPT ![c] = s]
           /\ reply' = reply \/ reply' = [reply EXCEPT ![c] = "spoiled"]
    BY <1>4 DEF Respond, DropResponse, WriteAll, WriteComesShort, WriteFails, OnWriteError,
       Goto, F!SendChunk, F!SendDone, F!ShortRead, F!Abandon, F!Goto, vars, pipeVars
  <2>3. pc' \in [Conn -> F!PC]
    BY <1>1, <2>2 DEF F!PC
  <2>4. QED BY <1>1, <2>1, <2>2, <2>3 DEF Coupled, TypeOK
<1>5. ASSUME NEW w \in Worker, NEW c \in Conn, UNCHANGED relayVars,
             Read(w, c) \/ SelectRoute(w, c) \/ WriteError(w, c) \/ Finish(w, c)
             \/ LogError(w, c)
      PROVE  Coupled'
  <2>1. UNCHANGED pc
    BY <1>5 DEF relayVars
  <2>2. \E s \in Stage, r \in Reply :
          /\ stage' = [stage EXCEPT ![c] = s] /\ reply' = [reply EXCEPT ![c] = r]
          /\ s = "write" => stage[c] \in {"read", "select"} /\ r = "error"
          /\ s = "process" => stage[c] = "select"
          /\ stage[c] = "write" => reply[c] = "error"
          /\ stage[c] # "process"
    <3>1. CASE Read(w, c) \/ SelectRoute(w, c)
      BY <1>1, <3>1 DEF Read, SelectRoute, Select, At, ReplyWith, Goto, TypeOK, Stage, Reply
    <3>2. CASE WriteError(w, c)
      BY <1>1, <3>2 DEF WriteError, Write, WriteAll, WriteFails, WriteComesShort, At, Goto,
                        OnWriteError, TypeOK, Stage, Reply
    <3>3. CASE Finish(w, c) \/ LogError(w, c)
      BY <1>1, <3>3 DEF Finish, CloseThrows, Goto, LogError, Release, At, TypeOK, Stage, Reply
    <3>4. QED BY <1>5, <3>1, <3>2, <3>3
  <2>3. QED BY <1>1, <2>1, <2>2 DEF Coupled, TypeOK
<1>6. CASE Beside
  <2>1. UNCHANGED pc
    BY <1>6 DEF Beside, relayVars
  <2>2. UNCHANGED <<stage, reply>> \/ \E w \in Worker, c \in Conn : Take(w, c)
    BY <1>6 DEF Beside, Listen, BindFails, Chain, Accept, AcceptFails, HandshakeDone,
       HandshakeFails, HandOff, Client, Connect, Leave, Send, Idle, vars, pipeVars
  <2>3. ASSUME NEW w \in Worker, NEW c \in Conn, Take(w, c)
        PROVE  Coupled'
    <3>1. stage[c] = "none"
      BY <2>3 DEF PInv, IInv, OneOwner, StageOfRunning, Take
    <3>2. stage' = [stage EXCEPT ![c] = "read"] /\ UNCHANGED reply
      BY <2>3 DEF Take
    <3>3. QED BY <1>1, <2>1, <3>1, <3>2 DEF Coupled, TypeOK
  <2>4. QED BY <1>2, <2>1, <2>2, <2>3
<1>7. CASE F!Tick /\ UNCHANGED vars
  BY <1>2, <1>7 DEF F!Tick, vars, pipeVars
<1>8. CASE UNCHANGED proxyVars
  BY <1>2, <1>8 DEF proxyVars, relayVars, vars, pipeVars
<1>9. QED BY <1>3, <1>4, <1>5, <1>6, <1>7, <1>8 DEF ProxyNext, Serve

-----------------------------------------------------------------------------
(***************************************************************************)
(* What the client has been told and what the forwarder believes.          *)
(***************************************************************************)
\* The forwarder's verdict on the reply to c is what the client saw of it.
Agrees(c) ==
  /\ result[c] = "ok" <=> written[c] = 1 /\ reply[c] = "response"
  /\ result[c] = "cut" <=> reply[c] = "spoiled"
  /\ result[c] = "lost" => gone[c] /\ written[c] = 0 /\ reply[c] = "response"
  /\ result[c] = "error" => reply[c] = "error"

\* The verdict of the forwarder and the reply of the pipeline, with what makes
\* their agreement inductive.
View(c) ==
  /\ pc[c] # "done" \/ reply[c] = "none" => result[c] = "pending"
  /\ reply[c] # "none" => stage[c] \in {"write", "finish", "log"} \/ ended[c] # "no"
  /\ Agrees(c)

Views == result \in [Conn -> F!Result] /\ \A c \in Conn : View(c)

\* A forwarder gives its verdict exactly when it throws.
LEMMA VerdictOfFetch ==
  ASSUME NEW c \in Conn, F!Fetch(c), PInv, Views
  PROVE  IF pc'[c] = "done" THEN result' = [result EXCEPT ![c] = "error"]
                            ELSE UNCHANGED result
<1> USE DEF F!Goto, F!Fail, F!PC
<1>1. pc \in [Conn -> F!PC]
  BY DEF PInv, Coupled
<1>2. CASE F!Begin(c) \/ F!Open(c) \/ F!Now(c) \/ F!LocalTime(c) \/ F!NameFile(c)
  BY <1>1, <1>2 DEF F!Begin, F!BeginStreamFails, F!Open, F!Now, F!LocalTime, F!NameFile
<1>3. CASE \E h \in Heads, n \in 0..MaxSize : F!ReadHeader(c, h, n)
  BY <1>1, <1>3 DEF F!ReadHeader, F!FlexibleNext
<1>4. CASE F!ReceiveChunk(c) \/ F!ReceiveDone(c) \/ F!ReceiveFails(c) \/ F!OpenUrl(c)
  BY <1>1, <1>4 DEF F!ReceiveChunk, F!ReceiveDone, F!ReceiveFails, F!OnReadError, F!OpenUrl
<1>5. QED BY <1>2, <1>3, <1>4 DEF F!Fetch

\* A step that leaves every other connection alone has only its own to look at.
LEMMA OthersKeep ==
  ASSUME Views, NEW c \in Conn, result' \in [Conn -> F!Result], View(c)',
         \A d \in Conn \ {c} :
           /\ pc'[d] = pc[d] /\ result'[d] = result[d] /\ reply'[d] = reply[d]
           /\ stage'[d] = stage[d] /\ written'[d] = written[d]
           /\ ended'[d] = ended[d] /\ gone'[d] = gone[d]
  PROVE  Views'
<1>1. ASSUME NEW d \in Conn \ {c} PROVE View(d)'
  BY DEF Views, View, Agrees
<1>2. QED BY <1>1 DEF Views

LEMMA ProxyInitViews == ProxyInit => Views
BY DEF ProxyInit, Views, View, Agrees, Init, F!Init, F!Result

\* No step of either side makes the two disagree.
LEMMA ProxyStepViews == PInv /\ Views /\ [ProxyNext]_proxyVars => Views'
<1> SUFFICES ASSUME PInv, Views, [ProxyNext]_proxyVars PROVE Views'
  OBVIOUS
<1> USE DEF F!Result
<1>1. /\ TypeOK /\ Coupled /\ pc \in [Conn -> F!PC]
      /\ \A c \in Conn : stage[c] \in {"process", "write"} => written[c] = 0
      /\ \A c \in Conn : stage[c] \in {"read", "select", "process"} => reply[c] = "none"
  <2>1. \A c \in Conn : stage[c] # "none" => ended[c] = "no"
    BY DEF PInv, IInv, StageOfRunning, OneOwner, Live
  <2>2. \A c \in Conn : stage[c] \in {"process", "write"} => written[c] = 0
    BY <2>1 DEF PInv, IInv, ReplyAccounting, TypeOK
  <2>3. QED BY <2>1, <2>2 DEF PInv, IInv, Coupled, Views, View
<1>2. CASE UNCHANGED <<stage, reply, written, ended, gone, pc, result>>
  BY <1>2 DEF Views, View, Agrees
<1>3. ASSUME NEW w \in Worker, NEW c \in Conn, Forward(w, c)
      PROVE  Views'
  <2>1. PICK p \in F!PC : pc' = [pc EXCEPT ![c] = p]
    BY <1>1, <1>3, OnlyOneMoves DEF Forward
  <2>2. IF p = "done" THEN result' = [result EXCEPT ![c] = "error"] ELSE UNCHANGED result
    BY <1>1, <1>3, <2>1, VerdictOfFetch DEF Forward
  <2>3. /\ stage[c] = "process" /\ reply[c] = "none" /\ UNCHANGED <<written, ended, gone>>
        /\ \/ UNCHANGED <<stage, reply>> /\ p \notin {"sending", "done"}
           \/ /\ stage' = [stage EXCEPT ![c] = "write"]
              /\ \/ reply' = [reply EXCEPT ![c] = "response"] /\ p = "sending"
                 \/ reply' = [reply EXCEPT ![c] = "error"] /\ p = "done"
    BY <1>1, <1>3, <2>1 DEF Forward, At, OnThrow, ReplyWith, Goto, vars, pipeVars, clientVars
  <2>4. /\ result' \in [Conn -> F!Result]
        /\ pc'[c] = p /\ result'[c] = IF p = "done" THEN "error" ELSE "pending"
    BY <1>1, <2>1, <2>2, <2>3 DEF Views, View
  <2>5. View(c)'
    BY <1>1, <2>1, <2>3, <2>4 DEF Views, View, Agrees, TypeOK
  <2>6. QED BY <1>1, <2>1, <2>2, <2>3, <2>4, <2>5, OthersKeep DEF TypeOK, Views
<1>4. ASSUME NEW w \in Worker, NEW c \in Conn, Respond(w, c)
      PROVE  Views'
  <2>1. /\ stage[c] = "write" /\ reply[c] = "response" /\ written[c] = 0
        /\ pc[c] = "sending" /\ result[c] = "pending" /\ UNCHANGED <<ended, gone>>
    BY <1>1, <1>4 DEF Respond, At, Coupled, Views, View, WriteAll, WriteComesShort, WriteFails,
                      Goto, vars, clientVars
  <2>2. \/ UNCHANGED <<stage, reply, written, pc, result>>
        \/ /\ pc' = [pc EXCEPT ![c] = "done"]
           /\ \/ /\ result' = [result EXCEPT ![c] = "ok"]
                 /\ stage' = [stage EXCEPT ![c] = "finish"]
                 /\ written' = [written EXCEPT ![c] = 1] /\ reply' = reply
              \/ /\ result' = [result EXCEPT ![c] = "cut"] /\ written' = written
                 /\ stage' = [stage EXCEPT ![c] = "log"]
                 /\ reply' = [reply EXCEPT ![c] = "spoiled"]
              \/ /\ result' = [result EXCEPT ![c] = "lost"] /\ written' = written
                 /\ stage' = [stage EXCEPT ![c] = "log"]
                 /\ reply' = reply /\ gone[c]
    BY <1>1, <1>4, <2>1 DEF Respond, DropResponse, WriteAll, WriteComesShort, WriteFails,
       OnWriteError, Goto, F!SendChunk, F!SendDone, F!ShortRead, F!Abandon, F!Goto, vars,
       pipeVars, TypeOK
  <2>3. CASE UNCHANGED <<stage, reply, written, pc, result>>
    BY <1>2, <2>1, <2>3
  <2>4. CASE pc' = [pc EXCEPT ![c] = "done"]
    <3>1. /\ result' \in [Conn -> F!Result]
          /\ pc'[c] = "done" /\ stage'[c] \in {"finish", "log"}
          /\ \/ result'[c] = "ok" /\ written'[c] = 1 /\ reply'[c] = "response"
             \/ result'[c] = "cut" /\ written'[c] = 0 /\ reply'[c] = "spoiled"
             \/ result'[c] = "lost" /\ written'[c] = 0 /\ reply'[c] = "response" /\ gone[c]
      BY <1>1, <2>1, <2>2, <2>4 DEF Views, TypeOK
    <3>2. View(c)'
      BY <2>1, <3>1 DEF View, Agrees
    <3>3. \A d \in Conn \ {c} :
            /\ pc'[d] = pc[d] /\ result'[d] = result[d] /\ reply'[d] = reply[d]
            /\ stage'[d] = stage[d] /\ written'[d] = written[d]
      BY <1>1, <2>2, <2>4 DEF TypeOK, Views
    <3>4. QED BY <2>1, <3>1, <3>2, <3>3, OthersKeep
  <2>5. QED BY <2>2, <2>3, <2>4
<1>5. ASSUME NEW w \in Worker, NEW c \in Conn, UNCHANGED relayVars,
             Read(w, c) \/ SelectRoute(w, c) \/ WriteError(w, c) \/ Finish(w, c)
             \/ LogError(w, c)
      PROVE  Views'
  <2>1. UNCHANGED <<pc, result>>
    BY <1>5 DEF relayVars
  <2>2. CASE Read(w, c) \/ SelectRoute(w, c)
    <3>1. /\ reply[c] = "none" /\ UNCHANGED <<written, ended, gone>>
          /\ \/ UNCHANGED reply
             \/ reply' = [reply EXCEPT ![c] = "error"] /\ stage' = [stage EXCEPT ![c] = "write"]
          /\ \E q \in Stage : stage' = [stage EXCEPT ![c] = q]
      BY <1>1, <2>2 DEF Read, SelectRoute, Select, At, ReplyWith, Goto, TypeOK, Stage, clientVars
    <3>2. QED BY <1>1, <2>1, <3>1 DEF Views, View, Agrees, TypeOK
  <2>3. CASE WriteError(w, c)
    <3>1. /\ reply[c] = "error" /\ stage[c] = "write" /\ written[c] = 0
          /\ UNCHANGED <<reply, ended, gone>>
          /\ \E q \in {"finish", "log"} : stage' = [stage EXCEPT ![c] = q]
          /\ written' = written \/ written' = [written EXCEPT ![c] = 1]
      BY <1>1, <2>3 DEF WriteError, Write, At, WriteAll, WriteFails, WriteComesShort, Goto,
                        OnWriteError, clientVars, TypeOK
    <3>2. /\ stage'[c] \in {"finish", "log"} /\ reply'[c] = "error"
          /\ written'[c] \in {0, 1}
      BY <1>1, <3>1 DEF TypeOK
    <3>3. result[c] \in {"pending", "error"}
      BY <3>1 DEF Views, View, Agrees
    <3>4. View(c)'
      BY <2>1, <3>1, <3>2, <3>3 DEF Views, View, Agrees
    <3>5. QED BY <1>1, <2>1, <3>1, <3>4, OthersKeep DEF TypeOK, Views
  <2>4. CASE Finish(w, c) \/ LogError(w, c)
    <3>1. /\ UNCHANGED <<reply, written, gone>>
          /\ \/ /\ stage' = [stage EXCEPT ![c] = "none"]
                /\ \E e \in {"finished", "dropped"} : ended' = [ended EXCEPT ![c] = e]
             \/ stage' = [stage EXCEPT ![c] = "log"] /\ UNCHANGED ended
      BY <2>4 DEF Finish, CloseThrows, Goto, LogError, Release, clientVars
    <3>2. QED BY <1>1, <2>1, <3>1 DEF Views, View, Agrees, TypeOK
  <2>5. QED BY <1>5, <2>2, <2>3, <2>4
<1>6. CASE Beside
  <2>1. UNCHANGED <<pc, result>>
    BY <1>6 DEF Beside, relayVars
  <2>2. CASE \E w \in Worker, c \in Conn : Take(w, c)
    <3>1. PICK w \in Worker, c \in Conn : Take(w, c)
      BY <2>2
    <3>2. reply[c] = "none"
      BY <3>1 DEF PInv, IInv, OneOwner, Live, StageOfRunning, Views, View, Take
    <3>3. stage' = [stage EXCEPT ![c] = "read"] /\ UNCHANGED <<reply, written, ended, gone>>
      BY <3>1 DEF Take, clientVars
    <3>4. QED BY <1>1, <2>1, <3>2, <3>3 DEF Views, View, Agrees, TypeOK
  <2>3. CASE ~ \E w \in Worker, c \in Conn : Take(w, c)
    <3>1. /\ UNCHANGED <<stage, reply, written>>
          /\ \A c \in Conn : gone[c] => gone'[c]
          /\ \A c \in Conn : ended[c] # "no" => ended'[c] # "no"
      BY <1>1, <1>6, <2>3 DEF Beside, Listen, BindFails, Chain, Accept, AcceptFails,
         HandshakeDone, HandshakeFails, HandOff, Client, Connect, Leave, Send, Idle, vars,
         pipeVars, clientVars, TypeOK
    <3>2. QED BY <2>1, <3>1 DEF Views, View, Agrees
  <2>4. QED BY <2>2, <2>3
<1>7. CASE F!Tick /\ UNCHANGED vars
  BY <1>2, <1>7 DEF F!Tick, vars, pipeVars, clientVars
<1>8. CASE UNCHANGED proxyVars
  BY <1>2, <1>8 DEF proxyVars, relayVars, vars, pipeVars, clientVars
<1>9. QED BY <1>3, <1>4, <1>5, <1>6, <1>7, <1>8 DEF ProxyNext, Serve

-----------------------------------------------------------------------------
(***************************************************************************)
(* The composition implements its parts.                                   *)
(***************************************************************************)
\* The clients' side of the proxy is a Server: everything ServerProofs shows
\* holds of the proxy.
THEOREM ImplementsServer == ProxySpec => ServesAsServer
<1>1. ProxyInit => Init
  BY DEF ProxyInit
<1>2. [ProxyNext]_proxyVars => [Next]_vars
  BY StepOfServer
<1>3. QED BY <1>1, <1>2, PTL DEF ProxySpec, Spec, ServesAsServer

\* The upstreams' side of the proxy is the Forwarder: everything ForwarderProofs
\* shows holds of the proxy.
THEOREM ImplementsForwarder == ProxySpec => RelaysAsForwarder
<1>1. ProxyInit => F!Init
  BY DEF ProxyInit
<1>2. [ProxyNext]_proxyVars => [F!Next]_(F!vars)
  BY StepOfForwarder
<1>3. QED BY <1>1, <1>2, PTL DEF ProxySpec, F!Spec, RelaysAsForwarder


-----------------------------------------------------------------------------
(***************************************************************************)
(* The pool bounds what the proxy holds open, and one thread keeps to one  *)
(* file at a time.                                                         *)
(***************************************************************************)
\* The invariants hold in every state of the proxy.
THEOREM ProxyInvariance == ProxySpec => [](PInv /\ Views)
<1>1. ProxyInit => PInv /\ Views
  BY ProxyInitInv, ProxyInitViews
<1>2. PInv /\ Views /\ [ProxyNext]_proxyVars => (PInv /\ Views)'
  BY ProxyStepInv, ProxyStepViews
<1>3. QED BY <1>1, <1>2, PTL DEF ProxySpec

\* A request is busy only while a thread runs its connection.
LEMMA BusyIsServed == PInv => OnlyServedForward
BY DEF PInv, IInv, Coupled, Busy, OnlyServedForward, StageOfRunning, F!PC

\* However a write ends, no upstream connection, response or temporary file
\* outlives the pipeline of its connection.
THEOREM NothingOutlives == ProxySpec => []OnlyServedForward
BY ProxyInvariance, BusyIsServed, PTL

\* Each busy request has a thread of its own.
LEMMA BusyBounded == PInv => UpstreamBound
<1> SUFFICES ASSUME PInv PROVE UpstreamBound
  OBVIOUS
<1> DEFINE V == {w \in Worker : worker[w] # None}
           f == [w \in V |-> worker[w]]
<1>1. IsFiniteSet(Worker) /\ worker \in [Worker -> Conn \cup {None}]
  BY ProxyAssumption DEF PInv, IInv, TypeOK
<1>2. IsFiniteSet(V) /\ Cardinality(V) <= Cardinality(Worker)
  BY <1>1, FS_Subset
<1>3. f \in Surjection(V, Running)
  BY <1>1, ServerAssumption DEF Running, Surjection, Range
<1>4. IsFiniteSet(Running) /\ Cardinality(Running) <= Cardinality(V)
  BY <1>2, <1>3, FS_Surjection
<1>5. Busy \in SUBSET Running
  BY BusyIsServed DEF Busy, OnlyServedForward
<1>6. IsFiniteSet(Busy) /\ Cardinality(Busy) <= Cardinality(Running)
  BY <1>4, <1>5, FS_Subset
<1>7. QED
  BY <1>1, <1>2, <1>4, <1>6, FS_CardinalityType DEF UpstreamBound

\* However many clients there are, the proxy never holds open more upstream
\* connections and response files than it has threads.
THEOREM PoolBoundsUpstreams == ProxySpec => []UpstreamBound
BY ProxyInvariance, BusyBounded, PTL

\* With a single thread no two requests ever have a file open together.
LEMMA LoneThreadStep ==
  ASSUME PInv, [ProxyNext]_proxyVars, Cardinality(Worker) = 1, shared = {}
  PROVE  shared' = {}
<1>1. PICK v : Worker = {v}
  BY ProxyAssumption, FS_Singleton
<1>2. CASE UNCHANGED shared
  BY <1>2
<1>3. ASSUME NEW w \in Worker, NEW c \in Conn, Forward(w, c)
      PROVE  shared' = {}
  <2>1. worker[v] = c
    BY <1>1, <1>3 DEF Forward, At
  <2>2. \A s \in Conn : s # c => pc[s] \in {"idle", "done"}
    BY <1>1, <2>1, BusyIsServed DEF OnlyServedForward, Busy, Running
  <2>3. CASE F!Open(c)
    <3>1. F!Holders(path[c]) = {}
      BY <2>2, <2>3 DEF F!Open, F!Holders
    <3>2. QED BY <2>3, <3>1 DEF F!Open
  <2>4. CASE ~F!Open(c)
    BY <1>3, <2>4 DEF Forward, F!Fetch, F!Begin, F!ReadHeader, F!Now, F!LocalTime,
       F!NameFile, F!ReceiveChunk, F!ReceiveDone, F!ReceiveFails, F!OpenUrl
  <2>5. QED BY <2>3, <2>4
<1>4. ASSUME NEW w \in Worker, NEW c \in Conn, Respond(w, c)
      PROVE  shared' = {}
  BY <1>4 DEF Respond, DropResponse, F!SendChunk, F!SendDone, F!ShortRead, F!Abandon
<1>5. CASE UNCHANGED relayVars
  BY <1>2, <1>5 DEF relayVars
<1>6. CASE F!Tick
  BY <1>2, <1>6 DEF F!Tick
<1>7. QED BY <1>2, <1>3, <1>4, <1>5, <1>6 DEF ProxyNext, Beside, Serve, proxyVars, relayVars

\* It is the pool that makes "tmp", and the files named after a second, a
\* hazard: with one thread no file is ever shared.
THEOREM LoneThreadSharesNothing ==
  ProxySpec => [](Cardinality(Worker) = 1 => shared = {})
<1> DEFINE Alone == Cardinality(Worker) = 1 => shared = {}
<1>1. ProxyInit => Alone
  BY DEF ProxyInit, F!Init
<1>2. PInv /\ Alone /\ [ProxyNext]_proxyVars => Alone'
  BY LoneThreadStep
<1>3. QED BY <1>1, <1>2, ProxyInvariance, PTL DEF ProxySpec
-----------------------------------------------------------------------------
(***************************************************************************)
(* What ForwarderProofs shows of the forwarders holds of the proxy's.  P   *)
(* is Forwarder, as F is, together with the theorems about it.             *)
(***************************************************************************)
P == INSTANCE ForwarderProofs WITH Req <- Conn

\* The proxy's constants are as the forwarders' proofs assume.
LEMMA RelayAssumption == P!ForwarderAssumption
BY ProxyAssumption DEF F!ForwarderAssumption, P!ForwarderAssumption, F!HeadKind, P!HeadKind,
                       F!ForwarderType, P!ForwarderType

\* F and P are one system.
LEMMA SameRelay == (F!Init => P!Init) /\ ([F!Next]_(F!vars) => [P!Next]_(P!vars))
<1>1. F!Init => P!Init
  BY DEF F!Init, P!Init, F!Path, P!Path, F!Second, P!Second
<1> USE DEF F!Goto, P!Goto, F!Fail, P!Fail
<1>2. ASSUME NEW c \in Conn, F!Fetch(c) PROVE P!Fetch(c)
  <2>1. F!Begin(c) <=> P!Begin(c)
    BY DEF F!Begin, P!Begin, F!BeginStreamFails, P!BeginStreamFails
  <2>2. F!Open(c) <=> P!Open(c)
    BY DEF F!Open, P!Open, F!Holders, P!Holders
  <2>3. \A h, n : F!ReadHeader(c, h, n) <=> P!ReadHeader(c, h, n)
    BY DEF F!ReadHeader, P!ReadHeader, F!FlexibleNext, P!FlexibleNext
  <2>4. /\ F!Now(c) <=> P!Now(c)
        /\ F!LocalTime(c) <=> P!LocalTime(c)
        /\ F!NameFile(c) <=> P!NameFile(c)
    BY DEF F!Now, P!Now, F!LocalTime, P!LocalTime, F!NameFile, P!NameFile
  <2>5. F!ReceiveChunk(c) <=> P!ReceiveChunk(c)
    BY DEF F!ReceiveChunk, P!ReceiveChunk, F!MoreToCome, P!MoreToCome, F!WriteAt, P!WriteAt
  <2>6. /\ F!ReceiveDone(c) <=> P!ReceiveDone(c)
        /\ F!ReceiveFails(c) <=> P!ReceiveFails(c)
        /\ F!OpenUrl(c) <=> P!OpenUrl(c)
    BY DEF F!ReceiveDone, P!ReceiveDone, F!ReceiveFails, P!ReceiveFails, F!OnReadError,
           P!OnReadError, F!OpenUrl, P!OpenUrl
  <2>7. QED BY <1>2, <2>1, <2>2, <2>3, <2>4, <2>5, <2>6 DEF F!Fetch, P!Fetch
<1>3. ASSUME NEW c \in Conn, F!Deliver(c) PROVE P!Deliver(c)
  BY <1>3 DEF F!Deliver, P!Deliver, F!SendChunk, P!SendChunk, F!SendDone, P!SendDone,
     F!ShortRead, P!ShortRead, F!Abandon, P!Abandon, F!Promised, P!Promised,
     F!NextToSend, P!NextToSend, F!Path, P!Path, F!Second, P!Second
<1>4. (F!Tick => P!Tick) /\ (F!Idle => P!Idle) /\ F!vars = P!vars
  BY DEF F!Tick, P!Tick, F!Idle, P!Idle, F!vars, P!vars
<1>5. QED BY <1>1, <1>2, <1>3, <1>4 DEF F!Next, P!Next, F!vars, P!vars

\* The forwarders' invariant holds in every state of the proxy.
THEOREM RelayInvariance == ProxySpec => []P!IInv
<1>1. ProxyInit => P!IInv
  <2>1. P!Init => P!IInv
    BY P!InitInv, RelayAssumption DEF P!ForwarderAssumption, P!HeadKind, P!ForwarderType
  <2>2. QED BY <2>1, SameRelay DEF ProxyInit
<1>2. P!IInv /\ [ProxyNext]_proxyVars => P!IInv'
  <2>1. P!IInv /\ [P!Next]_(P!vars) => P!IInv'
    BY P!StepInv, RelayAssumption DEF P!ForwarderAssumption, P!HeadKind, P!ForwarderType
  <2>2. QED BY <2>1, SameRelay, StepOfForwarder
<1>3. QED BY <1>1, <1>2, PTL DEF ProxySpec

-----------------------------------------------------------------------------
(***************************************************************************)
(* What a client is sent is genuine, from end to end.                      *)
(***************************************************************************)
\* What the forwarders' proofs say of a reply that was sent to its end, or that
\* broke off, in the proxy's terms.
LEMMA RelayedReplies ==
  ASSUME P!IInv, NEW c \in Conn
  PROVE  /\ result[c] = "ok" =>
              /\ IF path[c] = Url THEN head[c] \in {"bad", "fileurl"}
                 ELSE /\ head[c] \notin {"none", "bad"}
                      /\ got[c] = IF F!Unread(c) THEN 0 ELSE size[c]
              /\ Len(out[c]) = Len(F!Due(c))
              /\ c \notin shared => out[c] = F!Due(c)
         /\ result[c] = "cut" => c \in shared \/ path[c] = Url
<1>1. F!Unread(c) = P!Unread(c)
  BY DEF F!Unread, P!Unread
<1>2. F!Due(c) = P!Due(c)
  BY <1>1 DEF F!Due, P!Due, F!Body, P!Body
<1>3. ASSUME result[c] = "ok"
      PROVE  Len(out[c]) = Len(P!Due(c)) /\ (c \notin shared => out[c] = P!Due(c))
  BY <1>3, P!SentWhole, RelayAssumption DEF P!ForwarderAssumption, P!HeadKind, P!ForwarderType
<1>4. result[c] = "ok" =>
        IF path[c] = Url THEN head[c] \in {"bad", "fileurl"}
        ELSE /\ head[c] \notin {"none", "bad"}
             /\ got[c] = IF P!Unread(c) THEN 0 ELSE size[c]
  BY DEF P!IInv, P!Answered
<1>5. result[c] = "cut" => c \in shared \/ path[c] = Url
  BY DEF P!IInv, P!Own
<1>6. QED BY <1>1, <1>2, <1>3, <1>4, <1>5

\* Only a request that a route covers comes to a forwarder.
OnlyRouted ==
  \A c \in Conn :
    stage[c] = "process" \/ reply[c] \in {"response", "spoiled"} => c \in routed

LEMMA ProxyStepRouted == PInv /\ OnlyRouted /\ [ProxyNext]_proxyVars => OnlyRouted'
<1> SUFFICES ASSUME PInv, OnlyRouted, [ProxyNext]_proxyVars PROVE OnlyRouted'
  OBVIOUS
<1>1. TypeOK /\ UNCHANGED routed
  BY DEF PInv, IInv, ProxyNext, Beside, Serve, Forward, Respond, relayVars, proxyVars
<1>2. CASE UNCHANGED <<stage, reply>>
  BY <1>1, <1>2 DEF OnlyRouted
<1>3. ASSUME NEW w \in Worker, NEW c \in Conn, Forward(w, c) \/ Respond(w, c)
      PROVE  OnlyRouted'
  <2>1. c \in routed
    BY <1>3 DEF OnlyRouted, Forward, Respond, At
  <2>2. \/ UNCHANGED <<stage, reply>>
        \/ /\ \E s \in Stage : stage' = [stage EXCEPT ![c] = s]
           /\ reply' = reply \/ \E r \in Reply : reply' = [reply EXCEPT ![c] = r]
    BY <1>3 DEF Forward, OnThrow, ReplyWith, Respond, DropResponse, WriteAll, WriteComesShort,
       WriteFails, OnWriteError, Goto, vars, pipeVars, Stage, Reply
  <2>3. QED BY <1>1, <2>1, <2>2 DEF OnlyRouted, TypeOK
<1>4. ASSUME NEW w \in Worker, NEW c \in Conn,
             Read(w, c) \/ SelectRoute(w, c) \/ WriteError(w, c) \/ Finish(w, c)
             \/ LogError(w, c)
      PROVE  OnlyRouted'
  <2>1. \E q \in Stage, r \in Reply :
          /\ stage' = [stage EXCEPT ![c] = q] /\ reply' = [reply EXCEPT ![c] = r]
          /\ q = "process" => c \in routed
          /\ r \in {"response", "spoiled"} => r = reply[c] \/ reply[c] \in {"response", "spoiled"}
    <3>1. CASE Read(w, c) \/ WriteError(w, c)
      BY <1>1, <3>1 DEF Read, WriteError, Write, WriteAll, WriteFails, WriteComesShort,
         OnWriteError, ReplyWith, Goto, At, TypeOK, Stage, Reply
    <3>2. CASE SelectRoute(w, c)
      BY <1>1, <3>2 DEF SelectRoute, Select, Covered, ReplyWith, Goto, At, TypeOK, Stage, Reply
    <3>3. CASE Finish(w, c) \/ LogError(w, c)
      BY <1>1, <3>3 DEF Finish, CloseThrows, Goto, LogError, Release, TypeOK, Stage, Reply
    <3>4. QED BY <1>4, <3>1, <3>2, <3>3
  <2>2. QED BY <1>1, <2>1 DEF OnlyRouted, TypeOK
<1>5. CASE Beside
  <2>1. UNCHANGED reply /\ \A c \in Conn : stage'[c] = "process" => stage[c] = "process"
    <3>1. CASE \E w \in Worker, c \in Conn : Take(w, c)
      BY <1>1, <3>1 DEF Take, TypeOK
    <3>2. CASE ~ \E w \in Worker, c \in Conn : Take(w, c)
      BY <1>5, <3>2 DEF Beside, Listen, BindFails, Chain, Accept, AcceptFails, HandshakeDone,
         HandshakeFails, HandOff, Client, Connect, Leave, Send, Idle, vars, pipeVars
    <3>3. QED BY <3>1, <3>2
  <2>2. QED BY <1>1, <2>1 DEF OnlyRouted
<1>6. CASE UNCHANGED vars
  BY <1>2, <1>6 DEF vars, pipeVars
<1>7. QED BY <1>3, <1>4, <1>5, <1>6 DEF ProxyNext, Serve, proxyVars

\* A client is sent a success only for a parsed request that a route covers, on
\* an upstream's proper header, with the whole body received, none of it (a
\* response without Content-Length, relayed by the flexible forwarder) or a
\* url's file in its place.
THEOREM SuccessIsGenuine == ProxySpec => []GenuineSuccess
<1>1. ProxyInit => OnlyRouted
  BY DEF ProxyInit, Init, OnlyRouted
<1>2. PInv /\ OnlyRouted /\ [ProxyNext]_proxyVars => OnlyRouted'
  BY ProxyStepRouted
<1>3. PInv /\ Views /\ P!IInv /\ OnlyRouted => GenuineSuccess
  BY RelayedReplies DEF PInv, IInv, OnlyGenuineServed, Views, View, Agrees, OnlyRouted,
     GenuineSuccess
<1>4. QED BY <1>1, <1>2, <1>3, ProxyInvariance, RelayInvariance, PTL DEF ProxySpec

\* Whatever a forwarder, its upstream or a write does, a client that stays gets a
\* complete reply, unless another request truncated its file or the file at the
\* url changed: for any number of connections and threads.
THEOREM StayersAreAnswered == ProxySpec => []AnsweredUnlessShared
<1>1. PInv /\ Views /\ P!IInv => AnsweredUnlessShared
  <2> SUFFICES ASSUME PInv, Views, P!IInv, NEW c \in Conn,
                      ended[c] \in {"finished", "dropped"}, written[c] = 0, ~gone[c]
               PROVE  c \in shared \/ path[c] = Url
    BY DEF AnsweredUnlessShared
  <2>1. reply[c] = "spoiled"
    BY DEF PInv, IInv, ReplyAccounting
  <2>2. result[c] = "cut"
    BY <2>1 DEF Views, View, Agrees
  <2>3. QED BY <2>2, RelayedReplies
<1>2. QED BY <1>1, ProxyInvariance, RelayInvariance, PTL

\* With one thread every reply that is sent to its end is the body due to its
\* client, and none but a url's file is cut short: no interleaving of clients, no
\* clock and no temporary file of another request can spoil it.
THEOREM LoneThreadKeepsIntact == ProxySpec => []LoneThreadIntact
<1> DEFINE Alone == Cardinality(Worker) = 1 => shared = {}
<1>1. Alone /\ Views /\ P!IInv => LoneThreadIntact
  BY RelayedReplies DEF Views, View, Agrees, LoneThreadIntact
<1>2. QED BY <1>1, LoneThreadSharesNothing, ProxyInvariance, RelayInvariance, PTL

\* What the client is sent as a complete response has the length of the body due
\* to it, and is that body unless its file was open twice at once.
DueBody ==
  \A c \in Conn :
    written[c] = 1 /\ reply[c] = "response" =>
      /\ Len(out[c]) = Len(F!Due(c))
      /\ c \notin shared => out[c] = F!Due(c)

\* End to end, from the upstream's body over the file to the client's socket:
\* what is sent to its end is the body due (the whole of the upstream's, or of
\* the url's file, or nothing where the code reads none), for any number of
\* connections and threads.
THEOREM ClientsGetTheirDue == ProxySpec => []DueBody
<1>1. Views /\ P!IInv => DueBody
  BY RelayedReplies DEF Views, View, Agrees, DueBody
<1>2. QED BY <1>1, ProxyInvariance, RelayInvariance, PTL

-----------------------------------------------------------------------------
(***************************************************************************)
(* What ServerProofs shows of the server holds of the proxy's.             *)
(***************************************************************************)
\* The proxy, forwarders and files included, keeps what ConnectionService
\* promises of each connection.
THEOREM ProxyRefinesService == ProxySpec => ServiceSpec
BY ImplementsServer, Refinement, PTL DEF ServesAsServer
=============================================================================
