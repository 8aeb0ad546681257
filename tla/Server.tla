------------------------------- MODULE Server -------------------------------
(***************************************************************************)
(* The connection server shared by the reverse proxy and the dump server:  *)
(* the chain of accept / handshake / work coroutines on the io_context     *)
(* (include/streams.hpp), the hand-off to the thread pool and the request  *)
(* pipeline each pool thread runs (include/server.hpp).                    *)
(*                                                                         *)
(* One Conn is one TCP connection of one client.  What a client has put on *)
(* the wire so far is sent[c]; gone[c] says that it has closed its side    *)
(* (or that the network lost it).  The request handler behind the router   *)
(* is abstract here: it answers or throws; a response may turn out, while  *)
(* it is written, to have a body that cannot be sent to its end.           *)
(***************************************************************************)
EXTENDS Integers, Sequences, FiniteSets

CONSTANTS Conn,         (* client connections                              *)
          Patient,      (* the connections whose client sends one request  *)
                        (* and waits for the answer                        *)
          Worker,       (* threads of the static_thread_pool               *)
          SslOn,        (* SslStreamMaker (TRUE) or TCPStreamMaker (FALSE)  *)
          AsyncAccept,  (* waitForAsyncConnection (TRUE) or the blocking   *)
                        (* waitForConnection (FALSE)                       *)
          MaxFaults,    (* bound: how many times accept itself may fail    *)
          None          (* marks an idle worker                            *)

ASSUME ServerAssumption ==
  /\ Patient \subseteq Conn
  /\ SslOn \in BOOLEAN /\ AsyncAccept \in BOOLEAN
  /\ MaxFaults \in Nat
  /\ None \notin Conn

VARIABLES
  server,       (* "starting", "listening" or "terminated"                 *)
  accepting,    (* how many do_accept coroutines wait in async_accept      *)
  handshaking,  (* connections owned by a do_handshake coroutine           *)
  handingOff,   (* connections owned by a do_work coroutine                *)
  faults,       (* accept failures so far                                  *)
  backlog,      (* connections the kernel holds for the acceptor           *)
  queue,        (* connections whose task waits in the pool                *)
  worker,       (* the connection each pool thread runs, or None           *)
  stage,        (* the pipeline stage a connection has reached             *)
  reply,        (* the response variant the pipeline holds                 *)
  written,      (* how many responses were written to the client           *)
  ended,        (* how the server let go of the connection                 *)
  sent,         (* what the client has put on the wire                     *)
  gone          (* whether the client has closed its side                  *)

chainVars  == <<server, accepting, handshaking, handingOff, faults, backlog>>
poolVars   == <<queue, worker>>
pipeVars   == <<stage, reply, written>>
clientVars == <<sent, gone>>
vars == <<chainVars, poolVars, pipeVars, ended, clientVars>>

Stage == {"none", "read", "select", "process", "write", "finish", "log"}
Reply == {"none", "response", "spoiled", "error"}
End   == {"no", "rejected", "finished", "dropped"}
Wire  == {"absent", "silent", "hello", "garbage", "request", "malformed"}

TypeOK ==
  /\ server \in {"starting", "listening", "terminated"}
  /\ accepting \in 0..1
  /\ handshaking \subseteq Conn /\ handingOff \subseteq Conn
  /\ faults \in 0..MaxFaults
  /\ backlog \in Seq(Conn)
  /\ queue \subseteq Conn
  /\ worker \in [Worker -> Conn \cup {None}]
  /\ stage \in [Conn -> Stage]
  /\ reply \in [Conn -> Reply]
  /\ written \in [Conn -> 0..1]
  /\ ended \in [Conn -> End]
  /\ sent \in [Conn -> Wire]
  /\ gone \in [Conn -> BOOLEAN]

Init ==
  /\ server = "starting"
  /\ accepting = 0 /\ handshaking = {} /\ handingOff = {}
  /\ faults = 0
  /\ backlog = <<>>
  /\ queue = {}
  /\ worker = [w \in Worker |-> None]
  /\ stage = [c \in Conn |-> "none"]
  /\ reply = [c \in Conn |-> "none"]
  /\ written = [c \in Conn |-> 0]
  /\ ended = [c \in Conn |-> "no"]
  /\ sent = [c \in Conn |-> "absent"]
  /\ gone = [c \in Conn |-> FALSE]

(***************************************************************************)
(* Start-up: makeAcceptor binds and listens; a failure to bind escapes     *)
(* sync_wait and main.                                                     *)
(***************************************************************************)
Listen ==
  /\ server = "starting"
  /\ server' = "listening"
  /\ accepting' = 1
  /\ UNCHANGED <<handshaking, handingOff, faults, backlog, poolVars, pipeVars,
                 ended, clientVars>>

BindFails ==
  /\ server = "starting"
  /\ server' = "terminated"
  /\ UNCHANGED <<accepting, handshaking, handingOff, faults, backlog, poolVars,
                 pipeVars, ended, clientVars>>

(***************************************************************************)
(* Clients.                                                                *)
(***************************************************************************)
Connect(c) ==
  /\ server = "listening"
  /\ sent[c] = "absent"
  /\ sent' = [sent EXCEPT ![c] = "silent"]
  /\ backlog' = Append(backlog, c)
  /\ UNCHANGED <<server, accepting, handshaking, handingOff, faults, poolVars,
                 pipeVars, ended, gone>>

\* What a client may send next: a hello that fits (or not) when TLS is on,
\* then a request that parses (or not).
NextOnWire(c) ==
  CASE sent[c] = "silent" /\ SslOn -> {"hello", "garbage"}
    [] sent[c] = (IF SslOn THEN "hello" ELSE "silent") -> {"request", "malformed"}
    [] OTHER -> {}

Send(c, m) ==
  /\ server = "listening"
  /\ ~gone[c]
  /\ m \in NextOnWire(c)
  /\ c \in Patient => m \in {"hello", "request"}
  /\ sent' = [sent EXCEPT ![c] = m]
  /\ UNCHANGED <<chainVars, poolVars, pipeVars, ended, gone>>

Leave(c) ==
  /\ server = "listening"
  /\ sent[c] # "absent" /\ ~gone[c]
  /\ c \in Patient => written[c] > 0 \/ ended[c] # "no"
  /\ gone' = [gone EXCEPT ![c] = TRUE]
  /\ UNCHANGED <<chainVars, poolVars, pipeVars, ended, sent>>

(***************************************************************************)
(* The accept chain.  Each coroutine spawns its successor as its last act: *)
(* do_accept -> do_handshake -> do_work -> do_accept.  The TCP maker has   *)
(* no handshake coroutine.                                                 *)
(***************************************************************************)
\* A do_accept coroutine waits in async_accept.
Waiting == accepting > 0

\* VARIANT: the failing coroutine returns without spawning its successor.
Respawn_Forgotten == UNCHANGED accepting

\* VARIANT: a path spawns its successor, and so does whoever it returns to.
Respawn_Twice == accepting' = accepting + 2

\* net::spawn(ioContext, bind_front(accept, accept)): a new do_accept.
Respawn == accepting' = accepting + 1

\* VARIANT: no accept loop deals with a failed accept (the TLS maker passes the
\* plain yield too).
AcceptThrows_Always == TRUE

\* A failed accept throws through ioContext.run() and out of main: the TCP
\* maker passes the plain yield where the TLS maker passes yield[ec].  The
\* blocking loop catches what accept throws.
AcceptThrows == AsyncAccept /\ ~SslOn

Accept ==
  /\ server = "listening"
  /\ Waiting
  /\ backlog # <<>>
  /\ backlog' = Tail(backlog)
  /\ accepting' = accepting - 1
  /\ IF SslOn
       THEN handshaking' = handshaking \cup {Head(backlog)} /\ UNCHANGED handingOff
       ELSE handingOff' = handingOff \cup {Head(backlog)} /\ UNCHANGED handshaking
  /\ UNCHANGED <<server, faults, poolVars, pipeVars, ended, clientVars>>

\* accept fails: unless the error is thrown, the ending do_accept spawns a new
\* one and one still waits.
AcceptFails ==
  /\ server = "listening"
  /\ Waiting
  /\ faults < MaxFaults
  /\ faults' = faults + 1
  /\ IF AcceptThrows
       THEN server' = "terminated" /\ accepting' = accepting - 1
       ELSE UNCHANGED <<server, accepting>>
  /\ UNCHANGED <<handshaking, handingOff, backlog, poolVars, pipeVars, ended,
                 clientVars>>

HandshakeDone(c) ==
  /\ server = "listening"
  /\ c \in handshaking
  /\ sent[c] \in {"hello", "request", "malformed"}
  /\ handshaking' = handshaking \ {c}
  /\ handingOff' = handingOff \cup {c}
  /\ UNCHANGED <<server, accepting, faults, backlog, poolVars, pipeVars, ended,
                 clientVars>>

\* The reader is destroyed with the coroutine and a new do_accept is spawned.
HandshakeFails(c) ==
  /\ server = "listening"
  /\ c \in handshaking
  /\ sent[c] = "garbage" \/ gone[c]
  /\ handshaking' = handshaking \ {c}
  /\ ended' = [ended EXCEPT ![c] = "rejected"]
  /\ Respawn
  /\ UNCHANGED <<server, handingOff, faults, backlog, poolVars, pipeVars,
                 clientVars>>

\* VARIANT: the reader is copied into the task, and do_work keeps it too.
Surrender_Copies(c) == c \in handingOff /\ UNCHANGED handingOff

\* do_work moves its reader out.
Surrender(c) == c \in handingOff /\ handingOff' = handingOff \ {c}

\* do_work: start_detached the connection's task on the pool, then accept.
HandOff(c) ==
  /\ server = "listening"
  /\ Surrender(c)
  /\ queue' = queue \cup {c}
  /\ Respawn
  /\ UNCHANGED <<server, handshaking, faults, backlog, worker, pipeVars, ended,
                 clientVars>>

(***************************************************************************)
(* The pool and the pipeline handleClientRequest builds: read | select |   *)
(* process | (error -> 500) | write | close | (error -> log).  A blocked   *)
(* stage blocks its thread.                                                *)
(***************************************************************************)
Take(w, c) ==
  /\ server = "listening"
  /\ worker[w] = None
  /\ c \in queue
  /\ queue' = queue \ {c}
  /\ worker' = [worker EXCEPT ![w] = c]
  /\ stage' = [stage EXCEPT ![c] = "read"]
  /\ UNCHANGED <<chainVars, reply, written, ended, clientVars>>

\* Worker w runs connection c, which is at stage s.
At(w, c, s) == server = "listening" /\ worker[w] = c /\ stage[c] = s

\* The stage ends normally with next; nothing else of the pipeline changes.
Goto(c, next) ==
  /\ stage' = [stage EXCEPT ![c] = next]
  /\ UNCHANGED <<chainVars, poolVars, ended, clientVars>>

\* handle_error(ProcessApplicationError): an exception becomes a 500 reply.
ReplyWith(c, r) == Goto(c, "write") /\ reply' = [reply EXCEPT ![c] = r]

\* VARIANT: read() drops the error code of http::read.
Parsed_Unchecked(c) == sent[c] \in {"request", "malformed"}

\* http::read returned a request and no error code.
Parsed(c) == sent[c] = "request"

\* VARIANT: a read that fails is tried again on the same socket.
Read_Retries(w, c) ==
  /\ At(w, c, "read")
  /\ \/ /\ Parsed(c)
        /\ Goto(c, "select") /\ UNCHANGED <<reply, written>>
     \/ /\ sent[c] = "malformed" \/ gone[c]
        /\ UNCHANGED vars

\* http::read blocks its thread until a request has come, the bytes do not
\* parse, or the client has gone.
Read(w, c) ==
  /\ At(w, c, "read")
  /\ \/ /\ Parsed(c)
        /\ Goto(c, "select") /\ UNCHANGED <<reply, written>>
     \/ /\ sent[c] = "malformed" \/ gone[c]
        /\ ReplyWith(c, "error") /\ UNCHANGED written

\* getForwarder may return nullptr: processRequest throws.
Select(w, c) ==
  /\ At(w, c, "select")
  /\ \/ Goto(c, "process") /\ UNCHANGED <<reply, written>>
     \/ ReplyWith(c, "error") /\ UNCHANGED written

\* The forwarder or handler answers or throws.
Process(w, c) ==
  /\ At(w, c, "process")
  /\ \E r \in {"response", "error"} : ReplyWith(c, r)
  /\ UNCHANGED written

\* VARIANT: the failed write is swallowed and the pipeline goes on to close.
OnWriteError_Swallowed == "finish"

\* Where the pipeline goes when http::write throws: close is skipped.
OnWriteError == "log"

\* http::write puts the whole reply on the wire.
WriteAll(c) ==
  /\ Goto(c, "finish")
  /\ written' = [written EXCEPT ![c] = @ + 1]
  /\ UNCHANGED reply

\* http::write throws because the client has gone ...
WriteFails(c) ==
  /\ gone[c]
  /\ Goto(c, OnWriteError)
  /\ UNCHANGED <<reply, written>>

\* ... or because the file the body is read from came up short.
WriteComesShort(c) ==
  /\ reply[c] = "response"
  /\ Goto(c, OnWriteError)
  /\ reply' = [reply EXCEPT ![c] = "spoiled"]
  /\ UNCHANGED written

Write(w, c) ==
  /\ At(w, c, "write")
  /\ WriteAll(c) \/ WriteFails(c) \/ WriteComesShort(c)

\* VARIANT: the thread is not given back to the pool.
Release_Leaks(w, c, how) ==
  /\ stage' = [stage EXCEPT ![c] = "none"]
  /\ ended' = [ended EXCEPT ![c] = how]
  /\ UNCHANGED <<chainVars, poolVars, reply, written, clientVars>>

\* The pipeline is over and the thread is free; the socket dies with the
\* pipeline's parameters.
Release(w, c, how) ==
  /\ worker' = [worker EXCEPT ![w] = None]
  /\ stage' = [stage EXCEPT ![c] = "none"]
  /\ ended' = [ended EXCEPT ![c] = how]
  /\ UNCHANGED <<chainVars, queue, reply, written, clientVars>>

\* close() returns: the TLS shutdown waits for the client's close_notify.
CloseReturns(c) == SslOn => gone[c]

\* Both makers close the socket without passing the error code on: closing it
\* may throw, and the last error handler logs that.
CloseThrows(c) == Goto(c, "log") /\ UNCHANGED <<reply, written>>

\* handleFinish.
Finish(w, c) ==
  /\ At(w, c, "finish")
  /\ CloseReturns(c)
  /\ Release(w, c, "finished") \/ CloseThrows(c)

\* handle_error(ProcessSystemError): log what was thrown.
LogError(w, c) == At(w, c, "log") /\ Release(w, c, "dropped")

(***************************************************************************)
(* The specification.                                                      *)
(***************************************************************************)
Chain == Accept \/ AcceptFails
         \/ \E c \in Conn : HandshakeDone(c) \/ HandshakeFails(c) \/ HandOff(c)

Pipeline(w, c) == Read(w, c) \/ Select(w, c) \/ Process(w, c) \/ Write(w, c)
                  \/ Finish(w, c) \/ LogError(w, c)

Pool == \E w \in Worker, c \in Conn : Take(w, c) \/ Pipeline(w, c)

Client == \E c \in Conn : Connect(c) \/ Leave(c) \/ (\E m \in Wire : Send(c, m))

\* Nothing is left to do: every client has been let go, or main is gone.
Idle ==
  /\ \/ server = "terminated"
     \/ \A c \in Conn : ended[c] # "no" /\ gone[c]
  /\ UNCHANGED vars

Next == Listen \/ BindFails \/ Chain \/ Pool \/ Client \/ Idle

\* The io thread and the pool threads keep running; a patient client speaks
\* and every client leaves in the end.
Fairness ==
  /\ WF_vars(Accept)
  /\ \A c \in Conn :
       /\ WF_vars(HandshakeDone(c) \/ HandshakeFails(c)) /\ WF_vars(HandOff(c))
       /\ WF_vars(\E w \in Worker : Take(w, c))
       /\ WF_vars(\E w \in Worker : Pipeline(w, c))
       /\ WF_vars(Leave(c))
  /\ \A c \in Patient : WF_vars(\E m \in Wire : Send(c, m))

Spec == Init /\ [][Next]_vars
FairSpec == Spec /\ Fairness

(***************************************************************************)
(* Properties.                                                             *)
(***************************************************************************)
\* While the server listens the accept chain is exactly one coroutine: no
\* failed accept or handshake loses it and no path of acceptAsyncConnection
\* (streams.hpp) spawns a second one.
SingleChain ==
  server = "listening" =>
    accepting + Cardinality(handshaking) + Cardinality(handingOff) = 1

InBacklog == {backlog[i] : i \in DOMAIN backlog}
Running == {c \in Conn : \E w \in Worker : worker[w] = c}
Live == {c \in Conn : sent[c] # "absent" /\ ended[c] = "no"}

\* A connection that arrived and has not ended has exactly one owner (the
\* kernel's backlog, one coroutine, the pool's queue or one pool thread), and
\* nobody owns any other: the readers that streams.hpp moves from coroutine to
\* coroutine and into the pool are neither leaked nor shared.
OneOwner ==
  /\ Live = InBacklog \cup handshaking \cup handingOff \cup queue \cup Running
  /\ InBacklog \cap (handshaking \cup handingOff \cup queue \cup Running) = {}
  /\ handshaking \cap (handingOff \cup queue \cup Running) = {}
  /\ handingOff \cap (queue \cup Running) = {}
  /\ queue \cap Running = {}
  /\ \A i, j \in DOMAIN backlog : backlog[i] = backlog[j] => i = j
  /\ \A v, w \in Worker : worker[v] = worker[w] /\ worker[v] # None => v = w

\* Whatever a stage of handleClientRequest throws, a connection is closed only
\* after its one reply, and a pipeline that ends in its last error handler
\* either wrote that reply too (the close threw) or could not write it, because
\* the client has gone or the body came up short.  A reply cut short never
\* counts as written.
ReplyAccounting ==
  \A c \in Conn :
    /\ stage[c] = "finish" \/ ended[c] = "finished" => written[c] = 1
    /\ stage[c] = "log" \/ ended[c] = "dropped" =>
         written[c] = 1 \/ gone[c] \/ reply[c] = "spoiled"
    /\ written[c] = 1 => stage[c] \in {"finish", "log"}
                          \/ ended[c] \in {"finished", "dropped"}
    /\ reply[c] = "spoiled" => written[c] = 0

\* Only a request that was read and parsed reaches the forwarder, and a TLS
\* connection whose handshake did not complete never reaches the pool.
OnlyGenuineServed ==
  \A c \in Conn :
    /\ reply[c] \in {"response", "spoiled"} => sent[c] = "request"
    /\ SslOn /\ c \in queue \cup Running => sent[c] \notin {"silent", "garbage"}

\* Every connection is let go in the end; no thread or coroutine keeps it.
AllReleased == \A c \in Conn : sent[c] # "absent" ~> ended[c] # "no"

\* A client that sends its request and waits is answered, whatever accept, the
\* handshakes and the other clients do, unless the body of its response comes
\* up short.  It needs accept loops that carry on: the TCP maker's asynchronous
\* one ends the process (AcceptThrows).
PatientServed ==
  \A c \in Patient :
    sent[c] # "absent" ~> (written[c] = 1 \/ reply[c] = "spoiled")

\* What a client sees of a connection.
StatusOf(c) ==
  CASE ended[c] # "no" -> "ended"
    [] ended[c] = "no" /\ sent[c] = "absent" -> "away"
    [] ended[c] = "no" /\ sent[c] # "absent" /\ stage[c] = "none" -> "waiting"
    [] ended[c] = "no" /\ stage[c] # "none" /\ written[c] = 0 -> "serving"
    [] OTHER -> "answered"

\* The accept chain and the pool implement the service the clients are promised.
Service == INSTANCE ConnectionService WITH
             status <- [c \in Conn |-> StatusOf(c)],
             slot <- worker,
             halted <- server = "terminated"
ServiceSpec == Service!Spec
=============================================================================
