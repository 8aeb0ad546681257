---------------------------- MODULE ReverseProxy ----------------------------
(***************************************************************************)
(* The reverse proxy as a whole (reverseproxy.cpp): the connection server  *)
(* whose pipeline calls the router and the forwarder it selects.  Server   *)
(* and Forwarder run here as one system: the server's abstract Process and *)
(* Write are the forwarder's steps, taken by the pool thread that runs the *)
(* connection, and a request is named after its connection.                *)
(***************************************************************************)
EXTENDS Server

CONSTANTS Forwarders, Heads, MaxSize, Threshold, MaxClock,  (* of Forwarder *)
          Memory, Tmp, Url, Hole

VARIABLES routed,   (* the connections whose target a route covers         *)
          clock, tm, now, file, pc, forwarder, head, size, got, path,
          out, result, shared                         (* those of Forwarder *)

F == INSTANCE Forwarder WITH Req <- Conn

ASSUME ProxyAssumption == F!ForwarderAssumption /\ IsFiniteSet(Worker)

relayVars == <<routed, clock, tm, now, file, pc, forwarder, head, size, got, path, out,
               result, shared>>
proxyVars == <<vars, relayVars>>

ProxyInit == Init /\ F!Init /\ routed \in SUBSET Conn

-----------------------------------------------------------------------------
\* getForwarder finds a route for the target; otherwise it returns nullptr and
\* processRequest throws.
Covered(c) == c \in routed

\* VARIANT: processRequest calls what getForwarder returned without looking
\* whether it is null.
SelectRoute_Unchecked(w, c) ==
  /\ At(w, c, "select")
  /\ IF Covered(c) THEN Goto(c, "process") /\ UNCHANGED <<reply, written>>
     ELSE /\ server' = "terminated"
          /\ UNCHANGED <<accepting, handshaking, handingOff, faults, backlog, poolVars,
                         pipeVars, ended, clientVars>>

SelectRoute(w, c) ==
  /\ Select(w, c)
  /\ Covered(c) <=> stage'[c] = "process"

\* VARIANT: an exception in the forwarder skips the reply.
OnThrow_Drops(c) == Goto(c, "finish") /\ UNCHANGED <<reply, written>>

\* The forwarder has thrown: the pipeline goes on with a 500.
OnThrow(c) == ReplyWith(c, "error") /\ UNCHANGED written

\* VARIANT: a request that the upstream fails is sent again, without end.
Forward_Retries(w, c) ==
  /\ At(w, c, "process") /\ UNCHANGED routed
  /\ \/ F!Fetch(c) /\ pc'[c] = "sending" /\ ReplyWith(c, "response") /\ UNCHANGED written
     \/ F!Fetch(c) /\ pc'[c] \notin {"sending", "done"} /\ UNCHANGED vars
     \/ /\ pc[c] = "waiting" /\ pc' = [pc EXCEPT ![c] = "idle"]
        /\ UNCHANGED <<vars, clock, tm, now, file, forwarder, head, size, got, path, out, result, shared>>

\* While the pipeline is at processRequest its thread runs the forwarder.
Forward(w, c) ==
  /\ At(w, c, "process")
  /\ F!Fetch(c)
  /\ \/ pc'[c] = "sending" /\ ReplyWith(c, "response") /\ UNCHANGED written
     \/ pc'[c] = "done" /\ OnThrow(c)
     \/ pc'[c] \notin {"sending", "done"} /\ UNCHANGED vars
  /\ UNCHANGED routed

\* VARIANT: a failed write leaves the response, and its file, alive.
DropResponse_Leaks(c) ==
  UNCHANGED <<clock, tm, now, file, pc, forwarder, head, size, got, path, out, result, shared>>

\* VARIANT: a failed write sends the request to the upstream again.
DropResponse_Retries(c) ==
  /\ pc' = [pc EXCEPT ![c] = "idle"]
  /\ UNCHANGED <<clock, tm, now, file, forwarder, head, size, got, path, out, result, shared>>

\* A failed write destroys the response, and the file in it.
DropResponse(c) == F!Abandon(c)

\* sendResponse writes the forwarder's response, chunk by chunk.
Respond(w, c) ==
  /\ At(w, c, "write")
  /\ reply[c] = "response"
  /\ \/ F!SendChunk(c) /\ UNCHANGED vars
     \/ F!SendDone(c) /\ WriteAll(c)
     \/ F!ShortRead(c) /\ WriteComesShort(c)
     \/ DropResponse(c) /\ WriteFails(c)
  /\ UNCHANGED routed

\* The other replies are short strings.
WriteError(w, c) == reply[c] = "error" /\ Write(w, c)

Serve(w, c) ==
  \/ Forward(w, c) \/ Respond(w, c)
  \/ /\ Read(w, c) \/ SelectRoute(w, c) \/ WriteError(w, c) \/ Finish(w, c)
        \/ LogError(w, c)
     /\ UNCHANGED relayVars

\* Start-up, accept chain and clients do not touch the forwarders.
Beside ==
  /\ Listen \/ BindFails \/ Chain \/ Client \/ Idle
     \/ \E w \in Worker, c \in Conn : Take(w, c)
  /\ UNCHANGED relayVars

ProxyNext ==
  \/ Beside
  \/ \E w \in Worker, c \in Conn : Serve(w, c)
  \/ F!Tick /\ UNCHANGED <<vars, routed>>

ProxySpec == ProxyInit /\ [][ProxyNext]_proxyVars

\* As in Server, where now every upstream answers, or fails, in the end.
ProxyFairness ==
  /\ WF_proxyVars(Accept /\ UNCHANGED relayVars)
  /\ \A c \in Conn :
       /\ WF_proxyVars((HandshakeDone(c) \/ HandshakeFails(c)) /\ UNCHANGED relayVars)
       /\ WF_proxyVars(HandOff(c) /\ UNCHANGED relayVars)
       /\ WF_proxyVars((\E w \in Worker : Take(w, c)) /\ UNCHANGED relayVars)
       /\ WF_proxyVars(\E w \in Worker : Serve(w, c))
       /\ WF_proxyVars(Leave(c) /\ UNCHANGED relayVars)
  /\ \A c \in Patient : WF_proxyVars((\E m \in Wire : Send(c, m)) /\ UNCHANGED relayVars)

ProxyFairSpec == ProxySpec /\ ProxyFairness

-----------------------------------------------------------------------------
(***************************************************************************)
(* Properties.                                                             *)
(***************************************************************************)
\* The requests that hold an upstream connection or a response, with its file.
Busy == {c \in Conn : pc[c] \notin {"idle", "done"}}

\* Upstream connections, temporary files and responses live exactly as long as
\* a pool thread is at processRequest or sendResponse for their connection:
\* however the write ends, nothing outlives it.
OnlyServedForward ==
  \A c \in Busy : c \in Running /\ stage[c] \in {"process", "write"}

\* The pool bounds what the proxy holds open towards upstreams and on disk,
\* however many clients there are: never more than one for each thread.
UpstreamBound == Cardinality(Busy) <= Cardinality(Worker)

\* Whatever a forwarder, its upstream or a write does, the pipeline lets a client
\* that is still there go without a complete reply in two cases only: another
\* request truncated the file its response is read from, or the file at the url
\* changed under it.
AnsweredUnlessShared ==
  \A c \in Conn :
    ended[c] \in {"finished", "dropped"} /\ written[c] = 0 =>
      gone[c] \/ c \in shared \/ path[c] = Url

\* End to end: a client is sent a success only for a request that was read and
\* parsed, that a route covers, and that an upstream answered with a proper
\* header and its whole body, but for the forwarder's two exceptions: a url's
\* file replaces the response, and of a response without Content-Length the
\* flexible forwarder reads no body at all (Unread).
GenuineSuccess ==
  \A c \in Conn :
    written[c] = 1 /\ reply[c] = "response" =>
      /\ sent[c] = "request" /\ c \in routed
      /\ IF path[c] = Url THEN head[c] \in {"bad", "fileurl"}
         ELSE /\ head[c] \notin {"none", "bad"}
              /\ got[c] = IF F!Unread(c) THEN 0 ELSE size[c]

\* With a single pool thread the file names of the forwarders never clash: every
\* reply sent to its end is the body due to its client, and none but a url's file
\* breaks off.  It is the pool that makes "tmp" and the files named after a
\* second a hazard.
LoneThreadIntact ==
  Cardinality(Worker) = 1 =>
    /\ shared = {}
    /\ \A c \in Conn : result[c] = "ok" => out[c] = F!Due(c)
    /\ \A c \in Conn : reply[c] = "spoiled" => path[c] = Url

\* The proxy is a Server, whose Process and Write are its forwarder's steps ...
ServesAsServer == Spec

\* ... and its forwarders behave as Forwarder says, one request a connection.
RelaysAsForwarder == F!Spec

\* The fairness Server assumes of its handlers is what the forwarders provide.
FairAsServer == FairSpec
=============================================================================
