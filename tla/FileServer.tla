----------------------------- MODULE FileServer -----------------------------
(***************************************************************************)
(* The file server (fileserver.cpp): one loop that accepts a TLS client,   *)
(* serves it and closes the stream before it accepts the next.  A guard    *)
(* object whose deleter shuts TLS down and closes the socket ends every    *)
(* turn of the loop, however the turn goes.                                *)
(*                                                                         *)
(* As in Server, sent[c] is what client c has put on the wire so far and   *)
(* gone[c] whether it has closed its side.                                 *)
(***************************************************************************)
EXTENDS Integers, Sequences

CONSTANTS Conn,     (* client connections                                  *)
          Patient,  (* those whose client asks for a file and waits        *)
          Targets,  (* the kinds of target clients ask for                 *)
          None      (* nobody is being served                              *)

\* A file below /tmp, or a target with no name after the first character,
\* such as "/".
TargetKind == {"file", "nameless"}

ASSUME FileServerAssumption ==
  /\ Patient \subseteq Conn /\ None \notin Conn /\ Targets \subseteq TargetKind

VARIABLES at,       (* where the loop is                                   *)
          held,     (* the connection whose stream is open                 *)
          backlog,  (* connections the kernel holds for the acceptor       *)
          reply,    (* what was written to each client                     *)
          opened,   (* whether this turn has opened its file               *)
          sent, gone,
          arrived,  (* history: the connections, as they arrived ...       *)
          released  (* ... and as their sockets were closed                *)

serverVars == <<at, held, reply, opened, released>>
clientVars == <<sent, gone, arrived>>
vars == <<serverVars, clientVars, backlog>>

At    == {"accept", "handshake", "read", "open", "respond", "shutdown", "dead"}
Reply == {"none", "ok", "notfound", "error", "short"}
Wire  == {"absent", "silent", "hello", "garbage", "malformed"} \cup TargetKind

\* A stream is open from accept to the end of the turn.
TypeOK ==
  /\ at \in At /\ held \in Conn \cup {None} /\ (held = None <=> at = "accept")
  /\ backlog \in Seq(Conn) /\ arrived \in Seq(Conn) /\ released \in Seq(Conn)
  /\ opened \in BOOLEAN /\ reply \in [Conn -> Reply]
  /\ sent \in [Conn -> Wire] /\ gone \in [Conn -> BOOLEAN]

Init ==
  /\ at = "accept" /\ held = None /\ opened = FALSE
  /\ backlog = <<>> /\ arrived = <<>> /\ released = <<>>
  /\ reply = [c \in Conn |-> "none"]
  /\ sent = [c \in Conn |-> "absent"]
  /\ gone = [c \in Conn |-> FALSE]

-----------------------------------------------------------------------------
(***************************************************************************)
(* Clients.  The kernel completes connections while the loop is busy.      *)
(***************************************************************************)
Connect(c) ==
  /\ at # "dead" /\ sent[c] = "absent"
  /\ sent' = [sent EXCEPT ![c] = "silent"]
  /\ backlog' = Append(backlog, c) /\ arrived' = Append(arrived, c)
  /\ UNCHANGED <<serverVars, gone>>

NextOnWire(c) ==
  CASE sent[c] = "silent" -> {"hello", "garbage"}
    [] sent[c] = "hello"  -> Targets \cup {"malformed"}
    [] OTHER              -> {}

Send(c, m) ==
  /\ ~gone[c] /\ m \in NextOnWire(c)
  /\ c \in Patient => m \in {"hello", "file"}
  /\ sent' = [sent EXCEPT ![c] = m]
  /\ UNCHANGED <<serverVars, gone, arrived, backlog>>

\* A patient client waits for its reply or for the server to close the stream.
Leave(c) ==
  /\ sent[c] # "absent" /\ ~gone[c]
  /\ c \in Patient => reply[c] # "none" \/ (at = "shutdown" /\ held = c)
  /\ gone' = [gone EXCEPT ![c] = TRUE]
  /\ UNCHANGED <<serverVars, sent, arrived, backlog>>

-----------------------------------------------------------------------------
(***************************************************************************)
(* The loop.  Every call blocks it; what a call throws is caught at the    *)
(* end of the loop's body, after the guard has run.                        *)
(***************************************************************************)
\* The loop goes on at next and nothing is written.
Goto(next) == at' = next /\ UNCHANGED <<held, backlog, reply, opened, released, clientVars>>

\* acceptor.accept; when it throws, the loop turns and waits again.
Accept ==
  /\ at = "accept" /\ backlog # <<>>
  /\ at' = "handshake" /\ held' = Head(backlog) /\ backlog' = Tail(backlog)
  /\ UNCHANGED <<reply, opened, released, clientVars>>

\* stream.handshake.
Handshake ==
  /\ at = "handshake"
  /\ \/ sent[held] \notin {"silent", "garbage"} /\ Goto("read")
     \/ (sent[held] = "garbage" \/ gone[held]) /\ Goto("shutdown")

\* http::read throws on bytes that do not parse and at the end of the stream.
ReadThrows(c) == sent[c] = "malformed" \/ gone[c]

\* VARIANT: a read that meets the end of the stream is tried again.
Read_Retries ==
  /\ at = "read"
  /\ \/ sent[held] \in TargetKind /\ Goto("open")
     \/ sent[held] = "malformed" /\ Goto("shutdown")
     \/ gone[held] /\ UNCHANGED vars

Read ==
  /\ at = "read"
  /\ \/ sent[held] \in TargetKind /\ Goto("open")
     \/ ReadThrows(held) /\ Goto("shutdown")

\* VARIANT: a turn that ends with continue does not run the guard.
Write_SkipsGuard(r) ==
  /\ at' = "accept"
  /\ reply' = [reply EXCEPT ![held] = r]
  /\ UNCHANGED <<held, backlog, opened, released, clientVars>>

\* VARIANT: an error that opens no file is only logged.
Write_OnlyLogs(r) ==
  /\ at' = "shutdown"
  /\ reply' = [reply EXCEPT ![held] = IF r = "error" THEN "none" ELSE r]
  /\ UNCHANGED <<held, backlog, opened, released, clientVars>>

\* http::write sends r, or throws because the client has gone.
Write(r) ==
  /\ at' = "shutdown"
  /\ \/ reply' = [reply EXCEPT ![held] = r]
     \/ gone[held] /\ UNCHANGED reply
  /\ UNCHANGED <<held, backlog, opened, released, clientVars>>

\* The file opens, does not exist, or fails to open.
Open ==
  /\ at = "open"
  /\ \/ /\ at' = "respond" /\ opened' = TRUE
        /\ UNCHANGED <<held, backlog, reply, released, clientVars>>
     \/ \E r \in {"notfound", "error"} : Write(r)
     \/ sent[held] = "nameless" /\ Goto("dead")  \* back() of an empty vector

\* http::write of the open file.  The serializer reads the body once before it
\* emits the header: when that read fails (of a directory, or of a file emptied
\* since) it throws with nothing sent.  When a later read fails, the header and
\* some of the body are out.
Respond ==
  /\ at = "respond"
  /\ (\E r \in {"ok", "short"} : Write(r)) \/ Goto("shutdown")

\* shutdown(ec) waits for the client's close_notify, unless there is no TLS
\* session to shut down.
ShutdownReturns(c) == gone[c] \/ sent[c] = "garbage"

\* The guard's deleter, and the loop turns.
Shutdown ==
  /\ at = "shutdown" /\ ShutdownReturns(held)
  /\ at' = "accept" /\ held' = None /\ opened' = FALSE /\ released' = Append(released, held)
  /\ UNCHANGED <<backlog, reply, clientVars>>

Serve == Accept \/ Handshake \/ Read \/ Open \/ Respond \/ Shutdown

\* Nothing is left to do, or the process has died.
Idle ==
  /\ at = "dead" \/ \A c \in Conn : gone[c] /\ \E i \in DOMAIN released : released[i] = c
  /\ UNCHANGED vars

Next == Serve \/ (\E c \in Conn : Connect(c) \/ Leave(c) \/ \E m \in Wire : Send(c, m)) \/ Idle

Spec == Init /\ [][Next]_vars

\* The process runs; a patient client speaks and every client leaves in the
\* end, as nothing in the code makes it.
Fairness ==
  /\ WF_vars(Serve)
  /\ \A c \in Conn : WF_vars(Leave(c))
  /\ \A c \in Patient : WF_vars(\E m \in Wire : Send(c, m))

FairSpec == Spec /\ Fairness

-----------------------------------------------------------------------------
(***************************************************************************)
(* Properties.                                                             *)
(***************************************************************************)
\* No path through the loop, by an exception or by continue, loses a stream,
\* closes one twice or serves out of turn: the connections that arrived are
\* those released, the one held and the backlog, in this order.
InTurn ==
  arrived = released \o (IF held = None THEN <<>> ELSE <<held>>) \o backlog

\* At the end of the turn nothing was sent to a client that is still there, and
\* that sent nothing a handshake or the parser could refuse.
LetDown ==
  /\ at = "shutdown" /\ reply[held] = "none"
  /\ ~gone[held] /\ sent[held] \notin {"garbage", "malformed"}

\* A client that is there and sent a request is let down only by a file that
\* opened and then could not be read: a missing file, one that does not open and
\* one that ends early are answered.  Only a request that parsed is answered.
AnsweredIfHeard ==
  /\ \A c \in Conn : reply[c] # "none" => sent[c] \in TargetKind
  /\ LetDown => opened

\* Every client is let go in the end, however the ones before it behave, as long
\* as none of them has killed the process.
AllReleased ==
  \A c \in Conn : sent[c] # "absent" ~> at = "dead" \/ \E i \in DOMAIN released : released[i] = c

\* The loop is a ConnectionService with a single slot, the turn of the loop.
StatusOf(c) ==
  CASE sent[c] = "absent" -> "away"
    [] \E i \in DOMAIN released : released[i] = c -> "ended"
    [] held = c -> IF reply[c] = "none" THEN "serving" ELSE "answered"
    [] OTHER -> "waiting"

Service == INSTANCE ConnectionService WITH
             Worker <- {"turn"},
             status <- [c \in Conn |-> StatusOf(c)],
             slot   <- [w \in {"turn"} |-> held],
             halted <- at = "dead"
ServiceSpec == Service!Spec
=============================================================================
