------------------------- MODULE ConnectionService -------------------------
(***************************************************************************)
(* What the server promises about each client connection, whatever the     *)
(* accept loop, the coroutines and the thread pool do inside: a connection *)
(* arrives, waits, is taken by one of a fixed number of service slots (the *)
(* pool's threads), is answered at most once and ends; or it is turned     *)
(* away while it waits.  An ended connection stays ended and its slot is   *)
(* free again.  The process may also halt, and then nothing happens.       *)
(***************************************************************************)
CONSTANTS Conn,    (* the client connections                               *)
          Worker,  (* the service slots: the threads of the pool           *)
          None     (* marks a slot that serves no connection               *)

VARIABLES status,  (* how far each connection has come                     *)
          slot,    (* the connection each slot serves                      *)
          halted   (* whether the process has stopped                      *)

vars == <<status, slot, halted>>

Status == {"away", "waiting", "serving", "answered", "ended"}

Init == /\ status = [c \in Conn |-> "away"]
        /\ slot = [w \in Worker |-> None]
        /\ halted = FALSE

\* A client connects.
Arrive(c) ==
  /\ status[c] = "away"
  /\ status' = [status EXCEPT ![c] = "waiting"]
  /\ UNCHANGED slot

\* A waiting connection is turned away: its TLS handshake failed.
TurnAway(c) ==
  /\ status[c] = "waiting"
  /\ status' = [status EXCEPT ![c] = "ended"]
  /\ UNCHANGED slot

\* A free slot takes a waiting connection.
Assign(w, c) ==
  /\ slot[w] = None
  /\ status[c] = "waiting"
  /\ slot' = [slot EXCEPT ![w] = c]
  /\ status' = [status EXCEPT ![c] = "serving"]

\* The connection a slot serves is sent its one reply.
Answer(w) ==
  /\ slot[w] \in Conn
  /\ status[slot[w]] = "serving"
  /\ status' = [status EXCEPT ![slot[w]] = "answered"]
  /\ UNCHANGED slot

\* The slot lets its connection go, answered or not.
End(w) ==
  /\ slot[w] \in Conn
  /\ status[slot[w]] \in {"serving", "answered"}
  /\ status' = [status EXCEPT ![slot[w]] = "ended"]
  /\ slot' = [slot EXCEPT ![w] = None]

Serve == \/ \E c \in Conn : Arrive(c) \/ TurnAway(c)
         \/ \E w \in Worker, c \in Conn : Assign(w, c)
         \/ \E w \in Worker : Answer(w) \/ End(w)

Halt == halted' = TRUE /\ UNCHANGED <<status, slot>>

Next == ~halted /\ (Halt \/ (Serve /\ UNCHANGED halted))

Spec == Init /\ [][Next]_vars
=============================================================================
