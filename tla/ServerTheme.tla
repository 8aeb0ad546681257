---------------------------- MODULE ServerTheme ----------------------------
(***************************************************************************)
(* The server theme demonstration (server_theme.cpp): main starts detached *)
(* request flows on a thread pool, asks the pool to stop and leaves, while *)
(* the flows may not have begun.  The pool (exec::static_thread_pool) is   *)
(* external: a queue for each thread, filled in turn, from which idle      *)
(* threads also steal; its destructor stops and joins the threads.         *)
(*                                                                         *)
(* No flow sees the stop: start_detached gives it no stop token, so that   *)
(* stopped_to_response never answers.                                      *)
(***************************************************************************)
EXTENDS Integers

CONSTANTS Flows,    (* how many flows main starts                          *)
          Threads,  (* how many threads the pool has                       *)
          Faked     (* the flow whose url main clears                      *)

ASSUME ThemeAssumption ==
  Flows \in Nat /\ Threads \in Nat \ {0} /\ Faked \in Nat

Flow   == 0..(Flows - 1)
Thread == 0..(Threads - 1)

VARIABLES next,    (* the loop variable of main                            *)
          main,    (* where main is                                        *)
          thread,  (* what each thread does: a flow, Waiting or Gone       *)
          stage,   (* how far each flow has come                           *)
          status,  (* the status of its response, 0 before there is one    *)
          answers  (* how many responses it has sent                       *)

vars == <<next, main, thread, stage, status, answers>>

Waiting == -1
Gone    == -2

TypeOK ==
  /\ next \in 0..Flows
  /\ main \in {"starting", "stopped", "exited"}
  /\ thread \in [Thread -> Flow \cup {Waiting, Gone}]
  /\ stage \in [Flow -> {"none", "queued", "validate", "handle", "send", "done"}]
  /\ status \in [Flow -> {0, 200, 404}]
  /\ answers \in [Flow -> Nat]

Init ==
  /\ next = 0 /\ main = "starting"
  /\ thread = [t \in Thread |-> Waiting]
  /\ stage = [f \in Flow |-> "none"]
  /\ status = [f \in Flow |-> 0]
  /\ answers = [f \in Flow |-> 0]

-----------------------------------------------------------------------------
\* transfer_just and start_detached: the next flow is queued.
StartFlow ==
  /\ main = "starting" /\ next < Flows
  /\ stage' = [stage EXCEPT ![next] = "queued"]
  /\ next' = next + 1
  /\ UNCHANGED <<main, thread, status, answers>>

\* pool.request_stop(), after the loop.
RequestStop ==
  /\ main = "starting" /\ next = Flows
  /\ main' = "stopped"
  /\ UNCHANGED <<next, thread, stage, status, answers>>

\* The pool's destructor has joined every thread.
Join ==
  /\ main = "stopped" /\ \A t \in Thread : thread[t] = Gone
  /\ main' = "exited"
  /\ UNCHANGED <<next, thread, stage, status, answers>>

\* The thread whose queue a flow is put in.
Owner(f) == f % Threads

\* A waiting thread takes a flow from its queue or from another's.
Take(t, f) ==
  /\ thread[t] = Waiting /\ stage[f] = "queued"
  /\ thread' = [thread EXCEPT ![t] = f]
  /\ stage' = [stage EXCEPT ![f] = "validate"]
  /\ UNCHANGED <<next, main, status, answers>>

\* The pool lets a thread go once a stop is requested and its own queue is empty.
MayLeave(t) ==
  main = "stopped" /\ \A f \in Flow : stage[f] = "queued" => Owner(f) # t

Leave(t) ==
  /\ thread[t] = Waiting /\ MayLeave(t)
  /\ thread' = [thread EXCEPT ![t] = Gone]
  /\ UNCHANGED <<next, main, stage, status, answers>>

\* The flow goes on to stage s with status n.
Goto(f, s, n) ==
  /\ stage' = [stage EXCEPT ![f] = s]
  /\ status' = [status EXCEPT ![f] = n]
  /\ UNCHANGED <<next, main, thread, answers>>

\* schedule_request_start clears the url of one flow.
HasUrl(f) == f # Faked

\* VARIANT: the handlers in the wrong order, std::exception before the type that
\* derives from it.
ErrorToResponse_Unordered(f) == Goto(f, "send", 500)

\* VARIANT: the error has the same request validated again, as often as it fails.
ErrorToResponse_Retries(f) == Goto(f, "validate", 0)

\* let_error(error_to_response): validate_request throws invalid_argument.
ErrorToResponse(f) == Goto(f, "send", 404)

\* validate_request.
Validate(f) ==
  /\ stage[f] = "validate"
  /\ \/ ~HasUrl(f) /\ ErrorToResponse(f)
     \/ HasUrl(f) /\ Goto(f, "handle", 0)

\* handle_request.
Handle(f) == stage[f] = "handle" /\ Goto(f, "send", 200)

\* send_response, and the thread is free again.
Send(t, f) ==
  /\ stage[f] = "send"
  /\ answers' = [answers EXCEPT ![f] = @ + 1]
  /\ stage' = [stage EXCEPT ![f] = "done"]
  /\ thread' = [thread EXCEPT ![t] = Waiting]
  /\ UNCHANGED <<next, main, status>>

Run(t) == \E f \in Flow : thread[t] = f /\ (Validate(f) \/ Handle(f) \/ Send(t, f))

Main == StartFlow \/ RequestStop \/ Join
Pool(t) == (\E f \in Flow : Take(t, f)) \/ Leave(t) \/ Run(t)

Ended == main = "exited" /\ UNCHANGED vars

Next == Main \/ (\E t \in Thread : Pool(t)) \/ Ended

Spec == Init /\ [][Next]_vars
FairSpec == Spec /\ WF_vars(Main) /\ \A t \in Thread : WF_vars(Pool(t))

-----------------------------------------------------------------------------
(***************************************************************************)
(* Properties.                                                             *)
(***************************************************************************)
\* Main asks for the stop while flows are queued or under way, and one of them
\* throws.  The process still exits only after every flow has sent exactly one
\* response, with the status of its request; before, no flow has sent more than
\* one.
AllAnswered ==
  \A f \in Flow :
    /\ answers[f] <= 1
    /\ main = "exited" => answers[f] = 1 /\ status[f] = IF f = Faked THEN 404 ELSE 200

\* Every flow reaches its end, the one that throws too, so that the join of the
\* pool's destructor returns and the process exits.
Terminates == <>(main = "exited")
=============================================================================
