------------------------- MODULE ServerThemeProofs -------------------------
(***************************************************************************)
(* The stop that races the flows, for any number of flows and threads.     *)
(***************************************************************************)
EXTENDS ServerTheme, TLAPS

Running(f) == stage[f] \in {"validate", "handle", "send"}

\* Where main is says what has been started and which threads are left.
Progress ==
  /\ \A f \in Flow : stage[f] = "none" <=> f >= next
  /\ main # "starting" => next = Flows
  /\ main = "starting" => \A t \in Thread : thread[t] # Gone
  /\ main = "exited" => \A t \in Thread : thread[t] = Gone

\* A flow is under way exactly while one thread runs it.
OneThread ==
  /\ \A f \in Flow : Running(f) => \E t \in Thread : thread[t] = f
  /\ \A t \in Thread : thread[t] \in Flow => Running(thread[t])
  /\ \A t, u \in Thread : thread[t] = thread[u] /\ thread[t] \in Flow => t = u

\* A flow has been answered once it is done, with the status it has to have.
Account ==
  \A f \in Flow :
    /\ answers[f] = IF stage[f] = "done" THEN 1 ELSE 0
    /\ stage[f] = "handle" => f # Faked
    /\ stage[f] \in {"send", "done"} => status[f] = IF f = Faked THEN 404 ELSE 200

\* A thread leaves only when its own queue is empty, as the pool has it: whatever
\* is queued still has the thread it was given to.
NoneStranded ==
  \A f \in Flow : stage[f] = "queued" => thread[Owner(f)] # Gone

IInv == TypeOK /\ Progress /\ OneThread /\ Account /\ NoneStranded

-----------------------------------------------------------------------------
\* Every flow has an owner, and the marks of a thread are no flows.
LEMMA Marks ==
  /\ Waiting \notin Flow /\ Gone \notin Flow /\ Waiting # Gone
  /\ \A f \in Flow : Owner(f) \in Thread
<1>1. Waiting \notin Flow /\ Gone \notin Flow /\ Waiting # Gone
  BY ThemeAssumption DEF Flow, Waiting, Gone
<1>2. ASSUME NEW f \in Flow PROVE f % Threads \in 0..(Threads - 1)
  BY ThemeAssumption DEF Flow
<1>3. QED BY <1>1, <1>2 DEF Owner, Thread

LEMMA InitInv == Init => IInv
BY ThemeAssumption, Marks DEF Init, IInv, TypeOK, Progress, OneThread, Account, NoneStranded,
   Running, Flow

\* Main: another flow, the stop, the join.
LEMMA MainKeeps == IInv /\ Main => IInv'
<1> SUFFICES ASSUME IInv, Main PROVE IInv'
  OBVIOUS
<1> USE ThemeAssumption, Marks
<1>1. CASE StartFlow
  <2>1. next \in Flow /\ stage[next] = "none" /\ main = "starting" /\ next < Flows
    BY <1>1 DEF StartFlow, IInv, TypeOK, Progress, Flow
  <2>2. /\ stage' = [stage EXCEPT ![next] = "queued"] /\ next' = next + 1
        /\ UNCHANGED <<main, thread, status, answers>>
    BY <1>1 DEF StartFlow
  <2>3. TypeOK' /\ Progress'
    BY <2>1, <2>2 DEF IInv, TypeOK, Progress, Flow
  <2>4. OneThread'
    BY <2>1, <2>2 DEF IInv, TypeOK, OneThread, Running
  <2>5. Account'
    BY <2>1, <2>2 DEF IInv, TypeOK, Account
  <2>6. NoneStranded'
    BY <2>1, <2>2 DEF IInv, TypeOK, NoneStranded, Progress
  <2>7. QED BY <2>3, <2>4, <2>5, <2>6 DEF IInv
<1>2. CASE RequestStop \/ Join
  BY <1>2 DEF RequestStop, Join, IInv, TypeOK, Progress, OneThread, Account, NoneStranded, Running
<1>3. QED BY <1>1, <1>2 DEF Main

\* A thread takes a flow, or leaves.
LEMMA TakeKeeps ==
  ASSUME IInv, NEW t \in Thread, (\E f \in Flow : Take(t, f)) \/ Leave(t)
  PROVE  IInv'
<1> USE Marks
<1>1. ASSUME NEW f \in Flow, Take(t, f) PROVE IInv'
  <2>1. /\ thread[t] = Waiting /\ stage[f] = "queued"
        /\ thread' = [thread EXCEPT ![t] = f] /\ stage' = [stage EXCEPT ![f] = "validate"]
        /\ UNCHANGED <<next, main, status, answers>>
    BY <1>1 DEF Take
  <2>2. TypeOK' /\ Progress'
    BY <2>1 DEF IInv, TypeOK, Progress
  <2>3. \A u \in Thread : thread[u] # f
    BY <2>1 DEF IInv, OneThread, Running
  <2>4. OneThread'
    BY <2>1, <2>3 DEF IInv, TypeOK, OneThread, Running
  <2>5. Account' /\ NoneStranded'
    BY <2>1 DEF IInv, TypeOK, Account, NoneStranded
  <2>6. QED BY <2>2, <2>4, <2>5 DEF IInv
<1>2. CASE Leave(t)
  <2>1. /\ thread[t] = Waiting /\ main = "stopped"
        /\ \A f \in Flow : stage[f] = "queued" => Owner(f) # t
        /\ thread' = [thread EXCEPT ![t] = Gone]
        /\ UNCHANGED <<next, main, stage, status, answers>>
    BY <1>2 DEF Leave, MayLeave
  <2>2. TypeOK' /\ Progress' /\ Account' /\ NoneStranded'
    BY <2>1 DEF IInv, TypeOK, Progress, Account, NoneStranded
  <2>3. OneThread'
    BY <2>1 DEF IInv, TypeOK, OneThread, Running
  <2>4. QED BY <2>2, <2>3 DEF IInv
<1>3. QED BY <1>1, <1>2

\* The flow a thread runs goes one stage on.
LEMMA RunKeeps ==
  ASSUME IInv, NEW t \in Thread, Run(t)
  PROVE  IInv'
<1> USE Marks
<1>1. PICK f \in Flow : thread[t] = f /\ (Validate(f) \/ Handle(f) \/ Send(t, f))
  BY DEF Run
<1>2. CASE Validate(f) \/ Handle(f)
  <2>1. /\ UNCHANGED <<next, main, thread, answers>> /\ Running(f)
        /\ \E s \in {"handle", "send"}, n \in {0, 200, 404} :
             /\ stage' = [stage EXCEPT ![f] = s] /\ status' = [status EXCEPT ![f] = n]
             /\ s = "handle" => f # Faked
             /\ s = "send" => n = IF f = Faked THEN 404 ELSE 200
    BY <1>2 DEF Validate, HasUrl, Handle, Goto, ErrorToResponse, Running, IInv, Account
  <2>2. TypeOK' /\ Progress' /\ NoneStranded'
    BY <2>1 DEF IInv, TypeOK, Progress, NoneStranded, Running
  <2>3. OneThread'
    BY <2>1 DEF IInv, TypeOK, OneThread, Running
  <2>4. Account'
    BY <2>1 DEF IInv, TypeOK, Account, Running
  <2>5. QED BY <2>2, <2>3, <2>4 DEF IInv
<1>3. CASE Send(t, f)
  <2>1. /\ UNCHANGED <<next, main, status>> /\ stage[f] = "send" /\ answers[f] = 0
        /\ answers' = [answers EXCEPT ![f] = 1]
        /\ stage' = [stage EXCEPT ![f] = "done"] /\ thread' = [thread EXCEPT ![t] = Waiting]
    <3>1. stage[f] = "send" /\ answers[f] = 0 /\ answers \in [Flow -> Nat]
      BY <1>3 DEF Send, IInv, TypeOK, Account
    <3>2. answers' = [answers EXCEPT ![f] = answers[f] + 1]
      BY <1>3 DEF Send
    <3>3. answers[f] + 1 = 1
      BY <3>1
    <3>4. QED BY <1>3, <3>1, <3>2, <3>3 DEF Send
  <2>2. main # "exited"
    BY <1>1 DEF IInv, Progress
  <2>3. TypeOK' /\ Progress' /\ NoneStranded'
    BY <1>1, <2>1, <2>2 DEF IInv, TypeOK, Progress, NoneStranded
  <2>4. OneThread'
    BY <1>1, <2>1 DEF IInv, TypeOK, OneThread, Running
  <2>5. Account'
    BY <2>1 DEF IInv, TypeOK, Account
  <2>6. QED BY <2>3, <2>4, <2>5 DEF IInv
<1>4. QED BY <1>1, <1>2, <1>3

LEMMA StepInv == IInv /\ [Next]_vars => IInv'
<1> SUFFICES ASSUME IInv, [Next]_vars PROVE IInv'
  OBVIOUS
<1>1. CASE UNCHANGED vars
  BY <1>1 DEF vars, IInv, TypeOK, Progress, OneThread, Account, NoneStranded, Running
<1>2. QED BY <1>1, MainKeeps, TakeKeeps, RunKeeps DEF Next, Pool, Ended

-----------------------------------------------------------------------------
(***************************************************************************)
(* The theorems.                                                           *)
(***************************************************************************)
\* The invariant holds in every state.
THEOREM Invariance == Spec => []IInv
BY InitInv, StepInv, PTL DEF Spec

\* The state keeps its types: no response has another status than 200 or 404.
THEOREM TypeCorrect == Spec => []TypeOK
<1>1. IInv => TypeOK
  BY DEF IInv
<1>2. QED BY <1>1, Invariance, PTL

\* Whatever the threads do, main does not return before every flow is answered
\* once, with the status of its request.
THEOREM EveryFlowAnswered == Spec => []AllAnswered
<1>1. ASSUME IInv, NEW f \in Flow, main = "exited" PROVE stage[f] = "done"
  <2>1. \A t \in Thread : thread[t] = Gone
    BY <1>1 DEF IInv, Progress
  <2>2. ~Running(f) /\ stage[f] # "queued"
    BY <1>1, <2>1, Marks DEF IInv, OneThread, NoneStranded
  <2>3. stage[f] # "none"
    BY <1>1, ThemeAssumption DEF IInv, Progress, Flow
  <2>4. QED BY <1>1, <2>2, <2>3 DEF IInv, TypeOK, Running
<1>2. IInv => AllAnswered
  BY <1>1 DEF IInv, Account, AllAnswered
<1>3. QED BY <1>2, Invariance, PTL
=============================================================================
