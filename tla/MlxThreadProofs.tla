-------------------------- MODULE MlxThreadProofs --------------------------
(* Proofs about MlxThread, for any number of calls of Do and of Stop.       *)
EXTENDS MlxThread, TLAPS

USE CallsAssumption, NoneAssumption DEF Calls, Outcomes, Answers

CallRecord ==
    [pc : {"none", "flag", "join", "context", "load", "send", "wait",
           "reset", "closing", "returned"},
     result : Outcomes \cup {None},
     told : Answers \cup {None}]

WorkerRecord ==
    [pc : {"init", "failed", "idle", "running", "ending", "over"},
     job : Calls \cup {None}]

(* What the record of a call can be.                                        *)
CallSound(c) ==
    /\ call[c].told # None <=> call[c].pc = "returned"
    /\ call[c].pc \in {"flag", "join", "reset", "closing"} => c \in Cleanups
    /\ call[c].pc = "load" => c \in Jobs
    /\ call[c].pc \in {"none", "flag", "join", "context", "load", "send", "reset"}
         => call[c].result = None
    /\ call[c].pc = "closing" => call[c].result # None
    /\ call[c].pc = "wait" => call[c].result # None \/ worker.job = c
    /\ call[c].result # None /\ call[c].told # None =>
         \/ call[c].told = "done"
         \/ call[c].told = "cancelled" /\ c \in Cleanups \cap cancelled
    /\ call[c].pc = "reset" => c \in cancelled

(* The worker is at its end exactly when a cleanup has been run.            *)
WorkerSound ==
    /\ worker.pc \in {"ending", "over"} <=> \E s \in Cleanups : call[s].result # None
    /\ done <=> worker.pc \in {"over", "failed"}
    /\ worker.pc \in {"init", "failed"} => \A c \in Calls : call[c].pc = "none"

Inv ==
    /\ TypeOK
    /\ \A c \in Calls : CallSound(c)
    /\ WorkerSound
    /\ StoppingIsOwned

-----------------------------------------------------------------------------
LEMMA InvInit == Init => Inv
<1> SUFFICES ASSUME Init PROVE Inv
  OBVIOUS
<1> USE DEF Init, NoCall
<1>1. TypeOK
  BY DEF TypeOK
<1>2. \A c \in Calls : CallSound(c)
  BY DEF CallSound
<1>3. WorkerSound
  BY DEF WorkerSound
<1>4. StoppingIsOwned
  BY DEF StoppingIsOwned, Carrier
<1> QED
  BY <1>1, <1>2, <1>3, <1>4 DEF Inv

LEMMA EnterInv == ASSUME NEW c \in Calls, Inv, Enter(c) PROVE Inv'
<1> USE DEF Enter, Started, Goto
<1>1. TypeOK'
  BY DEF Inv, TypeOK, CallSound
<1>2. \A d \in Calls : CallSound(d)'
  BY DEF Inv, TypeOK, CallSound
<1>3. WorkerSound'
  BY DEF Inv, TypeOK, CallSound, WorkerSound
<1>4. StoppingIsOwned'
  BY DEF Inv, TypeOK, CallSound, WorkerSound, StoppingIsOwned, Carrier
<1> QED
  BY <1>1, <1>2, <1>3, <1>4 DEF Inv

LEMMA CompareAndSwapInv == ASSUME NEW c \in Calls, Inv, CompareAndSwap(c) PROVE Inv'
<1> USE DEF CompareAndSwap, Goto
<1>1. TypeOK'
  BY DEF Inv, TypeOK, CallSound
<1>2. \A d \in Calls : CallSound(d)'
  BY DEF Inv, TypeOK, CallSound
<1>3. WorkerSound'
  BY DEF Inv, TypeOK, CallSound, WorkerSound
<1>4. StoppingIsOwned'
  BY DEF Inv, TypeOK, CallSound, WorkerSound, StoppingIsOwned, Carrier
<1> QED
  BY <1>1, <1>2, <1>3, <1>4 DEF Inv

LEMMA JoinInv == ASSUME NEW c \in Calls, Inv, Join(c) PROVE Inv'
<1> USE DEF Join, Return
<1>1. TypeOK'
  BY DEF Inv, TypeOK, CallSound
<1>2. \A d \in Calls : CallSound(d)'
  BY DEF Inv, TypeOK, CallSound
<1>3. WorkerSound'
  BY DEF Inv, TypeOK, CallSound, WorkerSound
<1>4. StoppingIsOwned'
  BY DEF Inv, TypeOK, CallSound, WorkerSound, StoppingIsOwned, Carrier
<1> QED
  BY <1>1, <1>2, <1>3, <1>4 DEF Inv

LEMMA CheckContextInv == ASSUME NEW c \in Calls, Inv, CheckContext(c) PROVE Inv'
<1> USE DEF CheckContext, Withdrawn, Goto, Return
<1>1. TypeOK'
  BY DEF Inv, TypeOK, CallSound
<1>2. \A d \in Calls : CallSound(d)'
  BY DEF Inv, TypeOK, CallSound
<1>3. WorkerSound'
  BY DEF Inv, TypeOK, CallSound, WorkerSound
<1>4. StoppingIsOwned'
  BY DEF Inv, TypeOK, CallSound, WorkerSound, StoppingIsOwned, Carrier
<1> QED
  BY <1>1, <1>2, <1>3, <1>4 DEF Inv

LEMMA LoadStoppingInv == ASSUME NEW c \in Calls, Inv, LoadStopping(c) PROVE Inv'
<1> USE DEF LoadStopping, Goto, Return
<1>1. TypeOK'
  BY DEF Inv, TypeOK, CallSound
<1>2. \A d \in Calls : CallSound(d)'
  BY DEF Inv, TypeOK, CallSound
<1>3. WorkerSound'
  BY DEF Inv, TypeOK, CallSound, WorkerSound
<1>4. StoppingIsOwned'
  BY DEF Inv, TypeOK, CallSound, WorkerSound, StoppingIsOwned, Carrier
<1> QED
  BY <1>1, <1>2, <1>3, <1>4 DEF Inv

LEMMA SendCancelledInv == ASSUME NEW c \in Calls, Inv, SendCancelled(c) PROVE Inv'
<1> USE DEF SendCancelled, Withdrawn, Goto, Return
<1>1. TypeOK'
  BY DEF Inv, TypeOK, CallSound
<1>2. \A d \in Calls : CallSound(d)'
  BY DEF Inv, TypeOK, CallSound
<1>3. WorkerSound'
  BY DEF Inv, TypeOK, CallSound, WorkerSound
<1>4. StoppingIsOwned'
  BY DEF Inv, TypeOK, CallSound, WorkerSound, StoppingIsOwned, Carrier
<1> QED
  BY <1>1, <1>2, <1>3, <1>4 DEF Inv

LEMMA SendStoppedInv == ASSUME NEW c \in Calls, Inv, SendStopped(c) PROVE Inv'
<1> USE DEF SendStopped, Withdrawn, Goto, Return
<1>1. TypeOK'
  BY DEF Inv, TypeOK, CallSound
<1>2. \A d \in Calls : CallSound(d)'
  BY DEF Inv, TypeOK, CallSound
<1>3. WorkerSound'
  BY DEF Inv, TypeOK, CallSound, WorkerSound
<1>4. StoppingIsOwned'
  BY DEF Inv, TypeOK, CallSound, WorkerSound, StoppingIsOwned, Carrier
<1> QED
  BY <1>1, <1>2, <1>3, <1>4 DEF Inv

LEMMA SendInv == ASSUME NEW c \in Calls, Inv, Send(c) PROVE Inv'
<1> USE DEF Send, Goto
<1>1. TypeOK'
  BY DEF Inv, TypeOK, CallSound
<1>2. \A d \in Calls : CallSound(d)'
  BY DEF Inv, TypeOK, CallSound
<1>3. WorkerSound'
  BY DEF Inv, TypeOK, CallSound, WorkerSound
<1>4. StoppingIsOwned'
  BY DEF Inv, TypeOK, CallSound, WorkerSound, StoppingIsOwned, Carrier
<1> QED
  BY <1>1, <1>2, <1>3, <1>4 DEF Inv

LEMMA ResetInv == ASSUME NEW c \in Calls, Inv, Reset(c) PROVE Inv'
<1> USE DEF Reset, Return
<1>1. TypeOK'
  BY DEF Inv, TypeOK, CallSound
<1>2. \A d \in Calls : CallSound(d)'
  BY DEF Inv, TypeOK, CallSound
<1>3. WorkerSound'
  BY DEF Inv, TypeOK, CallSound, WorkerSound
<1>4. StoppingIsOwned'
  BY DEF Inv, TypeOK, CallSound, WorkerSound, StoppingIsOwned, Carrier
<1> QED
  BY <1>1, <1>2, <1>3, <1>4 DEF Inv

LEMMA ReceiveInv == ASSUME NEW c \in Calls, Inv, Receive(c) PROVE Inv'
<1> USE DEF Receive, Goto, Return
<1>1. TypeOK'
  BY DEF Inv, TypeOK, CallSound
<1>2. \A d \in Calls : CallSound(d)'
  BY DEF Inv, TypeOK, CallSound
<1>3. WorkerSound'
  BY DEF Inv, TypeOK, CallSound, WorkerSound
<1>4. StoppingIsOwned'
  BY DEF Inv, TypeOK, CallSound, WorkerSound, StoppingIsOwned, Carrier
<1> QED
  BY <1>1, <1>2, <1>3, <1>4 DEF Inv

LEMMA AwaitDoneInv == ASSUME NEW c \in Calls, Inv, AwaitDone(c) PROVE Inv'
<1> USE DEF AwaitDone, Return
<1>1. TypeOK'
  BY DEF Inv, TypeOK, CallSound
<1>2. \A d \in Calls : CallSound(d)'
  BY DEF Inv, TypeOK, CallSound
<1>3. WorkerSound'
  BY DEF Inv, TypeOK, CallSound, WorkerSound
<1>4. StoppingIsOwned'
  BY DEF Inv, TypeOK, CallSound, WorkerSound, StoppingIsOwned, Carrier
<1> QED
  BY <1>1, <1>2, <1>3, <1>4 DEF Inv

LEMMA RunJobInv == ASSUME NEW c \in Calls, Inv, RunJob(c) PROVE Inv'
<1> USE DEF RunJob, Ends
<1>1. TypeOK'
  BY DEF Inv, TypeOK, CallSound
<1>2. \A d \in Calls : CallSound(d)'
  BY DEF Inv, TypeOK, CallSound
<1>3. WorkerSound'
  BY DEF Inv, TypeOK, CallSound, WorkerSound
<1>4. StoppingIsOwned'
  BY DEF Inv, TypeOK, CallSound, WorkerSound, StoppingIsOwned, Carrier
<1> QED
  BY <1>1, <1>2, <1>3, <1>4 DEF Inv

LEMMA CancelInv == ASSUME NEW c \in Calls, Inv, Cancel(c) PROVE Inv'
<1> USE DEF Cancel
<1>1. TypeOK'
  BY DEF Inv, TypeOK, CallSound
<1>2. \A d \in Calls : CallSound(d)'
  BY DEF Inv, TypeOK, CallSound
<1>3. WorkerSound'
  BY DEF Inv, TypeOK, CallSound, WorkerSound
<1>4. StoppingIsOwned'
  BY DEF Inv, TypeOK, CallSound, WorkerSound, StoppingIsOwned, Carrier
<1> QED
  BY <1>1, <1>2, <1>3, <1>4 DEF Inv

LEMMA StartInv == ASSUME Inv, Start PROVE Inv'
<1> USE DEF Start
<1>1. TypeOK'
  BY DEF Inv, TypeOK, CallSound
<1>2. \A d \in Calls : CallSound(d)'
  BY DEF Inv, TypeOK, CallSound
<1>3. WorkerSound'
  BY DEF Inv, TypeOK, CallSound, WorkerSound
<1>4. StoppingIsOwned'
  BY DEF Inv, TypeOK, CallSound, WorkerSound, StoppingIsOwned, Carrier
<1> QED
  BY <1>1, <1>2, <1>3, <1>4 DEF Inv

LEMMA CloseDoneInv == ASSUME Inv, CloseDone PROVE Inv'
<1> USE DEF CloseDone
<1>1. TypeOK'
  BY DEF Inv, TypeOK, CallSound
<1>2. \A d \in Calls : CallSound(d)'
  BY DEF Inv, TypeOK, CallSound
<1>3. WorkerSound'
  BY DEF Inv, TypeOK, CallSound, WorkerSound
<1>4. StoppingIsOwned'
  BY DEF Inv, TypeOK, CallSound, WorkerSound, StoppingIsOwned, Carrier
<1> QED
  BY <1>1, <1>2, <1>3, <1>4 DEF Inv

LEMMA InvStep == Inv /\ [Next]_vars => Inv'
<1> SUFFICES ASSUME Inv, [Next]_vars PROVE Inv'
  OBVIOUS
<1>1. CASE Worker
  <2>1. CASE Start
    BY <2>1, StartInv
  <2>2. CASE CloseDone
    BY <2>2, CloseDoneInv
  <2>3. ASSUME NEW c \in Calls, RunJob(c) PROVE Inv'
    BY <2>3, RunJobInv
  <2> QED
    BY <1>1, <2>1, <2>2, <2>3 DEF Worker
<1>2. ASSUME NEW c \in Calls, Enter(c) PROVE Inv'
  BY <1>2, EnterInv
<1>3. ASSUME NEW c \in Calls, Cancel(c) PROVE Inv'
  BY <1>3, CancelInv
<1>4. ASSUME NEW c \in Calls, Caller(c) PROVE Inv'
  BY <1>4, CompareAndSwapInv, JoinInv, CheckContextInv, LoadStoppingInv, SendCancelledInv,
     SendStoppedInv, SendInv, ResetInv, ReceiveInv, AwaitDoneInv DEF Caller
<1>5. CASE UNCHANGED vars
  BY <1>5 DEF vars, Inv, TypeOK, CallSound, WorkerSound, StoppingIsOwned, Carrier
<1> QED
  BY <1>1, <1>2, <1>3, <1>4, <1>5 DEF Next

THEOREM InvAlways == Spec => []Inv
  BY InvInit, InvStep, PTL DEF Spec

(* Whoever's function is running waits for it (thread.go:157-179), and      *)
(* every variable keeps its type.                                           *)
THEOREM TypeCorrect == Spec => []TypeOK
<1>1. Inv => TypeOK
  BY DEF Inv
<1> QED
  BY <1>1, InvAlways, PTL

(* The flag is set only by the one Stop that is under way or has run its    *)
(* cleanup, so a cancelled Stop can be tried again (thread.go:113-118).     *)
THEOREM FlagIsOwned == Spec => []StoppingIsOwned
<1>1. Inv => StoppingIsOwned
  BY DEF Inv
<1> QED
  BY <1>1, InvAlways, PTL

-----------------------------------------------------------------------------
(* The refinement.                                                          *)

LEMMA ExecutorInit == Init => Executor!Init
  BY DEF Init, NoCall, Executor!Init, Executor!Calls, JobState, Told

AskedNow == {c \in Calls : call[c].pc # "none"}
JobNow == [c \in Calls |-> JobState(c)]
ToldNow == [c \in Calls |-> Told(c)]

LEMMA GotoMapped ==
  ASSUME Inv, NEW c \in Calls, NEW pc, pc # "none", call[c].pc # "none", Goto(c, pc), UNCHANGED worker
  PROVE  UNCHANGED <<AskedNow, JobNow, ToldNow>>
  BY DEF Inv, TypeOK, Goto, AskedNow, JobNow, ToldNow, JobState, Told

LEMMA ReturnMapped ==
  ASSUME Inv, NEW c \in Calls, NEW answer \in Answers, Return(c, answer), call[c].pc # "none",
         UNCHANGED worker
  PROVE  /\ UNCHANGED <<AskedNow, JobNow>>
         /\ ToldNow' = [ToldNow EXCEPT ![c] = answer]
<1>1. UNCHANGED <<AskedNow, JobNow>>
  BY DEF Inv, TypeOK, Return, AskedNow, JobNow, JobState
<1>2. Told(c)' = answer
  BY DEF Inv, TypeOK, Return, Told
<1>3. ASSUME NEW d \in Calls, d # c PROVE Told(d)' = Told(d)
  <2>1. call'[d] = call[d]
    BY <1>3 DEF Inv, TypeOK, Return
  <2> QED
    BY <2>1 DEF Told
<1>4. ToldNow' = [ToldNow EXCEPT ![c] = answer]
  BY <1>2, <1>3 DEF ToldNow
<1> QED
  BY <1>1, <1>4

(* A call under way has been told nothing.                                  *)
LEMMA UnderWay ==
  ASSUME Inv, NEW c \in Calls, call[c].pc \notin {"none", "returned"}
  PROVE  c \in AskedNow /\ ToldNow[c] = "nothing"
  BY DEF Inv, CallSound, AskedNow, ToldNow, Told

(* A call whose function has not been taken is on offer.                    *)
LEMMA OnOffer ==
  ASSUME Inv, NEW c \in Calls,
         call[c].pc \in {"flag", "join", "context", "load", "send", "reset"}
  PROVE  JobNow[c] = "offered"
  BY DEF Inv, TypeOK, CallSound, JobNow, JobState

LEMMA HasRun ==
  ASSUME NEW c \in Calls, call[c].result # None
  PROVE  JobNow[c] = "ran"
  BY DEF JobNow, JobState

(* Whoever sees done sees a thread that a cleanup has closed.               *)
LEMMA DoneIsClosed ==
  ASSUME Inv, NEW c \in Calls, call[c].pc # "none", done
  PROVE  \E s \in Cleanups : JobNow[s] = "ran" /\ s \in AskedNow
<1>1. PICK s \in Cleanups : call[s].result # None
  BY DEF Inv, WorkerSound
<1>2. s \in AskedNow
  BY <1>1 DEF Inv, CallSound, AskedNow
<1> QED
  BY <1>1, <1>2, HasRun

(* Whoever sees stopping sees the work of a Stop.                           *)
LEMMA StoppingIsAsked ==
  ASSUME Inv, stopping
  PROVE  Cleanups \cap AskedNow # {}
<1>1. PICK s \in Cleanups : Carrier(s)
  BY DEF Inv, StoppingIsOwned
<1>2. call[s].pc # "none"
  BY <1>1 DEF Inv, CallSound, Carrier
<1> QED
  BY <1>2 DEF AskedNow

-----------------------------------------------------------------------------
(* One step of the code is one step of the executor, or none.               *)

USE DEF Executor!Calls

LEMMA EnterImplements ==
  ASSUME Inv, NEW c \in Calls, Enter(c) PROVE Executor!Ask(c)
  BY DEF Inv, TypeOK, Enter, Goto, Executor!Ask, JobState, Told

LEMMA CancelImplements ==
  ASSUME Inv, NEW c \in Calls, Cancel(c) PROVE Executor!Cancel(c)
  BY DEF Inv, TypeOK, Cancel, Executor!Cancel, JobState, Told

LEMMA GotoImplements ==
  ASSUME Inv, NEW c \in Calls, NEW pc, pc # "none", call[c].pc # "none", Goto(c, pc),
         UNCHANGED <<worker, cancelled>>
  PROVE  UNCHANGED Executor!vars
  BY GotoMapped DEF Executor!vars, AskedNow, JobNow, ToldNow

LEMMA RefuseImplements ==
  ASSUME Inv, NEW c \in Calls, NEW why \in {"cancelled", "stopped"}, Return(c, why),
         call[c].pc \in {"flag", "join", "context", "load", "send", "reset"},
         \/ why = "cancelled" /\ c \in cancelled
         \/ why = "stopped" /\ Cleanups \cap AskedNow # {},
         UNCHANGED <<worker, cancelled>>
  PROVE  Executor!Refuse(c)
<1>1. ToldNow[c] = "nothing" /\ JobNow[c] = "offered"
  BY UnderWay, OnOffer
<1>2. UNCHANGED <<AskedNow, JobNow>> /\ ToldNow' = [ToldNow EXCEPT ![c] = why]
  BY ReturnMapped
<1> QED
  BY <1>1, <1>2 DEF Executor!Refuse, Executor!Excuse, AskedNow, JobNow, ToldNow

LEMMA ReportImplements ==
  ASSUME Inv, NEW c \in Calls, Return(c, "done"), call[c].pc \notin {"none", "returned"},
         JobNow[c] = "ran" \/ (c \in Cleanups /\ \E s \in Cleanups : JobNow[s] = "ran"),
         UNCHANGED <<worker, cancelled>>
  PROVE  Executor!Report(c)
<1>1. ToldNow[c] = "nothing"
  BY UnderWay
<1>2. UNCHANGED <<AskedNow, JobNow>> /\ ToldNow' = [ToldNow EXCEPT ![c] = "done"]
  BY ReturnMapped
<1> QED
  BY <1>1, <1>2 DEF Executor!Report, Executor!Open, AskedNow, JobNow, ToldNow

LEMMA WithdrawnImplements ==
  ASSUME Inv, NEW c \in Calls, NEW why \in {"cancelled", "stopped"}, Withdrawn(c, why),
         call[c].pc \in {"context", "send"},
         \/ why = "cancelled" /\ c \in cancelled
         \/ why = "stopped" /\ Cleanups \cap AskedNow # {},
         UNCHANGED <<worker, cancelled>>
  PROVE  Executor!Refuse(c) \/ UNCHANGED Executor!vars
  BY RefuseImplements, GotoImplements DEF Withdrawn

Implements == Executor!Next \/ UNCHANGED Executor!vars

LEMMA CallerImplements ==
  ASSUME Inv, NEW c \in Calls, Caller(c) PROVE Implements
<1> USE DEF Implements, Executor!Next
<1>1. CASE CompareAndSwap(c)
  BY <1>1, GotoImplements DEF CompareAndSwap
<1>2. CASE Join(c)
  <2>1. CASE done /\ Return(c, "done")
    BY <1>2, <2>1, ReportImplements, DoneIsClosed DEF Join, Inv, CallSound
  <2>2. CASE c \in cancelled /\ Return(c, "cancelled")
    BY <1>2, <2>2, RefuseImplements DEF Join
  <2> QED
    BY <1>2, <2>1, <2>2 DEF Join
<1>3. CASE CheckContext(c)
  BY <1>3, WithdrawnImplements, GotoImplements DEF CheckContext
<1>4. CASE LoadStopping(c)
  BY <1>4, RefuseImplements, GotoImplements, StoppingIsAsked DEF LoadStopping
<1>5. CASE SendCancelled(c)
  BY <1>5, WithdrawnImplements DEF SendCancelled
<1>6. CASE SendStopped(c)
  <2>1. Cleanups \cap AskedNow # {}
    BY <1>6, DoneIsClosed DEF SendStopped
  <2> QED
    BY <1>6, <2>1, WithdrawnImplements DEF SendStopped
<1>7. CASE Send(c)
  <2>1. c \in AskedNow /\ ToldNow[c] = "nothing" /\ JobNow[c] = "offered"
    BY <1>7, UnderWay, OnOffer DEF Send
  <2>2. Executor!Open /\ Executor!Idle
    BY <1>7 DEF Send, Inv, TypeOK, WorkerSound, Executor!Open, Executor!Idle, JobState
  <2>3. JobNow' = [JobNow EXCEPT ![c] = "running"]
    <3>1. JobState(c)' = "running"
      BY <1>7 DEF Send, Goto, Inv, TypeOK, CallSound, JobState
    <3>2. ASSUME NEW d \in Calls, d # c PROVE JobState(d)' = JobState(d)
      <4>1. call'[d] = call[d] /\ worker.job = None /\ worker'.job = c
        BY <1>7, <3>2 DEF Send, Goto, Inv, TypeOK
      <4> QED
        BY <3>2, <4>1 DEF JobState
    <3> QED
      BY <3>1, <3>2 DEF JobNow
  <2>4. UNCHANGED <<AskedNow, cancelled, ToldNow>>
    BY <1>7 DEF Send, Goto, Inv, TypeOK, AskedNow, ToldNow, Told
  <2>5. Executor!Begin(c)
    BY <2>1, <2>2, <2>3, <2>4 DEF Executor!Begin, AskedNow, JobNow, ToldNow
  <2> QED
    BY <2>5
<1>8. CASE Reset(c)
  BY <1>8, RefuseImplements DEF Reset, Inv, CallSound
<1>9. CASE Receive(c)
  BY <1>9, GotoImplements, ReportImplements, HasRun DEF Receive
<1>10. CASE AwaitDone(c)
  <2>1. JobNow[c] = "ran"
    BY <1>10, HasRun DEF AwaitDone, Inv, CallSound
  <2>2. CASE Return(c, "done")
    BY <1>10, <2>1, <2>2, ReportImplements DEF AwaitDone
  <2>3. CASE c \in cancelled /\ Return(c, "cancelled")
    <3>1. c \in Cleanups /\ ToldNow[c] = "nothing"
      BY <1>10, UnderWay DEF AwaitDone, Inv, CallSound
    <3>2. UNCHANGED <<AskedNow, JobNow>> /\ ToldNow' = [ToldNow EXCEPT ![c] = "cancelled"]
      BY <1>10, <2>3, ReturnMapped DEF AwaitDone
    <3>3. Executor!GiveUp(c)
      BY <1>10, <2>1, <2>3, <3>1, <3>2 DEF AwaitDone, Executor!GiveUp, AskedNow, JobNow, ToldNow
    <3> QED
      BY <3>3
  <2> QED
    BY <1>10, <2>2, <2>3 DEF AwaitDone
<1> QED
  BY <1>1, <1>2, <1>3, <1>4, <1>5, <1>6, <1>7, <1>8, <1>9, <1>10 DEF Caller

LEMMA WorkerImplements ==
  ASSUME Inv, Worker PROVE Implements
<1> USE DEF Implements, Executor!Next
<1>1. CASE Start
  BY <1>1 DEF Start, Inv, TypeOK, Executor!vars, JobState, Told
<1>2. CASE CloseDone
  BY <1>2 DEF CloseDone, Inv, TypeOK, Executor!vars, JobState, Told
<1>3. ASSUME NEW c \in Calls, RunJob(c) PROVE Implements
  <2>1. JobNow[c] = "running"
    BY <1>3 DEF RunJob, Inv, TypeOK, JobNow, JobState
  <2>2. JobNow' = [JobNow EXCEPT ![c] = "ran"]
    <3>1. JobState(c)' = "ran"
      BY <1>3 DEF RunJob, Inv, TypeOK, JobState
    <3>2. ASSUME NEW d \in Calls, d # c PROVE JobState(d)' = JobState(d)
      <4>1. call'[d] = call[d] /\ worker.job = c /\ worker'.job = None
        BY <1>3, <3>2 DEF RunJob, Inv, TypeOK
      <4> QED
        BY <3>2, <4>1 DEF JobState
    <3> QED
      BY <3>1, <3>2 DEF JobNow
  <2>3. UNCHANGED <<AskedNow, cancelled, ToldNow>>
    BY <1>3 DEF RunJob, Inv, TypeOK, AskedNow, ToldNow, Told
  <2>4. Executor!End(c)
    BY <2>1, <2>2, <2>3 DEF Executor!End, AskedNow, JobNow, ToldNow
  <2> QED
    BY <2>4
<1> QED
  BY <1>1, <1>2, <1>3 DEF Worker

LEMMA NextImplements == Inv /\ [Next]_vars => [Executor!Next]_Executor!vars
<1> SUFFICES ASSUME Inv, [Next]_vars PROVE Implements
  BY DEF Implements
<1>1. CASE Worker
  BY <1>1, WorkerImplements
<1>2. ASSUME NEW c \in Calls, Enter(c) PROVE Implements
  BY <1>2, EnterImplements DEF Implements, Executor!Next
<1>3. ASSUME NEW c \in Calls, Cancel(c) PROVE Implements
  BY <1>3, CancelImplements DEF Implements, Executor!Next
<1>4. ASSUME NEW c \in Calls, Caller(c) PROVE Implements
  BY <1>4, CallerImplements
<1>5. CASE UNCHANGED vars
  BY <1>5 DEF vars, Implements, Executor!vars, JobState, Told
<1> QED
  BY <1>1, <1>2, <1>3, <1>4, <1>5 DEF Next

(* MlxThread implements SerialExecutor: functions run one at a time, each   *)
(* once and none after a cleanup, and Do says that it was refused only when *)
(* its function has not been run and never will be (thread.go:68-179).      *)
THEOREM ThreadIsSerialExecutor == Spec => IsSerialExecutor
  BY InvAlways, ExecutorInit, NextImplements, PTL DEF Spec, IsSerialExecutor, Executor!Spec
=============================================================================
