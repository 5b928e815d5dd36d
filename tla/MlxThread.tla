----------------------------- MODULE MlxThread -----------------------------
(***************************************************************************)
(* The thread all calls of MLX are made on (mlx/mlxthread): a goroutine    *)
(* locked to an OS thread takes functions from an unbuffered channel and   *)
(* runs them.  Do waits for its function to have run; its context counts   *)
(* only until the worker has taken it.  Stop sends one last function, the  *)
(* cleanup, after which the worker closes done and ends.                   *)
(*                                                                         *)
(* A step is one load, store or compare-and-swap of the flag stopping, one *)
(* test of a context or one channel operation, so that Do and Stop meet at *)
(* every point between them.                                               *)
(***************************************************************************)
EXTENDS FiniteSets

CONSTANTS
    Jobs,      \* calls of Do (and of Call, which is Do with a value)
    Cleanups,  \* calls of Stop
    None

VARIABLES
    stopping,  \* t.stopping
    done,      \* t.done is closed
    worker,    \* the goroutine: where it is, and whose function it has
    call,      \* the calls: where each is, what came over its result channel,
               \* and what it has returned
    cancelled  \* the calls whose context has ended

vars == <<stopping, done, worker, call, cancelled>>

Calls == Jobs \cup Cleanups
Outcomes == {"ok", "error", "panic"}  \* of a function that is run
Answers == {"done", "cancelled", "stopped"}  \* of a call
NoCall == [pc |-> "none", result |-> None, told |-> None]

ASSUME CallsAssumption == Jobs \cap Cleanups = {}
ASSUME NoneAssumption == None \notin Calls \cup Outcomes \cup Answers

-----------------------------------------------------------------------------
(* Start: the worker runs init first, and there is a thread to call only if *)
(* that succeeds.                                                           *)

Start ==
    /\ worker.pc = "init"
    /\ \/ worker' = [worker EXCEPT !.pc = "idle"] /\ UNCHANGED done
       \/ worker' = [worker EXCEPT !.pc = "failed"] /\ done' = TRUE
    /\ UNCHANGED <<stopping, call, cancelled>>

Started == worker.pc \notin {"init", "failed"}

Return(c, answer) == call' = [call EXCEPT ![c].pc = "returned", ![c].told = answer]

Goto(c, pc) == call' = [call EXCEPT ![c].pc = pc]

(* Somebody calls Do, or Stop.                                              *)
Enter(c) ==
    /\ Started
    /\ call[c].pc = "none"
    /\ Goto(c, IF c \in Jobs THEN "context" ELSE "flag")
    /\ UNCHANGED <<stopping, done, worker, cancelled>>

(* The context of the call ends.                                            *)
Cancel(c) ==
    /\ call[c].pc \notin {"none", "returned"}
    /\ c \notin cancelled
    /\ cancelled' = cancelled \cup {c}
    /\ UNCHANGED <<stopping, done, worker, call>>

(* Stop: whoever sets the flag carries the cleanup, the others wait.        *)
CompareAndSwap(c) ==
    /\ call[c].pc = "flag"
    /\ Goto(c, IF stopping THEN "join" ELSE "context")
    /\ stopping' = TRUE
    /\ UNCHANGED <<done, worker, cancelled>>

Join(c) ==
    /\ call[c].pc = "join"
    /\ \/ done /\ Return(c, "done")
       \/ c \in cancelled /\ Return(c, "cancelled")
    /\ UNCHANGED <<stopping, done, worker, cancelled>>

-----------------------------------------------------------------------------
(* enqueue                                                                  *)

(* Seeded fault: the flag stays set when the context of Stop has ended.     *)
WithdrawnForGood(c, why) == Return(c, why)

(* enqueue has failed: Do returns; Stop takes the flag back first, except   *)
(* when the thread is already stopped.                                      *)
Withdrawn(c, why) ==
    IF c \in Cleanups /\ why = "cancelled" THEN Goto(c, "reset") ELSE Return(c, why)

CheckContext(c) ==
    /\ call[c].pc = "context"
    /\ IF c \in cancelled THEN Withdrawn(c, "cancelled")
       ELSE Goto(c, IF c \in Jobs THEN "load" ELSE "send")
    /\ UNCHANGED <<stopping, done, worker, cancelled>>

LoadStopping(c) ==
    /\ call[c].pc = "load"
    /\ IF stopping THEN Return(c, "stopped") ELSE Goto(c, "send")
    /\ UNCHANGED <<stopping, done, worker, cancelled>>

(* The three arms of the select: any that is ready may be taken.            *)
SendCancelled(c) ==
    /\ call[c].pc = "send"
    /\ c \in cancelled
    /\ Withdrawn(c, "cancelled")
    /\ UNCHANGED <<stopping, done, worker, cancelled>>

(* Seeded fault: the select has no arm for done.                            *)
NoArmForDone(c) == FALSE /\ UNCHANGED vars

SendStopped(c) ==
    /\ call[c].pc = "send"
    /\ done
    /\ Withdrawn(c, "stopped")
    /\ UNCHANGED <<stopping, done, worker, cancelled>>

Send(c) ==
    /\ call[c].pc = "send"
    /\ worker.pc = "idle"
    /\ worker' = [pc |-> "running", job |-> c]
    /\ Goto(c, "wait")
    /\ UNCHANGED <<stopping, done, cancelled>>

Reset(c) ==
    /\ call[c].pc = "reset"
    /\ stopping' = FALSE
    /\ Return(c, "cancelled")
    /\ UNCHANGED <<done, worker, cancelled>>

(* Seeded fault: Do also gives up while its function runs.                  *)
ReceiveOrGiveUp(c) ==
    /\ call[c].pc = "wait"
    /\ call[c].result # None \/ c \in cancelled
    /\ IF c \in Cleanups /\ call[c].result # "panic" THEN Goto(c, "closing")
       ELSE Return(c, IF call[c].result = None THEN "cancelled" ELSE "done")
    /\ UNCHANGED <<stopping, done, worker, cancelled>>

(* The result has come.  A panic is raised again in the caller; a cleanup   *)
(* returns no error, and Stop goes on to wait for the worker.               *)
Receive(c) ==
    /\ call[c].pc = "wait"
    /\ call[c].result # None
    /\ IF c \in Cleanups /\ call[c].result # "panic" THEN Goto(c, "closing")
       ELSE Return(c, "done")
    /\ UNCHANGED <<stopping, done, worker, cancelled>>

AwaitDone(c) ==
    /\ call[c].pc = "closing"
    /\ \/ done /\ Return(c, "done")
       \/ c \in cancelled /\ Return(c, "cancelled")
    /\ UNCHANGED <<stopping, done, worker, cancelled>>

-----------------------------------------------------------------------------
(* The worker.                                                              *)

(* Seeded fault: only a cleanup that succeeds ends the worker.              *)
EndsIfClean(c, outcome) == c \in Cleanups /\ outcome = "ok"

Ends(c, outcome) == c \in Cleanups

(* The function of c returns, fails or panics; its result is sent (the      *)
(* channel has room for it).                                                *)
RunJob(c) ==
    /\ worker.pc = "running" /\ worker.job = c
    /\ \E outcome \in IF c \in Cleanups THEN {"ok", "panic"} ELSE Outcomes :
         /\ call' = [call EXCEPT ![c].result = outcome]
         /\ worker' = [pc |-> IF Ends(c, outcome) THEN "ending" ELSE "idle", job |-> None]
    /\ UNCHANGED <<stopping, done, cancelled>>

CloseDone ==
    /\ worker.pc = "ending"
    /\ worker' = [worker EXCEPT !.pc = "over"]
    /\ done' = TRUE
    /\ UNCHANGED <<stopping, call, cancelled>>

-----------------------------------------------------------------------------
Init ==
    /\ stopping = FALSE
    /\ done = FALSE
    /\ worker = [pc |-> "init", job |-> None]
    /\ call = [c \in Calls |-> NoCall]
    /\ cancelled = {}

Worker == Start \/ CloseDone \/ \E c \in Calls : RunJob(c)

Caller(c) ==
    \/ CompareAndSwap(c) \/ Join(c) \/ CheckContext(c) \/ LoadStopping(c)
    \/ SendCancelled(c) \/ SendStopped(c) \/ Send(c) \/ Reset(c)
    \/ Receive(c) \/ AwaitDone(c)

Next == Worker \/ \E c \in Calls : Enter(c) \/ Cancel(c) \/ Caller(c)

Spec == Init /\ [][Next]_vars

(* Goroutines are scheduled, and functions return.  Nobody has to call, and *)
(* no context has to end.                                                   *)
FairSpec == Spec /\ WF_vars(Worker) /\ \A c \in Calls : WF_vars(Caller(c))

-----------------------------------------------------------------------------
(* Properties.                                                              *)

(* The types, and: whoever's function is running waits for it (178).        *)
TypeOK ==
    /\ stopping \in BOOLEAN
    /\ done \in BOOLEAN
    /\ worker \in [pc : {"init", "failed", "idle", "running", "ending", "over"},
                   job : Calls \cup {None}]
    /\ call \in [Calls ->
         [pc : {"none", "flag", "join", "context", "load", "send", "wait",
                "reset", "closing", "returned"},
          result : Outcomes \cup {None},
          told : Answers \cup {None}]]
    /\ cancelled \subseteq Calls
    /\ worker.pc = "running" <=> worker.job # None
    /\ worker.job # None => call[worker.job].pc = "wait" /\ call[worker.job].result = None

(* Stop can be tried again after an attempt that was cancelled (115): the   *)
(* flag is set only while a Stop that set it is under way or once its       *)
(* cleanup has run, and there is never more than one such Stop.             *)
Carrier(c) ==
    /\ c \in Cleanups
    /\ call[c].pc \in {"context", "send", "wait", "reset"} \/ call[c].result # None

StoppingIsOwned ==
    /\ stopping <=> \E c \in Cleanups : Carrier(c)
    /\ \A c, d \in Cleanups : Carrier(c) /\ Carrier(d) => c = d

(* The implementation of SerialExecutor: a function is running while the    *)
(* worker has it and has run when its result has been sent.                 *)
JobState(c) ==
    IF call[c].result # None THEN "ran"
    ELSE IF worker.job = c THEN "running" ELSE "offered"

Told(c) == IF call[c].told = None THEN "nothing" ELSE call[c].told

Executor == INSTANCE SerialExecutor WITH
    asked <- {c \in Calls : call[c].pc # "none"},
    job <- [c \in Calls |-> JobState(c)],
    told <- [c \in Calls |-> Told(c)]

(* Functions run one at a time, each once and none after the cleanup; Do    *)
(* that returns an error of its own has not run its function and never      *)
(* will (68-72); Stop that returns nil has the cleanup behind it.           *)
IsSerialExecutor == Executor!Spec

(* Do returns, whatever Stop, cancellations and panics do (170-178).        *)
DoReturns == \A c \in Jobs : call[c].pc # "none" ~> call[c].pc = "returned"

(* Stop returns, unless it joined one that was cancelled and nobody tries   *)
(* again: then it waits for its own context.                                *)
StopReturns == \A c \in Cleanups :
    call[c].pc # "none" ~> (call[c].pc = "returned" \/ [](call[c].pc = "join" /\ ~stopping))
=============================================================================
