----------------------------- MODULE MCScheduler -----------------------------
(* Instances of Scheduler for TLC.                                          *)
EXTENDS Scheduler, TLC

CONSTANTS First, Late  \* two of the requests, for the run on liveness

(* Requests, and models, are interchangeable: they are model values and no  *)
(* definition tells one from another.  Runners are numbers, allocated in    *)
(* order, so they are not permuted.                                         *)
Symmetry == Permutations(Requests) \cup Permutations(Models)

(* Liveness cannot use the symmetry, so its run bounds what the environment *)
(* does instead; nothing that fairness is about is held back.  First is     *)
(* the first to come, which is no restriction.  Late comes while            *)
(* processPending waits for an unload, and only Late carries a negative     *)
(* keep_alive.  One of three things happens: Late comes, or the API expires *)
(* runners, or the server is stopped.                                       *)
Comes(q) == req[q].state = "new" /\ req'[q].state # "new"

InOrder(q) ==
    /\ q # First => req[First].state # "new"
    /\ q = Late => p.pc = "wait"
    /\ req'[q].keepAlive = (IF q = Late THEN Forever ELSE Finite)

LateCame == req[Late].state # "new"
ApiCalled == api.calls # MaxExpireCalls
Stopped == ctx # "running"

OneOfThree ==
    /\ ~(LateCame /\ ApiCalled)
    /\ ~(LateCame /\ Stopped)
    /\ ~(ApiCalled /\ Stopped)

BoundedStep == (\A q \in Requests : Comes(q) => InOrder(q)) /\ OneOfThree'
=============================================================================
