--------------------------- MODULE SerialExecutor ---------------------------
(***************************************************************************)
(* What a thread of mlx/mlxthread promises its callers, without saying how *)
(* (MlxThread implements it).  Jobs are run by one worker: each at most    *)
(* once, one at a time, none after a cleanup.  A caller that is told its   *)
(* job was refused can rely on it never being run, and one that is told it *)
(* is done, that it was.  Only who has cancelled is told so, and nobody    *)
(* hears that the thread is stopped before somebody has asked for that.    *)
(***************************************************************************)
CONSTANTS
    Jobs,      \* calls of Do
    Cleanups   \* calls of Stop

VARIABLES
    asked,      \* the calls that have been made
    cancelled,  \* the calls whose context has ended
    job,        \* what has become of the function of each call
    told        \* what each caller has been told

vars == <<asked, cancelled, job, told>>

Calls == Jobs \cup Cleanups

Open == \A s \in Cleanups : job[s] # "ran"
Idle == \A c \in Calls : job[c] # "running"

Init ==
    /\ asked = {}
    /\ cancelled = {}
    /\ job = [c \in Calls |-> "offered"]
    /\ told = [c \in Calls |-> "nothing"]

Ask(c) ==
    /\ asked' = asked \cup {c}
    /\ UNCHANGED <<cancelled, job, told>>

Cancel(c) ==
    /\ cancelled' = cancelled \cup {c}
    /\ UNCHANGED <<asked, job, told>>

Begin(c) ==
    /\ c \in asked
    /\ job[c] = "offered" /\ told[c] = "nothing"
    /\ Open /\ Idle
    /\ job' = [job EXCEPT ![c] = "running"]
    /\ UNCHANGED <<asked, cancelled, told>>

End(c) ==
    /\ job[c] = "running"
    /\ job' = [job EXCEPT ![c] = "ran"]
    /\ UNCHANGED <<asked, cancelled, told>>

(* The worst that can be said of a call that has not been answered.         *)
Excuse(c, why) ==
    \/ why = "cancelled" /\ c \in cancelled
    \/ why = "stopped" /\ Cleanups \cap asked # {}

(* A caller hears that its job was refused, which it then never is run.     *)
Refuse(c) ==
    /\ told[c] = "nothing" /\ job[c] = "offered"
    /\ \E why \in {"cancelled", "stopped"} :
         /\ Excuse(c, why)
         /\ told' = [told EXCEPT ![c] = why]
    /\ UNCHANGED <<asked, cancelled, job>>

(* A caller hears that its job was run, or, if it only asked for the end,   *)
(* that another cleanup was.                                                *)
Report(c) ==
    /\ told[c] = "nothing"
    /\ job[c] = "ran" \/ (c \in Cleanups /\ ~Open)
    /\ told' = [told EXCEPT ![c] = "done"]
    /\ UNCHANGED <<asked, cancelled, job>>

(* Who asked for the end may stop waiting for it after its cleanup has run. *)
GiveUp(c) ==
    /\ c \in Cleanups \cap cancelled
    /\ told[c] = "nothing" /\ job[c] = "ran"
    /\ told' = [told EXCEPT ![c] = "cancelled"]
    /\ UNCHANGED <<asked, cancelled, job>>

Next == \E c \in Calls :
    Ask(c) \/ Cancel(c) \/ Begin(c) \/ End(c) \/ Refuse(c) \/ Report(c) \/ GiveUp(c)

Spec == Init /\ [][Next]_vars
=============================================================================
