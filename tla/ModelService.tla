---------------------------- MODULE ModelService ----------------------------
(***************************************************************************)
(* What the scheduler of server/sched.go promises the handlers that ask it *)
(* for models, without saying how (Scheduler implements it): no queue, no  *)
(* channels, no reference counts and no timers.                            *)
(*                                                                         *)
(* A request that waits is answered once, and either refused or given a    *)
(* server of the model it asks for, which it uses until its client leaves. *)
(* A server is started for a waiting request only, never a second one of   *)
(* a model and never more than MaxServers at a time, those being loaded    *)
(* included.  No server that somebody uses is closed, unless somebody was  *)
(* given a server too late, after it had been closed: from then on nothing *)
(* is promised about closing.  Nor is it once the service has halted.      *)
(***************************************************************************)
EXTENDS Naturals, FiniteSets

CONSTANTS
    Requests, Models,
    Servers,     \* servers there may ever be
    MaxServers,  \* servers that may be up at a time
    None

VARIABLES
    asked,    \* the model each request asks for
    fate,     \* what has become of each request
    replies,  \* how many answers it has had
    using,    \* the server it uses
    left,     \* the requests whose client has left
    late,     \* the requests that were given a closed server
    server,   \* the model of each server, and whether it is up
    halted    \* all servers have been told to stop

vars == <<asked, fate, replies, using, left, late, server, halted>>

Up == {x \in Servers : server[x].state = "up"}
Unused(x) == \A q \in Requests : using[q] # x

Init ==
    /\ asked = [q \in Requests |-> None]
    /\ fate = [q \in Requests |-> "new"]
    /\ replies = [q \in Requests |-> 0]
    /\ using = [q \in Requests |-> None]
    /\ left = {}
    /\ late = {}
    /\ server = [x \in Servers |-> [model |-> None, state |-> "none"]]
    /\ halted = FALSE

Ask(q) ==
    /\ fate[q] = "new"
    /\ fate' = [fate EXCEPT ![q] = "waiting"]
    /\ \E m \in Models : asked' = [asked EXCEPT ![q] = m]
    /\ UNCHANGED <<replies, using, left, late, server, halted>>

Leave(q) ==
    /\ fate[q] \in {"waiting", "served"}
    /\ left' = left \cup {q}
    /\ UNCHANGED <<asked, fate, replies, using, late, server, halted>>

(* The one answer to a request that waits.                                  *)
Answer(q, outcome) ==
    /\ fate[q] = "waiting" /\ replies[q] = 0
    /\ fate' = [fate EXCEPT ![q] = outcome]
    /\ replies' = [replies EXCEPT ![q] = 1]

Give(q, x) ==
    /\ Answer(q, "served")
    /\ server[x].model = asked[q]
    /\ using' = [using EXCEPT ![q] = x]
    /\ UNCHANGED <<asked, left, server, halted>>

Serve(q, x) ==
    /\ Give(q, x)
    /\ server[x].state = "up" \/ (halted /\ server[x].state = "closed")
    /\ UNCHANGED late

ServeTooLate(q, x) ==
    /\ Give(q, x)
    /\ server[x].state = "closed"
    /\ late' = late \cup {q}

CloseOne(x) ==
    /\ x \in Up
    /\ server' = [server EXCEPT ![x].state = "closed"]

(* A refusal may come with the end of a server that did not come up.        *)
Refuse(q) ==
    /\ Answer(q, "refused")
    /\ UNCHANGED server \/ \E x \in Servers : Unused(x) /\ CloseOne(x)
    /\ UNCHANGED <<asked, using, left, late, halted>>

(* A request whose client has left may be dropped instead of answered.      *)
Drop(q) ==
    /\ fate[q] = "waiting" /\ q \in left
    /\ fate' = [fate EXCEPT ![q] = "over"]
    /\ UNCHANGED <<asked, replies, using, left, late, server, halted>>

Finish(q) ==
    /\ fate[q] = "served" /\ q \in left
    /\ fate' = [fate EXCEPT ![q] = "over"]
    /\ using' = [using EXCEPT ![q] = None]
    /\ UNCHANGED <<asked, replies, left, late, server, halted>>

Start(x) ==
    /\ server[x].state = "none"
    /\ Cardinality(Up) < MaxServers
    /\ \E q \in Requests :
         /\ fate[q] = "waiting"
         /\ \A y \in Up : server[y].model # asked[q]
         /\ server' = [server EXCEPT ![x] = [model |-> asked[q], state |-> "up"]]
    /\ UNCHANGED <<asked, fate, replies, using, left, late, halted>>

Close(x) ==
    /\ CloseOne(x)
    /\ Unused(x) \/ late # {} \/ halted
    /\ UNCHANGED <<asked, fate, replies, using, left, late, halted>>

Halt ==
    /\ halted' = TRUE
    /\ server' = [x \in Servers |->
                    IF x \in Up THEN [server[x] EXCEPT !.state = "closed"] ELSE server[x]]
    /\ UNCHANGED <<asked, fate, replies, using, left, late>>

Next ==
    \/ \E q \in Requests : Ask(q) \/ Leave(q) \/ Refuse(q) \/ Drop(q) \/ Finish(q)
    \/ \E q \in Requests, x \in Servers : Serve(q, x) \/ ServeTooLate(q, x)
    \/ \E x \in Servers : Start(x) \/ Close(x)
    \/ Halt

Spec == Init /\ [][Next]_vars
=============================================================================
