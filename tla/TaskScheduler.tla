--------------------------- MODULE TaskScheduler ---------------------------
(***************************************************************************)
(* The scheduled tasks of the desktop app.  A loop (app/scheduler) looks   *)
(* every second for pending tasks that are due, marks each as running and  *)
(* starts a goroutine that carries it out in a chat of its own.  Tasks are *)
(* rows of one table (app/store), which the window (app/ui) and the        *)
(* scheduling tool of any chat (app/tools) create, edit and delete while   *)
(* the loop is at work.                                                    *)
(*                                                                         *)
(* A step is one statement on the table or one answer of the model.  Every *)
(* writer but the one that deletes reads a whole row, changes it, and      *)
(* later writes the whole row back.                                        *)
(***************************************************************************)
EXTENDS Naturals, FiniteSets

CONSTANTS
    Tasks,       \* identities of tasks
    Runs,        \* the goroutines that carry tasks out, and their chats, numbered
    Editors,     \* the calls that edit a task
    None,        \* a row that does not exist; an empty ChatID
    MaxPasses,   \* how often a task goes back to the model after tool calls
    MaxFaults,   \* bound: statements that fail
    MaxRestarts  \* bound: how often the app is started again, after a crash or not

ASSUME NoneAssumption == None \notin Tasks /\ None \notin Runs
ASSUME RunAssumption == Runs \subseteq Nat
ASSUME PassAssumption == MaxPasses \in Nat \ {0}
ASSUME BoundAssumption == MaxFaults \in Nat /\ MaxRestarts \in Nat

VARIABLES
    row,     \* the table
    loop,    \* the loop: where it is, and the rows it has read but not handled
    exec,    \* the goroutines
    edit,    \* the editors
    app,     \* whether the app runs, stops (Stop waits), or is off
    raced,   \* tasks whose row was overwritten by a writer that had read it
             \* before somebody else changed it
    budget   \* faults and restarts left

vars == <<row, loop, exec, edit, app, raced, budget>>

-----------------------------------------------------------------------------
(* A row: its status, whether scheduled_at is past, and chat_id.            *)
NewRow(due) == [status |-> "pending", due |-> due, chat |-> None]

NoRun == [pc |-> "none", task |-> None, copy |-> None, pass |-> 0, failed |-> FALSE]
NoEdit == [pc |-> "idle", task |-> None, copy |-> None]
LoopIdle == [pc |-> "idle", todo |-> [t \in Tasks |-> None], cur |-> None]

Unstarted == {r \in Runs : exec[r].pc = "none"}
Active(r) == exec[r].pc \notin {"none", "over", "killed"}

Fault == budget.faults > 0 /\ budget' = [budget EXCEPT !.faults = @ - 1]

(* UPDATE scheduled_tasks SET ... WHERE id = t, of all columns: nothing     *)
(* happens, and no error is reported, if the row is gone.  The writer had   *)
(* last seen the row as seen.                                               *)
UpdateScheduledTask(t, new, seen) ==
    /\ row' = IF row[t] = None THEN row ELSE [row EXCEPT ![t] = new]
    /\ raced' = IF row[t] \in {None, seen} THEN raced ELSE raced \cup {t}

-----------------------------------------------------------------------------
(* Other actors on the table.                                               *)

CreateScheduledTask(t) ==
    /\ app = "running"
    /\ row[t] = None /\ t \notin raced
    /\ \A r \in Runs : exec[r].task # t
    /\ \A e \in Editors : edit[e].task # t
    /\ \E due \in BOOLEAN : row' = [row EXCEPT ![t] = NewRow(due)]
    /\ UNCHANGED <<loop, exec, edit, app, raced, budget>>

(* scheduled_at comes.                                                      *)
TimePasses(t) ==
    /\ row[t] # None
    /\ ~row[t].due
    /\ row' = [row EXCEPT ![t].due = TRUE]
    /\ UNCHANGED <<loop, exec, edit, app, raced, budget>>

DeleteScheduledTask(t) ==
    /\ app = "running"
    /\ row[t] # None
    /\ row' = [row EXCEPT ![t] = None]
    /\ UNCHANGED <<loop, exec, edit, app, raced, budget>>

(* An edit, from the window or by the tool, reads the row ...               *)
EditRead(e) ==
    /\ app = "running"
    /\ edit[e].pc = "idle"
    /\ \E t \in Tasks :
         /\ row[t] # None
         /\ edit' = [edit EXCEPT ![e] = [pc |-> "read", task |-> t, copy |-> row[t]]]
    /\ UNCHANGED <<row, loop, exec, app, raced, budget>>

(* ... and writes it back with another prompt, model or time.               *)
EditWrite(e) ==
    /\ edit[e].pc = "read"
    /\ \E due \in BOOLEAN :
         UpdateScheduledTask(edit[e].task, [edit[e].copy EXCEPT !.due = due], edit[e].copy)
    /\ edit' = [edit EXCEPT ![e].pc = "over", ![e].copy = None]
    /\ UNCHANGED <<loop, exec, app, budget>>

-----------------------------------------------------------------------------
(* The loop.                                                                *)

(* Seeded fault: the comparison of scheduled_at is the wrong way round.     *)
NotYetDue(t) == row[t] # None /\ row[t].status = "pending" /\ ~row[t].due

(* WHERE status = 'pending' AND scheduled_at <= ?                           *)
PendingAndDue(t) == row[t] # None /\ row[t].status = "pending" /\ row[t].due

(* GetPendingScheduledTasks at a tick.                                      *)
GetPending ==
    /\ app = "running"
    /\ loop.pc = "idle"
    /\ \E t \in Tasks : PendingAndDue(t)
    /\ loop' = [loop EXCEPT !.pc = "tasks",
                  !.todo = [t \in Tasks |-> IF PendingAndDue(t) THEN row[t] ELSE None]]
    /\ UNCHANGED <<row, exec, edit, app, raced, budget>>

(* Seeded fault: the row is written back with the status it had.            *)
MarkedPending(copy, r) == [copy EXCEPT !.chat = IF @ = None THEN r ELSE @]

(* Seeded fault: the chat is chosen only when the task is carried out.      *)
MarkedWithoutChat(copy, r) == [copy EXCEPT !.status = "running"]

(* The row as running, in the new chat r unless it names one already.       *)
Marked(copy, r) ==
    [copy EXCEPT !.status = "running", !.chat = IF @ = None THEN r ELSE @]

(* Take the next of the tasks read, the app not having been stopped.  (The  *)
(* rows come ordered by time, which is not modelled.)                       *)
NextTask(t) ==
    /\ app = "running"
    /\ loop.pc = "tasks"
    /\ loop.cur = None /\ loop.todo[t] # None
    /\ Unstarted # {}  \* bound
    /\ loop' = [loop EXCEPT !.cur = t]
    /\ UNCHANGED <<row, exec, edit, app, raced, budget>>

(* Mark it as running and start it, or skip it if the statement fails.      *)
MarkRunning(t) ==
    /\ loop.cur = t
    /\ LET copy == loop.todo[t] IN
         \/ /\ \E r \in Unstarted :
                 /\ \A s \in Unstarted : r <= s
                 /\ UpdateScheduledTask(t, Marked(copy, r), copy)
                 /\ exec' = [exec EXCEPT ![r] =
                      [NoRun EXCEPT !.pc = "chat", !.task = t, !.copy = Marked(copy, r)]]
            /\ UNCHANGED budget
         \/ /\ Fault
            /\ UNCHANGED <<row, raced, exec>>
    /\ loop' = [loop EXCEPT !.todo[t] = None, !.cur = None]
    /\ UNCHANGED <<edit, app>>

TasksDone ==
    /\ loop.pc = "tasks"
    /\ \A t \in Tasks : loop.todo[t] = None
    /\ loop' = LoopIdle
    /\ UNCHANGED <<row, exec, edit, app, raced, budget>>

(* Seeded fault: the loop does not look at its stop channel.                *)
SeesNothing == FALSE

(* case <-r.stop, case <-ctx.Done()                                         *)
SeesStop == app = "stopping"

LoopStops ==
    /\ SeesStop
    /\ loop.pc \in {"idle", "tasks"} /\ loop.cur = None
    /\ loop' = [LoopIdle EXCEPT !.pc = "over"]
    /\ UNCHANGED <<row, exec, edit, app, raced, budget>>

-----------------------------------------------------------------------------
(* executeTask, in the goroutine r.  At its end it writes the row as it was *)
(* marked, but for the status; an error of that statement is ignored.       *)
Finish(r, status) ==
    /\ UpdateScheduledTask(exec[r].task, [exec[r].copy EXCEPT !.status = status], exec[r].copy)
    /\ exec' = [exec EXCEPT ![r].pc = "over", ![r].copy = None, ![r].pass = 0]

(* Create the chat and append the prompt.                                   *)
CreateChat(r) ==
    /\ exec[r].pc = "chat"
    /\ \/ /\ exec' = [exec EXCEPT ![r].pc = "pass"]
          /\ UNCHANGED <<row, raced, budget>>
       \/ /\ Fault
          /\ Finish(r, "failed")
    /\ UNCHANGED <<loop, edit, app>>

(* Seeded fault: one pass too many.                                         *)
PassesOffByOne(pass) == pass <= MaxPasses

(* pass < maxPasses                                                         *)
PassesLeft(pass) == pass < MaxPasses

(* Read the chat and append the message that will hold the answer.          *)
BeginPass(r) ==
    /\ exec[r].pc = "pass"
    /\ \/ /\ PassesLeft(exec[r].pass)
          /\ exec' = [exec EXCEPT ![r].pass = @ + 1, ![r].pc = "answer"]
          /\ UNCHANGED budget
       \/ /\ PassesLeft(exec[r].pass)
          /\ Fault
          /\ exec' = [exec EXCEPT ![r].pc = "end", ![r].failed = TRUE]
       \/ /\ ~PassesLeft(exec[r].pass)
          /\ exec' = [exec EXCEPT ![r].pc = "end"]
          /\ UNCHANGED budget
    /\ UNCHANGED <<row, loop, edit, app, raced>>

(* The model answers, asks for tools (which are executed, and the task goes *)
(* back to the model), or cannot be reached, as when the app stops.         *)
Answer(r) ==
    /\ exec[r].pc = "answer"
    /\ \/ /\ exec' = [exec EXCEPT ![r].pc = "end"]
          /\ UNCHANGED budget
       \/ /\ exec' = [exec EXCEPT ![r].pc = "pass"]
          /\ UNCHANGED budget
       \/ /\ IF app = "stopping" THEN UNCHANGED budget ELSE Fault
          /\ exec' = [exec EXCEPT ![r].pc = "end", ![r].failed = TRUE]
    /\ UNCHANGED <<row, loop, edit, app, raced>>

(* The errors of a pass are in a variable of the same name but of the loop's*)
(* scope: the one tested at the end is always nil.                          *)
EndTask(r) ==
    /\ exec[r].pc = "end"
    /\ \/ /\ Finish(r, "completed")
          /\ UNCHANGED budget
       \/ /\ Fault
          /\ exec' = [exec EXCEPT ![r].pc = "over", ![r].copy = None, ![r].pass = 0]
          /\ UNCHANGED <<row, raced>>
    /\ UNCHANGED <<loop, edit, app>>

-----------------------------------------------------------------------------
(* The app.                                                                 *)

(* Quit: the context is cancelled and Stop closes the stop channel.         *)
Quit ==
    /\ app = "running"
    /\ app' = "stopping"
    /\ UNCHANGED <<row, loop, exec, edit, raced, budget>>

(* r.wg.Wait() returns.                                                     *)
Stopped ==
    /\ app = "stopping"
    /\ loop.pc = "over"
    /\ \A r \in Runs : ~Active(r)
    /\ app' = "off"
    /\ UNCHANGED <<row, loop, exec, edit, raced, budget>>

(* The app crashes: only the table is left.                                 *)
Crash ==
    /\ app # "off"
    /\ app' = "off"
    /\ exec' = [r \in Runs |-> IF Active(r) THEN [NoRun EXCEPT !.pc = "killed",
                                                    !.task = exec[r].task] ELSE exec[r]]
    /\ edit' = [e \in Editors |-> IF edit[e].pc = "idle" THEN NoEdit
                                  ELSE [edit[e] EXCEPT !.pc = "over", !.copy = None]]
    /\ loop' = [LoopIdle EXCEPT !.pc = "over"]
    /\ UNCHANGED <<row, raced, budget>>

Restart ==
    /\ app = "off"
    /\ budget.restarts > 0
    /\ budget' = [budget EXCEPT !.restarts = @ - 1]
    /\ app' = "running"
    /\ loop' = LoopIdle
    /\ UNCHANGED <<row, exec, edit, raced>>

-----------------------------------------------------------------------------
Init ==
    /\ row = [t \in Tasks |-> None]
    /\ loop = LoopIdle
    /\ exec = [r \in Runs |-> NoRun]
    /\ edit = [e \in Editors |-> NoEdit]
    /\ app = "running"
    /\ raced = {}
    /\ budget = [faults |-> MaxFaults, restarts |-> MaxRestarts]

ProcessPendingTasks == GetPending \/ (\E t \in Tasks : NextTask(t) \/ MarkRunning(t)) \/ TasksDone

ExecuteTask(r) == CreateChat(r) \/ BeginPass(r) \/ Answer(r) \/ EndTask(r)

Table(t) == CreateScheduledTask(t) \/ TimePasses(t) \/ DeleteScheduledTask(t)

Next ==
    \/ ProcessPendingTasks \/ LoopStops
    \/ \E r \in Runs : ExecuteTask(r)
    \/ \E t \in Tasks : Table(t)
    \/ \E e \in Editors : EditRead(e) \/ EditWrite(e)
    \/ Quit \/ Stopped \/ Crash \/ Restart

Spec == Init /\ [][Next]_vars

(***************************************************************************)
(* Fairness: the ticker ticks, the goroutines go on, and the model answers *)
(* or its connection fails.                                                *)
(***************************************************************************)
Fairness ==
    /\ WF_vars(ProcessPendingTasks \/ LoopStops)
    /\ \A r \in Runs : WF_vars(ExecuteTask(r))
    /\ WF_vars(Stopped)

FairSpec == Spec /\ Fairness

-----------------------------------------------------------------------------
(* Properties.                                                              *)

Row == [status : {"pending", "running", "completed", "failed"}, due : BOOLEAN,
        chat : Runs \cup {None}]

(* Every variable has its type; no task is carried out in more than         *)
(* maxPasses passes.                                                        *)
TypeOK ==
    /\ row \in [Tasks -> Row \cup {None}]
    /\ loop \in [pc : {"idle", "tasks", "over"}, todo : [Tasks -> Row \cup {None}],
                 cur : Tasks \cup {None}]
    /\ exec \in [Runs -> [pc : {"none", "chat", "pass", "answer", "end", "over", "killed"},
                          task : Tasks \cup {None}, copy : Row \cup {None},
                          pass : 0 .. MaxPasses, failed : BOOLEAN]]
    /\ edit \in [Editors -> [pc : {"idle", "read", "over"}, task : Tasks \cup {None},
                             copy : Row \cup {None}]]
    /\ app \in {"running", "stopping", "off"}
    /\ raced \subseteq Tasks
    /\ budget \in [faults : 0 .. MaxFaults, restarts : 0 .. MaxRestarts]

(* A task is started at most once, over crashes and restarts of the app,    *)
(* unless an edit has overwritten its status.                               *)
StartedOnce ==
    \A t \in Tasks \ raced : Cardinality({r \in Runs : exec[r].task = t}) <= 1

IsMarked(r) ==
    Active(r) /\ row[exec[r].task] # None =>
      /\ row[exec[r].task].status = "running"
      /\ row[exec[r].task].chat = exec[r].copy.chat /\ row[exec[r].task].chat \in Runs

(* "Mark running immediately with ChatID populated so UI knows this chat is *)
(* running": the row of a task that is being carried out says so.           *)
RunningIsMarked == \A r \in Runs : IsMarked(r)

(* The same, unless an edit has overwritten the row.                        *)
RunningIsMarkedUnlessRaced == \A r \in Runs : exec[r].task \notin raced => IsMarked(r)

(* A pending task that is due is started, unless it is deleted, edited, or  *)
(* the app stops first (or the model has no more runs to start).            *)
DueTaskStarts ==
    \A t \in Tasks :
      row[t] # None /\ row[t].status = "pending" /\ row[t].due /\ app = "running" ~>
        \/ row[t] = None \/ row[t].status # "pending" \/ ~row[t].due
        \/ app # "running" \/ t \in raced \/ Unstarted = {}

(* Stop returns: it waits for the loop and for every task in progress.      *)
StopReturns == app = "stopping" ~> app = "off"
=============================================================================
