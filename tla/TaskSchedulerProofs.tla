------------------------ MODULE TaskSchedulerProofs ------------------------
(***************************************************************************)
(* Theorems about TaskScheduler, for any tasks, runs and editors.          *)
(***************************************************************************)
EXTENDS TaskScheduler, FiniteSetTheorems, TLAPS

-----------------------------------------------------------------------------
(* Types, and what each program counter says of the fields beside it.       *)

(* A run that is under way has a task and the row it was started with,      *)
(* which names a chat.                                                      *)
RunsTyped ==
    \A r \in Runs : Active(r) =>
      exec[r].task \in Tasks /\ exec[r].copy \in Row /\ exec[r].copy.chat \in Runs

(* An edit that has read a row has it.                                      *)
EditsTyped ==
    \A e \in Editors : edit[e].pc = "read" => edit[e].task \in Tasks /\ edit[e].copy \in Row

(* The task the loop is at is one of those it has read.                     *)
LoopTyped == loop.cur # None => loop.pc = "tasks" /\ loop.todo[loop.cur] \in Row \ {None}

Typed == TypeOK /\ RunsTyped /\ EditsTyped /\ LoopTyped

RowOrNone == Row \cup {None}

LEMMA TypedInit == Init => Typed
BY BoundAssumption, PassAssumption
   DEF Init, Typed, TypeOK, RunsTyped, EditsTyped, LoopTyped, LoopIdle, NoRun, NoEdit,
       Active, Row

(* An UPDATE keeps the types of the table.                                  *)
LEMMA UpdateTyped ==
    ASSUME TypeOK, NEW t \in Tasks, NEW new \in Row, NEW seen,
           UpdateScheduledTask(t, new, seen)
    PROVE  row' \in [Tasks -> RowOrNone] /\ raced' \subseteq Tasks
BY DEF TypeOK, UpdateScheduledTask, RowOrNone

LEMMA NoPass == 0 \in 0 .. MaxPasses
BY PassAssumption

LEMMA FaultTyped ==
    ASSUME TypeOK, Fault
    PROVE  budget' \in [faults : 0 .. MaxFaults, restarts : 0 .. MaxRestarts]
BY BoundAssumption DEF TypeOK, Fault

LEMMA TableTyped ==
    ASSUME Typed,
           NEW t \in Tasks, Table(t)
    PROVE  Typed'
<1>1. row' \in [Tasks -> RowOrNone]
  <2>1. CASE CreateScheduledTask(t)
    <3>1. PICK due \in BOOLEAN : row' = [row EXCEPT ![t] = NewRow(due)]
      BY <2>1 DEF CreateScheduledTask
    <3>2. NewRow(due) \in Row
      BY DEF NewRow, Row
    <3>. QED  BY <3>1, <3>2 DEF Typed, TypeOK, RowOrNone
  <2>2. CASE TimePasses(t)
    <3>1. row[t] \in Row
      BY <2>2 DEF TimePasses, Typed, TypeOK
    <3>2. [row[t] EXCEPT !.due = TRUE] \in Row
      BY <3>1 DEF Row
    <3>. QED  BY <2>2, <3>2 DEF TimePasses, Typed, TypeOK, RowOrNone
  <2>3. CASE DeleteScheduledTask(t)
    BY <2>3 DEF Typed, TypeOK, DeleteScheduledTask, RowOrNone
  <2>. QED  BY <2>1, <2>2, <2>3 DEF Table
<1>2. UNCHANGED <<loop, exec, edit, app, raced, budget>>
  BY DEF Table, CreateScheduledTask, TimePasses, DeleteScheduledTask
<1>. QED
  BY <1>1, <1>2 DEF Typed, TypeOK, RunsTyped, EditsTyped, LoopTyped, Active, RowOrNone

LEMMA EditTyped ==
    ASSUME Typed,
           NEW e \in Editors, EditRead(e) \/ EditWrite(e)
    PROVE  Typed'
<1>1. CASE EditRead(e)
  <2>1. edit' \in [Editors -> [pc : {"idle", "read", "over"}, task : Tasks \cup {None},
                               copy : RowOrNone]]
    BY <1>1 DEF Typed, TypeOK, EditRead, RowOrNone
  <2>2. EditsTyped'
    BY <1>1 DEF Typed, TypeOK, EditsTyped, EditRead, RowOrNone
  <2>. QED
    BY <1>1, <2>1, <2>2
       DEF Typed, TypeOK, RunsTyped, LoopTyped, EditRead, Active, RowOrNone
<1>2. CASE EditWrite(e)
  <2>1. PICK due \in BOOLEAN :
          UpdateScheduledTask(edit[e].task, [edit[e].copy EXCEPT !.due = due], edit[e].copy)
    BY <1>2 DEF EditWrite
  <2>2. edit[e].task \in Tasks /\ edit[e].copy \in Row
    BY <1>2 DEF EditWrite, Typed, EditsTyped
  <2>3. [edit[e].copy EXCEPT !.due = due] \in Row
    BY <2>2 DEF Row
  <2>4. row' \in [Tasks -> RowOrNone] /\ raced' \subseteq Tasks
    BY <2>1, <2>2, <2>3, UpdateTyped DEF Typed
  <2>5. edit' \in [Editors -> [pc : {"idle", "read", "over"}, task : Tasks \cup {None},
                               copy : RowOrNone]]
    <3>. DEFINE s == [edit[e] EXCEPT !.pc = "over", !.copy = None]
    <3>0. edit[e] \in [pc : {"idle", "read", "over"}, task : Tasks \cup {None},
                        copy : RowOrNone]
      BY DEF Typed, TypeOK, RowOrNone
    <3>1. s \in [pc : {"idle", "read", "over"}, task : Tasks \cup {None}, copy : RowOrNone]
      BY <3>0 DEF RowOrNone
    <3>2. edit' = [edit EXCEPT ![e] = s]
      BY <1>2 DEF EditWrite
    <3>. HIDE DEF s
    <3>. QED  BY <3>1, <3>2 DEF Typed, TypeOK, RowOrNone
  <2>6. EditsTyped'
    BY <1>2 DEF Typed, TypeOK, EditsTyped, EditWrite
  <2>. QED
    BY <1>2, <2>4, <2>5, <2>6
       DEF Typed, TypeOK, RunsTyped, LoopTyped, EditWrite, Active, RowOrNone
<1>. QED  BY <1>1, <1>2

LoopRecord == [pc : {"idle", "tasks", "over"}, todo : [Tasks -> RowOrNone],
               cur : Tasks \cup {None}]

ExecRecord == [pc : {"none", "chat", "pass", "answer", "end", "over", "killed"},
               task : Tasks \cup {None}, copy : RowOrNone,
               pass : 0 .. MaxPasses, failed : BOOLEAN]

(* The row as it is marked names a chat.                                    *)
LEMMA MarkedTyped ==
    ASSUME NEW copy \in Row, NEW r \in Runs
    PROVE  /\ Marked(copy, r) \in Row
           /\ Marked(copy, r).status = "running"
           /\ Marked(copy, r).chat \in Runs
BY DEF Marked, Row

LEMMA MarkTyped ==
    ASSUME Typed,
           NEW t \in Tasks, MarkRunning(t)
    PROVE  Typed'
<1>. DEFINE copy == loop.todo[t]
<1>1. copy \in Row
  BY NoneAssumption DEF Typed, LoopTyped, MarkRunning
<1>2. loop' \in LoopRecord /\ LoopTyped'
  BY DEF Typed, TypeOK, MarkRunning, LoopTyped, LoopRecord, RowOrNone
<1>3. CASE \E r \in Unstarted :
             /\ UpdateScheduledTask(t, Marked(copy, r), copy)
             /\ exec' = [exec EXCEPT ![r] =
                  [NoRun EXCEPT !.pc = "chat", !.task = t, !.copy = Marked(copy, r)]]
             /\ UNCHANGED budget
  <2>1. PICK r \in Unstarted :
             /\ UpdateScheduledTask(t, Marked(copy, r), copy)
             /\ exec' = [exec EXCEPT ![r] =
                  [NoRun EXCEPT !.pc = "chat", !.task = t, !.copy = Marked(copy, r)]]
             /\ UNCHANGED budget
    BY <1>3
  <2>2. r \in Runs
    BY DEF Unstarted
  <2>3. Marked(copy, r) \in Row /\ Marked(copy, r).chat \in Runs
    BY <1>1, <2>2, MarkedTyped
  <2>4. row' \in [Tasks -> RowOrNone] /\ raced' \subseteq Tasks
    BY <2>1, <2>3, UpdateTyped DEF Typed
  <2>5. exec' \in [Runs -> ExecRecord]
    <3>1. [NoRun EXCEPT !.pc = "chat", !.task = t, !.copy = Marked(copy, r)] \in ExecRecord
      <4>1. Marked(copy, r) \in RowOrNone
        BY <2>3 DEF RowOrNone
      <4>. QED  BY <4>1, NoPass DEF NoRun, ExecRecord
    <3>2. exec \in [Runs -> ExecRecord]
      BY DEF Typed, TypeOK, ExecRecord, RowOrNone
    <3>. QED  BY <2>1, <2>2, <3>1, <3>2
  <2>6. RunsTyped'
    BY <2>1, <2>2, <2>3 DEF Typed, TypeOK, RunsTyped, Active, NoRun
  <2>. QED
    BY <1>2, <2>1, <2>4, <2>5, <2>6
       DEF Typed, TypeOK, EditsTyped, MarkRunning, LoopRecord, ExecRecord, RowOrNone
<1>4. CASE Fault /\ UNCHANGED <<row, raced, exec>>
  <2>1. budget' \in [faults : 0 .. MaxFaults, restarts : 0 .. MaxRestarts]
    BY <1>4, FaultTyped DEF Typed
  <2>. QED
    BY <1>2, <1>4, <2>1
       DEF Typed, TypeOK, RunsTyped, EditsTyped, MarkRunning, Active, LoopRecord, RowOrNone
<1>. QED  BY <1>3, <1>4 DEF MarkRunning

LEMMA LoopStepTyped ==
    ASSUME Typed,
           GetPending \/ (\E t \in Tasks : NextTask(t)) \/ TasksDone \/ LoopStops
    PROVE  Typed'
<1>1. loop' \in LoopRecord /\ LoopTyped'
  <2>1. CASE GetPending
    <3>1. [t \in Tasks |-> IF PendingAndDue(t) THEN row[t] ELSE None] \in [Tasks -> RowOrNone]
      BY DEF Typed, TypeOK, RowOrNone
    <3>2. loop.cur = None
      BY <2>1 DEF GetPending, Typed, LoopTyped
    <3>. QED
      BY <2>1, <3>1, <3>2 DEF Typed, TypeOK, LoopTyped, GetPending, LoopRecord, RowOrNone
  <2>2. CASE \E t \in Tasks : NextTask(t)
    BY <2>2 DEF Typed, TypeOK, LoopTyped, NextTask, LoopRecord, RowOrNone
  <2>3. CASE TasksDone \/ LoopStops
    BY <2>3 DEF Typed, TypeOK, LoopTyped, TasksDone, LoopStops, LoopIdle, LoopRecord, RowOrNone
  <2>. QED  BY <2>1, <2>2, <2>3
<1>2. UNCHANGED <<row, exec, edit, app, raced, budget>>
  BY DEF GetPending, NextTask, TasksDone, LoopStops
<1>. QED
  BY <1>1, <1>2 DEF Typed, TypeOK, RunsTyped, EditsTyped, Active, LoopRecord, RowOrNone

LEMMA ExecuteTyped ==
    ASSUME Typed,
           NEW r \in Runs, ExecuteTask(r)
    PROVE  Typed'
<1>. DEFINE Others == loop' = loop /\ edit' = edit /\ app' = app
<1>1. exec \in [Runs -> ExecRecord] /\ exec[r] \in ExecRecord
  BY DEF Typed, TypeOK, ExecRecord, RowOrNone
<1>2. Active(r) /\ exec[r].task \in Tasks /\ exec[r].copy \in Row
  BY DEF ExecuteTask, CreateChat, BeginPass, Answer, EndTask, Typed, RunsTyped, Active
<1>3. ASSUME NEW status \in {"failed", "completed"}, Finish(r, status)
      PROVE  /\ row' \in [Tasks -> RowOrNone] /\ raced' \subseteq Tasks
             /\ exec' \in [Runs -> ExecRecord] /\ RunsTyped'
  <2>1. [exec[r].copy EXCEPT !.status = status] \in Row
    BY <1>2, <1>3 DEF Row
  <2>2. row' \in [Tasks -> RowOrNone] /\ raced' \subseteq Tasks
    BY <1>2, <1>3, <2>1, UpdateTyped DEF Finish, Typed
  <2>3. exec' \in [Runs -> ExecRecord]
    BY <1>1, <1>3, NoPass DEF Finish, ExecRecord, RowOrNone
  <2>4. RunsTyped'
    BY <1>1, <1>3 DEF Finish, Typed, RunsTyped, Active
  <2>. QED  BY <2>2, <2>3, <2>4
<1>4. /\ row' \in [Tasks -> RowOrNone] /\ raced' \subseteq Tasks
      /\ exec' \in [Runs -> ExecRecord] /\ RunsTyped'
  <2>1. CASE CreateChat(r)
    <3>1. CASE Finish(r, "failed")
      BY <1>3, <3>1
    <3>2. CASE exec' = [exec EXCEPT ![r].pc = "pass"] /\ UNCHANGED <<row, raced>>
      BY <1>1, <1>2, <3>2 DEF ExecRecord, Typed, TypeOK, RunsTyped, Active, RowOrNone
    <3>. QED  BY <2>1, <3>1, <3>2 DEF CreateChat
  <2>2. CASE BeginPass(r)
    <3>1. PassesLeft(exec[r].pass) => exec[r].pass + 1 \in 0 .. MaxPasses
      BY <1>1, PassAssumption DEF PassesLeft, ExecRecord
    <3>2. exec' \in [Runs -> ExecRecord]
      BY <1>1, <2>2, <3>1 DEF BeginPass, ExecRecord
    <3>3. RunsTyped'
      BY <1>1, <1>2, <2>2 DEF BeginPass, Typed, RunsTyped, Active, ExecRecord
    <3>. QED  BY <2>2, <3>2, <3>3 DEF BeginPass, Typed, TypeOK, RowOrNone
  <2>3. CASE Answer(r)
    <3>1. exec' \in [Runs -> ExecRecord]
      BY <1>1, <2>3 DEF Answer, ExecRecord
    <3>2. RunsTyped'
      BY <1>1, <1>2, <2>3 DEF Answer, Typed, RunsTyped, Active, ExecRecord
    <3>. QED  BY <2>3, <3>1, <3>2 DEF Answer, Typed, TypeOK, RowOrNone
  <2>4. CASE EndTask(r)
    <3>1. CASE Finish(r, "completed")
      BY <1>3, <3>1
    <3>2. CASE /\ exec' = [exec EXCEPT ![r].pc = "over", ![r].copy = None, ![r].pass = 0]
               /\ UNCHANGED <<row, raced>>
      <4>1. exec' \in [Runs -> ExecRecord]
        BY <1>1, <3>2, NoPass DEF ExecRecord, RowOrNone
      <4>2. RunsTyped'
        BY <1>1, <3>2 DEF Typed, RunsTyped, Active
      <4>. QED  BY <3>2, <4>1, <4>2 DEF Typed, TypeOK, RowOrNone
    <3>. QED  BY <2>4, <3>1, <3>2 DEF EndTask
  <2>. QED  BY <2>1, <2>2, <2>3, <2>4 DEF ExecuteTask
<1>5. budget' \in [faults : 0 .. MaxFaults, restarts : 0 .. MaxRestarts]
  <2>1. Fault \/ UNCHANGED budget
    BY DEF ExecuteTask, CreateChat, BeginPass, Answer, EndTask
  <2>. QED  BY <2>1, FaultTyped DEF Typed, TypeOK
<1>6. UNCHANGED <<loop, edit, app>>
  BY DEF ExecuteTask, CreateChat, BeginPass, Answer, EndTask
<1>. QED
  BY <1>4, <1>5, <1>6 DEF Typed, TypeOK, EditsTyped, LoopTyped, ExecRecord, RowOrNone

LEMMA AppTyped ==
    ASSUME Typed,
           Quit \/ Stopped \/ Crash \/ Restart
    PROVE  Typed'
<1>1. CASE Quit \/ Stopped
  BY <1>1 DEF Quit, Stopped, Typed, TypeOK, RunsTyped, EditsTyped, LoopTyped, Active
<1>2. CASE Crash
  <2>1. exec' \in [Runs -> ExecRecord]
    <3>1. \A r \in Runs : [NoRun EXCEPT !.pc = "killed", !.task = exec[r].task] \in ExecRecord
      BY NoPass DEF NoRun, Typed, TypeOK, ExecRecord, RowOrNone
    <3>2. \A r \in Runs : exec[r] \in ExecRecord
      BY DEF Typed, TypeOK, ExecRecord, RowOrNone
    <3>. QED  BY <1>2, <3>1, <3>2 DEF Crash
  <2>2. edit' \in [Editors -> [pc : {"idle", "read", "over"}, task : Tasks \cup {None},
                               copy : RowOrNone]] /\ EditsTyped'
    <3>. DEFINE E == [pc : {"idle", "read", "over"}, task : Tasks \cup {None},
                      copy : RowOrNone]
                Left(e) == IF edit[e].pc = "idle" THEN NoEdit
                           ELSE [edit[e] EXCEPT !.pc = "over", !.copy = None]
    <3>1. \A e \in Editors : edit[e] \in E
      BY DEF Typed, TypeOK, RowOrNone
    <3>2. NoEdit \in E /\ NoEdit.pc # "read"
      BY DEF NoEdit, RowOrNone
    <3>3. ASSUME NEW e \in Editors PROVE Left(e) \in E /\ Left(e).pc # "read"
      BY <3>1, <3>2 DEF RowOrNone
    <3>4. edit' = [e \in Editors |-> Left(e)]
      BY <1>2 DEF Crash
    <3>. HIDE DEF Left, E
    <3>5. edit' \in [Editors -> E] /\ EditsTyped'
      BY <3>3, <3>4 DEF EditsTyped
    <3>. QED  BY <3>5 DEF E
  <2>3. loop' \in LoopRecord /\ LoopTyped'
    BY <1>2 DEF Crash, LoopIdle, LoopTyped, LoopRecord, RowOrNone
  <2>4. RunsTyped'
    BY <1>2 DEF Crash, NoRun, RunsTyped, Active
  <2>. QED
    BY <1>2, <2>1, <2>2, <2>3, <2>4 DEF Crash, Typed, TypeOK, ExecRecord, LoopRecord, RowOrNone
<1>3. CASE Restart
  <2>1. budget' \in [faults : 0 .. MaxFaults, restarts : 0 .. MaxRestarts]
    BY <1>3, BoundAssumption DEF Restart, Typed, TypeOK
  <2>2. loop' \in LoopRecord /\ LoopTyped'
    BY <1>3 DEF Restart, LoopIdle, LoopTyped, LoopRecord, RowOrNone
  <2>. QED
    BY <1>3, <2>1, <2>2
       DEF Restart, Typed, TypeOK, RunsTyped, EditsTyped, Active, LoopRecord, RowOrNone
<1>. QED  BY <1>1, <1>2, <1>3

LEMMA TypedStep == Typed /\ [Next]_vars => Typed'
<1>. SUFFICES ASSUME Typed, [Next]_vars PROVE Typed'
  OBVIOUS
<1>1. CASE UNCHANGED vars
  BY <1>1 DEF vars, Typed, TypeOK, RunsTyped, EditsTyped, LoopTyped, Active
<1>2. CASE Next
  BY <1>2, TableTyped, EditTyped, MarkTyped, LoopStepTyped, ExecuteTyped, AppTyped
     DEF Next, ProcessPendingTasks
<1>. QED  BY <1>1, <1>2

(* The types, and what a goroutine of executeTask, an edit and the loop keep *)
(* in their locals at each point, hold in every reachable state.            *)
THEOREM TypedAlways == Spec => []Typed
<1>1. Typed /\ [Next]_vars => Typed'
  BY TypedStep
<1>. QED  BY TypedInit, <1>1, PTL DEF Spec

(* Every variable keeps its type, and no task goes to the model more than   *)
(* maxPasses times.                                                         *)
THEOREM TypeCorrect == Spec => []TypeOK
<1>1. Typed => TypeOK
  BY DEF Typed
<1>. QED  BY TypedAlways, <1>1, PTL

-----------------------------------------------------------------------------
(* A task is started once.                                                  *)

Started(t) == \E r \in Runs : exec[r].task = t

(* A task that was started has one run, is not pending any more, and is not *)
(* among those the loop has read and is yet to start.                       *)
StartedLeaves(t) ==
    /\ \A r, s \in Runs : exec[r].task = t /\ exec[s].task = t => r = s
    /\ Started(t) => row[t] = None \/ row[t].status # "pending"
    /\ Started(t) => loop.todo[t] = None

Once == \A t \in Tasks \ raced : StartedLeaves(t)

LEMMA OnceInit == Init => Once
BY NoneAssumption DEF Init, Once, StartedLeaves, Started, NoRun, LoopIdle

(* What an UPDATE does to the tasks whose rows are not overwritten by a     *)
(* writer with an old copy.                                                 *)
LEMMA UpdateEffect ==
    ASSUME TypeOK, NEW t \in Tasks, NEW new, NEW seen, UpdateScheduledTask(t, new, seen)
    PROVE  /\ raced \subseteq raced'
           /\ \A u \in Tasks \ {t} : row'[u] = row[u]
           /\ t \notin raced' => \/ row[t] = None /\ row'[t] = None
                                 \/ row[t] # None /\ row[t] = seen /\ row'[t] = new
BY DEF TypeOK, UpdateScheduledTask

(* Most steps start nothing and read nothing into the loop's list, and only *)
(* make a row pending whose task was not started.                           *)
LEMMA OnceFrame ==
    ASSUME Once, raced \subseteq raced',
           \A r \in Runs : exec'[r].task = exec[r].task,
           \A t \in Tasks : loop'.todo[t] \in {loop.todo[t], None},
           \A t \in Tasks \ raced' :
             \/ row'[t] = None \/ row'[t] = row[t]
             \/ row'[t].status # "pending"
             \/ row[t] # None /\ row'[t].status = row[t].status
             \/ ~Started(t)
    PROVE  Once'
BY DEF Once, StartedLeaves, Started

LEMMA OnceTable ==
    ASSUME Typed, Once, NEW t \in Tasks, Table(t)
    PROVE  Once'
<1>1. UNCHANGED <<loop, exec, raced>>
  BY DEF Table, CreateScheduledTask, TimePasses, DeleteScheduledTask
<1>2. \A u \in Tasks \ {t} : row'[u] = row[u]
  BY DEF Table, CreateScheduledTask, TimePasses, DeleteScheduledTask, Typed, TypeOK
<1>3. \/ row'[t] = None
      \/ row[t] # None /\ row'[t].status = row[t].status
      \/ ~Started(t)
  <2>1. CASE CreateScheduledTask(t)
    BY <2>1 DEF CreateScheduledTask, Started
  <2>2. CASE TimePasses(t)
    <3>1. row[t] \in Row
      BY <2>2 DEF TimePasses, Typed, TypeOK
    <3>2. row'[t].status = row[t].status
      BY <2>2, <3>1 DEF TimePasses, Typed, TypeOK, Row
    <3>. QED  BY <2>2, <3>2 DEF TimePasses
  <2>3. CASE DeleteScheduledTask(t)
    BY <2>3 DEF DeleteScheduledTask, Typed, TypeOK
  <2>. QED  BY <2>1, <2>2, <2>3 DEF Table
<1>. QED  BY <1>1, <1>2, <1>3, OnceFrame

(* The new row of an edit has the status and the chat of the one it read.   *)
LEMMA EditedRow ==
    ASSUME NEW copy \in Row, NEW due \in BOOLEAN
    PROVE  /\ [copy EXCEPT !.due = due] \in Row
           /\ [copy EXCEPT !.due = due].status = copy.status
           /\ [copy EXCEPT !.due = due].chat = copy.chat
BY DEF Row

LEMMA EditEffect ==
    ASSUME Typed, NEW e \in Editors, EditRead(e) \/ EditWrite(e)
    PROVE  /\ UNCHANGED <<loop, exec, app>> /\ raced \subseteq raced'
           /\ \A t \in Tasks \ raced' :
                \/ row'[t] = row[t]
                \/ /\ row[t] # None
                   /\ row'[t].status = row[t].status /\ row'[t].chat = row[t].chat
<1>1. CASE EditRead(e)
  BY <1>1 DEF EditRead
<1>2. CASE EditWrite(e)
  <2>1. PICK due \in BOOLEAN :
          UpdateScheduledTask(edit[e].task, [edit[e].copy EXCEPT !.due = due], edit[e].copy)
    BY <1>2 DEF EditWrite
  <2>2. edit[e].task \in Tasks /\ edit[e].copy \in Row
    BY <1>2 DEF EditWrite, Typed, EditsTyped
  <2>3. /\ raced \subseteq raced'
        /\ \A u \in Tasks \ {edit[e].task} : row'[u] = row[u]
        /\ edit[e].task \notin raced' =>
             \/ row[edit[e].task] = None /\ row'[edit[e].task] = None
             \/ /\ row[edit[e].task] # None /\ row[edit[e].task] = edit[e].copy
                /\ row'[edit[e].task] = [edit[e].copy EXCEPT !.due = due]
    BY <2>1, <2>2, UpdateEffect DEF Typed
  <2>4. /\ [edit[e].copy EXCEPT !.due = due].status = edit[e].copy.status
        /\ [edit[e].copy EXCEPT !.due = due].chat = edit[e].copy.chat
    BY <2>2, EditedRow
  <2>. QED  BY <1>2, <2>3, <2>4 DEF EditWrite
<1>. QED  BY <1>1, <1>2

(* A run that ends keeps its task.                                          *)
LEMMA OverEffect ==
    ASSUME exec \in [Runs -> ExecRecord], NEW r \in Runs,
           exec' = [exec EXCEPT ![r].pc = "over", ![r].copy = None, ![r].pass = 0]
    PROVE  /\ \A s \in Runs : exec'[s].task = exec[s].task
           /\ \A s \in Runs \ {r} : exec'[s] = exec[s]
           /\ exec'[r].pc = "over"
<1>1. exec' = [exec EXCEPT ![r] = [exec[r] EXCEPT !.pc = "over", !.copy = None, !.pass = 0]]
  OBVIOUS
<1>2. [exec[r] EXCEPT !.pc = "over", !.copy = None, !.pass = 0].task = exec[r].task
  BY DEF ExecRecord
<1>3. [exec[r] EXCEPT !.pc = "over", !.copy = None, !.pass = 0].pc = "over"
  BY DEF ExecRecord
<1>. QED  BY <1>1, <1>2, <1>3

(* The steps of a run: it keeps its task and the row it was started with,   *)
(* which at its end is written back with another status.                    *)
LEMMA ExecuteEffect ==
    ASSUME Typed, NEW r \in Runs, ExecuteTask(r)
    PROVE  /\ UNCHANGED <<loop, edit, app>> /\ raced \subseteq raced'
           /\ \A s \in Runs : exec'[s].task = exec[s].task
           /\ \A s \in Runs \ {r} : exec'[s] = exec[s]
           /\ exec[r].task \in Tasks /\ Active(r)
           /\ Active(r)' => row' = row /\ exec'[r].copy = exec[r].copy
           /\ \A t \in Tasks \ raced' :
                \/ row'[t] = row[t]
                \/ t = exec[r].task /\ row'[t].status # "pending"
<1>1. exec \in [Runs -> ExecRecord] /\ exec[r] \in ExecRecord
  BY DEF Typed, TypeOK, ExecRecord, RowOrNone
<1>2. Active(r) /\ exec[r].task \in Tasks /\ exec[r].copy \in Row
  BY DEF ExecuteTask, CreateChat, BeginPass, Answer, EndTask, Typed, RunsTyped, Active
<1>3. UNCHANGED <<loop, edit, app>>
  BY DEF ExecuteTask, CreateChat, BeginPass, Answer, EndTask
<1>4. CASE \E status \in {"failed", "completed"} : Finish(r, status)
  <2>1. PICK status \in {"failed", "completed"} : Finish(r, status)
    BY <1>4
  <2>2. /\ raced \subseteq raced'
        /\ \A u \in Tasks \ {exec[r].task} : row'[u] = row[u]
        /\ exec[r].task \notin raced' =>
             \/ row[exec[r].task] = None /\ row'[exec[r].task] = None
             \/ row'[exec[r].task] = [exec[r].copy EXCEPT !.status = status]
    BY <1>2, <2>1, UpdateEffect DEF Finish, Typed
  <2>3. [exec[r].copy EXCEPT !.status = status].status # "pending"
    BY <1>2 DEF Row
  <2>4. /\ \A s \in Runs : exec'[s].task = exec[s].task
        /\ \A s \in Runs \ {r} : exec'[s] = exec[s]
        /\ ~Active(r)'
    <3>1. exec' = [exec EXCEPT ![r].pc = "over", ![r].copy = None, ![r].pass = 0]
      BY <2>1 DEF Finish
    <3>2. /\ \A s \in Runs : exec'[s].task = exec[s].task
          /\ \A s \in Runs \ {r} : exec'[s] = exec[s]
          /\ exec'[r].pc = "over"
      BY <1>1, <3>1, OverEffect
    <3>. QED  BY <3>2 DEF Active
  <2>. QED  BY <1>2, <1>3, <2>2, <2>3, <2>4
<1>5. CASE ~\E status \in {"failed", "completed"} : Finish(r, status)
  <2>1. UNCHANGED <<row, raced>>
    BY <1>5 DEF ExecuteTask, CreateChat, BeginPass, Answer, EndTask
  <2>2. /\ \A s \in Runs : exec'[s].task = exec[s].task
        /\ \A s \in Runs \ {r} : exec'[s] = exec[s]
        /\ Active(r)' => exec'[r].copy = exec[r].copy
    <3>1. CASE CreateChat(r)
      BY <1>1, <1>5, <3>1 DEF CreateChat, Active, ExecRecord
    <3>2. CASE BeginPass(r)
      BY <1>1, <3>2 DEF BeginPass, Active, ExecRecord
    <3>3. CASE Answer(r)
      BY <1>1, <3>3 DEF Answer, Active, ExecRecord
    <3>4. CASE EndTask(r)
      <4>1. exec' = [exec EXCEPT ![r].pc = "over", ![r].copy = None, ![r].pass = 0]
        BY <1>5, <3>4 DEF EndTask
      <4>2. /\ \A s \in Runs : exec'[s].task = exec[s].task
            /\ \A s \in Runs \ {r} : exec'[s] = exec[s]
            /\ exec'[r].pc = "over"
        BY <1>1, <4>1, OverEffect
      <4>. QED  BY <4>2 DEF Active
    <3>. QED  BY <3>1, <3>2, <3>3, <3>4 DEF ExecuteTask
  <2>. QED  BY <1>2, <1>3, <2>1, <2>2
<1>. QED  BY <1>4, <1>5

(* A crash ends all runs, which keep their tasks.                           *)
LEMMA AppEffect ==
    ASSUME Typed, Quit \/ Stopped \/ Crash \/ Restart
    PROVE  /\ UNCHANGED <<row, raced>>
           /\ \A r \in Runs : exec'[r].task = exec[r].task
           /\ \A t \in Tasks : loop'.todo[t] \in {loop.todo[t], None}
           /\ \A r \in Runs : Active(r)' => exec'[r] = exec[r]
<1>1. CASE Quit \/ Stopped
  BY <1>1 DEF Quit, Stopped
<1>2. CASE Crash
  BY <1>2 DEF Crash, NoRun, LoopIdle, Active
<1>3. CASE Restart
  BY <1>3 DEF Restart, LoopIdle
<1>. QED  BY <1>1, <1>2, <1>3

(* A task that is marked and started, unless its row was overwritten, had   *)
(* its row read as pending and was not started before.                      *)
LEMMA MarkEffect ==
    ASSUME Typed, NEW t \in Tasks, MarkRunning(t)
    PROVE  /\ loop.todo[t] \in Row
           /\ loop'.todo = [loop.todo EXCEPT ![t] = None]
           /\ raced \subseteq raced'
           /\ \A u \in Tasks \ {t} : row'[u] = row[u]
           /\ \/ row' = row /\ exec' = exec
              \/ \E r \in Unstarted :
                   /\ exec' = [exec EXCEPT ![r] =
                        [NoRun EXCEPT !.pc = "chat", !.task = t,
                                      !.copy = Marked(loop.todo[t], r)]]
                   /\ t \notin raced' => \/ row[t] = None /\ row'[t] = None
                                         \/ row'[t] = Marked(loop.todo[t], r)
<1>1. loop.todo[t] \in Row
  BY NoneAssumption DEF Typed, LoopTyped, MarkRunning
<1>2. loop'.todo = [loop.todo EXCEPT ![t] = None]
  BY DEF MarkRunning, Typed, TypeOK
<1>3. ASSUME NEW r \in Unstarted, UpdateScheduledTask(t, Marked(loop.todo[t], r), loop.todo[t])
      PROVE  /\ raced \subseteq raced'
             /\ \A u \in Tasks \ {t} : row'[u] = row[u]
             /\ t \notin raced' => \/ row[t] = None /\ row'[t] = None
                                   \/ row'[t] = Marked(loop.todo[t], r)
  BY <1>3, UpdateEffect DEF Typed
<1>. QED  BY <1>1, <1>2, <1>3 DEF MarkRunning

LEMMA OnceMark ==
    ASSUME Typed, Once, NEW t \in Tasks, MarkRunning(t)
    PROVE  Once'
<1>1. /\ loop.todo[t] \in Row /\ loop'.todo = [loop.todo EXCEPT ![t] = None]
      /\ raced \subseteq raced'
      /\ \A u \in Tasks \ {t} : row'[u] = row[u]
  BY MarkEffect
<1>2. loop.todo \in [Tasks -> RowOrNone]
  BY DEF Typed, TypeOK, RowOrNone
<1>3. CASE row' = row /\ exec' = exec
  BY <1>1, <1>2, <1>3, OnceFrame
<1>4. CASE \E r \in Unstarted :
             /\ exec' = [exec EXCEPT ![r] =
                  [NoRun EXCEPT !.pc = "chat", !.task = t, !.copy = Marked(loop.todo[t], r)]]
             /\ t \notin raced' => \/ row[t] = None /\ row'[t] = None
                                   \/ row'[t] = Marked(loop.todo[t], r)
  <2>1. PICK r \in Unstarted :
             /\ exec' = [exec EXCEPT ![r] =
                  [NoRun EXCEPT !.pc = "chat", !.task = t, !.copy = Marked(loop.todo[t], r)]]
             /\ t \notin raced' => \/ row[t] = None /\ row'[t] = None
                                   \/ row'[t] = Marked(loop.todo[t], r)
    BY <1>4
  <2>2. r \in Runs /\ Marked(loop.todo[t], r).status # "pending"
    BY <1>1, MarkedTyped DEF Unstarted
  <2>3. exec'[r].task = t /\ \A s \in Runs \ {r} : exec'[s] = exec[s]
    BY <2>1, <2>2 DEF Typed, TypeOK, NoRun
  <2>4. ASSUME NEW u \in Tasks \ raced', u # t
        PROVE  StartedLeaves(u)'
    <3>1. StartedLeaves(u)
      BY <1>1, <2>4 DEF Once
    <3>2. row'[u] = row[u] /\ loop'.todo[u] = loop.todo[u]
      BY <1>1, <1>2, <2>4
    <3>. QED  BY <2>2, <2>3, <2>4, <3>1, <3>2 DEF StartedLeaves, Started
  <2>5. t \notin raced' => StartedLeaves(t)'
    <3>1. SUFFICES ASSUME t \notin raced' PROVE StartedLeaves(t)'
      OBVIOUS
    <3>2. row'[t] = None \/ row'[t].status # "pending"
      BY <2>1, <2>2, <3>1
    <3>3. loop'.todo[t] = None
      BY <1>1, <1>2
    <3>4. loop.todo[t] # None
      BY NoneAssumption DEF MarkRunning, Typed, LoopTyped
    <3>5. ~Started(t)
      BY <1>1, <3>1, <3>4 DEF Once, StartedLeaves
    <3>. QED  BY <2>3, <3>2, <3>3, <3>5 DEF StartedLeaves, Started
  <2>. QED  BY <2>4, <2>5 DEF Once
<1>. QED  BY <1>3, <1>4, MarkEffect

LEMMA OnceLoop ==
    ASSUME Typed, Once,
           GetPending \/ (\E t \in Tasks : NextTask(t)) \/ TasksDone \/ LoopStops
    PROVE  Once'
<1>1. UNCHANGED <<row, exec, raced>>
  BY DEF GetPending, NextTask, TasksDone, LoopStops
<1>2. CASE GetPending
  <2>1. loop'.todo = [t \in Tasks |-> IF PendingAndDue(t) THEN row[t] ELSE None]
    BY <1>2 DEF GetPending, Typed, TypeOK
  <2>2. ASSUME NEW t \in Tasks \ raced, Started(t)
        PROVE  loop'.todo[t] = None
    BY <2>1, <2>2 DEF PendingAndDue, Once, StartedLeaves
  <2>. QED  BY <1>1, <2>2 DEF Once, StartedLeaves, Started
<1>3. CASE (\E t \in Tasks : NextTask(t)) \/ TasksDone \/ LoopStops
  <2>1. \A t \in Tasks : loop'.todo[t] \in {loop.todo[t], None}
    BY <1>3 DEF NextTask, TasksDone, LoopStops, LoopIdle, Typed, TypeOK
  <2>. QED  BY <1>1, <2>1, OnceFrame
<1>. QED  BY <1>2, <1>3

LEMMA OnceStep == Typed /\ Once /\ [Next]_vars => Once'
<1>. SUFFICES ASSUME Typed, Once, [Next]_vars PROVE Once'
  OBVIOUS
<1>1. CASE UNCHANGED vars
  BY <1>1, OnceFrame DEF vars
<1>2. ASSUME NEW e \in Editors, EditRead(e) \/ EditWrite(e) PROVE Once'
  BY <1>2, EditEffect, OnceFrame
<1>3. ASSUME NEW r \in Runs, ExecuteTask(r) PROVE Once'
  BY <1>3, ExecuteEffect, OnceFrame
<1>4. CASE Quit \/ Stopped \/ Crash \/ Restart
  BY <1>4, AppEffect, OnceFrame
<1>. QED
  BY <1>1, <1>2, <1>3, <1>4, OnceTable, OnceMark, OnceLoop DEF Next, ProcessPendingTasks

(* What starting a task leaves behind lasts: one goroutine of executeTask,  *)
(* a row that is not pending, and no copy of it in the loop's list.         *)
THEOREM OnceAlways == Spec => []Once
<1>1. Typed /\ Once /\ [Next]_vars => Once'
  BY OnceStep
<1>. QED  BY OnceInit, <1>1, TypedAlways, PTL DEF Spec

(* No task is carried out twice, whatever is edited, deleted, and created   *)
(* while the loop is at work, and however often the app crashes and starts  *)
(* again, unless an edit has overwritten the status of its row.             *)
THEOREM TaskStartedOnce == Spec => []StartedOnce
<1>1. Once => StartedOnce
  <2>. SUFFICES ASSUME Once, NEW t \in Tasks \ raced
                PROVE  Cardinality({r \in Runs : exec[r].task = t}) <= 1
    BY DEF StartedOnce
  <2>. DEFINE S == {r \in Runs : exec[r].task = t}
  <2>1. CASE S = {}
    BY <2>1, FS_EmptySet
  <2>2. CASE S # {}
    <3>1. PICK r \in Runs : r \in S
      BY <2>2
    <3>2. S = {r}
      BY <3>1 DEF Once, StartedLeaves
    <3>3. Cardinality(S) = 1
      BY <3>2, FS_Singleton
    <3>. QED  BY <3>3
  <2>. QED  BY <2>1, <2>2
<1>. QED  BY OnceAlways, <1>1, PTL

-----------------------------------------------------------------------------
(* A running task is marked.                                                *)

LEMMA MarkedInit == Init => RunningIsMarkedUnlessRaced
BY DEF Init, RunningIsMarkedUnlessRaced, IsMarked, Active, NoRun

(* A run that goes on stays marked if its row goes, or keeps its status and *)
(* its chat.                                                                *)
LEMMA MarkedFrame ==
    ASSUME RunningIsMarkedUnlessRaced, raced \subseteq raced', NEW r \in Runs,
           exec'[r].task = exec[r].task,
           Active(r)' => Active(r) /\ exec'[r].copy = exec[r].copy,
           Active(r)' /\ exec[r].task \notin raced' =>
             \/ row'[exec[r].task] = None
             \/ row'[exec[r].task] = row[exec[r].task]
             \/ /\ row[exec[r].task] # None
                /\ row'[exec[r].task].status = row[exec[r].task].status
                /\ row'[exec[r].task].chat = row[exec[r].task].chat
    PROVE  exec'[r].task \notin raced' => IsMarked(r)'
BY DEF RunningIsMarkedUnlessRaced, IsMarked

LEMMA MarkedTable ==
    ASSUME Typed, RunningIsMarkedUnlessRaced, NEW t \in Tasks, Table(t)
    PROVE  RunningIsMarkedUnlessRaced'
<1>1. UNCHANGED <<loop, exec, raced>>
  BY DEF Table, CreateScheduledTask, TimePasses, DeleteScheduledTask
<1>2. \A u \in Tasks \ {t} : row'[u] = row[u]
  BY DEF Table, CreateScheduledTask, TimePasses, DeleteScheduledTask, Typed, TypeOK
<1>3. \/ row'[t] = None
      \/ /\ row[t] # None
         /\ row'[t].status = row[t].status /\ row'[t].chat = row[t].chat
      \/ \A r \in Runs : exec[r].task # t
  <2>1. CASE CreateScheduledTask(t)
    BY <2>1 DEF CreateScheduledTask
  <2>2. CASE TimePasses(t)
    <3>1. row[t] \in Row /\ row[t] # None
      BY <2>2 DEF TimePasses, Typed, TypeOK
    <3>2. row'[t].status = row[t].status /\ row'[t].chat = row[t].chat
      BY <2>2, <3>1 DEF TimePasses, Typed, TypeOK, Row
    <3>. QED  BY <3>1, <3>2
  <2>3. CASE DeleteScheduledTask(t)
    BY <2>3 DEF DeleteScheduledTask, Typed, TypeOK
  <2>. QED  BY <2>1, <2>2, <2>3 DEF Table
<1>4. ASSUME NEW r \in Runs PROVE exec'[r].task \notin raced' => IsMarked(r)'
  <2>1. Active(r)' => Active(r) /\ exec[r].task \in Tasks
    BY <1>1 DEF Active, Typed, RunsTyped
  <2>. QED  BY <1>1, <1>2, <1>3, <2>1, MarkedFrame
<1>. QED  BY <1>4 DEF RunningIsMarkedUnlessRaced

LEMMA MarkedExecute ==
    ASSUME Typed, Once, RunningIsMarkedUnlessRaced, NEW r \in Runs, ExecuteTask(r)
    PROVE  RunningIsMarkedUnlessRaced'
<1>1. ASSUME NEW s \in Runs PROVE exec'[s].task \notin raced' => IsMarked(s)'
  <2>1. CASE s = r
    <3>1. Active(r)' => row' = row /\ exec'[r].copy = exec[r].copy
      BY ExecuteEffect
    <3>2. Active(r) /\ raced \subseteq raced' /\ exec'[r].task = exec[r].task
      BY ExecuteEffect
    <3>. QED  BY <2>1, <3>1, <3>2, MarkedFrame
  <2>2. CASE s # r
    <3>1. exec'[s] = exec[s] /\ raced \subseteq raced'
      BY <2>2, ExecuteEffect
    <3>2. Active(s)' => Active(s) /\ exec[s].task \in Tasks
      BY <3>1 DEF Active, Typed, RunsTyped
    <3>3. Active(s)' /\ exec[s].task \notin raced' => exec[s].task # exec[r].task
      BY <2>2, <3>1, <3>2 DEF Once, StartedLeaves
    <3>4. Active(s)' /\ exec[s].task \notin raced' => row'[exec[s].task] = row[exec[s].task]
      BY <3>2, <3>3, ExecuteEffect
    <3>. QED  BY <3>1, <3>2, <3>4, MarkedFrame
  <2>. QED  BY <2>1, <2>2
<1>. QED  BY <1>1 DEF RunningIsMarkedUnlessRaced

LEMMA MarkedMark ==
    ASSUME Typed, Once, Once', RunningIsMarkedUnlessRaced, NEW t \in Tasks, MarkRunning(t)
    PROVE  RunningIsMarkedUnlessRaced'
<1>1. /\ loop.todo[t] \in Row /\ raced \subseteq raced'
      /\ \A u \in Tasks \ {t} : row'[u] = row[u]
  BY MarkEffect
<1>2. CASE row' = row /\ exec' = exec
  BY <1>1, <1>2 DEF RunningIsMarkedUnlessRaced, IsMarked, Active
<1>3. CASE \E r \in Unstarted :
             /\ exec' = [exec EXCEPT ![r] =
                  [NoRun EXCEPT !.pc = "chat", !.task = t, !.copy = Marked(loop.todo[t], r)]]
             /\ t \notin raced' => \/ row[t] = None /\ row'[t] = None
                                   \/ row'[t] = Marked(loop.todo[t], r)
  <2>1. PICK r \in Unstarted :
             /\ exec' = [exec EXCEPT ![r] =
                  [NoRun EXCEPT !.pc = "chat", !.task = t, !.copy = Marked(loop.todo[t], r)]]
             /\ t \notin raced' => \/ row[t] = None /\ row'[t] = None
                                   \/ row'[t] = Marked(loop.todo[t], r)
    BY <1>3
  <2>2. /\ r \in Runs /\ Marked(loop.todo[t], r).status = "running"
        /\ Marked(loop.todo[t], r).chat \in Runs
    BY <1>1, MarkedTyped DEF Unstarted
  <2>3. /\ exec'[r].task = t /\ exec'[r].copy = Marked(loop.todo[t], r)
        /\ \A s \in Runs \ {r} : exec'[s] = exec[s]
    BY <2>1, <2>2 DEF Typed, TypeOK, NoRun
  <2>4. exec'[r].task \notin raced' => IsMarked(r)'
    BY <2>1, <2>2, <2>3 DEF IsMarked
  <2>5. ASSUME NEW s \in Runs \ {r}, exec'[s].task \notin raced' PROVE IsMarked(s)'
    <3>1. Active(s)' => Active(s) /\ exec[s].task \in Tasks
      BY <2>3 DEF Active, Typed, RunsTyped
    <3>2. Active(s)' => exec[s].task # t
      BY <2>2, <2>3, <2>5, <3>1 DEF Once, StartedLeaves
    <3>3. Active(s)' => row'[exec[s].task] = row[exec[s].task]
      BY <1>1, <3>1, <3>2
    <3>. QED  BY <1>1, <2>3, <2>5, <3>1, <3>3, MarkedFrame
  <2>. QED  BY <2>4, <2>5 DEF RunningIsMarkedUnlessRaced
<1>. QED  BY <1>2, <1>3, MarkEffect

LEMMA MarkedStep ==
    Typed /\ Once /\ RunningIsMarkedUnlessRaced /\ [Next]_vars => RunningIsMarkedUnlessRaced'
<1>. SUFFICES ASSUME Typed, Once, RunningIsMarkedUnlessRaced, [Next]_vars
              PROVE  RunningIsMarkedUnlessRaced'
  OBVIOUS
<1>1. Once'
  BY OnceStep
<1>2. CASE UNCHANGED <<row, exec, raced>>
  BY <1>2 DEF RunningIsMarkedUnlessRaced, IsMarked, Active
<1>3. ASSUME NEW e \in Editors, EditRead(e) \/ EditWrite(e)
      PROVE  RunningIsMarkedUnlessRaced'
  <2>1. ASSUME NEW r \in Runs PROVE exec'[r].task \notin raced' => IsMarked(r)'
    <3>1. Active(r)' => Active(r) /\ exec[r].task \in Tasks
      BY <1>3, EditEffect DEF Active, Typed, RunsTyped
    <3>. QED  BY <1>3, <3>1, EditEffect, MarkedFrame
  <2>. QED  BY <2>1 DEF RunningIsMarkedUnlessRaced
<1>4. CASE Quit \/ Stopped \/ Crash \/ Restart
  <2>1. ASSUME NEW r \in Runs PROVE exec'[r].task \notin raced' => IsMarked(r)'
    <3>1. Active(r)' => Active(r) /\ exec'[r].copy = exec[r].copy
      BY <1>4, AppEffect DEF Active
    <3>. QED  BY <1>4, <3>1, AppEffect, MarkedFrame
  <2>. QED  BY <2>1 DEF RunningIsMarkedUnlessRaced
<1>5. GetPending \/ (\E t \in Tasks : NextTask(t)) \/ TasksDone \/ LoopStops
        => UNCHANGED <<row, exec, raced>>
  BY DEF GetPending, NextTask, TasksDone, LoopStops
<1>. QED
  BY <1>1, <1>2, <1>3, <1>4, <1>5, MarkedTable, MarkedExecute, MarkedMark
     DEF Next, ProcessPendingTasks, vars

(* The row of a task that is being carried out says so and names its chat,  *)
(* from the UPDATE before the goroutine starts to the one at its end, unless*)
(* the task is deleted or an edit has overwritten the row.                  *)
THEOREM TaskIsMarked == Spec => []RunningIsMarkedUnlessRaced
<1>1. Typed /\ Once /\ RunningIsMarkedUnlessRaced /\ [Next]_vars => RunningIsMarkedUnlessRaced'
  BY MarkedStep
<1>. QED  BY MarkedInit, <1>1, TypedAlways, OnceAlways, PTL DEF Spec
=============================================================================
