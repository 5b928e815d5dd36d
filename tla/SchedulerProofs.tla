--------------------------- MODULE SchedulerProofs ---------------------------
(***************************************************************************)
(* Theorems about Scheduler, for every number of requests, models and      *)
(* runners and every value of the limits.                                  *)
(*                                                                         *)
(* Two layers.  Typed is inductive on its own: types, which states of a    *)
(* request carry a model or a runner, and that the requests in the queue   *)
(* and in processPending's hands are distinct.  Loading is inductive given *)
(* Typed: who owns activeLoading, and what processPending may rely on      *)
(* between the snapshot that decided to load and the section that installs *)
(* the runner.  Two more, further down, are about the reference counts,    *)
(* and with them every step is one of ModelService, or none.               *)
(***************************************************************************)
EXTENDS Scheduler, FiniteSetTheorems, TLAPS

-----------------------------------------------------------------------------
(* The first layer.                                                         *)

(* A request past getRunner has a model; one that was or is about to be     *)
(* given a runner has a runner.                                             *)
RequestsTyped ==
    \A q \in Requests :
      /\ req[q].state # "new" => req[q].model \in Models
      /\ req[q].state \in {"checking", "using", "loading", "served"}
           => req[q].runner \in Runners

(* Each queued request is queued once, and is in state "queued".            *)
QueueDistinct ==
    /\ \A i \in 1 .. Len(pendingReqCh) : req[pendingReqCh[i]].state = "queued"
    /\ \A i, j \in 1 .. Len(pendingReqCh) :
         i # j => pendingReqCh[i] # pendingReqCh[j]

(* The request processPending is working on has left the queue.             *)
PendingTyped ==
    p.pc \notin {"idle", "stopped"} =>
      /\ p.cur \in Requests
      /\ req[p.cur].state = "queued"
      /\ \A i \in 1 .. Len(pendingReqCh) : pendingReqCh[i] # p.cur

(* While it loads it has a server; while it expires or waits it has        *)
(* something left to expire or to wait for.                                 *)
PendingWork ==
    /\ p.pc = "loading" => p.llama \in Runners
    /\ IsFiniteSet(p.targets)
    /\ p.pc = "expire" => p.todo # {} /\ p.todo \subseteq p.targets
    /\ p.pc = "wait" => p.need > 0

Typed == TypeOK /\ RequestsTyped /\ QueueDistinct /\ PendingTyped /\ PendingWork

(* The set of loaded runners is finite because that of models is.           *)
LEMMA LoadedFinite ==
    ASSUME TypeOK
    PROVE  /\ IsFiniteSet(Loaded) /\ IsFiniteSet(LoadedRunners)
           /\ LoadedRunners \subseteq Runners
<1>1. IsFiniteSet(Loaded)
  BY FiniteAssumption, FS_Subset DEF Loaded
<1>2. LoadedRunners \subseteq Runners
  BY DEF LoadedRunners, Loaded, TypeOK
<1>3. IsFiniteSet(LoadedRunners)
  <2>. DEFINE f == [m \in Loaded |-> loaded[m]]
  <2>1. f \in Surjection(Loaded, LoadedRunners)
    BY DEF LoadedRunners, Surjection
  <2>. QED  BY <1>1, <2>1, FS_Surjection
<1>. QED  BY <1>1, <1>2, <1>3

LEMMA PendingIdleTyped ==
    /\ PendingIdle \in PendingRecord
    /\ [PendingIdle EXCEPT !.pc = "stopped"] \in PendingRecord
    /\ PendingIdle.pc = "idle" /\ PendingIdle.targets = {} /\ IsFiniteSet({})
BY FS_EmptySet DEF PendingIdle, PendingRecord

LEMMA TypedInit == Init => Typed
<1>. SUFFICES ASSUME Init PROVE Typed
  OBVIOUS
<1>. USE DEF Init
<1>1. TypeOK
  <2>1. runner \in [Runners -> RunnerRecord]
    BY RefCountAssumption DEF NoRunner, RunnerRecord, Durations, Zero
  <2>2. req \in [Requests -> RequestRecord]
    BY DEF NoRequest, RequestRecord, Unset
  <2>3. p \in PendingRecord
    BY DEF PendingIdle, PendingRecord
  <2>. QED  BY <2>1, <2>2, <2>3, BudgetAssumption DEF TypeOK, CompletedIdle
<1>2. RequestsTyped /\ QueueDistinct
  BY DEF RequestsTyped, QueueDistinct, NoRequest
<1>3. PendingTyped /\ PendingWork
  BY FS_EmptySet DEF PendingTyped, PendingWork, PendingIdle
<1>. QED  BY <1>1, <1>2, <1>3 DEF Typed

(* What the helpers do to the two record-valued variables.                  *)
LEMMA CountsTyped ==
    ASSUME NEW n \in 0 .. RefCountMod - 1
    PROVE  /\ Referenced(n) \in 0 .. RefCountMod - 1
           /\ Dereferenced(n) \in 0 .. RefCountMod - 1
BY RefCountAssumption DEF Referenced, Dereferenced

LEMMA UnloadTyped ==
    ASSUME NEW r \in RunnerRecord
    PROVE  /\ Unload(r) \in RunnerRecord
           /\ Unload(r).model = r.model
           /\ Unload(r).proc = "closed"
           /\ [Unload(r) EXCEPT !.refMu = "completed"] \in RunnerRecord
BY DEF RunnerRecord, Unload

LEMMA UseLoadedRunnerTyped ==
    ASSUME TypeOK, NEW q \in Requests, NEW x \in Runners, UseLoadedRunner(q, x)
    PROVE  /\ runner' \in [Runners -> RunnerRecord]
           /\ \A y \in Runners : runner'[y].model = runner[y].model
           /\ \A y \in Runners : runner'[y].proc = runner[y].proc
           /\ req' \in [Requests -> RequestRecord]
           /\ req'[q].state = "served" /\ req'[q].runner = x
           /\ req'[q].replies = req[q].replies + 1
           /\ \A r \in Requests : req'[r].model = req[r].model
           /\ \A r \in Requests \ {q} : req'[r] = req[r]
<1>. DEFINE r == [runner[x] EXCEPT
                    !.refCount = Referenced(@), !.armed = FALSE,
                    !.duration = IF req[q].keepAlive = Unset THEN @ ELSE req[q].keepAlive]
<1>1. runner[x] \in RunnerRecord /\ req[q] \in RequestRecord
  BY DEF TypeOK
<1>2. Referenced(runner[x].refCount) \in 0 .. RefCountMod - 1
  BY <1>1, CountsTyped DEF RunnerRecord
<1>3. /\ r \in RunnerRecord
      /\ r.model = runner[x].model /\ r.proc = runner[x].proc
  BY <1>1, <1>2 DEF RunnerRecord, RequestRecord
<1>4. runner' = [runner EXCEPT ![x] = r]
  BY DEF UseLoadedRunner
<1>5. /\ runner' \in [Runners -> RunnerRecord]
      /\ \A y \in Runners : runner'[y].model = runner[y].model
      /\ \A y \in Runners : runner'[y].proc = runner[y].proc
  BY <1>3, <1>4 DEF TypeOK
<1>6. runner[x].options \in BOOLEAN
  BY <1>1 DEF RunnerRecord
<1>. DEFINE s == [req[q] EXCEPT !.state = "served", !.runner = x,
                               !.replies = @ + 1, !.stale = ~runner[x].options]
<1>7. req' \in [Requests -> RequestRecord]
  <2>1. req[q].replies + 1 \in Nat
    BY <1>1 DEF RequestRecord
  <2>2. s \in RequestRecord
    BY <1>1, <1>6, <2>1 DEF RequestRecord
  <2>3. req' = [req EXCEPT ![q] = s]
    BY DEF UseLoadedRunner
  <2>. QED  BY <2>2, <2>3 DEF TypeOK
<1>8. /\ req'[q].state = "served" /\ req'[q].runner = x
      /\ req'[q].replies = req[q].replies + 1
      /\ \A t \in Requests : req'[t].model = req[t].model
      /\ \A t \in Requests \ {q} : req'[t] = req[t]
  BY DEF UseLoadedRunner, TypeOK, RequestRecord
<1>. QED  BY <1>5, <1>7, <1>8

LEMMA ExpireNowTyped ==
    ASSUME TypeOK, NEW x \in Runners, ExpireNow(x)
    PROVE  /\ runner' \in [Runners -> RunnerRecord]
           /\ \A y \in Runners : runner'[y].model = runner[y].model
           /\ \A y \in Runners : runner'[y].proc = runner[y].proc
           /\ expiredCh' \in Seq(Runners)
<1>. DEFINE r == [runner[x] EXCEPT !.armed = FALSE, !.duration = Zero]
<1>1. r \in RunnerRecord /\ r.model = runner[x].model /\ r.proc = runner[x].proc
  <2>1. runner[x] \in RunnerRecord
    BY DEF TypeOK
  <2>2. r \in RunnerRecord /\ r.model = runner[x].model /\ r.proc = runner[x].proc
    BY <2>1 DEF RunnerRecord, Durations
  <2>. QED  BY <2>2
<1>2. runner' = [runner EXCEPT ![x] = r]
  BY DEF ExpireNow
<1>3. expiredCh' \in Seq(Runners)
  BY DEF ExpireNow, TypeOK
<1>. HIDE DEF r
<1>. QED  BY <1>1, <1>2, <1>3 DEF TypeOK

LEMMA FailTyped ==
    ASSUME TypeOK, NEW q \in Requests, Fail(q)
    PROVE  /\ req' \in [Requests -> RequestRecord]
           /\ req'[q].state = "failed"
           /\ req'[q].replies = req[q].replies + 1
           /\ \A r \in Requests : req'[r].model = req[r].model
           /\ \A r \in Requests \ {q} : req'[r] = req[r]
<1>. DEFINE s == [req[q] EXCEPT !.state = "failed", !.replies = @ + 1]
<1>1. req[q] \in RequestRecord
  BY DEF TypeOK
<1>. req[q].replies + 1 \in Nat
  BY <1>1 DEF RequestRecord
<1>2. s \in RequestRecord /\ s.model = req[q].model
  BY <1>1 DEF RequestRecord
<1>3. req' = [req EXCEPT ![q] = s]
  BY DEF Fail
<1>. QED  BY <1>2, <1>3 DEF TypeOK

LEMMA CloseActiveTyped ==
    ASSUME TypeOK, CloseActive
    PROVE  /\ runner' \in [Runners -> RunnerRecord]
           /\ activeLoading \in Runners
           /\ runner'[activeLoading].proc = "closed"
           /\ \A y \in Runners : runner'[y].model = runner[y].model
           /\ \A y \in Runners \ {activeLoading} : runner'[y] = runner[y]
           /\ activeLoading' = None
<1>. DEFINE r == [runner[activeLoading] EXCEPT !.proc = "closed"]
<1>1. activeLoading \in Runners /\ activeLoading' = None
  BY DEF CloseActive, TypeOK
<1>2. runner[activeLoading] \in RunnerRecord
  BY <1>1 DEF TypeOK
<1>3. r \in RunnerRecord /\ r.proc = "closed" /\ r.model = runner[activeLoading].model
  BY <1>2 DEF RunnerRecord
<1>4. runner' = [runner EXCEPT ![activeLoading] = r]
  BY DEF CloseActive
<1>. HIDE DEF r
<1>. QED  BY <1>1, <1>3, <1>4 DEF TypeOK

(* A request outside the queue and outside processPending's hands may       *)
(* change without disturbing either.                                        *)
LEMMA QueueFrame ==
    ASSUME Typed, NEW q \in Requests, req[q].state # "queued",
           \A r \in Requests \ {q} : req'[r] = req[r],
           UNCHANGED <<pendingReqCh, p>>
    PROVE  QueueDistinct' /\ PendingTyped' /\ PendingWork'
<1>1. \A i \in 1 .. Len(pendingReqCh) : pendingReqCh[i] \in Requests \ {q}
  BY DEF Typed, TypeOK, QueueDistinct
<1>2. QueueDistinct'
  BY <1>1 DEF Typed, QueueDistinct
<1>3. PendingTyped'
  BY DEF Typed, PendingTyped
<1>4. PendingWork'
  BY DEF Typed, PendingWork
<1>. QED  BY <1>2, <1>3, <1>4

(* Nor does a step that changes no request, nor the queue, nor p.           *)
LEMMA RequestsFrame ==
    ASSUME Typed, UNCHANGED <<req, pendingReqCh, p>>
    PROVE  RequestsTyped' /\ QueueDistinct' /\ PendingTyped' /\ PendingWork'
BY DEF Typed, RequestsTyped, QueueDistinct, PendingTyped, PendingWork

(* A step of processPending that keeps its request.                         *)
LEMMA PendingFrame ==
    ASSUME Typed, UNCHANGED <<req, pendingReqCh>>,
           p'.pc \notin {"idle", "stopped"}
             => p.pc \notin {"idle", "stopped"} /\ p'.cur = p.cur
    PROVE  RequestsTyped' /\ QueueDistinct' /\ PendingTyped'
BY DEF Typed, RequestsTyped, QueueDistinct, PendingTyped

(* The handlers.                                                            *)
LEMMA HandlerTyped ==
    ASSUME Typed, NEW q \in Requests, Handler(q)
    PROVE  Typed'
<1>. USE DEF table, chans, env
<1>1. CASE GetRunner(q)
  <2>. USE <1>1 DEF GetRunner
  <2>1. PICK m \in Models, d \in KeepAlives :
          req' = [req EXCEPT
            ![q].model = m, ![q].keepAlive = d, ![q].runner = loaded[m],
            ![q].state = IF loaded[m] = None THEN "enqueue" ELSE "checking"]
    OBVIOUS
  <2>2. /\ req[q] \in RequestRecord /\ d \in Durations \cup {Unset}
        /\ loaded[m] \in Runners \cup {None}
    BY KeepAliveAssumption DEF Typed, TypeOK
  <2>. DEFINE s == [req[q] EXCEPT !.model = m, !.keepAlive = d, !.runner = loaded[m],
                      !.state = IF loaded[m] = None THEN "enqueue" ELSE "checking"]
  <2>3. s \in RequestRecord
    BY <2>2 DEF RequestRecord
  <2>4. req' = [req EXCEPT ![q] = s]
    BY <2>1
  <2>5. TypeOK'
    BY <2>3, <2>4 DEF Typed, TypeOK
  <2>6. s.model \in Models /\ (s.state = "checking" => s.runner \in Runners)
    BY <2>2 DEF RequestRecord
  <2>7. RequestsTyped'
    BY <2>4, <2>6 DEF Typed, TypeOK, RequestsTyped, RequestRecord
  <2>8. QueueDistinct' /\ PendingTyped' /\ PendingWork'
    BY <2>4, QueueFrame DEF Typed, TypeOK
  <2>. QED  BY <2>5, <2>7, <2>8 DEF Typed
<1>2. CASE CheckRunner(q)
  <2>. USE <1>2 DEF CheckRunner
  <2>1. PICK reload \in NeedsReload(req[q].runner) :
          req' = [req EXCEPT ![q].state = IF reload THEN "enqueue" ELSE "using",
                             ![q].runner = IF reload THEN None ELSE @]
    OBVIOUS
  <2>2. req[q] \in RequestRecord
    BY DEF Typed, TypeOK
  <2>. DEFINE s == [req[q] EXCEPT !.state = IF reload THEN "enqueue" ELSE "using",
                                  !.runner = IF reload THEN None ELSE @]
  <2>3. s \in RequestRecord
    BY <2>2 DEF RequestRecord
  <2>4. req' = [req EXCEPT ![q] = s]
    BY <2>1
  <2>5. TypeOK'
    BY <2>3, <2>4 DEF Typed, TypeOK
  <2>6. s.model \in Models /\ (s.state = "using" => s.runner \in Runners)
    BY <2>2 DEF RequestRecord, Typed, RequestsTyped
  <2>7. RequestsTyped'
    BY <2>4, <2>6 DEF Typed, TypeOK, RequestsTyped, RequestRecord
  <2>8. QueueDistinct' /\ PendingTyped' /\ PendingWork'
    BY <2>4, QueueFrame DEF Typed, TypeOK
  <2>. QED  BY <2>5, <2>7, <2>8 DEF Typed
<1>3. CASE UseRunner(q)
  <2>. USE <1>3 DEF UseRunner
  <2>1. req[q].runner \in Runners /\ TypeOK
    BY DEF Typed, RequestsTyped
  <2>2. TypeOK'
    BY <2>1, UseLoadedRunnerTyped DEF TypeOK
  <2>3. RequestsTyped'
    BY <2>1, UseLoadedRunnerTyped DEF Typed, RequestsTyped
  <2>4. QueueDistinct' /\ PendingTyped' /\ PendingWork'
    BY <2>1, UseLoadedRunnerTyped, QueueFrame
  <2>. QED  BY <2>2, <2>3, <2>4 DEF Typed
<1>4. CASE Enqueue(q)
  <2>. USE <1>4 DEF Enqueue
  <2>0. TypeOK
    BY DEF Typed
  <2>1. CASE Fail(q) /\ UNCHANGED pendingReqCh
    <3>. USE <2>1
    <3>1. TypeOK'
      BY <2>0, FailTyped DEF TypeOK
    <3>2. RequestsTyped'
      BY <2>0, FailTyped DEF Typed, RequestsTyped
    <3>3. QueueDistinct' /\ PendingTyped' /\ PendingWork'
      BY <2>0, FailTyped, QueueFrame
    <3>. QED  BY <3>1, <3>2, <3>3 DEF Typed
  <2>2. CASE /\ pendingReqCh' = Append(pendingReqCh, q)
             /\ req' = [req EXCEPT ![q].state = "queued"]
    <3>. USE <2>2
    <3>1. /\ req' \in [Requests -> RequestRecord]
          /\ req'[q].state = "queued" /\ req'[q].model = req[q].model
          /\ \A r \in Requests \ {q} : req'[r] = req[r]
      <4>. DEFINE s == [req[q] EXCEPT !.state = "queued"]
      <4>1. req[q] \in RequestRecord
        BY <2>0 DEF TypeOK
      <4>2. s \in RequestRecord /\ s.state = "queued" /\ s.model = req[q].model
        BY <4>1 DEF RequestRecord
      <4>3. req' = [req EXCEPT ![q] = s]
        OBVIOUS
      <4>. HIDE DEF s
      <4>. QED  BY <2>0, <4>2, <4>3 DEF TypeOK
    <3>2. TypeOK'
      BY <2>0, <3>1 DEF TypeOK
    <3>3. RequestsTyped'
      BY <3>1 DEF Typed, RequestsTyped
    <3>4. /\ \A i \in 1 .. Len(pendingReqCh) : pendingReqCh[i] \in Requests \ {q}
          /\ Len(pendingReqCh) \in Nat
      BY <2>0 DEF Typed, TypeOK, QueueDistinct
    <3>5. /\ Len(pendingReqCh') = Len(pendingReqCh) + 1
          /\ pendingReqCh'[Len(pendingReqCh) + 1] = q
          /\ \A i \in 1 .. Len(pendingReqCh) : pendingReqCh'[i] = pendingReqCh[i]
      BY <2>0 DEF TypeOK
    <3>6. QueueDistinct'
      BY <3>1, <3>4, <3>5 DEF Typed, QueueDistinct
    <3>7. PendingTyped'
      BY <3>1, <3>4, <3>5 DEF Typed, PendingTyped
    <3>8. PendingWork'
      BY DEF Typed, PendingWork
    <3>. QED  BY <3>2, <3>3, <3>6, <3>7, <3>8 DEF Typed
  <2>. QED  BY <2>1, <2>2
<1>. QED  BY <1>1, <1>2, <1>3, <1>4 DEF Handler

(* The end of a context, and the load goroutine.                            *)
LEMMA RequestTyped ==
    ASSUME Typed, NEW q \in Requests, ContextDone(q) \/ Loader(q)
    PROVE  Typed'
<1>. USE DEF table, chans, env
<1>0. TypeOK
  BY DEF Typed
<1>1. CASE ContextDone(q)
  <2>. USE <1>1 DEF ContextDone
  <2>. DEFINE s == [req[q] EXCEPT !.done = TRUE]
  <2>1. req[q] \in RequestRecord
    BY <1>0 DEF TypeOK
  <2>2. /\ s \in RequestRecord
        /\ s.state = req[q].state /\ s.model = req[q].model /\ s.runner = req[q].runner
    BY <2>1 DEF RequestRecord
  <2>3. req' = [req EXCEPT ![q] = s]
    OBVIOUS
  <2>4. \A r \in Requests : /\ req'[r].state = req[r].state
                            /\ req'[r].model = req[r].model
                            /\ req'[r].runner = req[r].runner
    BY <1>0, <2>2, <2>3 DEF TypeOK
  <2>5. TypeOK' /\ RequestsTyped'
    BY <2>2, <2>3, <2>4 DEF Typed, TypeOK, RequestsTyped
  <2>6. \A i \in 1 .. Len(pendingReqCh) : pendingReqCh[i] \in Requests
    BY <1>0 DEF TypeOK
  <2>7. QueueDistinct' /\ PendingTyped' /\ PendingWork'
    BY <2>4, <2>6 DEF Typed, QueueDistinct, PendingTyped, PendingWork
  <2>. QED  BY <2>5, <2>7 DEF Typed
<1>2. CASE LoaderReady(q)
  <2>. USE <1>2 DEF LoaderReady
  <2>. DEFINE x == req[q].runner
              r == [runner[x] EXCEPT !.refCount = Referenced(@), !.refMu = "free"]
              s == [req[q] EXCEPT !.state = "served", !.replies = @ + 1]
  <2>1. x \in Runners /\ runner[x] \in RunnerRecord /\ req[q] \in RequestRecord
    BY <1>0 DEF Typed, RequestsTyped, TypeOK
  <2>2. Referenced(runner[x].refCount) \in 0 .. RefCountMod - 1
    BY <2>1, CountsTyped DEF RunnerRecord
  <2>3. r \in RunnerRecord
    BY <2>1, <2>2 DEF RunnerRecord
  <2>4. req[q].replies + 1 \in Nat
    BY <2>1 DEF RequestRecord
  <2>5. s \in RequestRecord /\ s.model = req[q].model /\ s.runner = req[q].runner
    BY <2>1, <2>4 DEF RequestRecord
  <2>6. runner' = [runner EXCEPT ![x] = r] /\ req' = [req EXCEPT ![q] = s]
    OBVIOUS
  <2>7. TypeOK'
    <3>1. runner' \in [Runners -> RunnerRecord]
      BY <1>0, <2>1, <2>3, <2>6 DEF TypeOK
    <3>2. req' \in [Requests -> RequestRecord]
      BY <1>0, <2>5, <2>6 DEF TypeOK
    <3>. QED  BY <1>0, <3>1, <3>2 DEF TypeOK
  <2>8. RequestsTyped'
    BY <1>0, <2>5, <2>6 DEF Typed, RequestsTyped, TypeOK
  <2>9. QueueDistinct' /\ PendingTyped' /\ PendingWork'
    BY <1>0, <2>6, QueueFrame DEF TypeOK
  <2>. QED  BY <2>7, <2>8, <2>9 DEF Typed
<1>3. CASE LoaderFailed(q)
  <2>. USE <1>3 DEF LoaderFailed
  <2>. DEFINE x == req[q].runner
              r == [runner[x] EXCEPT !.refMu = "free"]
  <2>1. x \in Runners /\ runner[x] \in RunnerRecord /\ req[q].state = "loading"
    BY <1>0 DEF Typed, RequestsTyped, TypeOK
  <2>2. r \in RunnerRecord
    BY <2>1 DEF RunnerRecord
  <2>3. runner' = [runner EXCEPT ![x] = r] /\ expiredCh' = Append(expiredCh, x)
    OBVIOUS
  <2>4. TypeOK'
    BY <1>0, <2>1, <2>2, <2>3, FailTyped DEF TypeOK
  <2>5. RequestsTyped'
    BY <1>0, FailTyped DEF Typed, RequestsTyped
  <2>6. QueueDistinct' /\ PendingTyped' /\ PendingWork'
    BY <1>0, <2>1, FailTyped, QueueFrame
  <2>. QED  BY <2>4, <2>5, <2>6 DEF Typed
<1>. QED  BY <1>1, <1>2, <1>3 DEF Loader

(* Steps of processPending that do not load.                                *)
LEMMA SchedulingTyped ==
    ASSUME Typed,
           \/ TakePending \/ IgnoreUnloaded \/ Snapshot \/ CheckLoaded \/ UseLoaded
           \/ FindRunnerToUnload \/ EvictAll \/ ExpireTarget \/ WaitUnloaded
           \/ StopPending
    PROVE  Typed'
<1>. USE DEF table, chans, env
<1>0. TypeOK /\ p \in PendingRecord
  BY DEF Typed, TypeOK
<1>1. CASE TakePending
  <2>. USE <1>1 DEF TakePending
  <2>. DEFINE q == Head(pendingReqCh)
  <2>1. /\ q = pendingReqCh[1] /\ q \in Requests
        /\ Len(pendingReqCh) \in Nat \ {0}
        /\ \A i \in 1 .. Len(pendingReqCh) : pendingReqCh[i] \in Requests
        /\ pendingReqCh' \in Seq(Requests)
        /\ Len(pendingReqCh') = Len(pendingReqCh) - 1
        /\ \A i \in 1 .. Len(pendingReqCh') : pendingReqCh'[i] = pendingReqCh[i + 1]
    BY <1>0 DEF TypeOK
  <2>2. req[q].state = "queued" /\ req[q].model \in Models
    BY <2>1 DEF Typed, QueueDistinct, RequestsTyped
  <2>3. \A i \in 1 .. Len(pendingReqCh') :
          pendingReqCh'[i] \in Requests \ {q} /\ req[pendingReqCh'[i]].state = "queued"
    BY <2>1 DEF Typed, QueueDistinct
  <2>4. \A i, j \in 1 .. Len(pendingReqCh') :
          i # j => pendingReqCh'[i] # pendingReqCh'[j]
    BY <2>1 DEF Typed, QueueDistinct
  <2>5. CASE req[q].done /\ req' = [req EXCEPT ![q].state = "finished"] /\ UNCHANGED p
    <3>. USE <2>5
    <3>. DEFINE s == [req[q] EXCEPT !.state = "finished"]
    <3>0. s \in RequestRecord /\ s.model = req[q].model
      <4>1. req[q] \in RequestRecord
        BY <1>0, <2>1 DEF TypeOK
      <4>. QED  BY <4>1 DEF RequestRecord
    <3>1. /\ req' \in [Requests -> RequestRecord]
          /\ req'[q].state = "finished" /\ req'[q].model = req[q].model
          /\ \A r \in Requests \ {q} : req'[r] = req[r]
      <4>1. req' = [req EXCEPT ![q] = s]
        OBVIOUS
      <4>. QED  BY <1>0, <2>1, <3>0, <4>1 DEF TypeOK
    <3>2. TypeOK'
      BY <1>0, <2>1, <3>1 DEF TypeOK
    <3>3. RequestsTyped'
      BY <2>2, <3>1 DEF Typed, RequestsTyped
    <3>4. QueueDistinct'
      BY <2>3, <2>4, <3>1 DEF QueueDistinct
    <3>5. PendingTyped' /\ PendingWork'
      BY DEF Typed, PendingTyped, PendingWork
    <3>. QED  BY <3>2, <3>3, <3>4, <3>5 DEF Typed
  <2>6. CASE p' = [p EXCEPT !.pc = "top", !.cur = q] /\ UNCHANGED req
    <3>. USE <2>6
    <3>1. /\ p' \in PendingRecord /\ p'.pc = "top" /\ p'.cur = q
          /\ p'.targets = p.targets /\ p'.todo = p.todo
      BY <1>0, <2>1 DEF PendingRecord
    <3>2. TypeOK' /\ RequestsTyped'
      BY <1>0, <2>1, <3>1 DEF Typed, TypeOK, RequestsTyped
    <3>3. QueueDistinct'
      BY <2>3, <2>4 DEF QueueDistinct
    <3>4. PendingTyped' /\ PendingWork'
      BY <2>1, <2>2, <2>3, <3>1 DEF Typed, PendingTyped, PendingWork
    <3>. QED  BY <3>2, <3>3, <3>4 DEF Typed
  <2>. QED  BY <2>5, <2>6
<1>2. CASE IgnoreUnloaded
  <2>. USE <1>2 DEF IgnoreUnloaded
  <2>1. TypeOK'
    BY <1>0 DEF TypeOK
  <2>. QED  BY <2>1, RequestsFrame DEF Typed
<1>3. CASE Snapshot
  <2>. USE <1>3 DEF Snapshot
  <2>0. loaded[req[p.cur].model] \in Runners \cup {None}
    BY <1>0 DEF Typed, TypeOK, PendingTyped, RequestsTyped
  <2>1. /\ p' \in PendingRecord /\ p'.cur = p.cur /\ p.pc = "top"
        /\ p'.pc \in {"check", "find", "load"}
        /\ p'.targets = {} \/ p'.targets = {loaded[req[p.cur].model]}
    <3>. DEFINE x == loaded[req[p.cur].model]
                next == [p EXCEPT !.targets = {}, !.evicting = FALSE]
                full == Loaded # {}
    <3>1. next \in PendingRecord /\ next.cur = p.cur /\ next.targets = {}
      BY <1>0 DEF PendingRecord
    <3>2. \/ x \in Runners /\ p' = [next EXCEPT !.pc = "check", !.targets = {x}]
          \/ p' = [next EXCEPT !.pc = "find"]
          \/ p' = [next EXCEPT !.pc = "load", !.full = full]
      BY <2>0
    <3>3. full \in BOOLEAN /\ p.pc = "top"
      OBVIOUS
    <3>. HIDE DEF x, next, full
    <3>4. /\ p' \in PendingRecord /\ p'.cur = p.cur
          /\ p'.pc \in {"check", "find", "load"}
          /\ p'.targets = {} \/ p'.targets = {x}
      <4>1. CASE x \in Runners /\ p' = [next EXCEPT !.pc = "check", !.targets = {x}]
        <5>1. {x} \in SUBSET Runners
          BY <4>1
        <5>. DEFINE t == {x}
        <5>2. p' = [next EXCEPT !.pc = "check", !.targets = t]
          BY <4>1
        <5>. HIDE DEF t
        <5>3. p' \in PendingRecord /\ p'.cur = p.cur /\ p'.pc = "check" /\ p'.targets = t
          BY <3>1, <5>1, <5>2 DEF PendingRecord, t
        <5>. QED  BY <5>3 DEF t
      <4>2. CASE p' = [next EXCEPT !.pc = "find"]
        BY <3>1, <4>2 DEF PendingRecord
      <4>3. CASE p' = [next EXCEPT !.pc = "load", !.full = full]
        BY <3>1, <3>3, <4>3 DEF PendingRecord
      <4>. QED  BY <3>2, <4>1, <4>2, <4>3
    <3>. QED  BY <3>3, <3>4 DEF x
  <2>2. IsFiniteSet(p'.targets)
    <3>1. IsFiniteSet({}) /\ IsFiniteSet({loaded[req[p.cur].model]})
      BY FS_EmptySet, FS_Singleton
    <3>. QED  BY <2>1, <3>1
  <2>3. TypeOK' /\ PendingWork'
    BY <1>0, <2>1, <2>2 DEF TypeOK, PendingWork
  <2>. QED  BY <2>1, <2>3, PendingFrame DEF Typed
<1>4. CASE CheckLoaded
  <2>. USE <1>4 DEF CheckLoaded
  <2>1. PICK x \in p.targets :
          \/ p' = [p EXCEPT !.pc = "expire", !.todo = {x}]
          \/ p' = [p EXCEPT !.pc = "use"]
    OBVIOUS
  <2>2. x \in Runners
    BY <1>0 DEF PendingRecord
  <2>3. /\ p' \in PendingRecord /\ p'.cur = p.cur /\ p.pc = "check"
        /\ p'.targets = p.targets
        /\ p'.pc = "use" \/ (p'.pc = "expire" /\ p'.todo = {x})
    <3>1. CASE p' = [p EXCEPT !.pc = "expire", !.todo = {x}]
      BY <1>0, <2>2, <3>1 DEF PendingRecord
    <3>2. CASE p' = [p EXCEPT !.pc = "use"]
      BY <1>0, <3>2 DEF PendingRecord
    <3>. QED  BY <2>1, <3>1, <3>2
  <2>4. TypeOK' /\ PendingWork'
    BY <1>0, <2>3 DEF Typed, TypeOK, PendingWork
  <2>. QED  BY <2>3, <2>4, PendingFrame DEF Typed
<1>5. CASE UseLoaded
  <2>0. /\ p.pc = "use" /\ p' = PendingIdle
        /\ UNCHANGED <<table, chans, c, env>>
    BY <1>5 DEF UseLoaded
  <2>1. PICK x \in p.targets : UseLoadedRunner(p.cur, x)
    BY <1>5 DEF UseLoaded
  <2>2. p.cur \in Requests /\ x \in Runners
    BY <1>0, <2>0 DEF Typed, PendingTyped, PendingRecord
  <2>3. TypeOK'
    <3>1. /\ runner' \in [Runners -> RunnerRecord]
          /\ req' \in [Requests -> RequestRecord]
      BY <1>0, <2>1, <2>2, UseLoadedRunnerTyped
    <3>2. p' \in PendingRecord
      BY <2>0, PendingIdleTyped
    <3>3. UNCHANGED <<loaded, activeLoading, pendingReqCh, expiredCh, unloadedCh, c, api, ctx>>
      BY <2>0
    <3>. QED  BY <1>0, <3>1, <3>2, <3>3 DEF TypeOK
  <2>4. RequestsTyped'
    <3>1. /\ req'[p.cur].state = "served" /\ req'[p.cur].runner = x
          /\ req'[p.cur].model = req[p.cur].model
          /\ \A r \in Requests \ {p.cur} : req'[r] = req[r]
          /\ req[p.cur].state = "queued"
      BY <1>0, <2>0, <2>1, <2>2, UseLoadedRunnerTyped DEF Typed, PendingTyped
    <3>. QED  BY <2>2, <3>1 DEF Typed, RequestsTyped
  <2>5. QueueDistinct'
    <3>1. \A i \in 1 .. Len(pendingReqCh) : pendingReqCh[i] \in Requests \ {p.cur}
      BY <1>0, <2>0, <2>2 DEF Typed, TypeOK, PendingTyped
    <3>. QED  BY <1>0, <2>0, <2>1, <2>2, <3>1, UseLoadedRunnerTyped DEF Typed, QueueDistinct
  <2>6. PendingTyped' /\ PendingWork'
    BY <2>0, PendingIdleTyped DEF PendingTyped, PendingWork
  <2>. QED  BY <2>3, <2>4, <2>5, <2>6 DEF Typed
<1>6. CASE FindRunnerToUnload
  <2>. USE <1>6 DEF FindRunnerToUnload
  <2>1. CASE p' = [p EXCEPT !.pc = "top"]
    <3>1. /\ p' \in PendingRecord /\ p'.cur = p.cur /\ p.pc = "find"
          /\ p'.pc = "top" /\ p'.targets = p.targets
      BY <1>0, <2>1 DEF PendingRecord
    <3>2. TypeOK' /\ PendingWork'
      BY <1>0, <3>1 DEF Typed, TypeOK, PendingWork
    <3>. QED  BY <3>1, <3>2, PendingFrame DEF Typed
  <2>2. ASSUME NEW x \in LoadedRunners,
               p' = [p EXCEPT !.pc = "expire", !.targets = {x}, !.todo = {x}]
        PROVE  Typed'
    <3>0. x \in Runners
      BY <1>0, LoadedFinite
    <3>1. /\ p' \in PendingRecord /\ p'.cur = p.cur /\ p.pc = "find"
          /\ p'.pc = "expire" /\ p'.targets = {x} /\ p'.todo = {x}
      BY <1>0, <2>2, <3>0, ZenonT(30) DEF PendingRecord
    <3>2. IsFiniteSet({x})
      BY FS_Singleton
    <3>3. TypeOK' /\ PendingWork'
      BY <1>0, <3>1, <3>2 DEF TypeOK, PendingWork
    <3>. QED  BY <3>1, <3>3, PendingFrame DEF Typed
  <2>. QED  BY <2>1, <2>2
<1>7. CASE EvictAll
  <2>. USE <1>7 DEF EvictAll
  <2>. DEFINE xs == {loaded[m] : m \in Loaded \ {req[p.cur].model}}
  <2>1. xs \subseteq LoadedRunners
    BY DEF LoadedRunners
  <2>2. xs \subseteq Runners /\ IsFiniteSet(xs)
    BY <1>0, <2>1, LoadedFinite, FS_Subset
  <2>3. p' = [p EXCEPT !.pc = IF xs = {} THEN "top" ELSE "expire",
                       !.targets = xs, !.todo = xs, !.evicting = TRUE]
    OBVIOUS
  <2>. HIDE DEF xs
  <2>4. /\ p' \in PendingRecord /\ p'.cur = p.cur /\ p.pc = "evict"
        /\ p'.targets = xs /\ p'.todo = xs
        /\ p'.pc = "top" \/ (p'.pc = "expire" /\ xs # {})
    BY <1>0, <2>2, <2>3 DEF PendingRecord
  <2>5. TypeOK' /\ PendingWork'
    BY <1>0, <2>2, <2>4 DEF TypeOK, PendingWork
  <2>. QED  BY <2>4, <2>5, PendingFrame DEF Typed
<1>8. CASE ExpireTarget
  <2>0. /\ p.pc = "expire"
        /\ UNCHANGED <<table, req, pendingReqCh, unloadedCh, c, env>>
    BY <1>8 DEF ExpireTarget
  <2>1. PICK x \in p.todo :
          /\ ExpireNow(x)
          /\ p' = [p EXCEPT !.todo = @ \ {x},
                            !.pc = IF p.todo = {x} THEN "wait" ELSE @,
                            !.need = IF p.todo = {x} THEN Cardinality(p.targets) ELSE 0]
    BY <1>8 DEF ExpireTarget
  <2>2. /\ x \in p.targets /\ p.todo \subseteq p.targets
        /\ IsFiniteSet(p.targets) /\ x \in Runners
    BY <1>0, <2>0 DEF Typed, PendingWork, PendingRecord
  <2>3. Cardinality(p.targets) \in Nat \ {0}
    BY <2>2, FS_EmptySet, FS_CardinalityType
  <2>4. /\ p' \in PendingRecord /\ p'.cur = p.cur
        /\ p'.targets = p.targets /\ p'.todo = p.todo \ {x}
        /\ \/ p'.pc = "expire" /\ p.todo # {x}
           \/ p'.pc = "wait" /\ p'.need = Cardinality(p.targets)
    BY <1>0, <2>0, <2>1, <2>2, <2>3 DEF PendingRecord
  <2>5. TypeOK'
    <3>1. runner' \in [Runners -> RunnerRecord] /\ expiredCh' \in Seq(Runners)
      BY <1>0, <2>1, <2>2, ExpireNowTyped
    <3>. QED  BY <1>0, <2>0, <2>4, <3>1 DEF TypeOK
  <2>6. PendingWork'
    BY <2>1, <2>2, <2>3, <2>4 DEF PendingWork
  <2>. QED  BY <2>0, <2>4, <2>5, <2>6, PendingFrame DEF Typed
<1>9. CASE WaitUnloaded
  <2>. USE <1>9 DEF WaitUnloaded
  <2>1. p.pc = "wait" /\ p.need \in Nat \ {0}
    BY <1>0 DEF Typed, PendingWork, PendingRecord
  <2>. p.need - 1 \in Nat
    BY <2>1
  <2>2. /\ p' \in PendingRecord /\ p'.cur = p.cur /\ p'.targets = p.targets
        /\ p'.pc = "top" \/ (p'.pc = "wait" /\ p'.need = p.need - 1 /\ p.need # 1)
    BY <1>0, <2>1 DEF PendingRecord
  <2>3. TypeOK' /\ PendingWork'
    BY <1>0, <2>1, <2>2 DEF Typed, TypeOK, PendingWork
  <2>. QED  BY <2>1, <2>2, <2>3, PendingFrame DEF Typed
<1>10. CASE StopPending
  <2>. USE <1>10 DEF StopPending
  <2>1. /\ p' \in PendingRecord /\ p'.pc = "stopped" /\ p'.targets = {}
    BY PendingIdleTyped DEF PendingIdle
  <2>2. TypeOK' /\ PendingWork'
    BY <1>0, <2>1, PendingIdleTyped DEF TypeOK, PendingWork
  <2>. QED  BY <2>1, <2>2, PendingFrame DEF Typed
<1>. QED  BY <1>1, <1>2, <1>3, <1>4, <1>5, <1>6, <1>7, <1>8, <1>9, <1>10

(* After load has failed a request or asked for a retry.                    *)
LEMMA FailPending ==
    ASSUME Typed, p.pc \notin {"idle", "stopped"}, Fail(p.cur), p' = AfterLoadFalse,
           UNCHANGED pendingReqCh
    PROVE  /\ req' \in [Requests -> RequestRecord] /\ p' \in PendingRecord
           /\ RequestsTyped' /\ QueueDistinct' /\ PendingTyped' /\ PendingWork'
<1>1. TypeOK /\ p.cur \in Requests
  BY DEF Typed, PendingTyped
<1>2. /\ req' \in [Requests -> RequestRecord]
      /\ req'[p.cur].state = "failed" /\ req'[p.cur].model = req[p.cur].model
      /\ \A r \in Requests \ {p.cur} : req'[r] = req[r]
      /\ req[p.cur].state = "queued"
  BY <1>1, FailTyped DEF Typed, PendingTyped
<1>3. RequestsTyped'
  BY <1>1, <1>2 DEF Typed, RequestsTyped
<1>4. \A i \in 1 .. Len(pendingReqCh) : pendingReqCh[i] \in Requests \ {p.cur}
  BY <1>1 DEF Typed, TypeOK, PendingTyped
<1>5. QueueDistinct'
  BY <1>2, <1>4 DEF Typed, QueueDistinct
<1>6. PendingTyped' /\ PendingWork' /\ p' \in PendingRecord
  BY PendingIdleTyped DEF AfterLoadFalse, PendingTyped, PendingWork
<1>. QED  BY <1>2, <1>3, <1>5, <1>6

LEMMA RetryPending ==
    ASSUME p \in PendingRecord, NEW o
    PROVE  /\ AfterLoadTrue(o) \in PendingRecord
           /\ AfterLoadTrue(o).cur = p.cur /\ AfterLoadTrue(o).targets = p.targets
           /\ AfterLoadTrue(o).pc \in {"top", "evict", "find"}
BY DEF PendingRecord, AfterLoadTrue

LEMMA StartedRunnerTyped ==
    ASSUME NEW m \in Models
    PROVE  StartedRunner(m) \in RunnerRecord /\ StartedRunner(m).model = m
<1>1. NoRunner \in RunnerRecord
  BY RefCountAssumption DEF NoRunner, RunnerRecord, Durations, Zero
<1>. QED  BY <1>1 DEF StartedRunner, RunnerRecord

(* Steps of load.                                                           *)
LEMMA LoadingTyped ==
    ASSUME Typed, LoadStart \/ Install \/ LoadNoFit \/ LoadError \/ LoadErrorAfterShutdown
    PROVE  Typed'
<1>. USE DEF table, chans, env
<1>0. /\ TypeOK /\ p \in PendingRecord
      /\ p.pc \in {"load", "loading"} =>
           /\ p.cur \in Requests /\ req[p.cur].state = "queued"
           /\ req[p.cur].model \in Models
  BY DEF Typed, TypeOK, PendingTyped, RequestsTyped
<1>1. CASE LoadStart
  <2>0. p.pc = "load" /\ UNCHANGED <<loaded, chans, c, env>>
    BY <1>1 DEF LoadStart
  <2>1. CASE Fail(p.cur) /\ p' = AfterLoadFalse /\ UNCHANGED <<activeLoading, runner>>
    <3>1. UNCHANGED <<loaded, activeLoading, runner, pendingReqCh, expiredCh, unloadedCh, c, api, ctx>>
      BY <2>0, <2>1
    <3>2. /\ req' \in [Requests -> RequestRecord] /\ p' \in PendingRecord
          /\ RequestsTyped' /\ QueueDistinct' /\ PendingTyped' /\ PendingWork'
      BY <2>0, <2>1, <3>1, FailPending
    <3>3. TypeOK'
      BY <1>0, <3>1, <3>2 DEF TypeOK
    <3>. QED  BY <3>2, <3>3 DEF Typed
  <2>2. CASE /\ p' = AfterLoadTrue(req[p.cur].oomRetried)
             /\ UNCHANGED <<activeLoading, runner, req>>
    <3>1. /\ p' \in PendingRecord /\ p'.cur = p.cur /\ p'.targets = p.targets
          /\ p'.pc \in {"top", "evict", "find"}
      BY <1>0, <2>2, RetryPending
    <3>2. TypeOK' /\ PendingWork'
      BY <1>0, <2>0, <2>2, <3>1 DEF Typed, TypeOK, PendingWork
    <3>. QED  BY <2>0, <2>2, <3>1, <3>2, PendingFrame DEF Typed
  <2>3. ASSUME NEW x \in Fresh,
               runner' = [runner EXCEPT ![x] = StartedRunner(req[p.cur].model)],
               activeLoading' = x,
               p' = [p EXCEPT !.pc = "loading", !.llama = x],
               UNCHANGED req
        PROVE  Typed'
    <3>1. x \in Runners
      BY DEF Fresh
    <3>2. runner' \in [Runners -> RunnerRecord]
      BY <1>0, <2>0, <2>3, StartedRunnerTyped DEF TypeOK
    <3>3. /\ p' \in PendingRecord /\ p'.cur = p.cur /\ p'.targets = p.targets
          /\ p'.pc = "loading" /\ p'.llama = x
      BY <1>0, <2>3, <3>1 DEF PendingRecord
    <3>4. TypeOK' /\ PendingWork'
      BY <1>0, <2>0, <2>3, <3>1, <3>2, <3>3 DEF Typed, TypeOK, PendingWork
    <3>. QED  BY <2>0, <2>3, <3>3, <3>4, PendingFrame DEF Typed
  <2>4. CASE /\ activeLoading # None
             /\ \/ p' = [p EXCEPT !.pc = "loading", !.llama = activeLoading]
                \/ p' = [p EXCEPT !.pc = "panic"]
             /\ UNCHANGED <<activeLoading, runner, req>>
    <3>1. activeLoading \in Runners
      BY <1>0, <2>4 DEF TypeOK
    <3>2. /\ p' \in PendingRecord /\ p'.cur = p.cur /\ p'.targets = p.targets
          /\ (p'.pc = "loading" /\ p'.llama = activeLoading) \/ p'.pc = "panic"
      <4>1. CASE p' = [p EXCEPT !.pc = "loading", !.llama = activeLoading]
        BY <1>0, <3>1, <4>1 DEF PendingRecord
      <4>2. CASE p' = [p EXCEPT !.pc = "panic"]
        BY <1>0, <4>2 DEF PendingRecord
      <4>. QED  BY <2>4, <4>1, <4>2
    <3>3. TypeOK' /\ PendingWork'
      BY <1>0, <2>0, <2>4, <3>1, <3>2 DEF Typed, TypeOK, PendingWork
    <3>. QED  BY <2>0, <2>4, <3>2, <3>3, PendingFrame DEF Typed
  <2>5. Fresh # {} => (CHOOSE x \in Fresh : TRUE) \in Fresh
    OBVIOUS
  <2>. QED  BY <1>1, <2>1, <2>2, <2>3, <2>4, <2>5 DEF LoadStart
<1>2. CASE Install
  <2>0. /\ p.pc = "loading" /\ activeLoading' = None /\ p' = PendingIdle
        /\ UNCHANGED <<pendingReqCh, expiredCh, unloadedCh, c, api, ctx>>
    BY <1>2 DEF Install, AfterLoadFalse
  <2>. DEFINE q == p.cur
              x == p.llama
              m == req[q].model
              d == IF req[q].keepAlive = Unset THEN DefaultKeepAlive ELSE req[q].keepAlive
              s == [req[q] EXCEPT !.state = "loading", !.runner = x]
  <2>1. /\ runner' = [y \in Runners |->
             IF y = x THEN [runner[y] EXCEPT !.duration = d, !.refMu = "loader"]
             ELSE IF y = loaded[m] THEN Unload(runner[y]) ELSE runner[y]]
        /\ loaded' = [loaded EXCEPT ![m] = x]
        /\ req' = [req EXCEPT ![q] = s]
    BY <1>2 DEF Install
  <2>2. x \in Runners /\ q \in Requests /\ m \in Models
    BY <1>0, <2>0 DEF Typed, PendingWork
  <2>3. req[q] \in RequestRecord /\ d \in Durations
    BY <1>0, <2>2, KeepAliveAssumption DEF TypeOK, RequestRecord
  <2>4. s \in RequestRecord /\ s.state = "loading" /\ s.runner = x /\ s.model = m
    BY <2>2, <2>3 DEF RequestRecord
  <2>5. \A y \in Runners : runner'[y] \in RunnerRecord
    <3>. SUFFICES ASSUME NEW y \in Runners PROVE runner'[y] \in RunnerRecord
      OBVIOUS
    <3>1. runner[y] \in RunnerRecord
      BY <1>0 DEF TypeOK
    <3>2. Unload(runner[y]) \in RunnerRecord
      BY <3>1, UnloadTyped
    <3>3. [runner[y] EXCEPT !.duration = d, !.refMu = "loader"] \in RunnerRecord
      BY <2>3, <3>1 DEF RunnerRecord
    <3>. QED  BY <2>1, <3>1, <3>2, <3>3
  <2>. HIDE DEF s, d
  <2>6. TypeOK'
    <3>1. runner' \in [Runners -> RunnerRecord]
      BY <2>1, <2>5
    <3>2. req' \in [Requests -> RequestRecord] /\ loaded' \in [Models -> Runners \cup {None}]
      BY <1>0, <2>1, <2>2, <2>4 DEF TypeOK
    <3>3. p' \in PendingRecord
      BY <2>0, PendingIdleTyped
    <3>. QED  BY <1>0, <2>0, <3>1, <3>2, <3>3 DEF TypeOK
  <2>7. RequestsTyped'
    BY <1>0, <2>1, <2>2, <2>4 DEF Typed, TypeOK, RequestsTyped
  <2>8. QueueDistinct'
    <3>1. \A i \in 1 .. Len(pendingReqCh) : pendingReqCh[i] \in Requests \ {q}
      BY <1>0, <2>0 DEF Typed, TypeOK, PendingTyped
    <3>. QED  BY <1>0, <2>0, <2>1, <2>2, <3>1 DEF Typed, TypeOK, QueueDistinct
  <2>9. PendingTyped' /\ PendingWork'
    BY <2>0, PendingIdleTyped DEF PendingTyped, PendingWork
  <2>. QED  BY <2>6, <2>7, <2>8, <2>9 DEF Typed
<1>3. CASE LoadNoFit
  <2>0. p.pc = "loading" /\ UNCHANGED <<loaded, pendingReqCh, expiredCh, unloadedCh, c, api, ctx>>
    BY <1>3 DEF LoadNoFit
  <2>1. CASE /\ p' = AfterLoadTrue(req[p.cur].oomRetried)
             /\ UNCHANGED <<activeLoading, runner, req>>
    <3>1. /\ p' \in PendingRecord /\ p'.cur = p.cur /\ p'.targets = p.targets
          /\ p'.pc \in {"top", "evict", "find"}
      BY <1>0, <2>1, RetryPending
    <3>2. TypeOK' /\ PendingWork'
      BY <1>0, <2>0, <2>1, <3>1 DEF Typed, TypeOK, PendingWork
    <3>. QED  BY <2>0, <2>1, <3>1, <3>2, PendingFrame DEF Typed
  <2>2. CASE CloseActive /\ Fail(p.cur) /\ p' = AfterLoadFalse
    <3>1. /\ req' \in [Requests -> RequestRecord] /\ p' \in PendingRecord
          /\ RequestsTyped' /\ QueueDistinct' /\ PendingTyped' /\ PendingWork'
      BY <2>0, <2>2, FailPending
    <3>2. runner' \in [Runners -> RunnerRecord] /\ activeLoading' = None
      BY <1>0, <2>2, CloseActiveTyped
    <3>3. TypeOK'
      BY <1>0, <2>0, <3>1, <3>2 DEF TypeOK
    <3>. QED  BY <3>1, <3>3 DEF Typed
  <2>. QED  BY <1>3, <2>1, <2>2 DEF LoadNoFit
<1>4. CASE LoadError
  <2>0. /\ p.pc = "loading" /\ CloseActive
        /\ UNCHANGED <<loaded, pendingReqCh, expiredCh, unloadedCh, c, api, ctx>>
    BY <1>4 DEF LoadError
  <2>1. runner' \in [Runners -> RunnerRecord] /\ activeLoading' = None
    BY <1>0, <2>0, CloseActiveTyped
  <2>2. CASE req' = [req EXCEPT ![p.cur].oomRetried = TRUE] /\ p' = AfterLoadTrue(TRUE)
    <3>. DEFINE q == p.cur
                s == [req[q] EXCEPT !.oomRetried = TRUE]
    <3>1. q \in Requests /\ req[q] \in RequestRecord
      BY <1>0, <2>0 DEF TypeOK
    <3>2. /\ s \in RequestRecord /\ s.state = req[q].state
          /\ s.model = req[q].model /\ s.runner = req[q].runner
      BY <3>1 DEF RequestRecord
    <3>3. req' = [req EXCEPT ![q] = s]
      BY <2>2
    <3>. HIDE DEF s
    <3>4. /\ req' \in [Requests -> RequestRecord]
          /\ \A r \in Requests : /\ req'[r].state = req[r].state
                                /\ req'[r].model = req[r].model
                                /\ req'[r].runner = req[r].runner
      BY <1>0, <3>2, <3>3 DEF TypeOK
    <3>5. /\ p' \in PendingRecord /\ p'.cur = p.cur /\ p'.targets = p.targets
          /\ p'.pc \in {"top", "evict", "find"}
      BY <1>0, <2>2, RetryPending
    <3>6. TypeOK'
      BY <1>0, <2>0, <2>1, <3>4, <3>5 DEF TypeOK
    <3>7. RequestsTyped' /\ PendingWork'
      BY <3>4, <3>5 DEF Typed, RequestsTyped, PendingWork
    <3>8. \A i \in 1 .. Len(pendingReqCh) : pendingReqCh[i] \in Requests
      BY <1>0 DEF TypeOK
    <3>9. QueueDistinct' /\ PendingTyped'
      BY <1>0, <2>0, <3>4, <3>5, <3>8 DEF Typed, QueueDistinct, PendingTyped
    <3>. QED  BY <3>6, <3>7, <3>9 DEF Typed
  <2>3. CASE Fail(p.cur) /\ p' = AfterLoadFalse
    <3>1. /\ req' \in [Requests -> RequestRecord] /\ p' \in PendingRecord
          /\ RequestsTyped' /\ QueueDistinct' /\ PendingTyped' /\ PendingWork'
      BY <2>0, <2>3, FailPending
    <3>2. TypeOK'
      BY <1>0, <2>0, <2>1, <3>1 DEF TypeOK
    <3>. QED  BY <3>1, <3>2 DEF Typed
  <2>. QED  BY <1>4, <2>2, <2>3 DEF LoadError
<1>5. CASE LoadErrorAfterShutdown
  <2>0. /\ p.pc = "loading" /\ p' = [p EXCEPT !.pc = "panic"]
        /\ UNCHANGED <<loaded, activeLoading, runner, req, pendingReqCh, expiredCh,
                       unloadedCh, c, api, ctx>>
    BY <1>5 DEF LoadErrorAfterShutdown
  <2>1. /\ p' \in PendingRecord /\ p'.cur = p.cur /\ p'.targets = p.targets
        /\ p'.pc = "panic"
    BY <1>0, <2>0 DEF PendingRecord
  <2>2. TypeOK' /\ PendingWork'
    BY <1>0, <2>0, <2>1 DEF Typed, TypeOK, PendingWork
  <2>. QED  BY <2>0, <2>1, <2>2, PendingFrame DEF Typed
<1>. QED  BY <1>1, <1>2, <1>3, <1>4, <1>5

(* Steps of processCompleted.                                               *)
LEMMA CompletedTyped ==
    ASSUME Typed, ProcessCompleted
    PROVE  Typed'
<1>. USE DEF table, chans, env
<1>0. /\ TypeOK /\ c \in [pc : {"idle", "recovering", "stopped"}, runner : Runners \cup {None}]
      /\ \A x \in Runners : runner[x] \in RunnerRecord
  BY DEF Typed, TypeOK
<1>1. CASE Expired
  <2>. DEFINE x == Head(expiredCh)
              m == runner[x].model
  <2>0. /\ expiredCh' = Tail(expiredCh) /\ expiredCh # <<>>
        /\ UNCHANGED <<activeLoading, req, pendingReqCh, unloadedCh, p, api, ctx>>
    BY <1>1 DEF Expired
  <2>1. x \in Runners /\ expiredCh' \in Seq(Runners) /\ runner[x] \in RunnerRecord
    BY <1>0, <2>0 DEF TypeOK
  <2>2. CASE runner' = [runner EXCEPT ![x].retries = @ + 1] /\ UNCHANGED <<loaded, c>>
    <3>. DEFINE r == [runner[x] EXCEPT !.retries = @ + 1]
    <3>1. runner[x].retries + 1 \in Nat
      BY <2>1 DEF RunnerRecord
    <3>2. r \in RunnerRecord
      BY <2>1, <3>1 DEF RunnerRecord
    <3>3. runner' = [runner EXCEPT ![x] = r]
      BY <2>2
    <3>4. TypeOK'
      BY <1>0, <2>0, <2>1, <2>2, <3>2, <3>3 DEF TypeOK
    <3>. QED  BY <2>0, <3>4, RequestsFrame DEF Typed
  <2>3. CASE UNCHANGED <<runner, loaded, c>>
    <3>1. TypeOK'
      BY <1>0, <2>0, <2>1, <2>3 DEF TypeOK
    <3>. QED  BY <2>0, <3>1, RequestsFrame DEF Typed
  <2>4. CASE runner' = [runner EXCEPT ![x] = Unload(@)] /\ UNCHANGED <<loaded, c>>
    <3>1. Unload(runner[x]) \in RunnerRecord
      BY <2>1, UnloadTyped
    <3>2. TypeOK'
      BY <1>0, <2>0, <2>1, <2>4, <3>1 DEF TypeOK
    <3>. QED  BY <2>0, <3>2, RequestsFrame DEF Typed
  <2>5. CASE /\ runner' = [runner EXCEPT ![x] = [Unload(@) EXCEPT !.refMu = "completed"]]
             /\ loaded' = [loaded EXCEPT ![m] = None]
             /\ c' = [pc |-> "recovering", runner |-> x]
    <3>1. [Unload(runner[x]) EXCEPT !.refMu = "completed"] \in RunnerRecord
      BY <2>1, UnloadTyped
    <3>2. runner' \in [Runners -> RunnerRecord]
      BY <1>0, <2>1, <2>5, <3>1 DEF TypeOK
    <3>3. TypeOK'
      BY <1>0, <2>0, <2>1, <2>5, <3>2 DEF TypeOK
    <3>. QED  BY <2>0, <3>3, RequestsFrame DEF Typed
  <2>. QED  BY <1>1, <2>2, <2>3, <2>4, <2>5 DEF Expired
<1>2. CASE Recovered
  <2>. DEFINE r == [runner[c.runner] EXCEPT !.refMu = "free"]
  <2>0. /\ runner' = [runner EXCEPT ![c.runner] = r]
        /\ unloadedCh' = unloadedCh + 1 /\ c' = CompletedIdle
        /\ UNCHANGED <<loaded, activeLoading, req, pendingReqCh, expiredCh, p, api, ctx>>
    BY <1>2 DEF Recovered, NotifyUnloaded
  <2>1. c.runner \in Runners => r \in RunnerRecord
    BY <1>0 DEF RunnerRecord
  <2>2. runner' \in [Runners -> RunnerRecord]
    BY <1>0, <2>0, <2>1 DEF TypeOK
  <2>3. TypeOK'
    BY <1>0, <2>0, <2>2 DEF TypeOK, CompletedIdle
  <2>. QED  BY <2>0, <2>3, RequestsFrame DEF Typed
<1>3. CASE StopCompleted
  <2>0. /\ c' = [CompletedIdle EXCEPT !.pc = "stopped"]
        /\ UNCHANGED <<loaded, activeLoading, runner, req, pendingReqCh, expiredCh,
                       unloadedCh, p, api, ctx>>
    BY <1>3 DEF StopCompleted
  <2>1. TypeOK'
    BY <1>0, <2>0 DEF TypeOK, CompletedIdle
  <2>. QED  BY <2>0, <2>1, RequestsFrame DEF Typed
<1>4. ASSUME NEW q \in Requests, Finished(q) PROVE Typed'
  <2>. DEFINE x == loaded[req[q].model]
              n == Dereferenced(runner[x].refCount)
              s == [req[q] EXCEPT !.state = "finished"]
              b == IF n # 0 THEN runner[x].armed ELSE runner[x].duration # Zero
              r == [runner[x] EXCEPT !.refCount = n, !.armed = b]
  <2>0. /\ req[q].state = "served" /\ req' = [req EXCEPT ![q] = s]
        /\ \/ x = None /\ UNCHANGED <<runner, expiredCh>>
           \/ /\ x # None
              /\ runner' = [runner EXCEPT ![x] = r]
              /\ expiredCh' = Append(expiredCh, x) \/ UNCHANGED expiredCh
        /\ UNCHANGED <<loaded, activeLoading, pendingReqCh, unloadedCh, p, c, api, ctx>>
    BY <1>4 DEF Finished
  <2>1. req[q] \in RequestRecord /\ req[q].model \in Models
    BY <1>0, <2>0 DEF Typed, TypeOK, RequestsTyped
  <2>2. s \in RequestRecord /\ s.model = req[q].model /\ s.state = "finished"
    BY <2>1 DEF RequestRecord
  <2>3. x \in Runners \cup {None}
    BY <1>0, <2>1 DEF TypeOK
  <2>4. ASSUME x \in Runners PROVE r \in RunnerRecord
    <3>1. runner[x] \in RunnerRecord
      BY <1>0, <2>4
    <3>2. n \in 0 .. RefCountMod - 1
      BY <3>1, CountsTyped DEF RunnerRecord
    <3>3. b \in BOOLEAN
      BY <3>1 DEF RunnerRecord
    <3>. QED  BY <3>1, <3>2, <3>3 DEF RunnerRecord
  <2>. HIDE DEF r, s
  <2>5. runner' \in [Runners -> RunnerRecord] /\ expiredCh' \in Seq(Runners)
    <3>1. CASE x = None
      BY <1>0, <2>0, <3>1 DEF TypeOK
    <3>2. CASE x \in Runners
      <4>1. r \in RunnerRecord /\ x # None
        BY <2>4, <3>2, NoneAssumption
      <4>2. /\ runner' = [runner EXCEPT ![x] = r]
            /\ expiredCh' = Append(expiredCh, x) \/ expiredCh' = expiredCh
        BY <2>0, <4>1
      <4>. HIDE DEF x
      <4>. QED  BY <1>0, <3>2, <4>1, <4>2, SMTT(30) DEF TypeOK
    <3>. QED  BY <2>3, <3>1, <3>2
  <2>6. req' \in [Requests -> RequestRecord]
    BY <1>0, <2>0, <2>2 DEF TypeOK
  <2>7. TypeOK'
    BY <1>0, <2>0, <2>5, <2>6 DEF TypeOK
  <2>8. RequestsTyped'
    BY <1>0, <2>0, <2>1, <2>2 DEF Typed, TypeOK, RequestsTyped
  <2>9. QueueDistinct' /\ PendingTyped' /\ PendingWork'
    BY <1>0, <2>0, QueueFrame DEF TypeOK
  <2>. QED  BY <2>7, <2>8, <2>9 DEF Typed
<1>. QED  BY <1>1, <1>2, <1>3, <1>4 DEF ProcessCompleted

(* Timers, re-queued expirations, API calls and shutdown.                   *)
LEMMA OthersTyped ==
    ASSUME Typed,
           \/ \E x \in Runners : Timers(x)
           \/ Api \/ Shutdown \/ UnloadAllRunners
    PROVE  Typed'
<1>. USE DEF table, chans, env
<1>0. /\ TypeOK /\ \A x \in Runners : runner[x] \in RunnerRecord
      /\ LoadedRunners \subseteq Runners
  BY LoadedFinite DEF Typed, TypeOK
<1>1. ASSUME NEW x \in Runners, TimerFires(x) PROVE Typed'
  <2>. DEFINE r == [runner[x] EXCEPT !.armed = FALSE, !.callbacks = @ + 1]
  <2>0. /\ runner' = [runner EXCEPT ![x] = r]
        /\ UNCHANGED <<loaded, activeLoading, req, pendingReqCh, expiredCh, unloadedCh,
                       p, c, api, ctx>>
    BY <1>1 DEF TimerFires
  <2>1. runner[x].callbacks + 1 \in Nat
    BY <1>0 DEF RunnerRecord
  <2>2. r \in RunnerRecord
    BY <1>0, <2>1 DEF RunnerRecord
  <2>3. TypeOK'
    BY <1>0, <2>0, <2>2 DEF TypeOK
  <2>. QED  BY <2>0, <2>3, RequestsFrame DEF Typed
<1>2. ASSUME NEW x \in Runners, TimerCallback(x) PROVE Typed'
  <2>. DEFINE r == [runner[x] EXCEPT !.armed = FALSE, !.callbacks = @ - 1]
  <2>0. /\ runner' = [runner EXCEPT ![x] = r] /\ runner[x].callbacks > 0
        /\ expiredCh' = Append(expiredCh, x)
        /\ UNCHANGED <<loaded, activeLoading, req, pendingReqCh, unloadedCh, p, c, api, ctx>>
    BY <1>2 DEF TimerCallback
  <2>1. runner[x].callbacks - 1 \in Nat
    BY <1>0, <2>0 DEF RunnerRecord
  <2>2. r \in RunnerRecord
    BY <1>0, <2>1 DEF RunnerRecord
  <2>3. TypeOK'
    BY <1>0, <2>0, <2>2 DEF TypeOK
  <2>. QED  BY <2>0, <2>3, RequestsFrame DEF Typed
<1>3. ASSUME NEW x \in Runners, Requeue(x) PROVE Typed'
  <2>. DEFINE r == [runner[x] EXCEPT !.retries = @ - 1]
  <2>0. /\ runner' = [runner EXCEPT ![x] = r] /\ runner[x].retries > 0
        /\ expiredCh' = Append(expiredCh, x)
        /\ UNCHANGED <<loaded, activeLoading, req, pendingReqCh, unloadedCh, p, c, api, ctx>>
    BY <1>3 DEF Requeue
  <2>1. runner[x].retries - 1 \in Nat
    BY <1>0, <2>0 DEF RunnerRecord
  <2>2. r \in RunnerRecord
    BY <1>0, <2>1 DEF RunnerRecord
  <2>3. TypeOK'
    BY <1>0, <2>0, <2>2 DEF TypeOK
  <2>. QED  BY <2>0, <2>3, RequestsFrame DEF Typed
<1>4. ASSUME RuntimeOOM \/ \E m \in Models : ExpireModel(m) PROVE Typed'
  <2>0. /\ api.calls > 0 /\ api'.calls = api.calls - 1
        /\ api' = [calls |-> api.calls - 1, todo |-> api'.todo]
        /\ api'.todo \subseteq api.todo \cup LoadedRunners
        /\ UNCHANGED <<loaded, activeLoading, runner, req, pendingReqCh, expiredCh,
                       unloadedCh, p, c, ctx>>
    BY <1>4 DEF RuntimeOOM, ExpireModel, LoadedRunners, Loaded
  <2>1. api' \in [calls : Nat, todo : SUBSET Runners]
    BY <1>0, <2>0 DEF TypeOK
  <2>2. TypeOK'
    BY <1>0, <2>0, <2>1 DEF TypeOK
  <2>. QED  BY <2>0, <2>2, RequestsFrame DEF Typed
<1>5. ASSUME NEW x \in Runners, ApiExpire(x) PROVE Typed'
  <2>0. /\ ExpireNow(x) /\ api' = [api EXCEPT !.todo = @ \ {x}]
        /\ UNCHANGED <<loaded, activeLoading, req, pendingReqCh, unloadedCh, p, c, ctx>>
    BY <1>5 DEF ApiExpire
  <2>1. runner' \in [Runners -> RunnerRecord] /\ expiredCh' \in Seq(Runners)
    BY <1>0, <2>0, ExpireNowTyped
  <2>2. api' \in [calls : Nat, todo : SUBSET Runners]
    BY <1>0, <2>0 DEF TypeOK
  <2>3. TypeOK'
    BY <1>0, <2>0, <2>1, <2>2 DEF TypeOK
  <2>. QED  BY <2>0, <2>3, RequestsFrame DEF Typed
<1>6. CASE Shutdown
  <2>0. /\ ctx' = "done"
        /\ UNCHANGED <<loaded, activeLoading, runner, req, pendingReqCh, expiredCh,
                       unloadedCh, p, c, api>>
    BY <1>6 DEF Shutdown
  <2>1. TypeOK'
    BY <1>0, <2>0 DEF TypeOK
  <2>. QED  BY <2>0, <2>1, RequestsFrame DEF Typed
<1>7. CASE UnloadAllRunners
  <2>0. /\ ctx' = "unloaded" /\ activeLoading' = None
        /\ runner' = [x \in Runners |->
             IF x \in LoadedRunners \cup {activeLoading}
             THEN [runner[x] EXCEPT !.proc = "closed"] ELSE runner[x]]
        /\ UNCHANGED <<loaded, req, pendingReqCh, expiredCh, unloadedCh, p, c, api>>
    BY <1>7 DEF UnloadAllRunners
  <2>1. \A x \in Runners : [runner[x] EXCEPT !.proc = "closed"] \in RunnerRecord
    BY <1>0 DEF RunnerRecord
  <2>2. runner' \in [Runners -> RunnerRecord]
    BY <1>0, <2>0, <2>1
  <2>3. TypeOK'
    BY <1>0, <2>0, <2>2 DEF TypeOK
  <2>. QED  BY <2>0, <2>3, RequestsFrame DEF Typed
<1>. QED  BY <1>1, <1>2, <1>3, <1>4, <1>5, <1>6, <1>7 DEF Timers, Api

LEMMA TypedStep == Typed /\ [Next]_vars => Typed'
<1>. SUFFICES ASSUME Typed, [Next]_vars PROVE Typed'
  OBVIOUS
<1>1. ASSUME NEW q \in Requests, Handler(q) PROVE Typed'
  BY <1>1, HandlerTyped
<1>2. ASSUME NEW q \in Requests, ContextDone(q) \/ Loader(q) PROVE Typed'
  BY <1>2, RequestTyped
<1>3. CASE ProcessPending
  BY <1>3, SchedulingTyped, LoadingTyped DEF ProcessPending
<1>4. CASE ProcessCompleted
  BY <1>4, CompletedTyped
<1>5. CASE (\E x \in Runners : Timers(x)) \/ Api \/ Shutdown \/ UnloadAllRunners
  BY <1>5, OthersTyped
<1>6. CASE UNCHANGED vars
  <2>1. TypeOK'
    BY <1>6 DEF vars, Typed, TypeOK
  <2>. QED  BY <1>6, <2>1, RequestsFrame DEF vars, Typed
<1>. QED  BY <1>1, <1>2, <1>3, <1>4, <1>5, <1>6 DEF Next

(* The first layer holds in every reachable state.                         *)
THEOREM TypedAlways == Spec => []Typed
BY TypedInit, TypedStep, PTL DEF Spec

(* Every variable has its type in every reachable state: in particular the  *)
(* unsigned refCount never leaves its range, no nil or stale index reaches  *)
(* the runner table, and processPending never waits for zero unload events. *)
THEOREM TypeCorrect == Spec => []TypeOK
<1>1. Typed => TypeOK
  BY DEF Typed
<1>. QED  BY <1>1, TypedAlways, PTL

-----------------------------------------------------------------------------
(* The second layer.                                                        *)

(* From the snapshot that decides to load up to the installation, the model *)
(* stays absent and a slot stays free: only processPending adds runners.    *)
SlotReserved ==
    p.pc \in {"load", "loading"} =>
      loaded[req[p.cur].model] = None /\ Cardinality(Loaded) < MaxRunners

(* A server in activeLoading belongs to the request in processPending's     *)
(* hands, whose model is not loaded.                                        *)
ActiveOwned ==
    activeLoading # None =>
      /\ p.pc \notin {"idle", "check", "use", "panic"}
      /\ p.pc # "stopped" =>
           /\ runner[activeLoading].model = req[p.cur].model
           /\ loaded[req[p.cur].model] = None

(* load works on the server in activeLoading; it is gone only if the        *)
(* shutdown goroutine took it away.                                         *)
LlamaIsActive ==
    p.pc = "loading" =>
      activeLoading = p.llama \/ (activeLoading = None /\ ctx = "unloaded")

ServersTracked ==
    \A x \in Runners :
      runner[x].proc = "up" => x \in LoadedRunners \cup {activeLoading}

Loading ==
    /\ SlotReserved /\ ActiveOwned /\ LlamaIsActive /\ ServersTracked
    /\ AtMostMaxRunners /\ NoPanic

LEMMA LoadingInit == Init => Loading
<1>. SUFFICES ASSUME Init PROVE Loading
  OBVIOUS
<1>1. Loaded = {}
  BY DEF Init, Loaded
<1>2. AtMostMaxRunners
  BY <1>1, FS_EmptySet, MaxRunnersAssumption DEF AtMostMaxRunners
<1>3. ServersTracked
  BY DEF Init, ServersTracked, NoRunner
<1>. QED
  BY <1>2, <1>3 DEF Init, Loading, SlotReserved, ActiveOwned, LlamaIsActive,
     NoPanic, PendingIdle

(* A step that adds no runner, starts no server and leaves processPending   *)
(* where it is.                                                             *)
LEMMA LoadingFrame ==
    ASSUME Typed, Loading, UNCHANGED <<loaded, activeLoading, p>>,
           ctx' = ctx \/ ctx = "running",
           p.pc \notin {"idle", "stopped"} => req'[p.cur].model = req[p.cur].model,
           \A x \in Runners : runner'[x].model = runner[x].model,
           \A x \in Runners : runner'[x].proc = "up" => runner[x].proc = "up"
    PROVE  Loading'
<1>1. Loaded' = Loaded /\ LoadedRunners' = LoadedRunners
  BY DEF Loaded, LoadedRunners
<1>2. activeLoading \in Runners \cup {None}
  BY DEF Typed, TypeOK
<1>3. SlotReserved' /\ AtMostMaxRunners'
  BY <1>1 DEF Loading, SlotReserved, AtMostMaxRunners
<1>4. ActiveOwned'
  <2>1. CASE activeLoading = None
    BY <2>1 DEF ActiveOwned
  <2>2. CASE activeLoading # None
    <3>1. runner'[activeLoading].model = runner[activeLoading].model
      BY <1>2, <2>2
    <3>2. ActiveOwned
      BY DEF Loading
    <3>. QED  BY <2>2, <3>1, <3>2 DEF ActiveOwned
  <2>. QED  BY <2>1, <2>2
<1>5. LlamaIsActive' /\ NoPanic'
  BY DEF Loading, LlamaIsActive, NoPanic
<1>6. ServersTracked'
  <2>1. ServersTracked
    BY DEF Loading
  <2>. QED  BY <1>1, <2>1 DEF ServersTracked
<1>. QED  BY <1>3, <1>4, <1>5, <1>6 DEF Loading

(* A step of processPending that touches no runner's model or server and    *)
(* keeps its request.                                                       *)
LEMMA LoadingMove ==
    ASSUME Typed, Loading, UNCHANGED <<loaded, activeLoading, ctx>>,
           p.pc \notin {"idle", "stopped", "panic"}, p'.cur = p.cur,
           req'[p.cur].model = req[p.cur].model,
           \A x \in Runners : runner'[x].model = runner[x].model,
           \A x \in Runners : runner'[x].proc = "up" => runner[x].proc = "up",
           p'.pc \in {"top", "find", "evict", "expire", "wait"}
    PROVE  Loading'
<1>1. Loaded' = Loaded /\ LoadedRunners' = LoadedRunners
  BY DEF Loaded, LoadedRunners
<1>2. activeLoading \in Runners \cup {None}
  BY DEF Typed, TypeOK
<1>3. SlotReserved' /\ AtMostMaxRunners'
  BY <1>1 DEF Loading, SlotReserved, AtMostMaxRunners
<1>4. ActiveOwned'
  <2>1. CASE activeLoading = None
    BY <2>1 DEF ActiveOwned
  <2>2. CASE activeLoading # None
    <3>1. runner'[activeLoading].model = runner[activeLoading].model
      BY <1>2, <2>2
    <3>2. ActiveOwned
      BY DEF Loading
    <3>. QED  BY <2>2, <3>1, <3>2 DEF ActiveOwned
  <2>. QED  BY <2>1, <2>2
<1>5. LlamaIsActive' /\ NoPanic'
  BY DEF Loading, LlamaIsActive, NoPanic
<1>6. ServersTracked'
  <2>1. ServersTracked
    BY DEF Loading
  <2>. QED  BY <1>1, <2>1 DEF ServersTracked
<1>. QED  BY <1>3, <1>4, <1>5, <1>6 DEF Loading

(* The handlers and everything else that runs beside the two loops.         *)
LEMMA OutsideLoading ==
    ASSUME Typed, Loading,
           \/ \E q \in Requests : Handler(q) \/ ContextDone(q) \/ Loader(q)
           \/ \E x \in Runners : Timers(x)
           \/ Api \/ Shutdown
    PROVE  Loading'
<1>. USE DEF table, chans, env
<1>0. /\ TypeOK /\ runner \in [Runners -> RunnerRecord]
      /\ p.pc \notin {"idle", "stopped"} => p.cur \in Requests /\ req[p.cur].state = "queued"
  BY DEF Typed, TypeOK, PendingTyped
<1>1. ASSUME NEW q \in Requests, Handler(q) PROVE Loading'
  <2>1. CASE GetRunner(q)
    <3>1. /\ req[q].state = "new" /\ \A r \in Requests \ {q} : req'[r] = req[r]
          /\ UNCHANGED <<loaded, activeLoading, p, runner, ctx>>
      BY <1>0, <2>1 DEF GetRunner, TypeOK
    <3>. QED  BY <1>0, <3>1, LoadingFrame
  <2>2. CASE CheckRunner(q)
    <3>1. /\ req[q].state = "checking" /\ \A r \in Requests \ {q} : req'[r] = req[r]
          /\ UNCHANGED <<loaded, activeLoading, p, runner, ctx>>
      BY <1>0, <2>2 DEF CheckRunner, TypeOK
    <3>. QED  BY <1>0, <3>1, LoadingFrame
  <2>3. CASE UseRunner(q)
    <3>1. /\ req[q].state = "using" /\ UseLoadedRunner(q, req[q].runner)
          /\ UNCHANGED <<loaded, activeLoading, p, ctx>>
      BY <2>3 DEF UseRunner
    <3>2. req[q].runner \in Runners
      BY <3>1 DEF Typed, RequestsTyped
    <3>. QED  BY <1>0, <3>1, <3>2, UseLoadedRunnerTyped, LoadingFrame
  <2>4. CASE Enqueue(q)
    <3>1. /\ req[q].state = "enqueue"
          /\ \A r \in Requests \ {q} : req'[r] = req[r]
          /\ UNCHANGED <<loaded, activeLoading, p, runner, ctx>>
      BY <1>0, <2>4 DEF Enqueue, Fail, TypeOK
    <3>. QED  BY <1>0, <3>1, LoadingFrame
  <2>. QED  BY <1>1, <2>1, <2>2, <2>3, <2>4 DEF Handler
<1>2. ASSUME NEW q \in Requests, ContextDone(q) PROVE Loading'
  <2>1. req' = [req EXCEPT ![q].done = TRUE] /\ req \in [Requests -> RequestRecord]
    BY <1>0, <1>2 DEF ContextDone, TypeOK
  <2>2. \A r \in Requests : req'[r].model = req[r].model
    BY <2>1 DEF RequestRecord
  <2>. QED  BY <1>0, <1>2, <2>2, LoadingFrame DEF ContextDone
<1>3. ASSUME NEW q \in Requests, Loader(q) PROVE Loading'
  <2>. DEFINE x == req[q].runner
  <2>1. /\ req[q].state = "loading" /\ x \in Runners
        /\ UNCHANGED <<loaded, activeLoading, p, ctx>>
    BY <1>3 DEF Loader, LoaderReady, LoaderFailed, Typed, RequestsTyped
  <2>2. \A r \in Requests \ {q} : req'[r] = req[r]
    BY <1>0, <1>3 DEF Loader, LoaderReady, LoaderFailed, Fail, TypeOK
  <2>3. \/ runner' = [runner EXCEPT ![x].refMu = "free"]
        \/ runner' = [runner EXCEPT ![x].refCount = Referenced(@), ![x].refMu = "free"]
    BY <1>3 DEF Loader, LoaderReady, LoaderFailed
  <2>4. \A y \in Runners : runner'[y].model = runner[y].model /\ runner'[y].proc = runner[y].proc
    BY <1>0, <2>1, <2>3 DEF RunnerRecord
  <2>. QED  BY <1>0, <2>1, <2>2, <2>4, LoadingFrame
<1>4. ASSUME NEW x \in Runners, Timers(x) PROVE Loading'
  <2>1. UNCHANGED <<loaded, activeLoading, req, p, ctx>>
    BY <1>4 DEF Timers, TimerFires, TimerCallback, Requeue
  <2>2. \A y \in Runners : runner'[y].model = runner[y].model /\ runner'[y].proc = runner[y].proc
    BY <1>0, <1>4 DEF Timers, TimerFires, TimerCallback, Requeue, RunnerRecord
  <2>. QED  BY <1>0, <2>1, <2>2, LoadingFrame
<1>5. CASE Api
  <2>1. UNCHANGED <<loaded, activeLoading, req, p, ctx>>
    BY <1>5 DEF Api, RuntimeOOM, ExpireModel, ApiExpire
  <2>2. \A y \in Runners : runner'[y].model = runner[y].model /\ runner'[y].proc = runner[y].proc
    BY <1>0, <1>5, ExpireNowTyped DEF Api, RuntimeOOM, ExpireModel, ApiExpire
  <2>. QED  BY <1>0, <2>1, <2>2, LoadingFrame
<1>6. CASE Shutdown
  BY <1>0, <1>6, LoadingFrame DEF Shutdown
<1>. QED  BY <1>1, <1>2, <1>3, <1>4, <1>5, <1>6

(* Steps of processPending that do not load.                                *)
LEMMA SchedulingLoading ==
    ASSUME Typed, Loading,
           \/ TakePending \/ IgnoreUnloaded \/ Snapshot \/ CheckLoaded \/ UseLoaded
           \/ FindRunnerToUnload \/ EvictAll \/ ExpireTarget \/ WaitUnloaded
           \/ StopPending
    PROVE  Loading'
<1>. USE DEF table, chans, env
<1>0. /\ TypeOK /\ runner \in [Runners -> RunnerRecord] /\ p \in PendingRecord
      /\ activeLoading \in Runners \cup {None}
      /\ p.pc \notin {"idle", "stopped"} => p.cur \in Requests
  BY DEF Typed, TypeOK, PendingTyped
<1>1. CASE TakePending
  <2>1. /\ p.pc = "idle" /\ UNCHANGED <<loaded, activeLoading, runner, ctx>>
        /\ p' = p \/ p'.pc = "top"
    BY <1>0, <1>1 DEF TakePending, PendingRecord
  <2>2. activeLoading = None
    BY <2>1 DEF Loading, ActiveOwned
  <2>3. Loaded' = Loaded /\ LoadedRunners' = LoadedRunners
    BY <2>1 DEF Loaded, LoadedRunners
  <2>. QED
    BY <2>1, <2>2, <2>3 DEF Loading, SlotReserved, ActiveOwned, LlamaIsActive,
       ServersTracked, AtMostMaxRunners, NoPanic
<1>2. CASE IgnoreUnloaded
  BY <1>0, <1>2, LoadingFrame DEF IgnoreUnloaded
<1>3. CASE Snapshot
  <2>. DEFINE x == loaded[req[p.cur].model]
  <2>1. /\ p.pc = "top" /\ UNCHANGED <<loaded, activeLoading, runner, req, ctx>>
        /\ p'.cur = p.cur
        /\ \/ x # None /\ p'.pc = "check"
           \/ x = None /\ p'.pc = "find"
           \/ x = None /\ ~AtLimit /\ p'.pc = "load"
    BY <1>0, <1>3 DEF Snapshot, PendingRecord
  <2>2. ~AtLimit => Cardinality(Loaded) < MaxRunners
    BY <1>0, LoadedFinite, FS_CardinalityType, MaxRunnersAssumption DEF AtLimit
  <2>3. Loaded' = Loaded /\ LoadedRunners' = LoadedRunners
    BY <2>1 DEF Loaded, LoadedRunners
  <2>4. SlotReserved' /\ AtMostMaxRunners'
    BY <2>1, <2>2, <2>3 DEF Loading, SlotReserved, AtMostMaxRunners
  <2>5. ActiveOwned'
    BY <2>1 DEF Loading, ActiveOwned
  <2>6. LlamaIsActive' /\ NoPanic' /\ ServersTracked'
    BY <2>1, <2>3 DEF Loading, LlamaIsActive, NoPanic, ServersTracked
  <2>. QED  BY <2>4, <2>5, <2>6 DEF Loading
<1>4. CASE CheckLoaded
  <2>1. /\ p.pc = "check" /\ UNCHANGED <<loaded, activeLoading, runner, req, ctx>>
        /\ p'.pc \in {"expire", "use"}
    BY <1>0, <1>4 DEF CheckLoaded, PendingRecord
  <2>2. activeLoading = None
    BY <2>1 DEF Loading, ActiveOwned
  <2>3. Loaded' = Loaded /\ LoadedRunners' = LoadedRunners
    BY <2>1 DEF Loaded, LoadedRunners
  <2>. QED
    BY <2>1, <2>2, <2>3 DEF Loading, SlotReserved, ActiveOwned, LlamaIsActive,
       ServersTracked, AtMostMaxRunners, NoPanic
<1>5. CASE UseLoaded
  <2>1. /\ p.pc = "use" /\ UNCHANGED <<loaded, activeLoading, ctx>>
        /\ p'.pc = "idle"
    BY <1>5, PendingIdleTyped DEF UseLoaded
  <2>2. \A y \in Runners : runner'[y].proc = runner[y].proc
    <3>1. PICK x \in p.targets : UseLoadedRunner(p.cur, x)
      BY <1>5 DEF UseLoaded
    <3>2. x \in Runners
      BY <1>0 DEF PendingRecord
    <3>. QED  BY <1>0, <2>1, <3>1, <3>2, UseLoadedRunnerTyped
  <2>3. activeLoading = None
    BY <2>1 DEF Loading, ActiveOwned
  <2>4. Loaded' = Loaded /\ LoadedRunners' = LoadedRunners
    BY <2>1 DEF Loaded, LoadedRunners
  <2>5. ServersTracked'
    BY <2>1, <2>2, <2>4 DEF Loading, ServersTracked
  <2>. QED
    BY <2>1, <2>3, <2>4, <2>5 DEF Loading, SlotReserved, ActiveOwned, LlamaIsActive,
       AtMostMaxRunners, NoPanic
<1>6. CASE FindRunnerToUnload \/ EvictAll \/ WaitUnloaded
  <2>1. /\ p.pc \in {"find", "evict", "wait"}
        /\ UNCHANGED <<loaded, activeLoading, runner, req, ctx>>
    BY <1>6 DEF FindRunnerToUnload, EvictAll, WaitUnloaded
  <2>2. p'.cur = p.cur /\ p'.pc \in {"top", "expire", "wait"}
    BY <1>0, <1>6 DEF FindRunnerToUnload, EvictAll, WaitUnloaded, PendingRecord
  <2>. QED  BY <2>1, <2>2, LoadingMove
<1>7. CASE ExpireTarget
  <2>1. PICK x \in p.todo :
          /\ ExpireNow(x)
          /\ p' = [p EXCEPT !.todo = @ \ {x},
                            !.pc = IF p.todo = {x} THEN "wait" ELSE @,
                            !.need = IF p.todo = {x} THEN Cardinality(p.targets) ELSE 0]
    BY <1>7 DEF ExpireTarget
  <2>2. p.pc = "expire" /\ UNCHANGED <<loaded, activeLoading, req, ctx>>
    BY <1>7 DEF ExpireTarget
  <2>3. p'.cur = p.cur /\ p'.pc \in {"expire", "wait"} /\ x \in Runners
    BY <1>0, <2>1, <2>2 DEF PendingRecord
  <2>4. \A y \in Runners : runner'[y].model = runner[y].model /\ runner'[y].proc = runner[y].proc
    BY <1>0, <2>1, <2>3, ExpireNowTyped
  <2>. QED  BY <2>2, <2>3, <2>4, LoadingMove
<1>8. CASE StopPending
  <2>1. /\ p.pc \in {"idle", "wait"} /\ p'.pc = "stopped"
        /\ UNCHANGED <<loaded, activeLoading, runner, ctx>>
    BY <1>8 DEF StopPending, PendingIdle
  <2>2. Loaded' = Loaded /\ LoadedRunners' = LoadedRunners
    BY <2>1 DEF Loaded, LoadedRunners
  <2>. QED
    BY <2>1, <2>2 DEF Loading, SlotReserved, ActiveOwned, LlamaIsActive,
       ServersTracked, AtMostMaxRunners, NoPanic
<1>. QED  BY <1>1, <1>2, <1>3, <1>4, <1>5, <1>6, <1>7, <1>8

(* Steps of processCompleted, and the shutdown goroutine.                   *)
LEMMA UnloadingLoading ==
    ASSUME Typed, Loading, ProcessCompleted \/ UnloadAllRunners
    PROVE  Loading'
<1>. USE DEF table, chans, env
<1>0. /\ TypeOK /\ runner \in [Runners -> RunnerRecord]
      /\ c.runner \in Runners \cup {None}
      /\ activeLoading \in Runners \cup {None}
      /\ loaded \in [Models -> Runners \cup {None}]
      /\ p.pc \notin {"idle", "stopped"} => p.cur \in Requests /\ req[p.cur].state = "queued"
  BY DEF Typed, TypeOK, PendingTyped
<1>1. CASE Expired
  <2>. DEFINE x == Head(expiredCh)
              m == runner[x].model
  <2>0. /\ expiredCh # <<>>
        /\ UNCHANGED <<activeLoading, req, p, ctx>>
    BY <1>1 DEF Expired
  <2>1. x \in Runners /\ runner[x] \in RunnerRecord
    BY <1>0, <2>0 DEF TypeOK
  <2>2. CASE runner' = [runner EXCEPT ![x].retries = @ + 1] /\ UNCHANGED <<loaded, c>>
    <3>1. \A y \in Runners : runner'[y].model = runner[y].model /\ runner'[y].proc = runner[y].proc
      BY <1>0, <2>2 DEF RunnerRecord
    <3>. QED  BY <2>0, <2>2, <3>1, LoadingFrame
  <2>3. CASE UNCHANGED <<runner, loaded, c>>
    BY <2>0, <2>3, LoadingFrame
  <2>4. CASE runner' = [runner EXCEPT ![x] = Unload(@)] /\ UNCHANGED <<loaded, c>>
    <3>1. Unload(runner[x]).model = runner[x].model /\ Unload(runner[x]).proc = "closed"
      BY <2>1, UnloadTyped
    <3>2. \A y \in Runners : runner'[y].model = runner[y].model
      BY <1>0, <2>4, <3>1
    <3>3. \A y \in Runners : runner'[y].proc = "up" => runner[y].proc = "up"
      BY <1>0, <2>4, <3>1
    <3>. QED  BY <2>0, <2>4, <3>2, <3>3, LoadingFrame
  <2>5. CASE /\ loaded[m] = x
             /\ runner' = [runner EXCEPT ![x] = [Unload(@) EXCEPT !.refMu = "completed"]]
             /\ loaded' = [loaded EXCEPT ![m] = None]
    <3>. DEFINE r == [Unload(runner[x]) EXCEPT !.refMu = "completed"]
    <3>1. r.model = m /\ r.proc = "closed"
      BY <2>1 DEF Unload, RunnerRecord
    <3>2. runner' = [runner EXCEPT ![x] = r]
      BY <2>5
    <3>. HIDE DEF r
    <3>3. \A y \in Runners : runner'[y].model = runner[y].model
      BY <1>0, <3>1, <3>2
    <3>4. \A y \in Runners : runner'[y].proc = "up" => runner[y].proc = "up" /\ y # x
      BY <1>0, <3>1, <3>2
    <3>5. /\ Loaded' \subseteq Loaded
          /\ \A n \in Models : loaded'[n] = loaded[n] \/ loaded'[n] = None
          /\ \A n \in Loaded : loaded[n] # x => n \in Loaded' /\ loaded'[n] = loaded[n]
      BY <1>0, <2>5 DEF Loaded
    <3>6. /\ Cardinality(Loaded') <= Cardinality(Loaded)
          /\ Cardinality(Loaded) \in Nat /\ Cardinality(Loaded') \in Nat
      BY <1>0, <3>5, LoadedFinite, FS_Subset, FS_CardinalityType
    <3>7. AtMostMaxRunners'
      BY <3>6, MaxRunnersAssumption DEF Loading, AtMostMaxRunners
    <3>8. p.pc \notin {"idle", "stopped"} /\ loaded[req[p.cur].model] = None
            => loaded'[req[p.cur].model] = None
      BY <1>0, <3>5 DEF Typed, RequestsTyped
    <3>9. SlotReserved'
      BY <2>0, <3>6, <3>8, MaxRunnersAssumption DEF Loading, SlotReserved
    <3>10. ActiveOwned'
      <4>1. CASE activeLoading = None
        BY <2>0, <4>1 DEF ActiveOwned
      <4>2. CASE activeLoading # None
        <5>1. runner'[activeLoading].model = runner[activeLoading].model
          BY <1>0, <3>3, <4>2
        <5>. QED  BY <2>0, <3>8, <4>2, <5>1 DEF Loading, ActiveOwned
      <4>. QED  BY <4>1, <4>2
    <3>11. ServersTracked'
      <4>. SUFFICES ASSUME NEW y \in Runners, runner'[y].proc = "up"
                    PROVE  y \in LoadedRunners' \cup {activeLoading'}
        BY DEF ServersTracked
      <4>1. y # x /\ y \in LoadedRunners \cup {activeLoading}
        BY <3>4 DEF Loading, ServersTracked
      <4>2. CASE y = activeLoading
        BY <2>0, <4>2
      <4>3. CASE y \in LoadedRunners
        BY <3>5, <4>1, <4>3 DEF LoadedRunners
      <4>. QED  BY <4>1, <4>2, <4>3
    <3>12. LlamaIsActive' /\ NoPanic'
      BY <2>0 DEF Loading, LlamaIsActive, NoPanic
    <3>. QED  BY <3>7, <3>9, <3>10, <3>11, <3>12 DEF Loading
  <2>. QED  BY <1>1, <2>2, <2>3, <2>4, <2>5 DEF Expired
<1>2. CASE Recovered \/ StopCompleted
  <2>1. UNCHANGED <<loaded, activeLoading, req, p, ctx>>
    BY <1>2 DEF Recovered, StopCompleted
  <2>2. UNCHANGED runner \/ runner' = [runner EXCEPT ![c.runner].refMu = "free"]
    BY <1>2 DEF Recovered, StopCompleted
  <2>3. \A y \in Runners : runner'[y].model = runner[y].model /\ runner'[y].proc = runner[y].proc
    BY <1>0, <2>2 DEF RunnerRecord
  <2>. QED  BY <2>1, <2>3, LoadingFrame
<1>3. ASSUME NEW q \in Requests, Finished(q) PROVE Loading'
  <2>. DEFINE x == loaded[req[q].model]
              n == Dereferenced(runner[x].refCount)
              b == IF n # 0 THEN runner[x].armed ELSE runner[x].duration # Zero
  <2>1. /\ req[q].state = "served" /\ req' = [req EXCEPT ![q].state = "finished"]
        /\ \/ UNCHANGED runner
           \/ runner' = [runner EXCEPT ![x].refCount = n, ![x].armed = b]
        /\ UNCHANGED <<loaded, activeLoading, p, ctx>>
    BY <1>3 DEF Finished
  <2>. HIDE DEF n, b, x
  <2>2. \A y \in Runners : runner'[y].model = runner[y].model /\ runner'[y].proc = runner[y].proc
    BY <1>0, <2>1 DEF RunnerRecord
  <2>3. \A r \in Requests \ {q} : req'[r] = req[r]
    BY <1>0, <2>1 DEF TypeOK
  <2>. QED  BY <1>0, <2>1, <2>2, <2>3, LoadingFrame
<1>4. CASE UnloadAllRunners
  <2>1. /\ ctx' = "unloaded" /\ activeLoading' = None
        /\ runner' = [x \in Runners |->
             IF x \in LoadedRunners \cup {activeLoading}
             THEN [runner[x] EXCEPT !.proc = "closed"] ELSE runner[x]]
        /\ UNCHANGED <<loaded, req, p>>
    BY <1>4 DEF UnloadAllRunners
  <2>2. Loaded' = Loaded /\ LoadedRunners' = LoadedRunners
    BY <2>1 DEF Loaded, LoadedRunners
  <2>3. \A x \in Runners : runner'[x].proc # "up"
    <3>. SUFFICES ASSUME NEW x \in Runners PROVE runner'[x].proc # "up"
      OBVIOUS
    <3>1. [runner[x] EXCEPT !.proc = "closed"].proc = "closed"
      BY <1>0 DEF RunnerRecord
    <3>. QED  BY <2>1, <3>1 DEF Loading, ServersTracked
  <2>4. SlotReserved' /\ AtMostMaxRunners'
    BY <2>1, <2>2 DEF Loading, SlotReserved, AtMostMaxRunners
  <2>. QED
    BY <2>1, <2>3, <2>4 DEF Loading, ActiveOwned, LlamaIsActive, NoPanic, ServersTracked
<1>. QED  BY <1>1, <1>2, <1>3, <1>4 DEF ProcessCompleted

(* Closing the server in activeLoading untracks it.                         *)
LEMMA CloseActiveTracked ==
    ASSUME Typed, Loading, CloseActive, UNCHANGED loaded
    PROVE  /\ ServersTracked' /\ activeLoading' = None
           /\ Loaded' = Loaded
<1>1. TypeOK
  BY DEF Typed
<1>2. Loaded' = Loaded /\ LoadedRunners' = LoadedRunners
  BY DEF Loaded, LoadedRunners
<1>3. ServersTracked
  BY DEF Loading
<1>4. ServersTracked'
  <2>. SUFFICES ASSUME NEW x \in Runners, runner'[x].proc = "up"
                PROVE  x \in LoadedRunners'
    BY DEF ServersTracked
  <2>1. x # activeLoading /\ runner'[x] = runner[x]
    BY <1>1, CloseActiveTyped
  <2>. QED  BY <1>2, <1>3, <2>1 DEF ServersTracked
<1>. QED  BY <1>1, <1>2, <1>4, CloseActiveTyped

(* Steps of load.                                                           *)
LEMMA LoadingLoading ==
    ASSUME Typed, Loading,
           LoadStart \/ Install \/ LoadNoFit \/ LoadError \/ LoadErrorAfterShutdown
    PROVE  Loading'
<1>. USE DEF table, chans, env
<1>0. /\ TypeOK /\ runner \in [Runners -> RunnerRecord] /\ p \in PendingRecord
      /\ activeLoading \in Runners \cup {None}
      /\ loaded \in [Models -> Runners \cup {None}]
      /\ p.pc \in {"load", "loading"} =>
           p.cur \in Requests /\ req[p.cur].model \in Models
  BY DEF Typed, TypeOK, PendingTyped, RequestsTyped
<1>1. CASE LoadStart
  <2>0. p.pc = "load" /\ UNCHANGED <<loaded, ctx>>
    BY <1>1 DEF LoadStart
  <2>1. Loaded' = Loaded /\ LoadedRunners' = LoadedRunners
    BY <2>0 DEF Loaded, LoadedRunners
  <2>2. CASE activeLoading = None /\ p' = AfterLoadFalse /\ UNCHANGED <<activeLoading, runner>>
    <3>1. p'.pc = "idle"
      BY <2>2, PendingIdleTyped DEF AfterLoadFalse
    <3>. QED
      BY <2>0, <2>1, <2>2, <3>1 DEF Loading, SlotReserved, ActiveOwned, LlamaIsActive,
         ServersTracked, AtMostMaxRunners, NoPanic
  <2>3. CASE p' = AfterLoadTrue(req[p.cur].oomRetried) /\ UNCHANGED <<activeLoading, runner, req>>
    <3>1. p'.cur = p.cur /\ p'.pc \in {"top", "evict", "find"}
      BY <1>0, <2>3, RetryPending
    <3>. QED  BY <2>0, <2>3, <3>1, LoadingMove
  <2>4. ASSUME NEW x \in Fresh, activeLoading = None,
               runner' = [runner EXCEPT ![x] = StartedRunner(req[p.cur].model)],
               activeLoading' = x,
               p' = [p EXCEPT !.pc = "loading", !.llama = x],
               UNCHANGED req
        PROVE  Loading'
    <3>1. x \in Runners /\ x # None
      BY NoneAssumption DEF Fresh
    <3>2. runner'[x].model = req[p.cur].model
      BY <1>0, <2>0, <2>4, <3>1, StartedRunnerTyped
    <3>3. p'.cur = p.cur /\ p'.pc = "loading" /\ p'.llama = x
      BY <1>0, <2>4 DEF PendingRecord
    <3>4. ServersTracked'
      <4>1. \A y \in Runners : runner'[y].proc = "up" => y = x \/ runner[y].proc = "up"
        BY <1>0, <2>4
      <4>. SUFFICES ASSUME NEW y \in Runners, runner'[y].proc = "up"
                    PROVE  y \in LoadedRunners' \cup {activeLoading'}
        BY DEF ServersTracked
      <4>2. CASE y = x
        BY <2>4, <4>2
      <4>3. CASE y # x
        BY <2>1, <2>4, <4>1, <4>3, NoneAssumption DEF Loading, ServersTracked
      <4>. QED  BY <4>2, <4>3
    <3>5. SlotReserved' /\ AtMostMaxRunners'
      BY <2>0, <2>1, <2>4, <3>3 DEF Loading, SlotReserved, AtMostMaxRunners
    <3>6. ActiveOwned'
      BY <2>0, <2>4, <3>2, <3>3 DEF Loading, SlotReserved, ActiveOwned
    <3>7. LlamaIsActive' /\ NoPanic'
      BY <2>4, <3>3 DEF LlamaIsActive, NoPanic
    <3>. QED  BY <3>4, <3>5, <3>6, <3>7 DEF Loading
  <2>5. CASE /\ activeLoading # None
             /\ p' = IF runner[activeLoading].model = req[p.cur].model
                     THEN [p EXCEPT !.pc = "loading", !.llama = activeLoading]
                     ELSE [p EXCEPT !.pc = "panic"]
             /\ UNCHANGED <<activeLoading, runner, req>>
    <3>1. runner[activeLoading].model = req[p.cur].model
      BY <2>0, <2>5 DEF Loading, ActiveOwned
    <3>2. p'.cur = p.cur /\ p'.pc = "loading" /\ p'.llama = activeLoading
      BY <1>0, <2>5, <3>1 DEF PendingRecord
    <3>3. SlotReserved' /\ AtMostMaxRunners'
      BY <2>0, <2>1, <2>5, <3>2 DEF Loading, SlotReserved, AtMostMaxRunners
    <3>4. ActiveOwned' /\ LlamaIsActive' /\ NoPanic'
      BY <2>0, <2>5, <3>2 DEF Loading, ActiveOwned, LlamaIsActive, NoPanic
    <3>5. ServersTracked'
      BY <2>1, <2>5 DEF Loading, ServersTracked
    <3>. QED  BY <3>3, <3>4, <3>5 DEF Loading
  <2>6. Fresh # {} => (CHOOSE x \in Fresh : TRUE) \in Fresh
    OBVIOUS
  <2>. QED  BY <1>1, <2>2, <2>3, <2>4, <2>5, <2>6 DEF LoadStart
<1>2. CASE Install
  <2>. DEFINE x == p.llama
              m == req[p.cur].model
              d == IF req[p.cur].keepAlive = Unset THEN DefaultKeepAlive
                   ELSE req[p.cur].keepAlive
  <2>0. /\ p.pc = "loading" /\ activeLoading' = None /\ p'.pc = "idle"
        /\ UNCHANGED ctx /\ loaded' = [loaded EXCEPT ![m] = x]
        /\ runner' = [y \in Runners |->
             IF y = x THEN [runner[y] EXCEPT !.duration = d, !.refMu = "loader"]
             ELSE IF y = loaded[m] THEN Unload(runner[y]) ELSE runner[y]]
    BY <1>2, PendingIdleTyped DEF Install, AfterLoadFalse
  <2>1. /\ x \in Runners /\ m \in Models /\ loaded[m] = None
        /\ Cardinality(Loaded) < MaxRunners
        /\ activeLoading = x \/ activeLoading = None
    BY <1>0, <2>0 DEF Typed, PendingWork, Loading, SlotReserved, LlamaIsActive
  <2>2. /\ Loaded' = Loaded \cup {m} /\ m \notin Loaded
        /\ \A n \in Loaded : loaded'[n] = loaded[n]
        /\ loaded'[m] = x
    BY <1>0, <2>0, <2>1, NoneAssumption DEF Loaded
  <2>3. AtMostMaxRunners'
    <3>1. IsFiniteSet(Loaded) /\ Cardinality(Loaded) \in Nat
      BY <1>0, LoadedFinite, FS_CardinalityType
    <3>2. Cardinality(Loaded') = Cardinality(Loaded) + 1
      BY <2>2, <3>1, FS_AddElement
    <3>. QED  BY <2>1, <3>1, <3>2, MaxRunnersAssumption DEF AtMostMaxRunners
  <2>. HIDE DEF d
  <2>4. ServersTracked'
    <3>. SUFFICES ASSUME NEW y \in Runners, runner'[y].proc = "up"
                  PROVE  y \in LoadedRunners'
      BY DEF ServersTracked
    <3>1. CASE y = x
      BY <2>2, <3>1 DEF LoadedRunners
    <3>2. CASE y # x
      <4>1. runner'[y] = runner[y]
        BY <2>0, <2>1, <3>2, NoneAssumption
      <4>2. y \in LoadedRunners
        BY <2>1, <3>2, <4>1, NoneAssumption DEF Loading, ServersTracked
      <4>. QED  BY <2>2, <4>2 DEF LoadedRunners
    <3>. QED  BY <3>1, <3>2
  <2>. QED
    BY <2>0, <2>3, <2>4 DEF Loading, SlotReserved, ActiveOwned, LlamaIsActive, NoPanic
<1>3. CASE LoadNoFit
  <2>0. p.pc = "loading" /\ UNCHANGED <<loaded, ctx>>
    BY <1>3 DEF LoadNoFit
  <2>1. CASE p' = AfterLoadTrue(req[p.cur].oomRetried) /\ UNCHANGED <<activeLoading, runner, req>>
    <3>1. p'.cur = p.cur /\ p'.pc \in {"top", "evict", "find"}
      BY <1>0, <2>1, RetryPending
    <3>. QED  BY <2>0, <2>1, <3>1, LoadingMove
  <2>2. CASE CloseActive /\ p' = AfterLoadFalse
    <3>1. p'.pc = "idle"
      BY <2>2, PendingIdleTyped DEF AfterLoadFalse
    <3>2. ServersTracked' /\ activeLoading' = None /\ Loaded' = Loaded
      BY <2>0, <2>2, CloseActiveTracked
    <3>. QED
      BY <3>1, <3>2 DEF Loading, SlotReserved, ActiveOwned, LlamaIsActive,
         AtMostMaxRunners, NoPanic
  <2>. QED  BY <1>3, <2>1, <2>2 DEF LoadNoFit
<1>4. CASE LoadError
  <2>0. p.pc = "loading" /\ CloseActive /\ UNCHANGED <<loaded, ctx>>
    BY <1>4 DEF LoadError
  <2>1. ServersTracked' /\ activeLoading' = None /\ Loaded' = Loaded
    BY <2>0, CloseActiveTracked
  <2>2. p'.pc \in {"idle", "top", "evict", "find"}
    BY <1>0, <1>4, RetryPending, PendingIdleTyped DEF LoadError, AfterLoadFalse
  <2>. QED
    BY <2>1, <2>2 DEF Loading, SlotReserved, ActiveOwned, LlamaIsActive,
       AtMostMaxRunners, NoPanic
<1>5. CASE LoadErrorAfterShutdown
  <2>0. /\ p.pc = "loading" /\ activeLoading = None /\ p'.pc = "panic"
        /\ UNCHANGED <<loaded, activeLoading, runner, ctx>>
    BY <1>0, <1>5 DEF LoadErrorAfterShutdown, PendingRecord
  <2>1. p.llama # None
    BY <2>0, NoneAssumption DEF Typed, PendingWork
  <2>2. Loaded' = Loaded /\ LoadedRunners' = LoadedRunners
    BY <2>0 DEF Loaded, LoadedRunners
  <2>. QED
    BY <2>0, <2>1, <2>2 DEF Loading, SlotReserved, ActiveOwned, LlamaIsActive,
       ServersTracked, AtMostMaxRunners, NoPanic
<1>. QED  BY <1>1, <1>2, <1>3, <1>4, <1>5

LEMMA LoadingStep == Typed /\ Loading /\ [Next]_vars => Loading'
<1>. SUFFICES ASSUME Typed, Loading, [Next]_vars PROVE Loading'
  OBVIOUS
<1>1. CASE ProcessPending
  BY <1>1, SchedulingLoading, LoadingLoading DEF ProcessPending
<1>2. CASE ProcessCompleted \/ UnloadAllRunners
  BY <1>2, UnloadingLoading
<1>3. CASE \/ \E q \in Requests : Handler(q) \/ ContextDone(q) \/ Loader(q)
           \/ \E x \in Runners : Timers(x)
           \/ Api \/ Shutdown
  BY <1>3, OutsideLoading
<1>4. CASE UNCHANGED vars
  BY <1>4, LoadingFrame DEF vars
<1>. QED  BY <1>1, <1>2, <1>3, <1>4 DEF Next

(* The second layer holds in every reachable state.                         *)
THEOREM LoadingAlways == Spec => []Loading
<1>1. Loading /\ Typed /\ [Next]_vars => Loading'
  BY LoadingStep
<1>. QED  BY <1>1, LoadingInit, TypedAlways, PTL DEF Spec

(* OLLAMA_MAX_LOADED_MODELS is never exceeded, however many requests, load  *)
(* failures, expirations and shutdowns interleave: the check at the top of  *)
(* processPending stays true until load installs the runner.                *)
THEOREM MaxRunnersRespected == Spec => []AtMostMaxRunners
<1>1. Loading => AtMostMaxRunners
  BY DEF Loading
<1>. QED  BY <1>1, LoadingAlways, PTL

(* The panic "attempting to load different model after eviction" cannot     *)
(* happen, and activeLoading is not nil when load closes it, unless the     *)
(* shutdown goroutine has run.                                              *)
THEOREM PanicOnlyAtShutdown == Spec => []NoPanic
<1>1. Loading => NoPanic
  BY DEF Loading
<1>. QED  BY <1>1, LoadingAlways, PTL

(* Every running llama server is in loaded or in activeLoading, and the one *)
(* in activeLoading belongs to the request being retried.                   *)
THEOREM ServersNotLeaked == Spec => []NoLeakedServer
<1>1. Loading => NoLeakedServer
  BY DEF Loading, ServersTracked, ActiveOwned, NoLeakedServer
<1>. QED  BY <1>1, LoadingAlways, PTL

(* The branch of load that replaces a runner that is still loaded, locking  *)
(* loadedMu and refMu in the wrong order, is dead code.                     *)
THEOREM SafeguardUnreachable == Spec => []NeverLoadedTwice
<1>1. Loading => NeverLoadedTwice
  BY DEF Loading, SlotReserved, NeverLoadedTwice
<1>. QED  BY <1>1, LoadingAlways, PTL

-----------------------------------------------------------------------------
(* Replies.                                                                 *)

Answered == {"served", "failed", "finished"}

(* A request that is still on its way has not been answered.                *)
RepliesCounted ==
    \A q \in Requests :
      /\ req[q].replies <= 1
      /\ req[q].state \notin Answered => req[q].replies = 0

(* What any step does to a request: it leaves the count alone, or answers a *)
(* request that was on its way.                                             *)
RepliesKept(q) ==
    /\ req'[q].replies = req[q].replies
    /\ req[q].state \in Answered => req'[q].state \in Answered

RepliesAdded(q) ==
    /\ req'[q].replies = req[q].replies + 1
    /\ req[q].state \notin Answered
    /\ req'[q].state \in Answered

LEMMA RepliesFrame ==
    ASSUME Typed, RepliesCounted,
           \A q \in Requests : RepliesKept(q) \/ RepliesAdded(q)
    PROVE  RepliesCounted'
BY DEF Typed, TypeOK, RequestRecord, RepliesCounted, RepliesKept, RepliesAdded

(* One request is answered and the others stay as they are.                 *)
LEMMA RepliesOne ==
    ASSUME Typed, RepliesCounted, NEW q \in Requests, RepliesKept(q) \/ RepliesAdded(q),
           \A r \in Requests \ {q} : req'[r] = req[r]
    PROVE  RepliesCounted'
<1>1. \A r \in Requests \ {q} : RepliesKept(r)
  BY DEF RepliesKept
<1>. QED  BY <1>1, RepliesFrame

LEMMA RepliesStep == Typed /\ RepliesCounted /\ [Next]_vars => RepliesCounted'
<1>. SUFFICES ASSUME Typed, RepliesCounted, [Next]_vars PROVE RepliesCounted'
  OBVIOUS
<1>0. /\ TypeOK /\ req \in [Requests -> RequestRecord]
      /\ p.pc \notin {"idle", "stopped"} => p.cur \in Requests /\ req[p.cur].state = "queued"
  BY DEF Typed, TypeOK, PendingTyped
<1>1. ASSUME UNCHANGED req PROVE RepliesCounted'
  BY <1>1 DEF RepliesCounted
<1>2. ASSUME NEW q \in Requests, Fail(q), req[q].state \notin Answered
      PROVE  RepliesCounted'
  BY <1>0, <1>2, FailTyped, RepliesOne DEF RepliesAdded, Answered
<1>3. ASSUME NEW q \in Requests, NEW x \in Runners, UseLoadedRunner(q, x),
             req[q].state \notin Answered
      PROVE  RepliesCounted'
  BY <1>0, <1>3, UseLoadedRunnerTyped, RepliesOne DEF RepliesAdded, Answered
<1>4. ASSUME NEW q \in Requests, Handler(q) PROVE RepliesCounted'
  <2>1. CASE GetRunner(q)
    <3>1. PICK m \in Models, d \in KeepAlives :
            req' = [req EXCEPT
              ![q].model = m, ![q].keepAlive = d, ![q].runner = loaded[m],
              ![q].state = IF loaded[m] = None THEN "enqueue" ELSE "checking"]
      BY <2>1 DEF GetRunner
    <3>2. req[q].state = "new"
      BY <2>1 DEF GetRunner
    <3>3. RepliesKept(q) /\ \A r \in Requests \ {q} : req'[r] = req[r]
      BY <1>0, <3>1, <3>2 DEF RequestRecord, RepliesKept, Answered
    <3>. QED  BY <3>3, RepliesOne
  <2>2. CASE CheckRunner(q)
    <3>1. PICK reload \in NeedsReload(req[q].runner) :
            req' = [req EXCEPT ![q].state = IF reload THEN "enqueue" ELSE "using",
                               ![q].runner = IF reload THEN None ELSE @]
      BY <2>2 DEF CheckRunner
    <3>2. req[q].state = "checking"
      BY <2>2 DEF CheckRunner
    <3>3. RepliesKept(q) /\ \A r \in Requests \ {q} : req'[r] = req[r]
      BY <1>0, <3>1, <3>2 DEF RequestRecord, RepliesKept, Answered
    <3>. QED  BY <3>3, RepliesOne
  <2>3. CASE UseRunner(q)
    <3>1. req[q].state = "using" /\ req[q].runner \in Runners
      BY <2>3 DEF UseRunner, Typed, RequestsTyped
    <3>. QED  BY <1>3, <2>3, <3>1 DEF UseRunner, Answered
  <2>4. CASE Enqueue(q)
    <3>1. req[q].state = "enqueue" /\ (Fail(q) \/ req' = [req EXCEPT ![q].state = "queued"])
      BY <2>4 DEF Enqueue
    <3>2. CASE Fail(q)
      BY <1>2, <3>1, <3>2 DEF Answered
    <3>3. CASE req' = [req EXCEPT ![q].state = "queued"]
      <4>1. RepliesKept(q) /\ \A r \in Requests \ {q} : req'[r] = req[r]
        BY <1>0, <3>1, <3>3 DEF RequestRecord, RepliesKept, Answered
      <4>. QED  BY <4>1, RepliesOne
    <3>. QED  BY <3>1, <3>2, <3>3
  <2>. QED  BY <1>4, <2>1, <2>2, <2>3, <2>4 DEF Handler
<1>5. ASSUME NEW q \in Requests, ContextDone(q) PROVE RepliesCounted'
  <2>1. req' = [req EXCEPT ![q].done = TRUE]
    BY <1>5 DEF ContextDone
  <2>2. RepliesKept(q) /\ \A r \in Requests \ {q} : req'[r] = req[r]
    BY <1>0, <2>1 DEF RequestRecord, RepliesKept
  <2>. QED  BY <2>2, RepliesOne
<1>6. ASSUME NEW q \in Requests, Loader(q) PROVE RepliesCounted'
  <2>1. /\ req[q].state = "loading"
        /\ Fail(q) \/ req' = [req EXCEPT ![q].state = "served", ![q].replies = @ + 1]
    BY <1>6 DEF Loader, LoaderReady, LoaderFailed
  <2>2. CASE Fail(q)
    BY <1>2, <2>1, <2>2 DEF Answered
  <2>3. CASE req' = [req EXCEPT ![q].state = "served", ![q].replies = @ + 1]
    <3>1. RepliesAdded(q) /\ \A r \in Requests \ {q} : req'[r] = req[r]
      BY <1>0, <2>1, <2>3 DEF RequestRecord, RepliesAdded, Answered
    <3>. QED  BY <3>1, RepliesOne
  <2>. QED  BY <2>1, <2>2, <2>3
<1>7. CASE ProcessPending
  <2>1. CASE TakePending
    <3>. DEFINE q == Head(pendingReqCh)
    <3>1. q \in Requests
      BY <1>0, <2>1 DEF TakePending, TypeOK
    <3>2. UNCHANGED req \/ req' = [req EXCEPT ![q].state = "finished"]
      BY <2>1 DEF TakePending
    <3>3. CASE req' = [req EXCEPT ![q].state = "finished"]
      <4>1. RepliesKept(q) /\ \A r \in Requests \ {q} : req'[r] = req[r]
        BY <1>0, <3>1, <3>3 DEF RequestRecord, RepliesKept, Answered
      <4>. QED  BY <3>1, <4>1, RepliesOne
    <3>. QED  BY <1>1, <3>2, <3>3
  <2>2. CASE UseLoaded
    <3>1. PICK x \in p.targets : UseLoadedRunner(p.cur, x)
      BY <2>2 DEF UseLoaded
    <3>2. p.pc = "use" /\ x \in Runners
      BY <1>0, <2>2 DEF UseLoaded, TypeOK, PendingRecord
    <3>. QED  BY <1>0, <1>3, <3>1, <3>2 DEF Answered
  <2>3. CASE LoadStart \/ LoadNoFit
    <3>1. p.pc \in {"load", "loading"} /\ (UNCHANGED req \/ Fail(p.cur))
      BY <2>3 DEF LoadStart, LoadNoFit
    <3>. QED  BY <1>0, <1>1, <1>2, <3>1 DEF Answered
  <2>4. CASE LoadError
    <3>1. /\ p.pc = "loading"
          /\ Fail(p.cur) \/ req' = [req EXCEPT ![p.cur].oomRetried = TRUE]
      BY <2>4 DEF LoadError
    <3>2. CASE Fail(p.cur)
      BY <1>0, <1>2, <3>1, <3>2 DEF Answered
    <3>3. CASE req' = [req EXCEPT ![p.cur].oomRetried = TRUE]
      <4>1. RepliesKept(p.cur) /\ \A r \in Requests \ {p.cur} : req'[r] = req[r]
        BY <1>0, <3>1, <3>3 DEF RequestRecord, RepliesKept
      <4>. QED  BY <1>0, <3>1, <4>1, RepliesOne
    <3>. QED  BY <3>1, <3>2, <3>3
  <2>5. CASE Install
    <3>1. /\ p.pc = "loading"
          /\ req' = [req EXCEPT ![p.cur].state = "loading", ![p.cur].runner = p.llama]
      BY <2>5 DEF Install
    <3>2. RepliesKept(p.cur) /\ \A r \in Requests \ {p.cur} : req'[r] = req[r]
      BY <1>0, <3>1 DEF RequestRecord, RepliesKept, Answered
    <3>. QED  BY <1>0, <3>1, <3>2, RepliesOne
  <2>6. CASE \/ IgnoreUnloaded \/ Snapshot \/ CheckLoaded \/ FindRunnerToUnload \/ EvictAll
             \/ ExpireTarget \/ WaitUnloaded \/ LoadErrorAfterShutdown \/ StopPending
    BY <1>1, <2>6 DEF IgnoreUnloaded, Snapshot, CheckLoaded, FindRunnerToUnload, EvictAll,
       ExpireTarget, WaitUnloaded, LoadErrorAfterShutdown, StopPending
  <2>. QED  BY <1>7, <2>1, <2>2, <2>3, <2>4, <2>5, <2>6 DEF ProcessPending
<1>8. CASE ProcessCompleted
  <2>1. ASSUME NEW q \in Requests, Finished(q) PROVE RepliesCounted'
    <3>1. req' = [req EXCEPT ![q].state = "finished"]
      BY <2>1 DEF Finished
    <3>2. RepliesKept(q) /\ \A r \in Requests \ {q} : req'[r] = req[r]
      BY <1>0, <3>1 DEF RequestRecord, RepliesKept, Answered
    <3>. QED  BY <3>2, RepliesOne
  <2>2. CASE Expired \/ Recovered \/ StopCompleted
    BY <1>1, <2>2 DEF Expired, Recovered, StopCompleted
  <2>. QED  BY <1>8, <2>1, <2>2 DEF ProcessCompleted
<1>9. CASE \/ \E x \in Runners : Timers(x)
           \/ Api \/ Shutdown \/ UnloadAllRunners \/ UNCHANGED vars
  BY <1>1, <1>9 DEF Timers, TimerFires, TimerCallback, Requeue, Api, RuntimeOOM,
     ExpireModel, ApiExpire, Shutdown, UnloadAllRunners, vars
<1>. QED  BY <1>4, <1>5, <1>6, <1>7, <1>8, <1>9 DEF Next

(* A request is answered at most once, whichever of getRunner's fast path,  *)
(* the full queue, load, its goroutine or an existing runner answers it: no *)
(* send on its channels, each with room for one reply, ever blocks.         *)
THEOREM AnsweredOnce == Spec => []ReplyOnce
<1>1. Init => RepliesCounted
  BY DEF Init, RepliesCounted, NoRequest
<1>2. RepliesCounted /\ Typed /\ [Next]_vars => RepliesCounted'
  BY RepliesStep
<1>3. RepliesCounted => ReplyOnce
  BY DEF RepliesCounted, ReplyOnce
<1>. QED  BY <1>1, <1>2, <1>3, TypedAlways, PTL DEF Spec

-----------------------------------------------------------------------------
(* Unload events.                                                           *)

Owed == unloadedCh + Recovering + Cardinality(p.targets \cap LoadedRunners)

(* As NoLostUnload, from the snapshot on: the runner that needs a reload    *)
(* may be unloaded before processPending gets to expire it.                 *)
UnloadsOwed ==
    /\ p.pc \in {"check", "expire"} => Cardinality(p.targets) <= Owed
    /\ p.pc = "wait" => p.need <= Owed

LEMMA MeetFinite ==
    ASSUME NEW S, NEW L, IsFiniteSet(S)
    PROVE  /\ IsFiniteSet(S \cap L) /\ Cardinality(S \cap L) \in Nat
           /\ Cardinality(S) \in Nat
<1>1. S \cap L \subseteq S
  OBVIOUS
<1>. QED  BY <1>1, FS_Subset, FS_CardinalityType

LEMMA OwedType ==
    ASSUME Typed
    PROVE  /\ IsFiniteSet(p.targets)
           /\ Cardinality(p.targets \cap LoadedRunners) \in Nat
           /\ Cardinality(p.targets) \in Nat
           /\ Recovering \in Nat /\ unloadedCh \in Nat /\ p.need \in Nat
           /\ Owed \in Nat
<1>1. IsFiniteSet(p.targets)
  BY DEF Typed, PendingWork
<1>2. Recovering \in Nat /\ unloadedCh \in Nat /\ p.need \in Nat
  BY DEF Recovering, Typed, TypeOK, PendingRecord
<1>. QED  BY <1>1, <1>2, MeetFinite DEF Owed

LEMMA OwedTypeNext ==
    ASSUME Typed'
    PROVE  /\ IsFiniteSet(p'.targets)
           /\ Cardinality(p'.targets \cap LoadedRunners') \in Nat
           /\ Cardinality(p'.targets) \in Nat
           /\ Recovering' \in Nat /\ unloadedCh' \in Nat /\ p'.need \in Nat
           /\ Owed' \in Nat
           /\ Owed' = unloadedCh' + Recovering' + Cardinality(p'.targets \cap LoadedRunners')
<1>1. IsFiniteSet(p'.targets)
  BY DEF Typed, PendingWork
<1>2. Recovering' \in Nat /\ unloadedCh' \in Nat /\ p'.need \in Nat
  BY DEF Recovering, Typed, TypeOK, PendingRecord
<1>3. Cardinality(p'.targets \cap LoadedRunners') \in Nat /\ Cardinality(p'.targets) \in Nat
  BY <1>1, MeetFinite
<1>4. Owed' = unloadedCh' + Recovering' + Cardinality(p'.targets \cap LoadedRunners')
  BY DEF Owed
<1>. QED  BY <1>1, <1>2, <1>3, <1>4

(* Targets that are all loaded are owed as many events as there are.        *)
LEMMA TargetsOwed ==
    ASSUME Typed', p'.targets \subseteq LoadedRunners'
    PROVE  Cardinality(p'.targets) <= Owed'
<1>1. p'.targets \cap LoadedRunners' = p'.targets
  OBVIOUS
<1>. QED  BY <1>1, OwedTypeNext

LEMMA UnloadsStep == Typed /\ Typed' /\ UnloadsOwed /\ [Next]_vars => UnloadsOwed'
<1>. SUFFICES ASSUME Typed, Typed', UnloadsOwed, [Next]_vars PROVE UnloadsOwed'
  OBVIOUS
<1>. USE DEF table, chans, env
<1>0. /\ TypeOK /\ p \in PendingRecord /\ LoadedRunners \subseteq Runners
      /\ loaded \in [Models -> Runners \cup {None}]
  BY LoadedFinite DEF Typed, TypeOK
<1>1. ASSUME UNCHANGED <<p, c, unloadedCh, loaded>> PROVE UnloadsOwed'
  <2>1. Owed' = Owed
    BY <1>1 DEF Owed, Recovering, LoadedRunners, Loaded
  <2>. QED  BY <1>1, <2>1 DEF UnloadsOwed
<1>2. ASSUME p'.pc \notin {"check", "expire", "wait"} PROVE UnloadsOwed'
  BY <1>2 DEF UnloadsOwed
<1>3. CASE ProcessPending
  <2>1. CASE Snapshot
    <3>. DEFINE x == loaded[req[p.cur].model]
    <3>1. /\ p'.pc \in {"find", "load"} \/ (p'.pc = "check" /\ x # None /\ p'.targets = {x})
          /\ p.pc = "top" /\ UNCHANGED loaded
      BY <1>0, <2>1 DEF Snapshot, PendingRecord
    <3>2. CASE p'.pc = "check"
      <4>1. req[p.cur].model \in Models
        BY <3>1 DEF Typed, PendingTyped, RequestsTyped
      <4>2. p'.targets \subseteq LoadedRunners'
        BY <3>1, <3>2, <4>1 DEF LoadedRunners, Loaded
      <4>3. Cardinality(p'.targets) <= Owed'
        BY <4>2, TargetsOwed
      <4>. QED  BY <3>2, <4>3 DEF UnloadsOwed
    <3>. QED  BY <1>2, <3>1, <3>2
  <2>2. CASE CheckLoaded
    <3>1. /\ p.pc = "check" /\ UNCHANGED <<c, unloadedCh, loaded>>
          /\ p'.pc \in {"expire", "use"} /\ p'.targets = p.targets
      BY <1>0, <2>2 DEF CheckLoaded, PendingRecord
    <3>2. Owed' = Owed
      BY <3>1 DEF Owed, Recovering, LoadedRunners, Loaded
    <3>. QED  BY <3>1, <3>2 DEF UnloadsOwed
  <2>3. CASE FindRunnerToUnload
    <3>1. /\ UNCHANGED loaded
          /\ p'.pc = "top" \/ (p'.pc = "expire" /\ \E x \in LoadedRunners : p'.targets = {x})
      BY <1>0, <2>3 DEF FindRunnerToUnload, PendingRecord
    <3>2. CASE p'.pc = "expire"
      <4>1. p'.targets \subseteq LoadedRunners'
        BY <3>1, <3>2 DEF LoadedRunners, Loaded
      <4>. QED  BY <3>2, <4>1, TargetsOwed DEF UnloadsOwed
    <3>. QED  BY <1>2, <3>1, <3>2
  <2>4. CASE EvictAll
    <3>1. /\ UNCHANGED loaded /\ p'.pc \in {"top", "expire"}
          /\ p'.targets = {loaded[m] : m \in Loaded \ {req[p.cur].model}}
      BY <1>0, <2>4 DEF EvictAll, PendingRecord
    <3>2. p'.targets \subseteq LoadedRunners'
      BY <3>1 DEF LoadedRunners, Loaded
    <3>. QED  BY <3>1, <3>2, TargetsOwed DEF UnloadsOwed
  <2>5. CASE ExpireTarget
    <3>1. /\ p.pc = "expire" /\ UNCHANGED <<c, unloadedCh, loaded>>
          /\ p'.targets = p.targets
          /\ p'.pc = "expire" \/ (p'.pc = "wait" /\ p'.need = Cardinality(p.targets))
      BY <1>0, <2>5 DEF ExpireTarget, PendingRecord
    <3>2. Owed' = Owed
      BY <3>1 DEF Owed, Recovering, LoadedRunners, Loaded
    <3>. QED  BY <3>1, <3>2 DEF UnloadsOwed
  <2>6. CASE WaitUnloaded
    <3>1. /\ p.pc = "wait" /\ UNCHANGED <<c, loaded>> /\ unloadedCh' = unloadedCh - 1
          /\ p'.targets = p.targets /\ p'.pc \in {"top", "wait"} /\ p'.need = p.need - 1
      BY <1>0, <2>6 DEF WaitUnloaded, PendingRecord
    <3>2. Owed' = Owed - 1
      <4>1. Recovering' = Recovering /\ LoadedRunners' = LoadedRunners
        BY <3>1 DEF Recovering, LoadedRunners, Loaded
      <4>2. Owed' = (unloadedCh - 1) + Recovering + Cardinality(p.targets \cap LoadedRunners)
        BY <3>1, <4>1, OwedTypeNext
      <4>. QED  BY <4>2, OwedType DEF Owed
    <3>. QED  BY <3>1, <3>2, OwedType, OwedTypeNext DEF UnloadsOwed
  <2>7. CASE \/ TakePending \/ IgnoreUnloaded \/ UseLoaded \/ StopPending
             \/ LoadStart \/ Install \/ LoadNoFit \/ LoadError \/ LoadErrorAfterShutdown
    <3>1. p'.pc \notin {"check", "expire", "wait"}
      <4>1. CASE TakePending \/ IgnoreUnloaded \/ UseLoaded \/ StopPending
        BY <1>0, <4>1, PendingIdleTyped DEF TakePending, IgnoreUnloaded, UseLoaded, StopPending,
           PendingRecord, PendingIdle
      <4>2. CASE LoadStart \/ Install
        BY <1>0, <4>2, RetryPending, PendingIdleTyped DEF LoadStart, Install, AfterLoadFalse,
           PendingRecord
      <4>3. CASE LoadNoFit \/ LoadError
        BY <1>0, <4>3, RetryPending, PendingIdleTyped DEF LoadNoFit, LoadError, AfterLoadFalse
      <4>4. CASE LoadErrorAfterShutdown
        BY <1>0, <4>4, PendingIdleTyped DEF LoadErrorAfterShutdown, PendingRecord
      <4>. QED  BY <2>7, <4>1, <4>2, <4>3, <4>4
    <3>. QED  BY <1>2, <3>1
  <2>. QED
    BY <1>3, <2>1, <2>2, <2>3, <2>4, <2>5, <2>6, <2>7 DEF ProcessPending
<1>4. CASE Expired
  <2>. DEFINE x == Head(expiredCh)
  <2>1. c.pc = "idle" /\ UNCHANGED <<p, unloadedCh>>
    BY <1>4 DEF Expired
  <2>2. CASE UNCHANGED <<loaded, c>>
    BY <1>1, <2>1, <2>2
  <2>3. CASE /\ loaded' = [loaded EXCEPT ![runner[x].model] = None]
             /\ loaded[runner[x].model] = x
             /\ c' = [pc |-> "recovering", runner |-> x]
    <3>1. Recovering = 0 /\ Recovering' = 1
      BY <2>1, <2>3 DEF Recovering
    <3>. DEFINE S == p.targets \cap LoadedRunners
                T == p.targets \cap LoadedRunners'
    <3>2. S \ {x} \subseteq T
      BY <1>0, <2>3 DEF LoadedRunners, Loaded
    <3>3. /\ IsFiniteSet(p.targets) /\ S \ {x} \subseteq p.targets
          /\ S \subseteq p.targets /\ T \subseteq p.targets
      BY OwedType
    <3>4. IsFiniteSet(S) /\ IsFiniteSet(S \ {x}) /\ IsFiniteSet(T)
      BY <3>3, FS_Subset
    <3>5. /\ Cardinality(S) \in Nat /\ Cardinality(S \ {x}) \in Nat
          /\ Cardinality(T) \in Nat /\ unloadedCh \in Nat
      BY <3>4, OwedType, FS_CardinalityType
    <3>6. Cardinality(S) <= Cardinality(S \ {x}) + 1
      <4>1. CASE x \in S
        BY <3>4, <3>5, <4>1, FS_RemoveElement
      <4>2. CASE x \notin S
        <5>1. S \ {x} = S
          BY <4>2
        <5>. HIDE DEF S
        <5>. QED  BY <5>1, <3>5
      <4>. QED  BY <4>1, <4>2
    <3>7. Cardinality(S \ {x}) <= Cardinality(T)
      BY <3>2, <3>4, FS_Subset
    <3>8. Owed <= Owed'
      <4>1. Owed = unloadedCh + 0 + Cardinality(S)
        BY <3>1 DEF Owed
      <4>2. Owed' = unloadedCh + 1 + Cardinality(T)
        BY <2>1, <3>1, OwedTypeNext
      <4>. HIDE DEF S, T
      <4>. QED  BY <3>5, <3>6, <3>7, <4>1, <4>2
    <3>9. Owed \in Nat /\ Owed' \in Nat /\ Cardinality(p.targets) \in Nat /\ p.need \in Nat
      BY OwedType, OwedTypeNext
    <3>. QED  BY <2>1, <3>8, <3>9 DEF UnloadsOwed
  <2>. QED  BY <1>4, <2>2, <2>3 DEF Expired
<1>5. CASE Recovered
  <2>1. /\ c.pc = "recovering" /\ c'.pc = "idle" /\ unloadedCh' = unloadedCh + 1
        /\ UNCHANGED <<p, loaded>>
    BY <1>5 DEF Recovered, NotifyUnloaded, CompletedIdle
  <2>2. /\ Recovering = 1 /\ Recovering' = 0
        /\ (p.targets \cap LoadedRunners)' = p.targets \cap LoadedRunners
    BY <2>1 DEF Recovering, LoadedRunners, Loaded
  <2>. DEFINE n == Cardinality(p.targets \cap LoadedRunners)
  <2>3. Owed = unloadedCh + 1 + n
    BY <2>2 DEF Owed
  <2>4. Owed' = (unloadedCh + 1) + 0 + n
    BY <2>1, <2>2 DEF Owed
  <2>5. n \in Nat /\ unloadedCh \in Nat
    BY OwedType
  <2>. HIDE DEF n
  <2>6. Owed' = Owed
    BY <2>3, <2>4, <2>5
  <2>. QED  BY <2>1, <2>6 DEF UnloadsOwed
<1>6. CASE StopCompleted
  <2>1. Recovering = 0 /\ Recovering' = 0 /\ UNCHANGED <<p, loaded, unloadedCh>>
    BY <1>6 DEF StopCompleted, Recovering, CompletedIdle
  <2>2. Owed' = Owed
    BY <2>1 DEF Owed, LoadedRunners, Loaded
  <2>. QED  BY <2>1, <2>2 DEF UnloadsOwed
<1>7. CASE \/ \E q \in Requests : Handler(q) \/ ContextDone(q) \/ Loader(q) \/ Finished(q)
           \/ \E x \in Runners : Timers(x)
           \/ Api \/ Shutdown \/ UnloadAllRunners \/ UNCHANGED vars
  <2>1. UNCHANGED <<p, c, unloadedCh, loaded>>
    BY <1>7 DEF Handler, GetRunner, CheckRunner, UseRunner, Enqueue, ContextDone, Loader,
       LoaderReady, LoaderFailed, Finished, Timers, TimerFires, TimerCallback, Requeue, Api,
       RuntimeOOM, ExpireModel, ApiExpire, Shutdown, UnloadAllRunners, vars
  <2>. QED  BY <1>1, <2>1
<1>. QED  BY <1>3, <1>4, <1>5, <1>6, <1>7 DEF Next, ProcessCompleted

(* No unload event that processPending waits for can be missing: whatever   *)
(* timers, API calls and failed loads unload concurrently, the events it    *)
(* still needs are in unloadedCh, about to be sent, or owed by runners that *)
(* are still loaded.                                                        *)
THEOREM UnloadNeverLost == Spec => []NoLostUnload
<1>1. Init => UnloadsOwed
  BY DEF Init, UnloadsOwed, PendingIdle
<1>2. UnloadsOwed /\ Typed /\ Typed' /\ [Next]_vars => UnloadsOwed'
  BY UnloadsStep
<1>3. UnloadsOwed => NoLostUnload
  BY DEF UnloadsOwed, NoLostUnload, Owed
<1>. QED  BY <1>1, <1>2, <1>3, TypedAlways, PTL DEF Spec

-----------------------------------------------------------------------------
(***************************************************************************)
(* The reference counts of Scheduler: what they count, that an idle runner *)
(* is never forgotten, and that no server in use is closed, as long as no  *)
(* request was handed an unloaded runner (NoStale) and fewer requests use  *)
(* a runner at a time than its unsigned count can tell apart (FewUsers).   *)
(*                                                                         *)
(* Two more layers over those above.  Handing, which needs neither         *)
(* proviso: which requests a runner is or may be given to, and who holds   *)
(* its refMu; beside it, what may be expired is a runner of some model     *)
(* (ExpiringTyped).  Counting: the counts themselves.                      *)
(*                                                                         *)
(* With these every step of the scheduler is one of ModelService, or none. *)
(***************************************************************************)

(* The first layer.                                                         *)

GivenStates == {"checking", "using", "loading", "served"}

(* The request q has the runner x, or is about to be given it by            *)
(* processPending, which has found it in the table.                         *)
Given(q, x) ==
    \/ req[q].runner = x /\ req[q].state \in GivenStates
    \/ q = p.cur /\ p.pc \in {"check", "use"} /\ x \in p.targets

(* The runner has never been in the table.                                  *)
Unentered(x) ==
    \/ runner[x].proc = "none"
    \/ x = activeLoading
    \/ p.pc = "loading" /\ x = p.llama

UnenteredUnused ==
    \A x \in Runners : Unentered(x) =>
      /\ runner[x].refCount = 0 /\ runner[x].refMu = "free"
      /\ x \notin LoadedRunners
      /\ \A q \in Requests : ~Given(q, x)

(* A runner that is given is of the model asked for, and, until it is       *)
(* unloaded, it is the one in the table.                                    *)
GivenTyped ==
    \A q \in Requests, x \in Runners : Given(q, x) =>
      /\ runner[x].model = req[q].model
      /\ runner[x].options => loaded[req[q].model] = x

LoadedTyped == \A m \in Loaded : runner[loaded[m]].model = m

(* A load goroutine holds the refMu of its runner, which therefore stays in *)
(* the table; no two have the same runner.                                  *)
LoadersHold ==
    \A q \in Requests : req[q].state = "loading" =>
      /\ runner[req[q].runner].refMu = "loader"
      /\ loaded[req[q].model] = req[q].runner
      /\ \A r \in Requests : req[r].state = "loading" /\ req[r].runner = req[q].runner => r = q

(* processCompleted holds the refMu of the runner it has taken out.         *)
RecovererHolds ==
    c.pc = "recovering" =>
      c.runner \in Runners \ LoadedRunners /\ runner[c.runner].refMu = "completed"

(* What load is about to install is of the model asked for, even when the   *)
(* shutdown goroutine has taken it out of activeLoading.                    *)
LlamaTyped ==
    /\ p.pc = "loading" => /\ runner[p.llama].model = req[p.cur].model
                           /\ runner[p.llama].proc # "none"
    /\ activeLoading # None => runner[activeLoading].proc # "none"

Handing ==
    /\ UnenteredUnused /\ GivenTyped /\ LoadedTyped
    /\ LoadersHold /\ RecovererHolds /\ LlamaTyped

Due(x) == \E i \in 1 .. Len(expiredCh) : expiredCh[i] = x

(* The runners that an expired event may still name: none of them is one    *)
(* that is being loaded for the first time.                                 *)
MayExpire(x) ==
    \/ runner[x].armed
    \/ runner[x].callbacks > 0
    \/ runner[x].retries > 0
    \/ Due(x)
    \/ x \in p.targets \cup p.todo \cup api.todo

(* Such a runner is one of some model: it has been in the table.            *)
ExpiringTyped ==
    \A x \in Runners : MayExpire(x) => runner[x].model \in Models /\ ~Unentered(x)

-----------------------------------------------------------------------------
(* The second layer.                                                        *)

(* At no time do 2^w requests or more use the same runner.                  *)
FewUsers == \A x \in Runners : Cardinality(Users(x)) < RefCountMod

StaleServed == \A q \in Requests : req[q].stale => req[q].state \in {"served", "finished"}

(* The finished event, which looks its runner up by the model, finds the    *)
(* one that the request was given.                                          *)
ServedLoaded ==
    NoStale => \A q \in Requests :
                 req[q].state = "served" => loaded[req[q].model] = req[q].runner

UsersFinite == \A x \in Runners : IsFiniteSet(Users(x))

Signalled(x) ==
    \/ runner[x].armed
    \/ runner[x].callbacks > 0
    \/ runner[x].retries > 0
    \/ Due(x)

Counting == StaleServed /\ ServedLoaded /\ UsersFinite /\ RefCountExact /\ IdleRunnersExpire

(* What the types say, for a start.                                         *)
LEMMA Types ==
    ASSUME Typed
    PROVE  /\ TypeOK
           /\ runner \in [Runners -> RunnerRecord] /\ req \in [Requests -> RequestRecord]
           /\ loaded \in [Models -> Runners \cup {None}] /\ activeLoading \in Runners \cup {None}
           /\ p \in PendingRecord /\ expiredCh \in Seq(Runners)
           /\ p.pc \notin {"idle", "stopped"} =>
                p.cur \in Requests /\ req[p.cur].state = "queued" /\ req[p.cur].model \in Models
           /\ LoadedRunners \subseteq Runners
           /\ None \notin Runners
BY LoadedFinite, NoneAssumption DEF Typed, TypeOK, PendingTyped, RequestsTyped

LEMMA KnownInit == Init => Handing /\ Counting
<1> SUFFICES ASSUME Init PROVE Handing /\ Counting
  OBVIOUS
<1> USE DEF Init
<1>1. Loaded = {} /\ LoadedRunners = {}
  BY DEF Loaded, LoadedRunners
<1>2. \A q \in Requests : req[q].state = "new" /\ ~req[q].stale
  BY DEF NoRequest
<1>3. \A q \in Requests, x \in Runners : ~Given(q, x)
  BY <1>2 DEF Given, GivenStates, PendingIdle
<1>4. UnenteredUnused
  BY <1>1, <1>3 DEF UnenteredUnused, NoRunner
<1>5. Handing
  BY <1>1, <1>2, <1>3, <1>4
     DEF Handing, GivenTyped, LoadedTyped, LoadersHold, RecovererHolds, CompletedIdle,
         LlamaTyped, PendingIdle
<1>6. \A x \in Runners : Users(x) = {}
  BY <1>2 DEF Users
<1>7. UsersFinite
  BY <1>6, FS_EmptySet DEF UsersFinite
<1>8. StaleServed /\ ServedLoaded
  BY <1>2 DEF StaleServed, ServedLoaded
<1>9. RefCountExact /\ IdleRunnersExpire
  BY <1>1 DEF RefCountExact, IdleRunnersExpire
<1> QED
  BY <1>5, <1>7, <1>8, <1>9 DEF Counting

-----------------------------------------------------------------------------
(* Handing, in a step that leaves the table alone.  A request may be given  *)
(* what it had, or what is in the table.                                    *)
LEMMA HandingFrame ==
    ASSUME Typed, Typed', Handing, UNCHANGED loaded,
           \A x \in Runners :
             /\ Unentered(x)' => /\ Unentered(x)
                                 /\ runner'[x].refCount = 0 /\ runner'[x].refMu = "free"
             /\ ~Unentered(x) => /\ runner'[x].model = runner[x].model
                                 /\ runner'[x].options => runner[x].options,
           \A q \in Requests, x \in Runners :
             Given(q, x)' => \/ Given(q, x) /\ req'[q].model = req[q].model
                             \/ req'[q].model \in Models /\ loaded[req'[q].model] = x,
           \A q \in Requests : req'[q].state = "loading" =>
             /\ req[q].state = "loading"
             /\ req'[q].runner = req[q].runner /\ req'[q].model = req[q].model
             /\ runner'[req[q].runner].refMu = runner[req[q].runner].refMu,
           c'.pc = "recovering" =>
             /\ c.pc = "recovering" /\ c'.runner = c.runner
             /\ runner'[c.runner].refMu = runner[c.runner].refMu,
           p'.pc = "loading" => /\ runner'[p'.llama].model = req'[p'.cur].model
                                /\ runner'[p'.llama].proc # "none",
           activeLoading' # None => runner'[activeLoading'].proc # "none"
    PROVE  Handing'
<1>0. Loaded' = Loaded /\ LoadedRunners' = LoadedRunners
  BY DEF Loaded, LoadedRunners
<1>1. UnenteredUnused'
  <2> SUFFICES ASSUME NEW x \in Runners, Unentered(x)'
               PROVE  /\ runner'[x].refCount = 0 /\ runner'[x].refMu = "free"
                      /\ x \notin LoadedRunners
                      /\ \A q \in Requests : ~Given(q, x)'
    BY <1>0 DEF UnenteredUnused
  <2>1. Unentered(x) /\ x \notin LoadedRunners /\ \A q \in Requests : ~Given(q, x)
    BY DEF Handing, UnenteredUnused
  <2>2. \A m \in Models : loaded[m] # x
    BY <2>1, Types DEF LoadedRunners, Loaded
  <2> QED
    BY <2>1, <2>2
<1>2. \A q \in Requests, x \in Runners : Given(q, x) => ~Unentered(x)
  BY DEF Handing, UnenteredUnused
<1>3. \A x \in LoadedRunners : ~Unentered(x) /\ x \in Runners
  BY Types DEF Handing, UnenteredUnused
<1>4. LoadedTyped'
  BY <1>0, <1>3 DEF Handing, LoadedTyped, LoadedRunners
<1>5. GivenTyped'
  <2> SUFFICES ASSUME NEW q \in Requests, NEW x \in Runners, Given(q, x)'
               PROVE  /\ runner'[x].model = req'[q].model
                      /\ runner'[x].options => loaded[req'[q].model] = x
    BY DEF GivenTyped
  <2>1. CASE Given(q, x) /\ req'[q].model = req[q].model
    BY <1>2, <2>1 DEF Handing, GivenTyped
  <2>2. CASE req'[q].model \in Models /\ loaded[req'[q].model] = x
    <3>1. req'[q].model \in Loaded
      BY <2>2, Types DEF Loaded
    <3>2. runner'[x].model = req'[q].model
      BY <1>0, <1>4, <2>2, <3>1 DEF LoadedTyped
    <3> QED
      BY <2>2, <3>2
  <2> QED
    BY <2>1, <2>2
<1>6. LoadersHold'
  BY DEF Handing, LoadersHold
<1>7. RecovererHolds'
  BY <1>0 DEF Handing, RecovererHolds
<1> QED
  BY <1>1, <1>4, <1>5, <1>6, <1>7 DEF Handing, LlamaTyped

(* No request starts or ends to use a runner.                               *)
ServedKept ==
    \A q \in Requests :
      /\ req'[q].stale = req[q].stale
      /\ req'[q].state = "served" <=> req[q].state = "served"
      /\ req[q].state = "finished" => req'[q].state = "finished"
      /\ req[q].state = "served" =>
           req'[q].runner = req[q].runner /\ req'[q].model = req[q].model

(* Counting, in a step that leaves the table and the counts alone.          *)
LEMMA CountingFrame ==
    ASSUME Typed, Counting, UNCHANGED loaded, ServedKept,
           \A x \in Runners : runner'[x].refCount = runner[x].refCount,
           \A x \in LoadedRunners :
             Free(x)' /\ Idle(x)' /\ ~Signalled(x)' => Free(x) /\ Idle(x) /\ ~Signalled(x)
    PROVE  Counting'
<1>0. LoadedRunners' = LoadedRunners /\ LoadedRunners \subseteq Runners
  BY Types DEF Loaded, LoadedRunners
<1>1. NoStale' <=> NoStale
  BY DEF NoStale, ServedKept
<1>2. \A x : Users(x)' = Users(x)
  BY DEF Users, ServedKept
<1>3. StaleServed'
  BY DEF Counting, StaleServed, ServedKept
<1>4. ServedLoaded'
  BY <1>1 DEF Counting, ServedLoaded, ServedKept
<1>5. UsersFinite'
  BY <1>2 DEF Counting, UsersFinite
<1>6. RefCountExact'
  BY <1>0, <1>1, <1>2 DEF Counting, RefCountExact
<1>7. IdleRunnersExpire'
  BY <1>0, <1>1 DEF Counting, IdleRunnersExpire, Signalled, Due
<1> QED
  BY <1>3, <1>4, <1>5, <1>6, <1>7 DEF Counting

(* Remainders of a count below the modulus and of its neighbours.           *)
LEMMA Remainders ==
    ASSUME NEW n \in Nat, n < RefCountMod
    PROVE  /\ n % RefCountMod = n
           /\ Referenced(n % RefCountMod) = (n + 1) % RefCountMod
           /\ n > 0 => Dereferenced(n % RefCountMod) = (n - 1) % RefCountMod
<1>1. RefCountMod \in Nat \ {0, 1}
  BY RefCountAssumption
<1>2. n % RefCountMod = n
  BY <1>1
<1>3. ASSUME n > 0 PROVE (n + RefCountMod - 1) % RefCountMod = (n - 1) % RefCountMod
  <2>1. (n - 1) % RefCountMod = n - 1
    BY <1>1, <1>3
  <2>2. n + RefCountMod - 1 = 1 * RefCountMod + (n - 1)
    BY <1>1
  <2>3. (n + RefCountMod - 1) % RefCountMod = n - 1
    BY <1>1, <1>3, <2>2
  <2> QED
    BY <2>1, <2>3
<1> QED
  BY <1>2, <1>3 DEF Referenced, Dereferenced

(* A request starts to use a runner, which is counted.                      *)
LEMMA CountingServe ==
    ASSUME Typed, Typed', Counting, FewUsers, FewUsers', UNCHANGED loaded,
           NEW q \in Requests, NEW x \in Runners,
           req[q].state \notin {"served", "finished"},
           req'[q].state = "served" /\ req'[q].runner = x /\ req'[q].model = req[q].model,
           NoStale /\ ~req'[q].stale => loaded[req[q].model] = x,
           \A r \in Requests \ {q} : req'[r] = req[r],
           runner'[x].refCount = Referenced(runner[x].refCount),
           \A y \in Runners \ {x} : runner'[y] = runner[y],
           UNCHANGED expiredCh
    PROVE  Counting'
<1>0. LoadedRunners' = LoadedRunners /\ LoadedRunners \subseteq Runners
  BY Types DEF Loaded, LoadedRunners
<1>1. NoStale' => NoStale /\ ~req'[q].stale
  <2>1. ~req[q].stale
    BY DEF Counting, StaleServed
  <2> QED
    BY <2>1 DEF NoStale
<1>2. StaleServed'
  BY DEF Counting, StaleServed
<1>3. ServedLoaded'
  BY <1>1 DEF Counting, ServedLoaded
<1>4. Users(x)' = Users(x) \cup {q} /\ q \notin Users(x)
  BY DEF Users
<1>5. \A y \in Runners \ {x} : Users(y)' = Users(y)
  BY DEF Users
<1>6. IsFiniteSet(Users(x)) /\ Cardinality(Users(x)) \in Nat
  BY FS_CardinalityType DEF Counting, UsersFinite
<1>7. IsFiniteSet(Users(x)') /\ Cardinality(Users(x)') = Cardinality(Users(x)) + 1
  BY <1>4, <1>6, FS_AddElement
<1>8. UsersFinite'
  BY <1>5, <1>7 DEF Counting, UsersFinite
<1>9. RefCountExact'
  <2> SUFFICES ASSUME NoStale', NEW y \in LoadedRunners
               PROVE  runner'[y].refCount = Cardinality(Users(y)') % RefCountMod
    BY <1>0 DEF RefCountExact
  <2>1. runner[y].refCount = Cardinality(Users(y)) % RefCountMod
    BY <1>1 DEF Counting, RefCountExact
  <2>2. CASE y = x
    <3> DEFINE n == Cardinality(Users(x))
    <3>1. n \in Nat /\ n < RefCountMod
      BY <1>6 DEF FewUsers
    <3> HIDE DEF n
    <3>2. Referenced(n % RefCountMod) = (n + 1) % RefCountMod
      BY <3>1, Remainders
    <3> QED
      BY <1>7, <2>1, <2>2, <3>2 DEF n
  <2>3. CASE y # x
    BY <1>0, <1>5, <2>1, <2>3
  <2> QED
    BY <2>2, <2>3
<1>10. IdleRunnersExpire'
  <2> SUFFICES ASSUME NoStale', NEW y \in LoadedRunners, Free(y)', Idle(y)'
               PROVE  Signalled(y)'
    BY <1>0 DEF IdleRunnersExpire, Signalled, Due
  <2>1. CASE y = x
    <3>1. runner'[x].refCount = Cardinality(Users(x)') % RefCountMod
      BY <1>0, <1>9, <2>1 DEF RefCountExact
    <3> DEFINE n == Cardinality(Users(x)')
    <3>2. n \in Nat /\ n < RefCountMod /\ n # 0
      BY <1>6, <1>7 DEF FewUsers
    <3> HIDE DEF n
    <3>3. n % RefCountMod = n
      BY <3>2, Remainders
    <3>4. runner'[x].refCount # 0
      BY <3>1, <3>2, <3>3 DEF n
    <3> QED
      BY <2>1, <3>4 DEF Idle
  <2>2. CASE y # x
    <3>1. runner'[y] = runner[y]
      BY <1>0, <2>2
    <3> QED
      BY <1>1, <3>1 DEF Counting, IdleRunnersExpire, Signalled, Due, Free, Idle
  <2> QED
    BY <2>1, <2>2
<1> QED
  BY <1>2, <1>3, <1>8, <1>9, <1>10 DEF Counting

-----------------------------------------------------------------------------
(* What the helpers do, field by field.                                     *)

(* No timer is armed and no event made due.                                 *)
TimersKept ==
    \A x \in Runners : /\ runner'[x].armed => runner[x].armed
                       /\ runner'[x].callbacks = runner[x].callbacks
                       /\ runner'[x].retries = runner[x].retries

LEMMA UseLoadedRunnerEffect ==
    ASSUME TypeOK, NEW q \in Requests, NEW x \in Runners, UseLoadedRunner(q, x)
    PROVE  /\ Free(x) /\ runner'[x].refMu = "free"
           /\ runner'[x].refCount = Referenced(runner[x].refCount)
           /\ \A y \in Runners : /\ runner'[y].options = runner[y].options
                                 /\ runner'[y].model = runner[y].model
                                 /\ runner'[y].proc = runner[y].proc
           /\ \A y \in Runners \ {x} : runner'[y] = runner[y]
           /\ req'[q].stale = ~runner[x].options
           /\ TimersKept
<1>1. runner \in [Runners -> RunnerRecord] /\ req \in [Requests -> RequestRecord]
  BY DEF TypeOK
<1>2. TimersKept
  BY <1>1 DEF UseLoadedRunner, TimersKept, RunnerRecord
<1> QED
  BY <1>1, <1>2 DEF UseLoadedRunner, Free, RunnerRecord, RequestRecord

(* The fields that the handing out of runners depends on.                   *)
RunnersKept ==
    \A x \in Runners : /\ runner'[x].model = runner[x].model
                       /\ runner'[x].refCount = runner[x].refCount
                       /\ runner'[x].refMu = runner[x].refMu
                       /\ runner'[x].options => runner[x].options
                       /\ runner'[x].proc = "none" => runner[x].proc = "none"

LEMMA ExpireNowEffect ==
    ASSUME TypeOK, NEW x \in Runners, ExpireNow(x)
    PROVE  /\ RunnersKept /\ TimersKept
           /\ \A y \in Runners : /\ runner'[y].proc = runner[y].proc
                                 /\ runner'[y].options = runner[y].options
           /\ \A y \in Runners \ {x} : runner'[y] = runner[y]
           /\ expiredCh' = IF Idle(x) THEN Append(expiredCh, x) ELSE expiredCh
<1>1. runner \in [Runners -> RunnerRecord]
  BY DEF TypeOK
<1>2. runner' = [runner EXCEPT ![x].armed = FALSE, ![x].duration = Zero]
  BY DEF ExpireNow
<1>3. \A y \in Runners \ {x} : runner'[y] = runner[y]
  BY <1>1, <1>2
<1>4. /\ runner'[x].model = runner[x].model
      /\ runner'[x].refCount = runner[x].refCount
      /\ runner'[x].refMu = runner[x].refMu
      /\ runner'[x].options = runner[x].options
      /\ runner'[x].proc = runner[x].proc
  BY <1>1, <1>2 DEF RunnerRecord
<1>5. RunnersKept
  BY <1>3, <1>4 DEF RunnersKept
<1>6. TimersKept
  BY <1>1, <1>2 DEF TimersKept, RunnerRecord
<1> QED
  BY <1>3, <1>4, <1>5, <1>6 DEF ExpireNow

LEMMA CloseActiveEffect ==
    ASSUME TypeOK, CloseActive
    PROVE  /\ RunnersKept /\ TimersKept /\ activeLoading' = None
           /\ \A y \in Runners : /\ runner'[y].armed = runner[y].armed
                                 /\ runner'[y].options = runner[y].options
           /\ \A y \in Runners \ {activeLoading} : runner'[y] = runner[y]
           /\ activeLoading \in Runners /\ runner'[activeLoading].proc = "closed"
<1>1. runner \in [Runners -> RunnerRecord] /\ activeLoading \in Runners
  BY DEF TypeOK, CloseActive
<1>2. runner' = [runner EXCEPT ![activeLoading].proc = "closed"] /\ activeLoading' = None
  BY DEF CloseActive
<1>3. \A y \in Runners \ {activeLoading} : runner'[y] = runner[y]
  BY <1>1, <1>2
<1>4. /\ runner'[activeLoading].model = runner[activeLoading].model
      /\ runner'[activeLoading].refCount = runner[activeLoading].refCount
      /\ runner'[activeLoading].refMu = runner[activeLoading].refMu
      /\ runner'[activeLoading].options = runner[activeLoading].options
      /\ runner'[activeLoading].proc = "closed"
  BY <1>1, <1>2 DEF RunnerRecord
<1>5. RunnersKept
  BY <1>3, <1>4 DEF RunnersKept
<1>6. TimersKept /\ \A y \in Runners : runner'[y].armed = runner[y].armed
  BY <1>1, <1>2 DEF TimersKept, RunnerRecord
<1> QED
  BY <1>1, <1>2, <1>3, <1>4, <1>5, <1>6

LEMMA FailEffect ==
    ASSUME TypeOK, NEW q \in Requests, Fail(q)
    PROVE  /\ \A r \in Requests \ {q} : req'[r] = req[r]
           /\ req'[q].state = "failed" /\ req'[q].model = req[q].model
           /\ req'[q].runner = req[q].runner /\ req'[q].stale = req[q].stale
           /\ req'[q].done = req[q].done /\ req'[q].replies = req[q].replies + 1
<1>1. req \in [Requests -> RequestRecord]
  BY DEF TypeOK
<1> QED
  BY <1>1 DEF Fail, RequestRecord

(* What is due when the channel grows or shrinks.                           *)
LEMMA DueSent ==
    ASSUME TypeOK, NEW x \in Runners, NEW y \in Runners, expiredCh' = Append(expiredCh, y)
    PROVE  Due(x)' <=> Due(x) \/ x = y
<1>1. expiredCh \in Seq(Runners)
  BY DEF TypeOK
<1>2. /\ Len(expiredCh') = Len(expiredCh) + 1 /\ Len(expiredCh) \in Nat
      /\ expiredCh'[Len(expiredCh) + 1] = y
      /\ \A i \in 1 .. Len(expiredCh) : expiredCh'[i] = expiredCh[i]
  BY <1>1
<1>3. ASSUME Due(x)' PROVE Due(x) \/ x = y
  <2>1. PICK i \in 1 .. Len(expiredCh') : expiredCh'[i] = x
    BY <1>3 DEF Due
  <2>2. i \in 1 .. Len(expiredCh) \/ i = Len(expiredCh) + 1
    BY <1>2
  <2> QED
    BY <1>2, <2>1, <2>2 DEF Due
<1>4. Due(x) => Due(x)'
  BY <1>2 DEF Due
<1>5. x = y => Due(x)'
  BY <1>2 DEF Due
<1> QED
  BY <1>3, <1>4, <1>5

LEMMA DueTaken ==
    ASSUME TypeOK, NEW x \in Runners, expiredCh # <<>>, expiredCh' = Tail(expiredCh)
    PROVE  /\ Due(x)' => Due(x)
           /\ Due(x) => Due(x)' \/ x = Head(expiredCh)
<1>1. expiredCh \in Seq(Runners)
  BY DEF TypeOK
<1>2. /\ Len(expiredCh') = Len(expiredCh) - 1 /\ Len(expiredCh) \in Nat \ {0}
      /\ \A i \in 1 .. Len(expiredCh') : expiredCh'[i] = expiredCh[i + 1]
      /\ Head(expiredCh) = expiredCh[1]
  BY <1>1
<1>3. Due(x)' => Due(x)
  BY <1>2 DEF Due
<1>4. ASSUME Due(x), x # Head(expiredCh) PROVE Due(x)'
  <2>1. PICK i \in 1 .. Len(expiredCh) : expiredCh[i] = x
    BY <1>4 DEF Due
  <2>2. i - 1 \in 1 .. Len(expiredCh') /\ expiredCh'[i - 1] = expiredCh[i - 1 + 1] /\ i - 1 + 1 = i
    BY <1>2, <1>4, <2>1
  <2> QED
    BY <2>1, <2>2 DEF Due
<1> QED
  BY <1>3, <1>4

-----------------------------------------------------------------------------
(* Handing, action by action.                                               *)

(* A step of HandingFrame that touches no runner's handing.                 *)
LEMMA HandingKept ==
    ASSUME Typed, Typed', Handing, UNCHANGED loaded, RunnersKept,
           \A x \in Runners : Unentered(x)' => Unentered(x),
           \A q \in Requests, x \in Runners :
             Given(q, x)' => \/ Given(q, x) /\ req'[q].model = req[q].model
                             \/ req'[q].model \in Models /\ loaded[req'[q].model] = x,
           \A q \in Requests : req'[q].state = "loading" =>
             /\ req[q].state = "loading"
             /\ req'[q].runner = req[q].runner /\ req'[q].model = req[q].model,
           c'.pc = "recovering" => c.pc = "recovering" /\ c'.runner = c.runner,
           p'.pc = "loading" =>
             \/ p' = p /\ req'[p.cur].model = req[p.cur].model
             \/ /\ runner'[p'.llama].model = req'[p'.cur].model
                /\ runner'[p'.llama].proc # "none",
           activeLoading' \in {activeLoading, None}
    PROVE  Handing'
<1>1. \A x \in Runners : Unentered(x) =>
        runner[x].refCount = 0 /\ runner[x].refMu = "free"
  BY DEF Handing, UnenteredUnused
<1>2. \A q \in Requests : req[q].state = "loading" => req[q].runner \in Runners
  BY DEF Typed, RequestsTyped
<1>3. c.pc = "recovering" => c.runner \in Runners
  BY DEF Handing, RecovererHolds
<1>4. p'.pc = "loading" => /\ runner'[p'.llama].model = req'[p'.cur].model
                           /\ runner'[p'.llama].proc # "none"
  BY DEF Handing, LlamaTyped, Typed, PendingWork, RunnersKept
<1>5. activeLoading' # None => runner'[activeLoading'].proc # "none"
  BY Types DEF Handing, LlamaTyped, RunnersKept
<1> QED
  BY <1>1, <1>2, <1>3, <1>4, <1>5, HandingFrame DEF RunnersKept

LEMMA RequestHanding ==
    ASSUME Typed, Typed', Handing, NEW q \in Requests,
           Handler(q) \/ ContextDone(q) \/ Loader(q)
    PROVE  Handing'
<1> USE DEF table, chans, env
<1>0. /\ TypeOK /\ req \in [Requests -> RequestRecord]
      /\ runner \in [Runners -> RunnerRecord]
      /\ loaded \in [Models -> Runners \cup {None}]
      /\ p.pc \notin {"idle", "stopped"} => p.cur \in Requests /\ req[p.cur].state = "queued"
  BY Types
<1>1. CASE GetRunner(q)
  <2> USE <1>1 DEF GetRunner
  <2>1. PICK m \in Models, d \in KeepAlives :
          req' = [req EXCEPT
            ![q].model = m, ![q].keepAlive = d, ![q].runner = loaded[m],
            ![q].state = IF loaded[m] = None THEN "enqueue" ELSE "checking"]
    OBVIOUS
  <2>2. /\ req'[q].model = m /\ req'[q].runner = loaded[m]
        /\ req'[q].state \in {"enqueue", "checking"}
        /\ \A r \in Requests \ {q} : req'[r] = req[r]
    BY <1>0, <2>1 DEF RequestRecord
  <2>3. /\ req[q].state = "new" /\ RunnersKept
        /\ \A x \in Runners : Unentered(x)' <=> Unentered(x)
    BY DEF RunnersKept, Unentered
  <2>4. p.pc \notin {"idle", "stopped"} => p.cur \in Requests \ {q}
    BY <1>0, <2>3
  <2>5. \A r \in Requests, x \in Runners :
          Given(r, x)' => \/ Given(r, x) /\ req'[r].model = req[r].model
                          \/ req'[r].model \in Models /\ loaded[req'[r].model] = x
    BY <2>2, <2>4 DEF Given
  <2> QED
    BY <2>2, <2>3, <2>4, <2>5, HandingKept
<1>2. CASE CheckRunner(q) \/ Enqueue(q) \/ ContextDone(q)
  <2>1. /\ req'[q].model = req[q].model
        /\ \/ req'[q].state \in {"enqueue", "queued", "failed"} /\ req[q].state # "queued"
           \/ req'[q].state = "using" /\ req[q].state = "checking" /\ req'[q].runner = req[q].runner
           \/ req'[q].state = req[q].state /\ req'[q].runner = req[q].runner
        /\ \A r \in Requests \ {q} : req'[r] = req[r]
    <3>1. CASE CheckRunner(q)
      BY <1>0, <3>1 DEF CheckRunner, RequestRecord
    <3>2. CASE Enqueue(q)
      BY <1>0, <3>2 DEF Enqueue, Fail, RequestRecord
    <3>3. CASE ContextDone(q)
      BY <1>0, <3>3 DEF ContextDone, RequestRecord
    <3> QED
      BY <1>2, <3>1, <3>2, <3>3
  <2>2. UNCHANGED <<loaded, activeLoading, runner, p, c>>
    BY <1>2 DEF CheckRunner, Enqueue, ContextDone
  <2>3. RunnersKept /\ \A x \in Runners : Unentered(x)' <=> Unentered(x)
    BY <2>2 DEF RunnersKept, Unentered
  <2>4. \A r \in Requests, x \in Runners :
          Given(r, x)' => Given(r, x) /\ req'[r].model = req[r].model
    BY <2>1, <2>2 DEF Given, GivenStates
  <2>5. \A r \in Requests : req'[r].state = "loading" =>
             /\ req[r].state = "loading"
             /\ req'[r].runner = req[r].runner /\ req'[r].model = req[r].model
    BY <2>1
  <2> QED
    BY <1>0, <2>1, <2>2, <2>3, <2>4, <2>5, HandingKept
<1>3. CASE UseRunner(q)
  <2> DEFINE x == req[q].runner
  <2>1. /\ req[q].state = "using" /\ x \in Runners /\ UseLoadedRunner(q, x)
        /\ UNCHANGED <<loaded, activeLoading, p, c>>
    BY <1>3 DEF UseRunner, Typed, RequestsTyped
  <2>2. /\ req'[q].model = req[q].model /\ req'[q].state = "served" /\ req'[q].runner = x
        /\ \A r \in Requests \ {q} : req'[r] = req[r]
    BY <1>0, <2>1, UseLoadedRunnerTyped
  <2>3. /\ runner'[x].refMu = runner[x].refMu
        /\ \A y \in Runners : /\ runner'[y].options = runner[y].options
                              /\ runner'[y].model = runner[y].model
                              /\ runner'[y].proc = runner[y].proc
        /\ \A y \in Runners \ {x} : runner'[y] = runner[y]
    BY <1>0, <2>1, UseLoadedRunnerEffect DEF Free
  <2>4. Given(q, x)
    BY <2>1 DEF Given, GivenStates
  <2>5. ~Unentered(x)
    BY <2>1, <2>4 DEF Handing, UnenteredUnused
  <2>6. \A y \in Runners : Unentered(y)' <=> Unentered(y)
    BY <2>1, <2>3 DEF Unentered
  <2>7. \A y \in Runners : Unentered(y)' => /\ Unentered(y)
               /\ runner'[y].refCount = 0 /\ runner'[y].refMu = "free"
    BY <2>3, <2>5, <2>6 DEF Handing, UnenteredUnused
  <2>8. \A r \in Requests, y \in Runners :
          Given(r, y)' => Given(r, y) /\ req'[r].model = req[r].model
    BY <2>1, <2>2 DEF Given, GivenStates
  <2>9. \A r \in Requests : req'[r].state = "loading" =>
             /\ req[r].state = "loading"
             /\ req'[r].runner = req[r].runner /\ req'[r].model = req[r].model
             /\ runner'[req[r].runner].refMu = runner[req[r].runner].refMu
    <3>1. \A y \in Runners : runner'[y].refMu = runner[y].refMu
      BY <2>3
    <3> QED
      BY <2>2, <3>1 DEF Typed, RequestsTyped
  <2>10. c'.pc = "recovering" =>
             /\ c.pc = "recovering" /\ c'.runner = c.runner
             /\ runner'[c.runner].refMu = runner[c.runner].refMu
    BY <2>1, <2>3 DEF Handing, RecovererHolds
  <2>11. /\ p'.pc = "loading" => /\ runner'[p'.llama].model = req'[p'.cur].model
                                 /\ runner'[p'.llama].proc # "none"
         /\ activeLoading' # None => runner'[activeLoading'].proc # "none"
    BY <1>0, <2>1, <2>2, <2>3, Types DEF Handing, LlamaTyped, Typed, PendingWork
  <2> QED
    BY <2>1, <2>3, <2>7, <2>8, <2>9, <2>10, <2>11, HandingFrame
<1>4. CASE Loader(q)
  <2> DEFINE x == req[q].runner
  <2>1. /\ req[q].state = "loading" /\ x \in Runners
        /\ UNCHANGED <<loaded, activeLoading, p, c>>
        /\ \/ runner' = [runner EXCEPT ![x].refCount = Referenced(@), ![x].refMu = "free"]
           \/ runner' = [runner EXCEPT ![x].refMu = "free"]
    BY <1>4 DEF Loader, LoaderReady, LoaderFailed, Typed, RequestsTyped
  <2>2. /\ req'[q].model = req[q].model /\ req'[q].state \in {"served", "failed"}
        /\ req'[q].runner = x
        /\ \A r \in Requests \ {q} : req'[r] = req[r]
    BY <1>0, <1>4 DEF Loader, LoaderReady, LoaderFailed, Fail, RequestRecord
  <2>3. /\ \A y \in Runners : /\ runner'[y].options = runner[y].options
                              /\ runner'[y].model = runner[y].model
                              /\ runner'[y].proc = runner[y].proc
        /\ \A y \in Runners \ {x} : runner'[y] = runner[y]
    BY <1>0, <2>1 DEF RunnerRecord
  <2>4. Given(q, x)
    BY <2>1 DEF Given, GivenStates
  <2>5. ~Unentered(x)
    BY <2>1, <2>4 DEF Handing, UnenteredUnused
  <2>6. \A y \in Runners : Unentered(y)' <=> Unentered(y)
    BY <2>1, <2>3 DEF Unentered
  <2>7. \A y \in Runners : Unentered(y)' => /\ Unentered(y)
               /\ runner'[y].refCount = 0 /\ runner'[y].refMu = "free"
    BY <2>3, <2>5, <2>6 DEF Handing, UnenteredUnused
  <2>8. \A r \in Requests, y \in Runners :
          Given(r, y)' => Given(r, y) /\ req'[r].model = req[r].model
    BY <2>1, <2>2 DEF Given, GivenStates
  <2>9. ASSUME NEW r \in Requests, req'[r].state = "loading"
        PROVE  /\ req[r].state = "loading"
               /\ req'[r].runner = req[r].runner /\ req'[r].model = req[r].model
               /\ runner'[req[r].runner].refMu = runner[req[r].runner].refMu
    <3>1. r # q /\ req'[r] = req[r]
      BY <2>2, <2>9
    <3>2. req[r].runner \in Runners \ {x}
      BY <2>1, <2>9, <3>1 DEF Typed, RequestsTyped, Handing, LoadersHold
    <3> QED
      BY <2>3, <2>9, <3>1, <3>2
  <2>10. ASSUME c'.pc = "recovering"
         PROVE  /\ c.pc = "recovering" /\ c'.runner = c.runner
                /\ runner'[c.runner].refMu = runner[c.runner].refMu
    <3>1. c.pc = "recovering" /\ c'.runner = c.runner
      BY <2>1, <2>10
    <3>2. c.runner \in Runners \ {x}
      BY <2>1, <3>1 DEF Handing, LoadersHold, RecovererHolds
    <3> QED
      BY <2>3, <3>1, <3>2
  <2>11. /\ p'.pc = "loading" => /\ runner'[p'.llama].model = req'[p'.cur].model
                                 /\ runner'[p'.llama].proc # "none"
         /\ activeLoading' # None => runner'[activeLoading'].proc # "none"
    BY <1>0, <2>1, <2>2, <2>3, Types DEF Handing, LlamaTyped, Typed, PendingWork
  <2> QED
    BY <2>1, <2>3, <2>7, <2>8, <2>9, <2>10, <2>11, HandingFrame
<1> QED
  BY <1>1, <1>2, <1>3, <1>4 DEF Handler

LEMMA SchedulingHanding ==
    ASSUME Typed, Typed', Handing,
           \/ TakePending \/ IgnoreUnloaded \/ Snapshot \/ CheckLoaded \/ UseLoaded
           \/ FindRunnerToUnload \/ EvictAll \/ ExpireTarget \/ WaitUnloaded
           \/ StopPending
    PROVE  Handing'
<1> USE DEF table, chans, env
<1>0. /\ TypeOK /\ req \in [Requests -> RequestRecord]
      /\ runner \in [Runners -> RunnerRecord] /\ p \in PendingRecord
      /\ loaded \in [Models -> Runners \cup {None}]
      /\ p.pc \notin {"idle", "stopped"} =>
           p.cur \in Requests /\ req[p.cur].state = "queued" /\ req[p.cur].model \in Models
  BY Types
<1>1. CASE TakePending
  <2>1. /\ UNCHANGED <<loaded, activeLoading, runner, c>> /\ p.pc = "idle"
        /\ p' = p \/ p'.pc = "top"
    BY <1>0, <1>1 DEF TakePending, PendingRecord
  <2>2. \A r \in Requests : \/ req'[r] = req[r]
                            \/ req'[r].state = "finished"
    BY <1>0, <1>1 DEF TakePending, RequestRecord
  <2>3. RunnersKept /\ \A x \in Runners : Unentered(x)' => Unentered(x)
    BY <2>1 DEF RunnersKept, Unentered
  <2>4. \A r \in Requests, x \in Runners :
          Given(r, x)' => Given(r, x) /\ req'[r].model = req[r].model
    BY <2>1, <2>2 DEF Given, GivenStates
  <2>5. \A r \in Requests : req'[r].state = "loading" => req'[r] = req[r]
    BY <2>2
  <2> QED
    BY <2>1, <2>3, <2>4, <2>5, HandingKept
<1>2. CASE Snapshot
  <2> DEFINE x == loaded[req[p.cur].model]
  <2>1. /\ UNCHANGED <<loaded, activeLoading, runner, req, c>> /\ p.pc = "top" /\ p'.cur = p.cur
        /\ p'.pc \in {"check", "find", "load"}
        /\ p'.pc = "check" => p'.targets = {x}
    BY <1>0, <1>2 DEF Snapshot, PendingRecord
  <2>2. RunnersKept /\ \A y \in Runners : Unentered(y)' => Unentered(y)
    BY <2>1 DEF RunnersKept, Unentered
  <2>3. \A r \in Requests, y \in Runners :
          Given(r, y)' => \/ Given(r, y) /\ req'[r].model = req[r].model
                          \/ req'[r].model \in Models /\ loaded[req'[r].model] = y
    BY <1>0, <2>1 DEF Given
  <2> QED
    BY <2>1, <2>2, <2>3, HandingKept
<1>3. CASE IgnoreUnloaded \/ CheckLoaded \/ FindRunnerToUnload \/ EvictAll \/ WaitUnloaded \/ StopPending
  <2>1. /\ UNCHANGED <<loaded, activeLoading, runner, req, c>>
        /\ \/ p'.pc \notin {"check", "use", "loading"}
           \/ p.pc = "check" /\ p'.pc = "use" /\ p'.cur = p.cur /\ p'.targets = p.targets
           \/ p' = p
    <3>1. CASE IgnoreUnloaded
      BY <3>1 DEF IgnoreUnloaded
    <3>2. CASE CheckLoaded
      BY <1>0, <3>2 DEF CheckLoaded, PendingRecord
    <3>3. CASE FindRunnerToUnload \/ EvictAll
      BY <1>0, <3>3 DEF FindRunnerToUnload, EvictAll, PendingRecord
    <3>4. CASE WaitUnloaded \/ StopPending
      BY <1>0, <3>4 DEF WaitUnloaded, StopPending, PendingRecord, PendingIdle
    <3> QED
      BY <1>3, <3>1, <3>2, <3>3, <3>4
  <2>2. RunnersKept /\ \A x \in Runners : Unentered(x)' => Unentered(x)
    BY <2>1 DEF RunnersKept, Unentered
  <2>3. \A r \in Requests, x \in Runners :
          Given(r, x)' => Given(r, x) /\ req'[r].model = req[r].model
    BY <2>1 DEF Given
  <2> QED
    BY <2>1, <2>2, <2>3, HandingKept
<1>4. CASE ExpireTarget
  <2>1. PICK x \in p.todo :
          /\ ExpireNow(x)
          /\ p' = [p EXCEPT !.todo = @ \ {x},
                            !.pc = IF p.todo = {x} THEN "wait" ELSE @,
                            !.need = IF p.todo = {x} THEN Cardinality(p.targets) ELSE 0]
    BY <1>4 DEF ExpireTarget
  <2>2. /\ UNCHANGED <<loaded, activeLoading, req, c>> /\ p.pc = "expire"
        /\ p'.pc \in {"expire", "wait"} /\ x \in Runners
    BY <1>0, <1>4, <2>1 DEF ExpireTarget, PendingRecord
  <2>3. RunnersKept /\ \A y \in Runners : Unentered(y)' => Unentered(y)
    BY <1>0, <2>1, <2>2, ExpireNowEffect DEF Unentered
  <2>4. \A r \in Requests, y \in Runners :
          Given(r, y)' => Given(r, y) /\ req'[r].model = req[r].model
    BY <2>2 DEF Given
  <2> QED
    BY <2>2, <2>3, <2>4, HandingKept
<1>5. CASE UseLoaded
  <2>1. PICK x \in p.targets : UseLoadedRunner(p.cur, x)
    BY <1>5 DEF UseLoaded
  <2> DEFINE q == p.cur
  <2>2. /\ p.pc = "use" /\ p'.pc = "idle" /\ x \in Runners /\ q \in Requests
        /\ UNCHANGED <<loaded, activeLoading, c>>
    BY <1>0, <1>5, PendingIdleTyped DEF UseLoaded, PendingRecord
  <2>3. /\ req'[q].model = req[q].model /\ req'[q].state = "served" /\ req'[q].runner = x
        /\ \A r \in Requests \ {q} : req'[r] = req[r]
    BY <1>0, <2>1, <2>2, UseLoadedRunnerTyped
  <2>4. /\ runner'[x].refMu = runner[x].refMu
        /\ \A y \in Runners : /\ runner'[y].options = runner[y].options
                              /\ runner'[y].model = runner[y].model
                              /\ runner'[y].proc = runner[y].proc
        /\ \A y \in Runners \ {x} : runner'[y] = runner[y]
    BY <1>0, <2>1, <2>2, UseLoadedRunnerEffect DEF Free
  <2>5. Given(q, x)
    BY <2>2 DEF Given
  <2>6. ~Unentered(x)
    BY <2>2, <2>5 DEF Handing, UnenteredUnused
  <2>7. \A y \in Runners : Unentered(y)' => Unentered(y)
    BY <2>2, <2>4 DEF Unentered
  <2>8. \A y \in Runners : Unentered(y)' => /\ Unentered(y)
               /\ runner'[y].refCount = 0 /\ runner'[y].refMu = "free"
    BY <2>4, <2>6, <2>7 DEF Handing, UnenteredUnused
  <2>9. \A r \in Requests, y \in Runners :
          Given(r, y)' => Given(r, y) /\ req'[r].model = req[r].model
    BY <2>2, <2>3, <2>5 DEF Given
  <2>10. \A r \in Requests : req'[r].state = "loading" =>
             /\ req[r].state = "loading"
             /\ req'[r].runner = req[r].runner /\ req'[r].model = req[r].model
             /\ runner'[req[r].runner].refMu = runner[req[r].runner].refMu
    <3>1. \A y \in Runners : runner'[y].refMu = runner[y].refMu
      BY <2>4
    <3> QED
      BY <2>3, <3>1 DEF Typed, RequestsTyped
  <2>11. c'.pc = "recovering" =>
             /\ c.pc = "recovering" /\ c'.runner = c.runner
             /\ runner'[c.runner].refMu = runner[c.runner].refMu
    BY <2>2, <2>4 DEF Handing, RecovererHolds
  <2>12. activeLoading' # None => runner'[activeLoading'].proc # "none"
    BY <2>2, <2>4, Types DEF Handing, LlamaTyped
  <2> QED
    BY <2>2, <2>4, <2>8, <2>9, <2>10, <2>11, <2>12, HandingFrame
<1> QED
  BY <1>1, <1>2, <1>3, <1>4, <1>5

(* The steps of load that do not install a runner.                          *)
LEMMA LoadHanding ==
    ASSUME Typed, Typed', Handing,
           LoadStart \/ LoadNoFit \/ LoadError \/ LoadErrorAfterShutdown
    PROVE  Handing'
<1> USE DEF table, chans, env
<1>0. /\ TypeOK /\ req \in [Requests -> RequestRecord]
      /\ runner \in [Runners -> RunnerRecord] /\ p \in PendingRecord
      /\ p.pc \in {"load", "loading"}
      /\ p.cur \in Requests /\ req[p.cur].state = "queued"
      /\ UNCHANGED <<loaded, c>>
  BY Types DEF LoadStart, LoadNoFit, LoadError, LoadErrorAfterShutdown
<1>1. ASSUME RunnersKept, p'.pc \notin {"check", "use"},
             p'.pc = "loading" => /\ runner'[p'.llama].model = req'[p'.cur].model
                                  /\ runner'[p'.llama].proc # "none",
             activeLoading' \in {activeLoading, None},
             \A x \in Runners : Unentered(x)' => Unentered(x),
             \A q \in Requests : \/ req'[q].state = "failed"
                                 \/ /\ req'[q].state = req[q].state
                                    /\ req'[q].runner = req[q].runner
                                    /\ req'[q].model = req[q].model
      PROVE  Handing'
  <2>1. \A q \in Requests, x \in Runners :
          Given(q, x)' => Given(q, x) /\ req'[q].model = req[q].model
    BY <1>1 DEF Given, GivenStates
  <2>2. \A q \in Requests : req'[q].state = "loading" =>
          /\ req[q].state = "loading"
          /\ req'[q].runner = req[q].runner /\ req'[q].model = req[q].model
    BY <1>1
  <2> QED
    BY <1>0, <1>1, <2>1, <2>2, HandingKept
<1>2. ASSUME CloseActive PROVE RunnersKept /\ activeLoading' = None
  BY <1>0, <1>2, CloseActiveEffect
<1>3. ASSUME Fail(p.cur)
      PROVE  \A q \in Requests : \/ req'[q].state = "failed"
                                 \/ /\ req'[q].state = req[q].state
                                    /\ req'[q].runner = req[q].runner
                                    /\ req'[q].model = req[q].model
  BY <1>0, <1>3, FailEffect
<1>4. ASSUME UNCHANGED runner PROVE RunnersKept
  BY <1>4 DEF RunnersKept
<1>5. ASSUME RunnersKept, p'.pc # "loading", activeLoading' \in {activeLoading, None}
      PROVE  \A x \in Runners : Unentered(x)' => Unentered(x)
  BY <1>5, NoneAssumption DEF Unentered, RunnersKept
<1>6. AfterLoadFalse.pc = "idle" /\ \A o : AfterLoadTrue(o).pc \in {"top", "evict", "find"}
  BY <1>0, RetryPending, PendingIdleTyped DEF AfterLoadFalse
<1>7. CASE LoadStart
  <2>1. CASE Fail(p.cur) /\ p' = AfterLoadFalse /\ UNCHANGED <<activeLoading, runner>>
    BY <1>1, <1>3, <1>4, <1>5, <1>6, <2>1
  <2>2. CASE p' = AfterLoadTrue(req[p.cur].oomRetried) /\ UNCHANGED <<activeLoading, runner, req>>
    BY <1>1, <1>4, <1>5, <1>6, <2>2
  <2>3. ASSUME NEW x \in Fresh,
               runner' = [runner EXCEPT ![x] = StartedRunner(req[p.cur].model)],
               activeLoading' = x,
               p' = [p EXCEPT !.pc = "loading", !.llama = x],
               UNCHANGED req
        PROVE  Handing'
    <3>1. /\ x \in Runners /\ Unentered(x) /\ runner'[x].refCount = 0 /\ runner'[x].refMu = "free"
          /\ \A y \in Runners \ {x} : runner'[y] = runner[y]
      BY <1>0, <2>3 DEF Fresh, Unentered, StartedRunner, NoRunner
    <3>2. /\ p'.pc = "loading" /\ p'.llama = x /\ p'.cur = p.cur
          /\ runner'[x].model = req[p.cur].model /\ runner'[x].proc = "up"
      BY <1>0, <2>3, <3>1 DEF PendingRecord, StartedRunner, NoRunner
    <3>3. \A y \in Runners : Unentered(y)' => /\ Unentered(y)
                 /\ runner'[y].refCount = 0 /\ runner'[y].refMu = "free"
      BY <2>3, <3>1, <3>2 DEF Unentered, Handing, UnenteredUnused
    <3>4. \A q \in Requests, y \in Runners :
            Given(q, y)' => Given(q, y) /\ req'[q].model = req[q].model
      BY <2>3, <3>2 DEF Given
    <3>5. ASSUME NEW q \in Requests, req'[q].state = "loading"
          PROVE  /\ req[q].state = "loading"
                 /\ req'[q].runner = req[q].runner /\ req'[q].model = req[q].model
                 /\ runner'[req[q].runner].refMu = runner[req[q].runner].refMu
      <4>1. req[q].state = "loading" /\ req[q].runner \in Runners
        BY <2>3, <3>5 DEF Typed, RequestsTyped
      <4>2. Given(q, req[q].runner)
        BY <4>1 DEF Given, GivenStates
      <4>3. req[q].runner # x
        BY <3>1, <4>1, <4>2 DEF Handing, UnenteredUnused
      <4> QED
        BY <2>3, <3>1, <4>1, <4>3
    <3>6. c'.pc = "recovering" =>
            /\ c.pc = "recovering" /\ c'.runner = c.runner
            /\ runner'[c.runner].refMu = runner[c.runner].refMu
      BY <1>0, <3>1 DEF Handing, RecovererHolds, UnenteredUnused
    <3> QED
      BY <1>0, <2>3, <3>1, <3>2, <3>3, <3>4, <3>5, <3>6, HandingFrame
  <2>4. CASE /\ activeLoading # None
             /\ p' = IF runner[activeLoading].model = req[p.cur].model
                     THEN [p EXCEPT !.pc = "loading", !.llama = activeLoading]
                     ELSE [p EXCEPT !.pc = "panic"]
             /\ UNCHANGED <<activeLoading, runner, req>>
    <3>1. /\ p'.pc \in {"loading", "panic"}
          /\ p'.pc = "loading" => /\ p'.llama = activeLoading /\ p'.cur = p.cur
                                  /\ runner[activeLoading].model = req[p.cur].model
                                  /\ runner[activeLoading].proc # "none"
      BY <1>0, <2>4 DEF PendingRecord, Handing, LlamaTyped
    <3>2. \A x \in Runners : Unentered(x)' => Unentered(x)
      BY <2>4, <3>1 DEF Unentered
    <3> QED
      BY <1>1, <1>4, <2>4, <3>1, <3>2
  <2>5. Fresh # {} => (CHOOSE x \in Fresh : TRUE) \in Fresh
    OBVIOUS
  <2> QED
    BY <1>7, <2>1, <2>2, <2>3, <2>4, <2>5 DEF LoadStart
<1>8. CASE LoadNoFit
  <2>1. CASE p' = AfterLoadTrue(req[p.cur].oomRetried) /\ UNCHANGED <<activeLoading, runner, req>>
    BY <1>1, <1>4, <1>5, <1>6, <2>1
  <2>2. CASE CloseActive /\ Fail(p.cur) /\ p' = AfterLoadFalse
    BY <1>1, <1>2, <1>3, <1>5, <1>6, <2>2
  <2> QED
    BY <1>8, <2>1, <2>2 DEF LoadNoFit
<1>9. CASE LoadError
  <2>1. CASE req' = [req EXCEPT ![p.cur].oomRetried = TRUE] /\ p' = AfterLoadTrue(TRUE)
    <3>1. \A q \in Requests : /\ req'[q].state = req[q].state
                              /\ req'[q].runner = req[q].runner
                              /\ req'[q].model = req[q].model
      BY <1>0, <2>1 DEF RequestRecord
    <3> QED
      BY <1>1, <1>2, <1>5, <1>6, <1>9, <2>1, <3>1 DEF LoadError
  <2>2. CASE Fail(p.cur) /\ p' = AfterLoadFalse
    BY <1>1, <1>2, <1>3, <1>5, <1>6, <1>9, <2>2 DEF LoadError
  <2> QED
    BY <1>9, <2>1, <2>2 DEF LoadError
<1>10. CASE LoadErrorAfterShutdown
  <2>1. p'.pc = "panic" /\ UNCHANGED <<activeLoading, runner, req>>
    BY <1>0, <1>10 DEF LoadErrorAfterShutdown, PendingRecord
  <2> QED
    BY <1>1, <1>4, <1>5, <2>1
<1> QED
  BY <1>7, <1>8, <1>9, <1>10

(* What Install does: the runner is new to the table, and takes no slot of  *)
(* another.                                                                 *)
LEMMA InstallEffect ==
    ASSUME Typed, Loading, Handing, Install
    PROVE  LET x == p.llama
               q == p.cur
               m == req[q].model
           IN  /\ x \in Runners /\ q \in Requests /\ m \in Models
               /\ Unentered(x) /\ loaded[m] = None /\ runner[x].model = m
               /\ req[q].state = "queued"
               /\ req'[q].state = "loading" /\ req'[q].runner = x
               /\ req'[q].model = m /\ req'[q].stale = req[q].stale
               /\ \A r \in Requests \ {q} : req'[r] = req[r]
               /\ runner'[x].refMu = "loader" /\ runner'[x].refCount = runner[x].refCount
               /\ runner'[x].model = m
               /\ runner'[x].proc = runner[x].proc /\ runner[x].proc # "none"
               /\ runner'[x].options = runner[x].options
               /\ \A y \in Runners \ {x} : runner'[y] = runner[y]
               /\ loaded' = [loaded EXCEPT ![m] = x]
               /\ LoadedRunners' = LoadedRunners \cup {x}
               /\ x \notin LoadedRunners
               /\ activeLoading' = None /\ p'.pc = "idle"
               /\ activeLoading \in {x, None}
               /\ UNCHANGED <<c, expiredCh, ctx>>
<1> USE DEF chans, env
<1> DEFINE x == p.llama
           q == p.cur
           m == req[q].model
           d == IF req[q].keepAlive = Unset THEN DefaultKeepAlive ELSE req[q].keepAlive
<1>0. /\ TypeOK /\ req \in [Requests -> RequestRecord]
      /\ runner \in [Runners -> RunnerRecord]
      /\ loaded \in [Models -> Runners \cup {None}]
      /\ p.pc = "loading" /\ x \in Runners
      /\ q \in Requests /\ req[q].state = "queued" /\ m \in Models
  BY Types DEF Install, Typed, PendingWork
<1>1. /\ Unentered(x) /\ loaded[m] = None
      /\ runner[x].model = m /\ runner[x].proc # "none"
      /\ activeLoading \in {x, None}
  BY <1>0 DEF Unentered, Loading, SlotReserved, LlamaIsActive, Handing, LlamaTyped
<1>2. x \notin LoadedRunners
  BY <1>0, <1>1 DEF Handing, UnenteredUnused
<1>3. /\ runner' = [y \in Runners |->
             IF y = x THEN [runner[y] EXCEPT !.duration = d, !.refMu = "loader"]
             ELSE IF y = loaded[m] THEN Unload(runner[y]) ELSE runner[y]]
      /\ loaded' = [loaded EXCEPT ![m] = x]
      /\ req' = [req EXCEPT ![q].state = "loading", ![q].runner = x]
      /\ activeLoading' = None
      /\ p' = AfterLoadFalse
      /\ UNCHANGED <<c, expiredCh, ctx>>
  BY DEF Install
<1> HIDE DEF d
<1>4. /\ runner'[x].refMu = "loader" /\ runner'[x].refCount = runner[x].refCount
      /\ runner'[x].model = m /\ runner'[x].proc = runner[x].proc
      /\ runner'[x].options = runner[x].options
  <2>1. runner'[x] = [runner[x] EXCEPT !.duration = d, !.refMu = "loader"]
    BY <1>0, <1>3
  <2>2. runner[x] \in RunnerRecord
    BY <1>0
  <2> QED
    BY <1>1, <2>1, <2>2 DEF RunnerRecord
<1>5. \A y \in Runners \ {x} : runner'[y] = runner[y]
  BY <1>1, <1>3, NoneAssumption
<1>6. /\ req'[q].state = "loading" /\ req'[q].runner = x
      /\ req'[q].model = m /\ req'[q].stale = req[q].stale
      /\ \A r \in Requests \ {q} : req'[r] = req[r]
  BY <1>0, <1>3 DEF RequestRecord
<1>7. LoadedRunners' = LoadedRunners \cup {x}
  <2>1. /\ Loaded' = Loaded \cup {m} /\ m \notin Loaded
        /\ \A n \in Loaded : loaded'[n] = loaded[n]
        /\ loaded'[m] = x
    BY <1>0, <1>1, <1>3, NoneAssumption DEF Loaded
  <2> QED
    BY <2>1 DEF LoadedRunners
<1>8. p'.pc = "idle"
  BY <1>3, PendingIdleTyped DEF AfterLoadFalse
<1> QED
  BY <1>0, <1>1, <1>2, <1>3, <1>4, <1>5, <1>6, <1>7, <1>8

LEMMA InstallHanding ==
    ASSUME Typed, Typed', Loading, Handing, Install
    PROVE  Handing'
<1> DEFINE x == p.llama
           q == p.cur
           m == req[q].model
<1>0. /\ x \in Runners /\ q \in Requests /\ m \in Models
      /\ Unentered(x) /\ loaded[m] = None /\ runner[x].model = m
      /\ req[q].state = "queued"
      /\ req'[q].state = "loading" /\ req'[q].runner = x
      /\ req'[q].model = m
      /\ \A r \in Requests \ {q} : req'[r] = req[r]
      /\ runner'[x].refMu = "loader"
      /\ runner'[x].model = m /\ runner'[x].proc = runner[x].proc /\ runner[x].proc # "none"
      /\ \A y \in Runners \ {x} : runner'[y] = runner[y]
      /\ loaded' = [loaded EXCEPT ![m] = x]
      /\ LoadedRunners' = LoadedRunners \cup {x}
      /\ activeLoading' = None /\ p'.pc = "idle" /\ activeLoading \in {x, None}
      /\ c' = c
  BY InstallEffect
<1> HIDE DEF x, q, m
<1>1. /\ runner[x].refMu = "free" /\ x \notin LoadedRunners
      /\ \A r \in Requests : ~Given(r, x)
  BY <1>0 DEF Handing, UnenteredUnused
<1>2. /\ loaded \in [Models -> Runners \cup {None}] /\ loaded'[m] = x
      /\ \A n \in Models \ {m} : loaded'[n] = loaded[n]
  BY <1>0, Types
<1>3. \A r \in Requests, y \in Runners : Given(r, y)' => Given(r, y) \/ (r = q /\ y = x)
  BY <1>0 DEF Given
<1>4. \A y \in Runners : Unentered(y)' => Unentered(y) /\ y # x
  BY <1>0, NoneAssumption DEF Unentered
<1>5. UnenteredUnused'
  <2> SUFFICES ASSUME NEW y \in Runners, Unentered(y)'
               PROVE  /\ runner'[y].refCount = 0 /\ runner'[y].refMu = "free"
                      /\ y \notin LoadedRunners'
                      /\ \A r \in Requests : ~Given(r, y)'
    BY DEF UnenteredUnused
  <2>1. Unentered(y) /\ y # x
    BY <1>4
  <2> QED
    BY <1>0, <1>3, <2>1 DEF Handing, UnenteredUnused
<1>6. GivenTyped'
  <2> SUFFICES ASSUME NEW r \in Requests, NEW y \in Runners, Given(r, y)'
               PROVE  /\ runner'[y].model = req'[r].model
                      /\ runner'[y].options => loaded'[req'[r].model] = y
    BY DEF GivenTyped
  <2>1. CASE r = q /\ y = x
    BY <1>0, <1>2, <2>1
  <2>2. CASE Given(r, y) /\ ~(r = q /\ y = x)
    <3>1. y # x /\ runner'[y] = runner[y]
      BY <1>0, <1>1, <2>2
    <3>2. r # q
      <4>1. req'[r].runner = y
        BY <1>0 DEF Given
      <4> QED
        BY <1>0, <3>1, <4>1
    <3>3. /\ runner[y].model = req[r].model
          /\ runner[y].options => loaded[req[r].model] = y
      BY <2>2 DEF Handing, GivenTyped
    <3>4. req'[r] = req[r] /\ runner[y].model \in Models \cup {None}
      BY <1>0, <3>2, Types DEF RunnerRecord
    <3>5. req[r].model \in Models
      BY <2>2, Types DEF Given, GivenStates, Typed, RequestsTyped
    <3>6. loaded[req[r].model] = y => req[r].model # m
      BY <1>0, NoneAssumption
    <3> QED
      BY <1>2, <3>1, <3>3, <3>4, <3>5, <3>6
  <2> QED
    BY <1>3, <2>1, <2>2
<1>7. LoadedTyped'
  <2>1. \A n \in Loaded' : n \in Models
    BY DEF Loaded
  <2>2. \A n \in Loaded' \ {m} : n \in Loaded /\ loaded[n] # x /\ loaded[n] \in Runners
    BY <1>1, <1>2 DEF Loaded, LoadedRunners
  <2> QED
    BY <1>0, <1>2, <2>1, <2>2 DEF Handing, LoadedTyped
<1>8. LoadersHold'
  <2> SUFFICES ASSUME NEW r \in Requests, req'[r].state = "loading"
               PROVE  /\ runner'[req'[r].runner].refMu = "loader"
                      /\ loaded'[req'[r].model] = req'[r].runner
                      /\ \A t \in Requests :
                           req'[t].state = "loading" /\ req'[t].runner = req'[r].runner => t = r
    BY DEF LoadersHold
  <2>1. \A t \in Requests \ {q} : req'[t].state = "loading" =>
          /\ req'[t] = req[t] /\ req[t].runner \in Runners \ {x}
          /\ req[t].model \in Models \ {m}
    <3> SUFFICES ASSUME NEW t \in Requests \ {q}, req'[t].state = "loading"
                 PROVE  /\ req'[t] = req[t] /\ req[t].runner \in Runners \ {x}
                        /\ req[t].model \in Models \ {m}
      OBVIOUS
    <3>1. /\ req'[t] = req[t] /\ req[t].state = "loading" /\ req[t].runner \in Runners
          /\ req[t].model \in Models
      BY <1>0 DEF Typed, RequestsTyped
    <3>2. loaded[req[t].model] = req[t].runner /\ runner[req[t].runner].refMu = "loader"
      BY <3>1 DEF Handing, LoadersHold
    <3> QED
      BY <1>0, <1>1, <3>1, <3>2, NoneAssumption
  <2>2. CASE r = q
    BY <1>0, <1>2, <2>1, <2>2
  <2>3. CASE r # q
    <3>1. req'[r] = req[r] /\ req[r].runner \in Runners \ {x} /\ req[r].model \in Models \ {m}
      BY <2>1, <2>3
    <3>2. /\ runner[req[r].runner].refMu = "loader"
          /\ loaded[req[r].model] = req[r].runner
          /\ \A t \in Requests : req[t].state = "loading" /\ req[t].runner = req[r].runner => t = r
      BY <3>1 DEF Handing, LoadersHold
    <3>3. \A t \in Requests :
            req'[t].state = "loading" /\ req'[t].runner = req'[r].runner => t = r
      BY <1>0, <2>1, <3>1, <3>2
    <3> QED
      BY <1>0, <1>2, <3>1, <3>2, <3>3
  <2> QED
    BY <2>2, <2>3
<1>9. RecovererHolds'
  BY <1>0, <1>1 DEF Handing, RecovererHolds
<1>10. LlamaTyped'
  BY <1>0 DEF LlamaTyped
<1> QED
  BY <1>5, <1>6, <1>7, <1>8, <1>9, <1>10 DEF Handing

(* What the steps of processCompleted do.                                   *)
LEMMA FinishedEffect ==
    ASSUME Typed, NEW q \in Requests, Finished(q)
    PROVE  LET x == loaded[req[q].model]
           IN  /\ req[q].state = "served" /\ req[q].model \in Models
               /\ req'[q].state = "finished" /\ req'[q].model = req[q].model
               /\ req'[q].runner = req[q].runner /\ req'[q].stale = req[q].stale
               /\ \A r \in Requests \ {q} : req'[r] = req[r]
               /\ \A y \in Runners : /\ runner'[y].model = runner[y].model
                                     /\ runner'[y].refMu = runner[y].refMu
                                     /\ runner'[y].options = runner[y].options
                                     /\ runner'[y].proc = runner[y].proc
               /\ \A y \in Runners \ {x} : runner'[y] = runner[y]
               /\ x # None =>
                    /\ x \in LoadedRunners /\ x \in Runners
                    /\ runner'[x].refCount = Dereferenced(runner[x].refCount)
                    /\ runner'[x].refCount # 0 => /\ runner'[x].armed = runner[x].armed
                                                  /\ expiredCh' = expiredCh
                    /\ runner'[x].refCount = 0 => \/ runner'[x].armed /\ expiredCh' = expiredCh
                                                  \/ expiredCh' = Append(expiredCh, x)
               /\ x = None => expiredCh' = expiredCh
               /\ UNCHANGED <<loaded, activeLoading, p, c, ctx>>
<1> USE DEF table, env
<1> DEFINE x == loaded[req[q].model]
           n == Dereferenced(runner[x].refCount)
           b == IF n # 0 THEN runner[x].armed ELSE runner[x].duration # Zero
<1>0. /\ req \in [Requests -> RequestRecord] /\ runner \in [Runners -> RunnerRecord]
      /\ loaded \in [Models -> Runners \cup {None}]
      /\ req[q].state = "served" /\ req[q].model \in Models
  BY Types DEF Finished, Typed, RequestsTyped
<1>1. /\ req' = [req EXCEPT ![q].state = "finished"]
      /\ UNCHANGED <<loaded, activeLoading, p, c, ctx>>
      /\ \/ x = None /\ UNCHANGED <<runner, expiredCh>>
         \/ /\ x # None
            /\ runner' = [runner EXCEPT ![x].refCount = n, ![x].armed = b]
            /\ expiredCh' = IF n = 0 /\ runner[x].duration = Zero
                            THEN Append(expiredCh, x) ELSE expiredCh
  BY DEF Finished
<1>2. /\ req'[q].state = "finished" /\ req'[q].model = req[q].model
      /\ req'[q].runner = req[q].runner /\ req'[q].stale = req[q].stale
      /\ \A r \in Requests \ {q} : req'[r] = req[r]
  BY <1>0, <1>1 DEF RequestRecord
<1>3. x # None => x \in LoadedRunners /\ x \in Runners
  BY <1>0 DEF LoadedRunners, Loaded
<1>4. CASE x = None
  BY <1>0, <1>1, <1>2, <1>4, NoneAssumption
<1>5. CASE x # None
  <2>1. /\ runner' = [runner EXCEPT ![x].refCount = n, ![x].armed = b]
        /\ expiredCh' = IF n = 0 /\ runner[x].duration = Zero
                        THEN Append(expiredCh, x) ELSE expiredCh
        /\ x \in Runners
    BY <1>1, <1>3, <1>5
  <2>2. /\ n # 0 => b = runner[x].armed
        /\ n = 0 => b = (runner[x].duration # Zero)
    OBVIOUS
  <2> HIDE DEF x, n, b
  <2>3. /\ \A y \in Runners : /\ runner'[y].model = runner[y].model
                              /\ runner'[y].refMu = runner[y].refMu
                              /\ runner'[y].options = runner[y].options
                              /\ runner'[y].proc = runner[y].proc
        /\ \A y \in Runners \ {x} : runner'[y] = runner[y]
        /\ runner'[x].refCount = n /\ runner'[x].armed = b
    BY <1>0, <2>1 DEF RunnerRecord
  <2>4. /\ n # 0 => /\ runner'[x].armed = runner[x].armed
                    /\ expiredCh' = expiredCh
        /\ n = 0 => \/ runner'[x].armed /\ expiredCh' = expiredCh
                    \/ expiredCh' = Append(expiredCh, x)
    BY <2>1, <2>2, <2>3
  <2> QED
    BY <1>0, <1>1, <1>2, <1>3, <1>5, <2>3, <2>4 DEF x, n
<1> QED
  BY <1>4, <1>5

LEMMA ExpiredEffect ==
    ASSUME Typed, Expired
    PROVE  LET x == Head(expiredCh)
               m == runner[x].model
           IN  /\ x \in Runners /\ Free(x) /\ expiredCh # <<>> /\ expiredCh' = Tail(expiredCh)
               /\ c.pc = "idle"
               /\ UNCHANGED <<req, p, activeLoading, ctx>>
               /\ \A y \in Runners : /\ runner'[y].model = runner[y].model
                                     /\ runner'[y].refCount = runner[y].refCount
                                     /\ runner'[y].options => runner[y].options
                                     /\ runner'[y].callbacks = runner[y].callbacks
                                     /\ runner'[y].proc = "none" => runner[y].proc = "none"
               /\ \A y \in Runners \ {x} : runner'[y] = runner[y]
               /\ \/ /\ ~Idle(x) /\ runner'[x].retries = runner[x].retries + 1
                     /\ runner'[x].armed = runner[x].armed
                     /\ runner'[x].refMu = "free" /\ UNCHANGED <<loaded, c>>
                     /\ runner'[x].proc = runner[x].proc
                     /\ runner'[x].options = runner[x].options
                  \/ /\ Idle(x) /\ loaded[m] = None /\ UNCHANGED <<loaded, c, runner>>
                  \/ /\ Idle(x) /\ loaded[m] \notin {None, x}
                     /\ runner'[x].refMu = "free" /\ UNCHANGED <<loaded, c>>
                     /\ runner'[x].retries = runner[x].retries
                     /\ runner'[x].proc = "closed" /\ ~runner'[x].options
                  \/ /\ Idle(x) /\ loaded[m] = x /\ ~runner'[x].options
                     /\ runner'[x].retries = runner[x].retries
                     /\ runner'[x].refMu = "completed" /\ runner'[x].proc = "closed"
                     /\ loaded' = [loaded EXCEPT ![m] = None]
                     /\ c'.pc = "recovering" /\ c'.runner = x
<1> USE DEF env
<1> DEFINE x == Head(expiredCh)
           m == runner[x].model
<1>0. /\ runner \in [Runners -> RunnerRecord] /\ expiredCh \in Seq(Runners)
      /\ expiredCh # <<>>
  BY Types DEF Expired
<1>1. x \in Runners /\ runner[x] \in RunnerRecord
  BY <1>0
<1>2. /\ Free(x) /\ expiredCh' = Tail(expiredCh) /\ c.pc = "idle"
      /\ UNCHANGED <<req, p, activeLoading, ctx>>
  BY DEF Expired
<1>3. CASE ~Idle(x) /\ runner' = [runner EXCEPT ![x].retries = @ + 1] /\ UNCHANGED <<loaded, c>>
  <2> HIDE DEF x
  <2>1. /\ \A y \in Runners \ {x} : runner'[y] = runner[y]
        /\ runner'[x].model = runner[x].model /\ runner'[x].refCount = runner[x].refCount
        /\ runner'[x].options = runner[x].options /\ runner'[x].callbacks = runner[x].callbacks
        /\ runner'[x].proc = runner[x].proc /\ runner'[x].refMu = runner[x].refMu
        /\ runner'[x].armed = runner[x].armed /\ runner'[x].retries = runner[x].retries + 1
    BY <1>0, <1>1, <1>3 DEF RunnerRecord
  <2> QED
    BY <1>0, <1>1, <1>2, <1>3, <2>1 DEF x, Free
<1>4. CASE Idle(x) /\ loaded[m] = None /\ UNCHANGED <<runner, loaded, c>>
  BY <1>0, <1>1, <1>2, <1>4
<1>5. CASE /\ Idle(x) /\ loaded[m] \notin {None, x}
           /\ runner' = [runner EXCEPT ![x] = Unload(@)] /\ UNCHANGED <<loaded, c>>
  <2> HIDE DEF x
  <2>1. /\ \A y \in Runners \ {x} : runner'[y] = runner[y]
        /\ runner'[x].model = runner[x].model /\ runner'[x].refCount = runner[x].refCount
        /\ ~runner'[x].options /\ runner'[x].callbacks = runner[x].callbacks
        /\ runner'[x].proc = "closed" /\ runner'[x].refMu = runner[x].refMu
        /\ runner'[x].retries = runner[x].retries
    BY <1>0, <1>1, <1>5 DEF RunnerRecord, Unload
  <2> QED
    BY <1>0, <1>1, <1>2, <1>5, <2>1 DEF x, Free
<1>6. CASE /\ Idle(x) /\ loaded[m] = x
           /\ runner' = [runner EXCEPT ![x] = [Unload(@) EXCEPT !.refMu = "completed"]]
           /\ loaded' = [loaded EXCEPT ![m] = None]
           /\ c' = [pc |-> "recovering", runner |-> x]
  <2> HIDE DEF x
  <2>1. /\ \A y \in Runners \ {x} : runner'[y] = runner[y]
        /\ runner'[x].model = runner[x].model /\ runner'[x].refCount = runner[x].refCount
        /\ ~runner'[x].options /\ runner'[x].callbacks = runner[x].callbacks
        /\ runner'[x].proc = "closed" /\ runner'[x].refMu = "completed"
        /\ runner'[x].retries = runner[x].retries
    BY <1>0, <1>1, <1>6 DEF RunnerRecord, Unload
  <2> QED
    BY <1>0, <1>1, <1>2, <1>6, <2>1 DEF x
<1> QED
  BY <1>3, <1>4, <1>5, <1>6 DEF Expired

(* What the service depends on in a runner.                                 *)
ServersKept ==
    \A x \in Runners : /\ runner'[x].model = runner[x].model
                       /\ runner'[x].options = runner[x].options
                       /\ runner'[x].proc = runner[x].proc

(* The steps that start and close no server and do not change the table.    *)
Quiet ==
    \/ \E q \in Requests : Handler(q) \/ ContextDone(q) \/ Loader(q) \/ Finished(q)
    \/ TakePending \/ IgnoreUnloaded \/ Snapshot \/ CheckLoaded \/ UseLoaded
    \/ FindRunnerToUnload \/ EvictAll \/ ExpireTarget \/ WaitUnloaded
    \/ LoadErrorAfterShutdown \/ StopPending
    \/ Recovered \/ StopCompleted
    \/ \E x \in Runners : Timers(x)
    \/ Api \/ Shutdown \/ UNCHANGED vars

LEMMA NextSteps ==
    [Next]_vars => \/ Quiet \/ LoadStart \/ Install \/ LoadNoFit \/ LoadError
                   \/ Expired \/ UnloadAllRunners
BY DEF Next, Quiet, ProcessPending, ProcessCompleted

LEMMA QuietServers ==
    ASSUME Typed, Quiet
    PROVE  ServersKept /\ UNCHANGED table
<1> USE DEF table, chans, env
<1>0. /\ TypeOK /\ runner \in [Runners -> RunnerRecord] /\ p \in PendingRecord
      /\ p.pc \notin {"idle", "stopped"} => p.cur \in Requests
  BY Types
<1>1. UNCHANGED runner => ServersKept
  BY DEF ServersKept
<1>2. ASSUME NEW q \in Requests, Handler(q) \/ ContextDone(q) \/ Loader(q) \/ Finished(q)
      PROVE  ServersKept /\ UNCHANGED table
  <2>1. CASE UseRunner(q)
    <3>1. UseLoadedRunner(q, req[q].runner) /\ req[q].runner \in Runners
      BY <2>1 DEF UseRunner, Typed, RequestsTyped
    <3> QED
      BY <1>0, <2>1, <3>1, UseLoadedRunnerEffect DEF ServersKept, UseRunner
  <2>2. CASE LoaderReady(q)
    BY <1>0, <2>2 DEF LoaderReady, RunnerRecord, ServersKept
  <2>3. CASE LoaderFailed(q)
    BY <1>0, <2>3 DEF LoaderFailed, RunnerRecord, ServersKept
  <2>4. CASE Finished(q)
    <3>1. ServersKept
      BY <2>4, FinishedEffect DEF ServersKept
    <3> QED
      BY <2>4, <3>1 DEF Finished
  <2> QED
    BY <1>1, <1>2, <2>1, <2>2, <2>3, <2>4
       DEF Handler, Loader, GetRunner, CheckRunner, Enqueue, ContextDone
<1>3. CASE UseLoaded
  <2>1. PICK y \in p.targets : UseLoadedRunner(p.cur, y)
    BY <1>3 DEF UseLoaded
  <2>2. y \in Runners /\ p.cur \in Requests
    BY <1>0, <1>3 DEF UseLoaded, PendingRecord
  <2> QED
    BY <1>0, <1>3, <2>1, <2>2, UseLoadedRunnerEffect DEF UseLoaded, ServersKept
<1>4. ASSUME NEW x \in Runners, ExpireNow(x) PROVE ServersKept
  BY <1>0, <1>4, ExpireNowEffect DEF ServersKept, RunnersKept
<1>5. CASE ExpireTarget
  <2>1. PICK y \in p.todo : ExpireNow(y)
    BY <1>5 DEF ExpireTarget
  <2>2. y \in Runners
    BY <1>0 DEF PendingRecord
  <2> QED
    BY <1>4, <1>5, <2>1, <2>2 DEF ExpireTarget
<1>6. CASE Recovered
  BY <1>0, <1>6 DEF Recovered, RunnerRecord, ServersKept
<1>7. ASSUME NEW x \in Runners, Timers(x) PROVE ServersKept /\ UNCHANGED table
  <2>1. CASE TimerFires(x)
    BY <1>0, <2>1 DEF TimerFires, RunnerRecord, ServersKept
  <2>2. CASE TimerCallback(x)
    BY <1>0, <2>2 DEF TimerCallback, RunnerRecord, ServersKept
  <2>3. CASE Requeue(x)
    BY <1>0, <2>3 DEF Requeue, RunnerRecord, ServersKept
  <2> QED
    BY <1>7, <2>1, <2>2, <2>3 DEF Timers
<1>8. CASE Api
  BY <1>1, <1>4, <1>8 DEF Api, RuntimeOOM, ExpireModel, ApiExpire
<1>9. CASE \/ TakePending \/ IgnoreUnloaded \/ Snapshot \/ CheckLoaded
           \/ FindRunnerToUnload \/ EvictAll \/ WaitUnloaded
           \/ LoadErrorAfterShutdown \/ StopPending
           \/ StopCompleted \/ Shutdown \/ UNCHANGED vars
  <2>1. UNCHANGED runner /\ UNCHANGED table
    BY <1>9 DEF TakePending, IgnoreUnloaded, Snapshot, CheckLoaded, FindRunnerToUnload,
       EvictAll, WaitUnloaded, LoadErrorAfterShutdown, StopPending, StopCompleted, Shutdown, vars
  <2> QED
    BY <1>1, <2>1
<1> QED
  BY <1>2, <1>3, <1>5, <1>6, <1>7, <1>8, <1>9 DEF Quiet

(* No runner goes back to before it was entered in the table.               *)
LEMMA UnenteredStep ==
    ASSUME Typed, Loading, Handing, [Next]_vars, NEW x \in Runners, Unentered(x)'
    PROVE  Unentered(x)
<1> USE DEF table, chans, env
<1>0. /\ TypeOK /\ runner \in [Runners -> RunnerRecord] /\ p \in PendingRecord
      /\ activeLoading \in Runners \cup {None}
  BY Types
<1>1. ASSUME p' = p \/ p'.pc # "loading", runner'[x].proc = "none" => runner[x].proc = "none",
             activeLoading' \in {activeLoading, None}
      PROVE  Unentered(x)
  BY <1>1, NoneAssumption DEF Unentered
<1>2. /\ \A o : AfterLoadTrue(o).pc # "loading"
      /\ AfterLoadFalse.pc # "loading" /\ PendingIdle.pc # "loading"
  BY <1>0 DEF AfterLoadTrue, AfterLoadFalse, PendingIdle, PendingRecord
<1>3. CASE Quiet
  <2>1. ServersKept /\ UNCHANGED table
    BY <1>3, QuietServers
  <2>2. p' = p \/ p'.pc # "loading"
    <3>1. CASE \E q \in Requests : Handler(q) \/ ContextDone(q) \/ Loader(q) \/ Finished(q)
      BY <3>1 DEF Handler, GetRunner, CheckRunner, UseRunner, Enqueue, ContextDone, Loader,
         LoaderReady, LoaderFailed, Finished
    <3>2. CASE TakePending \/ IgnoreUnloaded \/ UseLoaded
      BY <1>0, <1>2, <3>2 DEF TakePending, IgnoreUnloaded, UseLoaded, PendingRecord
    <3>3. CASE Snapshot \/ CheckLoaded
      BY <1>0, <3>3 DEF Snapshot, CheckLoaded, PendingRecord
    <3>4. CASE FindRunnerToUnload \/ EvictAll
      BY <1>0, <3>4 DEF FindRunnerToUnload, EvictAll, PendingRecord
    <3>5. CASE ExpireTarget \/ WaitUnloaded
      BY <1>0, <3>5 DEF ExpireTarget, WaitUnloaded, PendingRecord
    <3>6. CASE LoadErrorAfterShutdown \/ StopPending
      BY <1>0, <3>6 DEF LoadErrorAfterShutdown, StopPending, PendingRecord, PendingIdle
    <3>7. CASE Recovered \/ StopCompleted \/ \E y \in Runners : Timers(y)
      BY <3>7 DEF Recovered, StopCompleted, Timers, TimerFires, TimerCallback, Requeue
    <3>8. CASE Api \/ Shutdown \/ UNCHANGED vars
      BY <3>8 DEF Api, RuntimeOOM, ExpireModel, ApiExpire, Shutdown, vars
    <3> QED
      BY <1>3, <3>1, <3>2, <3>3, <3>4, <3>5, <3>6, <3>7, <3>8 DEF Quiet
  <2> QED
    BY <1>1, <2>1, <2>2 DEF ServersKept
<1>4. CASE LoadStart
  <2>1. CASE UNCHANGED <<activeLoading, runner>> /\ p'.pc # "loading"
    BY <1>1, <2>1
  <2>2. CASE /\ UNCHANGED <<activeLoading, runner>> /\ activeLoading # None
             /\ p' = [p EXCEPT !.pc = "loading", !.llama = activeLoading]
    <3>1. p'.llama = activeLoading
      BY <1>0, <2>2 DEF PendingRecord
    <3> QED
      BY <2>2, <3>1 DEF Unentered
  <2>3. ASSUME NEW y \in Fresh, activeLoading' = y,
               runner' = [runner EXCEPT ![y] = StartedRunner(req[p.cur].model)],
               p' = [p EXCEPT !.pc = "loading", !.llama = y]
        PROVE  Unentered(x)
    <3>1. p'.llama = y /\ (x = y \/ runner'[x] = runner[x])
      BY <1>0, <2>3 DEF PendingRecord
    <3> QED
      BY <2>3, <3>1 DEF Unentered, Fresh
  <2>4. CASE UNCHANGED <<activeLoading, runner>> /\ p' = [p EXCEPT !.pc = "panic"]
    BY <1>0, <2>1, <2>4 DEF PendingRecord
  <2>5. Fresh # {} => (CHOOSE y \in Fresh : TRUE) \in Fresh
    OBVIOUS
  <2> QED
    BY <1>2, <1>4, <2>1, <2>2, <2>3, <2>4, <2>5 DEF LoadStart
<1>5. CASE Install
  <2>1. /\ activeLoading' = None /\ p'.pc = "idle"
        /\ x # p.llama => runner'[x] = runner[x]
        /\ x = p.llama => Unentered(x)
    BY <1>5, InstallEffect
  <2> QED
    BY <1>1, <2>1
<1>6. CASE LoadNoFit \/ LoadError
  <2>1. p'.pc # "loading"
    BY <1>2, <1>6 DEF LoadNoFit, LoadError
  <2>2. UNCHANGED <<activeLoading, runner>> \/ CloseActive
    BY <1>6 DEF LoadNoFit, LoadError
  <2> QED
    BY <1>0, <1>1, <2>1, <2>2, CloseActiveEffect DEF RunnersKept
<1>7. CASE Expired
  BY <1>1, <1>7, ExpiredEffect
<1>8. CASE UnloadAllRunners
  <2>1. runner'[x].proc \in {"closed", runner[x].proc}
    BY <1>0, <1>8 DEF UnloadAllRunners, RunnerRecord
  <2> QED
    BY <1>1, <1>8, <2>1 DEF UnloadAllRunners
<1> QED
  BY <1>3, <1>4, <1>5, <1>6, <1>7, <1>8, NextSteps

(* Only runners that are in the table, or are being given, come to be       *)
(* expired.                                                                 *)
LEMMA ExpiringStep ==
    ASSUME Typed, Loading, Handing, ExpiringTyped, [Next]_vars
    PROVE  ExpiringTyped'
<1> USE DEF table, chans, env
<1>0. /\ TypeOK /\ req \in [Requests -> RequestRecord] /\ p \in PendingRecord
      /\ runner \in [Runners -> RunnerRecord]
      /\ loaded \in [Models -> Runners \cup {None}]
      /\ p.pc \notin {"idle", "stopped"} =>
           p.cur \in Requests /\ req[p.cur].model \in Models
  BY Types
<1>1. \A x \in Runners :
        MayExpire(x) \/ x \in LoadedRunners \/ (\E q \in Requests : Given(q, x))
          => runner[x].model \in Models /\ ~Unentered(x)
  <2>1. \A x \in Runners, q \in Requests : Given(q, x) => runner[x].model \in Models
    BY <1>0 DEF Handing, GivenTyped, Given, GivenStates, Typed, RequestsTyped
  <2>2. \A x \in LoadedRunners : runner[x].model \in Models
    BY DEF Handing, LoadedTyped, LoadedRunners, Loaded
  <2>3. \A x \in Runners : x \in LoadedRunners \/ (\E q \in Requests : Given(q, x))
                            => ~Unentered(x)
    BY DEF Handing, UnenteredUnused
  <2> QED
    BY <2>1, <2>2, <2>3 DEF ExpiringTyped
<1>2. ASSUME \A x \in Runners : runner'[x].model = runner[x].model,
             \A x \in Runners : MayExpire(x)' =>
               MayExpire(x) \/ x \in LoadedRunners \/ \E q \in Requests : Given(q, x)
      PROVE  ExpiringTyped'
  BY <1>1, <1>2, UnenteredStep DEF ExpiringTyped
(* A step that puts no timer and no event in motion.                        *)
<1>3. ASSUME \A x \in Runners : runner'[x].model = runner[x].model,
             TimersKept, UNCHANGED expiredCh,
             p'.targets \cup p'.todo \cup api'.todo
               \subseteq p.targets \cup p.todo \cup api.todo \cup LoadedRunners
      PROVE  ExpiringTyped'
  <2>1. \A x \in Runners : Due(x)' <=> Due(x)
    BY <1>3 DEF Due
  <2>2. \A x \in Runners : MayExpire(x)' => MayExpire(x) \/ x \in LoadedRunners
    BY <1>3, <2>1 DEF MayExpire, TimersKept
  <2> QED
    BY <1>2, <1>3, <2>2
<1>4. ASSUME UNCHANGED runner
      PROVE  TimersKept /\ \A x \in Runners : runner'[x].model = runner[x].model
  BY <1>4 DEF TimersKept
<1>5. ASSUME NEW x \in Runners, ExpireNow(x), x \in p.todo \cup api.todo,
             p'.targets \cup p'.todo \cup api'.todo \subseteq p.targets \cup p.todo \cup api.todo
      PROVE  ExpiringTyped'
  <2>1. /\ TimersKept /\ \A y \in Runners : runner'[y].model = runner[y].model
        /\ expiredCh' \in {Append(expiredCh, x), expiredCh}
    BY <1>0, <1>5, ExpireNowEffect DEF RunnersKept
  <2>2. \A y \in Runners : Due(y)' => Due(y) \/ y = x
    <3>1. CASE expiredCh' = Append(expiredCh, x)
      BY <1>0, <3>1, DueSent
    <3>2. CASE expiredCh' = expiredCh
      BY <3>2 DEF Due
    <3> QED
      BY <2>1, <3>1, <3>2
  <2>3. \A y \in Runners : MayExpire(y)' => MayExpire(y)
    BY <1>5, <2>1, <2>2 DEF MayExpire, TimersKept
  <2> QED
    BY <1>2, <2>1, <2>3
<1>6. ASSUME NEW q \in Requests, Handler(q) \/ ContextDone(q) PROVE ExpiringTyped'
  <2>1. UNCHANGED <<p, api, expiredCh>>
    BY <1>6 DEF Handler, GetRunner, CheckRunner, UseRunner, Enqueue, ContextDone
  <2>2. CASE UseRunner(q)
    <3>1. req[q].runner \in Runners /\ UseLoadedRunner(q, req[q].runner)
      BY <2>2 DEF UseRunner, Typed, RequestsTyped
    <3>2. TimersKept /\ \A y \in Runners : runner'[y].model = runner[y].model
      BY <1>0, <3>1, UseLoadedRunnerEffect
    <3> QED
      BY <1>3, <2>1, <3>2
  <2>3. CASE UNCHANGED runner
    BY <1>3, <1>4, <2>1, <2>3
  <2> QED
    BY <1>6, <2>2, <2>3 DEF Handler, GetRunner, CheckRunner, Enqueue, ContextDone
<1>7. ASSUME NEW q \in Requests, Loader(q) PROVE ExpiringTyped'
  <2> DEFINE x == req[q].runner
  <2>0. x \in Runners /\ Given(q, x)
    BY <1>7 DEF Loader, LoaderReady, LoaderFailed, Typed, RequestsTyped, Given, GivenStates
  <2>1. LoaderReady(q) \/ LoaderFailed(q)
    BY <1>7 DEF Loader
  <2>2. /\ UNCHANGED <<p, api>>
        /\ expiredCh' = Append(expiredCh, x) \/ expiredCh' = expiredCh
        /\ TimersKept /\ \A y \in Runners : runner'[y].model = runner[y].model
    <3>1. CASE LoaderReady(q)
      <4>1. /\ UNCHANGED <<p, api, expiredCh>>
            /\ runner' = [runner EXCEPT ![x].refCount = Referenced(@), ![x].refMu = "free"]
        BY <3>1 DEF LoaderReady, chans
      <4> HIDE DEF x
      <4>2. TimersKept /\ \A y \in Runners : runner'[y].model = runner[y].model
        BY <1>0, <2>0, <4>1 DEF TimersKept, RunnerRecord
      <4> QED
        BY <4>1, <4>2
    <3>2. CASE LoaderFailed(q)
      BY <1>0, <2>0, <3>2 DEF LoaderFailed, TimersKept, RunnerRecord
    <3> HIDE DEF x
    <3> QED
      BY <2>1, <3>1, <3>2
  <2>3. \A y \in Runners : Due(y)' => Due(y) \/ y = x
    <3>1. CASE expiredCh' = Append(expiredCh, x)
      BY <1>0, <2>0, <3>1, DueSent
    <3>2. CASE expiredCh' = expiredCh
      BY <3>2 DEF Due
    <3> QED
      BY <2>2, <3>1, <3>2
  <2>4. \A y \in Runners : MayExpire(y)' => MayExpire(y) \/ y = x
    BY <2>2, <2>3 DEF MayExpire, TimersKept
  <2> QED
    BY <1>2, <2>0, <2>2, <2>4
<1>8. CASE \/ TakePending \/ IgnoreUnloaded \/ Snapshot \/ CheckLoaded
           \/ FindRunnerToUnload \/ EvictAll \/ WaitUnloaded \/ StopPending
           \/ LoadErrorAfterShutdown
  <2>1. UNCHANGED <<runner, api, expiredCh>>
    BY <1>8 DEF TakePending, IgnoreUnloaded, Snapshot, CheckLoaded, FindRunnerToUnload,
       EvictAll, WaitUnloaded, StopPending, LoadErrorAfterShutdown
  <2>2. p'.targets \cup p'.todo \subseteq p.targets \cup p.todo \cup LoadedRunners
    <3>1. CASE TakePending \/ IgnoreUnloaded
      BY <1>0, <3>1 DEF TakePending, IgnoreUnloaded, PendingRecord
    <3>2. CASE Snapshot
      <4> DEFINE y == loaded[req[p.cur].model]
      <4>1. /\ p'.todo = p.todo
            /\ y # None => p'.targets = {y}
            /\ y = None => p'.targets = {}
        BY <1>0, <3>2 DEF Snapshot, PendingRecord
      <4>2. y # None => y \in LoadedRunners
        BY <1>0, <3>2 DEF LoadedRunners, Loaded, Snapshot
      <4> QED
        BY <4>1, <4>2
    <3>3. CASE CheckLoaded
      <4>1. PICK x \in p.targets, reload \in BOOLEAN :
              p' = IF reload THEN [p EXCEPT !.pc = "expire", !.todo = {x}]
                             ELSE [p EXCEPT !.pc = "use"]
        BY <3>3 DEF CheckLoaded, NeedsReload
      <4>2. p'.targets = p.targets /\ p'.todo \in {p.todo, {x}}
        BY <1>0, <4>1 DEF PendingRecord
      <4> QED
        BY <4>1, <4>2
    <3>6. CASE FindRunnerToUnload
      <4>1. \/ p'.targets = p.targets /\ p'.todo = p.todo
            \/ \E x \in LoadedRunners : p'.targets = {x} /\ p'.todo = {x}
        BY <1>0, <3>6 DEF FindRunnerToUnload, PendingRecord
      <4> QED
        BY <4>1
    <3>4. CASE EvictAll
      BY <1>0, <3>4 DEF EvictAll, PendingRecord, LoadedRunners
    <3>5. CASE WaitUnloaded \/ StopPending \/ LoadErrorAfterShutdown
      BY <1>0, <3>5 DEF WaitUnloaded, StopPending, LoadErrorAfterShutdown, PendingRecord,
         PendingIdle
    <3> QED
      BY <1>8, <3>1, <3>2, <3>3, <3>4, <3>5, <3>6
  <2> QED
    BY <1>3, <1>4, <2>1, <2>2
<1>9. CASE UseLoaded
  <2>1. PICK x \in p.targets : UseLoadedRunner(p.cur, x)
    BY <1>9 DEF UseLoaded
  <2>2. /\ x \in Runners /\ p.cur \in Requests /\ UNCHANGED <<api, expiredCh>>
        /\ p'.targets = {} /\ p'.todo = {}
    BY <1>0, <1>9 DEF UseLoaded, PendingRecord, PendingIdle
  <2>3. TimersKept /\ \A y \in Runners : runner'[y].model = runner[y].model
    BY <1>0, <2>1, <2>2, UseLoadedRunnerEffect
  <2> QED
    BY <1>3, <2>2, <2>3
<1>10. CASE ExpireTarget
  <2>1. PICK x \in p.todo :
          /\ ExpireNow(x)
          /\ p' = [p EXCEPT !.todo = @ \ {x},
                            !.pc = IF p.todo = {x} THEN "wait" ELSE @,
                            !.need = IF p.todo = {x} THEN Cardinality(p.targets) ELSE 0]
    BY <1>10 DEF ExpireTarget
  <2>2. x \in Runners /\ p'.targets = p.targets /\ p'.todo = p.todo \ {x} /\ UNCHANGED api
    BY <1>0, <1>10, <2>1 DEF ExpireTarget, PendingRecord
  <2> QED
    BY <1>5, <2>1, <2>2
<1>11. CASE LoadStart \/ LoadNoFit \/ LoadError
  <2>0. /\ UNCHANGED <<api, expiredCh>>
        /\ p.cur \in Requests /\ req[p.cur].model \in Models
    BY <1>0, <1>11 DEF LoadStart, LoadNoFit, LoadError
  <2>1. /\ AfterLoadFalse.targets = {} /\ AfterLoadFalse.todo = {}
        /\ \A o : AfterLoadTrue(o).targets = p.targets /\ AfterLoadTrue(o).todo = p.todo
    BY <1>0 DEF AfterLoadTrue, AfterLoadFalse, PendingIdle, PendingRecord
  <2>2. ASSUME CloseActive
        PROVE  TimersKept /\ \A x \in Runners : runner'[x].model = runner[x].model
    BY <1>0, <2>2, CloseActiveEffect DEF RunnersKept
  <2>3. CASE LoadNoFit
    <3>1. \/ p' = AfterLoadTrue(req[p.cur].oomRetried) /\ UNCHANGED runner
          \/ p' = AfterLoadFalse /\ CloseActive
      BY <2>3 DEF LoadNoFit
    <3>2. p'.targets \cup p'.todo \subseteq p.targets \cup p.todo
      BY <2>1, <3>1
    <3> QED
      BY <1>3, <1>4, <2>0, <2>2, <3>1, <3>2
  <2>4. CASE LoadError
    <3>1. (p' = AfterLoadTrue(TRUE) \/ p' = AfterLoadFalse) /\ CloseActive
      BY <2>4 DEF LoadError
    <3>2. p'.targets \cup p'.todo \subseteq p.targets \cup p.todo
      BY <2>1, <3>1
    <3> QED
      BY <1>3, <2>0, <2>2, <3>1, <3>2
  <2>5. CASE LoadStart
    <3>1. CASE p' \in {AfterLoadTrue(req[p.cur].oomRetried), AfterLoadFalse} /\ UNCHANGED runner
      BY <1>3, <1>4, <2>0, <2>1, <3>1
    <3>2. CASE /\ p' = IF runner[activeLoading].model = req[p.cur].model
                       THEN [p EXCEPT !.pc = "loading", !.llama = activeLoading]
                       ELSE [p EXCEPT !.pc = "panic"]
               /\ UNCHANGED runner
      <4>1. p'.targets = p.targets /\ p'.todo = p.todo
        BY <1>0, <3>2 DEF PendingRecord
      <4> QED
        BY <1>3, <1>4, <2>0, <3>2, <4>1
    <3>3. ASSUME NEW x \in Fresh,
                 runner' = [runner EXCEPT ![x] = StartedRunner(req[p.cur].model)],
                 p' = [p EXCEPT !.pc = "loading", !.llama = x]
          PROVE  ExpiringTyped'
      <4>1. /\ x \in Runners /\ runner'[x].model \in Models /\ ~runner'[x].armed
            /\ runner'[x].callbacks = 0 /\ runner'[x].retries = 0
            /\ \A y \in Runners \ {x} : runner'[y] = runner[y]
        BY <1>0, <2>0, <3>3 DEF Fresh, StartedRunner, NoRunner
      <4>2. p'.targets = p.targets /\ p'.todo = p.todo
        BY <1>0, <3>3 DEF PendingRecord
      <4>3. \A y \in Runners : Due(y)' <=> Due(y)
        BY <2>0 DEF Due
      <4>4. \A y \in Runners \ {x} : MayExpire(y)' <=> MayExpire(y)
        BY <2>0, <4>1, <4>2, <4>3 DEF MayExpire
      <4>5. MayExpire(x)' => MayExpire(x)
        BY <2>0, <4>1, <4>2, <4>3 DEF MayExpire
      <4>6. ~MayExpire(x)'
        BY <4>1, <4>5 DEF ExpiringTyped, Unentered, Fresh
      <4> QED
        BY <4>1, <4>4, <4>6, UnenteredStep DEF ExpiringTyped
    <3>4. Fresh # {} => (CHOOSE x \in Fresh : TRUE) \in Fresh
      OBVIOUS
    <3> QED
      BY <2>5, <3>1, <3>2, <3>3, <3>4 DEF LoadStart
  <2> QED
    BY <1>11, <2>3, <2>4, <2>5
<1>12. CASE Install
  <2> DEFINE x == p.llama
             m == req[p.cur].model
             d == IF req[p.cur].keepAlive = Unset THEN DefaultKeepAlive
                  ELSE req[p.cur].keepAlive
  <2>1. /\ runner' = [y \in Runners |->
             IF y = x THEN [runner[y] EXCEPT !.duration = d, !.refMu = "loader"]
             ELSE IF y = loaded[m] THEN Unload(runner[y]) ELSE runner[y]]
        /\ p'.targets = {} /\ p'.todo = {} /\ UNCHANGED <<api, expiredCh>>
    BY <1>12 DEF Install, AfterLoadFalse, PendingIdle
  <2> HIDE DEF d, x, m
  <2>2. TimersKept /\ \A y \in Runners : runner'[y].model = runner[y].model
    <3> SUFFICES ASSUME NEW y \in Runners
                 PROVE  /\ runner'[y].armed => runner[y].armed
                        /\ runner'[y].callbacks = runner[y].callbacks
                        /\ runner'[y].retries = runner[y].retries
                        /\ runner'[y].model = runner[y].model
      BY DEF TimersKept
    <3>1. runner'[y] \in {[runner[y] EXCEPT !.duration = d, !.refMu = "loader"],
                          Unload(runner[y]), runner[y]}
      BY <2>1
    <3>2. runner[y] \in RunnerRecord
      BY <1>0
    <3> QED
      BY <3>1, <3>2 DEF RunnerRecord, Unload
  <2> QED
    BY <1>3, <2>1, <2>2
<1>13. ASSUME NEW q \in Requests, Finished(q) PROVE ExpiringTyped'
  <2> DEFINE x == loaded[req[q].model]
  <2>1. /\ req[q].model \in Models /\ UNCHANGED <<p, api>>
        /\ expiredCh' \in {Append(expiredCh, x), expiredCh}
        /\ \/ runner' = runner /\ expiredCh' = expiredCh
           \/ /\ x # None
              /\ runner' = [runner EXCEPT ![x].refCount = Dereferenced(runner[x].refCount),
                   ![x].armed = IF Dereferenced(runner[x].refCount) # 0 THEN @
                                ELSE runner[x].duration # Zero]
    BY <1>13 DEF Finished, Typed, RequestsTyped
  <2>2. CASE runner' = runner /\ expiredCh' = expiredCh
    BY <1>3, <1>4, <2>1, <2>2
  <2>3. CASE /\ x # None
             /\ runner' = [runner EXCEPT ![x].refCount = Dereferenced(runner[x].refCount),
                  ![x].armed = IF Dereferenced(runner[x].refCount) # 0 THEN @
                               ELSE runner[x].duration # Zero]
    <3>1. x \in LoadedRunners /\ x \in Runners
      BY <1>0, <2>1, <2>3 DEF LoadedRunners, Loaded
    <3>2. \A y \in Runners : Due(y)' => Due(y) \/ y = x
      <4>1. CASE expiredCh' = Append(expiredCh, x)
        BY <1>0, <3>1, <4>1, DueSent
      <4>2. CASE expiredCh' = expiredCh
        BY <4>2 DEF Due
      <4> QED
        BY <2>1, <4>1, <4>2
    <3>3. /\ \A y \in Runners : /\ runner'[y].model = runner[y].model
                                /\ runner'[y].callbacks = runner[y].callbacks
                                /\ runner'[y].retries = runner[y].retries
          /\ \A y \in Runners \ {x} : runner'[y] = runner[y]
      <4> HIDE DEF x
      <4>1. \A y \in Runners \ {x} : runner'[y] = runner[y]
        BY <1>0, <2>3
      <4>2. PICK n, a : runner'[x] = [runner[x] EXCEPT !.refCount = n, !.armed = a]
        BY <1>0, <2>3, <3>1 DEF RunnerRecord
      <4>3. runner[x] \in RunnerRecord
        BY <1>0, <3>1
      <4>4. /\ runner'[x].model = runner[x].model
            /\ runner'[x].callbacks = runner[x].callbacks
            /\ runner'[x].retries = runner[x].retries
        BY <4>2, <4>3 DEF RunnerRecord
      <4> QED
        BY <4>1, <4>4
    <3>4. \A y \in Runners : MayExpire(y)' => MayExpire(y) \/ y = x
      BY <2>1, <3>2, <3>3 DEF MayExpire
    <3> QED
      BY <1>2, <3>1, <3>3, <3>4
  <2> QED
    BY <2>1, <2>2, <2>3
<1>14. CASE Expired
  <2> DEFINE x == Head(expiredCh)
  <2>1. /\ x \in Runners /\ expiredCh # <<>> /\ expiredCh' = Tail(expiredCh)
        /\ UNCHANGED <<p, api>> /\ Due(x)
    <3>1. expiredCh # <<>> /\ expiredCh \in Seq(Runners)
      BY <1>14, Types DEF Expired
    <3> QED
      BY <1>14, <3>1 DEF Expired, Due
  <2>2. \A y \in Runners : Due(y)' => Due(y)
    BY <1>0, <2>1, DueTaken
  <2>3. /\ \A y \in Runners : /\ runner'[y].model = runner[y].model
                              /\ runner'[y].callbacks = runner[y].callbacks
        /\ \A y \in Runners \ {x} : runner'[y] = runner[y]
    BY <1>14, ExpiredEffect
  <2>4. MayExpire(x)
    BY <2>1 DEF MayExpire
  <2>5. \A y \in Runners : MayExpire(y)' => MayExpire(y)
    BY <2>1, <2>2, <2>3, <2>4 DEF MayExpire
  <2> QED
    BY <1>2, <2>3, <2>5
<1>15. CASE Recovered \/ StopCompleted
  <2>1. UNCHANGED <<p, api, expiredCh>>
    BY <1>15 DEF Recovered, StopCompleted
  <2>2. UNCHANGED runner \/ runner' = [runner EXCEPT ![c.runner].refMu = "free"]
    BY <1>15 DEF Recovered, StopCompleted
  <2>3. TimersKept /\ \A y \in Runners : runner'[y].model = runner[y].model
    BY <1>0, <2>2 DEF TimersKept, RunnerRecord
  <2> QED
    BY <1>3, <2>1, <2>3
<1>16. ASSUME NEW x \in Runners, Timers(x) PROVE ExpiringTyped'
  <2>1. /\ UNCHANGED <<p, api>>
        /\ \A y \in Runners : runner'[y].model = runner[y].model
        /\ \A y \in Runners \ {x} : runner'[y] = runner[y]
        /\ MayExpire(x)
        /\ expiredCh' \in {Append(expiredCh, x), expiredCh}
    <3>1. CASE TimerFires(x)
      BY <1>0, <3>1 DEF TimerFires, RunnerRecord, MayExpire
    <3>2. CASE TimerCallback(x)
      BY <1>0, <3>2 DEF TimerCallback, RunnerRecord, MayExpire
    <3>3. CASE Requeue(x)
      BY <1>0, <3>3 DEF Requeue, RunnerRecord, MayExpire
    <3> QED
      BY <1>16, <3>1, <3>2, <3>3 DEF Timers
  <2>2. \A y \in Runners : Due(y)' => Due(y) \/ y = x
    <3>1. CASE expiredCh' = Append(expiredCh, x)
      BY <1>0, <3>1, DueSent
    <3>2. CASE expiredCh' = expiredCh
      BY <3>2 DEF Due
    <3> QED
      BY <2>1, <3>1, <3>2
  <2>3. \A y \in Runners : MayExpire(y)' => MayExpire(y)
    BY <2>1, <2>2 DEF MayExpire
  <2> QED
    BY <1>2, <2>1, <2>3
<1>17. CASE Api
  <2>1. CASE RuntimeOOM \/ \E m \in Models : ExpireModel(m)
    <3>1. UNCHANGED <<runner, p, expiredCh>>
      BY <2>1 DEF RuntimeOOM, ExpireModel
    <3>2. api'.todo \subseteq api.todo \cup LoadedRunners
      BY <2>1 DEF RuntimeOOM, ExpireModel, LoadedRunners, Loaded
    <3> QED
      BY <1>3, <1>4, <3>1, <3>2
  <2>2. ASSUME NEW x \in Runners, ApiExpire(x) PROVE ExpiringTyped'
    <3>1. /\ x \in api.todo /\ ExpireNow(x) /\ UNCHANGED p
          /\ api'.todo = api.todo \ {x}
      BY <1>0, <2>2 DEF ApiExpire, TypeOK
    <3> QED
      BY <1>5, <3>1
  <2> QED
    BY <1>17, <2>1, <2>2 DEF Api
<1>18. CASE Shutdown \/ UnloadAllRunners \/ UNCHANGED vars
  <2>1. UNCHANGED <<p, api, expiredCh>>
    BY <1>18 DEF Shutdown, UnloadAllRunners, vars
  <2>2. TimersKept /\ \A y \in Runners : runner'[y].model = runner[y].model
    <3>1. CASE Shutdown \/ UNCHANGED vars
      BY <1>4, <3>1 DEF Shutdown, vars
    <3>2. CASE UnloadAllRunners
      BY <1>0, <3>2 DEF UnloadAllRunners, TimersKept, RunnerRecord
    <3> QED
      BY <1>18, <3>1, <3>2
  <2> QED
    BY <1>3, <2>1, <2>2
<1> QED
  BY <1>6, <1>7, <1>8, <1>9, <1>10, <1>11, <1>12, <1>13, <1>14, <1>15, <1>16, <1>17, <1>18
     DEF Next, ProcessPending, ProcessCompleted

LEMMA CompletedHanding ==
    ASSUME Typed, Typed', Handing, ExpiringTyped, ProcessCompleted
    PROVE  Handing'
<1>0. /\ TypeOK /\ req \in [Requests -> RequestRecord]
      /\ runner \in [Runners -> RunnerRecord]
      /\ loaded \in [Models -> Runners \cup {None}]
      /\ activeLoading \in Runners \cup {None}
      /\ p.pc \notin {"idle", "stopped"} => p.cur \in Requests /\ req[p.cur].state = "queued"
      /\ p.pc = "loading" => p.llama \in Runners
  BY Types DEF Typed, PendingWork
<1>1. ASSUME NEW q \in Requests, Finished(q) PROVE Handing'
  <2> DEFINE x == loaded[req[q].model]
  <2>1. /\ req[q].state = "served"
        /\ req'[q].state = "finished" /\ req'[q].model = req[q].model
        /\ \A r \in Requests \ {q} : req'[r] = req[r]
        /\ \A y \in Runners : /\ runner'[y].model = runner[y].model
                              /\ runner'[y].refMu = runner[y].refMu
                              /\ runner'[y].options = runner[y].options
                              /\ runner'[y].proc = runner[y].proc
        /\ \A y \in Runners \ {x} : runner'[y] = runner[y]
        /\ x # None => x \in LoadedRunners
        /\ UNCHANGED <<loaded, activeLoading, p, c>>
    BY <1>1, FinishedEffect
  <2> HIDE DEF x
  <2>2. \A y \in Runners : Unentered(y)' <=> Unentered(y)
    BY <2>1 DEF Unentered
  <2>3. \A y \in Runners : Unentered(y)' => /\ Unentered(y)
               /\ runner'[y].refCount = 0 /\ runner'[y].refMu = "free"
    BY <2>1, <2>2, NoneAssumption DEF Handing, UnenteredUnused
  <2>4. \A r \in Requests, y \in Runners :
          Given(r, y)' => Given(r, y) /\ req'[r].model = req[r].model
    BY <2>1 DEF Given, GivenStates
  <2>5. \A r \in Requests : req'[r].state = "loading" =>
             /\ req[r].state = "loading"
             /\ req'[r].runner = req[r].runner /\ req'[r].model = req[r].model
             /\ runner'[req[r].runner].refMu = runner[req[r].runner].refMu
    BY <2>1 DEF Typed, RequestsTyped
  <2>6. c'.pc = "recovering" =>
             /\ c.pc = "recovering" /\ c'.runner = c.runner
             /\ runner'[c.runner].refMu = runner[c.runner].refMu
    BY <2>1 DEF Handing, RecovererHolds
  <2>7. /\ p'.pc = "loading" => /\ runner'[p'.llama].model = req'[p'.cur].model
                                /\ runner'[p'.llama].proc # "none"
        /\ activeLoading' # None => runner'[activeLoading'].proc # "none"
    BY <1>0, <2>1 DEF Handing, LlamaTyped
  <2> QED
    BY <2>1, <2>3, <2>4, <2>5, <2>6, <2>7, HandingFrame
<1>2. CASE Expired
  <2> DEFINE x == Head(expiredCh)
             m == runner[x].model
  <2>1. /\ x \in Runners /\ Free(x) /\ c.pc = "idle" /\ expiredCh # <<>>
        /\ UNCHANGED <<req, p, activeLoading>>
        /\ \A y \in Runners : /\ runner'[y].model = runner[y].model
                              /\ runner'[y].refCount = runner[y].refCount
                              /\ runner'[y].options => runner[y].options
                              /\ runner'[y].proc = "none" => runner[y].proc = "none"
        /\ \A y \in Runners \ {x} : runner'[y] = runner[y]
    BY <1>2, ExpiredEffect
  <2>2. \/ runner'[x].refMu = "free" /\ UNCHANGED <<loaded, c>>
        \/ UNCHANGED <<loaded, c, runner>>
        \/ /\ loaded[m] = x /\ ~runner'[x].options /\ runner'[x].refMu = "completed"
           /\ loaded' = [loaded EXCEPT ![m] = None]
           /\ c'.pc = "recovering" /\ c'.runner = x
    BY <1>2, ExpiredEffect
  <2>3. m \in Models
    <3>1. expiredCh \in Seq(Runners)
      BY Types
    <3>2. Due(x)
      BY <2>1, <3>1 DEF Due
    <3> QED
      BY <2>1, <3>2 DEF ExpiringTyped, MayExpire
  <2> HIDE DEF x, m
  <2>4. \A y \in Runners : Unentered(y)' => Unentered(y)
    BY <2>1 DEF Unentered
  <2>5. \A r \in Requests, y \in Runners : Given(r, y)' => Given(r, y)
    BY <2>1 DEF Given
  <2>6. CASE \/ runner'[x].refMu = "free" /\ UNCHANGED <<loaded, c>>
             \/ UNCHANGED <<loaded, c, runner>>
    <3>1. RunnersKept
      BY <2>1, <2>6 DEF RunnersKept, Free
    <3> QED
      BY <2>1, <2>4, <2>5, <2>6, <3>1, HandingKept
  <2>7. CASE /\ loaded[m] = x /\ ~runner'[x].options /\ runner'[x].refMu = "completed"
             /\ loaded' = [loaded EXCEPT ![m] = None]
             /\ c'.pc = "recovering" /\ c'.runner = x
    <3>1. m \in Loaded /\ x \in LoadedRunners
      BY <2>1, <2>3, <2>7, NoneAssumption DEF Loaded, LoadedRunners
    <3>2. ~Unentered(x)
      BY <2>1, <3>1 DEF Handing, UnenteredUnused
    <3>3. /\ loaded'[m] = None /\ \A n \in Models \ {m} : loaded'[n] = loaded[n]
          /\ Loaded' = Loaded \ {m}
      BY <1>0, <2>3, <2>7 DEF Loaded
    <3>4. \A n \in Loaded : loaded[n] = x => n = m
      BY <3>1, <2>7 DEF Handing, LoadedTyped
    <3>5. LoadedRunners' \subseteq LoadedRunners \ {x}
      BY <3>3, <3>4 DEF LoadedRunners, Loaded
    <3>6. UnenteredUnused'
      <4> SUFFICES ASSUME NEW y \in Runners, Unentered(y)'
                   PROVE  /\ runner'[y].refCount = 0 /\ runner'[y].refMu = "free"
                          /\ y \notin LoadedRunners'
                          /\ \A r \in Requests : ~Given(r, y)'
        BY DEF UnenteredUnused
      <4>1. Unentered(y) /\ y # x
        BY <2>4, <3>2
      <4> QED
        BY <2>1, <2>5, <3>5, <4>1 DEF Handing, UnenteredUnused
    <3>7. GivenTyped'
      <4> SUFFICES ASSUME NEW r \in Requests, NEW y \in Runners, Given(r, y)'
                   PROVE  /\ runner'[y].model = req'[r].model
                          /\ runner'[y].options => loaded'[req'[r].model] = y
        BY DEF GivenTyped
      <4>1. /\ runner[y].model = req[r].model
            /\ runner[y].options => loaded[req[r].model] = y
        BY <2>5 DEF Handing, GivenTyped
      <4>2. req[r].model \in Models
        BY <1>0, <2>5 DEF Given, GivenStates, Typed, RequestsTyped
      <4>3. y # x /\ loaded[req[r].model] = y => loaded'[req[r].model] = y
        BY <2>3, <2>7, <3>3, <4>2
      <4>4. runner'[y].model = req'[r].model
        BY <2>1, <4>1
      <4>5. runner'[y].options => y # x /\ runner[y].options
        BY <2>1, <2>7
      <4>6. req' = req
        BY <2>1
      <4> QED
        BY <4>1, <4>3, <4>4, <4>5, <4>6
    <3>8. LoadedTyped'
      <4>1. \A n \in Loaded \ {m} : loaded[n] \in Runners /\ n \in Models
        BY <1>0 DEF Loaded
      <4>2. \A n \in Loaded \ {m} : loaded'[n] = loaded[n] /\ runner'[loaded[n]].model = n
        BY <2>1, <3>3, <4>1 DEF Handing, LoadedTyped
      <4> QED
        BY <3>3, <4>2 DEF LoadedTyped
    <3>9. LoadersHold'
      <4> SUFFICES ASSUME NEW r \in Requests, req[r].state = "loading"
                   PROVE  /\ runner'[req[r].runner].refMu = "loader"
                          /\ loaded'[req[r].model] = req[r].runner
        BY <2>1 DEF Handing, LoadersHold
      <4>1. /\ runner[req[r].runner].refMu = "loader" /\ req[r].runner \in Runners
            /\ loaded[req[r].model] = req[r].runner /\ req[r].model \in Models
        BY DEF Handing, LoadersHold, Typed, RequestsTyped
      <4>2. req[r].runner # x
        BY <2>1, <4>1 DEF Free
      <4>3. req[r].model # m
        BY <2>7, <4>1, <4>2
      <4> QED
        BY <2>1, <3>3, <4>1, <4>2, <4>3
    <3>10. RecovererHolds'
      BY <2>1, <2>7, <3>5 DEF RecovererHolds
    <3>11. LlamaTyped'
      BY <1>0, <2>1 DEF Handing, LlamaTyped
    <3> QED
      BY <3>6, <3>7, <3>8, <3>9, <3>10, <3>11 DEF Handing
  <2> QED
    BY <2>2, <2>6, <2>7
<1>3. CASE Recovered
  <2>1. /\ c.pc = "recovering" /\ c'.pc = "idle" /\ c.runner \in Runners
        /\ runner[c.runner].refMu = "completed"
        /\ runner' = [runner EXCEPT ![c.runner].refMu = "free"]
        /\ UNCHANGED <<loaded, activeLoading, req, p>>
    BY <1>3 DEF Recovered, CompletedIdle, Handing, RecovererHolds, table, env
  <2>2. /\ \A y \in Runners : /\ runner'[y].model = runner[y].model
                              /\ runner'[y].options = runner[y].options
                              /\ runner'[y].proc = runner[y].proc
        /\ \A y \in Runners \ {c.runner} : runner'[y] = runner[y]
    BY <1>0, <2>1 DEF RunnerRecord
  <2>3. ~Unentered(c.runner)
    BY <2>1 DEF Handing, UnenteredUnused
  <2>4. \A y \in Runners : Unentered(y)' <=> Unentered(y)
    BY <2>1, <2>2 DEF Unentered
  <2>5. \A y \in Runners : Unentered(y)' => /\ Unentered(y)
               /\ runner'[y].refCount = 0 /\ runner'[y].refMu = "free"
    BY <2>2, <2>3, <2>4 DEF Handing, UnenteredUnused
  <2>6. \A r \in Requests, y \in Runners :
          Given(r, y)' => Given(r, y) /\ req'[r].model = req[r].model
    BY <2>1 DEF Given
  <2>7. ASSUME NEW r \in Requests, req'[r].state = "loading"
        PROVE  /\ req[r].state = "loading"
               /\ req'[r].runner = req[r].runner /\ req'[r].model = req[r].model
               /\ runner'[req[r].runner].refMu = runner[req[r].runner].refMu
    <3>1. req[r].state = "loading" /\ req[r].runner \in Runners
      BY <2>1, <2>7 DEF Typed, RequestsTyped
    <3>2. req[r].runner # c.runner
      BY <2>1, <3>1 DEF Handing, LoadersHold
    <3> QED
      BY <2>1, <2>2, <3>1, <3>2
  <2>8. /\ p'.pc = "loading" => /\ runner'[p'.llama].model = req'[p'.cur].model
                                /\ runner'[p'.llama].proc # "none"
        /\ activeLoading' # None => runner'[activeLoading'].proc # "none"
    BY <1>0, <2>1, <2>2 DEF Handing, LlamaTyped
  <2> QED
    BY <2>1, <2>2, <2>5, <2>6, <2>7, <2>8, HandingFrame
<1>4. CASE StopCompleted
  <2>1. UNCHANGED <<loaded, activeLoading, runner, req, p>> /\ c'.pc = "stopped"
    BY <1>4 DEF StopCompleted, CompletedIdle, table, chans, env
  <2>2. RunnersKept /\ \A x \in Runners : Unentered(x)' => Unentered(x)
    BY <2>1 DEF RunnersKept, Unentered
  <2>3. \A r \in Requests, x \in Runners :
          Given(r, x)' => Given(r, x) /\ req'[r].model = req[r].model
    BY <2>1 DEF Given
  <2> QED
    BY <2>1, <2>2, <2>3, HandingKept
<1> QED
  BY <1>1, <1>2, <1>3, <1>4 DEF ProcessCompleted

LEMMA OthersHanding ==
    ASSUME Typed, Typed', Handing,
           \/ \E x \in Runners : Timers(x)
           \/ Api \/ Shutdown \/ UnloadAllRunners \/ UNCHANGED vars
    PROVE  Handing'
<1> USE DEF table, chans, env
<1>0. TypeOK /\ runner \in [Runners -> RunnerRecord]
  BY Types
<1>1. UNCHANGED <<loaded, req, p, c>>
  BY DEF Timers, TimerFires, TimerCallback, Requeue, Api, RuntimeOOM, ExpireModel, ApiExpire,
     Shutdown, UnloadAllRunners, vars
<1>2. RunnersKept
  <2>1. CASE \E x \in Runners : Timers(x)
    <3>1. PICK x \in Runners : Timers(x)
      BY <2>1
    <3>2. CASE TimerFires(x)
      BY <1>0, <3>2 DEF TimerFires, RunnersKept, RunnerRecord
    <3>3. CASE TimerCallback(x)
      BY <1>0, <3>3 DEF TimerCallback, RunnersKept, RunnerRecord
    <3>4. CASE Requeue(x)
      BY <1>0, <3>4 DEF Requeue, RunnersKept, RunnerRecord
    <3> QED
      BY <3>1, <3>2, <3>3, <3>4 DEF Timers
  <2>2. CASE Api
    BY <1>0, <2>2, ExpireNowEffect DEF Api, RuntimeOOM, ExpireModel, ApiExpire, RunnersKept
  <2>3. CASE Shutdown \/ UNCHANGED vars
    BY <2>3 DEF Shutdown, RunnersKept, vars
  <2>4. CASE UnloadAllRunners
    BY <1>0, <2>4 DEF UnloadAllRunners, RunnersKept, RunnerRecord
  <2> QED
    BY <2>1, <2>2, <2>3, <2>4
<1>3. activeLoading' \in {activeLoading, None}
  BY DEF Timers, TimerFires, TimerCallback, Requeue, Api, RuntimeOOM, ExpireModel, ApiExpire,
     Shutdown, UnloadAllRunners, vars
<1>4. \A x \in Runners : Unentered(x)' => Unentered(x)
  BY <1>1, <1>2, <1>3, NoneAssumption DEF Unentered, RunnersKept
<1>5. \A r \in Requests, x \in Runners :
        Given(r, x)' => Given(r, x) /\ req'[r].model = req[r].model
  BY <1>1 DEF Given
<1> QED
  BY <1>1, <1>2, <1>3, <1>4, <1>5, HandingKept

LEMMA HandingStep ==
    Typed /\ Typed' /\ Loading /\ Handing /\ ExpiringTyped /\ [Next]_vars
      => Handing' /\ ExpiringTyped'
<1> SUFFICES ASSUME Typed, Typed', Loading, Handing, ExpiringTyped, [Next]_vars
             PROVE  Handing' /\ ExpiringTyped'
  OBVIOUS
<1>1. ExpiringTyped'
  BY ExpiringStep
<1>2. CASE \E q \in Requests : Handler(q) \/ ContextDone(q) \/ Loader(q)
  BY <1>1, <1>2, RequestHanding
<1>3. CASE ProcessPending
  BY <1>1, <1>3, SchedulingHanding, LoadHanding, InstallHanding DEF ProcessPending
<1>4. CASE ProcessCompleted
  BY <1>1, <1>4, CompletedHanding
<1>5. CASE \/ \E x \in Runners : Timers(x)
           \/ Api \/ Shutdown \/ UnloadAllRunners \/ UNCHANGED vars
  BY <1>1, <1>5, OthersHanding
<1> QED
  BY <1>2, <1>3, <1>4, <1>5 DEF Next

(* Who may use a runner: one that is being loaded or is not in the table    *)
(* any more is handed out only to the request that loads it or that held    *)
(* it, and a runner whose options are still set is the one that loaded maps *)
(* its model to.                                                            *)
THEOREM HandingAlways == Spec => [](Handing /\ ExpiringTyped)
<1>1. Init => Handing /\ ExpiringTyped
  <2> SUFFICES ASSUME Init PROVE Handing /\ ExpiringTyped
    OBVIOUS
  <2>1. \A x \in Runners : ~MayExpire(x)
    BY DEF Init, MayExpire, Due, NoRunner, PendingIdle
  <2>2. ExpiringTyped
    BY <2>1 DEF ExpiringTyped
  <2> QED
    BY <2>2, KnownInit
<1>2. Typed /\ Typed' /\ Loading /\ (Handing /\ ExpiringTyped) /\ [Next]_vars
        => (Handing /\ ExpiringTyped)'
  BY HandingStep
<1> QED
  BY <1>1, <1>2, TypedAlways, LoadingAlways, PTL DEF Spec

-----------------------------------------------------------------------------
(* Counting, action by action.                                              *)

LEMMA CountingQuiet ==
    ASSUME Typed, Counting, UNCHANGED <<loaded, runner, expiredCh>>, ServedKept
    PROVE  Counting'
<1>1. \A x \in Runners : Due(x)' <=> Due(x)
  BY DEF Due
<1>2. \A x \in Runners : Signalled(x)' <=> Signalled(x)
  BY <1>1 DEF Signalled
<1>3. \A x \in LoadedRunners : x \in Runners
  BY Types
<1> QED
  BY <1>2, <1>3, CountingFrame DEF Free, Idle

(* A runner is told to expire: if it is idle, this is sent.                 *)
LEMMA CountingExpireNow ==
    ASSUME Typed, Counting, UNCHANGED loaded, ServedKept, NEW x \in Runners, ExpireNow(x)
    PROVE  Counting'
<1>1. /\ RunnersKept /\ TimersKept
      /\ \A y \in Runners \ {x} : runner'[y] = runner[y]
      /\ expiredCh' = IF Idle(x) THEN Append(expiredCh, x) ELSE expiredCh
      /\ TypeOK
  BY Types, ExpireNowEffect
<1>2. ASSUME NEW y \in Runners, Free(y)', Idle(y)', ~Signalled(y)'
      PROVE  Free(y) /\ Idle(y) /\ ~Signalled(y)
  <2>1. Free(y) /\ Idle(y)
    BY <1>1, <1>2 DEF Free, Idle, RunnersKept
  <2>2. CASE Idle(x)
    <3>1. y # x /\ ~Due(y)
      BY <1>1, <1>2, <2>2, DueSent DEF Signalled
    <3> QED
      BY <1>1, <1>2, <2>1, <3>1 DEF Signalled
  <2>3. CASE ~Idle(x)
    <3>1. y # x
      BY <2>1, <2>3
    <3>2. ~Due(y)
      BY <1>1, <1>2, <2>3 DEF Signalled, Due
    <3> QED
      BY <1>1, <1>2, <2>1, <3>1, <3>2 DEF Signalled
  <2> QED
    BY <2>2, <2>3
<1>3. \A y \in LoadedRunners : y \in Runners
  BY Types
<1> QED
  BY <1>1, <1>2, <1>3, CountingFrame DEF RunnersKept

LEMMA RequestCounting ==
    ASSUME Typed, Typed', Handing, Counting, FewUsers, FewUsers', NEW q \in Requests,
           Handler(q) \/ ContextDone(q) \/ Loader(q)
    PROVE  Counting'
<1> USE DEF table, chans, env
<1>0. /\ TypeOK /\ req \in [Requests -> RequestRecord]
      /\ runner \in [Runners -> RunnerRecord]
  BY Types
<1>1. CASE GetRunner(q) \/ CheckRunner(q) \/ Enqueue(q) \/ ContextDone(q)
  <2>1. UNCHANGED <<loaded, runner, expiredCh>>
    BY <1>1 DEF GetRunner, CheckRunner, Enqueue, ContextDone
  <2>2. ServedKept
    <3>1. CASE GetRunner(q)
      BY <1>0, <3>1 DEF GetRunner, ServedKept, RequestRecord
    <3>2. CASE CheckRunner(q)
      BY <1>0, <3>2 DEF CheckRunner, ServedKept, RequestRecord
    <3>3. CASE Enqueue(q)
      BY <1>0, <3>3 DEF Enqueue, Fail, ServedKept, RequestRecord
    <3>4. CASE ContextDone(q)
      BY <1>0, <3>4 DEF ContextDone, ServedKept, RequestRecord
    <3> QED
      BY <1>1, <3>1, <3>2, <3>3, <3>4
  <2> QED
    BY <2>1, <2>2, CountingQuiet
<1>2. CASE UseRunner(q)
  <2> DEFINE x == req[q].runner
  <2>1. /\ req[q].state = "using" /\ x \in Runners /\ UseLoadedRunner(q, x)
        /\ UNCHANGED <<loaded, expiredCh>>
    BY <1>2 DEF UseRunner, Typed, RequestsTyped
  <2>2. /\ req'[q].model = req[q].model /\ req'[q].state = "served" /\ req'[q].runner = x
        /\ \A r \in Requests \ {q} : req'[r] = req[r]
    BY <1>0, <2>1, UseLoadedRunnerTyped
  <2>3. /\ runner'[x].refCount = Referenced(runner[x].refCount)
        /\ \A y \in Runners \ {x} : runner'[y] = runner[y]
        /\ req'[q].stale = ~runner[x].options
    BY <1>0, <2>1, UseLoadedRunnerEffect
  <2>4. Given(q, x)
    BY <2>1 DEF Given, GivenStates
  <2>5. ~req'[q].stale => loaded[req[q].model] = x
    BY <2>1, <2>3, <2>4 DEF Handing, GivenTyped
  <2> HIDE DEF x
  <2> QED
    BY <2>1, <2>2, <2>3, <2>5, CountingServe
<1>3. CASE LoaderReady(q)
  <2> DEFINE x == req[q].runner
  <2>1. /\ req[q].state = "loading" /\ x \in Runners /\ UNCHANGED <<loaded, expiredCh>>
        /\ runner' = [runner EXCEPT ![x].refCount = Referenced(@), ![x].refMu = "free"]
        /\ req' = [req EXCEPT ![q].state = "served", ![q].replies = @ + 1]
    BY <1>3 DEF LoaderReady, Typed, RequestsTyped
  <2>2. /\ req'[q].model = req[q].model /\ req'[q].state = "served" /\ req'[q].runner = x
        /\ \A r \in Requests \ {q} : req'[r] = req[r]
    BY <1>0, <2>1 DEF RequestRecord
  <2>3. /\ runner'[x].refCount = Referenced(runner[x].refCount)
        /\ \A y \in Runners \ {x} : runner'[y] = runner[y]
    BY <1>0, <2>1 DEF RunnerRecord
  <2>4. loaded[req[q].model] = x
    BY <2>1 DEF Handing, LoadersHold
  <2> HIDE DEF x
  <2> QED
    BY <2>1, <2>2, <2>3, <2>4, CountingServe
<1>4. CASE LoaderFailed(q)
  <2> DEFINE x == req[q].runner
  <2>1. /\ req[q].state = "loading" /\ x \in Runners /\ UNCHANGED loaded
        /\ runner' = [runner EXCEPT ![x].refMu = "free"]
        /\ expiredCh' = Append(expiredCh, x) /\ Fail(q)
    BY <1>4 DEF LoaderFailed, Typed, RequestsTyped
  <2>2. ServedKept
    BY <1>0, <2>1, FailEffect DEF ServedKept
  <2> HIDE DEF x
  <2>3. /\ \A y \in Runners : runner'[y].refCount = runner[y].refCount
        /\ \A y \in Runners \ {x} : runner'[y] = runner[y]
    BY <1>0, <2>1 DEF RunnerRecord
  <2>4. ASSUME NEW y \in Runners, Free(y)', Idle(y)', ~Signalled(y)'
        PROVE  Free(y) /\ Idle(y) /\ ~Signalled(y)
    <3>1. y # x /\ ~Due(y)
      BY <1>0, <2>1, <2>4, DueSent DEF Signalled
    <3> QED
      BY <2>3, <2>4, <3>1 DEF Signalled, Free, Idle
  <2>5. \A y \in LoadedRunners : y \in Runners
    BY Types
  <2> QED
    BY <2>1, <2>2, <2>3, <2>4, <2>5, CountingFrame
<1> QED
  BY <1>1, <1>2, <1>3, <1>4 DEF Handler, Loader

LEMMA SchedulingCounting ==
    ASSUME Typed, Typed', Handing, Counting, FewUsers, FewUsers',
           \/ TakePending \/ IgnoreUnloaded \/ Snapshot \/ CheckLoaded \/ UseLoaded
           \/ FindRunnerToUnload \/ EvictAll \/ ExpireTarget \/ WaitUnloaded
           \/ StopPending \/ LoadErrorAfterShutdown
    PROVE  Counting'
<1> USE DEF table, chans, env
<1>0. /\ TypeOK /\ req \in [Requests -> RequestRecord] /\ p \in PendingRecord
      /\ p.pc \notin {"idle", "stopped"} => p.cur \in Requests /\ req[p.cur].state = "queued"
  BY Types
<1>1. CASE TakePending
  <2>1. UNCHANGED <<loaded, runner, expiredCh>>
    BY <1>1 DEF TakePending
  <2>2. ServedKept
    <3> DEFINE q == Head(pendingReqCh)
    <3>1. pendingReqCh # <<>> /\ pendingReqCh \in Seq(Requests)
      BY <1>0, <1>1 DEF TakePending, TypeOK
    <3>2. q \in Requests /\ q = pendingReqCh[1] /\ 1 \in 1 .. Len(pendingReqCh)
      BY <3>1
    <3>3. req[q].state = "queued"
      BY <3>2 DEF Typed, QueueDistinct
    <3>4. UNCHANGED req \/ req' = [req EXCEPT ![q].state = "finished"]
      BY <1>1 DEF TakePending
    <3> HIDE DEF q
    <3> QED
      BY <1>0, <3>2, <3>3, <3>4 DEF ServedKept, RequestRecord
  <2> QED
    BY <2>1, <2>2, CountingQuiet
<1>2. CASE \/ IgnoreUnloaded \/ Snapshot \/ CheckLoaded \/ FindRunnerToUnload
           \/ EvictAll \/ WaitUnloaded \/ StopPending \/ LoadErrorAfterShutdown
  <2>1. UNCHANGED <<loaded, runner, expiredCh, req>>
    BY <1>2 DEF IgnoreUnloaded, Snapshot, CheckLoaded, FindRunnerToUnload, EvictAll,
       WaitUnloaded, StopPending, LoadErrorAfterShutdown
  <2> QED
    BY <2>1, CountingQuiet DEF ServedKept
<1>3. CASE ExpireTarget
  <2>1. PICK x \in p.todo : ExpireNow(x)
    BY <1>3 DEF ExpireTarget
  <2>2. x \in Runners /\ UNCHANGED <<loaded, req>>
    BY <1>0, <1>3 DEF ExpireTarget, PendingRecord
  <2> QED
    BY <2>1, <2>2, CountingExpireNow DEF ServedKept
<1>4. CASE UseLoaded
  <2>1. PICK x \in p.targets : UseLoadedRunner(p.cur, x)
    BY <1>4 DEF UseLoaded
  <2> DEFINE q == p.cur
  <2>2. /\ p.pc = "use" /\ x \in Runners /\ q \in Requests /\ req[q].state = "queued"
        /\ UNCHANGED <<loaded, expiredCh>>
    BY <1>0, <1>4 DEF UseLoaded, PendingRecord
  <2>3. /\ req'[q].model = req[q].model /\ req'[q].state = "served" /\ req'[q].runner = x
        /\ \A r \in Requests \ {q} : req'[r] = req[r]
    BY <1>0, <2>1, <2>2, UseLoadedRunnerTyped
  <2>4. /\ runner'[x].refCount = Referenced(runner[x].refCount)
        /\ \A y \in Runners \ {x} : runner'[y] = runner[y]
        /\ req'[q].stale = ~runner[x].options
    BY <1>0, <2>1, <2>2, UseLoadedRunnerEffect
  <2>5. Given(q, x)
    BY <2>2 DEF Given
  <2>6. ~req'[q].stale => loaded[req[q].model] = x
    BY <2>2, <2>4, <2>5 DEF Handing, GivenTyped
  <2> HIDE DEF q
  <2> QED
    BY <2>2, <2>3, <2>4, <2>6, CountingServe
<1> QED
  BY <1>1, <1>2, <1>3, <1>4

(* The steps of load that do not install a runner touch none in the table.  *)
LEMMA LoadCounting ==
    ASSUME Typed, Handing, Counting, LoadStart \/ LoadNoFit \/ LoadError
    PROVE  Counting'
<1> USE DEF table, chans, env
<1>0. /\ TypeOK /\ req \in [Requests -> RequestRecord]
      /\ runner \in [Runners -> RunnerRecord]
      /\ p.cur \in Requests /\ req[p.cur].state = "queued"
      /\ UNCHANGED <<loaded, expiredCh>>
  BY Types DEF LoadStart, LoadNoFit, LoadError
<1>1. \A x \in Runners : Due(x)' <=> Due(x)
  BY <1>0 DEF Due
<1>2. \A x \in LoadedRunners : x \in Runners
  BY Types
<1>3. ASSUME Fail(p.cur) PROVE ServedKept
  BY <1>0, <1>3, FailEffect DEF ServedKept
<1>4. ASSUME CloseActive, ServedKept PROVE Counting'
  <2>1. /\ RunnersKept /\ TimersKept
        /\ \A y \in Runners : runner'[y].armed = runner[y].armed
    BY <1>0, <1>4, CloseActiveEffect
  <2>2. \A y \in Runners : /\ Signalled(y)' <=> Signalled(y)
                           /\ Free(y)' <=> Free(y)
                           /\ Idle(y)' <=> Idle(y)
    BY <1>1, <2>1 DEF Signalled, Free, Idle, RunnersKept, TimersKept
  <2> QED
    BY <1>0, <1>2, <1>4, <2>1, <2>2, CountingFrame DEF RunnersKept
<1>5. CASE LoadStart
  <2>1. CASE UNCHANGED runner /\ (Fail(p.cur) \/ UNCHANGED req)
    <3>1. ServedKept
      BY <1>3, <2>1 DEF ServedKept
    <3> QED
      BY <1>0, <2>1, <3>1, CountingQuiet
  <2>2. ASSUME NEW x \in Fresh, UNCHANGED req,
               runner' = [runner EXCEPT ![x] = StartedRunner(req[p.cur].model)]
        PROVE  Counting'
    <3>1. /\ x \in Runners /\ Unentered(x) /\ runner'[x].refCount = 0
          /\ \A y \in Runners \ {x} : runner'[y] = runner[y]
      BY <1>0, <2>2 DEF Fresh, Unentered, StartedRunner, NoRunner
    <3>2. x \notin LoadedRunners /\ runner[x].refCount = 0
      BY <3>1 DEF Handing, UnenteredUnused
    <3>3. \A y \in LoadedRunners : /\ Signalled(y)' <=> Signalled(y)
                                   /\ Free(y)' <=> Free(y)
                                   /\ Idle(y)' <=> Idle(y)
      BY <1>1, <1>2, <3>1, <3>2 DEF Signalled, Free, Idle
    <3>4. ServedKept
      BY <2>2 DEF ServedKept
    <3> QED
      BY <1>0, <3>1, <3>2, <3>3, <3>4, CountingFrame
  <2>3. Fresh # {} => (CHOOSE x \in Fresh : TRUE) \in Fresh
    OBVIOUS
  <2> QED
    BY <1>5, <2>1, <2>2, <2>3 DEF LoadStart
<1>6. CASE LoadNoFit
  <2>1. CASE UNCHANGED <<runner, req>>
    BY <1>0, <2>1, CountingQuiet DEF ServedKept
  <2> QED
    BY <1>3, <1>4, <1>6, <2>1 DEF LoadNoFit
<1>7. CASE LoadError
  <2>1. ASSUME req' = [req EXCEPT ![p.cur].oomRetried = TRUE] PROVE ServedKept
    BY <1>0, <2>1 DEF ServedKept, RequestRecord
  <2> QED
    BY <1>3, <1>4, <1>7, <2>1 DEF LoadError
<1> QED
  BY <1>5, <1>6, <1>7

LEMMA InstallCounting ==
    ASSUME Typed, Loading, Handing, Counting, Install
    PROVE  Counting'
<1> DEFINE x == p.llama
           q == p.cur
<1>1. /\ x \in Runners /\ q \in Requests /\ req[q].model \in Models
      /\ Unentered(x) /\ loaded[req[q].model] = None
      /\ req[q].state = "queued"
      /\ req'[q].state = "loading" /\ req'[q].stale = req[q].stale
      /\ \A r \in Requests \ {q} : req'[r] = req[r]
      /\ runner'[x].refMu = "loader" /\ runner'[x].refCount = runner[x].refCount
      /\ \A y \in Runners \ {x} : runner'[y] = runner[y]
      /\ loaded' = [loaded EXCEPT ![req[q].model] = x]
      /\ LoadedRunners' = LoadedRunners \cup {x}
      /\ x \notin LoadedRunners
      /\ UNCHANGED expiredCh
  BY InstallEffect
<1>2. /\ runner[x].refCount = 0 /\ \A r \in Requests : ~Given(r, x)
  BY <1>1 DEF Handing, UnenteredUnused
<1> HIDE DEF x, q
<1>3. \A y \in LoadedRunners : y \in Runners
  BY Types
<1>4. \A r \in Requests : /\ req'[r].stale = req[r].stale
                          /\ req'[r].state = "served" => req'[r] = req[r]
                          /\ req[r].state = "served" => req'[r] = req[r]
                          /\ req[r].state = "finished" => req'[r] = req[r]
  BY <1>1
<1>5. StaleServed'
  BY <1>4 DEF Counting, StaleServed
<1>6. NoStale' <=> NoStale
  BY <1>4 DEF NoStale
<1>7. \A y \in Runners : Users(y)' = Users(y)
  BY <1>4 DEF Users
<1>8. UsersFinite'
  BY <1>7 DEF Counting, UsersFinite
<1>9. ServedLoaded'
  <2> SUFFICES ASSUME NoStale', NEW r \in Requests, req'[r].state = "served"
               PROVE  loaded'[req'[r].model] = req'[r].runner
    BY DEF ServedLoaded
  <2>1. /\ req'[r] = req[r] /\ req[r].state = "served"
        /\ loaded[req[r].model] = req[r].runner /\ req[r].runner \in Runners
        /\ req[r].model \in Models
    BY <1>4, <1>6 DEF Counting, ServedLoaded, Typed, RequestsTyped
  <2>2. req[r].model # req[q].model
    BY <1>1, <2>1, NoneAssumption
  <2> QED
    BY <1>1, <2>1, <2>2, Types
<1>10. Users(x) = {}
  BY <1>2 DEF Users, Given, GivenStates
<1>11. RefCountExact'
  <2> SUFFICES ASSUME NoStale', NEW y \in LoadedRunners'
               PROVE  runner'[y].refCount = Cardinality(Users(y)') % RefCountMod
    BY DEF RefCountExact
  <2>1. CASE y = x
    <3>1. Users(y)' = {} /\ Cardinality({}) = 0
      BY <1>1, <1>7, <1>10, <2>1, FS_EmptySet
    <3>2. 0 % RefCountMod = 0
      BY RefCountAssumption
    <3> QED
      BY <1>1, <1>2, <2>1, <3>1, <3>2
  <2>2. CASE y # x
    BY <1>1, <1>3, <1>6, <1>7, <2>2 DEF Counting, RefCountExact
  <2> QED
    BY <2>1, <2>2
<1>12. IdleRunnersExpire'
  <2> SUFFICES ASSUME NoStale', NEW y \in LoadedRunners', Free(y)', Idle(y)'
               PROVE  Signalled(y)'
    BY DEF IdleRunnersExpire, Signalled, Due
  <2>1. y \in LoadedRunners /\ runner'[y] = runner[y]
    BY <1>1, <1>3 DEF Free
  <2>2. Signalled(y)
    BY <1>6, <2>1 DEF Counting, IdleRunnersExpire, Signalled, Due, Free, Idle
  <2> QED
    BY <1>1, <2>1, <2>2 DEF Signalled, Due
<1> QED
  BY <1>5, <1>8, <1>9, <1>11, <1>12 DEF Counting

(* With an exact count, an idle runner has no users.                        *)
LEMMA IdleUnused ==
    ASSUME Typed, Counting, FewUsers, NoStale, NEW x \in LoadedRunners, Idle(x)
    PROVE  Users(x) = {}
<1> DEFINE n == Cardinality(Users(x))
<1>1. x \in Runners /\ IsFiniteSet(Users(x))
  BY Types DEF Counting, UsersFinite
<1>2. n \in Nat /\ n < RefCountMod
  BY <1>1, FS_CardinalityType DEF FewUsers
<1>3. n % RefCountMod = 0
  BY DEF Counting, RefCountExact, Idle
<1>4. n = 0
  <2> HIDE DEF n
  <2> QED
    BY <1>2, <1>3, Remainders
<1> QED
  BY <1>1, <1>4, FS_EmptySet

LEMMA FinishedCounting ==
    ASSUME Typed, Typed', Handing, Counting, FewUsers, NEW q \in Requests, Finished(q)
    PROVE  Counting'
<1> DEFINE x == loaded[req[q].model]
<1>1. /\ req[q].state = "served"
      /\ req'[q].state = "finished" /\ req'[q].model = req[q].model
      /\ req'[q].runner = req[q].runner /\ req'[q].stale = req[q].stale
      /\ \A r \in Requests \ {q} : req'[r] = req[r]
      /\ \A y \in Runners \ {x} : runner'[y] = runner[y]
      /\ x # None =>
           /\ x \in LoadedRunners /\ x \in Runners
           /\ runner'[x].refCount = Dereferenced(runner[x].refCount)
           /\ runner'[x].refCount = 0 => \/ runner'[x].armed /\ expiredCh' = expiredCh
                                         \/ expiredCh' = Append(expiredCh, x)
      /\ expiredCh' = expiredCh \/ (x # None /\ expiredCh' = Append(expiredCh, x))
      /\ UNCHANGED loaded
  BY FinishedEffect
<1>2. /\ TypeOK /\ LoadedRunners' = LoadedRunners /\ LoadedRunners \subseteq Runners
      /\ req[q].runner \in Runners
  BY <1>1, Types DEF Loaded, LoadedRunners, Typed, RequestsTyped
<1>3. NoStale' <=> NoStale
  BY <1>1 DEF NoStale
<1>4. NoStale => x = req[q].runner /\ x # None
  BY <1>1, <1>2, NoneAssumption DEF Counting, ServedLoaded
<1> HIDE DEF x
<1>5. StaleServed'
  BY <1>1 DEF Counting, StaleServed
<1>6. ServedLoaded'
  BY <1>1, <1>3 DEF Counting, ServedLoaded
<1>7. \A y \in Runners : Users(y)' = Users(y) \ {q}
  BY <1>1 DEF Users
<1>8. \A y \in Runners : y # req[q].runner => q \notin Users(y)
  BY DEF Users
<1>9. UsersFinite'
  <2>1. \A y \in Runners : IsFiniteSet(Users(y)) /\ Users(y) \ {q} \subseteq Users(y)
    BY DEF Counting, UsersFinite
  <2>2. \A y \in Runners : IsFiniteSet(Users(y) \ {q})
    BY <2>1, FS_Subset
  <2> QED
    BY <1>7, <2>2 DEF UsersFinite
<1>10. RefCountExact'
  <2> SUFFICES ASSUME NoStale', NEW y \in LoadedRunners
               PROVE  runner'[y].refCount = Cardinality(Users(y)') % RefCountMod
    BY <1>2 DEF RefCountExact
  <2>1. runner[y].refCount = Cardinality(Users(y)) % RefCountMod /\ y \in Runners
    BY <1>2, <1>3 DEF Counting, RefCountExact
  <2>2. CASE y = x
    <3> DEFINE n == Cardinality(Users(y))
    <3>1. q \in Users(y) /\ IsFiniteSet(Users(y))
      BY <1>1, <1>3, <1>4, <2>1, <2>2 DEF Users, Counting, UsersFinite
    <3>2. Cardinality(Users(y) \ {q}) = n - 1
      BY <3>1, FS_RemoveElement
    <3>3. n \in Nat /\ n < RefCountMod
      BY <2>1, <3>1, FS_CardinalityType DEF FewUsers
    <3>4. n # 0
      BY <3>1, FS_EmptySet
    <3>5. runner'[y].refCount = Dereferenced(n % RefCountMod)
      BY <1>1, <1>3, <1>4, <2>1, <2>2
    <3>6. Users(y)' = Users(y) \ {q}
      BY <1>7, <2>1
    <3> HIDE DEF n
    <3>7. Dereferenced(n % RefCountMod) = (n - 1) % RefCountMod
      BY <3>3, <3>4, Remainders
    <3> QED
      BY <3>2, <3>5, <3>6, <3>7
  <2>3. CASE y # x
    <3>1. Users(y)' = Users(y) /\ runner'[y] = runner[y]
      BY <1>1, <1>3, <1>4, <1>7, <1>8, <2>1, <2>3
    <3> QED
      BY <2>1, <3>1
  <2> QED
    BY <2>2, <2>3
<1>11. IdleRunnersExpire'
  <2> SUFFICES ASSUME NoStale', NEW y \in LoadedRunners, Free(y)', Idle(y)'
               PROVE  Signalled(y)'
    BY <1>2 DEF IdleRunnersExpire, Signalled, Due
  <2>1. x \in Runners /\ y \in Runners
    BY <1>1, <1>2, <1>3, <1>4
  <2>2. Due(y) => Due(y)'
    <3>1. CASE expiredCh' = expiredCh
      BY <3>1 DEF Due
    <3>2. CASE expiredCh' = Append(expiredCh, x)
      BY <1>2, <2>1, <3>2, DueSent
    <3> QED
      BY <1>1, <3>1, <3>2
  <2>3. CASE y = x
    <3>1. runner'[y].armed \/ expiredCh' = Append(expiredCh, y)
      BY <1>1, <1>3, <1>4, <2>3 DEF Idle
    <3> QED
      BY <1>2, <2>1, <3>1, DueSent DEF Signalled
  <2>4. CASE y # x
    <3>1. runner'[y] = runner[y]
      BY <1>1, <2>1, <2>4
    <3>2. Signalled(y)
      BY <1>3, <3>1 DEF Counting, IdleRunnersExpire, Signalled, Due, Free, Idle
    <3> QED
      BY <2>2, <3>1, <3>2 DEF Signalled
  <2> QED
    BY <2>3, <2>4
<1> QED
  BY <1>5, <1>6, <1>9, <1>10, <1>11 DEF Counting

LEMMA ExpiredCounting ==
    ASSUME Typed, Handing, ExpiringTyped, Counting, FewUsers, Expired
    PROVE  Counting'
<1> DEFINE x == Head(expiredCh)
           m == runner[x].model
<1>1. /\ x \in Runners /\ Free(x) /\ expiredCh # <<>> /\ expiredCh' = Tail(expiredCh)
      /\ UNCHANGED req
      /\ \A y \in Runners : runner'[y].refCount = runner[y].refCount
      /\ \A y \in Runners \ {x} : runner'[y] = runner[y]
      /\ \/ ~Idle(x) /\ runner'[x].retries = runner[x].retries + 1 /\ UNCHANGED loaded
         \/ Idle(x) /\ loaded[m] # x /\ UNCHANGED loaded
         \/ Idle(x) /\ loaded[m] = x /\ loaded' = [loaded EXCEPT ![m] = None]
  BY ExpiredEffect, NoneAssumption
<1>2. /\ TypeOK /\ runner \in [Runners -> RunnerRecord]
      /\ loaded \in [Models -> Runners \cup {None}]
  BY Types
<1>3. m \in Models
  <2>1. expiredCh \in Seq(Runners)
    BY Types
  <2>2. Due(x)
    BY <1>1, <2>1 DEF Due
  <2> QED
    BY <1>1, <2>2 DEF ExpiringTyped, MayExpire
<1>4. \A y \in Runners : y # x => (Due(y) => Due(y)')
  BY <1>1, <1>2, DueTaken
<1> HIDE DEF x
<1>5. \A y \in Runners : y # x => (Signalled(y) => Signalled(y)')
  BY <1>1, <1>4 DEF Signalled
<1>6. ServedKept /\ (NoStale' <=> NoStale)
  BY <1>1 DEF ServedKept, NoStale
<1>7. CASE UNCHANGED loaded
  <2>1. ASSUME NEW y \in LoadedRunners, Free(y)', Idle(y)', ~Signalled(y)'
        PROVE  Free(y) /\ Idle(y) /\ ~Signalled(y)
    <3>1. y \in Runners /\ loaded[runner[y].model] = y
      BY <1>2 DEF Handing, LoadedTyped, LoadedRunners, Loaded
    <3>2. y # x
      <4>1. ASSUME y = x, ~Idle(x) PROVE FALSE
        BY <1>1, <2>1, <3>1, <4>1 DEF Idle
      <4> QED
        BY <1>1, <1>2, <1>3, <1>7, <3>1, <4>1, NoneAssumption
    <3>3. runner'[y] = runner[y]
      BY <1>1, <3>1, <3>2
    <3> QED
      BY <1>5, <2>1, <3>1, <3>2, <3>3 DEF Free, Idle
  <2> QED
    BY <1>1, <1>6, <1>7, <2>1, CountingFrame
<1>8. CASE Idle(x) /\ loaded[m] = x /\ loaded' = [loaded EXCEPT ![m] = None]
  <2>1. x \in LoadedRunners
    BY <1>1, <1>3, <1>8, NoneAssumption DEF LoadedRunners, Loaded
  <2>2. NoStale => Users(x) = {}
    BY <1>8, <2>1, IdleUnused
  <2>3. /\ loaded'[m] = None /\ \A n \in Models \ {m} : loaded'[n] = loaded[n]
        /\ Loaded' = Loaded \ {m}
    BY <1>2, <1>3, <1>8 DEF Loaded
  <2>4. \A n \in Loaded : loaded[n] = x => n = m
    BY DEF Handing, LoadedTyped
  <2>5. LoadedRunners' \subseteq LoadedRunners \ {x} /\ LoadedRunners \subseteq Runners
    BY <2>3, <2>4, Types DEF LoadedRunners, Loaded
  <2>6. \A y \in Runners : Users(y)' = Users(y)
    BY <1>1 DEF Users
  <2>7. StaleServed' /\ UsersFinite'
    BY <1>1, <2>6 DEF Counting, StaleServed, UsersFinite
  <2>8. ServedLoaded'
    <3> SUFFICES ASSUME NoStale, NEW r \in Requests, req[r].state = "served"
                 PROVE  loaded'[req[r].model] = req[r].runner
      BY <1>1, <1>6 DEF ServedLoaded
    <3>1. loaded[req[r].model] = req[r].runner /\ req[r].model \in Models
      BY DEF Counting, ServedLoaded, Typed, RequestsTyped
    <3>2. req[r].runner # x
      BY <2>2 DEF Users
    <3> QED
      BY <1>8, <2>3, <3>1, <3>2
  <2>9. RefCountExact'
    BY <1>1, <1>6, <2>5, <2>6 DEF Counting, RefCountExact
  <2>10. IdleRunnersExpire'
    <3> SUFFICES ASSUME NoStale', NEW y \in LoadedRunners', Free(y)', Idle(y)'
                 PROVE  Signalled(y)'
      BY DEF IdleRunnersExpire, Signalled, Due
    <3>1. y \in LoadedRunners /\ y # x /\ runner'[y] = runner[y] /\ y \in Runners
      BY <1>1, <2>5
    <3>2. Signalled(y)
      BY <1>6, <3>1 DEF Counting, IdleRunnersExpire, Signalled, Due, Free, Idle
    <3> QED
      BY <1>5, <3>1, <3>2
  <2> QED
    BY <2>7, <2>8, <2>9, <2>10 DEF Counting
<1> QED
  BY <1>1, <1>7, <1>8

LEMMA OthersCounting ==
    ASSUME Typed, Handing, Counting,
           \/ Recovered \/ StopCompleted
           \/ \E x \in Runners : Timers(x)
           \/ Api \/ Shutdown \/ UnloadAllRunners \/ UNCHANGED vars
    PROVE  Counting'
<1> USE DEF table, chans, env
<1>0. /\ TypeOK /\ runner \in [Runners -> RunnerRecord] /\ LoadedRunners \subseteq Runners
  BY Types
<1>1. UNCHANGED <<loaded, req>>
  BY DEF Recovered, StopCompleted, Timers, TimerFires, TimerCallback, Requeue, Api, RuntimeOOM,
     ExpireModel, ApiExpire, Shutdown, UnloadAllRunners, vars
<1>2. ServedKept
  BY <1>1 DEF ServedKept
<1>3. CASE StopCompleted \/ Shutdown \/ UNCHANGED vars
  <2>1. UNCHANGED <<runner, expiredCh>>
    BY <1>3 DEF StopCompleted, Shutdown, vars
  <2> QED
    BY <1>1, <1>2, <2>1, CountingQuiet
<1>4. CASE Recovered
  <2>1. /\ c.pc = "recovering" /\ UNCHANGED expiredCh
        /\ runner' = [runner EXCEPT ![c.runner].refMu = "free"]
    BY <1>4 DEF Recovered
  <2>2. c.runner \in Runners \ LoadedRunners
    BY <2>1 DEF Handing, RecovererHolds
  <2>3. /\ \A y \in Runners : runner'[y].refCount = runner[y].refCount
        /\ \A y \in LoadedRunners : runner'[y] = runner[y]
    BY <1>0, <2>1, <2>2 DEF RunnerRecord
  <2>4. \A y \in LoadedRunners : /\ Signalled(y)' <=> Signalled(y)
                                 /\ Free(y)' <=> Free(y)
                                 /\ Idle(y)' <=> Idle(y)
    BY <2>1, <2>3 DEF Signalled, Due, Free, Idle
  <2> QED
    BY <1>1, <1>2, <2>3, <2>4, CountingFrame
<1>5. ASSUME NEW x \in Runners, Timers(x) PROVE Counting'
  <2>1. /\ \A y \in Runners : /\ runner'[y].refCount = runner[y].refCount
                              /\ runner'[y].refMu = runner[y].refMu
        /\ \A y \in Runners \ {x} : runner'[y] = runner[y]
        /\ \/ runner'[x].callbacks > 0 /\ expiredCh' = expiredCh
           \/ expiredCh' = Append(expiredCh, x)
    <3>1. CASE TimerFires(x)
      BY <1>0, <3>1 DEF TimerFires, RunnerRecord
    <3>2. CASE TimerCallback(x)
      BY <1>0, <3>2 DEF TimerCallback, RunnerRecord
    <3>3. CASE Requeue(x)
      BY <1>0, <3>3 DEF Requeue, RunnerRecord
    <3> QED
      BY <1>5, <3>1, <3>2, <3>3 DEF Timers
  <2>2. Signalled(x)' /\ \A y \in Runners : Due(y) => Due(y)'
    <3>1. CASE runner'[x].callbacks > 0 /\ expiredCh' = expiredCh
      BY <3>1 DEF Signalled, Due
    <3>2. CASE expiredCh' = Append(expiredCh, x)
      BY <1>0, <3>2, DueSent DEF Signalled
    <3> QED
      BY <2>1, <3>1, <3>2
  <2>3. \A y \in Runners : Signalled(y) => Signalled(y)'
    BY <2>1, <2>2 DEF Signalled
  <2>4. \A y \in Runners : (Free(y)' <=> Free(y)) /\ (Idle(y)' <=> Idle(y))
    BY <2>1 DEF Free, Idle
  <2> QED
    BY <1>0, <1>1, <1>2, <2>1, <2>3, <2>4, CountingFrame
<1>6. CASE Api
  <2>1. CASE RuntimeOOM \/ \E m \in Models : ExpireModel(m)
    <3>1. UNCHANGED <<runner, expiredCh>>
      BY <2>1 DEF RuntimeOOM, ExpireModel
    <3> QED
      BY <1>1, <1>2, <3>1, CountingQuiet
  <2>2. ASSUME NEW x \in Runners, ApiExpire(x) PROVE Counting'
    BY <1>1, <1>2, <2>2, CountingExpireNow DEF ApiExpire
  <2> QED
    BY <1>6, <2>1, <2>2 DEF Api
<1>7. CASE UnloadAllRunners
  <2>1. \A y \in Runners : /\ runner'[y].refCount = runner[y].refCount
                           /\ runner'[y].refMu = runner[y].refMu
                           /\ runner'[y].armed = runner[y].armed
                           /\ runner'[y].callbacks = runner[y].callbacks
                           /\ runner'[y].retries = runner[y].retries
    BY <1>0, <1>7 DEF UnloadAllRunners, RunnerRecord
  <2>2. UNCHANGED expiredCh
    BY <1>7 DEF UnloadAllRunners
  <2>3. \A y \in Runners : /\ Signalled(y)' <=> Signalled(y)
                           /\ Free(y)' <=> Free(y)
                           /\ Idle(y)' <=> Idle(y)
    BY <2>1, <2>2 DEF Signalled, Due, Free, Idle
  <2> QED
    BY <1>0, <1>1, <1>2, <2>1, <2>3, CountingFrame
<1> QED
  BY <1>3, <1>4, <1>5, <1>6, <1>7

LEMMA CountingStep ==
    ASSUME Typed, Typed', Loading, Handing, ExpiringTyped,
           FewUsers, FewUsers', Counting, [Next]_vars
    PROVE  Counting'
<1>1. CASE \E q \in Requests : Handler(q) \/ ContextDone(q) \/ Loader(q)
  BY <1>1, RequestCounting
<1>2. CASE ProcessPending
  BY <1>2, SchedulingCounting, LoadCounting, InstallCounting DEF ProcessPending
<1>3. CASE Expired \/ \E q \in Requests : Finished(q)
  BY <1>3, ExpiredCounting, FinishedCounting
<1>4. CASE \/ Recovered \/ StopCompleted
           \/ \E x \in Runners : Timers(x)
           \/ Api \/ Shutdown \/ UnloadAllRunners \/ UNCHANGED vars
  BY <1>4, OthersCounting
<1> QED
  BY <1>1, <1>2, <1>3, <1>4 DEF Next, ProcessCompleted

-----------------------------------------------------------------------------
(* The theorems.                                                            *)

LEMMA CountingAlways == Spec /\ []FewUsers => []Counting
<1>1. Init => Counting
  BY KnownInit
<1>2. (/\ Typed /\ Typed' /\ Loading /\ (Handing /\ ExpiringTyped)
       /\ FewUsers /\ FewUsers' /\ Counting /\ [Next]_vars)
        => Counting'
  BY CountingStep
<1> QED
  BY <1>1, <1>2, TypedAlways, LoadingAlways, HandingAlways, PTL DEF Spec

(* With fewer requests than the modulus the proviso always holds.          *)
LEMMA FewRequests ==
    ASSUME IsFiniteSet(Requests), Cardinality(Requests) < RefCountMod
    PROVE  FewUsers
<1>1. \A x \in Runners : Users(x) \subseteq Requests
  BY DEF Users
<1>2. \A x \in Runners : Cardinality(Users(x)) <= Cardinality(Requests)
  BY <1>1, FS_Subset
<1> QED
  BY <1>1, <1>2, FS_Subset, FS_CardinalityType, RefCountAssumption DEF FewUsers

(* "refCount uint": while fewer requests use a runner than the unsigned     *)
(* count can tell apart, and none was handed an unloaded runner, the count  *)
(* of each loaded runner is the number of the requests that use it, however *)
(* loads, evictions, expirations and finished events interleave.            *)
THEOREM RefCountsExact == Spec /\ []FewUsers => []RefCountExact
<1>1. Counting => RefCountExact
  BY DEF Counting
<1> QED
  BY <1>1, CountingAlways, PTL

(* Under the same provisos no idle runner is forgotten: its timer is armed, *)
(* or an expired event that names it is on its way to processCompleted.     *)
THEOREM IdleNeverForgotten == Spec /\ []FewUsers => []IdleRunnersExpire
<1>1. Counting => IdleRunnersExpire
  BY DEF Counting
<1> QED
  BY <1>1, CountingAlways, PTL

(* A server that the running scheduler closes is one of an idle runner, or  *)
(* one that no request has been given yet.                                  *)
LEMMA ClosedUnused ==
    ASSUME Typed, Loading, Handing, Counting, FewUsers, NoStale, [Next]_vars,
           NEW x \in Runners
    PROVE  InUseStaysOpen(x)
<1> USE DEF table, chans, env
<1>0. /\ TypeOK /\ runner \in [Runners -> RunnerRecord] /\ p \in PendingRecord
      /\ activeLoading \in Runners \cup {None}
  BY Types
<1> SUFFICES ASSUME runner[x].proc = "up", runner'[x].proc = "closed", ctx' # "unloaded"
             PROVE  Users(x) = {}
  BY DEF InUseStaysOpen
<1>1. ASSUME x = activeLoading PROVE Users(x) = {}
  BY <1>1 DEF Handing, UnenteredUnused, Unentered, Users, Given, GivenStates
<1>2. ASSUME Idle(x) PROVE Users(x) = {}
  BY <1>1, <1>2, IdleUnused DEF Loading, ServersTracked
<1>3. ASSUME ProcessCompleted PROVE Idle(x)
  <2>1. CASE Expired
    BY <2>1, ExpiredEffect
  <2>2. CASE Recovered
    BY <1>0, <2>2 DEF Recovered, RunnerRecord
  <2>3. CASE StopCompleted
    BY <2>3 DEF StopCompleted
  <2>4. CASE \E q \in Requests : Finished(q)
    BY <2>4, FinishedEffect
  <2> QED
    BY <1>3, <2>1, <2>2, <2>3, <2>4 DEF ProcessCompleted
<1>4. ASSUME ProcessPending PROVE x = activeLoading
  <2>1. ASSUME CloseActive PROVE x = activeLoading
    BY <1>0, <2>1, CloseActiveEffect
  <2>2. runner' # runner
    OBVIOUS
  <2>3. CASE UseLoaded
    <3>1. PICK y \in p.targets : UseLoadedRunner(p.cur, y)
      BY <2>3 DEF UseLoaded
    <3>2. y \in Runners /\ p.cur \in Requests
      BY <1>0, <2>3, Types DEF UseLoaded, PendingRecord
    <3> QED
      BY <1>0, <3>1, <3>2, UseLoadedRunnerEffect
  <2>4. CASE ExpireTarget
    <3>1. PICK y \in p.todo : ExpireNow(y)
      BY <2>4 DEF ExpireTarget
    <3>2. y \in Runners
      BY <1>0 DEF PendingRecord
    <3> QED
      BY <1>0, <3>1, <3>2, ExpireNowEffect
  <2>5. CASE LoadStart
    <3>1. PICK y \in Fresh : runner' = [runner EXCEPT ![y] = StartedRunner(req[p.cur].model)]
      <4>1. Fresh # {} => (CHOOSE y \in Fresh : TRUE) \in Fresh
        OBVIOUS
      <4> QED
        BY <2>2, <2>5, <4>1 DEF LoadStart
    <3>2. runner'[x].proc \in {runner[x].proc, "up"}
      BY <1>0, <3>1 DEF StartedRunner, NoRunner
    <3> QED
      BY <3>2
  <2>6. CASE Install
    BY <2>6, InstallEffect
  <2>7. CASE LoadNoFit \/ LoadError
    BY <2>1, <2>2, <2>7 DEF LoadNoFit, LoadError
  <2> QED
    BY <1>4, <2>2, <2>3, <2>4, <2>5, <2>6, <2>7
       DEF ProcessPending, TakePending, IgnoreUnloaded, Snapshot, CheckLoaded,
           FindRunnerToUnload, EvictAll, WaitUnloaded, LoadErrorAfterShutdown, StopPending
<1>5. CASE \E q \in Requests : Handler(q) \/ ContextDone(q) \/ Loader(q)
  <2>1. PICK q \in Requests : Handler(q) \/ ContextDone(q) \/ Loader(q)
    BY <1>5
  <2>2. CASE UseRunner(q)
    <3>1. UseLoadedRunner(q, req[q].runner) /\ req[q].runner \in Runners
      BY <2>2 DEF UseRunner, Typed, RequestsTyped
    <3> QED
      BY <1>0, <3>1, UseLoadedRunnerEffect
  <2>3. CASE LoaderReady(q)
    BY <1>0, <2>3 DEF LoaderReady, RunnerRecord
  <2>4. CASE LoaderFailed(q)
    BY <1>0, <2>4 DEF LoaderFailed, RunnerRecord
  <2> QED
    BY <2>1, <2>2, <2>3, <2>4
       DEF Handler, Loader, GetRunner, CheckRunner, Enqueue, ContextDone
<1>6. CASE \E y \in Runners : Timers(y)
  <2>1. PICK y \in Runners : Timers(y)
    BY <1>6
  <2>2. CASE TimerFires(y)
    BY <1>0, <2>2 DEF TimerFires, RunnerRecord
  <2>3. CASE TimerCallback(y)
    BY <1>0, <2>3 DEF TimerCallback, RunnerRecord
  <2>4. CASE Requeue(y)
    BY <1>0, <2>4 DEF Requeue, RunnerRecord
  <2> QED
    BY <2>1, <2>2, <2>3, <2>4 DEF Timers
<1>7. CASE Api \/ Shutdown \/ UnloadAllRunners \/ UNCHANGED vars
  BY <1>0, <1>7, ExpireNowEffect
     DEF Api, RuntimeOOM, ExpireModel, ApiExpire, Shutdown, UnloadAllRunners, vars
<1> QED
  BY <1>1, <1>2, <1>3, <1>4, <1>5, <1>6, <1>7 DEF Next

(* "prevent unloading if > 0": under the same provisos the scheduler closes *)
(* no server that some request is using, in any step but that of the        *)
(* shutdown goroutine.                                                      *)
THEOREM UnloadsOnlyIdle == Spec /\ []FewUsers => UnloadOnlyIdle
<1>1. (/\ Typed /\ Loading /\ (Handing /\ ExpiringTyped) /\ Counting /\ FewUsers
       /\ [Next]_vars)
        => [NoStale => \A x \in Runners : InUseStaysOpen(x)]_vars
  <2> SUFFICES ASSUME Typed, Loading, Handing, Counting, FewUsers, [Next]_vars, NoStale
               PROVE  \A x \in Runners : InUseStaysOpen(x)
    OBVIOUS
  <2> QED
    BY ClosedUnused
<1> QED
  BY <1>1, TypedAlways, LoadingAlways, HandingAlways, CountingAlways, PTL
     DEF Spec, UnloadOnlyIdle

-----------------------------------------------------------------------------
(* The implementation of ModelService.                                      *)

(* Which servers are up: none that has been unloaded, the one that is being *)
(* loaded and, until the shutdown goroutine closes them, those loaded.      *)
Opened ==
    /\ \A x \in Runners : ~runner[x].options => runner[x].proc # "up"
    /\ activeLoading # None => runner[activeLoading].proc = "up"
    /\ ctx # "unloaded" => \A x \in LoadedRunners : runner[x].proc = "up"

LEMMA QuietContext == ASSUME Quiet PROVE ctx' = "unloaded" <=> ctx = "unloaded"
<1> USE DEF env
<1>1. CASE \E q \in Requests : Handler(q) \/ ContextDone(q) \/ Loader(q) \/ Finished(q)
  BY <1>1 DEF Handler, GetRunner, CheckRunner, UseRunner, Enqueue, ContextDone, Loader,
     LoaderReady, LoaderFailed, Finished
<1>2. CASE \/ TakePending \/ IgnoreUnloaded \/ Snapshot \/ CheckLoaded \/ UseLoaded
           \/ FindRunnerToUnload \/ EvictAll \/ ExpireTarget \/ WaitUnloaded
           \/ LoadErrorAfterShutdown \/ StopPending \/ Recovered \/ StopCompleted
  BY <1>2 DEF TakePending, IgnoreUnloaded, Snapshot, CheckLoaded, UseLoaded,
     FindRunnerToUnload, EvictAll, ExpireTarget, WaitUnloaded, LoadErrorAfterShutdown,
     StopPending, Recovered, StopCompleted
<1>3. CASE (\E x \in Runners : Timers(x)) \/ Api \/ Shutdown \/ UNCHANGED vars
  BY <1>3 DEF Timers, TimerFires, TimerCallback, Requeue, Api, RuntimeOOM, ExpireModel,
     ApiExpire, Shutdown, vars
<1> QED
  BY <1>1, <1>2, <1>3 DEF Quiet

(* What LoadStart does when it starts a server.                             *)
LEMMA StartEffect ==
    ASSUME Typed, LoadStart, activeLoading = None, ~UNCHANGED runner
    PROVE  \E x \in Runners :
             /\ runner[x].proc = "none" /\ activeLoading' = x
             /\ runner' = [runner EXCEPT ![x] = StartedRunner(req[p.cur].model)]
             /\ UNCHANGED <<req, ctx, loaded>>
<1>1. Fresh # {} => (CHOOSE x \in Fresh : TRUE) \in Fresh
  OBVIOUS
<1> QED
  BY <1>1 DEF LoadStart, Fresh, env

(* The runner that an expired event closes is not in the table any more.    *)
LEMMA ExpiredTable ==
    ASSUME Typed, Handing, ExpiringTyped, Expired
    PROVE  LET x == Head(expiredCh)
           IN  /\ ~Unentered(x) /\ runner[x].model \in Models
               /\ LoadedRunners' \subseteq LoadedRunners
               /\ runner'[x].proc = runner[x].proc \/ x \notin LoadedRunners'
<1> DEFINE x == Head(expiredCh)
           m == runner[x].model
<1>0. /\ expiredCh \in Seq(Runners) /\ expiredCh # <<>>
      /\ loaded \in [Models -> Runners \cup {None}] /\ x \in Runners
  BY Types DEF Expired
<1>1. Due(x)
  BY <1>0 DEF Due
<1>2. ~Unentered(x) /\ m \in Models
  BY <1>0, <1>1 DEF ExpiringTyped, MayExpire
<1>3. \A n \in Loaded : loaded[n] = x => n = m
  BY DEF Handing, LoadedTyped
<1>4. CASE UNCHANGED loaded
  <2>1. LoadedRunners' = LoadedRunners
    BY <1>4 DEF LoadedRunners, Loaded
  <2>2. runner'[x].proc = runner[x].proc \/ loaded[m] # x
    <3>1. \/ runner'[x].proc = runner[x].proc
          \/ UNCHANGED runner
          \/ loaded[m] # x
          \/ loaded[m] = x /\ loaded' = [loaded EXCEPT ![m] = None]
      BY ExpiredEffect
    <3>2. ~(loaded[m] = x /\ loaded' = [loaded EXCEPT ![m] = None])
      BY <1>0, <1>2, <1>4, NoneAssumption
    <3> QED
      BY <3>1, <3>2
  <2>3. loaded[m] # x => x \notin LoadedRunners
    BY <1>3 DEF LoadedRunners
  <2> QED
    BY <1>2, <2>1, <2>2, <2>3
<1>5. CASE loaded' = [loaded EXCEPT ![m] = None]
  <2>1. \A n \in Models : loaded'[n] = IF n = m THEN None ELSE loaded[n]
    BY <1>0, <1>5
  <2>2. Loaded' = Loaded \ {m}
    BY <2>1 DEF Loaded
  <2>3. LoadedRunners' = {loaded[n] : n \in Loaded \ {m}}
    BY <2>1, <2>2 DEF LoadedRunners, Loaded
  <2> QED
    BY <1>2, <1>3, <2>3 DEF LoadedRunners
<1> QED
  BY <1>4, <1>5, ExpiredEffect

LEMMA OpenedStep ==
    ASSUME Typed, Loading, Handing, ExpiringTyped, Opened, [Next]_vars
    PROVE  Opened'
<1> USE DEF table, env
<1>0. /\ TypeOK /\ runner \in [Runners -> RunnerRecord]
      /\ activeLoading \in Runners \cup {None} /\ LoadedRunners \subseteq Runners
      /\ None \notin Runners
  BY Types
<1>1. CASE Quiet
  <2>1. ServersKept /\ UNCHANGED <<loaded, activeLoading>>
    BY <1>1, QuietServers
  <2>2. LoadedRunners' = LoadedRunners
    BY <2>1 DEF LoadedRunners, Loaded
  <2> QED
    BY <1>0, <1>1, <2>1, <2>2, QuietContext DEF Opened, ServersKept
<1>2. CASE LoadStart
  <2>1. LoadedRunners' = LoadedRunners /\ ctx' = ctx
    BY <1>2 DEF LoadStart, LoadedRunners, Loaded
  <2>2. CASE UNCHANGED <<runner, activeLoading>>
    BY <2>1, <2>2 DEF Opened
  <2>3. CASE activeLoading = None /\ ~UNCHANGED runner
    <3>1. PICK x \in Runners :
            /\ activeLoading' = x
            /\ runner' = [runner EXCEPT ![x] = StartedRunner(req[p.cur].model)]
      BY <1>2, <2>3, StartEffect
    <3>2. runner'[x].options /\ runner'[x].proc = "up" /\ \A y \in Runners \ {x} : runner'[y] = runner[y]
      BY <1>0, <3>1 DEF StartedRunner, NoRunner
    <3> QED
      BY <1>0, <2>1, <3>1, <3>2 DEF Opened
  <2>4. CASE UNCHANGED runner /\ ~UNCHANGED activeLoading
    <3>1. PICK x \in Fresh : /\ activeLoading' = x
                             /\ runner' = [runner EXCEPT ![x] = StartedRunner(req[p.cur].model)]
      BY <1>2, <2>4 DEF LoadStart
    <3>2. runner'[x].proc = "up" /\ runner[x].proc = "none"
      BY <1>0, <3>1 DEF StartedRunner, NoRunner, Fresh
    <3> QED
      BY <2>4, <3>2
  <2> QED
    BY <1>2, <2>2, <2>3, <2>4 DEF LoadStart
<1>3. CASE Install
  <2>1. ctx # "unloaded" => runner[p.llama].proc = "up"
    BY <1>0, <1>3 DEF Install, Opened, Loading, LlamaIsActive, Typed, PendingWork
  <2> QED
    BY <1>0, <1>3, <2>1, InstallEffect DEF Opened
<1>4. CASE LoadNoFit \/ LoadError
  <2>1. UNCHANGED <<loaded, ctx>> /\ LoadedRunners' = LoadedRunners
    BY <1>4 DEF LoadNoFit, LoadError, LoadedRunners, Loaded
  <2>2. CASE UNCHANGED <<activeLoading, runner>>
    BY <2>1, <2>2 DEF Opened
  <2>3. CASE CloseActive
    <3>1. activeLoading \notin LoadedRunners
      BY <1>0, <2>3 DEF CloseActive, Handing, UnenteredUnused, Unentered
    <3> QED
      BY <1>0, <2>1, <2>3, <3>1, CloseActiveEffect DEF Opened
  <2> QED
    BY <1>4, <2>2, <2>3 DEF LoadNoFit, LoadError
<1>5. CASE Expired
  <2> DEFINE x == Head(expiredCh)
  <2>1. /\ x \in Runners /\ UNCHANGED <<activeLoading, ctx>>
        /\ \A y \in Runners \ {x} : runner'[y] = runner[y]
        /\ \/ runner'[x].proc = runner[x].proc /\ runner'[x].options = runner[x].options
           \/ runner'[x].proc = "closed"
    BY <1>5, ExpiredEffect
  <2>2. /\ x # activeLoading /\ LoadedRunners' \subseteq LoadedRunners
        /\ runner'[x].proc = runner[x].proc \/ x \notin LoadedRunners'
    BY <1>5, ExpiredTable DEF Unentered
  <2> HIDE DEF x
  <2> QED
    BY <1>0, <2>1, <2>2 DEF Opened
<1>6. CASE UnloadAllRunners
  <2>1. /\ ctx' = "unloaded" /\ activeLoading' = None
        /\ \A x \in Runners : /\ runner'[x].options = runner[x].options
                              /\ runner'[x].proc \in {"closed", runner[x].proc}
    BY <1>0, <1>6 DEF UnloadAllRunners, RunnerRecord
  <2> QED
    BY <2>1 DEF Opened
<1> QED
  BY <1>1, <1>2, <1>3, <1>4, <1>5, <1>6, NextSteps

LEMMA OpenedAlways == Spec => []Opened
<1>1. Init => Opened
  BY DEF Init, Opened, NoRunner, LoadedRunners, Loaded
<1>2. (Typed /\ Loading /\ (Handing /\ ExpiringTyped) /\ Opened /\ [Next]_vars) => Opened'
  BY OpenedStep
<1> QED
  BY <1>1, <1>2, TypedAlways, LoadingAlways, HandingAlways, PTL DEF Spec

(* The state of the service, as the instance Service sees it.               *)
AskedNow == [q \in Requests |-> req[q].model]
FateNow == [q \in Requests |-> Fate(q)]
RepliesNow == [q \in Requests |-> req[q].replies]
UsingNow == [q \in Requests |-> Using(q)]
LeftNow == {q \in Requests : req[q].done}
LateNow == {q \in Requests : req[q].stale}
ServerNow == [x \in Runners |-> [model |-> runner[x].model, state |-> runner[x].proc]]
HaltedNow == ctx = "unloaded"

RequestsNow == <<AskedNow, FateNow, RepliesNow, UsingNow, LeftNow, LateNow>>

Implements == Service!Next \/ UNCHANGED Service!vars

LEMMA ServiceStutters ==
    ASSUME UNCHANGED RequestsNow, UNCHANGED ServerNow, UNCHANGED HaltedNow
    PROVE  Implements
BY DEF Implements, Service!vars, RequestsNow, AskedNow, FateNow, RepliesNow, UsingNow,
   LeftNow, LateNow, ServerNow, HaltedNow

LEMMA SameRequests == ASSUME UNCHANGED req PROVE UNCHANGED RequestsNow
BY DEF RequestsNow, AskedNow, FateNow, RepliesNow, UsingNow, LeftNow, LateNow, Fate, Using

LEMMA SameServers == ASSUME ServersKept PROVE UNCHANGED ServerNow
BY DEF ServersKept, ServerNow

(* A step that changes one request.                                         *)
LEMMA OneRequest ==
    ASSUME NEW q \in Requests, \A r \in Requests \ {q} : req'[r] = req[r]
    PROVE  /\ AskedNow' = [AskedNow EXCEPT ![q] = req'[q].model]
           /\ FateNow' = [FateNow EXCEPT ![q] = Fate(q)']
           /\ RepliesNow' = [RepliesNow EXCEPT ![q] = req'[q].replies]
           /\ UsingNow' = [UsingNow EXCEPT ![q] = Using(q)']
           /\ req'[q].done = req[q].done => LeftNow' = LeftNow
           /\ req'[q].done => LeftNow' = LeftNow \cup {q}
           /\ req'[q].stale = req[q].stale => LateNow' = LateNow
           /\ req'[q].stale => LateNow' = LateNow \cup {q}
<1>1. \A r \in Requests \ {q} : Fate(r)' = Fate(r) /\ Using(r)' = Using(r)
  BY DEF Fate, Using
<1>2. AskedNow' = [AskedNow EXCEPT ![q] = req'[q].model]
  BY DEF AskedNow
<1>3. FateNow' = [FateNow EXCEPT ![q] = Fate(q)']
  BY <1>1 DEF FateNow
<1>4. RepliesNow' = [RepliesNow EXCEPT ![q] = req'[q].replies]
  BY DEF RepliesNow
<1>5. UsingNow' = [UsingNow EXCEPT ![q] = Using(q)']
  BY <1>1 DEF UsingNow
<1>6. /\ req'[q].done = req[q].done => LeftNow' = LeftNow
      /\ req'[q].done => LeftNow' = LeftNow \cup {q}
  BY DEF LeftNow
<1>7. /\ req'[q].stale = req[q].stale => LateNow' = LateNow
      /\ req'[q].stale => LateNow' = LateNow \cup {q}
  BY DEF LateNow
<1> QED
  BY <1>2, <1>3, <1>4, <1>5, <1>6, <1>7

(* It stays as it is, for the service.                                      *)
LEMMA OneRequestSame ==
    ASSUME NEW q \in Requests, \A r \in Requests \ {q} : req'[r] = req[r],
           req'[q].model = req[q].model, Fate(q)' = Fate(q), Using(q)' = Using(q),
           req'[q].replies = req[q].replies, req'[q].done = req[q].done,
           req'[q].stale = req[q].stale
    PROVE  UNCHANGED RequestsNow
<1>1. AskedNow' = AskedNow /\ RepliesNow' = RepliesNow
  BY OneRequest DEF AskedNow, RepliesNow
<1>2. FateNow' = FateNow /\ UsingNow' = UsingNow
  BY OneRequest DEF FateNow, UsingNow
<1>3. LeftNow' = LeftNow /\ LateNow' = LateNow
  BY OneRequest
<1> QED
  BY <1>1, <1>2, <1>3 DEF RequestsNow

(* The states in which a request waits, and what is known then.             *)
Waiting == {"checking", "using", "enqueue", "queued", "loading"}

LEMMA WaitingMapped ==
    ASSUME Typed, RepliesCounted, NEW q \in Requests, req[q].state \in Waiting
    PROVE  Fate(q) = "waiting" /\ Using(q) = None /\ req[q].replies = 0
BY DEF Waiting, Fate, Using, RepliesCounted, Answered

LEMMA AskImplements ==
    ASSUME Typed, NEW q \in Requests, GetRunner(q) PROVE Service!Ask(q)
<1> USE DEF table, env
<1>1. PICK m \in Models, d \in KeepAlives :
        req' = [req EXCEPT
          ![q].model = m, ![q].keepAlive = d, ![q].runner = loaded[m],
          ![q].state = IF loaded[m] = None THEN "enqueue" ELSE "checking"]
  BY DEF GetRunner
<1>2. /\ req[q].state = "new" /\ req'[q].state \in Waiting /\ req'[q].model = m
      /\ req'[q].replies = req[q].replies /\ req'[q].done = req[q].done
      /\ req'[q].stale = req[q].stale
      /\ \A r \in Requests \ {q} : req'[r] = req[r]
  BY <1>1, Types DEF GetRunner, RequestRecord, Waiting
<1>3. Fate(q) = "new" /\ Fate(q)' = "waiting" /\ Using(q) = None /\ Using(q)' = None
  BY <1>2 DEF Fate, Using, Waiting
<1>4. /\ AskedNow' = [AskedNow EXCEPT ![q] = m]
      /\ FateNow' = [FateNow EXCEPT ![q] = "waiting"]
      /\ LeftNow' = LeftNow /\ LateNow' = LateNow
  BY <1>2, <1>3, OneRequest
<1>5. RepliesNow' = RepliesNow /\ UsingNow' = UsingNow
  <2>1. \A r \in Requests : req'[r].replies = req[r].replies /\ Using(r)' = Using(r)
    BY <1>2, <1>3 DEF Using
  <2> QED
    BY <2>1 DEF RepliesNow, UsingNow
<1>6. UNCHANGED ServerNow /\ UNCHANGED HaltedNow
  BY DEF GetRunner, ServerNow, HaltedNow
<1>7. FateNow[q] = "new"
  BY <1>3 DEF FateNow
<1> QED
  BY <1>4, <1>5, <1>6, <1>7
     DEF Service!Ask, AskedNow, FateNow, RepliesNow, UsingNow, LeftNow, LateNow, ServerNow, HaltedNow

LEMMA LeaveImplements ==
    ASSUME Typed, NEW q \in Requests, ContextDone(q) PROVE Service!Leave(q)
<1> USE DEF table, env
<1>1. /\ \A r \in Requests \ {q} : req'[r] = req[r]
      /\ req'[q].model = req[q].model /\ req'[q].state = req[q].state
      /\ req'[q].runner = req[q].runner
      /\ req'[q].replies = req[q].replies /\ req'[q].done
      /\ req'[q].stale = req[q].stale
  BY Types DEF ContextDone, RequestRecord
<1>2. Fate(q)' = Fate(q) /\ Using(q)' = Using(q)
  BY <1>1 DEF Fate, Using
<1>3. Fate(q) \in {"waiting", "served"}
  BY Types DEF ContextDone, RequestRecord, Fate
<1>4. AskedNow' = AskedNow /\ RepliesNow' = RepliesNow
  BY <1>1, OneRequest DEF AskedNow, RepliesNow
<1>5. FateNow' = FateNow /\ UsingNow' = UsingNow
  BY <1>1, <1>2, OneRequest DEF FateNow, UsingNow
<1>6. LeftNow' = LeftNow \cup {q} /\ LateNow' = LateNow
  BY <1>1, OneRequest
<1>7. UNCHANGED ServerNow /\ UNCHANGED HaltedNow
  BY DEF ContextDone, ServerNow, HaltedNow
<1>8. FateNow[q] \in {"waiting", "served"}
  BY <1>3 DEF FateNow
<1> QED
  BY <1>4, <1>5, <1>6, <1>7, <1>8
     DEF Service!Leave, AskedNow, FateNow, RepliesNow, UsingNow, LeftNow, LateNow, ServerNow, HaltedNow

(* A request that goes on waiting, in whatever state.                       *)
LEMMA WaitsOn ==
    ASSUME Typed, NEW q \in Requests, \A r \in Requests \ {q} : req'[r] = req[r],
           req[q].state \in Waiting, req'[q].state \in Waiting,
           req'[q].model = req[q].model, req'[q].replies = req[q].replies,
           req'[q].done = req[q].done, req'[q].stale = req[q].stale
    PROVE  UNCHANGED RequestsNow
<1>1. Fate(q)' = Fate(q) /\ Using(q)' = Using(q)
  BY DEF Waiting, Fate, Using
<1> QED
  BY <1>1, OneRequestSame

(* A failure is a refusal, whatever server it closes.                       *)
LEMMA FailImplements ==
    ASSUME Typed, RepliesCounted, NEW q \in Requests, Fail(q), req[q].state \in Waiting,
           UNCHANGED HaltedNow,
           UNCHANGED ServerNow \/ \E x \in Runners : Service!Unused(x) /\ Service!CloseOne(x)
    PROVE  Service!Refuse(q)
<1>1. Fate(q) = "waiting" /\ Using(q) = None /\ req[q].replies = 0
  BY WaitingMapped
<1>2. /\ \A r \in Requests \ {q} : req'[r] = req[r]
      /\ req'[q].state = "failed" /\ req'[q].model = req[q].model
      /\ req'[q].stale = req[q].stale /\ req'[q].done = req[q].done /\ req'[q].replies = 1
  BY <1>1, FailEffect DEF Typed
<1>3. Fate(q)' = "refused" /\ Using(q)' = None
  BY <1>2 DEF Fate, Using
<1>4. AskedNow' = AskedNow /\ LeftNow' = LeftNow /\ LateNow' = LateNow
  BY <1>2, OneRequest DEF AskedNow
<1>5. UsingNow' = UsingNow
  <2>1. UsingNow' = [UsingNow EXCEPT ![q] = Using(q)]
    BY <1>1, <1>2, <1>3, OneRequest
  <2> QED
    BY <2>1 DEF UsingNow
<1>6. /\ FateNow' = [FateNow EXCEPT ![q] = "refused"]
      /\ RepliesNow' = [RepliesNow EXCEPT ![q] = 1]
  BY <1>2, <1>3, OneRequest
<1>7. FateNow[q] = "waiting" /\ RepliesNow[q] = 0
  BY <1>1 DEF FateNow, RepliesNow
<1>8. Service!Answer(q, "refused")
  BY <1>6, <1>7 DEF Service!Answer, FateNow, RepliesNow
<1> QED
  BY <1>4, <1>5, <1>8
     DEF Service!Refuse, AskedNow, UsingNow, LeftNow, LateNow, ServerNow, HaltedNow

(* A request that waits is handed a runner of its model.                    *)
LEMMA GiveImplements ==
    ASSUME Typed, RepliesCounted, NEW q \in Requests, NEW x \in Runners,
           req[q].state \in Waiting, \A r \in Requests \ {q} : req'[r] = req[r],
           req'[q].state = "served", req'[q].runner = x, req'[q].model = req[q].model,
           req'[q].replies = req[q].replies + 1, req'[q].done = req[q].done,
           runner[x].model = req[q].model, UNCHANGED ServerNow, UNCHANGED HaltedNow
    PROVE  Service!Give(q, x)
<1>1. Fate(q) = "waiting" /\ req'[q].replies = 1 /\ req[q].replies = 0
  BY WaitingMapped
<1>2. Fate(q)' = "served" /\ Using(q)' = x
  BY DEF Fate, Using
<1>3. AskedNow' = AskedNow /\ LeftNow' = LeftNow
  BY OneRequest DEF AskedNow
<1>4. /\ FateNow' = [FateNow EXCEPT ![q] = "served"]
      /\ RepliesNow' = [RepliesNow EXCEPT ![q] = 1]
      /\ UsingNow' = [UsingNow EXCEPT ![q] = x]
  BY <1>1, <1>2, OneRequest
<1>5. FateNow[q] = "waiting" /\ RepliesNow[q] = 0 /\ ServerNow[x].model = AskedNow[q]
  BY <1>1 DEF FateNow, RepliesNow, ServerNow, AskedNow
<1>6. Service!Answer(q, "served")
  BY <1>4, <1>5 DEF Service!Answer, FateNow, RepliesNow
<1> QED
  BY <1>3, <1>4, <1>5, <1>6
     DEF Service!Give, AskedNow, UsingNow, LeftNow, ServerNow, HaltedNow

(* A request is done with: it was dropped from the queue, or has finished.  *)
LEMMA OverEffect ==
    ASSUME Typed, NEW q \in Requests, req' = [req EXCEPT ![q].state = "finished"]
    PROVE  /\ AskedNow' = AskedNow /\ RepliesNow' = RepliesNow
           /\ LeftNow' = LeftNow /\ LateNow' = LateNow
           /\ FateNow' = [FateNow EXCEPT ![q] = "over"]
           /\ UsingNow' = [UsingNow EXCEPT ![q] = None]
<1>1. /\ \A r \in Requests \ {q} : req'[r] = req[r]
      /\ req'[q].state = "finished" /\ req'[q].model = req[q].model
      /\ req'[q].replies = req[q].replies /\ req'[q].done = req[q].done
      /\ req'[q].stale = req[q].stale
  BY Types DEF RequestRecord
<1>2. Fate(q)' = "over" /\ Using(q)' = None
  BY <1>1 DEF Fate, Using
<1>3. AskedNow' = AskedNow /\ RepliesNow' = RepliesNow
  BY <1>1, OneRequest DEF AskedNow, RepliesNow
<1>4. /\ LeftNow' = LeftNow /\ LateNow' = LateNow
      /\ FateNow' = [FateNow EXCEPT ![q] = "over"]
      /\ UsingNow' = [UsingNow EXCEPT ![q] = None]
  BY <1>1, <1>2, OneRequest
<1> QED
  BY <1>3, <1>4

LEMMA FinishImplements ==
    ASSUME Typed, NEW q \in Requests, Finished(q) PROVE Service!Finish(q)
<1> USE DEF table, env
<1>1. req' = [req EXCEPT ![q].state = "finished"] /\ req[q].state = "served" /\ req[q].done
  BY DEF Finished
<1>2. FateNow[q] = "served" /\ q \in LeftNow
  BY <1>1 DEF FateNow, Fate, LeftNow
<1>3. UNCHANGED ServerNow
  BY FinishedEffect, SameServers DEF ServersKept
<1>4. UNCHANGED HaltedNow
  BY DEF Finished, HaltedNow
<1> QED
  BY <1>1, <1>2, <1>3, <1>4, OverEffect
     DEF Service!Finish, AskedNow, FateNow, RepliesNow, UsingNow, LeftNow, LateNow, ServerNow, HaltedNow

(* A server that may be handed out is of some model and has been started;   *)
(* it is up, or it has been unloaded, or the service has halted.            *)
LEMMA ServerGiven ==
    ASSUME Typed, Handing, Opened, NEW q \in Requests, NEW x \in Runners, Given(q, x)
    PROVE  /\ runner[x].model = req[q].model
           /\ runner[x].proc \in {"up", "closed"}
           /\ ~runner[x].options => runner[x].proc = "closed"
           /\ runner[x].options /\ runner[x].proc # "up" => ctx = "unloaded"
<1>1. ~Unentered(x)
  BY DEF Handing, UnenteredUnused
<1>2. runner[x].proc \in {"up", "closed"}
  BY <1>1, Types DEF Unentered, RunnerRecord
<1>3. runner[x].model = req[q].model /\ (runner[x].options => loaded[req[q].model] = x)
  BY DEF Handing, GivenTyped
<1>4. req[q].model \in Models
  BY Types DEF Given, GivenStates, Typed, RequestsTyped
<1>5. runner[x].options => x \in LoadedRunners
  BY <1>3, <1>4, Types DEF LoadedRunners, Loaded
<1> QED
  BY <1>2, <1>3, <1>5 DEF Opened

LEMMA UseImplements ==
    ASSUME Typed, RepliesCounted, Handing, StaleServed, Opened,
           NEW q \in Requests, NEW x \in Runners, UseLoadedRunner(q, x),
           req[q].state \in {"using", "queued"}, Given(q, x), UNCHANGED ctx
    PROVE  Service!Serve(q, x) \/ Service!ServeTooLate(q, x)
<1>1. /\ \A r \in Requests \ {q} : req'[r] = req[r]
      /\ req'[q].state = "served" /\ req'[q].runner = x /\ req'[q].model = req[q].model
      /\ req'[q].replies = req[q].replies + 1 /\ req'[q].done = req[q].done
      /\ req'[q].stale = ~runner[x].options
  BY Types DEF UseLoadedRunner, RequestRecord
<1>2. ServersKept
  BY UseLoadedRunnerEffect DEF Typed, ServersKept
<1>3. UNCHANGED ServerNow /\ UNCHANGED HaltedNow
  BY <1>2, SameServers DEF HaltedNow
<1>4. Service!Give(q, x)
  BY <1>1, <1>3, ServerGiven, GiveImplements DEF Waiting
<1>5. CASE runner[x].options
  <2>1. LateNow' = LateNow
    BY <1>1, <1>5, OneRequest, Types DEF StaleServed, RequestRecord
  <2>2. ServerNow[x].state = "up" \/ (HaltedNow /\ ServerNow[x].state = "closed")
    BY <1>5, ServerGiven DEF ServerNow, HaltedNow
  <2> QED
    BY <1>4, <2>1, <2>2 DEF Service!Serve, LateNow, ServerNow, HaltedNow
<1>6. CASE ~runner[x].options
  <2>1. LateNow' = LateNow \cup {q}
    BY <1>1, <1>6, OneRequest
  <2>2. ServerNow[x].state = "closed"
    BY <1>6, ServerGiven DEF ServerNow
  <2> QED
    BY <1>4, <2>1, <2>2 DEF Service!ServeTooLate, LateNow, ServerNow
<1> QED
  BY <1>5, <1>6

LEMMA ReadyImplements ==
    ASSUME Typed, RepliesCounted, Handing, Opened, NEW q \in Requests, LoaderReady(q),
           NEW x \in Runners, x = req[q].runner
    PROVE  Service!Serve(q, x)
<1> USE DEF table, env
<1>1. req[q].state = "loading" /\ x \in Runners /\ Given(q, x)
  BY Types DEF LoaderReady, Typed, RequestsTyped, Given, GivenStates
<1>2. /\ \A r \in Requests \ {q} : req'[r] = req[r]
      /\ req'[q].state = "served" /\ req'[q].runner = x /\ req'[q].model = req[q].model
      /\ req'[q].replies = req[q].replies + 1 /\ req'[q].done = req[q].done
      /\ req'[q].stale = req[q].stale
  BY <1>1, Types DEF LoaderReady, RequestRecord
<1>3. Quiet
  BY DEF Quiet, Loader
<1>4. UNCHANGED ServerNow /\ UNCHANGED HaltedNow
  BY <1>3, QuietServers, SameServers DEF LoaderReady, HaltedNow
<1>5. Service!Give(q, x)
  BY <1>1, <1>2, <1>4, ServerGiven, GiveImplements DEF Waiting
<1>6. LateNow' = LateNow
  BY <1>2, OneRequest
<1>7. x \in LoadedRunners
  <2>1. loaded[req[q].model] = x /\ req[q].model \in Models
    BY <1>1 DEF Handing, LoadersHold, Typed, RequestsTyped
  <2> QED
    BY <1>1, <2>1, Types DEF LoadedRunners, Loaded
<1>8. ServerNow[x].state = "up" \/ (HaltedNow /\ ServerNow[x].state = "closed")
  BY <1>1, <1>7, ServerGiven DEF Opened, ServerNow, HaltedNow
<1> QED
  BY <1>5, <1>6, <1>8 DEF Service!Serve, LateNow, ServerNow, HaltedNow

(* The end of one server, used or not.                                      *)
LEMMA CloseOneServer ==
    ASSUME NEW x \in Runners, \A y \in Runners \ {x} : runner'[y] = runner[y],
           runner'[x].model = runner[x].model,
           runner[x].proc = "up", runner'[x].proc = "closed"
    PROVE  Service!CloseOne(x)
<1>1. ServerNow' = [ServerNow EXCEPT ![x].state = "closed"]
  BY DEF ServerNow
<1>2. x \in {y \in Runners : ServerNow[y].state = "up"}
  BY DEF ServerNow
<1> QED
  BY <1>1, <1>2 DEF Service!CloseOne, Service!Up, ServerNow

LEMMA UnusedServer ==
    ASSUME NEW x \in Runners, Users(x) = {} PROVE Service!Unused(x)
<1>1. \A q \in Requests : UsingNow[q] # x
  BY NoneAssumption DEF Users, UsingNow, Using
<1> QED
  BY <1>1 DEF Service!Unused, UsingNow

(* The server being loaded is nobody's yet.                                 *)
LEMMA CloseActiveImplements ==
    ASSUME Typed, Handing, Opened, CloseActive
    PROVE  \E x \in Runners : Service!Unused(x) /\ Service!CloseOne(x)
<1>1. PICK x \in Runners : x = activeLoading
  BY Types DEF CloseActive
<1>2. /\ \A y \in Runners \ {x} : runner'[y] = runner[y]
      /\ runner'[x].model = runner[x].model
      /\ runner'[x].proc = "closed"
  BY <1>1, Types, CloseActiveEffect DEF RunnersKept
<1>3. runner[x].proc = "up"
  BY <1>1, NoneAssumption DEF Opened
<1>4. Users(x) = {}
  BY <1>1 DEF Handing, UnenteredUnused, Unentered, Users, Given, GivenStates
<1> QED
  BY <1>2, <1>3, <1>4, CloseOneServer, UnusedServer

LEMMA TakeImplements ==
    ASSUME Typed, TakePending PROVE Implements
<1> USE DEF table, env
<1> DEFINE q == Head(pendingReqCh)
<1>1. q \in Requests /\ req[q].state = "queued"
  <2>1. pendingReqCh \in Seq(Requests) /\ pendingReqCh # <<>>
    BY DEF TakePending, Typed, TypeOK
  <2>2. 1 \in 1 .. Len(pendingReqCh) /\ q = pendingReqCh[1] /\ q \in Requests
    BY <2>1
  <2> QED
    BY <2>2 DEF Typed, QueueDistinct
<1>2. UNCHANGED ServerNow /\ UNCHANGED HaltedNow
  BY DEF TakePending, ServerNow, HaltedNow
<1>3. CASE UNCHANGED req
  BY <1>2, <1>3, SameRequests, ServiceStutters
<1>4. CASE req[q].done /\ req' = [req EXCEPT ![q].state = "finished"]
  <2> HIDE DEF q
  <2>1. FateNow[q] = "waiting" /\ q \in LeftNow
    BY <1>1, <1>4 DEF FateNow, Fate, LeftNow
  <2>2. UsingNow' = UsingNow
    <3>1. UsingNow[q] = None /\ UsingNow' = [UsingNow EXCEPT ![q] = None]
      BY <1>1, <1>4, OverEffect DEF UsingNow, Using
    <3> QED
      BY <3>1 DEF UsingNow
  <2>3. Service!Drop(q)
    BY <1>1, <1>2, <1>4, <2>1, <2>2, OverEffect
       DEF Service!Drop, AskedNow, FateNow, RepliesNow, UsingNow, LeftNow, LateNow, ServerNow, HaltedNow
  <2> QED
    BY <1>1, <2>3 DEF Implements, Service!Next
<1> QED
  BY <1>3, <1>4 DEF TakePending

(* The instance counts as this module does.                                 *)
LEMMA SameCardinality == \A S : Service!Cardinality(S) = Cardinality(S)
BY DEF Service!Cardinality, Cardinality

(* A server is started while a slot is free and no server of its model is   *)
(* up: the one being loaded would be in activeLoading.                      *)
LEMMA StartImplements ==
    ASSUME Typed, Loading, Handing, LoadStart, activeLoading = None, ~UNCHANGED runner
    PROVE  Implements
<1>0. /\ runner \in [Runners -> RunnerRecord] /\ loaded \in [Models -> Runners \cup {None}]
      /\ p.pc = "load" /\ p.cur \in Requests /\ req[p.cur].state = "queued"
      /\ req[p.cur].model \in Models /\ None \notin Runners
  BY Types DEF LoadStart
<1>1. PICK x \in Runners :
        /\ runner[x].proc = "none"
        /\ runner' = [runner EXCEPT ![x] = StartedRunner(req[p.cur].model)]
        /\ UNCHANGED <<req, ctx>>
  BY StartEffect
<1>2. ServerNow' = [ServerNow EXCEPT ![x] = [model |-> AskedNow[p.cur], state |-> "up"]]
  <2>1. /\ runner'[x].model = req[p.cur].model /\ runner'[x].proc = "up"
        /\ \A y \in Runners \ {x} : runner'[y] = runner[y]
    BY <1>0, <1>1 DEF StartedRunner, NoRunner
  <2> QED
    BY <1>0, <2>1 DEF ServerNow, AskedNow
<1>3. Service!Up \subseteq LoadedRunners
  BY <1>0 DEF Loading, ServersTracked, Service!Up
<1>4. Cardinality(Service!Up) < MaxRunners
  <2> DEFINE f == [m \in Loaded |-> loaded[m]]
             Up == Service!Up
  <2>1. f \in Surjection(Loaded, LoadedRunners)
    BY DEF LoadedRunners, Surjection
  <2>2. IsFiniteSet(Loaded) /\ IsFiniteSet(LoadedRunners)
    BY LoadedFinite DEF Typed
  <2>3. Cardinality(LoadedRunners) <= Cardinality(Loaded)
    BY <2>1, <2>2, FS_Surjection
  <2>4. IsFiniteSet(Up) /\ Cardinality(Up) <= Cardinality(LoadedRunners)
    BY <1>3, <2>2, FS_Subset
  <2>5. Cardinality(Loaded) < MaxRunners
    BY <1>0 DEF Loading, SlotReserved
  <2>6. Cardinality(Up) \in Nat /\ Cardinality(Loaded) \in Nat /\ Cardinality(LoadedRunners) \in Nat
    BY <2>2, <2>4, FS_CardinalityType
  <2> HIDE DEF Up
  <2> QED
    BY <2>3, <2>4, <2>5, <2>6, MaxRunnersAssumption DEF Up
<1>5. \A y \in Service!Up : ServerNow[y].model # AskedNow[p.cur]
  <2> SUFFICES ASSUME NEW y \in Service!Up PROVE ServerNow[y].model # AskedNow[p.cur]
    OBVIOUS
  <2>1. PICK m \in Loaded : y = loaded[m]
    BY <1>3 DEF LoadedRunners
  <2>2. runner[y].model = m /\ loaded[m] # None
    BY <2>1 DEF Handing, LoadedTyped, Loaded
  <2>3. loaded[req[p.cur].model] = None
    BY <1>0 DEF Loading, SlotReserved
  <2> QED
    BY <1>0, <2>1, <2>2, <2>3 DEF ServerNow, AskedNow, Loaded
<1>6. FateNow[p.cur] = "waiting" /\ ServerNow[x].state = "none"
  BY <1>0, <1>1 DEF FateNow, Fate, ServerNow
<1>7. UNCHANGED RequestsNow /\ UNCHANGED HaltedNow
  BY <1>1, SameRequests DEF HaltedNow
<1>8. PICK q \in Requests : q = p.cur
  BY <1>0
<1>9. Service!Start(x)
  BY <1>2, <1>4, <1>5, <1>6, <1>7, <1>8, SameCardinality
     DEF Service!Start, RequestsNow, AskedNow, FateNow, RepliesNow, UsingNow, LeftNow, LateNow,
         ServerNow, HaltedNow
<1> QED
  BY <1>9 DEF Implements, Service!Next

LEMMA LoadStartImplements ==
    ASSUME Typed, Loading, Handing, RepliesCounted, LoadStart PROVE Implements
<1>1. p.pc = "load" /\ p.cur \in Requests /\ req[p.cur].state = "queued" /\ UNCHANGED HaltedNow
  BY Types DEF LoadStart, env, HaltedNow
<1>2. CASE UNCHANGED <<runner, req>>
  <2>1. UNCHANGED ServerNow
    BY <1>2 DEF ServerNow
  <2> QED
    BY <1>1, <1>2, <2>1, SameRequests, ServiceStutters
<1>3. CASE UNCHANGED runner /\ Fail(p.cur)
  <2>1. UNCHANGED ServerNow
    BY <1>3 DEF ServerNow
  <2>2. PICK q \in Requests : q = p.cur
    BY <1>1
  <2>3. Service!Refuse(q)
    BY <1>1, <1>3, <2>1, <2>2, FailImplements DEF Waiting
  <2> QED
    BY <2>3 DEF Implements, Service!Next
<1>4. CASE activeLoading = None /\ ~UNCHANGED runner
  BY <1>4, StartImplements
<1>5. \/ UNCHANGED <<runner, req>>
      \/ UNCHANGED runner /\ Fail(p.cur)
      \/ activeLoading = None /\ ~UNCHANGED runner
  BY DEF LoadStart
<1> QED
  BY <1>2, <1>3, <1>4, <1>5

LEMMA InstallImplements ==
    ASSUME Typed, Loading, Handing, Install PROVE Implements
<1> DEFINE x == p.llama
<1>1. PICK q \in Requests : q = p.cur
  BY InstallEffect
<1>2. /\ req[q].state = "queued" /\ req'[q].state = "loading"
      /\ \A r \in Requests \ {q} : req'[r] = req[r]
  BY <1>1, InstallEffect
<1>3. /\ req'[q].model = req[q].model /\ req'[q].replies = req[q].replies
      /\ req'[q].done = req[q].done /\ req'[q].stale = req[q].stale
  <2>1. req' = [req EXCEPT ![q].state = "loading", ![q].runner = x]
    BY <1>1 DEF Install
  <2>2. req \in [Requests -> RequestRecord]
    BY Types
  <2> HIDE DEF x
  <2> QED
    BY <2>1, <2>2 DEF RequestRecord
<1>4. UNCHANGED RequestsNow
  BY <1>2, <1>3, WaitsOn DEF Waiting
<1>5. ServersKept
  BY InstallEffect DEF ServersKept
<1> QED
  BY <1>4, <1>5, SameServers, ServiceStutters, InstallEffect DEF HaltedNow

(* A load that ends without a runner: the server is closed, unless another  *)
(* model is to be evicted first, and the request refused or tried again.    *)
LEMMA LoadEndImplements ==
    ASSUME Typed, Handing, RepliesCounted, Opened, LoadNoFit \/ LoadError PROVE Implements
<1>1. PICK q \in Requests : q = p.cur
  BY Types DEF LoadNoFit, LoadError
<1>2. req[q].state = "queued" /\ UNCHANGED HaltedNow
  BY <1>1, Types DEF LoadNoFit, LoadError, env, HaltedNow
<1>3. CASE UNCHANGED <<runner, req>>
  <2>1. UNCHANGED ServerNow
    BY <1>3 DEF ServerNow
  <2> QED
    BY <1>2, <1>3, <2>1, SameRequests, ServiceStutters
<1>4. CASE CloseActive /\ Fail(q)
  <2>1. Service!Refuse(q)
    BY <1>2, <1>4, CloseActiveImplements, FailImplements DEF Waiting
  <2> QED
    BY <2>1 DEF Implements, Service!Next
<1>5. CASE CloseActive /\ req' = [req EXCEPT ![q].oomRetried = TRUE]
  <2>1. /\ \A r \in Requests \ {q} : req'[r] = req[r]
        /\ req'[q].state = req[q].state /\ req'[q].model = req[q].model
        /\ req'[q].replies = req[q].replies
        /\ req'[q].done = req[q].done /\ req'[q].stale = req[q].stale
    BY <1>5, Types DEF RequestRecord
  <2>2. UNCHANGED RequestsNow
    BY <1>2, <2>1, WaitsOn DEF Waiting
  <2>3. PICK x \in Runners : Service!Unused(x) /\ Service!CloseOne(x)
    BY <1>5, CloseActiveImplements
  <2>4. Service!Close(x)
    BY <1>2, <2>2, <2>3
       DEF Service!Close, RequestsNow, AskedNow, FateNow, RepliesNow, UsingNow, LeftNow, LateNow, HaltedNow
  <2> QED
    BY <2>4 DEF Implements, Service!Next
<1>6. \/ UNCHANGED <<runner, req>>
      \/ CloseActive /\ Fail(q)
      \/ CloseActive /\ req' = [req EXCEPT ![q].oomRetried = TRUE]
  BY <1>1 DEF LoadNoFit, LoadError
<1> QED
  BY <1>3, <1>4, <1>5, <1>6

(* A server is closed for an expired event only when nobody uses it, or     *)
(* after a request was handed an unloaded runner.                           *)
LEMMA ExpiredImplements ==
    ASSUME Typed, Loading, Handing, ExpiringTyped, Counting, FewUsers, Opened, Expired
    PROVE  Implements
<1>1. PICK x \in Runners : x = Head(expiredCh)
  BY ExpiredEffect
<1>2. /\ UNCHANGED <<req, ctx>>
      /\ \A y \in Runners \ {x} : runner'[y] = runner[y]
      /\ runner'[x].model = runner[x].model
      /\ runner'[x].proc \in {runner[x].proc, "closed"}
  BY <1>1, ExpiredEffect
<1>3. UNCHANGED RequestsNow /\ UNCHANGED HaltedNow
  BY <1>2, SameRequests DEF HaltedNow
<1>4. CASE runner'[x].proc = runner[x].proc
  <2>1. UNCHANGED ServerNow
    BY <1>2, <1>4 DEF ServerNow
  <2> QED
    BY <1>3, <2>1, ServiceStutters
<1>5. CASE runner'[x].proc = "closed" /\ runner[x].proc # "closed"
  <2>1. runner[x].proc = "up"
    <3>1. ~Unentered(x)
      BY <1>1, ExpiredTable
    <3> QED
      BY <1>5, <3>1, Types DEF Unentered, RunnerRecord
  <2>2. Service!CloseOne(x)
    BY <1>2, <1>5, <2>1, CloseOneServer
  <2>3. Service!Unused(x) \/ LateNow # {} \/ HaltedNow
    <3>1. CASE NoStale /\ ctx # "unloaded"
      <4>1. InUseStaysOpen(x)
        BY <3>1, ClosedUnused DEF Next, ProcessCompleted
      <4> QED
        BY <1>2, <1>5, <2>1, <3>1, <4>1, UnusedServer DEF InUseStaysOpen
    <3>2. CASE ~NoStale
      BY <3>2 DEF NoStale, LateNow
    <3> QED
      BY <3>1, <3>2 DEF HaltedNow
  <2>4. Service!Close(x)
    BY <1>3, <2>2, <2>3
       DEF Service!Close, RequestsNow, AskedNow, FateNow, RepliesNow, UsingNow, LeftNow, LateNow, HaltedNow
  <2> QED
    BY <2>4 DEF Implements, Service!Next
<1> QED
  BY <1>2, <1>4, <1>5

LEMMA HaltImplements ==
    ASSUME Typed, Loading, Opened, UnloadAllRunners PROVE Service!Halt
<1> DEFINE Gone == LoadedRunners \cup {activeLoading}
<1>1. /\ ctx = "done" /\ HaltedNow' = TRUE
      /\ runner' = [x \in Runners |-> IF x \in Gone THEN [runner[x] EXCEPT !.proc = "closed"]
                                      ELSE runner[x]]
      /\ UNCHANGED req
  BY DEF UnloadAllRunners, HaltedNow
<1>2. \A x \in Runners : x \in Gone <=> runner[x].proc = "up"
  BY <1>1, Types DEF Opened, Loading, ServersTracked
<1>3. \A x \in Runners : x \in Service!Up <=> runner[x].proc = "up"
  BY DEF Service!Up
<1>4. \A x \in Runners : ServerNow'[x] = IF x \in Service!Up
                                        THEN [ServerNow[x] EXCEPT !.state = "closed"]
                                        ELSE ServerNow[x]
  <2> HIDE DEF Gone
  <2> TAKE x \in Runners
  <2>1. CASE runner[x].proc = "up"
    BY <1>1, <1>2, <1>3, <2>1, Types DEF ServerNow, RunnerRecord
  <2>2. CASE runner[x].proc # "up"
    BY <1>1, <1>2, <1>3, <2>2 DEF ServerNow
  <2> QED
    BY <2>1, <2>2
<1>5. ServerNow' = [x \in Runners |-> IF x \in Service!Up
                                     THEN [ServerNow[x] EXCEPT !.state = "closed"]
                                     ELSE ServerNow[x]]
  BY <1>4 DEF ServerNow
<1>6. UNCHANGED RequestsNow
  BY <1>1, SameRequests
<1> QED
  BY <1>1, <1>5, <1>6
     DEF Service!Halt, RequestsNow, AskedNow, FateNow, RepliesNow, UsingNow, LeftNow, LateNow,
         ServerNow, HaltedNow

LEMMA RequestImplements ==
    ASSUME Typed, RepliesCounted, Handing, StaleServed, Opened, NEW q \in Requests,
           Handler(q) \/ ContextDone(q) \/ Loader(q) \/ Finished(q)
    PROVE  Implements
<1> USE DEF table, chans, env
<1>0. /\ req \in [Requests -> RequestRecord] /\ Quiet
      /\ UNCHANGED ServerNow
  <2>1. Quiet
    BY DEF Quiet
  <2> QED
    BY <2>1, Types, QuietServers, SameServers
<1>1. CASE GetRunner(q)
  BY <1>1, AskImplements DEF Implements, Service!Next
<1>2. CASE CheckRunner(q)
  <2>1. /\ \A r \in Requests \ {q} : req'[r] = req[r]
        /\ req[q].state = "checking" /\ req'[q].state \in {"enqueue", "using"}
        /\ req'[q].model = req[q].model /\ req'[q].replies = req[q].replies
        /\ req'[q].done = req[q].done /\ req'[q].stale = req[q].stale
    BY <1>0, <1>2 DEF CheckRunner, RequestRecord
  <2>2. UNCHANGED RequestsNow
    BY <2>1, WaitsOn DEF Waiting
  <2> QED
    BY <1>0, <1>2, <2>2, ServiceStutters DEF CheckRunner, HaltedNow
<1>3. CASE UseRunner(q)
  <2>1. PICK x \in Runners : x = req[q].runner
    BY <1>3 DEF UseRunner, Typed, RequestsTyped
  <2>2. UseLoadedRunner(q, x) /\ req[q].state = "using" /\ Given(q, x) /\ UNCHANGED ctx
    BY <1>3, <2>1 DEF UseRunner, Given, GivenStates
  <2>3. Service!Serve(q, x) \/ Service!ServeTooLate(q, x)
    BY <2>2, UseImplements
  <2> QED
    BY <2>3 DEF Implements, Service!Next
<1>4. CASE Enqueue(q)
  <2>1. req[q].state = "enqueue" /\ UNCHANGED HaltedNow
    BY <1>4 DEF Enqueue, HaltedNow
  <2>2. CASE Fail(q)
    BY <1>0, <2>1, <2>2, FailImplements DEF Waiting, Implements, Service!Next
  <2>3. CASE req' = [req EXCEPT ![q].state = "queued"]
    <3>1. /\ \A r \in Requests \ {q} : req'[r] = req[r]
          /\ req'[q].state = "queued"
          /\ req'[q].model = req[q].model /\ req'[q].replies = req[q].replies
          /\ req'[q].done = req[q].done /\ req'[q].stale = req[q].stale
      BY <1>0, <2>3 DEF RequestRecord
    <3>2. UNCHANGED RequestsNow
      BY <2>1, <3>1, WaitsOn DEF Waiting
    <3> QED
      BY <1>0, <2>1, <3>2, ServiceStutters
  <2> QED
    BY <1>4, <2>2, <2>3 DEF Enqueue
<1>5. CASE ContextDone(q)
  BY <1>5, LeaveImplements DEF Implements, Service!Next
<1>6. CASE LoaderReady(q)
  <2>1. PICK x \in Runners : x = req[q].runner
    BY <1>6 DEF LoaderReady, Typed, RequestsTyped
  <2>2. Service!Serve(q, x)
    BY <1>6, <2>1, ReadyImplements
  <2> QED
    BY <2>2 DEF Implements, Service!Next
<1>7. CASE LoaderFailed(q)
  <2>1. req[q].state = "loading" /\ UNCHANGED HaltedNow /\ Fail(q)
    BY <1>7 DEF LoaderFailed, HaltedNow
  <2> QED
    BY <1>0, <2>1, FailImplements DEF Waiting, Implements, Service!Next
<1>8. CASE Finished(q)
  BY <1>8, FinishImplements DEF Implements, Service!Next
<1> QED
  BY <1>1, <1>2, <1>3, <1>4, <1>5, <1>6, <1>7, <1>8 DEF Handler, Loader

LEMMA QuietImplements ==
    ASSUME Typed, RepliesCounted, Handing, StaleServed, Opened, Quiet
    PROVE  Implements
<1> USE DEF chans, env
<1>1. CASE \E q \in Requests : Handler(q) \/ ContextDone(q) \/ Loader(q) \/ Finished(q)
  BY <1>1, RequestImplements
<1>2. CASE TakePending
  BY <1>2, TakeImplements
<1>3. CASE UseLoaded
  <2>1. PICK x \in p.targets : UseLoadedRunner(p.cur, x)
    BY <1>3 DEF UseLoaded
  <2>2. x \in Runners
    BY Types DEF PendingRecord
  <2>3. PICK q \in Requests : q = p.cur
    BY <1>3, Types DEF UseLoaded
  <2>4. UseLoadedRunner(q, x) /\ req[q].state = "queued" /\ Given(q, x) /\ UNCHANGED ctx
    BY <1>3, <2>1, <2>3, Types DEF UseLoaded, Given
  <2>5. Service!Serve(q, x) \/ Service!ServeTooLate(q, x)
    BY <2>2, <2>4, UseImplements
  <2> QED
    BY <2>2, <2>5 DEF Implements, Service!Next
<1>4. CASE UNCHANGED req
  <2>1. UNCHANGED ServerNow /\ UNCHANGED HaltedNow
    BY QuietServers, SameServers, QuietContext DEF HaltedNow
  <2> QED
    BY <1>4, <2>1, SameRequests, ServiceStutters
<1>5. \/ \E q \in Requests : Handler(q) \/ ContextDone(q) \/ Loader(q) \/ Finished(q)
      \/ TakePending \/ UseLoaded \/ UNCHANGED req
  <2>1. CASE \/ IgnoreUnloaded \/ Snapshot \/ CheckLoaded \/ FindRunnerToUnload \/ EvictAll
             \/ ExpireTarget \/ WaitUnloaded \/ LoadErrorAfterShutdown \/ StopPending
             \/ Recovered \/ StopCompleted
    BY <2>1 DEF IgnoreUnloaded, Snapshot, CheckLoaded, FindRunnerToUnload, EvictAll,
       ExpireTarget, WaitUnloaded, LoadErrorAfterShutdown, StopPending, Recovered, StopCompleted
  <2>2. CASE (\E x \in Runners : Timers(x)) \/ Api \/ Shutdown \/ UNCHANGED vars
    BY <2>2 DEF Timers, TimerFires, TimerCallback, Requeue, Api, RuntimeOOM, ExpireModel,
       ApiExpire, Shutdown, vars
  <2> QED
    BY <2>1, <2>2 DEF Quiet
<1> QED
  BY <1>1, <1>2, <1>3, <1>4, <1>5

LEMMA NextImplements ==
    ASSUME Typed, Loading, Handing, ExpiringTyped, RepliesCounted, Counting, FewUsers, Opened,
           [Next]_vars
    PROVE  [Service!Next]_Service!vars
<1>1. StaleServed
  BY DEF Counting
<1>2. CASE UnloadAllRunners
  BY <1>2, HaltImplements DEF Service!Next
<1>3. CASE Quiet \/ LoadStart \/ Install \/ LoadNoFit \/ LoadError \/ Expired
  <2>1. Implements
    BY <1>1, <1>3, QuietImplements, LoadStartImplements, InstallImplements, LoadEndImplements,
       ExpiredImplements
  <2> QED
    BY <2>1 DEF Implements
<1> QED
  BY <1>2, <1>3, NextSteps

LEMMA ServiceInit == Init => Service!Init
<1> SUFFICES ASSUME Init PROVE Service!Init
  OBVIOUS
<1>1. \A q \in Requests : /\ req[q].model = None /\ Fate(q) = "new" /\ req[q].replies = 0
                          /\ Using(q) = None /\ ~req[q].done /\ ~req[q].stale
  BY DEF Init, NoRequest, Fate, Using
<1>2. \A x \in Runners : runner[x].model = None /\ runner[x].proc = "none"
  BY DEF Init, NoRunner
<1>3. ctx # "unloaded"
  BY DEF Init
<1> QED
  BY <1>1, <1>2, <1>3 DEF Service!Init

(* Scheduler implements ModelService, under the proviso of the counts: a    *)
(* request is answered at most once, by a server of its model; a server is  *)
(* started for a waiting request, when none of its model and fewer than     *)
(* OLLAMA_MAX_LOADED_MODELS are up; none is closed in use before a request  *)
(* was handed an unloaded runner or the shutdown goroutine closed them all. *)
THEOREM SchedulerIsService == Spec /\ []FewUsers => IsModelService
<1>1. Init => RepliesCounted
  BY DEF Init, RepliesCounted, NoRequest
<1>2. RepliesCounted /\ Typed /\ [Next]_vars => RepliesCounted'
  BY RepliesStep
<1>3. Spec => []RepliesCounted
  BY <1>1, <1>2, TypedAlways, PTL DEF Spec
<1>4. (/\ Typed /\ Loading /\ (Handing /\ ExpiringTyped) /\ RepliesCounted
       /\ Counting /\ FewUsers /\ Opened /\ [Next]_vars)
        => [Service!Next]_Service!vars
  BY NextImplements
<1> QED
  BY <1>3, <1>4, ServiceInit, TypedAlways, LoadingAlways, HandingAlways, CountingAlways,
     OpenedAlways, PTL DEF Spec, IsModelService, Service!Spec
=============================================================================
