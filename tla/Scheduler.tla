------------------------------ MODULE Scheduler ------------------------------
(***************************************************************************)
(* The model scheduler of server/sched.go.                                 *)
(*                                                                         *)
(* HTTP handlers call getRunner, which either hands out a loaded runner    *)
(* on a fast path or queues the request on pendingReqCh.  One goroutine    *)
(* (processPending, the record p) loads models and evicts runners to make  *)
(* room; another (processCompleted, the record c) counts references down,  *)
(* expires idle runners and unloads them.  Around them run one goroutine   *)
(* per load, keep-alive timers, re-queued expirations and the API calls    *)
(* that expire models.                                                     *)
(*                                                                         *)
(* A step is one critical section (of loadedMu or of a runner's refMu) or  *)
(* one channel operation.  A refMu section that neither blocks nor spans   *)
(* two steps is atomic; the two that do span steps, the load goroutine and *)
(* the wait for VRAM recovery, hold runner[x].refMu explicitly.            *)
(***************************************************************************)
EXTENDS Naturals, Sequences, FiniteSets

CONSTANTS
    Requests,         \* the calls of getRunner
    Models,           \* the scheduler keys (schedulerModelKey) requests name
    Runners,          \* identities of runnerRefs; a bound on the number of loads
    None,             \* Go's nil
    MaxRunners,       \* OLLAMA_MAX_LOADED_MODELS, or its default once computed
    MaxQueue,         \* OLLAMA_MAX_QUEUE, the capacity of pendingReqCh
    RefCountMod,      \* 2^w of the unsigned refCount
    KeepAlives,       \* the keep_alive values requests carry
    DefaultKeepAlive, \* OLLAMA_KEEP_ALIVE
    MaxExpireCalls,   \* bound: API calls that expire runners
    ShutdownAllowed   \* whether the server may receive SIGINT or SIGTERM

(* A session duration, by what the scheduler does with it.                 *)
Zero == 0     \* expire as soon as idle
Finite == 1   \* expire when the timer fires
Forever == 2  \* a negative keep_alive becomes math.MaxInt64: never fires
Unset == 3    \* the request carries no keep_alive
Durations == {Zero, Finite, Forever}

ASSUME NoneAssumption ==
    None \notin Runners /\ None \notin Requests /\ None \notin Models
ASSUME MaxRunnersAssumption == MaxRunners \in Nat \ {0}
ASSUME QueueAssumption == MaxQueue \in Nat
ASSUME RefCountAssumption == RefCountMod \in Nat \ {0, 1}
ASSUME KeepAliveAssumption ==
    KeepAlives \subseteq Durations \cup {Unset} /\ DefaultKeepAlive \in Durations
ASSUME BudgetAssumption == MaxExpireCalls \in Nat /\ ShutdownAllowed \in BOOLEAN
ASSUME FiniteAssumption == IsFiniteSet(Models)

VARIABLES
    loaded,         \* s.loaded: the runner of each model, or None
    activeLoading,  \* s.activeLoading
    runner,         \* the runnerRefs and the goroutines each one has started
    req,            \* the LlmRequests and their handlers
    pendingReqCh,   \* queued requests
    expiredCh,      \* runners to unload
    unloadedCh,     \* number of unload events not yet received
    p,              \* processPending
    c,              \* processCompleted
    api,            \* handlers that expire runners
    ctx             \* the scheduler's context and the shutdown goroutine

vars == <<loaded, activeLoading, runner, req, pendingReqCh, expiredCh,
          unloadedCh, p, c, api, ctx>>

table == <<loaded, activeLoading>>
chans == <<pendingReqCh, expiredCh, unloadedCh>>
env == <<api, ctx>>

-----------------------------------------------------------------------------
(* runner[x]: refCount, sessionDuration, whether expireTimer is armed, how  *)
(* many timer callbacks wait for refMu, how many re-queued expirations are  *)
(* asleep, whether Options is non-nil (unload() clears it), the state of    *)
(* the llama server process as the scheduler left it, and who holds refMu   *)
(* across steps.                                                            *)
NoRunner == [model |-> None, refCount |-> 0, duration |-> Zero, armed |-> FALSE,
             callbacks |-> 0, retries |-> 0, options |-> FALSE,
             proc |-> "none", refMu |-> "free"]

NoRequest == [state |-> "new", model |-> None, keepAlive |-> Unset,
              runner |-> None, oomRetried |-> FALSE, replies |-> 0,
              done |-> FALSE, stale |-> FALSE]

PendingIdle == [pc |-> "idle", cur |-> None, full |-> FALSE, llama |-> None,
                targets |-> {}, todo |-> {}, need |-> 0, evicting |-> FALSE]

CompletedIdle == [pc |-> "idle", runner |-> None]

Loaded == {m \in Models : loaded[m] # None}
LoadedRunners == {loaded[m] : m \in Loaded}
Free(x) == runner[x].refMu = "free"
Fresh == {x \in Runners : runner[x].proc = "none"}

(* Seeded fault: an off-by-one takes a runner with one user for idle.       *)
IdleOffByOne(x) == runner[x].refCount <= 1

(* runner.refCount <= 0, for an unsigned count.                             *)
Idle(x) == runner[x].refCount = 0

(* needsReload under refMu.  Whether the request's options equal the        *)
(* runner's and whether Ping answers is data the model does not carry, so   *)
(* both answers are possible as long as Options is set; once unload() has   *)
(* run, the answer is TRUE.                                                 *)
NeedsReload(x) == IF runner[x].options THEN BOOLEAN ELSE {TRUE}

(* Seeded fault: unload forgets to close the server.                        *)
UnloadKeepsServer(r) == [r EXCEPT !.armed = FALSE, !.options = FALSE]

(* runnerRef.unload, as a change of the runner record.                      *)
Unload(r) == [r EXCEPT !.armed = FALSE, !.proc = "closed", !.options = FALSE]

(* Seeded fault: the error is logged but not sent to the handler.           *)
FailSilently(q) == req' = [req EXCEPT ![q].state = "failed"]

(* req.errCh <- err                                                         *)
Fail(q) == req' = [req EXCEPT ![q].state = "failed", ![q].replies = @ + 1]

(* Seeded fault: the reference is not counted.                              *)
NotReferenced(n) == n

(* runner.refCount++, unsigned.                                             *)
Referenced(n) == (n + 1) % RefCountMod

(* useLoadedRunner.  Nothing checks that the runner is still loaded; the    *)
(* field "stale" remembers whether it was not.                              *)
UseLoadedRunner(q, x) ==
    /\ Free(x)
    /\ runner' = [runner EXCEPT
         ![x].refCount = Referenced(@),
         ![x].armed = FALSE,
         ![x].duration = IF req[q].keepAlive = Unset THEN @ ELSE req[q].keepAlive]
    /\ req' = [req EXCEPT ![q].state = "served", ![q].runner = x,
                          ![q].replies = @ + 1, ![q].stale = ~runner[x].options]

(* Seeded fault: the timer is stopped and nobody is told.                   *)
ExpireNowSilently(x) ==
    /\ Free(x)
    /\ runner' = [runner EXCEPT ![x].armed = FALSE, ![x].duration = Zero]
    /\ UNCHANGED expiredCh

(* The refMu section that expires a runner to make room or on request:      *)
(* stop the timer, clear the duration, and signal if it is idle already.    *)
ExpireNow(x) ==
    /\ Free(x)
    /\ runner' = [runner EXCEPT ![x].armed = FALSE, ![x].duration = Zero]
    /\ expiredCh' = IF Idle(x) THEN Append(expiredCh, x) ELSE expiredCh

-----------------------------------------------------------------------------
(* Handlers: scheduleRunner and getRunner.                                  *)

(* A request arrives and getRunner reads loaded[key] under loadedMu.        *)
GetRunner(q) ==
    /\ req[q].state = "new"
    /\ \E m \in Models, d \in KeepAlives :
         req' = [req EXCEPT
           ![q].model = m,
           ![q].keepAlive = d,
           ![q].runner = loaded[m],
           ![q].state = IF loaded[m] = None THEN "enqueue" ELSE "checking"]
    /\ UNCHANGED <<table, runner, chans, p, c, env>>

(* !runner.needsReload(c, req), in a refMu section of its own.              *)
CheckRunner(q) ==
    /\ req[q].state = "checking"
    /\ Free(req[q].runner)
    /\ \E reload \in NeedsReload(req[q].runner) :
         req' = [req EXCEPT ![q].state = IF reload THEN "enqueue" ELSE "using",
                            ![q].runner = IF reload THEN None ELSE @]
    /\ UNCHANGED <<table, runner, chans, p, c, env>>

(* The fast path hands the runner out, in a second refMu section.           *)
UseRunner(q) ==
    /\ req[q].state = "using"
    /\ UseLoadedRunner(q, req[q].runner)
    /\ UNCHANGED <<table, chans, p, c, env>>

(* select { case s.pendingReqCh <- req: default: req.errCh <- ErrMaxQueue } *)
Enqueue(q) ==
    /\ req[q].state = "enqueue"
    /\ \/ /\ Len(pendingReqCh) < MaxQueue
          /\ pendingReqCh' = Append(pendingReqCh, q)
          /\ req' = [req EXCEPT ![q].state = "queued"]
       \/ /\ Len(pendingReqCh) >= MaxQueue
          /\ Fail(q)
          /\ UNCHANGED pendingReqCh
    /\ UNCHANGED <<table, runner, expiredCh, unloadedCh, p, c, env>>

(* The request's context ends: its handler returned, or its client left.    *)
ContextDone(q) ==
    /\ req[q].state \notin {"new", "failed", "finished"}
    /\ ~req[q].done
    /\ req' = [req EXCEPT ![q].done = TRUE]
    /\ UNCHANGED <<table, runner, chans, p, c, env>>

-----------------------------------------------------------------------------
(* processPending.                                                          *)

(* Take a request; one whose context has ended is dropped without a reply.  *)
TakePending ==
    /\ p.pc = "idle"
    /\ pendingReqCh # <<>>
    /\ pendingReqCh' = Tail(pendingReqCh)
    /\ LET q == Head(pendingReqCh) IN
         \/ /\ req[q].done
            /\ req' = [req EXCEPT ![q].state = "finished"]
            /\ UNCHANGED p
         \/ /\ ~req[q].done
            /\ p' = [p EXCEPT !.pc = "top", !.cur = q]
            /\ UNCHANGED req
    /\ UNCHANGED <<table, runner, expiredCh, unloadedCh, c, env>>

(* An unload event with no pending request is ignored.                      *)
IgnoreUnloaded ==
    /\ p.pc = "idle"
    /\ unloadedCh > 0
    /\ unloadedCh' = unloadedCh - 1
    /\ UNCHANGED <<table, runner, req, pendingReqCh, expiredCh, p, c, env>>

(* Seeded fault: the limit is compared with > instead of >=.                *)
AtLimitOffByOne == Cardinality(Loaded) > MaxRunners

(* loadedCount >= int(maxRunners)                                           *)
AtLimit == Cardinality(Loaded) >= MaxRunners

(* The top of the inner loop: one snapshot of loaded decides the branch.    *)
Snapshot ==
    /\ p.pc = "top"
    /\ LET x == loaded[req[p.cur].model]
           next == [p EXCEPT !.targets = {}, !.evicting = FALSE]
       IN  p' = IF x # None THEN [next EXCEPT !.pc = "check", !.targets = {x}]
                ELSE IF AtLimit
                     THEN [next EXCEPT !.pc = "find"]
                     ELSE [next EXCEPT !.pc = "load", !.full = (Loaded # {})]
    /\ UNCHANGED <<table, runner, req, chans, c, env>>

(* Seeded fault: a runner that needs a reload is expired, and the new one   *)
(* is loaded without waiting for the old one to be gone.                    *)
CheckLoadedNoWait ==
    /\ p.pc = "check"
    /\ \E x \in p.targets :
         /\ ExpireNow(x)
         /\ p' = [p EXCEPT !.pc = "load"]
    /\ UNCHANGED <<table, req, pendingReqCh, unloadedCh, c, env>>

(* needsReload of the pending request's own runner.                         *)
CheckLoaded ==
    /\ p.pc = "check"
    /\ \E x \in p.targets :
         /\ Free(x)
         /\ \E reload \in NeedsReload(x) :
              p' = IF reload THEN [p EXCEPT !.pc = "expire", !.todo = {x}]
                             ELSE [p EXCEPT !.pc = "use"]
    /\ UNCHANGED <<table, runner, req, chans, c, env>>

UseLoaded ==
    /\ p.pc = "use"
    /\ \E x \in p.targets : UseLoadedRunner(p.cur, x)
    /\ p' = PendingIdle
    /\ UNCHANGED <<table, chans, c, env>>

(* findRunnerToUnload walks the runners by duration (names break ties) up   *)
(* to the first idle one, taking each refMu; with none idle it returns the  *)
(* shortest.                                                                *)
IsIdleChoice(x) ==
    /\ Free(x) /\ Idle(x)
    /\ \A y \in LoadedRunners :
         runner[y].duration < runner[x].duration => Free(y) /\ ~Idle(y)

IsBusyChoice(x) ==
    \A y \in LoadedRunners :
      /\ Free(y) /\ ~Idle(y)
      /\ runner[x].duration <= runner[y].duration

FindRunnerToUnload ==
    /\ p.pc = "find"
    /\ \/ /\ Loaded = {}
          /\ p' = [p EXCEPT !.pc = "top"]
       \/ \E x \in LoadedRunners :
            /\ IsIdleChoice(x) \/ IsBusyChoice(x)
            /\ p' = [p EXCEPT !.pc = "expire", !.targets = {x}, !.todo = {x}]
    /\ UNCHANGED <<table, runner, req, chans, c, env>>

(* evictAllAndWait lists every runner but the one of the pending model.     *)
EvictAll ==
    /\ p.pc = "evict"
    /\ LET xs == {loaded[m] : m \in Loaded \ {req[p.cur].model}} IN
         p' = [p EXCEPT !.pc = IF xs = {} THEN "top" ELSE "expire",
                        !.targets = xs, !.todo = xs, !.evicting = TRUE]
    /\ UNCHANGED <<table, runner, req, chans, c, env>>

(* Expire the targets one by one, then wait for as many unload events.      *)
ExpireTarget ==
    /\ p.pc = "expire"
    /\ \E x \in p.todo :
         /\ ExpireNow(x)
         /\ p' = [p EXCEPT !.todo = @ \ {x},
                           !.pc = IF p.todo = {x} THEN "wait" ELSE @,
                           !.need = IF p.todo = {x} THEN Cardinality(p.targets) ELSE 0]
    /\ UNCHANGED <<table, req, pendingReqCh, unloadedCh, c, env>>

WaitUnloaded ==
    /\ p.pc = "wait"
    /\ unloadedCh > 0
    /\ unloadedCh' = unloadedCh - 1
    /\ p' = [p EXCEPT !.need = @ - 1, !.pc = IF p.need = 1 THEN "top" ELSE @]
    /\ UNCHANGED <<table, runner, req, pendingReqCh, expiredCh, c, env>>

StopPending ==
    /\ ctx # "running"
    /\ p.pc \in {"idle", "wait"}
    /\ p' = [PendingIdle EXCEPT !.pc = "stopped"]
    /\ UNCHANGED <<table, runner, req, chans, c, env>>

-----------------------------------------------------------------------------
(* load, called by processPending.                                          *)

(* What processPending does after load returned true: with other models     *)
(* resident, evict all of them on the OOM retry path and one otherwise.     *)
AfterLoadTrue(oomRetried) ==
    [p EXCEPT !.llama = None,
              !.pc = IF ~p.full THEN "top" ELSE IF oomRetried THEN "evict" ELSE "find"]

(* Seeded fault: load reports the error and asks for a retry as well.       *)
AfterLoadRetry == [p EXCEPT !.llama = None, !.pc = "top"]

(* What it does after load returned false: the request is dealt with.       *)
AfterLoadFalse == PendingIdle

StartedRunner(m) == [NoRunner EXCEPT !.model = m, !.options = TRUE, !.proc = "up"]

(* The loadedMu section of load: fail, ask for an eviction because the      *)
(* model is predicted not to fit, start a server, or go on with the server  *)
(* that an earlier attempt of this request left in activeLoading.           *)
LoadStart ==
    /\ p.pc = "load"
    /\ \/ /\ activeLoading = None
          /\ Fail(p.cur)
          /\ p' = AfterLoadFalse
          /\ UNCHANGED <<activeLoading, runner>>
       \/ /\ activeLoading = None
          /\ p.full /\ Loaded # {}
          /\ p' = AfterLoadTrue(req[p.cur].oomRetried)
          /\ UNCHANGED <<activeLoading, runner, req>>
       \/ /\ activeLoading = None
          /\ Fresh # {}
          /\ LET x == CHOOSE x \in Fresh : TRUE IN
               /\ runner' = [runner EXCEPT ![x] = StartedRunner(req[p.cur].model)]
               /\ activeLoading' = x
               /\ p' = [p EXCEPT !.pc = "loading", !.llama = x]
          /\ UNCHANGED req
       \/ /\ activeLoading # None
          /\ p' = IF runner[activeLoading].model = req[p.cur].model
                  THEN [p EXCEPT !.pc = "loading", !.llama = activeLoading]
                  ELSE [p EXCEPT !.pc = "panic"]
          /\ UNCHANGED <<activeLoading, runner, req>>
    /\ UNCHANGED <<loaded, chans, c, env>>

(* llama.Load succeeded: the runner enters loaded with refMu held for the   *)
(* load goroutine.  A runner already in its place would be unloaded.        *)
Install ==
    /\ p.pc = "loading"
    /\ LET q == p.cur
           x == p.llama
           m == req[q].model
           d == IF req[q].keepAlive = Unset THEN DefaultKeepAlive ELSE req[q].keepAlive
       IN  /\ runner' = [y \in Runners |->
                IF y = x THEN [runner[y] EXCEPT !.duration = d, !.refMu = "loader"]
                ELSE IF y = loaded[m] THEN Unload(runner[y]) ELSE runner[y]]
           /\ loaded' = [loaded EXCEPT ![m] = x]
           /\ req' = [req EXCEPT ![q].state = "loading", ![q].runner = x]
    /\ activeLoading' = None
    /\ p' = AfterLoadFalse
    /\ UNCHANGED <<chans, c, env>>

(* Seeded fault: the closed server stays in activeLoading.                  *)
CloseActiveKeepsIt ==
    /\ activeLoading # None
    /\ runner' = [runner EXCEPT ![activeLoading].proc = "closed"]
    /\ UNCHANGED activeLoading

(* s.activeLoading.Close(); s.activeLoading = nil, without loadedMu.        *)
CloseActive ==
    /\ activeLoading # None
    /\ runner' = [runner EXCEPT ![activeLoading].proc = "closed"]
    /\ activeLoading' = None

(* llama.Load returned ErrLoadRequiredFull.                                 *)
LoadNoFit ==
    /\ p.pc = "loading"
    /\ \/ /\ p.full
          /\ p' = AfterLoadTrue(req[p.cur].oomRetried)
          /\ UNCHANGED <<activeLoading, runner, req>>
       \/ /\ ~p.full
          /\ CloseActive
          /\ Fail(p.cur)
          /\ p' = AfterLoadFalse
    /\ UNCHANGED <<loaded, chans, c, env>>

(* llama.Load returned another error.  One out-of-memory error per request  *)
(* is retried, with a smaller context or after evicting every other model.  *)
LoadError ==
    /\ p.pc = "loading"
    /\ CloseActive
    /\ \/ /\ ~req[p.cur].oomRetried
          /\ req' = [req EXCEPT ![p.cur].oomRetried = TRUE]
          /\ p' = AfterLoadTrue(TRUE)
       \/ /\ Fail(p.cur)
          /\ p' = AfterLoadFalse
    /\ UNCHANGED <<loaded, chans, c, env>>

(* Both error paths call a method of s.activeLoading: a nil pointer if the  *)
(* shutdown goroutine has cleared it in the meantime.                       *)
LoadErrorAfterShutdown ==
    /\ p.pc = "loading"
    /\ activeLoading = None
    /\ p' = [p EXCEPT !.pc = "panic"]
    /\ UNCHANGED <<table, runner, req, chans, c, env>>

(* The load goroutine: WaitUntilRunning, then hand the runner out.          *)
LoaderReady(q) ==
    /\ req[q].state = "loading"
    /\ LET x == req[q].runner IN
         runner' = [runner EXCEPT ![x].refCount = Referenced(@),
                                  ![x].refMu = "free"]
    /\ req' = [req EXCEPT ![q].state = "served", ![q].replies = @ + 1]
    /\ UNCHANGED <<table, chans, p, c, env>>

LoaderFailed(q) ==
    /\ req[q].state = "loading"
    /\ LET x == req[q].runner IN
         /\ runner' = [runner EXCEPT ![x].refMu = "free"]
         /\ expiredCh' = Append(expiredCh, x)
    /\ Fail(q)
    /\ UNCHANGED <<table, pendingReqCh, unloadedCh, p, c, env>>

-----------------------------------------------------------------------------
(* processCompleted and the goroutines that feed it.                        *)

(* Seeded fault: the count is not kept unsigned.                            *)
DereferencedSigned(n) == n - 1

(* runner.refCount--, unsigned: zero wraps around.                          *)
Dereferenced(n) == (n + RefCountMod - 1) % RefCountMod

(* A finished event, sent by the goroutine that waits for the request's     *)
(* context.  The runner is looked up by the request's model, not by the     *)
(* runner the request was given, and refCount is unsigned.                  *)
Finished(q) ==
    /\ c.pc = "idle"
    /\ req[q].state = "served" /\ req[q].done
    /\ req' = [req EXCEPT ![q].state = "finished"]
    /\ LET x == loaded[req[q].model]
           n == Dereferenced(runner[x].refCount)
       IN  \/ /\ x = None
              /\ UNCHANGED <<runner, expiredCh>>
           \/ /\ x # None
              /\ Free(x)
              /\ runner' = [runner EXCEPT ![x].refCount = n,
                   ![x].armed = IF n # 0 THEN @ ELSE runner[x].duration # Zero]
              /\ expiredCh' = IF n = 0 /\ runner[x].duration = Zero
                              THEN Append(expiredCh, x) ELSE expiredCh
    /\ UNCHANGED <<table, pendingReqCh, unloadedCh, p, c, env>>

(* The timer fires: AfterFunc starts the callback, which waits for refMu.   *)
TimerFires(x) ==
    /\ runner[x].armed
    /\ runner[x].duration # Forever
    /\ runner' = [runner EXCEPT ![x].armed = FALSE, ![x].callbacks = @ + 1]
    /\ UNCHANGED <<table, req, chans, p, c, env>>

(* The callback stops whatever timer is set and signals, busy or not.       *)
TimerCallback(x) ==
    /\ runner[x].callbacks > 0
    /\ Free(x)
    /\ runner' = [runner EXCEPT ![x].armed = FALSE, ![x].callbacks = @ - 1]
    /\ expiredCh' = Append(expiredCh, x)
    /\ UNCHANGED <<table, req, pendingReqCh, unloadedCh, p, c, env>>

(* An expired event whose runner is busy sleeps 10ms and is sent again.     *)
Requeue(x) ==
    /\ runner[x].retries > 0
    /\ runner' = [runner EXCEPT ![x].retries = @ - 1]
    /\ expiredCh' = Append(expiredCh, x)
    /\ UNCHANGED <<table, req, pendingReqCh, unloadedCh, p, c, env>>

(* An expired event: busy runners are retried, duplicates ignored, orphans  *)
(* closed; otherwise the runner is unloaded, refMu stays held for the VRAM  *)
(* to recover.                                                              *)
Expired ==
    /\ c.pc = "idle"
    /\ expiredCh # <<>>
    /\ expiredCh' = Tail(expiredCh)
    /\ LET x == Head(expiredCh)
           m == runner[x].model
       IN  /\ Free(x)
           /\ \/ /\ ~Idle(x)
                 /\ runner' = [runner EXCEPT ![x].retries = @ + 1]
                 /\ UNCHANGED <<loaded, c>>
              \/ /\ Idle(x)
                 /\ loaded[m] = None
                 /\ UNCHANGED <<runner, loaded, c>>
              \/ /\ Idle(x)
                 /\ loaded[m] \notin {None, x}
                 /\ runner' = [runner EXCEPT ![x] = Unload(@)]
                 /\ UNCHANGED <<loaded, c>>
              \/ /\ Idle(x)
                 /\ loaded[m] = x
                 /\ runner' = [runner EXCEPT ![x] = [Unload(@) EXCEPT !.refMu = "completed"]]
                 /\ loaded' = [loaded EXCEPT ![m] = None]
                 /\ c' = [pc |-> "recovering", runner |-> x]
    /\ UNCHANGED <<activeLoading, req, pendingReqCh, unloadedCh, p, env>>

(* Seeded fault: a full channel is skipped, the unload event is lost.       *)
NotifyNobody == UNCHANGED unloadedCh

(* s.unloadedCh <- struct{}{}                                               *)
NotifyUnloaded == unloadedCh' = unloadedCh + 1

(* <-finished; refMu.Unlock(); s.unloadedCh <- struct{}{}                   *)
Recovered ==
    /\ c.pc = "recovering"
    /\ runner' = [runner EXCEPT ![c.runner].refMu = "free"]
    /\ NotifyUnloaded
    /\ c' = CompletedIdle
    /\ UNCHANGED <<table, req, pendingReqCh, expiredCh, p, env>>

StopCompleted ==
    /\ ctx # "running"
    /\ c.pc = "idle"
    /\ c' = [CompletedIdle EXCEPT !.pc = "stopped"]
    /\ UNCHANGED <<table, runner, req, chans, p, env>>

-----------------------------------------------------------------------------
(* expireRunner (one model), expireRunnersForRuntimeOOM (all of them, by a  *)
(* handler whose runner reported out of memory), and the shutdown of Serve. *)

ExpireModel(m) ==
    /\ api.calls > 0
    /\ loaded[m] # None
    /\ api' = [calls |-> api.calls - 1, todo |-> api.todo \cup {loaded[m]}]
    /\ UNCHANGED <<table, runner, req, chans, p, c, ctx>>

RuntimeOOM ==
    /\ api.calls > 0
    /\ \E q \in Requests : req[q].state = "served"
    /\ api' = [calls |-> api.calls - 1, todo |-> api.todo \cup LoadedRunners]
    /\ UNCHANGED <<table, runner, req, chans, p, c, ctx>>

ApiExpire(x) ==
    /\ x \in api.todo
    /\ ExpireNow(x)
    /\ api' = [api EXCEPT !.todo = @ \ {x}]
    /\ UNCHANGED <<table, req, pendingReqCh, unloadedCh, p, c, ctx>>

(* A signal cancels the scheduler's context ...                             *)
Shutdown ==
    /\ ShutdownAllowed
    /\ ctx = "running"
    /\ ctx' = "done"
    /\ UNCHANGED <<table, runner, req, chans, p, c, api>>

(* ... and then unloadAllRunners closes every server, under loadedMu only.  *)
UnloadAllRunners ==
    /\ ctx = "done"
    /\ ctx' = "unloaded"
    /\ runner' = [x \in Runners |->
         IF x \in LoadedRunners \cup {activeLoading}
         THEN [runner[x] EXCEPT !.proc = "closed"] ELSE runner[x]]
    /\ activeLoading' = None
    /\ UNCHANGED <<loaded, req, chans, p, c, api>>

-----------------------------------------------------------------------------
Init ==
    /\ loaded = [m \in Models |-> None]
    /\ activeLoading = None
    /\ runner = [x \in Runners |-> NoRunner]
    /\ req = [q \in Requests |-> NoRequest]
    /\ pendingReqCh = <<>>
    /\ expiredCh = <<>>
    /\ unloadedCh = 0
    /\ p = PendingIdle
    /\ c = CompletedIdle
    /\ api = [calls |-> MaxExpireCalls, todo |-> {}]
    /\ ctx = "running"

Handler(q) == GetRunner(q) \/ CheckRunner(q) \/ UseRunner(q) \/ Enqueue(q)

ProcessPending ==
    \/ TakePending \/ IgnoreUnloaded \/ Snapshot \/ CheckLoaded \/ UseLoaded
    \/ FindRunnerToUnload \/ EvictAll \/ ExpireTarget \/ WaitUnloaded
    \/ LoadStart \/ Install \/ LoadNoFit \/ LoadError \/ LoadErrorAfterShutdown
    \/ StopPending

Loader(q) == LoaderReady(q) \/ LoaderFailed(q)

ProcessCompleted ==
    Expired \/ Recovered \/ StopCompleted \/ \E q \in Requests : Finished(q)

Timers(x) == TimerFires(x) \/ TimerCallback(x) \/ Requeue(x)

Api == RuntimeOOM \/ (\E m \in Models : ExpireModel(m)) \/ \E x \in Runners : ApiExpire(x)

(* A panic ends the process; the steps the other goroutines may still take  *)
(* here only add behaviours.                                                *)
Next ==
    \/ \E q \in Requests : Handler(q) \/ ContextDone(q) \/ Loader(q)
    \/ ProcessPending
    \/ ProcessCompleted
    \/ \E x \in Runners : Timers(x)
    \/ Api
    \/ Shutdown
    \/ UnloadAllRunners

Spec == Init /\ [][Next]_vars

-----------------------------------------------------------------------------
(***************************************************************************)
(* Fairness.  Every goroutine that can run does; WaitUntilRunning returns  *)
(* (its stall timeout sees to it); a handler that was given a runner       *)
(* finishes and thereby ends its context.  No request has to come, and     *)
(* nothing is assumed of clients that wait, of API calls or of signals.    *)
(* select picks at random among the ready cases, so a finished event is    *)
(* not passed over for ever: each has a condition of its own.              *)
(***************************************************************************)
Fairness ==
    /\ \A q \in Requests :
         /\ WF_vars(req[q].state # "new" /\ Handler(q))
         /\ WF_vars(Loader(q))
         /\ WF_vars(Finished(q))
         /\ WF_vars(req[q].state = "served" /\ ContextDone(q))
    /\ WF_vars(ProcessPending)
    /\ WF_vars(Expired \/ Recovered)
    /\ \A x \in Runners :
         /\ WF_vars(TimerFires(x))
         /\ WF_vars(TimerCallback(x))
         /\ WF_vars(Requeue(x))
         /\ WF_vars(ApiExpire(x))

FairSpec == Spec /\ Fairness

-----------------------------------------------------------------------------
(* Properties.                                                              *)

RunnerRecord ==
    [model : Models \cup {None}, refCount : 0 .. RefCountMod - 1,
     duration : Durations, armed : BOOLEAN, callbacks : Nat, retries : Nat,
     options : BOOLEAN, proc : {"none", "up", "closed"},
     refMu : {"free", "loader", "completed"}]

RequestRecord ==
    [state : {"new", "checking", "using", "enqueue", "queued", "loading",
              "served", "failed", "finished"},
     model : Models \cup {None}, keepAlive : Durations \cup {Unset},
     runner : Runners \cup {None}, oomRetried : BOOLEAN, replies : Nat,
     done : BOOLEAN, stale : BOOLEAN]

PendingRecord ==
    [pc : {"idle", "top", "check", "use", "find", "evict", "expire", "wait",
           "load", "loading", "stopped", "panic"},
     cur : Requests \cup {None}, full : BOOLEAN, llama : Runners \cup {None},
     targets : SUBSET Runners, todo : SUBSET Runners, need : Nat,
     evicting : BOOLEAN]

(* Every variable has its type.                                             *)
TypeOK ==
    /\ loaded \in [Models -> Runners \cup {None}]
    /\ activeLoading \in Runners \cup {None}
    /\ runner \in [Runners -> RunnerRecord]
    /\ req \in [Requests -> RequestRecord]
    /\ pendingReqCh \in Seq(Requests)
    /\ expiredCh \in Seq(Runners)
    /\ unloadedCh \in Nat
    /\ p \in PendingRecord
    /\ c \in [pc : {"idle", "recovering", "stopped"}, runner : Runners \cup {None}]
    /\ api \in [calls : Nat, todo : SUBSET Runners]
    /\ ctx \in {"running", "done", "unloaded"}

(* OLLAMA_MAX_LOADED_MODELS is a limit: although the count is read in one   *)
(* critical section and the runner added in a later one, no interleaving    *)
(* of loads, unloads and retries exceeds it.                                *)
AtMostMaxRunners == Cardinality(Loaded) <= MaxRunners

(* The panic "attempting to load different model after eviction" is         *)
(* unreachable: a server left in activeLoading by an eviction always        *)
(* belongs to the request being retried.  Only the shutdown goroutine, which*)
(* clears activeLoading behind load's back, can make it dereference nil.    *)
NoPanic == p.pc = "panic" => ctx = "unloaded"

(* A request is answered at most once, on one of its two channels (both     *)
(* have room for one reply; a second would be lost or reported wrongly).    *)
ReplyOnce == \A q \in Requests : req[q].replies <= 1

(* No llama server is leaked: a running one is in loaded or is being        *)
(* loaded, and it is being loaded only on behalf of the pending request,    *)
(* across every retry and eviction that request goes through.               *)
NoLeakedServer ==
    /\ \A x \in Runners :
         runner[x].proc = "up" => x \in LoadedRunners \cup {activeLoading}
    /\ activeLoading # None =>
         /\ p.pc \notin {"idle", "check", "use", "panic"}
         /\ p.pc # "stopped" => runner[activeLoading].model = req[p.cur].model

(* The branch of load commented "Shouldn't happen, but safeguard against    *)
(* leaking a runner" is never taken: while a model is being loaded nothing  *)
(* else puts it into loaded.  (The branch locks refMu under loadedMu, the   *)
(* reverse of the order that processCompleted uses.)                        *)
NeverLoadedTwice ==
    p.pc \in {"load", "loading"} => loaded[req[p.cur].model] = None

(* No request was handed a runner that had already been unloaded.           *)
NoStale == \A q \in Requests : ~req[q].stale

Users(x) == {q \in Requests : req[q].state = "served" /\ req[q].runner = x}

(* As long as no request was handed an unloaded runner, refCount counts the *)
(* requests a loaded runner is serving or whose finished event is due.      *)
RefCountExact ==
    NoStale => \A x \in LoadedRunners :
                 runner[x].refCount = Cardinality(Users(x)) % RefCountMod

(* As long as no request was handed an unloaded runner, a runner that is    *)
(* idle is never forgotten: its timer is armed or an expiration of it is    *)
(* queued, about to be queued, or asleep.                                   *)
IdleRunnersExpire ==
    NoStale => \A x \in LoadedRunners :
      Free(x) /\ Idle(x) => \/ runner[x].armed
                            \/ runner[x].callbacks > 0
                            \/ runner[x].retries > 0
                            \/ \E i \in 1 .. Len(expiredCh) : expiredCh[i] = x

Recovering == IF c.pc = "recovering" THEN 1 ELSE 0

(* No lost wake-up: while processPending expires runners or waits for their *)
(* unload events, enough events are queued, about to be sent, or still owed *)
(* by loaded runners, although timers and API calls unload the same runners *)
(* concurrently.                                                            *)
NoLostUnload ==
    LET owed == unloadedCh + Recovering + Cardinality(p.targets \cap LoadedRunners)
    IN  /\ p.pc = "wait" => p.need <= owed
        /\ p.pc = "expire" => Cardinality(p.targets) <= owed

(* "refCount uint // prevent unloading if > 0": the scheduler, while it     *)
(* runs, closes no server that some request is using.                       *)
InUseStaysOpen(x) ==
    runner[x].proc = "up" /\ runner'[x].proc = "closed" /\ ctx' # "unloaded"
        => Users(x) = {}

NeverUnloadInUse == [][\A x \in Runners : InUseStaysOpen(x)]_vars

(* The same, as long as no request was handed an unloaded runner.           *)
UnloadOnlyIdle == [][NoStale => \A x \in Runners : InUseStaysOpen(x)]_vars

(* The implementation of ModelService: a request waits from getRunner until *)
(* its answer, and uses a runner from then until its finished event.        *)
Fate(q) ==
    CASE req[q].state \in {"new", "served"} -> req[q].state
      [] req[q].state = "failed" -> "refused"
      [] req[q].state = "finished" -> "over"
      [] OTHER -> "waiting"

Using(q) == IF req[q].state = "served" THEN req[q].runner ELSE None

Service == INSTANCE ModelService WITH
    Servers <- Runners,
    MaxServers <- MaxRunners,
    asked <- [q \in Requests |-> req[q].model],
    fate <- [q \in Requests |-> Fate(q)],
    replies <- [q \in Requests |-> req[q].replies],
    using <- [q \in Requests |-> Using(q)],
    left <- {q \in Requests : req[q].done},
    late <- {q \in Requests : req[q].stale},
    server <- [x \in Runners |-> [model |-> runner[x].model, state |-> runner[x].proc]],
    halted <- (ctx = "unloaded")

(* Whatever way a request takes through the fast path, the queue, evictions *)
(* and retries: it is answered once, by a server of its model; servers are  *)
(* started for waiting requests only, one for a model and OLLAMA_MAX_LOADED *)
(* _MODELS in all, counting the one being loaded; and none is closed in use *)
(* as long as no request was handed an unloaded runner.                     *)
IsModelService == Service!Spec

(* processPending waits for the unload of a runner that a request on the    *)
(* fast path has given an infinite duration back: it was set to zero before *)
(* the wait (sched.go:349), and the runner finishes with what              *)
(* useLoadedRunner has written since (488).  Nothing expires it.            *)
Renewed == p.pc = "wait" /\ \E x \in p.targets : x \in LoadedRunners /\ runner[x].duration = Forever

(* "all new requests will be queued until the new model can be loaded.  As  *)
(* prior models become idle, one or more will be unloaded" (docs/faq.mdx:   *)
(* 328): a queued request is answered, unless its client leaves (it is then *)
(* dropped), a stale runner has corrupted the reference counts, or the      *)
(* queue stands still for good behind a runner that was renewed, which the  *)
(* documentation does not say.                                              *)
QueuedIsAnswered ==
    []<>~Renewed =>
        \A q \in Requests :
          req[q].state = "queued" ~> \/ req[q].replies > 0
                                     \/ req[q].done
                                     \/ ~NoStale
                                     \/ ctx # "running"

(* processPending does not wait for unload events for ever, with the same   *)
(* two exceptions.                                                          *)
WaitEnds == []<>~Renewed => (p.pc = "wait" ~> p.pc # "wait" \/ ~NoStale)
=============================================================================
