# Verification of onellama

onellama is a fork of Ollama: a Go server that loads language models into
llama.cpp or MLX runner processes and answers requests with them, a registry
client that pulls and pushes models, and a desktop app. This directory holds
TLA+ specifications of the parts whose correctness depends on the order in which
goroutines, clients, timers and crashes happen to act, TLC configurations that
check them on small instances, and proofs that TLAPS checks for every instance.

## Inventory

The parts of the system, the state each keeps, and what makes it correct.

| Part | Source | State and operations | Correct when | Here |
|---|---|---|---|---|
| Scheduler | `server/sched.go` | loaded runners with reference counts and keep-alive timers, a queue of requests, channels of finished, expired and unloaded events; two long-lived goroutines, one per load, one per timer | a runner in use is not unloaded; each request gets one answer; no server leaks; an idle runner expires; the limit on loaded models holds; nothing waits for ever | `ModelService`, `Scheduler`, `SchedulerProofs` |
| Blob download | `server/download.go`, verification in `server/images.go` | a map of downloads, each with parts, a reference count and a cancel function; part files, a data file, the blob, the manifest | one download per blob; progress files never claim what is not on disk; a resumed download is whole; a run is cancelled only when nobody waits | `BlobDownload`, `BlobDownloadProofs` |
| Task scheduler | `app/scheduler`, `app/tools/scheduler.go`, one table of `app/store` | rows with a status, a time and a chat; a loop, a goroutine per task, edits and deletions | a task runs once; a running task says so; a failed one says so; a due one starts; Stop returns | `TaskScheduler`, `TaskSchedulerProofs` |
| Blob upload | `server/upload.go` | a map of uploads, a chain of upload URLs, `done` and `err` polled by waiters | one upload per blob; its clients are counted exactly; a push that joined it returns, and returns nil only when its repository has the blob | `BlobUpload`, `BlobUploadProofs` |
| Parallel transfer | `x/transfer` | a pool of workers, body slots, stalls and slow transfers, `.tmp` files | retries end; what is kept is whole | planned |
| Layer store | `server/images.go`, `manifest/`, `server/create.go` | manifests that name blobs by digest; pull, create, copy, delete, prune | no manifest names a blob that was removed as unused | `LayerStore`, `LayerStoreProofs` |
| MLX prefix cache | `mlxrunner/prefix_cache.go`, `cache_trie.go` | a compressed trie of token prefixes, an active path, snapshots, a byte count | what a request is served from was computed for its tokens; the path and the caches agree; bytes are counted exactly; eviction spares the path | `CacheLayers`, `PrefixCache`, `PrefixCacheProofs` |
| MLX thread | `mlx/mlxthread` | one locked worker, jobs, a stopping flag | a job accepted is run before the cleanup, a refused one never; Stop can be retried | `SerialExecutor`, `MlxThread`, `MlxThreadProofs` |
| MCP client | `app/mcp/client.go` | calls in flight by id, one pipe each way | a reply reaches its call; a call returns when the server dies | planned |
| App supervisor, updater | `app/server`, `app/updater` | a child process and its pid file; one background download | one server at a time; a cancelled download leaves nothing behind | planned |
| Model caches | `server/model_show_cache.go`, `model_recommendations.go` | entries and a set of refreshes in flight | one refresh per key; a failed one does not block the next | planned |
| llama server client | `llm` | a child process behind HTTP | – | as `Scheduler` sees it |
| HTTP handlers, conversions | `server/routes.go`, `api`, `openai`, `anthropic`, `middleware` | none of their own | – | only where they touch the parts above |
| Parsers, templates, renderers | `thinking`, `harmony`, `model`, `template` | pure functions of text | – | one is planned as an algorithm |
| Numerics, discovery, window | `mlx`, `ml`, `llama`, `discover`, `app/ui`, `cmd` | – | – | not modelled |

How they interact: a handler of `server/routes.go` calls the scheduler's
`getRunner` and waits on two channels of the request; cancelling the request's
context is its only way to say that it has finished. The pull handler starts a
goroutine that calls `PullModel` and streams what it reports over an unbuffered
channel. `PullModel` shares `blobDownloadManager` and the files with every other
pull, and the models directory with every create, copy and delete: `BlobDownload` says how one
blob gets there, `LayerStore` what becomes of many. A push shares `blobUploadManager`. In
the MLX runner every call of MLX goes through the one thread of `mlxthread`, so the prefix
cache serves one request at a time. The app's loop shares the table of tasks with the window and with the tools
that models call; it reaches the server over HTTP.

What is hard, and hard to test: sections of two locks with channel operations in
between; a timer that fires while a runner is being taken; events that are counted
but not told apart; a reference count on which a cancel function hangs; a client
that leaves at any moment; a crash between two files; a row that is read, changed
and written back by three writers. The entries under `hazards` in `PROJECT.json`
name the line of each and the properties that would catch it.

## Plan

1. `Scheduler` – done: model, three runs, an abstract `ModelService` that it is proved to
   implement, eleven theorems.
2. `BlobDownload` – done: model, two runs, five theorems.
3. `TaskScheduler` – done: model, two runs, three theorems.
4. `MlxThread` – done: model, one run, an abstract `SerialExecutor`, and the proof that the
   thread implements it.
5. `PrefixCache` over `CacheLayers` – done: model, one run, three theorems.
6. `BlobUpload` – done: model, two runs, three theorems.
7. `LayerStore` – done: model, one run, two theorems.
8. `McpClient`, `Updater`, the model caches, and `x/transfer`.
9. The streaming splitter of `thinking/parser.go` as a function, checked against
   the split of the whole text.

The order is by how much of the system depends on the part and how badly a test
reaches it. Of several disagreements between the code and its documentation in one
component, one has a run; the others are described with their component.

## Scheduler

`Scheduler.tla` models all of `server/sched.go` but the estimate of memory. A step is
one critical section or one channel operation, so what the code does in one section
is one action, and what it does in two (`getRunner` checks `needsReload`, then takes
a reference) is two.

| State | Code |
|---|---|
| `loaded`, `activeLoading` | `s.loaded`, `s.activeLoading` |
| `runner[x]` | a `runnerRef`: `refCount` (unsigned: modulo `RefCountMod`), `sessionDuration`, whether its timer is armed, timer callbacks and re-queued expirations under way, its server, who holds `refMu` over several steps |
| `req[q]` | an `LlmRequest` and its handler |
| `pendingReqCh`, `expiredCh`, `unloadedCh` | the channels |
| `p`, `c` | where `processPending` and `processCompleted` are, with their locals |
| `api`, `ctx` | calls that expire models; the scheduler's context and the shutdown goroutine |

Actions carry the names of the functions: `GetRunner`, `Enqueue`, `Snapshot`,
`FindRunnerToUnload`, `EvictAll`, `LoadStart`, `Install`, `LoadNoFit`, `LoadError`, `LoaderReady`,
`Finished`, `TimerFires`, `Expired`, `UnloadAllRunners` and so on.

Abstracted: what a load needs and what is free is an answer of the environment (it
fits, it does not, it fails, it runs out of memory once and is retried); equality of
options and the ping are such an answer too, so any runner may need reloading at any
time. Durations are zero, finite, infinite or absent: a finite timer may fire whenever
it is armed. `finishedReqCh` and its sender are one step (`Finished`). Only
`pendingReqCh` has its capacity; the event channels have 512 places in the code and
are unbounded here. The wait for the memory of an unloaded runner to come back is a
step during which `refMu` stays held. `processCompleted` knows a runner by its process id, the model by
its identity: a build in which the system gives a successor the id of its predecessor is not
distinguished (`sched.go:446`). `stale` is a history variable: the request was
handed a runner that had been unloaded after the check.

`ModelService` is what the scheduler promises the handlers, without queue, channels, counts, timers or
locks: a request that waits gets one answer, a refusal or a server of the model it asks for, which it uses
until its client has left; a server is started for a waiting request only, when no server of that model and
fewer than the limit are up; none that somebody uses is closed. It has the two exceptions of the code. A
request may be handed a server too late, after it was closed (`ServeTooLate`), and from then on
nothing is promised about closing; nor is it once the shutdown goroutine has closed everything (`Halt`).
It models no code of its own. `Service` in `Scheduler` is its instance: a request waits from `getRunner` to
its answer, whatever it goes through in between, and uses its runner until its finished event
(`Fate`, `Using`); a server is what `proc` says, so the one being loaded counts; the requests served
too late are those marked `stale`.

Runs (`MCScheduler`):

* `scheduler_safety`: three requests, two models, three loads, two at a time, a queue of
  one, keep-alives zero and default. `TypeOK`, `NoPanic`, `NoLeakedServer`,
  `RefCountExact`, `IdleRunnersExpire`, `NoLostUnload`, `UnloadOnlyIdle`, and the
  refinement `IsModelService`. Three requests are two that contend for a runner and one that
  wants its place; a third load is what it takes to replace a runner twice. The
  requests and the models are symmetric; no liveness is checked.
* `scheduler_live`: three requests, two models, one runner at a time, a queue of one, finite keep-alives and
  a negative one: `AtMostMaxRunners`, `NeverLoadedTwice`, and under fairness `QueuedIsAnswered` and
  `WaitEnds`. The action constraint `BoundedStep` bounds what the environment does, since liveness cannot use symmetry: one of the
  requests is the first, which is no restriction; another one is late: it comes while
  `processPending` waits for an unload, and only it has a negative keep-alive; and one of three things
  happens: the late request comes, one API call expires runners, or the server is stopped. Nothing that fairness
  is about is held back.
* `scheduler_in_use` (violation of `NeverUnloadInUse`): `processCompleted` finds the runner of
  a finished request by its model. A request can be handed a runner that is unloaded
  between the check and the reference; its finish then counts down the successor,
  which is unloaded under a request that uses it. This is why three properties above
  say `NoStale =>`, the two on liveness except that case too and `ModelService` has `ServeTooLate`: they hold up
  to that event and show that it is the only cause.

Two more behaviours of the model differ from what the code says of itself, and have no run that is violated.
`evictAllAndWait` counts any unload event, so one that a timer left behind lets it return
while a runner it listed is loaded (`sched.go:1641`; the comment at 1634 counts one event per
listed runner). And a request with a negative keep-alive on the fast path gives the runner that
`processPending` waits for an infinite duration (`sched.go:488`); nothing expires it, and the queue stands still,
although `docs/faq.mdx:328` says that queued requests are processed as prior models become idle. This
is `Renewed`, which the run reaches, and both liveness properties except a queue that stands still behind such a runner
for good (`[]<>~Renewed =>`): without the exception TLC finds them violated.

The bounds are on the number of requests, of loads (`Runners`), and of API calls
(`MaxExpireCalls`). `CHECK_DEADLOCK FALSE`: the requests are finitely many, and when all
are finished the system rests.

Fairness (`Fairness`): weak, on every handler, load, timer, API call, and on the steps of the
two goroutines. A served request's client eventually ends it; a load succeeds or
fails. Nothing makes a request come, a client leave the queue, or a shutdown happen. The steps of
`processCompleted` that receive events share its goroutine; `Finished` and `Expired` have
each their own fairness because Go's `select` picks fairly among ready cases.

### What is proved

`SchedulerProofs.tla`, for all requests, models, runners and limits:
`TypeCorrect`, `MaxRunnersRespected`, `PanicOnlyAtShutdown`, `ServersNotLeaked`,
`SafeguardUnreachable`, `AnsweredOnce`, `UnloadNeverLost`. Assumed: the assumptions on constants
in `Scheduler.tla` (the set of models is finite, the limit at least one, `None` is none of
the others).

None of these is inductive. The argument has layers:

* `Typed` is inductive alone: types; that a request past `getRunner` has a model and one
  that loads or is served a runner; that queued requests are distinct and differ from the
  one in `processPending`'s hands; that it has something to expire when it expires.
* `Loading` is inductive given `Typed`: from the snapshot that decides to load to the section
  that installs the runner, a place among the loaded models is reserved
  (`SlotReserved`), the server in `activeLoading` is of the pending request's model
  (`ActiveOwned`), and every running server is in one of the two places
  (`ServersTracked`). Nobody else adds to `loaded`, and unloading only helps. The four
  theorems on limits, panics, leaks and the safeguard follow.
* `RepliesCounted`: a request has no reply before it is served or refused and one after.
* `UnloadsOwed`: the events that `processPending` waits for never exceed those queued, about to
  be sent, and owed by targets still loaded; each unload moves one from the last
  group to the first.

Its second half adds `RefCountsExact`, `IdleNeverForgotten` and `UnloadsOnlyIdle`, the
properties that say what the reference counts are for. Two more layers stand over those above:

* `Handing` needs no proviso: which requests a runner has been or may be given to, that it is of their
  model and, until unloaded, the one in the table (`GivenTyped`); that a runner that has never been in
  the table is given to nobody; who holds `refMu` over several steps (a load goroutine,
  `processCompleted`), and that such a runner is not handed out.
* `Counting`: a count is the number of requests that use the runner (`RefCountExact`), and one that has
  dropped to zero, with its runner loaded, has something that will expire it (`IdleRunnersExpire`).
  The step that matters is `Finished`, which finds the runner by its model: that it is the runner of
  the request that has finished is what `NoStale` gives. `UnloadOnlyIdle` then follows: the section
  that unloads tests the count.

`SchedulerIsService` is the refinement, `IsModelService`. One more layer, `Opened`, tells which servers are
up: none that was unloaded, the one being loaded and, until the shutdown, all in the table. The initial
state maps to the initial state, and there is a lemma for each way a step maps: `GetRunner` is `Ask`, `ContextDone`
is `Leave`, the two ways to be handed a runner and the end of a load are `Serve` or `ServeTooLate`, every `errCh <-` is
`Refuse`, with the server that did not come up if there is one, and most steps change nothing of the
service. Three steps need the layers. `LoadStart` is `Start` because the slot that `Loading` reserves bounds the
servers that are up, not only those in the table. The steps that hand out a runner need `Handing` for its model
and `Opened` for its server. And `Expired` is `Close` because of `Counting`: the server is nobody's, or some request
was served too late. That a waiting request has had no answer is `RepliesCounted`.

Two hypotheses are those of the code. `NoStale` stands in the properties themselves and is explained
above. The theorems say `[]FewUsers => ...`: at any time fewer requests use a runner than
its unsigned count (`RefCountMod`, 2^64 in a build) can tell apart. The lemma `FewRequests` shows
that this holds whenever the requests are finitely many and fewer than `RefCountMod`.

Only model-checked: liveness (`QueuedIsAnswered`, `WaitEnds`). `NeverUnloadInUse` does not hold.

## BlobDownload

One blob, pulled by several clients. `download[d]` is a `blobDownload`: where its `Run` goroutine
is, its cancel function (nil, set, called), its references, `done`, `err`, and
its parts with their progress and tries. `pull[u]` is a call of `PullModel`. On disk are the
data file `partial` (a sequence of bytes, each good or a hole), the part files with the
progress they claim (`saved`), the blob and the manifest. A crash keeps these and
loses the rest; with the restart comes `PruneLayers`, which may remove partial files.

Actions follow `downloadBlob` (`Stat`, `LoadOrStore`), `Prepare` (`PrepareRead`, `PrepareReset`,
`PrepareHead`, `NewPartFile`, `PrepareFails`), `Wait` (`Acquire`, `WaitDone`, `WaitCanceled`,
`ReportBlocks`, `Release`), `run` (`RunOpen` ... `RunRename`, `RunFails`), its deferred calls (`RunDelete`,
`RunClose`), `downloadChunk` (`Copy`, `WritePart`, `Retry`) and the end of `PullModel`
(`VerifyHash`, `VerifyAct`, `WriteManifest`).

A full disk ends the attempts of a part at once (`Tried`), and a failure while part files are created may leave the next one
corrupt. Abstracted: the registry serves the right bytes; redirects and HTTP are success or
failure; a part is named by its position; opening and reading part files in
`Prepare` is one step, and so is the creation of a new part file. Reports of
progress change nothing while the handler reads them, so only the one that blocks is an
action. `torn` is a history variable: a download has resumed with some part files
missing.

* `blob_download_pull`: two pulls, two downloads in sequence, a blob of three bytes in two parts
  (of two and one), one attempt per part, one fault (failed request, stall, disk error)
  and one crash. `TypeOK`, `OneDownload`, `SavedIsOnDisk`, `IntactUnlessTorn`,
  `NeverCancelInUse`, and under fairness `PullReturns`. Two parts suffice for concurrent
  chunks and for a missing part file; a part of two bytes can be half done; the second
  download meets the files and the waiters of the first. `MaxRetries` is 1 so that one fault
  can exhaust the attempts.
* `blob_download_resume` (violation of `ResumesCleanly`): part files that a crash left incomplete are
  taken for all, and the data is cut to their total.

Not in a run: a pull that joins a download whose last client has just left, and that is
cancelled but not yet removed from the manager, returns "context canceled" although its own
client waits (`download.go:514`).

Reached as well: `panicked`, when the last reference is released before `Run` has set
`CancelFunc`. It ends the process; the properties speak of what comes before. `PullReturns`
excepts a pull that joined a download whose `Prepare` then failed: its `done`
channel is closed by nobody and it waits until its client leaves.

Fairness: weak, on each pull and on the goroutines of each download; requests
end, as there are at most `MaxFaults` stalls (in the code a stall is noticed after 30
seconds and retried). Nothing is assumed of clients. `CHECK_DEADLOCK FALSE`: pulls end.

Proved in `BlobDownloadProofs.tla`, for any number of pulls, downloads, parts, faults and crashes:
`OneDownloadAtATime` and `RunNeverCancelledInUse`. `OneDownload` is not inductive: what keeps a second
download out while one runs is that the first stays in the manager until its run deletes it, past the rename
(`Managed`), and what keeps it out while one is prepared is that a single pull prepares, the one whose download is in
the manager (`Prepared`). `NeverCancelInUse` needs `HoldersCounted`: the count of a download is the number of pulls that
hold it, blocked ones included, so the pull that brings it to zero was the only one. `Placed` says at which
points a pull has a download.

Proved in its second half, over the invariant of those two: `DownloadTypeCorrect`, `PartFilesAreTrue` and
`BlobsAreWhole`, for a blob of any size in any parts. It begins with lemmas on bytes: a blob is the
union of its parts, which do not overlap; a write or a truncation keeps what is there; a file in which every
part is complete is the blob. Then there are two layers:

* `Typed`: no part grows past its size, though a failed attempt may be repeated, and no reference is released
  twice (the count is that of the holders, by `HoldersCounted`). It needs to know what a pull that prepares has made
  so far, and that part files are removed only once every part is through.
* `Kept`, while no download has resumed with part files missing: until its parts are through, what the download in the
  manager has counted is in the data file, and so is what the part files claim; a part that is through
  without an error has all of its bytes; at the removal of the part files the data file is the blob, and at the rename they
  are all gone, so that a stop in between leaves nothing that a new download would mistake for progress; a
  manifest is written only with the blob in place.

The steps that matter are `RunOpen`, which cuts or extends the data file to the size that `Prepare` has
found, `WritePart`, which writes the claim after the data, and the crash, after which only the claims are
left. That nobody else writes meanwhile is `OneDownload`. Assumed throughout: the assumptions on
constants in `BlobDownload.tla`. Only model-checked: `PullReturns`. `ResumesCleanly` does not hold.

## TaskScheduler

`row` is the table of scheduled tasks; `loop` the goroutine of `app/scheduler/runner.go` with the rows it
has read and the one it is at; `exec[r]` a goroutine of `executeTask` with its copy of
the row; `edit[e]` an edit by the window (`app/ui/ui.go`) or the tool (`app/tools/scheduler.go`),
which reads a row and writes it back. A step is one statement on the table, or one pass of
a task through the model. Time is whether a task is due. The contents of chats, the order
of the rows and the tools are left out; that a tool ends is assumed. The chat of a run is created, and the task marked
as failed when that fails, in one step, whose own update of the row does not fail (`runner.go:180`, 199).
`raced` is a history variable: a writer, be it an edit, the loop or a run, has overwritten a row that had
changed since it read it. `StartedOnce` and `RunningIsMarkedUnlessRaced` say nothing of such a task from then on.

* `task_scheduler`: two tasks, two runs, one edit, one pass, one failed statement, one restart,
  with quit and crash at any moment. `TypeOK`, `StartedOnce`, `RunningIsMarkedUnlessRaced`,
  and under fairness `DueTaskStarts` and `StopReturns`. Two tasks are what the loop needs to
  have read a row long before it marks it; two runs are what it takes to start one
  task twice.
* `task_scheduler_edit` (violation of `RunningIsMarked`): an edit that straddles the marking makes
  the task pending again while it runs.

Not in a run: the error of a pass is assigned to a variable that shadows the one tested at the end
(`runner.go:208`, 312), so a task that failed ends as completed. `EndTask` does as the code does.

Fairness: the ticker ticks, goroutines go on, the model answers or fails. The exception
`Unstarted = {}` in `DueTaskStarts` is the bound on runs. `CHECK_DEADLOCK FALSE`: there
are finitely many runs, edits and restarts.

### What is proved

`TaskSchedulerProofs.tla`, for any tasks, runs, editors and limits: `TypeCorrect`, `TaskStartedOnce`
and `TaskIsMarked`. Assumed: runs are numbers (a run names the chat it creates), `None` is
neither a task nor a run, a task has at least one pass, and the bounds on faults and restarts
are natural numbers.

* `Typed` is inductive alone: types, and that a goroutine that is under way, an edit that has
  read and a loop that is at a task each have the row they work with.
* `Once` is inductive given `Typed`. `StartedOnce` itself is not: a task that was started could be
  pending again, or be in the list the loop has read before. `Once` says of every task
  whose row was not overwritten by a stale copy that having been started it has one run, a row
  that is not pending, and no copy in the loop's list.
* `RunningIsMarkedUnlessRaced` is inductive given these: `Once` tells that the steps of one
  run write to the row of no other.

Only model-checked: `DueTaskStarts` and `StopReturns`. `RunningIsMarked` does not hold.

## MlxThread

All of `mlx/mlxthread/thread.go`. `worker` is the goroutine that is locked to an OS thread, `stopping` and
`done` the flag and the channel of the thread, and `call[c]` a call of `Do` or `Stop`: where it is, what came
over its result channel, what it has returned. A step is one load, store or compare-and-swap of the
flag, one test of a context, or one channel operation; the jobs channel has no buffer, so `Send` is
a step of the caller and the worker together. `Call` is `Do` with a value, and `nil` contexts are contexts
that do not end. A function returns, fails or panics.

`SerialExecutor` is what the thread promises, without flag, channels or program counters: each
function runs at most once, one at a time, none after a cleanup; a caller that is told that its
function was refused can rely on its never running; only who has cancelled is told so, and
nobody hears that the thread is stopped before somebody has asked for that. It models no code of its
own. `Executor` in `MlxThread` is its instance: the fate of a function follows from where the
worker and the call are, what a caller has been told is what it has returned.

* `mlx_thread`: two calls of `Do` and two of `Stop`, with cancellation at any moment, every outcome of a
  function and an initialisation that may fail. `TypeOK`, `StoppingIsOwned`, the refinement
  `IsSerialExecutor`, and under fairness `DoReturns` and `StopReturns`. Two of each are what it takes for
  a `Do` to be between its test of the flag and its send while one `Stop` is withdrawn and another
  waits. `CHECK_DEADLOCK FALSE`: the calls are finitely many.

Fairness: weak, on the worker and on every call; no context has to end. `StopReturns` excepts a
`Stop` that joined one whose context then ended: it waits for the next one to be called.

Proved in `MlxThreadProofs.tla`, for any calls: `TypeCorrect`, `FlagIsOwned`, and
`ThreadIsSerialExecutor`. The inductive invariant `Inv` adds to the types who owns the worker (the caller
of the function that runs waits for it, and nobody else does), who owns the flag (the one `Stop`
between its compare-and-swap and its withdrawal, or whose cleanup was taken), and that `done` is closed
only after a cleanup. With it every step is mapped: most change nothing of the executor, `Send` is
`Begin`, `RunJob` is `End`, and each way to return is `Report`, `Refuse` or `GiveUp`. Only
model-checked: `DoReturns` and `StopReturns`.

## PrefixCache

The cache of prompts of the MLX runner. `CacheLayers` holds the caches of one layer of each kind
(`mlxrunner/cache/kvcache.go`, `recurrent.go`) as operators: an attention layer with one entry per token,
which can be rewound; a recurrent layer with one state, which cannot. An entry is modelled by the
tokens it was computed from, so that serving a request from entries of other tokens is visible.
Snapshots of attention layers are lazy: they name slots of the buffer until these are about to be
overwritten, are copied out then, and only then counted. `PrefixCache` is the trie
(`cache_trie.go`) and the operations of `prefix_cache.go` and `pipeline.go` over it: `Begin`
(matching, `switchToPath`, paging in and out, the restore of all layers to one offset),
`SchedulePrefill`, `PrefillStep`, `Cancel`, `Decode`, `Close`. One goroutine serves requests, so a step is
a whole operation; what interleaves is the sequence of requests, their cancellation between
chunks, and eviction inside every operation that stores something.

`c` is the `prefixCache` (trie, path, byte count, and the layers), `s` the session. A node is named
by the tokens from the root to its end. A model is its sequence of kinds of layers.

* `prefix_cache`: four requests out of five prompts over two tokens and one image, one of two answers or a
  cancellation at any chunk, with attention layers alone or with a recurrent layer before or after them,
  and room for three units of snapshots. `TypeOK`, `LiveStateIsOfTheStream`, `NodesHoldTheirEdge`,
  `BytesAreCounted`, `NoPanic`, `ResumesDeepest`. Prompts share prefixes of every length up to four:
  enough to split a node, to resume inside one and to merge two again; the third request meets a
  trie with a branch, the fourth one that eviction has cut. `CHECK_DEADLOCK FALSE`: the requests are
  finitely many.

`PromptsAssumption`: no prompt ends in an image, as `prefix_cache.go:22-23` takes for granted;
`media.go:96` would otherwise cut the last chunk inside it. Not modelled: rotating
(sliding-window) layers, the draft layers of speculative decoding (`draftLookahead` is 0), sizes in bytes
beyond one unit per entry.

Proved in `PrefixCacheProofs.tla`, for any tokens, prompts and answers, any models, limits and intervals, and any
number of requests: `TypeCorrect`, `BytesCounted` and `NeverPanics`. Assumed: the assumptions on constants in
`CacheLayers.tla` and `PrefixCache.tla`; images may lie anywhere but at the end of a prompt.

One invariant carries all three, `IInv`: there is a token `m` for which the cache is `Standing`, that is

* the cache is `Ready`: its keys are a finite set closed under common prefixes (`Tree`, from which follows that a
  child's edge begins with a token no sibling's does); a snapshot spans exactly the edge of its node, lies in the
  buffer if it is lazy and has its entries if it is not, and a recurrent state has the length of its key (`NodeIs`);
  in a model with attention layers no node but the root is without entries (`Held`), so a merge loses none;
  the bytes are the sum over the nodes; and the path is that of its last key (`PathTo`);
* every layer is at token `m`, and the path ends no further than that;
* the session is `Served`: `m` is within what the request has evaluated, short of the last token of its prompt
  while that is being prefilled;
* the session is `OnSchedule`: a capture that the layers have prepared is one the session still has pending, began
  at the end of the path, and every offset of it is ahead of that.

`TypeOK`, the byte count and the absence of panics are not inductive without these. `PrepareSnapshots` panics on a
schedule that an earlier prefill has left, which `OnSchedule` excludes at every way a request can end; `splitNode`
panics on a split at an end of an edge, which is where the layers' common offset could fall if they were not all at
one; `close` and `advancePath` on layers ahead of the tokens of the request. The byte count needs to know that a lazy
snapshot is where its slots are: whatever is overwritten is copied out before and counted then.

The argument goes operation by operation: lemmas on keys and their common prefixes, on trees of keys under a split, an
insertion and a merge, on paths, on snapshots; then one lemma for each operator of the model
(`SplitNodeIs`, ..., `AdvancePathIs`, `AttachPrefillIs`), and one for each action. The loops of the code
(eviction, rewinding, paging in, aligning, attaching captures, decoding) are folds over sequences. `FoldInduction`
says once what a loop keeps: the body of the loop is a constant operator there, for which each loop puts its own
(`Eviction`, `Rewinding`, `Paging`, ...), and what must hold after round `i` is a set `D[i]`. Its proof
goes through the least counterexample, as no induction scheme with an operator argument can be instantiated.

Only model-checked: `LiveStateIsOfTheStream`, `NodesHoldTheirEdge`, and the action property `ResumesDeepest`. The first two
are about which tokens an entry was computed from, of which `IInv` says only where they lie and how many they are.

## BlobUpload

One blob and its pushes, each to a repository. `push[p]` is a call of `uploadBlob`; `upload[u]` the
`blobUpload` that push `u` created: where `Run` is, its parts, the channel `nextURL` (nil, empty, full),
the cancel function, the references, `done` and `err`; `manager` the entry of `blobUploadManager`; `stored`
the repositories that have the blob, which is the registry's state. `crashed` is a nil pointer that ends
the process.

Actions follow `uploadBlob` (`HeadFinds`, `HeadMisses`, `Create`, `Join`), `Prepare` (`PrepareMounted`,
`PrepareFails`), `Wait` (`Acquire`, `Poll`, `Leave`, with `Release`), `Run` (`OpenFile`, `HandURL`, `SkipPart`,
`GroupWait`, `ReceiveURL`, `Commit`, `Publish`, `RunEnds`) and `uploadPart` (`PatchSucceeds`, `PutSucceeds`,
`Redirected`, `RedirectedAstray`, then `SendURL`; `PartFails`, `PartCancelled`). A part whose answer has a URL sends it on
`nextURL`, a channel of one place, in a step of its own that no cancellation interrupts; a redirect, of a PATCH or of a
PUT, is looked at only after that send (254), so a redirect without a location sends and then counts as a failed
attempt. `Publish` writes `err` and `done` in either order, since `Wait` reads them without
synchronisation. When `Run` has ended, only what `Wait` and `release` look at is kept. Abstracted: sizes and
hashes; that at most 64 parts are sent at a time; a token that must be refreshed is a failed attempt; the registry
is one set of repositories and may do anything its protocol allows.

* `blob_upload`: two pushes to two repositories, two parts, two attempts at each request. `TypeOK` (with the
  exact count of pollers), `OneUpload`, `CrashNeedsLeave`, and under fairness `PushReturns`. Two parts are what
  it takes to hand a URL on and to leave one out; two attempts are a retry and a failure; a second push
  joins, outlives or succeeds the first. `CHECK_DEADLOCK FALSE`: pushes end.
* `blob_upload_complete` (violation of `UploadIsComplete`): the manager is keyed by the digest alone, so a push to
  one repository joins the upload to another and returns nil although its own repository does not have
  the blob. In the shortest execution the first push has its blob mounted and still polls when the second finds its
  upload, polls it and returns. (Were the second the only one to poll, its release would call a `CancelFunc` that may not
  be set yet, and the process ends: the property speaks of processes that go on.) An upload that was mounted also stays
  in the manager for good, because its `Run` receives from a nil channel.

The exceptions in the properties are behaviours of the code. `CrashNeedsLeave`: the last client can leave
before `Run` has set `CancelFunc` (`upload.go:315`), as it can in the download; and a cancelled `Run` leaves
parts out without an error, so that it may reach the hash of a part that was not sent (187).
`PushReturns`: pushes that joined an upload whose `Prepare` then failed poll it until their clients leave (395). So do
those of an upload whose `Run` is stuck (`Stuck`): a part that is redirected to nowhere and tries again, or is redirected
twice, sends a second URL; when no later part takes the first, the send blocks for ever, `g.Wait` (177) with it, and
neither `err` nor `done` is ever set, although `upload.go:128` says "Run sets b.err on error". Only the release of
the last client cancels such a `Run`, and it does not end even then. The property shows that nothing
else keeps a push from returning.

Fairness: weak, on each push, each `Run` and each part: goroutines go on, requests end, the ticker ticks. Nothing
is assumed of clients.

Proved in `BlobUploadProofs.tla`, for any number of pushes, repositories, parts and attempts: `TypeCorrect`,
`OneUploadAtATime` and `CrashesAreExcused`. `IInv` adds to the types and to the exact count of pollers what a push
knows of the upload it has found (`Knows`: the one it prepares is its own and is not running), what is true of an upload
at each point of its `Run` (`Sound`), and that an upload cancelled before its end was either left by a client or
already done (`Excused`). The step that matters is `ReceiveURL`, where the hash of every part is read: `Sound`
tells that a part the loop has passed without sending is one whose group was over, and that with no error this
means a cancellation, for which `Excused` has a client that left. Assumed: the assumptions on constants in
`BlobUpload.tla`; pushes are finitely many.

## LayerStore

The models directory: `blob[d]` is the file of a digest (absent, good, bad), `manifest[n]` that of a name (missing, torn,
or whole with its digests). `op[c]` is an operation of a client with its locals: a pull, create, copy or
delete. A step is one access to a file: blobs are found, awaited, verified and removed one by one, manifests are
truncated and then written, listed and then read one by one. There is no lock in the code and none here. How a
blob is downloaded is `BlobDownload`'s matter; `Downloaded` lets it arrive with the right content or a wrong one, for all who
wait for it. `arriving` has the digests for which that may yet happen: a download whose last client has left is
cancelled, but may be past the point where it notices, and is then renamed into place for nobody. `Restart` stops the server anywhere and starts it again, with the prune that `Serve` does unless a
manifest is torn. A file that is deleted while an operation has it open stays with that operation (`Detached`).

`exposed` is a history variable: the digests whose blob one operation was about to remove (it was reading
manifests with the digest on its list, or might find a bad download in its place) while another had found the blob
and was about to write a manifest with it. `BlobsAreKept` says that this race, which the code does not
exclude, is the only way to lose a blob that a manifest names: neither the order of removal and
replacement in any one operation, nor torn manifests, nor a stop at any point, nor the prune does it.

* `layer_store`: two models, three digests, two operations at a time out of three, one stop. `TypeOK` (with what a pull
  may remove), `BlobsAreKept`. Two models are what it takes to share a blob, three digests are a shared layer and two
  configs; a third operation meets what the first two left. Clients are symmetric. `CHECK_DEADLOCK FALSE`: operations
  are finitely many.

Abstracted: the order of layers, and those of templates, system prompts and parameters, which are found or written like
any other; that a create reads its source and the manifest it replaces (`create.go:145`) one after the other;
that a removal stops at the first file it cannot remove (`manifest.go:134`), which leaves more blobs, never fewer; a create whose source is not there pulls it first, which is left out (the pull
and the create are modelled each); drafts and the staging of safetensors; tensor layers, which `x/transfer`
moves; a copy whose source is removed and made anew between its open and its read; that the prune of one server runs beside another one on the same
directory (`images.go:37` says that it may). A blob younger than an hour is spared by the prune, so it removes any
subset of the unreferenced.

Two behaviours a reader should know of. A stop between the rename of a blob and its verification leaves it
unverified, and the next pull takes it for a cache hit (`images.go:1079`); the model has it (`"bad"`). And a torn manifest cannot
be deleted through the API, since `DeleteHandler` must parse it first (`routes.go:1307`), although `routes.go:1991`
says "Re-pull or delete to clear".

Proved in `LayerStoreProofs.tla`, for any number of clients, models, digests and operations: `TypeCorrect` and
`ModelsKeepTheirBlobs`. `BlobsAreKept` is not inductive. `IInv` adds: the types; what each operation knows at each point (`Sound`:
a pull that verifies has every digest of its manifest, a removal list is free of them); that every
contended digest is recorded (`ContendedIsExposed`); that what an operation is to write is there or exposed
(`WritersHave`); that what an operation may remove is named by no manifest it has already read (`UnusedBy`), nor by any if it is an
unverified download (`UnwrittenBy`). Beside it stands `Fresh`: a download that nobody awaits any more may still replace a
blob, but the blob of a pull that has yet to verify it only if that blob was removed under the pull, which is
then recorded. The steps that matter are `Encode`, where a manifest gets digests of
which `WritersHave` tells that they are there and `ContendedIsExposed` that nobody is about to remove them unrecorded, 
`Remove`, where `UnusedBy` tells that no manifest names the blob, and `Downloaded`, where `Fresh` tells that no manifest names
a blob that turns bad under a pull. Assumed: the assumptions on constants in `LayerStore.tla`.

## What proofs cannot reach here

Liveness under fairness and ENABLED are not supported by the proof system, nor are recursive operators, and no theorem
with an operator for a parameter can be instantiated by the installed provers. The liveness properties stay with TLC. No
module here declares a recursive operator; what the loops of `PrefixCache` keep is proved by way of `FoldInduction`.

## Not modelled

The components marked as planned, and the rest of the table: conversions and handlers without state, text, tensors,
device queries, the window and the command line. They are the larger part of the lines of this repository, and most have
no state that outlives a call.

## Files

`<Module>.tla` is a component, `MC<Module>.tla` its instances for TLC, `<Module><Question>.cfg` the
configuration of a run, `<Module>Proofs.tla` its theorems,
`FoldInduction.tla` what they need of folds. Operators whose comment begins
with "Seeded fault" are mistakes a change to the code could make; each property is shown
to fail when one of them takes the place of the definition below it. `PROJECT.json` maps every
definition to the lines it models and lists runs, findings, hazards and theorems.
