---------------------------- MODULE BlobDownload ----------------------------
(***************************************************************************)
(* Pulling one blob: downloadBlob and blobDownload of server/download.go,  *)
(* and the part of PullModel (server/images.go) that verifies the blob and *)
(* writes the manifest.                                                    *)
(*                                                                         *)
(* A pull looks for the blob on disk, then for a download of it in         *)
(* blobDownloadManager.  The pull that stores a new one prepares it, which *)
(* reads or creates the part files, and starts its Run goroutine; every    *)
(* pull then waits for it, holding a reference.  The last reference that   *)
(* is released cancels the run.  Run downloads the parts concurrently,     *)
(* each with retries, saves the progress of each in its part file, and     *)
(* renames the result to the blob.  The disk survives a crash.             *)
(***************************************************************************)
EXTENDS Integers, Sequences, FiniteSets, FiniteSetsExt

CONSTANTS
    Pulls,       \* the calls of PullModel
    Downloads,   \* identities of blobDownloads; a bound on their number
    None,        \* Go's nil, and a file that does not exist
    BlobSize,    \* bytes of the blob
    PartSize,    \* bytes of a part, but for the last one
    MaxRetries,  \* attempts of a part
    MaxFaults,   \* bound: failed requests, stalls and disk errors
    MaxCrashes   \* bound: crashes of the server

ASSUME PullsAssumption == None \notin Downloads /\ IsFiniteSet(Pulls)
ASSUME SizeAssumption == BlobSize \in Nat \ {0} /\ PartSize \in Nat \ {0}
ASSUME RetryAssumption == MaxRetries \in Nat \ {0}
ASSUME BoundAssumption == MaxFaults \in Nat /\ MaxCrashes \in Nat

VARIABLES
    partial,     \* <digest>-partial, a sequence of bytes
    partFile,    \* <digest>-partial-<N>: absent, corrupt or ok
    saved,       \* Completed, as part file N has it
    blob,        \* the blob file, or None
    manifest,    \* whether the manifest that names the blob is written
    blobDownloadManager, \* the download in progress, or None
    download,    \* the blobDownloads
    pull,        \* the calls of PullModel
    panicked,    \* whether a goroutine has called a nil CancelFunc
    torn,        \* whether a download resumed from a part of the part files
    budget       \* faults and crashes left

disk == <<partial, partFile, saved, blob, manifest>>
vars == <<partial, partFile, saved, blob, manifest, blobDownloadManager,
          download, pull, panicked, torn, budget>>

-----------------------------------------------------------------------------
(* Bytes and parts.                                                         *)
Parts == 0 .. (BlobSize - 1) \div PartSize
BytesOf(i) == {b \in 1 .. BlobSize : (b - 1) \div PartSize = i}
Size(i) == Cardinality(BytesOf(i))
SizeOf(S) == Cardinality(UNION {BytesOf(i) : i \in S})
Good == [b \in 1 .. BlobSize |-> "good"]

(* The positions of n bytes of part i, after its first from ones.           *)
Section(i, from, n) == {i * PartSize + from + k : k \in 1 .. n}

(* Grow the file to len bytes, or cut it; what was never written is a hole. *)
Truncate(len) ==
    [b \in 1 .. len |-> IF b <= Len(partial) THEN partial[b] ELSE "hole"]

(* Write bytes at the positions bs, growing the file as needed.             *)
WriteAt(bs) ==
    [b \in 1 .. Max(bs \cup {Len(partial)}) |->
       IF b \in bs THEN "good" ELSE IF b <= Len(partial) THEN partial[b] ELSE "hole"]

Present == {i \in Parts : partFile[i] # "absent"}
Readable == {i \in Parts : partFile[i] = "ok"}

NoPart == [pc |-> "idle", completed |-> 0, tries |-> 0, then |-> "ok"]

(* run: where the Run goroutine is; cancel: the CancelFunc; err: what run   *)
(* returns, whose first non-nil value also cancels the parts' context.      *)
NewDownload == [run |-> "new", cancel |-> "nil", references |-> 0, done |-> "nil",
                err |-> "none", total |-> 0, parts |-> {}, removed |-> 0,
                part |-> [i \in Parts |-> NoPart]]

NewPull == [pc |-> "start", d |-> None, cacheHit |-> FALSE, read |-> None,
            next |-> 0, result |-> "none", gone |-> FALSE]

Fault == budget.faults > 0 /\ budget' = [budget EXCEPT !.faults = @ - 1]

(* PullModel returns; what it knew is forgotten.                            *)
Return(u, result) ==
    pull' = [pull EXCEPT ![u] =
               [NewPull EXCEPT !.pc = "over", !.result = result, !.gone = pull[u].gone]]

Unused(d) == download[d] = NewDownload /\ \A v \in Pulls : pull[v].d # d

-----------------------------------------------------------------------------
(* downloadBlob, by the pull u.                                             *)

(* os.Stat: the blob is there already, or a download is needed.             *)
Stat(u) ==
    /\ pull[u].pc = "start"
    /\ pull' = IF blob = None THEN [pull EXCEPT ![u].pc = "join"]
               ELSE [pull EXCEPT ![u].pc = "manifest", ![u].cacheHit = TRUE]
    /\ UNCHANGED <<disk, blobDownloadManager, download, panicked, torn, budget>>

(* LoadOrStore: a download that is in the manager is joined as it is, also  *)
(* one that is not prepared yet, or that has been cancelled.                *)
LoadOrStore(u) ==
    /\ pull[u].pc = "join"
    /\ \/ /\ blobDownloadManager # None
          /\ pull' = [pull EXCEPT ![u].pc = "acquire", ![u].d = blobDownloadManager]
          /\ UNCHANGED blobDownloadManager
       \/ /\ blobDownloadManager = None
          /\ \E d \in Downloads : Unused(d)
          /\ LET d == CHOOSE d \in Downloads : Unused(d) IN
               /\ blobDownloadManager' = d
               /\ pull' = [pull EXCEPT ![u].pc = "prepare", ![u].d = d]
    /\ UNCHANGED <<disk, download, panicked, torn, budget>>

(* Prepare: read the part files and drop the corrupt ones.                  *)
PrepareRead(u) ==
    /\ pull[u].pc = "prepare"
    /\ LET d == pull[u].d IN
         /\ download' = [download EXCEPT ![d].done = "open",
              ![d].parts = Readable, ![d].total = SizeOf(Readable),
              ![d].part = [i \in Parts |-> IF i \in Readable
                           THEN [NoPart EXCEPT !.completed = saved[i]] ELSE NoPart]]
         /\ partFile' = [i \in Parts |-> IF i \in Readable THEN "ok" ELSE "absent"]
         /\ pull' = [pull EXCEPT ![u].pc = IF Readable = {} THEN "head"
                                   ELSE IF Readable # Present THEN "reset" ELSE "go"]
         /\ torn' = (torn \/ (Present = Readable /\ Readable \notin {{}, Parts}))
    /\ UNCHANGED <<partial, saved, blob, manifest, blobDownloadManager, panicked, budget>>

(* Some were corrupt: start afresh.                                         *)
PrepareReset(u) ==
    /\ pull[u].pc = "reset"
    /\ partFile' = [i \in Parts |-> "absent"]
    /\ download' = [download EXCEPT ![pull[u].d].parts = {}, ![pull[u].d].total = 0,
                                    ![pull[u].d].part = [i \in Parts |-> NoPart]]
    /\ pull' = [pull EXCEPT ![u].pc = "head"]
    /\ UNCHANGED <<partial, saved, blob, manifest, blobDownloadManager, panicked, torn, budget>>

(* The HEAD request that tells the size of the blob.                        *)
PrepareHead(u) ==
    /\ pull[u].pc = "head"
    /\ pull' = [pull EXCEPT ![u].pc = "newPart"]
    /\ download' = [download EXCEPT ![pull[u].d].total = BlobSize]
    /\ UNCHANGED <<disk, blobDownloadManager, panicked, torn, budget>>

(* Create one part file after the other.                                    *)
NewPartFile(u) ==
    /\ pull[u].pc = "newPart"
    /\ LET i == pull[u].next IN
         /\ partFile' = [partFile EXCEPT ![i] = "ok"]
         /\ saved' = [saved EXCEPT ![i] = 0]
         /\ download' = [download EXCEPT ![pull[u].d].parts = @ \cup {i}]
         /\ pull' = [pull EXCEPT ![u].next = i + 1,
                                 ![u].pc = IF i + 1 \in Parts THEN @ ELSE "go"]
    /\ UNCHANGED <<partial, blob, manifest, blobDownloadManager, panicked, torn, budget>>

(* Prepare failed, in the request, which the client may cancel, or on disk, *)
(* where it may have truncated the next part file: nobody will close done.  *)
PrepareFails(u) ==
    /\ \/ /\ pull[u].pc = "head"
          /\ \/ Fault /\ Return(u, "failed")
             \/ pull[u].gone /\ Return(u, "canceled") /\ UNCHANGED budget
          /\ UNCHANGED partFile
       \/ /\ pull[u].pc = "newPart"
          /\ Fault /\ Return(u, "failed")
          /\ partFile' \in {partFile, [partFile EXCEPT ![pull[u].next] = "corrupt"]}
    /\ blobDownloadManager' = None
    /\ UNCHANGED <<partial, saved, blob, manifest, download, panicked, torn>>

(* go download.Run(context.Background(), ...)                               *)
GoRun(u) ==
    /\ pull[u].pc = "go"
    /\ download' = [download EXCEPT ![pull[u].d].run = "open"]
    /\ pull' = [pull EXCEPT ![u].pc = "acquire"]
    /\ UNCHANGED <<disk, blobDownloadManager, panicked, torn, budget>>

-----------------------------------------------------------------------------
(* Wait, by the pull u.                                                     *)

Acquire(u) ==
    /\ pull[u].pc = "acquire"
    /\ download' = [download EXCEPT ![pull[u].d].references = @ + 1]
    /\ pull' = [pull EXCEPT ![u].pc = "wait"]
    /\ UNCHANGED <<disk, blobDownloadManager, panicked, torn, budget>>

WaitDone(u) ==
    /\ pull[u].pc = "wait"
    /\ download[pull[u].d].done = "closed"
    /\ pull' = [pull EXCEPT ![u].pc = "release", ![u].result = download[pull[u].d].err]
    /\ UNCHANGED <<disk, blobDownloadManager, download, panicked, torn, budget>>

WaitCanceled(u) ==
    /\ pull[u].pc = "wait"
    /\ pull[u].gone
    /\ pull' = [pull EXCEPT ![u].pc = "release", ![u].result = "canceled"]
    /\ UNCHANGED <<disk, blobDownloadManager, download, panicked, torn, budget>>

(* Progress is reported to the channel that the handler streams from: at a  *)
(* tick, and before each stage of the pull.  As long as the handler reads,  *)
(* that changes nothing; when it has stopped, the send blocks for ever, and *)
(* a reference that is held is never released.                              *)
ReportBlocks(u) ==
    /\ pull[u].pc \in {"wait", "verify", "manifest"}
    /\ pull[u].gone
    /\ pull' = [pull EXCEPT ![u].pc = "blocked"]
    /\ UNCHANGED <<disk, blobDownloadManager, download, panicked, torn, budget>>

(* Seeded fault: the first pull that leaves cancels the run for the others. *)
LastReferenceAny(n) == TRUE

(* b.references.Add(-1) == 0, of n before.                                  *)
LastReference(n) == n = 1

(* The last reference calls CancelFunc, which is nil until Run has set it.  *)
Release(u) ==
    /\ pull[u].pc = "release"
    /\ LET d == pull[u].d
           last == LastReference(download[d].references)
       IN  /\ download' = [download EXCEPT
                ![d].references = @ - 1,
                ![d].cancel = IF last /\ @ = "set" THEN "called" ELSE @]
           /\ panicked' = (panicked \/ (last /\ download[d].cancel = "nil"))
    /\ IF pull[u].result = "none" THEN pull' = [pull EXCEPT ![u].pc = "verify", ![u].d = None]
                                   ELSE Return(u, pull[u].result)
    /\ UNCHANGED <<disk, blobDownloadManager, torn, budget>>

(* The client leaves: the context is done, and the handler stops reading    *)
(* after at most one more report.                                           *)
ClientLeaves(u) ==
    /\ pull[u].pc \notin {"start", "blocked", "over"}
    /\ ~pull[u].gone
    /\ pull' = [pull EXCEPT ![u].gone = TRUE]
    /\ UNCHANGED <<disk, blobDownloadManager, download, panicked, torn, budget>>

-----------------------------------------------------------------------------
(* The rest of PullModel, which does not look at its context any more.      *)

(* verifyBlob hashes what it opens ...                                      *)
VerifyHash(u) ==
    /\ pull[u].pc = "verify"
    /\ pull' = [pull EXCEPT ![u].pc = "verified", ![u].read = blob]
    /\ UNCHANGED <<disk, blobDownloadManager, download, panicked, torn, budget>>

(* ... and on a mismatch PullModel removes whatever has that name by then.  *)
VerifyAct(u) ==
    /\ pull[u].pc = "verified"
    /\ \/ /\ pull[u].read = Good
          /\ pull' = [pull EXCEPT ![u].pc = "manifest"]
          /\ UNCHANGED blob
       \/ /\ pull[u].read = None
          /\ Return(u, "failed")
          /\ UNCHANGED blob
       \/ /\ pull[u].read \notin {None, Good}
          /\ Return(u, "mismatch")
          /\ blob' = None
    /\ UNCHANGED <<partial, partFile, saved, manifest, blobDownloadManager,
                   download, panicked, torn, budget>>

WriteManifest(u) ==
    /\ pull[u].pc = "manifest"
    /\ manifest' = TRUE
    /\ Return(u, "success")
    /\ UNCHANGED <<partial, partFile, saved, blob, blobDownloadManager,
                   download, panicked, torn, budget>>

-----------------------------------------------------------------------------
(* The Run goroutine of the download d.                                     *)

CtxDone(d) == download[d].cancel = "called" \/ download[d].err # "none"

(* run returns: its deferred calls follow.                                  *)
RunReturns(d, err) ==
    download' = [download EXCEPT ![d].run = "delete", ![d].err = err]

(* Seeded fault: the download is deleted when run begins, for want of a     *)
(* defer.                                                                   *)
RunOpenDeletes(d) ==
    /\ download[d].run = "open"
    /\ download' = [download EXCEPT ![d].run = "direct", ![d].cancel = "set"]
    /\ partial' = Truncate(download[d].total)
    /\ blobDownloadManager' = None
    /\ UNCHANGED <<partFile, saved, blob, manifest, pull, panicked, torn, budget>>

(* Set CancelFunc, open the data file and give it its size.                 *)
RunOpen(d) ==
    /\ download[d].run = "open"
    /\ download' = [download EXCEPT ![d].run = "direct", ![d].cancel = "set"]
    /\ partial' = Truncate(download[d].total)
    /\ UNCHANGED <<partFile, saved, blob, manifest, blobDownloadManager, pull,
                   panicked, torn, budget>>

(* The direct URL: errors are retried for 30 seconds.                       *)
RunDirect(d) ==
    /\ download[d].run = "direct"
    /\ \/ /\ CtxDone(d)
          /\ RunReturns(d, "canceled")
          /\ UNCHANGED budget
       \/ /\ Fault
          /\ RunReturns(d, "failed")
       \/ /\ download' = [download EXCEPT ![d].run = "parts",
               ![d].part = [i \in Parts |->
                  IF i \in download[d].parts /\ @[i].completed # Size(i)
                  THEN [@[i] EXCEPT !.pc = "copy"] ELSE [@[i] EXCEPT !.pc = "end"]]]
          /\ UNCHANGED budget
    /\ UNCHANGED <<disk, blobDownloadManager, pull, panicked, torn>>

(* An attempt failed: the next one follows, or none does on a full disk.    *)
Tried(n) == {n + 1, MaxRetries}

(* Seeded fault: the bytes that were asked for are counted.                 *)
CountedWhole(i, completed, n) == Size(i)

(* part.Completed.Add(n)                                                    *)
Counted(i, completed, n) == completed + n

(* downloadChunk: n bytes arrive and are written to the data file; unless   *)
(* they are rolled back they are counted, and the part file is truncated to *)
(* be written anew.  A stall and a cancellation end the copy as cancelled;  *)
(* what a crash leaves between the two writes is also what "error" leaves.  *)
Copy(d, i) ==
    /\ download[d].run = "parts"
    /\ download[d].part[i].pc = "copy"
    /\ LET part == download[d].part[i]
           rest == Size(i) - part.completed
       IN  \E n \in 0 .. rest,
              outcome \in {"ok", "canceled", "short", "stalled", "error"} :
             /\ outcome = "ok" <=> n = rest
             /\ outcome = "canceled" => CtxDone(d)
             /\ IF outcome \in {"ok", "canceled"} THEN UNCHANGED budget ELSE Fault
             /\ partial' = WriteAt(Section(i, part.completed, n))
             /\ \E tries \in Tried(part.tries) :
                  download' = [download EXCEPT ![d].part[i] =
                    IF outcome = "error"
                    THEN [part EXCEPT !.pc = "retry", !.tries = tries]
                    ELSE [part EXCEPT !.pc = "save", !.then = outcome,
                                      !.completed = Counted(i, @, n)]]
             /\ partFile' = IF outcome = "error" THEN partFile
                            ELSE [partFile EXCEPT ![i] = "corrupt"]
    /\ UNCHANGED <<saved, blob, manifest, blobDownloadManager, pull, panicked, torn>>

(* writePart completes, or fails and leaves a corrupt part file.            *)
WritePart(d, i) ==
    /\ download[d].run = "parts"
    /\ download[d].part[i].pc = "save"
    /\ LET part == download[d].part[i] IN
         \/ /\ partFile' = [partFile EXCEPT ![i] = "ok"]
            /\ saved' = [saved EXCEPT ![i] = part.completed]
            /\ download' = [download EXCEPT
                 ![d].part[i].pc = IF part.then \in {"ok", "canceled"} THEN "end" ELSE "retry",
                 ![d].part[i].tries = IF part.then = "short" THEN @ + 1 ELSE @,
                 ![d].err = IF part.then = "canceled" /\ @ = "none" THEN "canceled" ELSE @]
            /\ UNCHANGED budget
         \/ /\ Fault
            /\ \E tries \in Tried(part.tries) :
                 download' = [download EXCEPT ![d].part[i].pc = "retry",
                                              ![d].part[i].tries = tries]
            /\ UNCHANGED <<partFile, saved>>
    /\ UNCHANGED <<partial, blob, manifest, blobDownloadManager, pull, panicked, torn>>

(* The next attempt of the part, or the end of its attempts: the error of   *)
(* the group cancels the other parts.                                       *)
Retry(d, i) ==
    /\ download[d].run = "parts"
    /\ download[d].part[i].pc = "retry"
    /\ \/ /\ download[d].part[i].tries < MaxRetries
          /\ download' = [download EXCEPT ![d].part[i].pc = "copy"]
       \/ /\ download[d].part[i].tries >= MaxRetries
          /\ download' = [download EXCEPT ![d].part[i].pc = "end",
               ![d].err = IF @ = "none" THEN "failed" ELSE @]
    /\ UNCHANGED <<disk, blobDownloadManager, pull, panicked, torn, budget>>

(* Seeded fault: the error of g.Wait() is ignored.                          *)
IgnoredError(d) == FALSE

(* err := g.Wait(); err != nil                                              *)
GroupFailed(d) == download[d].err # "none"

(* g.Wait(); the parts are not looked at again.                             *)
RunWait(d) ==
    /\ download[d].run = "parts"
    /\ \A i \in Parts : download[d].part[i].pc = "end"
    /\ download' = [download EXCEPT
         ![d].run = IF GroupFailed(d) THEN "delete" ELSE "remove",
         ![d].part = [i \in Parts |-> NoPart]]
    /\ UNCHANGED <<disk, blobDownloadManager, pull, panicked, torn, budget>>

(* Seeded fault: one part file too many.                                    *)
RemainsOffByOne(d) == download[d].removed <= Cardinality(download[d].parts)

(* i < len(b.Parts)                                                         *)
RemainsToRemove(d) == download[d].removed < Cardinality(download[d].parts)

(* Remove as many part files as there are parts, counting from zero ...     *)
RunRemove(d) ==
    /\ download[d].run = "remove"
    /\ \/ /\ RemainsToRemove(d)
          /\ partFile' = [partFile EXCEPT ![download[d].removed] = "absent"]
          /\ download' = [download EXCEPT ![d].removed = @ + 1]
       \/ /\ ~RemainsToRemove(d)
          /\ download' = [download EXCEPT ![d].run = "rename"]
          /\ UNCHANGED partFile
    /\ UNCHANGED <<partial, saved, blob, manifest, blobDownloadManager, pull,
                   panicked, torn, budget>>

(* ... and give the data file the name of the blob.                         *)
RunRename(d) ==
    /\ download[d].run = "rename"
    /\ blob' = partial
    /\ partial' = <<>>
    /\ RunReturns(d, "none")
    /\ UNCHANGED <<partFile, saved, manifest, blobDownloadManager, pull, panicked,
                   torn, budget>>

(* The data file cannot be opened or closed, or a file removed or renamed.  *)
RunFails(d) ==
    /\ download[d].run \in {"open", "remove", "rename"}
    /\ Fault
    /\ download' = [download EXCEPT ![d].run = "delete", ![d].err = "failed",
                      ![d].cancel = IF @ = "nil" THEN "set" ELSE @]
    /\ UNCHANGED <<disk, blobDownloadManager, pull, panicked, torn>>

(* defer blobDownloadManager.Delete(b.Digest)                               *)
RunDelete(d) ==
    /\ download[d].run = "delete"
    /\ blobDownloadManager' = None
    /\ download' = [download EXCEPT ![d].run = "close"]
    /\ UNCHANGED <<disk, pull, panicked, torn, budget>>

(* Seeded fault: done is closed only if the download succeeded.             *)
RunCloseOnSuccess(d) ==
    /\ download[d].run = "close"
    /\ download' = [download EXCEPT ![d].run = "over",
                      ![d].done = IF GroupFailed(d) THEN @ ELSE "closed"]
    /\ UNCHANGED <<disk, blobDownloadManager, pull, panicked, torn, budget>>

(* b.err = ...; defer close(b.done)                                         *)
RunClose(d) ==
    /\ download[d].run = "close"
    /\ download' = [download EXCEPT ![d].run = "over", ![d].done = "closed"]
    /\ UNCHANGED <<disk, blobDownloadManager, pull, panicked, torn, budget>>

-----------------------------------------------------------------------------
(* The server dies and is started again.  The pulls end with it, and at the *)
(* start PruneLayers removes what was last written over an hour ago: part   *)
(* files, the data file (written as late as the last part file) and a blob  *)
(* without a manifest.                                                      *)
Crash ==
    /\ budget.crashes > 0
    /\ budget' = [budget EXCEPT !.crashes = @ - 1]
    /\ blobDownloadManager' = None
    /\ download' = [d \in Downloads |->
         IF Unused(d) THEN NewDownload ELSE [NewDownload EXCEPT !.run = "dead"]]
    /\ pull' = [u \in Pulls |-> IF pull[u].pc = "start" THEN pull[u]
                                ELSE [NewPull EXCEPT !.pc = "over"]]
    /\ \E old \in SUBSET Parts, oldData \in BOOLEAN, oldBlob \in BOOLEAN :
         /\ oldData => old = Parts
         /\ partFile' = [i \in Parts |-> IF i \in old THEN "absent" ELSE partFile[i]]
         /\ partial' = IF oldData THEN <<>> ELSE partial
         /\ blob' = IF oldBlob /\ ~manifest THEN None ELSE blob
    /\ UNCHANGED <<saved, manifest, panicked, torn>>

-----------------------------------------------------------------------------
Init ==
    /\ partial = <<>>
    /\ partFile = [i \in Parts |-> "absent"]
    /\ saved = [i \in Parts |-> 0]
    /\ blob = None
    /\ manifest = FALSE
    /\ blobDownloadManager = None
    /\ download = [d \in Downloads |-> NewDownload]
    /\ pull = [u \in Pulls |-> NewPull]
    /\ panicked = FALSE
    /\ torn = FALSE
    /\ budget = [faults |-> MaxFaults, crashes |-> MaxCrashes]

Prepare(u) ==
    PrepareRead(u) \/ PrepareReset(u) \/ PrepareHead(u) \/ NewPartFile(u) \/ PrepareFails(u)

Wait(u) ==
    Acquire(u) \/ WaitDone(u) \/ WaitCanceled(u) \/ Release(u)

PullModel(u) ==
    \/ Stat(u) \/ LoadOrStore(u) \/ Prepare(u) \/ GoRun(u) \/ Wait(u)
    \/ VerifyHash(u) \/ VerifyAct(u) \/ WriteManifest(u)

Chunk(d, i) == Copy(d, i) \/ WritePart(d, i) \/ Retry(d, i)

Run(d) ==
    \/ RunOpen(d) \/ RunDirect(d) \/ RunWait(d) \/ RunRemove(d)
    \/ RunRename(d) \/ RunFails(d) \/ RunDelete(d) \/ RunClose(d)

(* The Run goroutine and those of its parts.                                *)
RunGroup(d) == Run(d) \/ \E i \in Parts : Chunk(d, i)

(* A panic ends the process.                                                *)
Next ==
    /\ ~panicked
    /\ \/ \E u \in Pulls : PullModel(u) \/ ReportBlocks(u) \/ ClientLeaves(u)
       \/ \E d \in Downloads : RunGroup(d)
       \/ Crash

Spec == Init /\ [][Next]_vars

(***************************************************************************)
(* Fairness: the goroutines go on.  Requests end: they succeed, fail, or   *)
(* stall at most MaxFaults times.                                          *)
(***************************************************************************)
Fairness ==
    /\ \A u \in Pulls : WF_vars(~panicked /\ PullModel(u))
    /\ \A d \in Downloads : WF_vars(~panicked /\ RunGroup(d))

FairSpec == Spec /\ Fairness

-----------------------------------------------------------------------------
(* Properties.                                                              *)

DownloadRecord ==
    [run : {"new", "open", "direct", "parts", "remove", "rename", "delete", "close",
            "over", "dead"},
     cancel : {"nil", "set", "called"}, references : 0 .. Cardinality(Pulls),
     done : {"nil", "open", "closed"}, err : {"none", "canceled", "failed"},
     total : 0 .. BlobSize, parts : SUBSET Parts,
     removed : 0 .. Cardinality(Parts),
     part : [Parts -> [pc : {"idle", "copy", "save", "retry", "end"},
                       completed : 0 .. PartSize, tries : 0 .. MaxRetries,
                       then : {"ok", "canceled", "short", "stalled"}]]]

Content == {f \in Seq({"hole", "good"}) : Len(f) <= BlobSize}

PullRecord ==
    [pc : {"start", "join", "prepare", "reset", "head", "newPart", "go", "acquire",
           "wait", "blocked", "release", "verify", "verified", "manifest", "over"},
     d : Downloads \cup {None}, cacheHit : BOOLEAN, read : Content \cup {None},
     next : 0 .. Cardinality(Parts), gone : BOOLEAN,
     result : {"none", "success", "canceled", "failed", "mismatch"}]

(* Every variable has its type; in particular no part is ever longer than   *)
(* its size, no file longer than the blob, and no reference is released     *)
(* twice.                                                                   *)
TypeOK ==
    /\ partial \in Content
    /\ partFile \in [Parts -> {"absent", "corrupt", "ok"}]
    /\ saved \in [Parts -> 0 .. PartSize]
    /\ blob \in Content \cup {None}
    /\ manifest \in BOOLEAN
    /\ blobDownloadManager \in Downloads \cup {None}
    /\ download \in [Downloads -> DownloadRecord]
    /\ pull \in [Pulls -> PullRecord]
    /\ panicked \in BOOLEAN /\ torn \in BOOLEAN
    /\ budget \in [faults : 0 .. MaxFaults, crashes : 0 .. MaxCrashes]

UsesDisk(d) ==
    \/ download[d].run \in {"open", "direct", "parts", "remove", "rename"}
    \/ \E u \in Pulls : pull[u].d = d /\ pull[u].pc \in {"prepare", "reset", "head", "newPart", "go"}

(* blobDownloadManager keeps downloads of the same blob apart: while one    *)
(* prepares or runs, no other touches the data file and the part files,     *)
(* however pulls come, leave, fail and come again.                          *)
OneDownload == \A d \in Downloads : UsesDisk(d) => blobDownloadManager = d

(* A part file never claims bytes that the data file does not have, through *)
(* retries, cancellations and crashes, unless a download was resumed with   *)
(* some part files missing (run then cuts the data file too short).         *)
SavedIsOnDisk ==
    ~torn => \A i \in Parts : partFile[i] = "ok" =>
               \A b \in Section(i, 0, saved[i]) : b <= Len(partial) /\ partial[b] = "good"

(* "Cancelled pulls are resumed from where they left off": the blob that a  *)
(* pull verifies is whole, if the registry serves the right bytes.          *)
ResumesCleanly == \A u \in Pulls : pull[u].read \in {None, Good}

(* The same, unless a download was resumed with some part files missing;    *)
(* and the manifest is only written once the blob is there.                 *)
IntactUnlessTorn == ~torn => ResumesCleanly /\ (manifest => blob = Good)

Holds(u, d) == pull[u].d = d /\ pull[u].pc \in {"wait", "blocked"}

(* A run is never cancelled under a pull that waits for it.                 *)
NeverCancelInUse ==
    [][\A d \in Downloads :
         download[d].cancel # "called" /\ download'[d].cancel = "called"
           => \A u \in Pulls : ~Holds(u, d)]_vars

(* The download was given up in Prepare: its channel is never closed.       *)
NeverPrepared(d) == download[d].run = "new" /\ blobDownloadManager # d

(* A pull that waits is told the outcome, unless its client leaves or the   *)
(* pull that was to start the download failed to prepare it.                *)
PullReturns ==
    \A u \in Pulls :
      pull[u].pc = "wait" ~> \/ pull[u].pc # "wait"
                            \/ pull[u].gone
                            \/ NeverPrepared(pull[u].d)
                            \/ panicked
=============================================================================
