----------------------------- MODULE BlobUpload -----------------------------
(***************************************************************************)
(* The upload of one blob to a registry (server/upload.go).  Pushes of the *)
(* same blob share an upload through blobUploadManager, whichever          *)
(* repository they are for: the first prepares and starts it, all of them  *)
(* poll it.  Parts are sent in a chain of URLs: each is handed the URL the *)
(* registry has answered the one before with.  When the last push that     *)
(* polls it leaves, the upload is cancelled.                               *)
(*                                                                         *)
(* The registry is external: it has a blob in some repositories, may mount *)
(* it from one to another, redirect a part to a storage or to nowhere,     *)
(* fail any request, and carry one out whose answer is lost.  An upload is *)
(* named by the push that has created it.                                  *)
(***************************************************************************)
EXTENDS Naturals, FiniteSets

CONSTANTS
    Pushes,      \* calls of uploadBlob for the blob
    Repositories,
    Repository,  \* the one a push is for
    NumParts,    \* the parts of the blob
    MaxRetries,  \* maxRetries
    None

ASSUME PushesAssumption == None \notin Pushes /\ IsFiniteSet(Pushes)
ASSUME RepositoryAssumption == Repository \in [Pushes -> Repositories]
ASSUME NumbersAssumption == NumParts \in Nat /\ MaxRetries \in Nat \ {0}

VARIABLES
    push,     \* where each push is, and the upload it has found
    upload,   \* the uploads
    manager,  \* blobUploadManager: the upload it holds, or None
    stored,   \* the repositories that have the blob
    crashed   \* whether a nil pointer has ended the process

vars == <<push, upload, manager, stored, crashed>>

Parts == 1 .. NumParts
Errors == {"none", "cancelled", "failed"}

(* A part whose answer has a URL sends it on nextURL, which has one place,  *)
(* and looks at nothing else until it has.  The names say what it does      *)
(* next: it is done, follows the redirect, or had none to follow and tries  *)
(* the same request again.                                                  *)
Sending == {"accepted", "redirected", "patchAstray", "putAstray"}
Busy == {"patch", "put"} \cup Sending

UploadRecord ==
    [phase : {"none", "preparing", "unprepared", "start", "loop", "url", "commit", "publish",
              "ending", "ended"},
     parts : SUBSET Parts, next : Nat,
     part : [Parts -> Busy \cup {"new", "sent", "cancelled", "failed"}],
     tries : [Parts -> Nat], commits : Nat, result : Errors,
     nextURL : {"nil", "empty", "full"},
     cancelFunc : BOOLEAN, cancelled : BOOLEAN, references : Nat,
     done : BOOLEAN, err : Errors, unpublished : SUBSET {"done", "err"}]

NoUpload ==
    [phase |-> "none", parts |-> {}, next |-> 1,
     part |-> [i \in Parts |-> "new"], tries |-> [i \in Parts |-> 0], commits |-> 0,
     result |-> "none", nextURL |-> "nil", cancelFunc |-> FALSE, cancelled |-> FALSE,
     references |-> 0, done |-> FALSE, err |-> "none", unpublished |-> {}]

(* The ways a call of uploadBlob returns.                                   *)
Returned == {"ok", "err"}

-----------------------------------------------------------------------------
(* uploadBlob and Wait, for push p.                                         *)

Goes(p, pc) == push' = [push EXCEPT ![p].pc = pc]

HeadFinds(p) ==
    /\ push[p].pc = "head" /\ Repository[p] \in stored
    /\ Goes(p, "ok")
    /\ UNCHANGED <<upload, manager, stored, crashed>>

HeadMisses(p) ==
    /\ push[p].pc = "head" /\ Repository[p] \notin stored
    /\ Goes(p, "lookup")
    /\ UNCHANGED <<upload, manager, stored, crashed>>

HeadFails(p) ==
    /\ push[p].pc = "head"
    /\ Goes(p, "err")
    /\ UNCHANGED <<upload, manager, stored, crashed>>

(* LoadOrStore.                                                             *)
Create(p) ==
    /\ push[p].pc = "lookup" /\ manager = None
    /\ manager' = p
    /\ push' = [push EXCEPT ![p] = [pc |-> "prepare", of |-> p]]
    /\ upload' = [upload EXCEPT ![p].phase = "preparing"]
    /\ UNCHANGED <<stored, crashed>>

Join(p) ==
    /\ push[p].pc = "lookup" /\ manager # None
    /\ push' = [push EXCEPT ![p] = [pc |-> "join", of |-> manager]]
    /\ UNCHANGED <<upload, manager, stored, crashed>>

(* The answer to a mount that was carried out may be lost.                  *)
PrepareFails(p) ==
    /\ push[p].pc = "prepare"
    /\ manager' = None
    /\ Goes(p, "err")
    /\ upload' = [upload EXCEPT ![p].phase = "unprepared"]
    /\ stored' \in {stored, stored \cup {Repository[p]}}
    /\ UNCHANGED crashed

(* The registry has the blob in another repository and mounts it.  There    *)
(* are no parts and no channel, but Run is started all the same.            *)
PrepareMounted(p) ==
    /\ push[p].pc = "prepare"
    /\ Goes(p, "join")
    /\ upload' = [upload EXCEPT ![p].phase = "start", ![p].done = TRUE]
    /\ stored' = stored \cup {Repository[p]}
    /\ UNCHANGED <<manager, crashed>>

Prepare(p) ==
    /\ push[p].pc = "prepare"
    /\ Goes(p, "join")
    /\ upload' = [upload EXCEPT ![p].phase = "start", ![p].parts = Parts, ![p].nextURL = "full"]
    /\ UNCHANGED <<manager, stored, crashed>>

(* Seeded fault: the push that has created the upload takes no reference.   *)
AcquireUnlessOwn(p) ==
    /\ push[p].pc = "join"
    /\ Goes(p, "wait")
    /\ upload' = [upload EXCEPT ![push[p].of].references = IF push[p].of = p THEN @ ELSE @ + 1]
    /\ UNCHANGED <<manager, stored, crashed>>

Acquire(p) ==
    /\ push[p].pc = "join"
    /\ Goes(p, "wait")
    /\ upload' = [upload EXCEPT ![push[p].of].references = @ + 1]
    /\ UNCHANGED <<manager, stored, crashed>>

(* release: to call a CancelFunc that is not set yet ends the process.      *)
Release(u) ==
    LET last == upload[u].references = 1
    IN /\ upload' = [upload EXCEPT ![u].references = @ - 1,
                                   ![u].cancelled = @ \/ (last /\ upload[u].cancelFunc)]
       /\ crashed' = (last /\ ~upload[u].cancelFunc)

(* A tick finds the upload over.                                            *)
Poll(p) ==
    LET u == push[p].of IN
    /\ push[p].pc = "wait"
    /\ upload[u].done \/ upload[u].err # "none"
    /\ Goes(p, IF upload[u].err = "none" THEN "ok" ELSE "err")
    /\ Release(u)
    /\ UNCHANGED <<manager, stored>>

(* The client leaves.                                                       *)
Leave(p) ==
    /\ push[p].pc = "wait"
    /\ Goes(p, "left")
    /\ Release(push[p].of)
    /\ UNCHANGED <<manager, stored>>

-----------------------------------------------------------------------------
(* Run, of upload u.                                                        *)

Change(u, new) == upload' = [upload EXCEPT ![u] = new]

(* The context of the group is over: cancelled, or by an error of a part.   *)
InnerDone(b) == b.cancelled \/ \E i \in b.parts : b.part[i] \in {"cancelled", "failed"}

OpenFile(u) ==
    LET b == upload[u] IN
    /\ b.phase = "start"
    /\ \/ Change(u, [b EXCEPT !.phase = "loop", !.cancelFunc = TRUE])
       \/ Change(u, [b EXCEPT !.phase = "ending", !.cancelFunc = TRUE, !.err = "failed"])
    /\ UNCHANGED <<push, manager, stored, crashed>>

(* The select of the loop: a part is handed the next URL, or left out.      *)
HandURL(u) ==
    LET b == upload[u] IN
    /\ b.phase = "loop" /\ b.next \in b.parts /\ b.nextURL = "full"
    /\ Change(u, [b EXCEPT !.next = @ + 1, !.nextURL = "empty", !.part[b.next] = "patch"])
    /\ UNCHANGED <<push, manager, stored, crashed>>

SkipPart(u) ==
    LET b == upload[u] IN
    /\ b.phase = "loop" /\ b.next \in b.parts /\ InnerDone(b)
    /\ Change(u, [b EXCEPT !.next = @ + 1])
    /\ UNCHANGED <<push, manager, stored, crashed>>

(* Seeded fault: the error of the group is not looked at.                   *)
GroupErrorIgnored(b) == "none"

GroupError(b) ==
    IF \E i \in b.parts : b.part[i] = "failed" THEN "failed"
    ELSE IF \E i \in b.parts : b.part[i] = "cancelled" THEN "cancelled" ELSE "none"

(* Seeded fault: a failed upload leaves the manager before Run returns.     *)
GroupWaitDeletes(u) ==
    LET b == upload[u] IN
    /\ b.phase = "loop" /\ b.next \notin b.parts
    /\ \A i \in b.parts : b.part[i] \notin Busy
    /\ Change(u, IF GroupError(b) = "none" THEN [b EXCEPT !.phase = "url"]
                 ELSE [b EXCEPT !.phase = "ending", !.err = GroupError(b)])
    /\ manager' = IF GroupError(b) = "none" THEN manager ELSE None
    /\ UNCHANGED <<push, stored, crashed>>

GroupWait(u) ==
    LET b == upload[u] IN
    /\ b.phase = "loop" /\ b.next \notin b.parts
    /\ \A i \in b.parts : b.part[i] \notin Busy
    /\ Change(u, IF GroupError(b) = "none" THEN [b EXCEPT !.phase = "url"]
                 ELSE [b EXCEPT !.phase = "ending", !.err = GroupError(b)])
    /\ UNCHANGED <<push, manager, stored, crashed>>

(* The URL to commit with is received, for ever if there is no channel; the *)
(* hash of a part that was not sent is nil.                                 *)
ReceiveURL(u) ==
    LET b == upload[u] IN
    /\ b.phase = "url" /\ b.nextURL = "full"
    /\ Change(u, [b EXCEPT !.phase = "commit", !.nextURL = "empty"])
    /\ crashed' = (\E i \in b.parts : b.part[i] # "sent")
    /\ UNCHANGED <<push, manager, stored>>

Committed(b, result) ==
    [b EXCEPT !.phase = "publish", !.result = result, !.unpublished = {"done", "err"}]

Commit(u) ==
    LET b == upload[u] IN
    /\ b.phase = "commit" /\ ~b.cancelled
    /\ Change(u, Committed(b, "none"))
    /\ stored' = stored \cup {Repository[u]}
    /\ UNCHANGED <<push, manager, crashed>>

(* The commit fails, or its answer is lost.                                 *)
CommitFails(u) ==
    LET b == upload[u]
        next == [b EXCEPT !.commits = @ + 1]
    IN /\ b.phase = "commit" /\ ~b.cancelled
       /\ Change(u, IF next.commits < MaxRetries THEN next ELSE Committed(next, "failed"))
       /\ stored' \in {stored, stored \cup {Repository[u]}}
       /\ UNCHANGED <<push, manager, crashed>>

CommitCancelled(u) ==
    LET b == upload[u] IN
    /\ b.phase = "commit" /\ b.cancelled
    /\ Change(u, Committed(b, "cancelled"))
    /\ UNCHANGED <<push, manager, stored, crashed>>

(* Seeded fault: done is not set.                                           *)
PublishErrOnly(u) ==
    LET b == upload[u] IN
    /\ b.phase = "publish"
    /\ Change(u, [b EXCEPT !.unpublished = {}, !.err = b.result, !.phase = "ending"])
    /\ UNCHANGED <<push, manager, stored, crashed>>

(* err and done are written without synchronisation with Wait: it may see   *)
(* them in either order.                                                    *)
Publish(u) ==
    LET b == upload[u] IN
    /\ b.phase = "publish"
    /\ \/ /\ "err" \in b.unpublished
          /\ Change(u, [b EXCEPT !.unpublished = @ \ {"err"}, !.err = b.result])
       \/ /\ "done" \in b.unpublished
          /\ Change(u, [b EXCEPT !.unpublished = @ \ {"done"}, !.done = TRUE])
       \/ /\ b.unpublished = {}
          /\ Change(u, [b EXCEPT !.phase = "ending"])
    /\ UNCHANGED <<push, manager, stored, crashed>>

(* What is left is what Wait and release look at.                           *)
RunEnds(u) ==
    LET b == upload[u] IN
    /\ b.phase = "ending"
    /\ Change(u, [NoUpload EXCEPT !.phase = "ended", !.done = b.done, !.err = b.err,
                                  !.references = b.references,
                                  !.cancelFunc = b.cancelFunc, !.cancelled = b.cancelled])
    /\ manager' = None
    /\ UNCHANGED <<push, stored, crashed>>

-----------------------------------------------------------------------------
(* uploadPart and the retries around it, for part i of upload u.            *)

(* The answer has a URL, which the part is now to send.                     *)
Answers(u, i, method, then) ==
    LET b == upload[u] IN
    /\ b.part[i] = method /\ ~InnerDone(b)
    /\ Change(u, [b EXCEPT !.part[i] = then])
    /\ UNCHANGED <<push, manager, stored, crashed>>

PatchSucceeds(u, i) == Answers(u, i, "patch", "accepted")

PutSucceeds(u, i) == Answers(u, i, "put", "sent")

(* The part is to go elsewhere; the next one need not wait for it.          *)
Redirected(u, i) ==
    \/ Answers(u, i, "patch", "redirected")
    \/ Answers(u, i, "put", "redirected")

(* A redirect without a location: that is noticed after the send.           *)
RedirectedAstray(u, i) ==
    \/ Answers(u, i, "patch", "patchAstray")
    \/ Answers(u, i, "put", "putAstray")

(* The loop tries again, or gives up.                                       *)
Retried(b, i) ==
    IF b.tries[i] + 1 < MaxRetries THEN [b EXCEPT !.tries[i] = @ + 1]
    ELSE [b EXCEPT !.part[i] = "failed"]

(* The send blocks while nobody has taken the last URL, cancelled or not.   *)
SendURL(u, i) ==
    LET b == upload[u]
        Then(state) == [b EXCEPT !.part[i] = state, !.nextURL = "full"]
    IN /\ b.nextURL = "empty"
       /\ \/ b.part[i] = "accepted" /\ Change(u, Then("sent"))
          \/ b.part[i] = "redirected" /\ Change(u, [Then("put") EXCEPT !.tries[i] = 0])
          \/ b.part[i] = "patchAstray" /\ Change(u, Retried(Then("patch"), i))
          \/ b.part[i] = "putAstray" /\ Change(u, Retried(Then("put"), i))
       /\ UNCHANGED <<push, manager, stored, crashed>>

PartFails(u, i) ==
    LET b == upload[u] IN
    /\ b.part[i] \in {"patch", "put"} /\ ~InnerDone(b)
    /\ Change(u, Retried(b, i))
    /\ UNCHANGED <<push, manager, stored, crashed>>

PartCancelled(u, i) ==
    LET b == upload[u] IN
    /\ b.part[i] \in {"patch", "put"} /\ InnerDone(b)
    /\ Change(u, [b EXCEPT !.part[i] = "cancelled"])
    /\ UNCHANGED <<push, manager, stored, crashed>>

-----------------------------------------------------------------------------
Init ==
    /\ push = [p \in Pushes |-> [pc |-> "head", of |-> None]]
    /\ upload = [u \in Pushes |-> NoUpload]
    /\ manager = None
    /\ stored = {}
    /\ crashed = FALSE

Client(p) ==
    \/ HeadFinds(p) \/ HeadMisses(p) \/ HeadFails(p) \/ Create(p) \/ Join(p)
    \/ PrepareFails(p) \/ PrepareMounted(p) \/ Prepare(p) \/ Acquire(p) \/ Poll(p)

Run(u) ==
    \/ OpenFile(u) \/ HandURL(u) \/ SkipPart(u) \/ GroupWait(u) \/ ReceiveURL(u)
    \/ Commit(u) \/ CommitFails(u) \/ CommitCancelled(u) \/ Publish(u) \/ RunEnds(u)

Part(u, i) ==
    \/ PatchSucceeds(u, i) \/ PutSucceeds(u, i) \/ Redirected(u, i) \/ RedirectedAstray(u, i)
    \/ SendURL(u, i) \/ PartFails(u, i) \/ PartCancelled(u, i)

Next ==
    /\ ~crashed
    /\ \E p \in Pushes : Client(p) \/ Leave(p) \/ Run(p) \/ \E i \in Parts : Part(p, i)

(* Goroutines are scheduled, requests are answered and tickers tick; no     *)
(* client has to leave.                                                     *)
Fairness ==
    \A p \in Pushes :
        /\ WF_vars(~crashed /\ Client(p))
        /\ WF_vars(~crashed /\ Run(p))
        /\ \A i \in Parts : WF_vars(~crashed /\ Part(p, i))

Spec == Init /\ [][Next]_vars /\ Fairness

-----------------------------------------------------------------------------
(* Properties.                                                              *)

(* Every variable has its type, and references counts the pushes that poll  *)
(* an upload: it is cancelled neither early nor twice (upload.go:309-317).  *)
Pollers(u) == {p \in Pushes : push[p].pc = "wait" /\ push[p].of = u}

TypeOK ==
    /\ push \in [Pushes -> [pc : {"head", "lookup", "prepare", "join", "wait", "left"} \cup Returned,
                            of : Pushes \cup {None}]]
    /\ upload \in [Pushes -> UploadRecord]
    /\ \A u \in Pushes : upload[u].references = Cardinality(Pollers(u))
    /\ manager \in Pushes \cup {None}
    /\ stored \subseteq Repositories
    /\ crashed \in BOOLEAN

(* One upload of the blob at a time: one that is being prepared, or whose   *)
(* Run has not ended, is the one that pushes find (upload.go:130).          *)
Active(u) == upload[u].phase \notin {"none", "unprepared", "ended"}

OneUpload == \A u \in Pushes : Active(u) => manager = u

(* Run reads the hash of a part that was not sent, or release calls a       *)
(* CancelFunc that is not set, only if a client has left, or if the Run of  *)
(* a mounted blob has not started by the first tick: no failure of the      *)
(* registry ends the process (upload.go:182-188, 315).                      *)
CrashNeedsLeave ==
    crashed => \/ \E p \in Pushes : push[p].pc = "left"
               \/ \E u \in Pushes : upload[u].phase = "start" /\ upload[u].done

(* Run waits for a part that has a URL to send while the place for it is    *)
(* taken, and only Run would take it: neither ever goes on (177, 254).      *)
Stuck(u) ==
    LET b == upload[u]
    IN b.phase = "loop" /\ b.next \notin b.parts /\ b.nextURL = "full"
       /\ \E i \in b.parts : b.part[i] \in Sending

(* A push that polls an upload returns, with two exceptions: the upload     *)
(* could not be prepared after the push had joined it (upload.go:319-342,   *)
(* 395), or Run is stuck, which takes a registry that redirects a part to   *)
(* nowhere or more than once.  Then err is never set, although upload.go:128 *)
(* says "Run sets b.err on error".                                          *)
PushReturns ==
    \A p \in Pushes :
        push[p].pc = "wait" ~> \/ push[p].pc \in Returned \cup {"left"}
                               \/ crashed
                               \/ \E u \in Pushes : /\ push[p].of = u
                                                    /\ upload[u].phase = "unprepared" \/ Stuck(u)

(* When uploadBlob returns without an error, the blob is in the repository  *)
(* it was called for; a process that has crashed has returned to nobody.    *)
UploadIsComplete ==
    ~crashed => \A p \in Pushes : push[p].pc = "ok" => Repository[p] \in stored
=============================================================================
