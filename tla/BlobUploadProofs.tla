-------------------------- MODULE BlobUploadProofs --------------------------
(* Proofs about BlobUpload, for any number of pushes, repositories, parts   *)
(* and retries.                                                             *)
EXTENDS BlobUpload, FiniteSetTheorems, TLAPS

USE PushesAssumption, RepositoryAssumption, NumbersAssumption

PushRecord ==
    [pc : {"head", "lookup", "prepare", "join", "wait", "left"} \cup Returned,
     of : Pushes \cup {None}]

Typed ==
    /\ push \in [Pushes -> PushRecord]
    /\ upload \in [Pushes -> UploadRecord]
    /\ manager \in Pushes \cup {None}
    /\ stored \subseteq Repositories
    /\ crashed \in BOOLEAN

(* The references of an upload are the pushes that poll it.                 *)
Counted == \A u \in Pushes : upload[u].references = Cardinality(Pollers(u))

(* What a push knows of the upload it has found.                            *)
Knows(p) ==
    /\ push[p].pc \in {"prepare", "join", "wait"} => push[p].of \in Pushes
    /\ push[p].pc = "prepare" => push[p].of = p /\ upload[p].phase = "preparing"
    /\ push[p].pc \in {"head", "lookup"} => upload[p].phase = "none"

Before == {"none", "preparing", "unprepared"}
Running == {"start", "loop", "url", "commit", "publish", "ending"}

(* What is true of an upload at each point of its Run: CancelFunc is set at *)
(* the start; a part that the loop has left out is one whose group is over. *)
Sound(b) ==
    /\ b.parts \in {{}, Parts}
    /\ b.phase \in Before \cup {"start"} =>
           ~b.cancelFunc /\ ~b.cancelled /\ b.next = 1 /\ \A i \in Parts : b.part[i] = "new"
    /\ b.phase \notin Before \cup {"start"} => b.cancelFunc
    /\ b.phase \in Before => ~b.done /\ b.parts = {}
    /\ b.phase \in Before \cup {"start", "loop", "url", "commit"} =>
           b.err = "none" /\ (b.done => b.parts = {})
    /\ \A i \in Parts : b.part[i] \in Busy => b.phase = "loop" /\ i \in b.parts
    /\ b.phase = "loop" =>
           /\ b.next >= 1
           /\ \A i \in Parts : i >= b.next => b.part[i] = "new"
           /\ \A i \in b.parts : i < b.next /\ b.part[i] = "new" => InnerDone(b)
    /\ b.phase = "url" => \A i \in b.parts : b.part[i] = "sent" \/ b.cancelled

Left == \E p \in Pushes : push[p].pc = "left"

(* An upload is cancelled before its end only if a client has left.         *)
Excused(b) == b.phase \in {"loop", "url"} /\ b.cancelled => Left \/ b.done

IInv ==
    /\ Typed
    /\ Counted
    /\ \A p \in Pushes : Knows(p)
    /\ \A u \in Pushes : Sound(upload[u]) /\ Excused(upload[u])
    /\ OneUpload
    /\ CrashNeedsLeave

LEMMA IInvInit == Init => IInv
<1> SUFFICES ASSUME Init PROVE IInv
  OBVIOUS
<1> USE DEF Init
<1>1. NoUpload \in UploadRecord
  BY DEF NoUpload, UploadRecord, Errors, Parts
<1>2. Typed
  BY <1>1 DEF Typed, PushRecord
<1>3. Counted
  <2>1. \A u \in Pushes : Pollers(u) = {}
    BY DEF Pollers
  <2> QED
    BY <2>1, FS_EmptySet DEF Counted, NoUpload
<1>4. \A p \in Pushes : Knows(p)
  BY DEF Knows, NoUpload
<1>5. Sound(NoUpload) /\ Excused(NoUpload)
  BY DEF Sound, Excused, NoUpload, Before, Busy, Sending
<1>6. OneUpload /\ CrashNeedsLeave
  BY DEF OneUpload, Active, NoUpload, CrashNeedsLeave
<1> QED
  BY <1>2, <1>3, <1>4, <1>5, <1>6 DEF IInv

-----------------------------------------------------------------------------
(* Steps of Run and of the parts.                                           *)

(* A step of upload u that leaves it running.                               *)
LEMMA RunStep ==
    ASSUME IInv, ~crashed, NEW u \in Pushes, NEW b \in UploadRecord,
           Change(u, b), UNCHANGED <<push, manager>>,
           stored' \subseteq Repositories, crashed' \in BOOLEAN, crashed' => Left,
           upload[u].phase \in Running, b.phase \in Running,
           b.references = upload[u].references, Sound(b), Excused(b)
    PROVE  IInv'
<1> USE DEF IInv
<1>1. \A v \in Pushes : upload'[v] = IF v = u THEN b ELSE upload[v]
  BY DEF Change, Typed
<1>2. Typed'
  BY DEF Change, Typed
<1>3. Counted'
  BY <1>1 DEF Counted, Pollers
<1>4. \A p \in Pushes : Knows(p)'
  BY <1>1 DEF Knows, Running
<1>5. \A v \in Pushes : Sound(upload[v])'
  BY <1>1 DEF Sound, InnerDone
<1>6. \A v \in Pushes : Excused(upload[v])'
  BY <1>1 DEF Excused, Left
<1>7. OneUpload'
  BY <1>1 DEF OneUpload, Active, Running
<1>8. CrashNeedsLeave'
  BY DEF CrashNeedsLeave, Left
<1> QED
  BY <1>2, <1>3, <1>4, <1>5, <1>6, <1>7, <1>8

(* The same, for a step that changes nothing but the upload.                *)
LEMMA QuietStep ==
    ASSUME IInv, ~crashed, NEW u \in Pushes, NEW b \in UploadRecord,
           Change(u, b), UNCHANGED <<push, manager, stored, crashed>>,
           upload[u].phase \in Running, b.phase \in Running,
           b.references = upload[u].references, Sound(b), Excused(b)
    PROVE  IInv'
<1>1. stored' \subseteq Repositories /\ crashed' = FALSE
  BY DEF IInv, Typed
<1> QED
  BY <1>1, RunStep

LEMMA OpenFileInv ==
    ASSUME IInv, ~crashed, NEW u \in Pushes, OpenFile(u)
    PROVE  IInv'
<1> DEFINE b == upload[u]
           opened == [b EXCEPT !.phase = "loop", !.cancelFunc = TRUE]
           failed == [b EXCEPT !.phase = "ending", !.cancelFunc = TRUE, !.err = "failed"]
<1>1. b \in UploadRecord /\ Sound(b) /\ b.phase = "start"
  BY DEF OpenFile, IInv, Typed
<1>2. opened \in UploadRecord /\ failed \in UploadRecord
  BY <1>1 DEF UploadRecord, Errors
<1>3. Sound(opened) /\ Sound(failed)
  BY <1>1 DEF Sound, UploadRecord, Before, Parts
<1>4. Excused(opened) /\ Excused(failed)
  BY <1>1 DEF Excused, Sound, UploadRecord
<1>5. /\ opened.phase \in Running /\ failed.phase \in Running /\ b.phase \in Running
      /\ opened.references = b.references /\ failed.references = b.references
  BY <1>1 DEF Running, UploadRecord
<1>6. (Change(u, opened) \/ Change(u, failed)) /\ UNCHANGED <<push, manager, stored, crashed>>
  BY DEF OpenFile
<1> HIDE DEF opened, failed
<1> QED
  BY <1>2, <1>3, <1>4, <1>5, <1>6, QuietStep

LEMMA HandURLInv ==
    ASSUME IInv, ~crashed, NEW u \in Pushes, HandURL(u)
    PROVE  IInv'
<1> DEFINE b == upload[u]
           a == [b EXCEPT !.next = @ + 1, !.nextURL = "empty", !.part[b.next] = "patch"]
<1>1. /\ b \in UploadRecord /\ Sound(b) /\ Excused(b)
      /\ b.phase = "loop" /\ b.next \in b.parts /\ b.next \in Parts /\ b.next \in Nat
  BY DEF HandURL, IInv, Typed, UploadRecord
<1>2. a \in UploadRecord
  <2> DEFINE part == [b.part EXCEPT ![b.next] = "patch"]
  <2>1. /\ part \in [Parts -> Busy \cup {"new", "sent", "cancelled", "failed"}]
        /\ b.next + 1 \in Nat
    BY <1>1 DEF UploadRecord, Busy
  <2>2. a = [b EXCEPT !.next = b.next + 1, !.nextURL = "empty", !.part = part]
    BY <1>1 DEF UploadRecord
  <2> HIDE DEF part, a
  <2> QED
    BY <1>1, <2>1, <2>2 DEF UploadRecord
<1>3. /\ a.phase = "loop" /\ a.parts = b.parts /\ a.next = b.next + 1
      /\ a.cancelFunc = b.cancelFunc /\ a.cancelled = b.cancelled /\ a.done = b.done
      /\ a.err = b.err /\ a.references = b.references
      /\ \A i \in Parts : a.part[i] = IF i = b.next THEN "patch" ELSE b.part[i]
  BY <1>1 DEF UploadRecord
<1> HIDE DEF a
<1>4. \A i \in Parts : i < b.next + 1 <=> i < b.next \/ i = b.next
  BY <1>1 DEF Parts
<1>5. InnerDone(b) => InnerDone(a)
  <2>1. b.part[b.next] = "new" /\ b.parts \subseteq Parts
    BY <1>1 DEF Sound, Parts, UploadRecord
  <2> QED
    BY <1>3, <2>1 DEF InnerDone
<1>6. \A i \in Parts : i >= b.next + 1 => i >= b.next /\ i # b.next
  BY <1>1 DEF Parts
<1>7. Sound(a)
  BY <1>1, <1>3, <1>4, <1>5, <1>6 DEF Sound, Before, UploadRecord
<1>8. Excused(a)
  BY <1>1, <1>3 DEF Excused
<1> QED
  BY <1>1, <1>2, <1>3, <1>7, <1>8, QuietStep DEF HandURL, Running, a

LEMMA SkipPartInv ==
    ASSUME IInv, ~crashed, NEW u \in Pushes, SkipPart(u)
    PROVE  IInv'
<1> DEFINE b == upload[u]
           a == [b EXCEPT !.next = @ + 1]
<1>1. /\ b \in UploadRecord /\ Sound(b) /\ Excused(b)
      /\ b.phase = "loop" /\ b.next \in b.parts /\ b.next \in Nat /\ InnerDone(b)
  BY DEF SkipPart, IInv, Typed, UploadRecord
<1>2. a \in UploadRecord
  BY <1>1 DEF UploadRecord
<1>3. /\ a.phase = "loop" /\ a.parts = b.parts /\ a.next = b.next + 1
      /\ a.cancelFunc = b.cancelFunc /\ a.cancelled = b.cancelled /\ a.done = b.done
      /\ a.err = b.err /\ a.references = b.references /\ a.part = b.part
  BY <1>1 DEF UploadRecord
<1> HIDE DEF a
<1>4. InnerDone(a)
  BY <1>1, <1>3 DEF InnerDone
<1>5. \A i \in Parts : i >= b.next + 1 => i >= b.next
  BY <1>1 DEF Parts
<1>6. Sound(a)
  BY <1>1, <1>3, <1>4, <1>5 DEF Sound, Before
<1>7. Excused(a)
  BY <1>1, <1>3 DEF Excused
<1> QED
  BY <1>1, <1>2, <1>3, <1>6, <1>7, QuietStep DEF SkipPart, Running, a

(* When the group has no error, the parts that were not sent were left out  *)
(* because the upload was cancelled.                                        *)
LEMMA GroupWaitInv ==
    ASSUME IInv, ~crashed, NEW u \in Pushes, GroupWait(u)
    PROVE  IInv'
<1> DEFINE b == upload[u]
           url == [b EXCEPT !.phase = "url"]
           failed == [b EXCEPT !.phase = "ending", !.err = GroupError(b)]
<1>1. /\ b \in UploadRecord /\ Sound(b) /\ Excused(b) /\ b.phase = "loop" /\ b.next \notin b.parts
      /\ \A i \in b.parts : b.part[i] \notin Busy
  BY DEF GroupWait, IInv, Typed
<1>2. GroupError(b) \in Errors
  BY DEF GroupError, Errors
<1>3. url \in UploadRecord /\ failed \in UploadRecord
  BY <1>1, <1>2 DEF UploadRecord
<1>4. \A i \in Parts : b.part[i] \notin Busy
  BY <1>1 DEF Sound
<1>5. Sound(failed)
  BY <1>1, <1>4 DEF Sound, UploadRecord, Before
<1>6. ASSUME GroupError(b) = "none" PROVE Sound(url)
  <2>1. \A i \in b.parts : b.part[i] \notin {"cancelled", "failed"}
    BY <1>6 DEF GroupError
  <2>2. InnerDone(b) => b.cancelled
    BY <2>1 DEF InnerDone
  <2>3. \A i \in b.parts : i \in Parts /\ i < b.next
    BY <1>1 DEF Sound, UploadRecord, Parts
  <2>4. \A i \in b.parts : b.part[i] = "sent" \/ b.cancelled
    BY <1>1, <1>4, <2>1, <2>2, <2>3 DEF Sound, UploadRecord
  <2> QED
    BY <1>1, <1>4, <2>4 DEF Sound, UploadRecord, Before
<1>7. Excused(url) /\ Excused(failed)
  BY <1>1 DEF Excused, UploadRecord
<1>8. /\ url.phase \in Running /\ failed.phase \in Running /\ b.phase \in Running
      /\ url.references = b.references /\ failed.references = b.references
  BY <1>1 DEF Running, UploadRecord
<1>9. /\ (Change(u, url) /\ GroupError(b) = "none") \/ Change(u, failed)
      /\ UNCHANGED <<push, manager, stored, crashed>>
  BY DEF GroupWait
<1> HIDE DEF url, failed
<1> QED
  BY <1>3, <1>5, <1>6, <1>7, <1>8, <1>9, QuietStep

LEMMA ReceiveURLInv ==
    ASSUME IInv, ~crashed, NEW u \in Pushes, ReceiveURL(u)
    PROVE  IInv'
<1> DEFINE b == upload[u]
           a == [b EXCEPT !.phase = "commit", !.nextURL = "empty"]
<1>1. b \in UploadRecord /\ Sound(b) /\ Excused(b) /\ b.phase = "url"
  BY DEF ReceiveURL, IInv, Typed
<1>2. a \in UploadRecord
  BY <1>1 DEF UploadRecord
<1>3. Sound(a)
  BY <1>1 DEF Sound, UploadRecord, Before
<1>4. Excused(a)
  BY <1>1 DEF Excused, UploadRecord
<1>5. (\E i \in b.parts : b.part[i] # "sent") => Left
  BY <1>1 DEF Sound, Excused
<1>6. crashed' \in BOOLEAN /\ (crashed' => Left)
  BY <1>5 DEF ReceiveURL
<1>7. a.phase \in Running /\ b.phase \in Running /\ a.references = b.references
  BY <1>1 DEF Running, UploadRecord
<1>8. Change(u, a) /\ UNCHANGED <<push, manager>> /\ stored' \subseteq Repositories
  BY DEF ReceiveURL, IInv, Typed
<1> HIDE DEF a
<1> QED
  BY <1>2, <1>3, <1>4, <1>6, <1>7, <1>8, RunStep

LEMMA CommittedFacts ==
    ASSUME NEW b \in UploadRecord, NEW result \in Errors, Sound(b), b.phase = "commit"
    PROVE  LET a == Committed(b, result) IN
           /\ a \in UploadRecord /\ Sound(a) /\ Excused(a)
           /\ a.phase \in Running /\ a.references = b.references
BY DEF Committed, UploadRecord, Sound, Before, Running, Excused

LEMMA CommitInv ==
    ASSUME IInv, ~crashed, NEW u \in Pushes, Commit(u) \/ CommitFails(u) \/ CommitCancelled(u)
    PROVE  IInv'
<1> DEFINE b == upload[u]
           again == [b EXCEPT !.commits = @ + 1]
<1>1. b \in UploadRecord /\ Sound(b) /\ b.phase = "commit"
  BY DEF Commit, CommitFails, CommitCancelled, IInv, Typed
<1>2. again \in UploadRecord /\ Sound(again) /\ Excused(again) /\ again.phase = "commit"
      /\ again.references = b.references
  BY <1>1 DEF UploadRecord, Sound, Before, Excused
<1>3. /\ stored' \subseteq Repositories /\ crashed' = FALSE /\ UNCHANGED <<push, manager>>
      /\ b.phase \in Running
  BY <1>1 DEF Commit, CommitFails, CommitCancelled, IInv, Typed, Running
<1>4. \/ Change(u, again)
      \/ \E result \in Errors : Change(u, Committed(b, result)) \/ Change(u, Committed(again, result))
  BY DEF Commit, CommitFails, CommitCancelled, Errors
<1> HIDE DEF again
<1>5. CASE Change(u, again)
  BY <1>2, <1>3, <1>5, RunStep DEF Running
<1>6. ASSUME NEW result \in Errors,
             Change(u, Committed(b, result)) \/ Change(u, Committed(again, result))
      PROVE  IInv'
  BY <1>1, <1>2, <1>3, <1>6, CommittedFacts, RunStep
<1> QED
  BY <1>4, <1>5, <1>6

LEMMA PublishedFacts ==
    ASSUME NEW b \in UploadRecord, NEW a, b.phase = "publish", Sound(b),
           \/ a = [b EXCEPT !.unpublished = @ \ {"err"}, !.err = b.result]
           \/ a = [b EXCEPT !.unpublished = @ \ {"done"}, !.done = TRUE]
           \/ a = [b EXCEPT !.phase = "ending"]
    PROVE  /\ a \in UploadRecord /\ a.phase \in {"publish", "ending"}
           /\ a.references = b.references /\ Sound(a)
<1>1. CASE a = [b EXCEPT !.unpublished = @ \ {"err"}, !.err = b.result]
  <2>1. a \in UploadRecord
    BY <1>1 DEF UploadRecord
  <2> QED
    BY <1>1, <2>1 DEF UploadRecord, Sound, Before
<1>2. CASE a = [b EXCEPT !.unpublished = @ \ {"done"}, !.done = TRUE]
  <2>1. a \in UploadRecord
    BY <1>2 DEF UploadRecord
  <2> QED
    BY <1>2, <2>1 DEF UploadRecord, Sound, Before
<1>3. CASE a = [b EXCEPT !.phase = "ending"]
  <2>1. a \in UploadRecord
    BY <1>3 DEF UploadRecord
  <2> QED
    BY <1>3, <2>1 DEF UploadRecord, Sound, Before
<1> QED
  BY <1>1, <1>2, <1>3

LEMMA PublishInv ==
    ASSUME IInv, ~crashed, NEW u \in Pushes, Publish(u)
    PROVE  IInv'
<1> DEFINE b == upload[u]
<1>1. b \in UploadRecord /\ Sound(b) /\ b.phase = "publish"
  BY DEF Publish, IInv, Typed
<1>2. PICK a : /\ \/ a = [b EXCEPT !.unpublished = @ \ {"err"}, !.err = b.result]
                  \/ a = [b EXCEPT !.unpublished = @ \ {"done"}, !.done = TRUE]
                  \/ a = [b EXCEPT !.phase = "ending"]
               /\ Change(u, a)
  BY DEF Publish
<1>3. /\ a \in UploadRecord /\ a.phase \in {"publish", "ending"}
      /\ a.references = b.references /\ Sound(a)
  BY <1>1, <1>2, PublishedFacts
<1>4. Excused(a)
  BY <1>3 DEF Excused
<1> QED
  BY <1>1, <1>2, <1>3, <1>4, QuietStep DEF Publish, Running

LEMMA RunEndsInv ==
    ASSUME IInv, ~crashed, NEW u \in Pushes, RunEnds(u)
    PROVE  IInv'
<1> USE DEF IInv
<1> DEFINE b == upload[u]
           a == [NoUpload EXCEPT !.phase = "ended", !.done = b.done, !.err = b.err,
                                 !.references = b.references,
                                 !.cancelFunc = b.cancelFunc, !.cancelled = b.cancelled]
<1>1. /\ upload[u] \in UploadRecord /\ Sound(upload[u]) /\ upload[u].phase = "ending"
      /\ upload' = [upload EXCEPT ![u] = a]
      /\ manager' = None /\ push' = push /\ stored' = stored /\ crashed' = FALSE
  BY DEF RunEnds, Change, Typed
<1>2. a \in UploadRecord /\ Sound(a) /\ Excused(a) /\ a.phase = "ended"
      /\ a.references = upload[u].references
  <2>1. NoUpload \in UploadRecord
    BY DEF NoUpload, UploadRecord, Errors, Parts
  <2>2. a \in UploadRecord
    BY <1>1, <2>1 DEF UploadRecord
  <2>3. /\ a.phase = "ended" /\ a.parts = {} /\ a.cancelFunc = b.cancelFunc
        /\ a.references = b.references /\ \A i \in Parts : a.part[i] = "new"
    BY DEF NoUpload
  <2> HIDE DEF a
  <2>4. Sound(a)
    BY <1>1, <2>3 DEF Sound, Before, Busy, Sending
  <2> QED
    BY <2>2, <2>3, <2>4 DEF Excused
<1> HIDE DEF a
<1>3. \A v \in Pushes : upload'[v] = IF v = u THEN a ELSE upload[v]
  BY <1>1 DEF Typed
<1>4. Typed'
  BY <1>1, <1>2 DEF Typed
<1>5. Counted'
  BY <1>1, <1>2, <1>3 DEF Counted, Pollers
<1>6. \A p \in Pushes : Knows(p)'
  BY <1>1, <1>3 DEF Knows
<1>7. \A v \in Pushes : Sound(upload[v])'
  BY <1>2, <1>3 DEF Sound, InnerDone
<1>8. \A v \in Pushes : Excused(upload[v])'
  BY <1>1, <1>2, <1>3 DEF Excused, Left
<1>9. OneUpload'
  BY <1>1, <1>2, <1>3 DEF OneUpload, Active
<1> QED
  BY <1>1, <1>4, <1>5, <1>6, <1>7, <1>8, <1>9 DEF CrashNeedsLeave

LEMMA RunInv ==
    ASSUME IInv, ~crashed, NEW u \in Pushes, Run(u)
    PROVE  IInv'
BY OpenFileInv, HandURLInv, SkipPartInv, GroupWaitInv, ReceiveURLInv, CommitInv, PublishInv,
   RunEndsInv DEF Run

(* A part goes on, or ends.                                                 *)
LEMMA PartStep ==
    ASSUME IInv, ~crashed, NEW u \in Pushes, NEW i \in Parts, NEW b \in UploadRecord,
           Change(u, b), UNCHANGED <<push, manager, stored, crashed>>,
           upload[u].part[i] \in Busy, b.part[i] \in Busy \cup {"sent", "cancelled", "failed"},
           \A j \in Parts \ {i} : b.part[j] = upload[u].part[j],
           b.phase = upload[u].phase, b.parts = upload[u].parts, b.next = upload[u].next,
           b.cancelFunc = upload[u].cancelFunc, b.cancelled = upload[u].cancelled,
           b.done = upload[u].done, b.err = upload[u].err,
           b.references = upload[u].references
    PROVE  IInv'
<1> DEFINE a == upload[u]
<1>1. a \in UploadRecord /\ Sound(a) /\ Excused(a)
  BY DEF IInv, Typed
<1>2. a.phase = "loop" /\ i \in a.parts
  BY <1>1 DEF Sound
<1>3. InnerDone(a) => InnerDone(b)
  <2>1. a.parts \subseteq Parts
    BY <1>1 DEF UploadRecord
  <2> QED
    BY <2>1 DEF InnerDone, Busy, Sending
<1>4. Sound(b)
  BY <1>1, <1>2, <1>3 DEF Sound, Before, Busy, Sending
<1>5. Excused(b)
  BY <1>1 DEF Excused
<1> QED
  BY <1>2, <1>4, <1>5, QuietStep DEF Running

LEMMA PartInv ==
    ASSUME IInv, ~crashed, NEW u \in Pushes, NEW i \in Parts, Part(u, i)
    PROVE  IInv'
<1> DEFINE b == upload[u]
<1>1. b \in UploadRecord
  BY DEF IInv, Typed
<1>2. /\ b.part[i] \in Busy
      /\ UNCHANGED <<push, manager, stored, crashed>>
  BY DEF Part, PatchSucceeds, PutSucceeds, Redirected, RedirectedAstray, Answers, SendURL,
         PartFails, PartCancelled, Busy, Sending
<1>3. ASSUME NEW state \in Busy \cup {"sent", "cancelled", "failed"},
             NEW tries \in [Parts -> Nat], NEW url \in {"nil", "empty", "full"},
             Change(u, [b EXCEPT !.part[i] = state, !.tries = tries, !.nextURL = url])
      PROVE  IInv'
  <2> DEFINE a == [b EXCEPT !.part[i] = state, !.tries = tries, !.nextURL = url]
             part == [b.part EXCEPT ![i] = state]
  <2>1. /\ part \in [Parts -> Busy \cup {"new", "sent", "cancelled", "failed"}]
        /\ part[i] = state /\ \A j \in Parts \ {i} : part[j] = b.part[j]
    BY <1>1 DEF UploadRecord
  <2>2. a = [b EXCEPT !.part = part, !.tries = tries, !.nextURL = url]
    BY <1>1 DEF UploadRecord
  <2> HIDE DEF part
  <2>3. /\ a \in UploadRecord /\ a.part = part
        /\ a.phase = b.phase /\ a.parts = b.parts /\ a.next = b.next
        /\ a.cancelFunc = b.cancelFunc /\ a.cancelled = b.cancelled
        /\ a.done = b.done /\ a.err = b.err /\ a.references = b.references
    BY <1>1, <2>1, <2>2 DEF UploadRecord
  <2>4. Change(u, a)
    BY <1>3
  <2> HIDE DEF a
  <2> QED
    BY <1>2, <2>1, <2>3, <2>4, PartStep
<1>4. /\ b.tries \in [Parts -> Nat] /\ [b.tries EXCEPT ![i] = 0] \in [Parts -> Nat]
      /\ [b.tries EXCEPT ![i] = @ + 1] \in [Parts -> Nat]
      /\ b.nextURL \in {"nil", "empty", "full"}
  BY <1>1 DEF UploadRecord
<1>5. ASSUME NEW state \in Busy \cup {"sent", "cancelled", "failed"},
             Change(u, [b EXCEPT !.part[i] = state])
      PROVE  IInv'
  <2>1. [b EXCEPT !.part[i] = state]
            = [b EXCEPT !.part[i] = state, !.tries = b.tries, !.nextURL = b.nextURL]
    BY <1>1 DEF UploadRecord
  <2> QED
    BY <1>3, <1>4, <1>5, <2>1
(* A retry, after a send or without one.                                    *)
<1>6. ASSUME NEW method \in {"patch", "put"}, NEW url \in {"nil", "empty", "full"},
             Change(u, Retried([b EXCEPT !.part[i] = method, !.nextURL = url], i))
      PROVE  IInv'
  <2> DEFINE a == [b EXCEPT !.part[i] = method, !.nextURL = url]
             again == [b.tries EXCEPT ![i] = @ + 1]
  <2>1. [a EXCEPT !.tries[i] = @ + 1]
            = [b EXCEPT !.part[i] = method, !.tries = again, !.nextURL = url]
    BY <1>1 DEF UploadRecord
  <2>2. [a EXCEPT !.part[i] = "failed"]
            = [b EXCEPT !.part[i] = "failed", !.tries = b.tries, !.nextURL = url]
    BY <1>1 DEF UploadRecord
  <2>3. Change(u, [a EXCEPT !.tries[i] = @ + 1]) \/ Change(u, [a EXCEPT !.part[i] = "failed"])
    BY <1>6 DEF Retried
  <2>4. method \in Busy
    BY DEF Busy
  <2>5. CASE Change(u, [a EXCEPT !.tries[i] = @ + 1])
    BY <1>3, <1>4, <2>1, <2>4, <2>5
  <2>6. CASE Change(u, [a EXCEPT !.part[i] = "failed"])
    BY <1>3, <1>4, <2>2, <2>6
  <2> QED
    BY <2>3, <2>5, <2>6
<1>7. CASE PatchSucceeds(u, i) \/ PutSucceeds(u, i) \/ Redirected(u, i) \/ RedirectedAstray(u, i)
           \/ PartCancelled(u, i)
  <2>1. PICK state \in Busy \cup {"sent", "cancelled", "failed"} :
            Change(u, [b EXCEPT !.part[i] = state])
    BY <1>7 DEF PatchSucceeds, PutSucceeds, Redirected, RedirectedAstray, PartCancelled, Answers,
                Busy, Sending
  <2> QED
    BY <1>5, <2>1
<1>8. CASE PartFails(u, i)
  <2>1. PICK method \in {"patch", "put"} : b.part[i] = method
    BY <1>8 DEF PartFails
  <2>2. b = [b EXCEPT !.part[i] = method, !.nextURL = b.nextURL]
    BY <1>1, <2>1 DEF UploadRecord
  <2>3. Change(u, Retried([b EXCEPT !.part[i] = method, !.nextURL = b.nextURL], i))
    BY <1>8, <2>2 DEF PartFails
  <2> QED
    BY <1>4, <1>6, <2>3
<1>9. CASE SendURL(u, i)
  <2>1. ASSUME NEW state \in Busy \cup {"sent", "cancelled", "failed"},
               Change(u, [b EXCEPT !.part[i] = state, !.nextURL = "full"])
        PROVE  IInv'
    <3>1. [b EXCEPT !.part[i] = state, !.nextURL = "full"]
              = [b EXCEPT !.part[i] = state, !.tries = b.tries, !.nextURL = "full"]
      BY <1>1 DEF UploadRecord
    <3> QED
      BY <1>3, <1>4, <2>1, <3>1
  <2>2. ASSUME Change(u, [[b EXCEPT !.part[i] = "put", !.nextURL = "full"] EXCEPT !.tries[i] = 0])
        PROVE  IInv'
    <3>1. [[b EXCEPT !.part[i] = "put", !.nextURL = "full"] EXCEPT !.tries[i] = 0]
              = [b EXCEPT !.part[i] = "put", !.tries = [b.tries EXCEPT ![i] = 0], !.nextURL = "full"]
      BY <1>1 DEF UploadRecord
    <3>2. "put" \in Busy
      BY DEF Busy
    <3> QED
      BY <1>3, <1>4, <2>2, <3>1, <3>2
  <2> QED
    BY <1>6, <1>9, <2>1, <2>2 DEF SendURL
<1> QED
  BY <1>7, <1>8, <1>9 DEF Part

-----------------------------------------------------------------------------
(* Steps of a push.                                                         *)

(* A step of push p, which neither polls an upload before it nor after it,  *)
(* and perhaps of its own upload, which does not run yet.                   *)
LEMMA PushStep ==
    ASSUME IInv, ~crashed, NEW p \in Pushes, NEW q \in PushRecord, NEW b \in UploadRecord,
           push' = [push EXCEPT ![p] = q], upload' = [upload EXCEPT ![p] = b],
           stored' \subseteq Repositories, manager' \in Pushes \cup {None}, crashed' = crashed,
           push[p].pc \in {"head", "lookup", "prepare"}, q.pc \notin {"wait", "left"},
           b.references = upload[p].references,
           Sound(b), Excused(b), Knows(p)', OneUpload'
    PROVE  IInv'
<1> USE DEF IInv
<1>1. \A x \in Pushes : push'[x] = IF x = p THEN q ELSE push[x]
  BY DEF Typed
<1>2. \A x \in Pushes : upload'[x] = IF x = p THEN b ELSE upload[x]
  BY DEF Typed
<1>3. Typed'
  BY DEF Typed
<1>4. \A u \in Pushes : Pollers(u)' = Pollers(u)
  BY <1>1 DEF Pollers
<1>5. Counted'
  BY <1>2, <1>4 DEF Counted
<1>6. \A x \in Pushes : Knows(x)'
  <2> SUFFICES ASSUME NEW x \in Pushes, x # p PROVE Knows(x)'
    OBVIOUS
  <2>1. push'[x] = push[x] /\ upload'[x] = upload[x]
    BY <1>1, <1>2
  <2> QED
    BY <2>1 DEF Knows
<1>7. Left' <=> Left
  BY <1>1 DEF Left
<1>8. \A u \in Pushes : Sound(upload[u])'
  BY <1>2 DEF Sound, InnerDone
<1>9. \A u \in Pushes : Excused(upload[u])'
  BY <1>2, <1>7 DEF Excused
<1> QED
  BY <1>3, <1>5, <1>6, <1>8, <1>9 DEF CrashNeedsLeave

(* A push asks the registry, and looks for an upload.                       *)
LEMMA HeadInv ==
    ASSUME IInv, ~crashed, NEW p \in Pushes,
           HeadFinds(p) \/ HeadMisses(p) \/ HeadFails(p) \/ Join(p)
    PROVE  IInv'
<1>1. /\ upload[p] \in UploadRecord /\ Sound(upload[p]) /\ Excused(upload[p]) /\ Knows(p)
      /\ push[p] \in PushRecord /\ OneUpload
      /\ push \in [Pushes -> PushRecord] /\ upload \in [Pushes -> UploadRecord]
      /\ stored \subseteq Repositories /\ manager \in Pushes \cup {None}
  BY DEF IInv, Typed
<1>2. PICK q : /\ push' = [push EXCEPT ![p] = q]
               /\ \/ q = [push[p] EXCEPT !.pc = "ok"] \/ q = [push[p] EXCEPT !.pc = "err"]
                  \/ q = [push[p] EXCEPT !.pc = "lookup"]
                  \/ q = [pc |-> "join", of |-> manager] /\ manager # None
  BY <1>1 DEF HeadFinds, HeadMisses, HeadFails, Join, Goes
<1>3. q \in PushRecord /\ q.pc \in {"ok", "err", "lookup", "join"}
      /\ (q.pc = "join" => q.of \in Pushes)
  BY <1>1, <1>2 DEF PushRecord, Returned
<1>4. push[p].pc \in {"head", "lookup"} /\ UNCHANGED <<upload, manager, stored, crashed>>
  BY DEF HeadFinds, HeadMisses, HeadFails, Join
<1>5. upload' = [upload EXCEPT ![p] = upload[p]]
  BY <1>1, <1>4
<1>6. push'[p] = q
  BY <1>1, <1>2
<1>7. Knows(p)'
  BY <1>1, <1>3, <1>4, <1>6 DEF Knows
<1>8. OneUpload'
  BY <1>1, <1>4 DEF OneUpload, Active
<1> QED
  BY <1>1, <1>2, <1>3, <1>4, <1>5, <1>7, <1>8, PushStep

LEMMA CreateInv ==
    ASSUME IInv, ~crashed, NEW p \in Pushes, Create(p)
    PROVE  IInv'
<1> DEFINE q == [pc |-> "prepare", of |-> p]
           b == [upload[p] EXCEPT !.phase = "preparing"]
<1>1. /\ upload[p] \in UploadRecord /\ Sound(upload[p]) /\ Knows(p)
      /\ push \in [Pushes -> PushRecord] /\ upload \in [Pushes -> UploadRecord]
      /\ OneUpload /\ stored \subseteq Repositories
  BY DEF IInv, Typed
<1>2. /\ push[p].pc = "lookup" /\ manager = None /\ manager' = p
      /\ push' = [push EXCEPT ![p] = q] /\ upload' = [upload EXCEPT ![p] = b]
      /\ stored' = stored /\ crashed' = crashed
  BY DEF Create
<1>3. q \in PushRecord /\ b \in UploadRecord /\ b.phase = "preparing"
      /\ b.references = upload[p].references
  BY <1>1 DEF PushRecord, UploadRecord
<1>4. upload[p].phase = "none"
  BY <1>1, <1>2 DEF Knows
<1>5. Sound(b) /\ Excused(b)
  BY <1>1, <1>4 DEF Sound, Excused, Before, UploadRecord
<1>6. /\ push'[p].pc = "prepare" /\ push'[p].of = p
      /\ \A u \in Pushes : upload'[u] = IF u = p THEN b ELSE upload[u]
  BY <1>1, <1>2
<1> HIDE DEF b
<1>7. Knows(p)'
  BY <1>3, <1>6 DEF Knows
<1>8. OneUpload'
  BY <1>1, <1>2, <1>6 DEF OneUpload, Active
<1> QED
  BY <1>1, <1>2, <1>3, <1>5, <1>7, <1>8, PushStep

LEMMA PrepareInv ==
    ASSUME IInv, ~crashed, NEW p \in Pushes, PrepareFails(p) \/ PrepareMounted(p) \/ Prepare(p)
    PROVE  IInv'
<1> DEFINE failed == [upload[p] EXCEPT !.phase = "unprepared"]
           mounted == [upload[p] EXCEPT !.phase = "start", !.done = TRUE]
           prepared == [upload[p] EXCEPT !.phase = "start", !.parts = Parts, !.nextURL = "full"]
<1>1. /\ upload[p] \in UploadRecord /\ Sound(upload[p]) /\ Knows(p)
      /\ push \in [Pushes -> PushRecord] /\ upload \in [Pushes -> UploadRecord]
      /\ push[p] \in PushRecord /\ OneUpload /\ stored \subseteq Repositories
      /\ manager \in Pushes \cup {None}
  BY DEF IInv, Typed
<1>2. push[p].pc = "prepare" /\ crashed' = crashed
  BY DEF PrepareFails, PrepareMounted, Prepare
<1>3. push[p].of = p /\ upload[p].phase = "preparing" /\ manager = p
  BY <1>1, <1>2 DEF Knows, OneUpload, Active
<1>4. failed \in UploadRecord /\ mounted \in UploadRecord /\ prepared \in UploadRecord
  BY <1>1 DEF UploadRecord
<1>5. /\ failed.phase = "unprepared" /\ mounted.phase = "start" /\ prepared.phase = "start"
      /\ failed.references = upload[p].references /\ mounted.references = upload[p].references
      /\ prepared.references = upload[p].references
  BY <1>1 DEF UploadRecord
<1>6. Sound(failed)
  BY <1>1, <1>3 DEF Sound, Before, UploadRecord
<1>7. Sound(prepared)
  BY <1>1, <1>3 DEF Sound, Before, UploadRecord
<1>8. Sound(mounted)
  BY <1>1, <1>3 DEF Sound, Before, UploadRecord
<1>9. Excused(failed) /\ Excused(mounted) /\ Excused(prepared)
  BY <1>5 DEF Excused
<1>10. PICK q \in PushRecord, b \in {failed, mounted, prepared} :
          /\ push' = [push EXCEPT ![p] = q] /\ upload' = [upload EXCEPT ![p] = b]
          /\ q.of = p
          /\ \/ b.phase = "unprepared" /\ q.pc = "err" /\ manager' = None
             \/ b.phase = "start" /\ q.pc = "join" /\ manager' = manager
  <2> DEFINE err == [push[p] EXCEPT !.pc = "err"]
             join == [push[p] EXCEPT !.pc = "join"]
  <2>1. err \in PushRecord /\ join \in PushRecord /\ err.pc = "err" /\ join.pc = "join"
        /\ err.of = p /\ join.of = p
    BY <1>1, <1>3 DEF PushRecord, Returned
  <2>2. \/ push' = [push EXCEPT ![p] = err] /\ upload' = [upload EXCEPT ![p] = failed] /\ manager' = None
        \/ push' = [push EXCEPT ![p] = join] /\ upload' = [upload EXCEPT ![p] = mounted]
           /\ manager' = manager
        \/ push' = [push EXCEPT ![p] = join] /\ upload' = [upload EXCEPT ![p] = prepared]
           /\ manager' = manager
    BY <1>1 DEF PrepareFails, PrepareMounted, Prepare, Goes
  <2> HIDE DEF err, join, failed, mounted, prepared
  <2> QED
    BY <1>5, <2>1, <2>2
<1>11. stored' \subseteq Repositories
  BY <1>1 DEF PrepareFails, PrepareMounted, Prepare
<1> HIDE DEF failed, mounted, prepared
<1>12. push'[p] = q /\ \A u \in Pushes : upload'[u] = IF u = p THEN b ELSE upload[u]
  BY <1>1, <1>10
<1>13. Knows(p)'
  BY <1>10, <1>12 DEF Knows
<1>14. OneUpload'
  BY <1>1, <1>3, <1>10, <1>12 DEF OneUpload, Active
<1> QED
  BY <1>1, <1>2, <1>3, <1>4, <1>5, <1>6, <1>7, <1>8, <1>9, <1>10, <1>11, <1>13, <1>14, PushStep

(* A push takes or gives back a reference to the upload u.                  *)
LEMMA ReferenceStep ==
    ASSUME IInv, ~crashed, NEW p \in Pushes, NEW u \in Pushes, NEW q \in PushRecord,
           NEW b \in UploadRecord,
           push' = [push EXCEPT ![p] = q], upload' = [upload EXCEPT ![u] = b],
           UNCHANGED <<manager, stored>>,
           push[p].of = u, q.of = u, push[p].pc \in {"join", "wait"},
           q.pc \in {"wait", "left"} \cup Returned,
           b.references = Cardinality(Pollers(u)'),
           b.phase = upload[u].phase, Sound(b),
           b.phase \in {"loop", "url"} /\ b.cancelled => Left' \/ b.done,
           \A v \in Pushes \ {u} : Pollers(v)' = Pollers(v),
           CrashNeedsLeave', crashed' \in BOOLEAN
    PROVE  IInv'
<1> USE DEF IInv
<1>1. \A x \in Pushes : push'[x] = IF x = p THEN q ELSE push[x]
  BY DEF Typed
<1>2. \A x \in Pushes : upload'[x] = IF x = u THEN b ELSE upload[x]
  BY DEF Typed
<1>3. Typed'
  BY DEF Typed
<1>4. Counted'
  BY <1>2 DEF Counted
<1>5. \A x \in Pushes : Knows(x)'
  BY <1>1, <1>2 DEF Knows, Returned
<1>6. Left => Left'
  BY <1>1 DEF Left
<1>7. \A v \in Pushes : Sound(upload[v])'
  BY <1>2 DEF Sound, InnerDone
<1>8. \A v \in Pushes : Excused(upload[v])'
  BY <1>2, <1>6 DEF Excused
<1>9. OneUpload'
  BY <1>2 DEF OneUpload, Active
<1> QED
  BY <1>3, <1>4, <1>5, <1>7, <1>8, <1>9

LEMMA AcquireInv ==
    ASSUME IInv, ~crashed, NEW p \in Pushes, Acquire(p)
    PROVE  IInv'
<1>1. push[p] \in PushRecord /\ push[p].pc = "join" /\ Knows(p)
  BY DEF Acquire, IInv, Typed
<1>2. PICK u \in Pushes : u = push[p].of
  BY <1>1 DEF Knows
<1> DEFINE q == [push[p] EXCEPT !.pc = "wait"]
           b == [upload[u] EXCEPT !.references = @ + 1]
<1>3. upload[u] \in UploadRecord /\ Sound(upload[u]) /\ Excused(upload[u])
  BY <1>2 DEF IInv, Typed
<1>4. q \in PushRecord /\ q.pc = "wait" /\ q.of = u
  BY <1>1, <1>2 DEF PushRecord
<1>5. b \in UploadRecord /\ b.phase = upload[u].phase /\ b.references = upload[u].references + 1
  BY <1>3 DEF UploadRecord
<1>6. Sound(b)
  BY <1>3 DEF Sound, InnerDone, UploadRecord
<1>7. push' = [push EXCEPT ![p] = q] /\ upload' = [upload EXCEPT ![u] = b]
      /\ UNCHANGED <<manager, stored, crashed>>
  BY <1>2 DEF Acquire, Goes
<1>8. \A x \in Pushes : push'[x] = IF x = p THEN q ELSE push[x]
  BY <1>7 DEF IInv, Typed
<1>9. p \notin Pollers(u) /\ Pollers(u)' = Pollers(u) \cup {p}
  <2>1. Pollers(u)' = {x \in Pushes : push'[x].pc = "wait" /\ push'[x].of = u}
    BY DEF Pollers
  <2>2. \A x \in Pushes : push'[x].pc = "wait" /\ push'[x].of = u <=> x \in Pollers(u) \/ x = p
    BY <1>1, <1>2, <1>4, <1>8 DEF Pollers
  <2> QED
    BY <1>1, <2>1, <2>2 DEF Pollers
<1>10. \A v \in Pushes \ {u} : Pollers(v)' = Pollers(v)
  BY <1>1, <1>2, <1>4, <1>8 DEF Pollers
<1>11. IsFiniteSet(Pollers(u))
  BY FS_Subset DEF Pollers
<1>12. b.references = Cardinality(Pollers(u)')
  <2>1. upload[u].references = Cardinality(Pollers(u))
    BY DEF IInv, Counted
  <2>2. Cardinality(Pollers(u) \cup {p}) = Cardinality(Pollers(u)) + 1
    BY <1>9, <1>11, FS_AddElement
  <2> QED
    BY <1>5, <1>9, <2>1, <2>2
<1>13. Left' <=> Left
  BY <1>1, <1>4, <1>8 DEF Left
<1>14. b.phase \in {"loop", "url"} /\ b.cancelled => Left' \/ b.done
  BY <1>3, <1>13 DEF Excused, UploadRecord
<1>15. CrashNeedsLeave' /\ crashed' \in BOOLEAN
  BY <1>7 DEF CrashNeedsLeave, IInv, Typed
<1> HIDE DEF b, q
<1> QED
  BY <1>1, <1>2, <1>4, <1>5, <1>6, <1>7, <1>10, <1>12, <1>14, <1>15, ReferenceStep

(* CancelFunc is called when the last push goes: the upload is then over,   *)
(* or a client has left, or it was mounted and has not started.             *)
LEMMA ReleaseInv ==
    ASSUME IInv, ~crashed, NEW p \in Pushes, Poll(p) \/ Leave(p)
    PROVE  IInv'
<1>1. push[p] \in PushRecord /\ push[p].pc = "wait" /\ Knows(p)
  BY DEF Poll, Leave, IInv, Typed
<1>2. PICK u \in Pushes : u = push[p].of
  BY <1>1 DEF Knows
<1> DEFINE last == upload[u].references = 1
           b == [upload[u] EXCEPT !.references = @ - 1,
                                  !.cancelled = @ \/ (last /\ upload[u].cancelFunc)]
<1>3. upload[u] \in UploadRecord /\ Sound(upload[u]) /\ Excused(upload[u])
  BY <1>2 DEF IInv, Typed
<1>4. /\ upload' = [upload EXCEPT ![u] = b] /\ UNCHANGED <<manager, stored>>
      /\ crashed' = (last /\ ~upload[u].cancelFunc)
  BY <1>2 DEF Poll, Leave, Release
<1>5. PICK q \in PushRecord : /\ push' = [push EXCEPT ![p] = q] /\ q.of = u
                              /\ \/ q.pc = "left"
                                 \/ /\ q.pc \in Returned
                                    /\ upload[u].done \/ upload[u].err # "none"
  <2>1. \A pc \in {"left", "ok", "err"} :
            LET q == [push[p] EXCEPT !.pc = pc] IN q \in PushRecord /\ q.of = u /\ q.pc = pc
    BY <1>1, <1>2 DEF PushRecord, Returned
  <2>2. CASE Leave(p)
    BY <2>1, <2>2 DEF Leave, Goes
  <2>3. CASE Poll(p)
    BY <1>2, <2>1, <2>3 DEF Poll, Goes, Returned
  <2> QED
    BY <2>2, <2>3
<1>6. \A x \in Pushes : push'[x] = IF x = p THEN q ELSE push[x]
  BY <1>5 DEF IInv, Typed
<1>7. p \in Pollers(u) /\ Pollers(u)' = Pollers(u) \ {p}
  BY <1>1, <1>2, <1>5, <1>6 DEF Pollers, Returned
<1>8. \A v \in Pushes \ {u} : Pollers(v)' = Pollers(v)
  BY <1>1, <1>2, <1>5, <1>6 DEF Pollers, Returned
<1>9. IsFiniteSet(Pollers(u)) /\ IsFiniteSet(Pollers(u)')
  BY <1>7, FS_Subset DEF Pollers
<1>10. Cardinality(Pollers(u)') = upload[u].references - 1 /\ Cardinality(Pollers(u)') \in Nat
  BY <1>2, <1>7, <1>9, FS_RemoveElement, FS_CardinalityType DEF IInv, Counted
<1>11. b \in UploadRecord
  <2>1. upload[u].references - 1 \in Nat /\ (upload[u].cancelled \/ (last /\ upload[u].cancelFunc)) \in BOOLEAN
    BY <1>10
  <2> QED
    BY <1>3, <2>1 DEF UploadRecord
<1>12. /\ b.references = upload[u].references - 1
       /\ b.cancelled <=> upload[u].cancelled \/ (last /\ upload[u].cancelFunc)
       /\ b.phase = upload[u].phase /\ b.parts = upload[u].parts /\ b.next = upload[u].next
       /\ b.part = upload[u].part /\ b.cancelFunc = upload[u].cancelFunc
       /\ b.done = upload[u].done /\ b.err = upload[u].err
  BY <1>3 DEF UploadRecord
<1> HIDE DEF b
<1>13. Sound(b)
  BY <1>3, <1>12 DEF Sound, InnerDone
<1>14. q.pc = "left" => Left'
  BY <1>6 DEF Left
<1>15. Left => Left'
  BY <1>1, <1>6 DEF Left
<1>16. b.phase \in {"loop", "url"} /\ b.cancelled => Left' \/ b.done
  <2>1. CASE q.pc = "left"
    BY <2>1, <1>14
  <2>2. CASE upload[u].done
    BY <2>2, <1>12
  <2>3. CASE upload[u].err # "none"
    BY <2>3, <1>3, <1>12 DEF Sound
  <2> QED
    BY <1>5, <2>1, <2>2, <2>3
<1>17. CrashNeedsLeave'
  <2> SUFFICES ASSUME last, ~upload[u].cancelFunc, q.pc # "left"
               PROVE  upload'[u].phase = "start" /\ upload'[u].done
    BY <1>2, <1>4, <1>14 DEF CrashNeedsLeave, Left
  <2>1. upload[u].phase \in Before \cup {"start"}
    BY <1>3 DEF Sound
  <2>2. upload[u].phase = "start" /\ upload[u].done
    BY <1>3, <1>5, <2>1 DEF Sound
  <2>3. upload'[u] = b
    BY <1>2, <1>4 DEF IInv, Typed
  <2> QED
    BY <2>2, <2>3, <1>12
<1>18. crashed' \in BOOLEAN
  BY <1>4
<1> QED
  BY <1>1, <1>2, <1>4, <1>5, <1>8, <1>10, <1>11, <1>12, <1>13, <1>16, <1>17, <1>18, ReferenceStep

-----------------------------------------------------------------------------
LEMMA StepInv == IInv /\ Next => IInv'
<1> SUFFICES ASSUME IInv, Next PROVE IInv'
  OBVIOUS
<1>1. ~crashed
  BY DEF Next
<1>2. ASSUME NEW p \in Pushes, Client(p) PROVE IInv'
  BY <1>1, <1>2, HeadInv, CreateInv, PrepareInv, AcquireInv, ReleaseInv DEF Client
<1>3. ASSUME NEW p \in Pushes, Leave(p) PROVE IInv'
  BY <1>1, <1>3, ReleaseInv
<1> QED
  BY <1>1, <1>2, <1>3, RunInv, PartInv DEF Next

LEMMA StutterInv == IInv /\ UNCHANGED vars => IInv'
<1> SUFFICES ASSUME IInv, UNCHANGED vars PROVE IInv'
  OBVIOUS
<1> USE DEF vars, IInv
<1>1. Typed'
  BY DEF Typed
<1>2. Counted'
  BY DEF Counted, Pollers
<1>3. \A p \in Pushes : Knows(p)'
  BY DEF Knows
<1>4. \A u \in Pushes : (Sound(upload[u]) /\ Excused(upload[u]))'
  BY DEF Sound, InnerDone, Excused, Left
<1>5. OneUpload' /\ CrashNeedsLeave'
  BY DEF OneUpload, Active, CrashNeedsLeave
<1> QED
  BY <1>1, <1>2, <1>3, <1>4, <1>5

LEMMA IInvAlways == Spec => []IInv
<1>1. IInv /\ [Next]_vars => IInv'
  BY StepInv, StutterInv
<1> QED
  BY IInvInit, <1>1, PTL DEF Spec

-----------------------------------------------------------------------------
(* Every variable has its type, and references is the number of pushes that *)
(* poll an upload: release cancels it when the last of them goes.           *)
THEOREM TypeCorrect == Spec => []TypeOK
<1>1. IInv => TypeOK
  BY DEF IInv, Typed, Counted, TypeOK, PushRecord
<1> QED
  BY IInvAlways, <1>1, PTL

(* However many pushes come, leave, fail and come again, at most one upload *)
(* of the blob is prepared or runs, and it is the one that pushes find.     *)
THEOREM OneUploadAtATime == Spec => []OneUpload
<1>1. IInv => OneUpload
  BY DEF IInv
<1> QED
  BY IInvAlways, <1>1, PTL

(* The process ends by a nil pointer of an upload only if a client has left *)
(* one, or if a mounted blob was polled before its Run had started.         *)
THEOREM CrashesAreExcused == Spec => []CrashNeedsLeave
<1>1. IInv => CrashNeedsLeave
  BY DEF IInv
<1> QED
  BY IInvAlways, <1>1, PTL
=============================================================================
