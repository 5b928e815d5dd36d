------------------------- MODULE BlobDownloadProofs -------------------------
(* Proofs about BlobDownload, for any number of pulls, downloads and parts: *)
(* first who may touch the disk, then what it has.                          *)
EXTENDS BlobDownload, FiniteSetTheorems, TLAPS

USE PullsAssumption

(* The fields that records have, whatever is in them.                       *)
PullFields == {"pc", "d", "cacheHit", "read", "next", "result", "gone"}
DownloadFields ==
    {"run", "cancel", "references", "done", "err", "total", "parts", "removed", "part"}

Shape ==
    /\ DOMAIN pull = Pulls /\ \A u \in Pulls : DOMAIN pull[u] = PullFields
    /\ DOMAIN download = Downloads /\ \A d \in Downloads : DOMAIN download[d] = DownloadFields

Preparing == {"prepare", "reset", "head", "newPart", "go"}
Holding == {"wait", "blocked", "release"}
Running == {"open", "direct", "parts", "remove", "rename", "delete"}

(* A pull has a download from when it has joined one until it has released  *)
(* it.                                                                      *)
Placed(r) ==
    /\ r.pc \in Preparing \cup {"acquire", "wait", "release"} => r.d \in Downloads
    /\ r.pc \in {"start", "join", "verify", "verified", "manifest", "over"} => r.d = None
    /\ r.pc = "blocked" => r.d \in Downloads \cup {None}

Holders(d) == {u \in Pulls : pull[u].d = d /\ pull[u].pc \in Holding}

(* The references of a download are the pulls that have it.                 *)
HoldersCounted == \A d \in Downloads : download[d].references = Cardinality(Holders(d))

(* One pull at a time prepares a download: the one that has put it in the   *)
(* manager, where it stays until it is dropped or its run is deleted.       *)
Prepared ==
    \A u \in Pulls : pull[u].pc \in Preparing =>
        /\ blobDownloadManager = pull[u].d
        /\ download[pull[u].d].run = "new"
        /\ \A v \in Pulls : pull[v].pc \in Preparing => v = u

Managed ==
    /\ blobDownloadManager \in Downloads \cup {None}
    /\ \A d \in Downloads : download[d].run \in Running => blobDownloadManager = d

IInv ==
    /\ Shape
    /\ \A u \in Pulls : Placed(pull[u])
    /\ HoldersCounted
    /\ Prepared
    /\ Managed

(* No step cancels a run under a pull that waits for it.                    *)
Careful ==
    \A d \in Downloads :
        download[d].cancel # "called" /\ download'[d].cancel = "called"
            => \A u \in Pulls : ~Holds(u, d)

LEMMA IInvInit == Init => IInv
<1> SUFFICES ASSUME Init PROVE IInv
  OBVIOUS
<1> USE DEF Init
<1>1. Shape
  BY DEF Shape, NewPull, NewDownload, PullFields, DownloadFields
<1>2. \A u \in Pulls : Placed(pull[u])
  BY DEF Placed, NewPull, Preparing
<1>3. HoldersCounted
  <2>1. \A d \in Downloads : Holders(d) = {}
    BY DEF Holders, NewPull
  <2> QED
    BY <2>1, FS_EmptySet DEF HoldersCounted, NewDownload
<1>4. Prepared /\ Managed
  BY DEF Prepared, Managed, NewPull, NewDownload, Preparing, Running
<1> QED
  BY <1>1, <1>2, <1>3, <1>4 DEF IInv

-----------------------------------------------------------------------------
(* A step that takes or gives back no reference and changes no entry of the *)
(* manager.                                                                 *)
LEMMA QuietStep ==
    ASSUME IInv, Shape', blobDownloadManager' = blobDownloadManager,
           \A d \in Downloads :
               /\ download'[d].references = download[d].references
               /\ download'[d].run \in Running => download[d].run \in Running
               /\ download[d].run = "new" => download'[d].run = "new"
               /\ download'[d].cancel = "called" => download[d].cancel = "called",
           \A u \in Pulls :
               /\ Placed(pull'[u])
               /\ pull'[u].pc \in Preparing => pull[u].pc \in Preparing /\ pull'[u].d = pull[u].d
               /\ \A d \in Downloads :
                      pull'[u].d = d /\ pull'[u].pc \in Holding
                          <=> pull[u].d = d /\ pull[u].pc \in Holding
    PROVE  IInv' /\ Careful
<1> USE DEF IInv
<1>1. \A u \in Pulls : Placed(pull[u])'
  BY DEF Placed
<1>2. \A d \in Downloads : Holders(d)' = Holders(d)
  BY DEF Holders
<1>3. HoldersCounted'
  BY <1>2 DEF HoldersCounted
<1>4. Prepared'
  <2> SUFFICES ASSUME NEW u \in Pulls, pull'[u].pc \in Preparing
               PROVE  /\ blobDownloadManager = pull[u].d
                      /\ download'[pull[u].d].run = "new"
                      /\ \A v \in Pulls : pull'[v].pc \in Preparing => v = u
    BY DEF Prepared
  <2>1. pull[u].pc \in Preparing /\ pull[u].d \in Downloads
    BY DEF Placed
  <2> QED
    BY <2>1 DEF Prepared
<1>5. Managed'
  BY DEF Managed
<1> QED
  BY <1>1, <1>3, <1>4, <1>5 DEF Careful

(* The same, of one pull alone.                                             *)
LEMMA PullStep ==
    ASSUME IInv, NEW u \in Pulls, NEW r, pull' = [pull EXCEPT ![u] = r],
           DOMAIN r = PullFields, Placed(r), UNCHANGED <<download, blobDownloadManager>>,
           r.pc \in Preparing => pull[u].pc \in Preparing /\ r.d = pull[u].d,
           \A d \in Downloads :
               r.d = d /\ r.pc \in Holding <=> pull[u].d = d /\ pull[u].pc \in Holding
    PROVE  IInv' /\ Careful
<1>1. \A v \in Pulls : pull'[v] = IF v = u THEN r ELSE pull[v]
  BY DEF IInv, Shape
<1>2. Shape'
  BY <1>1 DEF IInv, Shape
<1> QED
  BY <1>1, <1>2, QuietStep DEF IInv

(* The same, of the downloads alone.                                        *)
LEMMA DownloadStep ==
    ASSUME IInv, NEW d \in Downloads, NEW r, download' = [download EXCEPT ![d] = r],
           DOMAIN r = DownloadFields, UNCHANGED <<pull, blobDownloadManager>>,
           r.references = download[d].references,
           r.run \in Running => download[d].run \in Running,
           download[d].run = "new" => r.run = "new",
           r.cancel = "called" => download[d].cancel = "called"
    PROVE  IInv' /\ Careful
<1>1. \A e \in Downloads : download'[e] = IF e = d THEN r ELSE download[e]
  BY DEF IInv, Shape
<1>2. Shape'
  BY <1>1 DEF IInv, Shape
<1> QED
  BY <1>1, <1>2, QuietStep DEF IInv

(* A pull returns.                                                          *)
LEMMA ReturnFacts ==
    ASSUME IInv, NEW u \in Pulls, NEW result, Return(u, result)
    PROVE  \E r : /\ pull' = [pull EXCEPT ![u] = r]
                  /\ DOMAIN r = PullFields /\ r.pc = "over" /\ r.d = None
<1> DEFINE r == [NewPull EXCEPT !.pc = "over", !.result = result, !.gone = pull[u].gone]
<1>1. DOMAIN r = PullFields /\ r.pc = "over" /\ r.d = None
  BY DEF NewPull, PullFields
<1>2. pull' = [pull EXCEPT ![u] = r]
  BY DEF Return
<1> HIDE DEF r
<1> QED
  BY <1>1, <1>2

LEMMA StatInv ==
    ASSUME IInv, NEW u \in Pulls, Stat(u)
    PROVE  IInv' /\ Careful
<1> DEFINE join == [pull[u] EXCEPT !.pc = "join"]
           hit == [pull[u] EXCEPT !.pc = "manifest", !.cacheHit = TRUE]
<1>1. DOMAIN pull[u] = PullFields /\ pull[u].pc = "start" /\ pull[u].d = None
  BY DEF Stat, IInv, Shape, Placed
<1>2. /\ DOMAIN join = PullFields /\ join.pc = "join" /\ join.d = None
      /\ DOMAIN hit = PullFields /\ hit.pc = "manifest" /\ hit.d = None
  BY <1>1 DEF PullFields
<1>3. pull' = [pull EXCEPT ![u] = join] \/ pull' = [pull EXCEPT ![u] = hit]
  BY DEF Stat
<1> HIDE DEF join, hit
<1> QED
  BY <1>1, <1>2, <1>3, PullStep DEF Stat, Placed, Preparing, Holding

(* A pull waits, reports, leaves, verifies and writes its manifest.         *)
LEMMA MoveInv ==
    ASSUME IInv, NEW u \in Pulls, NEW r, pull' = [pull EXCEPT ![u] = r],
           UNCHANGED <<download, blobDownloadManager>>,
           DOMAIN r = PullFields, r.d = pull[u].d,
           \/ r.pc = pull[u].pc
           \/ pull[u].pc = "wait" /\ r.pc \in {"release", "blocked"}
           \/ pull[u].pc \in {"verify", "verified", "manifest"}
                /\ r.pc \in {"verified", "manifest", "over", "blocked"}
    PROVE  IInv' /\ Careful
<1>1. Placed(pull[u])
  BY DEF IInv
<1>2. Placed(r)
  BY <1>1 DEF Placed, Preparing
<1>3. r.pc \in Preparing => pull[u].pc \in Preparing
  BY DEF Preparing
<1>4. \A d \in Downloads :
          r.d = d /\ r.pc \in Holding <=> pull[u].d = d /\ pull[u].pc \in Holding
  BY <1>1 DEF Placed, Holding
<1> QED
  BY <1>2, <1>3, <1>4, PullStep

LEMMA WaitsInv ==
    ASSUME IInv, NEW u \in Pulls,
           WaitDone(u) \/ WaitCanceled(u) \/ ReportBlocks(u) \/ ClientLeaves(u) \/ VerifyHash(u)
    PROVE  IInv' /\ Careful
<1>1. DOMAIN pull[u] = PullFields
  BY DEF IInv, Shape
<1>2. CASE WaitDone(u)
  <2> DEFINE r == [pull[u] EXCEPT !.pc = "release", !.result = download[pull[u].d].err]
  <2>1. DOMAIN r = PullFields /\ r.pc = "release" /\ r.d = pull[u].d
    BY <1>1 DEF PullFields
  <2>2. pull' = [pull EXCEPT ![u] = r] /\ pull[u].pc = "wait"
    BY <1>2 DEF WaitDone
  <2> HIDE DEF r
  <2> QED
    BY <1>2, <2>1, <2>2, MoveInv DEF WaitDone
<1>3. CASE WaitCanceled(u)
  <2> DEFINE r == [pull[u] EXCEPT !.pc = "release", !.result = "canceled"]
  <2>1. DOMAIN r = PullFields /\ r.pc = "release" /\ r.d = pull[u].d
    BY <1>1 DEF PullFields
  <2>2. pull' = [pull EXCEPT ![u] = r] /\ pull[u].pc = "wait"
    BY <1>3 DEF WaitCanceled
  <2> HIDE DEF r
  <2> QED
    BY <1>3, <2>1, <2>2, MoveInv DEF WaitCanceled
<1>4. CASE ReportBlocks(u)
  <2> DEFINE r == [pull[u] EXCEPT !.pc = "blocked"]
  <2>1. DOMAIN r = PullFields /\ r.pc = "blocked" /\ r.d = pull[u].d
    BY <1>1 DEF PullFields
  <2>2. pull' = [pull EXCEPT ![u] = r]
    BY <1>4 DEF ReportBlocks
  <2> HIDE DEF r
  <2> QED
    BY <1>4, <2>1, <2>2, MoveInv DEF ReportBlocks
<1>5. CASE ClientLeaves(u)
  <2> DEFINE r == [pull[u] EXCEPT !.gone = TRUE]
  <2>1. DOMAIN r = PullFields /\ r.pc = pull[u].pc /\ r.d = pull[u].d
    BY <1>1 DEF PullFields
  <2>2. pull' = [pull EXCEPT ![u] = r]
    BY <1>5 DEF ClientLeaves
  <2> HIDE DEF r
  <2> QED
    BY <1>5, <2>1, <2>2, MoveInv DEF ClientLeaves
<1>6. CASE VerifyHash(u)
  <2> DEFINE r == [pull[u] EXCEPT !.pc = "verified", !.read = blob]
  <2>1. DOMAIN r = PullFields /\ r.pc = "verified" /\ r.d = pull[u].d
    BY <1>1 DEF PullFields
  <2>2. pull' = [pull EXCEPT ![u] = r]
    BY <1>6 DEF VerifyHash
  <2> HIDE DEF r
  <2> QED
    BY <1>6, <2>1, <2>2, MoveInv DEF VerifyHash
<1> QED
  BY <1>2, <1>3, <1>4, <1>5, <1>6

LEMMA VerifiedInv ==
    ASSUME IInv, NEW u \in Pulls, VerifyAct(u) \/ WriteManifest(u)
    PROVE  IInv' /\ Careful
<1>1. /\ DOMAIN pull[u] = PullFields /\ pull[u].pc \in {"verified", "manifest"}
      /\ pull[u].d = None /\ UNCHANGED <<download, blobDownloadManager>>
  BY DEF IInv, Shape, Placed, VerifyAct, WriteManifest
<1> DEFINE r == [pull[u] EXCEPT !.pc = "manifest"]
<1>2. DOMAIN r = PullFields /\ r.pc = "manifest" /\ r.d = pull[u].d
  BY <1>1 DEF PullFields
<1>3. CASE pull' = [pull EXCEPT ![u].pc = "manifest"]
  BY <1>1, <1>2, <1>3, MoveInv
<1>4. ASSUME NEW result, Return(u, result) PROVE IInv' /\ Careful
  <2>1. PICK a : /\ pull' = [pull EXCEPT ![u] = a]
                 /\ DOMAIN a = PullFields /\ a.pc = "over" /\ a.d = None
    BY <1>4, ReturnFacts
  <2> QED
    BY <1>1, <2>1, MoveInv
<1> QED
  BY <1>3, <1>4 DEF VerifyAct, WriteManifest

-----------------------------------------------------------------------------
(* Prepare.                                                                 *)

(* The pull that prepares a download goes on, and the download is changed.  *)
LEMMA PrepareStep ==
    ASSUME IInv, NEW u \in Pulls, NEW r, NEW b, pull[u].pc \in Preparing,
           pull' = [pull EXCEPT ![u] = r], download' = [download EXCEPT ![pull[u].d] = b],
           blobDownloadManager' = blobDownloadManager,
           DOMAIN r = PullFields, DOMAIN b = DownloadFields,
           r.pc \in Preparing, r.d = pull[u].d,
           b.references = download[pull[u].d].references,
           b.run = download[pull[u].d].run, b.cancel = download[pull[u].d].cancel
    PROVE  IInv' /\ Careful
<1>1. pull[u].d \in Downloads
  BY DEF IInv, Placed
<1>2. \A v \in Pulls : pull'[v] = IF v = u THEN r ELSE pull[v]
  BY DEF IInv, Shape
<1>3. \A d \in Downloads : download'[d] = IF d = pull[u].d THEN b ELSE download[d]
  BY DEF IInv, Shape
<1>4. Shape'
  BY <1>2, <1>3 DEF IInv, Shape
<1>5. Placed(r)
  BY <1>1 DEF Placed, Preparing
<1>6. pull[u].pc \notin Holding /\ r.pc \notin Holding
  BY DEF Preparing, Holding
<1> QED
  BY <1>2, <1>3, <1>4, <1>5, <1>6, QuietStep DEF IInv

LEMMA PrepareInv ==
    ASSUME IInv, NEW u \in Pulls,
           PrepareRead(u) \/ PrepareReset(u) \/ PrepareHead(u) \/ NewPartFile(u)
    PROVE  IInv' /\ Careful
<1> DEFINE d == pull[u].d
<1>1. /\ pull[u].pc \in Preparing /\ blobDownloadManager' = blobDownloadManager
      /\ DOMAIN pull[u] = PullFields
  BY DEF IInv, Shape, PrepareRead, PrepareReset, PrepareHead, NewPartFile, Preparing
<1>2. d \in Downloads
  BY <1>1 DEF IInv, Placed
<1>3. DOMAIN download[d] = DownloadFields
  BY <1>2 DEF IInv, Shape
<1>4. PICK r : /\ pull' = [pull EXCEPT ![u] = r]
               /\ DOMAIN r = PullFields /\ r.pc \in Preparing /\ r.d = d
  <2>1. \A pc \in Preparing : LET r == [pull[u] EXCEPT !.pc = pc] IN
            DOMAIN r = PullFields /\ r.pc \in Preparing /\ r.d = d
    BY <1>1 DEF PullFields
  <2>2. \A pc \in Preparing : \A next : LET r == [pull[u] EXCEPT !.next = next, !.pc = pc] IN
            DOMAIN r = PullFields /\ r.pc \in Preparing /\ r.d = d
    BY <1>1 DEF PullFields
  <2>3. CASE PrepareRead(u)
    BY <2>1, <2>3 DEF PrepareRead, Preparing
  <2>4. CASE PrepareReset(u)
    BY <2>1, <2>4 DEF PrepareReset, Preparing
  <2>5. CASE PrepareHead(u)
    BY <2>1, <2>5 DEF PrepareHead, Preparing
  <2>6. CASE NewPartFile(u)
    <3> DEFINE next == pull[u].next + 1
               pc == IF next \in Parts THEN "newPart" ELSE "go"
    <3>1. pull' = [pull EXCEPT ![u] = [pull[u] EXCEPT !.next = next, !.pc = pc]]
      BY <1>1, <2>6 DEF NewPartFile, PullFields, Shape, IInv
    <3>2. pc \in Preparing
      BY DEF Preparing
    <3> HIDE DEF next, pc
    <3> QED
      BY <2>2, <3>1, <3>2
  <2> QED
    BY <2>3, <2>4, <2>5, <2>6
<1>5. PICK b : /\ download' = [download EXCEPT ![d] = b] /\ DOMAIN b = DownloadFields
               /\ b.references = download[d].references
               /\ b.run = download[d].run /\ b.cancel = download[d].cancel
  <2> DEFINE Fine(b) == /\ DOMAIN b = DownloadFields
                        /\ b.references = download[d].references
                        /\ b.run = download[d].run /\ b.cancel = download[d].cancel
  <2>1. CASE PrepareRead(u)
    <3> DEFINE part == [i \in Parts |-> IF i \in Readable
                              THEN [NoPart EXCEPT !.completed = saved[i]] ELSE NoPart]
               b == [download[d] EXCEPT !.done = "open", !.parts = Readable,
                                        !.total = SizeOf(Readable), !.part = part]
    <3>1. download' = [download EXCEPT ![d] = b]
      BY <2>1 DEF PrepareRead
    <3>2. Fine(b)
      BY <1>3 DEF DownloadFields
    <3> HIDE DEF b
    <3> QED
      BY <3>1, <3>2
  <2>2. CASE PrepareReset(u)
    <3> DEFINE b == [download[d] EXCEPT !.parts = {}, !.total = 0,
                                        !.part = [i \in Parts |-> NoPart]]
    <3>1. download' = [download EXCEPT ![d] = b]
      BY <2>2 DEF PrepareReset
    <3>2. Fine(b)
      BY <1>3 DEF DownloadFields
    <3> HIDE DEF b
    <3> QED
      BY <3>1, <3>2
  <2>3. CASE PrepareHead(u)
    <3> DEFINE b == [download[d] EXCEPT !.total = BlobSize]
    <3>1. download' = [download EXCEPT ![d] = b]
      BY <2>3 DEF PrepareHead
    <3>2. Fine(b)
      BY <1>3 DEF DownloadFields
    <3> HIDE DEF b
    <3> QED
      BY <3>1, <3>2
  <2>4. CASE NewPartFile(u)
    <3> DEFINE b == [download[d] EXCEPT !.parts = @ \cup {pull[u].next}]
    <3>1. download' = [download EXCEPT ![d] = b]
      BY <2>4 DEF NewPartFile
    <3>2. Fine(b)
      BY <1>3 DEF DownloadFields
    <3> HIDE DEF b
    <3> QED
      BY <3>1, <3>2
  <2> QED
    BY <2>1, <2>2, <2>3, <2>4
<1> QED
  BY <1>1, <1>4, <1>5, PrepareStep

(* A pull joins a download, or puts an unused one in the manager.           *)
LEMMA LoadOrStoreInv ==
    ASSUME IInv, NEW u \in Pulls, LoadOrStore(u)
    PROVE  IInv' /\ Careful
<1>1. /\ DOMAIN pull[u] = PullFields /\ pull[u].pc = "join" /\ pull[u].d = None
      /\ download' = download
  BY DEF IInv, Shape, Placed, LoadOrStore
<1>0. blobDownloadManager \in Downloads \cup {None}
  BY DEF IInv, Managed
<1>2. CASE blobDownloadManager # None
  <2> DEFINE r == [pull[u] EXCEPT !.pc = "acquire", !.d = blobDownloadManager]
  <2>1. DOMAIN r = PullFields /\ r.pc = "acquire" /\ r.d = blobDownloadManager
    BY <1>1 DEF PullFields
  <2>2. pull' = [pull EXCEPT ![u] = r] /\ blobDownloadManager' = blobDownloadManager
    BY <1>2 DEF LoadOrStore
  <2> HIDE DEF r
  <2>3. Placed(r)
    BY <1>0, <1>2, <2>1 DEF Placed, Preparing
  <2> QED
    BY <1>1, <2>1, <2>2, <2>3, PullStep DEF Preparing, Holding
<1>3. CASE blobDownloadManager = None
  <2>1. PICK d \in Downloads :
            /\ Unused(d) /\ blobDownloadManager' = d
            /\ pull' = [pull EXCEPT ![u] = [pull[u] EXCEPT !.pc = "prepare", !.d = d]]
    BY <1>3 DEF LoadOrStore
  <2> DEFINE r == [pull[u] EXCEPT !.pc = "prepare", !.d = d]
  <2>2. DOMAIN r = PullFields /\ r.pc = "prepare" /\ r.d = d
    BY <1>1 DEF PullFields
  <2> HIDE DEF r
  <2>3. \A v \in Pulls : pull'[v] = IF v = u THEN r ELSE pull[v]
    BY <2>1 DEF IInv, Shape, r
  <2>4. Shape'
    BY <1>1, <2>1, <2>2, <2>3 DEF IInv, Shape
  <2>5. \A v \in Pulls : Placed(pull[v])'
    BY <2>2, <2>3 DEF IInv, Placed
  <2>6. \A e \in Downloads : Holders(e)' = Holders(e)
    BY <1>1, <2>2, <2>3 DEF Holders, Holding
  <2>7. HoldersCounted'
    BY <1>1, <2>6 DEF IInv, HoldersCounted
  <2>8. \A v \in Pulls : pull[v].pc \notin Preparing
    BY <1>3 DEF IInv, Prepared, Placed
  <2>9. Prepared'
    <3>1. download[d].run = "new"
      BY <2>1 DEF Unused, NewDownload
    <3> QED
      BY <1>1, <2>1, <2>2, <2>3, <2>8, <3>1 DEF Prepared
  <2>10. Managed'
    BY <1>1, <1>3, <2>1 DEF IInv, Managed
  <2> QED
    BY <1>1, <2>4, <2>5, <2>7, <2>9, <2>10 DEF IInv, Careful
<1> QED
  BY <1>2, <1>3

(* The pull that prepares a download gives it up, or starts its run: then   *)
(* no pull prepares one.                                                    *)
LEMMA PrepareFailsInv ==
    ASSUME IInv, NEW u \in Pulls, PrepareFails(u)
    PROVE  IInv' /\ Careful
<1>1. /\ pull[u].pc \in Preparing /\ blobDownloadManager' = None /\ download' = download
  BY DEF PrepareFails, Preparing
<1>2. PICK r : /\ pull' = [pull EXCEPT ![u] = r]
               /\ DOMAIN r = PullFields /\ r.pc = "over" /\ r.d = None
  BY ReturnFacts DEF PrepareFails
<1>3. \A v \in Pulls : pull'[v] = IF v = u THEN r ELSE pull[v]
  BY <1>2 DEF IInv, Shape
<1>4. Shape'
  BY <1>1, <1>2, <1>3 DEF IInv, Shape
<1>5. \A v \in Pulls : Placed(pull[v])'
  BY <1>2, <1>3 DEF IInv, Placed, Preparing
<1>6. \A d \in Downloads : Holders(d)' = Holders(d)
  BY <1>1, <1>2, <1>3 DEF Holders, Holding, Preparing
<1>7. HoldersCounted'
  BY <1>1, <1>6 DEF IInv, HoldersCounted
<1>8. Prepared'
  BY <1>1, <1>2, <1>3 DEF IInv, Prepared, Preparing
<1>9. Managed'
  <2>1. \A d \in Downloads : download[d].run \notin Running
    BY <1>1 DEF IInv, Prepared, Managed, Running
  <2> QED
    BY <1>1, <2>1 DEF Managed
<1> QED
  BY <1>1, <1>4, <1>5, <1>7, <1>8, <1>9 DEF IInv, Careful

LEMMA GoRunInv ==
    ASSUME IInv, NEW u \in Pulls, GoRun(u)
    PROVE  IInv' /\ Careful
<1> DEFINE r == [pull[u] EXCEPT !.pc = "acquire"]
<1>1. /\ pull[u].pc = "go" /\ blobDownloadManager' = blobDownloadManager
      /\ pull' = [pull EXCEPT ![u] = r]
  BY DEF GoRun
<1>2. PICK d \in Downloads : d = pull[u].d
  BY <1>1 DEF IInv, Placed, Preparing
<1> DEFINE b == [download[d] EXCEPT !.run = "open"]
<1>3. DOMAIN r = PullFields /\ r.pc = "acquire" /\ r.d = d
  BY <1>2 DEF IInv, Shape, PullFields
<1>4. /\ DOMAIN b = DownloadFields /\ b.run = "open" /\ b.cancel = download[d].cancel
      /\ b.references = download[d].references
  BY DEF IInv, Shape, DownloadFields
<1>5. download' = [download EXCEPT ![d] = b]
  BY <1>2 DEF GoRun
<1> HIDE DEF r, b
<1>6. \A v \in Pulls : pull'[v] = IF v = u THEN r ELSE pull[v]
  BY <1>1 DEF IInv, Shape
<1>7. \A e \in Downloads : download'[e] = IF e = d THEN b ELSE download[e]
  BY <1>5 DEF IInv, Shape
<1>8. Shape'
  BY <1>1, <1>3, <1>4, <1>5, <1>6, <1>7 DEF IInv, Shape
<1>9. \A v \in Pulls : Placed(pull[v])'
  BY <1>3, <1>6 DEF IInv, Placed, Preparing
<1>10. \A e \in Downloads : Holders(e)' = Holders(e)
  BY <1>1, <1>3, <1>6 DEF Holders, Holding
<1>11. HoldersCounted'
  BY <1>4, <1>7, <1>10 DEF IInv, HoldersCounted
<1>12. pull[u].pc \in Preparing
  BY <1>1 DEF Preparing
<1>13. Prepared'
  BY <1>3, <1>6, <1>12 DEF IInv, Prepared, Preparing
<1>14. Managed'
  BY <1>1, <1>2, <1>7, <1>12 DEF IInv, Prepared, Managed
<1>15. Careful
  BY <1>4, <1>7 DEF Careful
<1> QED
  BY <1>8, <1>9, <1>11, <1>13, <1>14, <1>15 DEF IInv

-----------------------------------------------------------------------------
(* Wait: a pull takes its reference, or gives it back.                      *)
LEMMA ReferenceStep ==
    ASSUME IInv, NEW u \in Pulls, NEW d \in Downloads, NEW r, NEW b,
           pull' = [pull EXCEPT ![u] = r], download' = [download EXCEPT ![d] = b],
           blobDownloadManager' = blobDownloadManager,
           DOMAIN r = PullFields, DOMAIN b = DownloadFields, Placed(r),
           pull[u].pc \notin Preparing, r.pc \notin Preparing,
           b.run = download[d].run, b.references = Cardinality(Holders(d)'),
           \A e \in Downloads \ {d} : Holders(e)' = Holders(e)
    PROVE  IInv'
<1>1. \A v \in Pulls : pull'[v] = IF v = u THEN r ELSE pull[v]
  BY DEF IInv, Shape
<1>2. \A e \in Downloads : download'[e] = IF e = d THEN b ELSE download[e]
  BY DEF IInv, Shape
<1>3. Shape'
  BY <1>1, <1>2 DEF IInv, Shape
<1>4. \A v \in Pulls : Placed(pull[v])'
  BY <1>1 DEF IInv, Placed
<1>5. HoldersCounted'
  BY <1>2 DEF IInv, HoldersCounted
<1>6. Prepared'
  <2>1. \A v \in Pulls : pull'[v].pc \in Preparing => pull'[v] = pull[v] /\ pull[v].d \in Downloads
    BY <1>1 DEF IInv, Placed
  <2>2. \A e \in Downloads : download'[e].run = download[e].run
    BY <1>2
  <2> QED
    BY <2>1, <2>2 DEF IInv, Prepared
<1>7. Managed'
  BY <1>2 DEF IInv, Managed
<1> QED
  BY <1>3, <1>4, <1>5, <1>6, <1>7 DEF IInv

LEMMA AcquireInv ==
    ASSUME IInv, NEW u \in Pulls, Acquire(u)
    PROVE  IInv' /\ Careful
<1> DEFINE r == [pull[u] EXCEPT !.pc = "wait"]
<1>1. /\ pull[u].pc = "acquire" /\ blobDownloadManager' = blobDownloadManager
      /\ pull' = [pull EXCEPT ![u] = r]
  BY DEF Acquire
<1>2. PICK d \in Downloads : d = pull[u].d
  BY <1>1 DEF IInv, Placed
<1> DEFINE b == [download[d] EXCEPT !.references = @ + 1]
<1>3. DOMAIN r = PullFields /\ r.pc = "wait" /\ r.d = d
  BY <1>2 DEF IInv, Shape, PullFields
<1>4. /\ DOMAIN b = DownloadFields /\ b.run = download[d].run /\ b.cancel = download[d].cancel
      /\ b.references = download[d].references + 1
  BY DEF IInv, Shape, DownloadFields
<1>5. download' = [download EXCEPT ![d] = b]
  BY <1>2 DEF Acquire
<1> HIDE DEF r, b
<1>6. \A v \in Pulls : pull'[v] = IF v = u THEN r ELSE pull[v]
  BY <1>1 DEF IInv, Shape
<1>7. \A e \in Downloads : download'[e] = IF e = d THEN b ELSE download[e]
  BY <1>5 DEF IInv, Shape
<1>8. u \notin Holders(d) /\ Holders(d)' = Holders(d) \cup {u}
  <2>1. Holders(d)' = {v \in Pulls : pull'[v].d = d /\ pull'[v].pc \in Holding}
    BY DEF Holders
  <2>2. \A v \in Pulls : pull'[v].d = d /\ pull'[v].pc \in Holding <=> v \in Holders(d) \/ v = u
    BY <1>3, <1>6 DEF Holders, Holding
  <2> QED
    BY <1>1, <2>1, <2>2 DEF Holders, Holding
<1>9. \A e \in Downloads \ {d} : Holders(e)' = Holders(e)
  BY <1>2, <1>3, <1>6 DEF Holders
<1>10. Cardinality(Holders(d)') = Cardinality(Holders(d)) + 1
  <2>1. IsFiniteSet(Holders(d))
    BY FS_Subset DEF Holders
  <2> QED
    BY <1>8, <2>1, FS_AddElement
<1>11. b.references = Cardinality(Holders(d)')
  BY <1>4, <1>10 DEF IInv, HoldersCounted
<1>12. Placed(r) /\ r.pc \notin Preparing /\ pull[u].pc \notin Preparing
  BY <1>1, <1>3 DEF Placed, Preparing
<1>13. Careful
  BY <1>4, <1>7 DEF Careful
<1> QED
  BY <1>1, <1>3, <1>4, <1>5, <1>9, <1>11, <1>12, <1>13, ReferenceStep

(* The last reference cancels the run: then no pull waits for it.           *)
LEMMA ReleaseInv ==
    ASSUME IInv, NEW u \in Pulls, Release(u)
    PROVE  IInv' /\ Careful
<1>1. pull[u].pc = "release" /\ blobDownloadManager' = blobDownloadManager
  BY DEF Release
<1>2. PICK d \in Downloads : d = pull[u].d
  BY <1>1 DEF IInv, Placed
<1> DEFINE last == download[d].references = 1
           b == [download[d] EXCEPT !.references = @ - 1,
                                    !.cancel = IF last /\ @ = "set" THEN "called" ELSE @]
<1>3. PICK r : /\ pull' = [pull EXCEPT ![u] = r]
               /\ DOMAIN r = PullFields /\ r.pc \in {"verify", "over"} /\ r.d = None
  <2>1. CASE pull[u].result = "none"
    <3> DEFINE r == [pull[u] EXCEPT !.pc = "verify", !.d = None]
    <3>1. DOMAIN r = PullFields /\ r.pc = "verify" /\ r.d = None
      BY DEF IInv, Shape, PullFields
    <3>2. pull' = [pull EXCEPT ![u] = r]
      BY <2>1 DEF Release
    <3> HIDE DEF r
    <3> QED
      BY <3>1, <3>2
  <2>2. CASE pull[u].result # "none"
    BY <2>2, ReturnFacts DEF Release
  <2> QED
    BY <2>1, <2>2
<1>4. /\ DOMAIN b = DownloadFields /\ b.run = download[d].run
      /\ b.references = download[d].references - 1
      /\ b.cancel # download[d].cancel => last
  BY DEF IInv, Shape, DownloadFields
<1>5. download' = [download EXCEPT ![d] = b]
  BY <1>2 DEF Release, LastReference
<1> HIDE DEF b
<1>6. \A v \in Pulls : pull'[v] = IF v = u THEN r ELSE pull[v]
  BY <1>3 DEF IInv, Shape
<1>7. \A e \in Downloads : download'[e] = IF e = d THEN b ELSE download[e]
  BY <1>5 DEF IInv, Shape
<1>8. u \in Holders(d) /\ Holders(d)' = Holders(d) \ {u}
  <2>1. Holders(d)' = {v \in Pulls : pull'[v].d = d /\ pull'[v].pc \in Holding}
    BY DEF Holders
  <2>2. \A v \in Pulls : pull'[v].d = d /\ pull'[v].pc \in Holding <=> v \in Holders(d) /\ v # u
    BY <1>3, <1>6 DEF Holders
  <2> QED
    BY <1>1, <1>2, <2>1, <2>2 DEF Holders, Holding
<1>9. \A e \in Downloads \ {d} : Holders(e)' = Holders(e)
  BY <1>2, <1>3, <1>6 DEF Holders
<1>10. IsFiniteSet(Holders(d)) /\ download[d].references = Cardinality(Holders(d))
  BY FS_Subset DEF IInv, HoldersCounted, Holders
<1>11. Cardinality(Holders(d)') = Cardinality(Holders(d)) - 1
  BY <1>8, <1>10, FS_RemoveElement
<1>12. b.references = Cardinality(Holders(d)')
  BY <1>4, <1>10, <1>11
<1>13. Placed(r) /\ r.pc \notin Preparing /\ pull[u].pc \notin Preparing
  BY <1>1, <1>3 DEF Placed, Preparing
<1>14. IInv'
  BY <1>1, <1>3, <1>4, <1>5, <1>9, <1>12, <1>13, ReferenceStep
<1>15. last => Holders(d) = {u}
  <2> SUFFICES ASSUME last PROVE Holders(d) = {u}
    OBVIOUS
  <2>1. Cardinality(Holders(d)) = 1
    BY <1>10
  <2> DEFINE S == Holders(d)
  <2>2. \E x : S = {x}
    <3>1. IsFiniteSet(S) /\ Cardinality(S) = 1
      BY <1>10, <2>1
    <3> HIDE DEF S
    <3> QED
      BY <3>1, FS_Singleton
  <2> QED
    BY <1>8, <2>2
<1>16. Careful
  <2> SUFFICES ASSUME NEW e \in Downloads,
                      download[e].cancel # "called" /\ download'[e].cancel = "called",
                      NEW v \in Pulls, Holds(v, e)
               PROVE  FALSE
    BY DEF Careful
  <2>1. e = d /\ last
    BY <1>4, <1>7
  <2>2. v \in Holders(d)
    BY <2>1 DEF Holds, Holders, Holding
  <2> QED
    BY <1>1, <1>15, <2>1, <2>2 DEF Holds
<1> QED
  BY <1>14, <1>16

-----------------------------------------------------------------------------
(* Run and its parts.                                                       *)

(* A step of Run, of which only where it is matters.                        *)
LEMMA RunStep ==
    ASSUME IInv, NEW d \in Downloads, NEW r, download' = [download EXCEPT ![d] = r],
           DOMAIN r = DownloadFields, UNCHANGED <<pull, blobDownloadManager>>,
           r.references = download[d].references,
           \/ download[d].run \in Running /\ r.run \in Running
           \/ download[d].run = "close" /\ r.run = "over",
           r.cancel \in {download[d].cancel, "set"}
    PROVE  IInv' /\ Careful
<1>1. \A x \in Running : x # "new" /\ x # "over"
  BY DEF Running
<1> QED
  BY <1>1, DownloadStep DEF Running

LEMMA RunMovesInv ==
    ASSUME IInv, NEW d \in Downloads,
           \/ RunOpen(d) \/ RunDirect(d) \/ RunWait(d) \/ RunRemove(d) \/ RunRename(d)
           \/ RunFails(d) \/ RunClose(d)
    PROVE  IInv' /\ Careful
<1>1. DOMAIN download[d] = DownloadFields
  BY DEF IInv, Shape
<1>2. UNCHANGED <<pull, blobDownloadManager>>
  BY DEF RunOpen, RunDirect, RunWait, RunRemove, RunRename, RunFails, RunClose
<1>3. CASE RunOpen(d)
  <2> DEFINE r == [download[d] EXCEPT !.run = "direct", !.cancel = "set"]
  <2>1. /\ DOMAIN r = DownloadFields /\ r.run = "direct" /\ r.cancel = "set"
        /\ r.references = download[d].references
    BY <1>1 DEF DownloadFields
  <2>2. download' = [download EXCEPT ![d] = r] /\ download[d].run = "open"
    BY <1>3 DEF RunOpen
  <2> HIDE DEF r
  <2> QED
    BY <1>2, <2>1, <2>2, RunStep DEF Running
<1>4. ASSUME NEW err, RunReturns(d, err), download[d].run \in Running PROVE IInv' /\ Careful
  <2> DEFINE r == [download[d] EXCEPT !.run = "delete", !.err = err]
  <2>1. /\ DOMAIN r = DownloadFields /\ r.run = "delete" /\ r.cancel = download[d].cancel
        /\ r.references = download[d].references
    BY <1>1 DEF DownloadFields
  <2>2. download' = [download EXCEPT ![d] = r]
    BY <1>4 DEF RunReturns
  <2> HIDE DEF r
  <2> QED
    BY <1>2, <1>4, <2>1, <2>2, RunStep DEF Running
<1>5. CASE RunDirect(d)
  <2>1. download[d].run = "direct"
    BY <1>5 DEF RunDirect
  <2> DEFINE part == [i \in Parts |->
                         IF i \in download[d].parts /\ download[d].part[i].completed # Size(i)
                         THEN [download[d].part[i] EXCEPT !.pc = "copy"]
                         ELSE [download[d].part[i] EXCEPT !.pc = "end"]]
             r == [download[d] EXCEPT !.run = "parts", !.part = part]
  <2>2. /\ DOMAIN r = DownloadFields /\ r.run = "parts" /\ r.cancel = download[d].cancel
        /\ r.references = download[d].references
    BY <1>1 DEF DownloadFields
  <2>3. \/ download' = [download EXCEPT ![d] = r]
        \/ RunReturns(d, "canceled") \/ RunReturns(d, "failed")
    BY <1>1, <1>5 DEF RunDirect, DownloadFields
  <2> HIDE DEF r
  <2> QED
    BY <1>2, <1>4, <2>1, <2>2, <2>3, RunStep DEF Running
<1>6. CASE RunWait(d)
  <2> DEFINE r == [download[d] EXCEPT !.run = IF GroupFailed(d) THEN "delete" ELSE "remove",
                                      !.part = [i \in Parts |-> NoPart]]
  <2>1. /\ DOMAIN r = DownloadFields /\ r.run \in {"delete", "remove"}
        /\ r.cancel = download[d].cancel /\ r.references = download[d].references
    BY <1>1 DEF DownloadFields
  <2>2. download' = [download EXCEPT ![d] = r] /\ download[d].run = "parts"
    BY <1>6 DEF RunWait
  <2> HIDE DEF r
  <2> QED
    BY <1>2, <2>1, <2>2, RunStep DEF Running
<1>7. CASE RunRemove(d)
  <2> DEFINE again == [download[d] EXCEPT !.removed = @ + 1]
             over == [download[d] EXCEPT !.run = "rename"]
  <2>1. download[d].run = "remove"
    BY <1>7 DEF RunRemove
  <2>2. /\ DOMAIN again = DownloadFields /\ again.run = "remove"
        /\ again.cancel = download[d].cancel /\ again.references = download[d].references
        /\ DOMAIN over = DownloadFields /\ over.run = "rename"
        /\ over.cancel = download[d].cancel /\ over.references = download[d].references
    BY <1>1, <2>1 DEF DownloadFields
  <2>3. download' = [download EXCEPT ![d] = again] \/ download' = [download EXCEPT ![d] = over]
    BY <1>7 DEF RunRemove
  <2> HIDE DEF again, over
  <2> QED
    BY <1>2, <2>1, <2>2, <2>3, RunStep DEF Running
<1>8. CASE RunRename(d)
  BY <1>4, <1>8 DEF RunRename, Running
<1>9. CASE RunClose(d)
  <2> DEFINE r == [download[d] EXCEPT !.run = "over", !.done = "closed"]
  <2>1. /\ DOMAIN r = DownloadFields /\ r.run = "over" /\ r.cancel = download[d].cancel
        /\ r.references = download[d].references
    BY <1>1 DEF DownloadFields
  <2>2. download' = [download EXCEPT ![d] = r] /\ download[d].run = "close"
    BY <1>9 DEF RunClose
  <2> HIDE DEF r
  <2> QED
    BY <1>2, <2>1, <2>2, RunStep
<1>10. CASE RunFails(d)
  <2> DEFINE k == IF download[d].cancel = "nil" THEN "set" ELSE download[d].cancel
             r == [download[d] EXCEPT !.run = "delete", !.err = "failed", !.cancel = k]
  <2>1. k \in {download[d].cancel, "set"}
    OBVIOUS
  <2>2. download' = [download EXCEPT ![d] = r] /\ download[d].run \in Running
    BY <1>1, <1>10 DEF RunFails, Running
  <2> HIDE DEF k
  <2>3. /\ DOMAIN r = DownloadFields /\ r.run = "delete" /\ r.cancel = k
        /\ r.references = download[d].references
    BY <1>1 DEF DownloadFields
  <2> HIDE DEF r
  <2> QED
    BY <1>2, <2>1, <2>2, <2>3, RunStep DEF Running
<1> QED
  BY <1>3, <1>5, <1>6, <1>7, <1>8, <1>9, <1>10

LEMMA ChunkInv ==
    ASSUME IInv, NEW d \in Downloads, NEW i \in Parts, Chunk(d, i)
    PROVE  IInv' /\ Careful
<1>1. /\ DOMAIN download[d] = DownloadFields /\ UNCHANGED <<pull, blobDownloadManager>>
      /\ download[d].run = "parts"
  BY DEF IInv, Shape, Chunk, Copy, WritePart, Retry
<1>2. ASSUME NEW part, NEW err,
             download' = [download EXCEPT ![d] = [download[d] EXCEPT !.part = part, !.err = err]]
      PROVE  IInv' /\ Careful
  <2> DEFINE r == [download[d] EXCEPT !.part = part, !.err = err]
  <2>1. /\ DOMAIN r = DownloadFields /\ r.run = "parts" /\ r.cancel = download[d].cancel
        /\ r.references = download[d].references
    BY <1>1 DEF DownloadFields
  <2>2. download' = [download EXCEPT ![d] = r]
    BY <1>2
  <2> HIDE DEF r
  <2> QED
    BY <1>1, <2>1, <2>2, RunStep DEF Running
<1>3. CASE Copy(d, i)
  <2>1. PICK x : download' = [download EXCEPT ![d].part[i] = x]
    BY <1>3 DEF Copy
  <2>2. download' = [download EXCEPT ![d] = [download[d] EXCEPT
                        !.part = [download[d].part EXCEPT ![i] = x], !.err = download[d].err]]
    BY <1>1, <2>1 DEF DownloadFields, IInv, Shape
  <2> QED
    BY <1>2, <2>2
<1>4. CASE WritePart(d, i)
  <2> DEFINE part == download[d].part[i]
             Written == [download EXCEPT
               ![d].part[i].pc = IF part.then \in {"ok", "canceled"} THEN "end" ELSE "retry",
               ![d].part[i].tries = IF part.then = "short" THEN @ + 1 ELSE @,
               ![d].err = IF part.then = "canceled" /\ @ = "none" THEN "canceled" ELSE @]
             NotWritten(t) == [download EXCEPT ![d].part[i].pc = "retry", ![d].part[i].tries = t]
             Keeps(f) == /\ DOMAIN f = Downloads /\ DOMAIN f[d] = DownloadFields
                         /\ \A e \in Downloads \ {d} : f[e] = download[e]
                         /\ f[d].run = "parts" /\ f[d].cancel = download[d].cancel
                         /\ f[d].references = download[d].references
             r == download'[d]
  <2>1. download' = Written \/ \E t : download' = NotWritten(t)
    BY <1>4 DEF WritePart
  <2>2. ASSUME NEW f, Keeps(f), NEW x PROVE Keeps([f EXCEPT ![d].part[i].pc = x])
    BY <2>2 DEF DownloadFields
  <2>3. ASSUME NEW f, Keeps(f), NEW x PROVE Keeps([f EXCEPT ![d].part[i].tries = x])
    BY <2>3 DEF DownloadFields
  <2>4. ASSUME NEW f, Keeps(f), NEW x PROVE Keeps([f EXCEPT ![d].err = x])
    BY <2>4 DEF DownloadFields
  <2>5. Keeps(download)
    BY <1>1 DEF IInv, Shape
  <2>6. Keeps(Written)
    <3> HIDE DEF Keeps
    <3> QED
      BY <2>2, <2>3, <2>4, <2>5
  <2>7. Keeps(download')
    <3>1. ASSUME NEW t PROVE Keeps(NotWritten(t))
      <4> HIDE DEF Keeps
      <4> QED
        BY <2>2, <2>3, <2>5
    <3> HIDE DEF Keeps, Written, NotWritten
    <3> QED
      BY <2>1, <2>6, <3>1
  <2>8. download' = [download EXCEPT ![d] = r]
    BY <2>1, <2>7 DEF IInv, Shape
  <2>9. r.run = "parts" /\ r.cancel = download[d].cancel /\ r.references = download[d].references
    BY <2>7
  <2> HIDE DEF r
  <2> QED
    BY <1>1, <2>7, <2>8, <2>9, RunStep DEF Running, r
<1>5. CASE Retry(d, i)
  <2> DEFINE again == [download[d].part EXCEPT ![i].pc = "copy"]
             over == [download[d].part EXCEPT ![i].pc = "end"]
             err == IF download[d].err = "none" THEN "failed" ELSE download[d].err
  <2>1. CASE download' = [download EXCEPT ![d].part[i].pc = "copy"]
    <3>1. download' = [download EXCEPT
                          ![d] = [download[d] EXCEPT !.part = again, !.err = download[d].err]]
      BY <1>1, <2>1 DEF DownloadFields, IInv, Shape
    <3> HIDE DEF again
    <3> QED
      BY <1>2, <3>1
  <2>2. CASE download' = [download EXCEPT ![d].part[i].pc = "end",
                                          ![d].err = IF @ = "none" THEN "failed" ELSE @]
    <3>1. download' = [download EXCEPT ![d] = [download[d] EXCEPT !.part = over, !.err = err]]
      BY <1>1, <2>2 DEF DownloadFields, IInv, Shape
    <3> HIDE DEF over, err
    <3> QED
      BY <1>2, <3>1
  <2> QED
    BY <1>5, <2>1, <2>2 DEF Retry
<1> QED
  BY <1>3, <1>4, <1>5 DEF Chunk

(* Run leaves the manager: no other download was in it.                     *)
LEMMA RunDeleteInv ==
    ASSUME IInv, NEW d \in Downloads, RunDelete(d)
    PROVE  IInv' /\ Careful
<1> DEFINE r == [download[d] EXCEPT !.run = "close"]
<1>1. /\ DOMAIN r = DownloadFields /\ r.run = "close" /\ r.cancel = download[d].cancel
      /\ r.references = download[d].references
  BY DEF IInv, Shape, DownloadFields
<1>2. /\ download' = [download EXCEPT ![d] = r] /\ pull' = pull
      /\ blobDownloadManager' = None /\ download[d].run = "delete"
  BY DEF RunDelete
<1> HIDE DEF r
<1>3. \A e \in Downloads : download'[e] = IF e = d THEN r ELSE download[e]
  BY <1>2 DEF IInv, Shape
<1>4. blobDownloadManager = d
  BY <1>2 DEF IInv, Managed, Running
<1>5. Shape'
  BY <1>1, <1>2, <1>3 DEF IInv, Shape
<1>6. \A u \in Pulls : Placed(pull[u])'
  BY <1>2 DEF IInv, Placed
<1>7. HoldersCounted'
  <2>1. \A e \in Downloads : Holders(e)' = Holders(e)
    BY <1>2 DEF Holders
  <2> QED
    BY <1>1, <1>3, <2>1 DEF IInv, HoldersCounted
<1>8. Prepared'
  <2>1. \A u \in Pulls : pull[u].pc \notin Preparing
    BY <1>2, <1>4 DEF IInv, Prepared
  <2> QED
    BY <1>2, <2>1 DEF Prepared
<1>9. Managed'
  <2>1. \A e \in Downloads : download'[e].run \notin Running
    BY <1>1, <1>3, <1>4, PullsAssumption DEF IInv, Managed, Running
  <2> QED
    BY <1>2, <2>1 DEF Managed
<1>10. Careful
  BY <1>1, <1>3 DEF Careful
<1> QED
  BY <1>5, <1>6, <1>7, <1>8, <1>9, <1>10 DEF IInv

(* After a crash nothing is under way.                                      *)
LEMMA CrashInv ==
    ASSUME IInv, Crash
    PROVE  IInv' /\ Careful
<1>1. /\ blobDownloadManager' = None
      /\ download' = [d \in Downloads |->
             IF Unused(d) THEN NewDownload ELSE [NewDownload EXCEPT !.run = "dead"]]
      /\ pull' = [u \in Pulls |-> IF pull[u].pc = "start" THEN pull[u]
                                  ELSE [NewPull EXCEPT !.pc = "over"]]
  BY DEF Crash
<1>2. \A d \in Downloads :
          /\ DOMAIN download'[d] = DownloadFields
          /\ download'[d].run \in {"new", "dead"}
          /\ download'[d].references = 0 /\ download'[d].cancel = "nil"
  BY <1>1 DEF NewDownload, DownloadFields
<1>3. \A u \in Pulls :
          /\ DOMAIN pull'[u] = PullFields
          /\ pull'[u].pc \in {"start", "over"} /\ pull'[u].d = None
  BY <1>1 DEF NewPull, PullFields, IInv, Shape, Placed
<1>4. Shape'
  BY <1>1, <1>2, <1>3 DEF Shape
<1>5. \A u \in Pulls : Placed(pull[u])'
  BY <1>3 DEF Placed, Preparing
<1>6. HoldersCounted'
  <2>1. \A d \in Downloads : Holders(d)' = {}
    BY <1>3 DEF Holders, Holding
  <2> QED
    BY <1>2, <2>1, FS_EmptySet DEF HoldersCounted
<1>7. Prepared'
  BY <1>3 DEF Prepared, Preparing
<1>8. Managed'
  BY <1>1, <1>2 DEF Managed, Running
<1>9. Careful
  BY <1>2 DEF Careful
<1> QED
  BY <1>4, <1>5, <1>6, <1>7, <1>8, <1>9 DEF IInv

-----------------------------------------------------------------------------
LEMMA StepInv ==
    ASSUME IInv, Next
    PROVE  IInv' /\ Careful
<1>1. ASSUME NEW u \in Pulls, PullModel(u) PROVE IInv' /\ Careful
  <2>1. CASE Prepare(u)
    BY <2>1, PrepareInv, PrepareFailsInv DEF Prepare
  <2>2. CASE Wait(u)
    BY <2>2, AcquireInv, WaitsInv, ReleaseInv DEF Wait
  <2> QED
    BY <1>1, <2>1, <2>2, StatInv, LoadOrStoreInv, GoRunInv, WaitsInv, VerifiedInv
       DEF PullModel
<1>2. ASSUME NEW d \in Downloads, RunGroup(d) PROVE IInv' /\ Careful
  <2>1. CASE Run(d)
    BY <2>1, RunMovesInv, RunDeleteInv DEF Run
  <2> QED
    BY <1>2, <2>1, ChunkInv DEF RunGroup
<1> QED
  BY <1>1, <1>2, WaitsInv, CrashInv DEF Next

LEMMA StutterInv ==
    ASSUME IInv, UNCHANGED vars
    PROVE  IInv' /\ Careful
<1>1. UNCHANGED <<pull, download, blobDownloadManager>>
  BY DEF vars
<1> QED
  BY <1>1, QuietStep DEF IInv, Shape

LEMMA IInvAlways == Spec => []IInv
<1>1. IInv /\ [Next]_vars => IInv'
  BY StepInv, StutterInv
<1> QED
  BY IInvInit, <1>1, PTL DEF Spec

(* Only the download that is in blobDownloadManager touches the data file   *)
(* and the part files: LoadOrStore is alone in putting one there, and Run   *)
(* deletes it only when it is through with the disk.                        *)
THEOREM OneDownloadAtATime == Spec => []OneDownload
<1>1. IInv => OneDownload
  <2> SUFFICES ASSUME IInv, NEW d \in Downloads, UsesDisk(d)
               PROVE  blobDownloadManager = d
    BY DEF OneDownload
  <2> QED
    BY DEF UsesDisk, IInv, Prepared, Managed, Preparing, Running
<1> QED
  BY <1>1, IInvAlways, PTL

(* release calls CancelFunc only for the last reference, and every pull     *)
(* that is in Wait has one: no run is cancelled under a pull that waits.    *)
THEOREM RunNeverCancelledInUse == Spec => NeverCancelInUse
<1>1. IInv /\ [Next]_vars => [Careful]_vars
  BY StepInv
<1> QED
  BY <1>1, IInvAlways, PTL DEF Spec, NeverCancelInUse, Careful

-----------------------------------------------------------------------------
(***************************************************************************)
(* What the disk has in BlobDownload: types, that no part file claims      *)
(* bytes the data file does not have, and that what is verified and named  *)
(* by a manifest is whole, for blobs and parts of any size, any number of  *)
(* pulls and downloads, and any number of faults and crashes.              *)
(*                                                                         *)
(* IInv says who may touch the disk.  The layers over it: Typed, the types *)
(* with the bounds that keep them; and Kept, what the part files, the      *)
(* parts of the download that is under way and the pulls know of the data  *)
(* file and the blob.                                                      *)
(***************************************************************************)

(* Bytes and parts.                                                         *)

LastPart == (BlobSize - 1) \div PartSize

(* Where part i ends.                                                       *)
End(i) == IF (i + 1) * PartSize <= BlobSize THEN (i + 1) * PartSize ELSE BlobSize

LEMMA Division ==
    ASSUME NEW a \in Nat, NEW b \in Nat \ {0}, NEW i \in Nat
    PROVE  /\ a \div b \in Nat
           /\ a \div b = i <=> i * b <= a /\ a < (i + 1) * b
<1>1. a \div b \in Nat
  OBVIOUS
<1>2. a \div b = i <=> i * b <= a /\ a < i * b + b
  OBVIOUS
<1>3. (i + 1) * b = i * b + b
  OBVIOUS
<1> QED
  BY <1>1, <1>2, <1>3

LEMMA PartsInterval ==
    /\ LastPart \in Nat /\ Parts = 0 .. LastPart /\ Parts \subseteq Nat
    /\ IsFiniteSet(Parts) /\ Cardinality(Parts) = LastPart + 1
<1>1. LastPart \in Nat
  BY SizeAssumption, Division DEF LastPart
<1>2. Parts = 0 .. LastPart
  BY DEF Parts, LastPart
<1>3. IsFiniteSet(Parts) /\ Cardinality(Parts) = LastPart + 1
  BY <1>1, <1>2, FS_Interval
<1> QED
  BY <1>1, <1>2, <1>3

(* The bytes of a part are an interval.                                     *)
LEMMA BytesInterval ==
    ASSUME NEW i \in Parts
    PROVE  /\ BytesOf(i) = (i * PartSize + 1) .. End(i)
           /\ End(i) \in Nat /\ i * PartSize \in Nat
           /\ i * PartSize < End(i) /\ End(i) <= BlobSize /\ End(i) <= i * PartSize + PartSize
<1>0. /\ BlobSize \in Nat \ {0} /\ PartSize \in Nat \ {0}
      /\ i \in Nat /\ i <= LastPart /\ LastPart \in Nat
  BY SizeAssumption, PartsInterval
<1>1. (i + 1) * PartSize = i * PartSize + PartSize /\ i * PartSize \in Nat
  BY <1>0
<1>2. i * PartSize <= BlobSize - 1
  <2>1. LastPart * PartSize <= BlobSize - 1
    BY <1>0, Division DEF LastPart
  <2>2. i * PartSize <= LastPart * PartSize
    BY <1>0
  <2>3. LastPart * PartSize \in Nat
    BY <1>0
  <2> QED
    BY <1>0, <1>1, <2>1, <2>2, <2>3
<1>3. /\ End(i) \in Nat /\ i * PartSize < End(i) /\ End(i) <= BlobSize
      /\ End(i) <= i * PartSize + PartSize
  BY <1>0, <1>1, <1>2 DEF End
<1>4. ASSUME NEW b \in 1 .. BlobSize
      PROVE  b \in BytesOf(i) <=> b \in (i * PartSize + 1) .. End(i)
  <2>1. (b - 1) \div PartSize = i <=> i * PartSize <= b - 1 /\ b - 1 < i * PartSize + PartSize
    BY <1>0, <1>1, Division
  <2> QED
    BY <1>0, <1>1, <2>1 DEF BytesOf, End
<1>5. BytesOf(i) \subseteq 1 .. BlobSize
  BY DEF BytesOf
<1>6. (i * PartSize + 1) .. End(i) \subseteq 1 .. BlobSize
  BY <1>0, <1>1, <1>3
<1> QED
  BY <1>1, <1>3, <1>4, <1>5, <1>6

LEMMA SizeBound ==
    ASSUME NEW i \in Parts
    PROVE  Size(i) \in Nat \ {0} /\ Size(i) = End(i) - i * PartSize /\ Size(i) <= PartSize
<1>1. Cardinality((i * PartSize + 1) .. End(i)) = End(i) - i * PartSize
  BY BytesInterval, FS_Interval
<1> QED
  BY <1>1, BytesInterval, SizeAssumption DEF Size

(* Every byte of the blob is one of some part.                              *)
LEMMA EveryByte ==
    ASSUME NEW b \in 1 .. BlobSize
    PROVE  \E i \in Parts : b \in BytesOf(i)
<1>1. (b - 1) \div PartSize \in 0 .. LastPart
  <2>1. b - 1 \in Nat /\ BlobSize - 1 \in Nat /\ b - 1 <= BlobSize - 1 /\ PartSize \in Nat \ {0}
    BY SizeAssumption
  <2> QED
    BY <2>1 DEF LastPart
<1> QED
  BY <1>1, PartsInterval DEF BytesOf

LEMMA SizeOfBound ==
    ASSUME NEW S \in SUBSET Parts
    PROVE  SizeOf(S) \in 0 .. BlobSize /\ SizeOf(Parts) = BlobSize
<1> DEFINE U(T) == UNION {BytesOf(i) : i \in T}
<1>1. U(S) \subseteq 1 .. BlobSize /\ U(Parts) = 1 .. BlobSize
  BY EveryByte DEF BytesOf
<1>2. IsFiniteSet(1 .. BlobSize) /\ Cardinality(1 .. BlobSize) = BlobSize
  BY SizeAssumption, FS_Interval
<1>3. Cardinality(U(S)) \in Nat /\ Cardinality(U(S)) <= BlobSize
  BY <1>1, <1>2, FS_Subset, FS_CardinalityType
<1>4. SizeOf(S) = Cardinality(U(S)) /\ SizeOf(Parts) = Cardinality(U(Parts))
  BY DEF SizeOf
<1> HIDE DEF U
<1> QED
  BY <1>1, <1>2, <1>3, <1>4, SizeAssumption

(* A section that ends within its part.                                     *)
LEMMA SectionInPart ==
    ASSUME NEW i \in Parts, NEW from \in Nat, NEW n \in Nat, from + n <= Size(i)
    PROVE  /\ Section(i, from, n) = (i * PartSize + from + 1) .. (i * PartSize + from + n)
           /\ Section(i, from, n) \subseteq BytesOf(i)
           /\ Section(i, 0, from + n) = Section(i, 0, from) \cup Section(i, from, n)
           /\ Section(i, 0, Size(i)) = BytesOf(i)
<1>1. ASSUME NEW f \in Nat, NEW m \in Nat
      PROVE  Section(i, f, m) = (i * PartSize + f + 1) .. (i * PartSize + f + m)
  <2>1. i * PartSize \in Nat
    BY BytesInterval
  <2> DEFINE o == i * PartSize
  <2>2. o \in Nat
    BY <2>1
  <2> HIDE DEF o
  <2>3. ASSUME NEW b \in (o + f + 1) .. (o + f + m)
        PROVE  b \in {o + f + k : k \in 1 .. m}
    <3>1. b - o - f \in 1 .. m /\ b = o + f + (b - o - f)
      BY <2>2, <2>3
    <3> QED
      BY <3>1
  <2>4. \A k \in 1 .. m : o + f + k \in (o + f + 1) .. (o + f + m)
    BY <2>2
  <2>5. {o + f + k : k \in 1 .. m} = (o + f + 1) .. (o + f + m)
    BY <2>3, <2>4
  <2> QED
    BY <2>5 DEF Section, o
<1>2. i * PartSize \in Nat /\ Size(i) \in Nat /\ Size(i) = End(i) - i * PartSize /\ End(i) \in Nat
  BY BytesInterval, SizeBound
<1>3. BytesOf(i) = (i * PartSize + 1) .. (i * PartSize + Size(i))
  BY <1>2, BytesInterval
<1>4. /\ Section(i, from, n) = (i * PartSize + from + 1) .. (i * PartSize + from + n)
      /\ Section(i, 0, from + n) = (i * PartSize + 1) .. (i * PartSize + from + n)
      /\ Section(i, 0, from) = (i * PartSize + 1) .. (i * PartSize + from)
      /\ Section(i, 0, Size(i)) = (i * PartSize + 1) .. (i * PartSize + Size(i))
  <2> DEFINE o == i * PartSize
  <2>1. o \in Nat
    BY <1>2
  <2>2. ASSUME NEW f \in Nat, NEW m \in Nat
        PROVE  Section(i, f, m) = (o + f + 1) .. (o + f + m)
    BY <1>1
  <2> HIDE DEF o
  <2>3. \A m \in Nat : Section(i, 0, m) = (o + 1) .. (o + m)
    <3> SUFFICES ASSUME NEW m \in Nat PROVE Section(i, 0, m) = (o + 1) .. (o + m)
      OBVIOUS
    <3>1. Section(i, 0, m) = (o + 0 + 1) .. (o + 0 + m)
      BY <2>2
    <3>2. o + 0 + 1 = o + 1 /\ o + 0 + m = o + m
      BY <2>1
    <3> QED
      BY <3>1, <3>2
  <2>4. o + (from + n) = o + from + n /\ from + n \in Nat
    BY <2>1
  <2>5. Section(i, 0, from + n) = (o + 1) .. (o + from + n)
    BY <2>3, <2>4
  <2> QED
    BY <1>2, <2>2, <2>3, <2>5 DEF o
<1> DEFINE o == i * PartSize
<1>5. o \in Nat
  BY <1>2
<1> HIDE DEF o
<1>6. /\ (o + from + 1) .. (o + from + n) \subseteq (o + 1) .. (o + Size(i))
      /\ (o + 1) .. (o + from + n)
           = ((o + 1) .. (o + from)) \cup ((o + from + 1) .. (o + from + n))
  BY <1>2, <1>5
<1> QED
  BY <1>3, <1>4, <1>6 DEF o
-----------------------------------------------------------------------------
(* The data file.                                                           *)

(* The first n bytes of part i are in the file.                             *)
OnDisk(i, n) == \A b \in Section(i, 0, n) : b <= Len(partial) /\ partial[b] = "good"

LEMMA MaxOf ==
    ASSUME NEW S \in SUBSET Int, NEW m \in S, \A x \in S : x <= m
    PROVE  Max(S) = m
<1>1. m \in S /\ \A y \in S : m >= y
  OBVIOUS
<1>2. Max(S) \in S /\ \A y \in S : Max(S) >= y
  BY <1>1 DEF Max
<1>3. Max(S) \in Int /\ m \in Int /\ m <= Max(S) /\ Max(S) <= m
  BY <1>2
<1> QED
  BY <1>3

LEMMA FileContent ==
    ASSUME NEW n \in 0 .. BlobSize, NEW f \in [1 .. n -> {"hole", "good"}]
    PROVE  f \in Content /\ Len(f) = n
<1>1. n \in Nat /\ n <= BlobSize
  BY SizeAssumption
<1>2. f \in Seq({"hole", "good"}) /\ Len(f) = n
  BY <1>1
<1> QED
  BY <1>1, <1>2 DEF Content

LEMMA TruncateFacts ==
    ASSUME partial \in Content, NEW len \in 0 .. BlobSize
    PROVE  /\ Truncate(len) \in Content /\ Len(Truncate(len)) = len
           /\ \A b \in 1 .. len : b <= Len(partial) /\ partial[b] = "good"
                                    => Truncate(len)[b] = "good"
<1>1. partial \in Seq({"hole", "good"})
  BY DEF Content
<1>2. \A b \in 1 .. len : b <= Len(partial) => partial[b] \in {"hole", "good"}
  BY <1>1
<1>3. Truncate(len) \in [1 .. len -> {"hole", "good"}]
  BY <1>2 DEF Truncate
<1> QED
  BY <1>3, FileContent DEF Truncate

LEMMA WriteFacts ==
    ASSUME partial \in Content, NEW i \in Parts, NEW from \in Nat, NEW n \in Nat,
           from + n <= Size(i), NEW f, f = WriteAt(Section(i, from, n))
    PROVE  /\ f \in Content /\ Len(f) >= Len(partial)
           /\ \A b \in 1 .. Len(partial) : partial[b] = "good" => f[b] = "good"
           /\ \A b \in Section(i, from, n) : b <= Len(f) /\ f[b] = "good"
<1> DEFINE bs == Section(i, from, n)
           l == Len(partial)
           m == Max(bs \cup {l})
<1>1. /\ partial \in Seq({"hole", "good"}) /\ l \in Nat /\ l <= BlobSize
      /\ BlobSize \in Nat
  BY SizeAssumption DEF Content
<1>2. bs \subseteq 1 .. BlobSize
  BY SectionInPart DEF BytesOf
<1>3. m \in bs \cup {l} /\ \A b \in bs \cup {l} : b <= m
  <2> DEFINE o == i * PartSize + from
  <2>1. bs = (o + 1) .. (o + n)
    BY SectionInPart
  <2>2. o \in Nat
    BY BytesInterval
  <2> HIDE DEF o, bs, l
  <2>3. bs \cup {l} \subseteq Int
    BY <1>1, <1>2
  <2>4. PICK k \in bs \cup {l} : \A b \in bs \cup {l} : b <= k
    <3>1. CASE n = 0 \/ o + n <= l
      BY <1>1, <2>1, <2>2, <3>1
    <3>2. CASE n # 0 /\ o + n > l
      <4>1. o + n \in bs /\ \A b \in bs \cup {l} : b <= o + n
        BY <1>1, <2>1, <2>2, <3>2
      <4> QED
        BY <4>1
    <3> QED
      BY <1>1, <2>2, <3>1, <3>2
  <2>5. m = k
    BY <2>3, <2>4, MaxOf
  <2> HIDE DEF m
  <2> QED
    BY <2>4, <2>5
<1>4. m \in 0 .. BlobSize /\ l <= m /\ \A b \in bs : b \in 1 .. m
  <2> HIDE DEF m, bs, l
  <2> QED
    BY <1>1, <1>2, <1>3
<1>5. \A b \in 1 .. m : b <= l => b \in 1 .. l /\ partial[b] \in {"hole", "good"}
  <2> HIDE DEF m
  <2> QED
    BY <1>1, <1>4
<1>6. f = [b \in 1 .. m |-> IF b \in bs THEN "good" ELSE IF b <= l THEN partial[b] ELSE "hole"]
  BY DEF WriteAt
<1> HIDE DEF m, bs
<1>7. f \in [1 .. m -> {"hole", "good"}]
  BY <1>5, <1>6
<1>8. f \in Content /\ Len(f) = m
  BY <1>4, <1>7, FileContent
<1>9. \A b \in bs : b <= Len(f) /\ f[b] = "good"
  BY <1>4, <1>6, <1>8
<1>10. \A b \in 1 .. l : partial[b] = "good" => f[b] = "good"
  BY <1>1, <1>4, <1>6
<1> QED
  BY <1>1, <1>4, <1>8, <1>9, <1>10 DEF bs

LEMMA SectionInBlob ==
    ASSUME NEW i \in Parts, NEW k \in 0 .. Size(i)
    PROVE  Section(i, 0, k) \subseteq 1 .. BlobSize
<1>1. k \in Nat /\ 0 + k <= Size(i) /\ 0 \in Nat
  BY SizeBound
<1> QED
  BY <1>1, SectionInPart DEF BytesOf

(* A write loses nothing, and adds what follows the first bytes of a part.  *)
LEMMA WriteKeeps ==
    ASSUME partial \in Content, NEW i \in Parts, NEW from \in Nat, NEW n \in Nat,
           from + n <= Size(i), partial' = WriteAt(Section(i, from, n))
    PROVE  /\ partial' \in Content /\ Len(partial') >= Len(partial)
           /\ \A j \in Parts : \A k \in 0 .. Size(j) : OnDisk(j, k) => OnDisk(j, k)'
           /\ OnDisk(i, from) => OnDisk(i, from + n)'
<1>1. /\ partial' \in Content /\ Len(partial') >= Len(partial)
      /\ \A b \in 1 .. Len(partial) : partial[b] = "good" => partial'[b] = "good"
      /\ \A b \in Section(i, from, n) : b <= Len(partial') /\ partial'[b] = "good"
  BY WriteFacts
<1>2. \A j \in Parts : \A k \in 0 .. Size(j) : Section(j, 0, k) \subseteq 1 .. BlobSize
  BY SectionInBlob
<1>3. Len(partial) \in Nat /\ Len(partial') \in Nat
  BY <1>1 DEF Content
<1>4. \A j \in Parts : \A k \in 0 .. Size(j) : OnDisk(j, k) => OnDisk(j, k)'
  BY <1>1, <1>2, <1>3 DEF OnDisk
<1>5. ASSUME OnDisk(i, from) PROVE OnDisk(i, from + n)'
  <2>1. Section(i, 0, from + n) = Section(i, 0, from) \cup Section(i, from, n)
    BY SectionInPart
  <2>2. from \in 0 .. Size(i)
    BY SizeBound
  <2>3. OnDisk(i, from)'
    BY <1>4, <1>5, <2>2
  <2> QED
    BY <1>1, <2>1, <2>3 DEF OnDisk
<1> QED
  BY <1>1, <1>4, <1>5

(* Giving the file the size of the blob loses nothing either.               *)
LEMMA TruncateKeeps ==
    ASSUME partial \in Content, partial' = Truncate(BlobSize)
    PROVE  /\ partial' \in Content /\ Len(partial') = BlobSize
           /\ \A j \in Parts : \A k \in 0 .. Size(j) : OnDisk(j, k) => OnDisk(j, k)'
<1>1. /\ partial' \in Content /\ Len(partial') = BlobSize
      /\ \A b \in 1 .. BlobSize : b <= Len(partial) /\ partial[b] = "good" => partial'[b] = "good"
  BY TruncateFacts, SizeAssumption
<1>2. \A j \in Parts : \A k \in 0 .. Size(j) : Section(j, 0, k) \subseteq 1 .. BlobSize
  BY SectionInBlob
<1>3. \A j \in Parts : \A k \in 0 .. Size(j) : OnDisk(j, k) => OnDisk(j, k)'
  BY <1>1, <1>2 DEF OnDisk
<1> QED
  BY <1>1, <1>3

(* When every part is on disk, the file is the blob.                        *)
LEMMA AllPartsGood ==
    ASSUME partial \in Content, Len(partial) = BlobSize,
           \A i \in Parts : OnDisk(i, Size(i))
    PROVE  partial = Good
<1>1. \A b \in 1 .. BlobSize : partial[b] = "good"
  <2> SUFFICES ASSUME NEW b \in 1 .. BlobSize PROVE partial[b] = "good"
    OBVIOUS
  <2>1. PICK i \in Parts : b \in BytesOf(i)
    BY EveryByte
  <2>2. Section(i, 0, Size(i)) = BytesOf(i)
    <3>1. 0 \in Nat /\ Size(i) \in Nat /\ 0 + Size(i) <= Size(i)
      BY SizeBound
    <3> QED
      BY <3>1, SectionInPart
  <2> QED
    BY <2>1, <2>2 DEF OnDisk
<1>2. partial = [b \in 1 .. BlobSize |-> partial[b]]
  BY DEF Content
<1> QED
  BY <1>1, <1>2 DEF Good

LEMMA GoodContent == Good \in Content
<1>1. Good \in [1 .. BlobSize -> {"hole", "good"}] /\ BlobSize \in 0 .. BlobSize
  BY SizeAssumption DEF Good
<1> QED
  BY <1>1, FileContent

(* Of a part that has not begun, nothing need be there.                     *)
LEMMA NothingOnDisk == ASSUME NEW i PROVE OnDisk(i, 0)
BY DEF OnDisk, Section
-----------------------------------------------------------------------------
(* The layer of the types.                                                  *)

BudgetRecord == [faults : 0 .. MaxFaults, crashes : 0 .. MaxCrashes]

(* No part has more than its bytes, and it tries again only while it may.   *)
PartFine(part, i) ==
    /\ part.completed <= Size(i)
    /\ part.pc \in {"copy", "save"} => part.tries < MaxRetries

(* No part is tried before Run has the direct URL, and no part file removed *)
(* before the parts are through.                                            *)
DownloadFine(r) ==
    /\ \A i \in Parts : PartFine(r.part[i], i)
    /\ r.run \in {"new", "open", "direct"} => \A i \in Parts : r.part[i].tries = 0
    /\ r.run \in {"new", "open", "direct", "parts"} => r.removed = 0

(* A pull creates the part files from the first one on.                     *)
PullFine(r) ==
    /\ r.pc \in {"start", "join", "prepare", "reset", "head"} => r.next = 0
    /\ r.pc = "newPart" => r.next \in Parts

Created(u) ==
    /\ pull[u].pc = "head" => download[pull[u].d].parts = {}
    /\ pull[u].pc = "newPart" => /\ download[pull[u].d].parts = 0 .. (pull[u].next - 1)
                                 /\ download[pull[u].d].total = BlobSize

Typed ==
    /\ TypeOK
    /\ \A i \in Parts : saved[i] <= Size(i)
    /\ \A d \in Downloads : DownloadFine(download[d])
    /\ \A u \in Pulls : PullFine(pull[u]) /\ Created(u)

(* Of the variables that no step lemma below is about.                      *)
Rest ==
    /\ blobDownloadManager \in Downloads \cup {None}
    /\ manifest \in BOOLEAN /\ panicked \in BOOLEAN /\ torn \in BOOLEAN
    /\ budget \in BudgetRecord

Files ==
    /\ partial \in Content /\ blob \in Content \cup {None}
    /\ partFile \in [Parts -> {"absent", "corrupt", "ok"}]
    /\ saved \in [Parts -> 0 .. PartSize] /\ \A i \in Parts : saved[i] <= Size(i)

LEMMA TypedParts ==
    Typed <=> /\ Rest /\ Files
              /\ download \in [Downloads -> DownloadRecord]
              /\ pull \in [Pulls -> PullRecord]
              /\ \A d \in Downloads : DownloadFine(download[d])
              /\ \A u \in Pulls : PullFine(pull[u]) /\ Created(u)
BY DEF Typed, TypeOK, Rest, Files, BudgetRecord

LEMMA FaultTyped == ASSUME budget \in BudgetRecord, Fault PROVE budget' \in BudgetRecord
BY BoundAssumption DEF Fault, BudgetRecord

(* A step of the pull u alone.                                              *)
LEMMA PullTyped ==
    ASSUME Typed, Rest', Files', NEW u \in Pulls, NEW r \in PullRecord,
           pull' = [pull EXCEPT ![u] = r], download' = download, PullFine(r),
           r.pc \in {"head", "newPart"} =>
               r.pc = pull[u].pc /\ r.d = pull[u].d /\ r.next = pull[u].next
    PROVE  Typed'
<1>1. /\ pull \in [Pulls -> PullRecord] /\ download \in [Downloads -> DownloadRecord]
      /\ \A d \in Downloads : DownloadFine(download[d])
      /\ \A v \in Pulls : PullFine(pull[v]) /\ Created(v)
  BY TypedParts
<1>2. /\ pull' \in [Pulls -> PullRecord]
      /\ \A v \in Pulls : pull'[v] = IF v = u THEN r ELSE pull[v]
  BY <1>1
<1>3. \A v \in Pulls : PullFine(pull[v])'
  BY <1>1, <1>2 DEF PullFine
<1>4. \A v \in Pulls : Created(v)'
  BY <1>1, <1>2 DEF Created
<1>5. \A d \in Downloads : DownloadFine(download[d])'
  BY <1>1 DEF DownloadFine, PartFine
<1>6. download' \in [Downloads -> DownloadRecord]
  BY <1>1
<1> QED
  BY <1>2, <1>3, <1>4, <1>5, <1>6 DEF Typed, TypeOK, Rest, Files, BudgetRecord

(* A step of the download d alone.                                          *)
LEMMA DownloadTyped ==
    ASSUME Typed, Rest', Files', NEW d \in Downloads, NEW r \in DownloadRecord,
           download' = [download EXCEPT ![d] = r], pull' = pull, DownloadFine(r),
           \A u \in Pulls : pull[u].pc \in {"head", "newPart"} /\ pull[u].d = d
               => r.parts = download[d].parts /\ r.total = download[d].total
    PROVE  Typed'
<1>1. /\ pull \in [Pulls -> PullRecord] /\ download \in [Downloads -> DownloadRecord]
      /\ \A e \in Downloads : DownloadFine(download[e])
      /\ \A v \in Pulls : PullFine(pull[v]) /\ Created(v)
  BY TypedParts
<1>2. /\ download' \in [Downloads -> DownloadRecord]
      /\ \A e \in Downloads : download'[e] = IF e = d THEN r ELSE download[e]
      /\ \A e : e \notin Downloads => download'[e] = download[e]
  BY <1>1
<1>3. \A v \in Pulls : PullFine(pull[v])'
  BY <1>1 DEF PullFine
<1>4. \A v \in Pulls : Created(v)'
  BY <1>1, <1>2 DEF Created
<1>5. \A e \in Downloads : DownloadFine(download[e])'
  BY <1>1, <1>2 DEF DownloadFine, PartFine
<1>6. pull' \in [Pulls -> PullRecord]
  BY <1>1
<1> QED
  BY <1>2, <1>3, <1>4, <1>5, <1>6 DEF Typed, TypeOK, Rest, Files, BudgetRecord

(* No other pull is creating the part files of the download d, or nothing   *)
(* that matters to it is different in b.                                    *)
OthersCreate(u, d, b) ==
    \A v \in Pulls \ {u} : pull[v].pc \in {"head", "newPart"} /\ pull[v].d = d
        => b.parts = download[d].parts /\ b.total = download[d].total

(* What a pull that is now r has created of the download d, now b.          *)
Creates(r, d, b) ==
    /\ r.pc = "head" => r.d = d /\ b.parts = {}
    /\ r.pc = "newPart" => r.d = d /\ b.parts = 0 .. (r.next - 1) /\ b.total = BlobSize

(* A step of the pull u and the download d.                                 *)
LEMMA BothTyped ==
    ASSUME Typed, Rest', Files', NEW u \in Pulls, NEW r \in PullRecord,
           NEW d \in Downloads, NEW b \in DownloadRecord,
           pull' = [pull EXCEPT ![u] = r], download' = [download EXCEPT ![d] = b],
           PullFine(r), DownloadFine(b),
           OthersCreate(u, d, b), Creates(r, d, b)
    PROVE  Typed'
<1>1. /\ pull \in [Pulls -> PullRecord] /\ download \in [Downloads -> DownloadRecord]
      /\ \A e \in Downloads : DownloadFine(download[e])
      /\ \A v \in Pulls : PullFine(pull[v]) /\ Created(v)
  BY TypedParts
<1>2. /\ download' \in [Downloads -> DownloadRecord]
      /\ \A e \in Downloads : download'[e] = IF e = d THEN b ELSE download[e]
      /\ \A e : e \notin Downloads => download'[e] = download[e]
  BY <1>1
<1>3. /\ pull' \in [Pulls -> PullRecord]
      /\ \A v \in Pulls : pull'[v] = IF v = u THEN r ELSE pull[v]
  BY <1>1
<1>4. \A v \in Pulls : PullFine(pull[v])'
  BY <1>1, <1>3 DEF PullFine
<1>5. \A v \in Pulls : Created(v)'
  <2>1. Created(u)'
    BY <1>2, <1>3 DEF Created, Creates
  <2>2. ASSUME NEW v \in Pulls \ {u} PROVE Created(v)'
    BY <1>1, <1>2, <1>3, <2>2 DEF Created, OthersCreate
  <2> QED
    BY <2>1, <2>2
<1>6. \A e \in Downloads : DownloadFine(download[e])'
  BY <1>1, <1>2 DEF DownloadFine, PartFine
<1> QED
  BY <1>2, <1>3, <1>4, <1>5, <1>6 DEF Typed, TypeOK, Rest, Files, BudgetRecord

LEMMA RestSame ==
    ASSUME Typed, UNCHANGED <<blobDownloadManager, manifest, panicked, torn, budget>>
    PROVE  Rest'
BY TypedParts DEF Rest

LEMMA FilesSame ==
    ASSUME Typed, UNCHANGED <<partial, partFile, saved, blob>>
    PROVE  Files'
BY TypedParts DEF Files

LEMMA InitTyped == Init => Typed
<1> SUFFICES ASSUME Init PROVE Typed
  OBVIOUS
<1> USE DEF Init
<1>1. Rest /\ Files
  <2>1. <<>> \in Content
    BY SizeAssumption DEF Content
  <2>2. \A i \in Parts : 0 <= Size(i)
    BY SizeBound
  <2>3. saved \in [Parts -> 0 .. PartSize] /\ \A i \in Parts : saved[i] <= Size(i)
    BY <2>2, SizeAssumption
  <2>4. Files
    BY <2>1, <2>3 DEF Files
  <2>5. budget \in BudgetRecord
    BY BoundAssumption DEF BudgetRecord
  <2> QED
    BY <2>4, <2>5 DEF Rest
<1>2. NewDownload \in DownloadRecord /\ DownloadFine(NewDownload)
  <2>1. /\ Cardinality(Pulls) \in Nat /\ Cardinality(Parts) \in Nat /\ BlobSize \in Nat
        /\ PartSize \in Nat /\ MaxRetries \in Nat
    BY PullsAssumption, PartsInterval, FS_CardinalityType, SizeAssumption, RetryAssumption
  <2>2. [i \in Parts |-> NoPart] \in
          [Parts -> [pc : {"idle", "copy", "save", "retry", "end"},
                     completed : 0 .. PartSize, tries : 0 .. MaxRetries,
                     then : {"ok", "canceled", "short", "stalled"}]]
    BY <2>1 DEF NoPart
  <2>3. DownloadFine(NewDownload)
    BY SizeBound DEF DownloadFine, PartFine, NewDownload, NoPart
  <2> QED
    BY <2>1, <2>2, <2>3 DEF NewDownload, DownloadRecord
<1>3. NewPull \in PullRecord /\ PullFine(NewPull)
  BY PartsInterval DEF NewPull, PullRecord, PullFine
<1>4. \A u \in Pulls : Created(u)
  BY DEF Created, NewPull
<1> QED
  BY <1>1, <1>2, <1>3, <1>4, TypedParts

-----------------------------------------------------------------------------
(* Steps of a pull.                                                         *)

(* What a pull may have become when it returns.                             *)
LEMMA ReturnTyped ==
    ASSUME Typed, Rest', Files', NEW u \in Pulls,
           NEW result \in {"none", "success", "canceled", "failed", "mismatch"},
           Return(u, result), download' = download
    PROVE  Typed'
<1> DEFINE r == [NewPull EXCEPT !.pc = "over", !.result = result, !.gone = pull[u].gone]
<1>1. pull[u].gone \in BOOLEAN
  BY TypedParts DEF PullRecord
<1>2. r \in PullRecord /\ r.pc = "over" /\ r.next = 0
  <2>1. NewPull \in PullRecord /\ NewPull.next = 0
    BY PartsInterval DEF NewPull, PullRecord
  <2> QED
    BY <1>1, <2>1 DEF PullRecord
<1>3. pull' = [pull EXCEPT ![u] = r]
  BY DEF Return
<1> HIDE DEF r
<1> QED
  BY <1>2, <1>3, PullTyped DEF PullFine

LEMMA PullMovesTyped ==
    ASSUME Typed, IInv, NEW u \in Pulls,
           \/ Stat(u) \/ LoadOrStore(u) \/ WaitDone(u) \/ WaitCanceled(u)
           \/ ReportBlocks(u) \/ ClientLeaves(u) \/ VerifyHash(u)
    PROVE  Typed'
<1>0. /\ pull \in [Pulls -> PullRecord] /\ pull[u] \in PullRecord /\ PullFine(pull[u])
      /\ download \in [Downloads -> DownloadRecord] /\ Rest /\ Files
  BY TypedParts
<1>1. Files' /\ download' = download
  BY FilesSame
     DEF Stat, LoadOrStore, WaitDone, WaitCanceled, ReportBlocks, ClientLeaves, VerifyHash, disk
<1>2. CASE Stat(u)
  <2> DEFINE join == [pull[u] EXCEPT !.pc = "join"]
             hit == [pull[u] EXCEPT !.pc = "manifest", !.cacheHit = TRUE]
  <2>1. /\ join \in PullRecord /\ join.pc = "join" /\ join.next = pull[u].next
        /\ hit \in PullRecord /\ hit.pc = "manifest"
    BY <1>0 DEF PullRecord
  <2>2. pull' = [pull EXCEPT ![u] = join] \/ pull' = [pull EXCEPT ![u] = hit]
    BY <1>2 DEF Stat
  <2>3. Rest' /\ pull[u].pc = "start"
    BY <1>2, RestSame DEF Stat, disk
  <2>4. PullFine(join) /\ PullFine(hit)
    BY <1>0, <2>1, <2>3 DEF PullFine
  <2> HIDE DEF join, hit
  <2> QED
    BY <1>1, <2>1, <2>2, <2>3, <2>4, PullTyped
<1>3. CASE LoadOrStore(u)
  <2>1. /\ pull[u].pc = "join" /\ UNCHANGED <<manifest, panicked, torn, budget>>
    BY <1>3 DEF LoadOrStore, disk
  <2>2. PICK d \in Downloads, pc \in {"acquire", "prepare"} :
            /\ pull' = [pull EXCEPT ![u].pc = pc, ![u].d = d]
            /\ blobDownloadManager' = d
    <3>1. CASE blobDownloadManager # None
      BY <1>0, <1>3, <3>1 DEF LoadOrStore, Rest
    <3>2. CASE blobDownloadManager = None
      <4>1. (CHOOSE d \in Downloads : Unused(d)) \in Downloads
        BY <1>3, <3>2 DEF LoadOrStore
      <4> QED
        BY <1>3, <3>2, <4>1 DEF LoadOrStore
    <3> QED
      BY <3>1, <3>2
  <2> DEFINE r == [pull[u] EXCEPT !.pc = pc, !.d = d]
  <2>3. r \in PullRecord /\ r.pc = pc /\ r.next = pull[u].next
    BY <1>0 DEF PullRecord
  <2>4. pull' = [pull EXCEPT ![u] = r]
    BY <1>0, <2>2
  <2>5. PullFine(r)
    BY <1>0, <2>1, <2>3 DEF PullFine
  <2>6. Rest'
    BY <1>0, <2>1, <2>2 DEF Rest
  <2> HIDE DEF r
  <2> QED
    BY <1>1, <2>3, <2>4, <2>5, <2>6, PullTyped
<1>4. CASE WaitDone(u) \/ WaitCanceled(u) \/ ReportBlocks(u)
  <2>1. PICK pc \in {"release", "blocked"}, result \in {"none", "canceled", "failed", pull[u].result} :
            pull' = [pull EXCEPT ![u] = [pull[u] EXCEPT !.pc = pc, !.result = result]]
    <3>1. CASE WaitDone(u)
      <4>1. pull[u].d \in Downloads
        BY <3>1 DEF WaitDone, IInv, Placed
      <4>2. download[pull[u].d].err \in {"none", "canceled", "failed"}
        BY <1>0, <4>1 DEF DownloadRecord
      <4> QED
        BY <3>1, <4>2 DEF WaitDone
    <3>2. CASE WaitCanceled(u)
      BY <3>2 DEF WaitCanceled
    <3>3. CASE ReportBlocks(u)
      <4>1. [pull[u] EXCEPT !.pc = "blocked"]
              = [pull[u] EXCEPT !.pc = "blocked", !.result = pull[u].result]
        BY <1>0 DEF PullRecord
      <4> QED
        BY <3>3, <4>1 DEF ReportBlocks
    <3> QED
      BY <1>4, <3>1, <3>2, <3>3
  <2> DEFINE r == [pull[u] EXCEPT !.pc = pc, !.result = result]
  <2>2. r \in PullRecord /\ r.pc = pc
    BY <1>0 DEF PullRecord
  <2>3. Rest'
    BY <1>4, RestSame DEF WaitDone, WaitCanceled, ReportBlocks, disk
  <2> HIDE DEF r
  <2>4. PullFine(r)
    BY <2>2 DEF PullFine
  <2> QED
    BY <1>1, <2>1, <2>2, <2>3, <2>4, PullTyped DEF r
<1>5. CASE ClientLeaves(u)
  <2> DEFINE r == [pull[u] EXCEPT !.gone = TRUE]
  <2>1. r \in PullRecord /\ r.pc = pull[u].pc /\ r.next = pull[u].next /\ r.d = pull[u].d
    BY <1>0 DEF PullRecord
  <2>2. pull' = [pull EXCEPT ![u] = r] /\ Rest'
    BY <1>5, RestSame DEF ClientLeaves, disk
  <2> HIDE DEF r
  <2> QED
    BY <1>0, <1>1, <2>1, <2>2, PullTyped DEF PullFine
<1>6. CASE VerifyHash(u)
  <2> DEFINE r == [pull[u] EXCEPT !.pc = "verified", !.read = blob]
  <2>1. r \in PullRecord /\ r.pc = "verified"
    BY <1>0 DEF PullRecord, Files
  <2>2. pull' = [pull EXCEPT ![u] = r] /\ Rest'
    BY <1>6, RestSame DEF VerifyHash, disk
  <2> HIDE DEF r
  <2> QED
    BY <1>1, <2>1, <2>2, PullTyped DEF PullFine
<1> QED
  BY <1>2, <1>3, <1>4, <1>5, <1>6

LEMMA PullEndsTyped ==
    ASSUME Typed, NEW u \in Pulls, VerifyAct(u) \/ WriteManifest(u) \/ PrepareFails(u)
    PROVE  Typed'
<1>0. /\ pull \in [Pulls -> PullRecord] /\ pull[u] \in PullRecord /\ PullFine(pull[u])
      /\ Rest /\ Files
  BY TypedParts
<1>1. download' = download
  BY DEF VerifyAct, WriteManifest, PrepareFails
<1>2. CASE VerifyAct(u)
  <2>1. Rest'
    BY <1>2, RestSame DEF VerifyAct
  <2>2. Files'
    BY <1>0, <1>2 DEF VerifyAct, Files
  <2>3. CASE pull' = [pull EXCEPT ![u].pc = "manifest"]
    <3> DEFINE r == [pull[u] EXCEPT !.pc = "manifest"]
    <3>1. r \in PullRecord /\ r.pc = "manifest"
      BY <1>0 DEF PullRecord
    <3>2. pull' = [pull EXCEPT ![u] = r]
      BY <2>3
    <3> HIDE DEF r
    <3> QED
      BY <1>1, <2>1, <2>2, <3>1, <3>2, PullTyped DEF PullFine
  <2>4. CASE Return(u, "failed") \/ Return(u, "mismatch")
    BY <1>1, <2>1, <2>2, <2>4, ReturnTyped
  <2> QED
    BY <1>2, <2>3, <2>4 DEF VerifyAct
<1>3. CASE WriteManifest(u)
  <2>1. Rest' /\ Files'
    BY <1>0, <1>3 DEF WriteManifest, Rest, Files
  <2>2. Return(u, "success")
    BY <1>3 DEF WriteManifest
  <2> QED
    BY <1>1, <2>1, <2>2, ReturnTyped
<1>4. CASE PrepareFails(u)
  <2>1. budget' \in BudgetRecord
    BY <1>0, <1>4, FaultTyped DEF PrepareFails, Rest
  <2>2. Rest' /\ Files'
    BY <1>0, <1>4, <2>1 DEF PrepareFails, Rest, Files, disk
  <2>3. Return(u, "canceled") \/ Return(u, "failed")
    BY <1>4 DEF PrepareFails
  <2> QED
    BY <1>1, <2>2, <2>3, ReturnTyped
<1> QED
  BY <1>2, <1>3, <1>4

(* The number of the pulls that hold a download.                            *)
LEMMA ReferencesTyped ==
    ASSUME IInv', NEW d \in Downloads
    PROVE  download'[d].references \in 0 .. Cardinality(Pulls)
<1>1. Holders(d)' \subseteq Pulls /\ download'[d].references = Cardinality(Holders(d)')
  BY DEF Holders, IInv, HoldersCounted
<1>2. IsFiniteSet(Holders(d)') /\ Cardinality(Holders(d)') <= Cardinality(Pulls)
  BY <1>1, FS_Subset, PullsAssumption
<1>3. Cardinality(Holders(d)') \in Nat /\ Cardinality(Pulls) \in Nat
  BY <1>2, FS_CardinalityType, PullsAssumption
<1> QED
  BY <1>1, <1>2, <1>3

LEMMA ReferencesStepTyped ==
    ASSUME Typed, IInv, NEW u \in Pulls, Acquire(u) \/ Release(u) \/ GoRun(u)
    PROVE  Typed'
<1> DEFINE d == pull[u].d
<1>0. /\ pull \in [Pulls -> PullRecord] /\ pull[u] \in PullRecord
      /\ download \in [Downloads -> DownloadRecord] /\ Rest /\ Files
      /\ \A e \in Downloads : DownloadFine(download[e])
  BY TypedParts
<1>1. d \in Downloads /\ download[d] \in DownloadRecord /\ DownloadFine(download[d])
  BY <1>0 DEF Acquire, Release, GoRun, IInv, Placed, Preparing
<1>2. IInv'
  BY AcquireInv, ReleaseInv, GoRunInv
<1>3. Files'
  BY FilesSame DEF Acquire, Release, GoRun, disk
<1>4. Rest'
  BY <1>0 DEF Acquire, Release, GoRun, disk, Rest
<1>5. PICK r \in PullRecord : /\ pull' = [pull EXCEPT ![u] = r]
                              /\ r.pc \in {"wait", "verify", "over", "acquire"}
                              /\ r.pc = "over" => r.next = 0
  <2>1. ASSUME NEW pc \in {"wait", "acquire"}, pull' = [pull EXCEPT ![u].pc = pc]
        PROVE  [pull[u] EXCEPT !.pc = pc] \in PullRecord /\ [pull[u] EXCEPT !.pc = pc].pc = pc
    BY <1>0 DEF PullRecord
  <2>2. CASE pull' = [pull EXCEPT ![u].pc = "verify", ![u].d = None]
    <3> DEFINE r == [pull[u] EXCEPT !.pc = "verify", !.d = None]
    <3>1. r \in PullRecord /\ r.pc = "verify"
      BY <1>0 DEF PullRecord
    <3>2. pull' = [pull EXCEPT ![u] = r]
      BY <1>0, <2>2
    <3> HIDE DEF r
    <3> QED
      BY <3>1, <3>2
  <2>3. CASE Return(u, pull[u].result)
    <3> DEFINE r == [NewPull EXCEPT !.pc = "over", !.result = pull[u].result,
                                    !.gone = pull[u].gone]
    <3>1. NewPull \in PullRecord /\ NewPull.next = 0
      BY PartsInterval DEF NewPull, PullRecord
    <3>2. r \in PullRecord /\ r.pc = "over" /\ r.next = 0
      BY <1>0, <3>1 DEF PullRecord
    <3>3. pull' = [pull EXCEPT ![u] = r]
      BY <2>3 DEF Return
    <3> HIDE DEF r
    <3> QED
      BY <3>2, <3>3
  <2> QED
    BY <2>1, <2>2, <2>3 DEF Acquire, Release, GoRun
<1> DEFINE B(n, k, run) == [download[d] EXCEPT !.references = n, !.cancel = k, !.run = run]
           n0 == download[d].references
           k0 == download[d].cancel
           run0 == download[d].run
<1>6. \E n, k, run : /\ download' = [download EXCEPT ![d] = B(n, k, run)]
                     /\ k \in {k0, "called"}
                     /\ run = run0 \/ (run = "open" /\ run0 = "new")
  <2>1. CASE Acquire(u)
    <3>1. download' = [download EXCEPT ![d] = B(n0 + 1, k0, run0)]
      BY <1>0, <1>1, <2>1 DEF Acquire, DownloadRecord
    <3> HIDE DEF B, n0, k0, run0
    <3> QED
      BY <3>1
  <2>2. CASE Release(u)
    <3> DEFINE k == IF LastReference(n0) /\ k0 = "set" THEN "called" ELSE k0
    <3>1. download' = [download EXCEPT ![d] = B(n0 - 1, k, run0)]
      BY <1>0, <1>1, <2>2, ZenonT(40) DEF Release, DownloadRecord
    <3>2. k \in {k0, "called"}
      OBVIOUS
    <3> HIDE DEF B, n0, k0, run0, k
    <3> QED
      BY <3>1, <3>2
  <2>3. CASE GoRun(u)
    <3>1. download' = [download EXCEPT ![d] = B(n0, k0, "open")]
      BY <1>0, <1>1, <2>3 DEF GoRun, DownloadRecord
    <3>2. run0 = "new"
      BY <2>3 DEF GoRun, IInv, Prepared, Preparing
    <3> HIDE DEF B, n0, k0, run0
    <3> QED
      BY <3>1, <3>2
  <2> QED
    BY <2>1, <2>2, <2>3
<1> HIDE DEF B
<1>6a. PICK n, k, run : /\ download' = [download EXCEPT ![d] = B(n, k, run)]
                        /\ k \in {k0, "called"}
                        /\ run = run0 \/ (run = "open" /\ run0 = "new")
  BY <1>6
<1> DEFINE b == B(n, k, run)
<1>7. b.references \in 0 .. Cardinality(Pulls)
  <2>1. download'[d] = b
    BY <1>0, <1>1, <1>6a
  <2> QED
    BY <1>1, <1>2, <2>1, ReferencesTyped
<1>8. /\ b \in DownloadRecord /\ b.part = download[d].part /\ b.removed = download[d].removed
      /\ b.parts = download[d].parts /\ b.total = download[d].total /\ b.run = run
  <2>1. n \in 0 .. Cardinality(Pulls)
    BY <1>1, <1>7 DEF DownloadRecord, B
  <2> QED
    BY <1>1, <1>6a, <2>1 DEF DownloadRecord, B
<1>9. DownloadFine(b)
  BY <1>1, <1>6a, <1>8 DEF DownloadFine
<1>10. PullFine(r)
  BY <1>5 DEF PullFine
<1> HIDE DEF b
<1>11. download' = [download EXCEPT ![d] = b]
  BY <1>6a DEF b
<1>12. OthersCreate(u, d, b) /\ Creates(r, d, b)
  BY <1>5, <1>8 DEF OthersCreate, Creates
<1> HIDE DEF d
<1> QED
  BY <1>1, <1>3, <1>4, <1>5, <1>8, <1>9, <1>10, <1>11, <1>12, BothTyped

-----------------------------------------------------------------------------
(* Prepare.                                                                 *)

PartRecord ==
    [pc : {"idle", "copy", "save", "retry", "end"}, completed : 0 .. PartSize,
     tries : 0 .. MaxRetries, then : {"ok", "canceled", "short", "stalled"}]

(* A part that has not begun in this process, but has bytes on disk.        *)
LEMMA FreshPart ==
    ASSUME NEW i \in Parts, NEW n \in 0 .. PartSize, n <= Size(i)
    PROVE  /\ [NoPart EXCEPT !.completed = n] \in PartRecord
           /\ PartFine([NoPart EXCEPT !.completed = n], i)
           /\ [NoPart EXCEPT !.completed = n].completed = n
           /\ [NoPart EXCEPT !.completed = n].tries = 0 /\ NoPart.tries = 0
           /\ NoPart \in PartRecord /\ PartFine(NoPart, i) /\ NoPart.completed = 0
<1>1. 0 \in 0 .. PartSize /\ 0 \in 0 .. MaxRetries /\ 0 <= Size(i)
  BY SizeAssumption, RetryAssumption, SizeBound
<1> QED
  BY <1>1 DEF NoPart, PartRecord, PartFine

(* The pull that prepares has the download for itself.                      *)
LEMMA PreparesAlone ==
    ASSUME Typed, IInv, NEW u \in Pulls, pull[u].pc \in Preparing
    PROVE  /\ pull[u].d \in Downloads /\ pull[u] \in PullRecord /\ PullFine(pull[u])
           /\ download[pull[u].d] \in DownloadRecord
           /\ download[pull[u].d].run = "new" /\ download[pull[u].d].removed = 0
           /\ \A v \in Pulls \ {u} : pull[v].pc \notin Preparing
           /\ \A e \in Downloads : download[e].run \notin Running
<1>1. pull[u].d \in Downloads
  BY DEF IInv, Placed
<1>2. download[pull[u].d].run = "new" /\ blobDownloadManager = pull[u].d
  BY DEF IInv, Prepared
<1>3. \A v \in Pulls \ {u} : pull[v].pc \notin Preparing
  BY DEF IInv, Prepared
<1>4. \A e \in Downloads : download[e].run \notin Running
  BY <1>2 DEF IInv, Managed, Running
<1> QED
  BY <1>1, <1>2, <1>3, <1>4, TypedParts DEF DownloadFine

LEMMA PrepareReadTyped ==
    ASSUME Typed, IInv, NEW u \in Pulls, PrepareRead(u)
    PROVE  Typed'
<1> DEFINE d == pull[u].d
           part == [i \in Parts |-> IF i \in Readable
                                    THEN [NoPart EXCEPT !.completed = saved[i]] ELSE NoPart]
           b == [download[d] EXCEPT !.done = "open", !.parts = Readable,
                                    !.total = SizeOf(Readable), !.part = part]
           pc == IF Readable = {} THEN "head" ELSE IF Readable # Present THEN "reset" ELSE "go"
           r == [pull[u] EXCEPT !.pc = pc]
<1>0. /\ pull[u].pc = "prepare" /\ pull[u].pc \in Preparing /\ Rest /\ Files
      /\ pull \in [Pulls -> PullRecord] /\ download \in [Downloads -> DownloadRecord]
  BY TypedParts DEF PrepareRead, Preparing
<1>1. /\ d \in Downloads /\ pull[u] \in PullRecord /\ PullFine(pull[u])
      /\ download[d] \in DownloadRecord
      /\ download[d].run = "new" /\ download[d].removed = 0
      /\ \A v \in Pulls \ {u} : pull[v].pc \notin Preparing
  BY <1>0, PreparesAlone
<1>2. Readable \subseteq Parts
  BY DEF Readable
<1>3. SizeOf(Readable) \in 0 .. BlobSize
  BY <1>2, SizeOfBound
<1>4. part \in [Parts -> PartRecord] /\ \A i \in Parts : PartFine(part[i], i) /\ part[i].tries = 0
  <2>1. \A i \in Parts : saved[i] \in 0 .. PartSize /\ saved[i] <= Size(i)
    BY <1>0 DEF Files
  <2>2. \A i \in Parts : part[i] \in {[NoPart EXCEPT !.completed = saved[i]], NoPart}
    OBVIOUS
  <2>3. \A i \in Parts : part[i] \in PartRecord /\ PartFine(part[i], i) /\ part[i].tries = 0
    BY <2>1, <2>2, FreshPart
  <2> QED
    BY <2>3
<1> HIDE DEF part
<1>5. /\ b \in DownloadRecord /\ b.part = part /\ b.parts = Readable
      /\ b.run = download[d].run /\ b.removed = download[d].removed
  BY <1>1, <1>2, <1>3, <1>4 DEF DownloadRecord, PartRecord
<1>6. DownloadFine(b)
  BY <1>1, <1>4, <1>5 DEF DownloadFine
<1>7. pc \in {"head", "reset", "go"} /\ (pc = "head" => Readable = {})
  OBVIOUS
<1>8. /\ download' = [download EXCEPT ![d] = b] /\ pull' = [pull EXCEPT ![u] = r]
  BY DEF PrepareRead, part
<1> HIDE DEF pc, b
<1>9. r \in PullRecord /\ r.pc = pc /\ r.d = d /\ r.next = pull[u].next
  BY <1>1, <1>7 DEF PullRecord
<1> HIDE DEF r
<1>10. PullFine(r)
  BY <1>0, <1>1, <1>7, <1>9 DEF PullFine
<1>11. Rest'
  BY <1>0 DEF PrepareRead, Rest
<1>12. Files'
  BY <1>0 DEF PrepareRead, Files
<1>13. OthersCreate(u, d, b)
  BY <1>1 DEF OthersCreate, Preparing
<1>14. Creates(r, d, b)
  BY <1>5, <1>7, <1>9 DEF Creates
<1> HIDE DEF d
<1> QED
  BY <1>1, <1>5, <1>6, <1>8, <1>9, <1>10, <1>11, <1>12, <1>13, <1>14, BothTyped

LEMMA PrepareResetTyped ==
    ASSUME Typed, IInv, NEW u \in Pulls, PrepareReset(u)
    PROVE  Typed'
<1> DEFINE d == pull[u].d
           part == [i \in Parts |-> NoPart]
           b == [download[d] EXCEPT !.parts = {}, !.total = 0, !.part = part]
           r == [pull[u] EXCEPT !.pc = "head"]
<1>0. /\ pull[u].pc = "reset" /\ pull[u].pc \in Preparing /\ Rest /\ Files
      /\ pull \in [Pulls -> PullRecord] /\ download \in [Downloads -> DownloadRecord]
  BY TypedParts DEF PrepareReset, Preparing
<1>1. /\ d \in Downloads /\ pull[u] \in PullRecord /\ PullFine(pull[u])
      /\ download[d] \in DownloadRecord
      /\ download[d].run = "new" /\ download[d].removed = 0
      /\ \A v \in Pulls \ {u} : pull[v].pc \notin Preparing
  BY <1>0, PreparesAlone
<1>2. part \in [Parts -> PartRecord] /\ \A i \in Parts : PartFine(part[i], i) /\ part[i].tries = 0
  <2>1. \A i \in Parts : 0 \in 0 .. PartSize /\ 0 <= Size(i)
    BY SizeAssumption, SizeBound
  <2> QED
    BY <2>1, FreshPart
<1> HIDE DEF part
<1>3. /\ b \in DownloadRecord /\ b.part = part /\ b.parts = {}
      /\ b.run = download[d].run /\ b.removed = download[d].removed
  <2>1. {} \in SUBSET Parts /\ 0 \in 0 .. BlobSize
    BY SizeAssumption
  <2> QED
    BY <1>1, <1>2, <2>1 DEF DownloadRecord, PartRecord
<1>4. DownloadFine(b)
  BY <1>1, <1>2, <1>3 DEF DownloadFine
<1>5. r \in PullRecord /\ r.pc = "head" /\ r.d = d /\ r.next = pull[u].next
  BY <1>1 DEF PullRecord
<1>6. download' = [download EXCEPT ![d] = b] /\ pull' = [pull EXCEPT ![u] = r]
  BY <1>0, <1>1 DEF PrepareReset, part
<1> HIDE DEF b, r
<1>7. PullFine(r)
  BY <1>0, <1>1, <1>5 DEF PullFine
<1>8. Rest' /\ Files'
  BY <1>0 DEF PrepareReset, Rest, Files
<1>9. OthersCreate(u, d, b)
  BY <1>1 DEF OthersCreate, Preparing
<1>10. Creates(r, d, b)
  BY <1>3, <1>5 DEF Creates
<1> HIDE DEF d
<1> QED
  BY <1>1, <1>3, <1>4, <1>5, <1>6, <1>7, <1>8, <1>9, <1>10, BothTyped

LEMMA PrepareHeadTyped ==
    ASSUME Typed, IInv, NEW u \in Pulls, PrepareHead(u)
    PROVE  Typed'
<1> DEFINE d == pull[u].d
           b == [download[d] EXCEPT !.total = BlobSize]
           r == [pull[u] EXCEPT !.pc = "newPart"]
<1>0. /\ pull[u].pc = "head" /\ pull[u].pc \in Preparing /\ Rest /\ Files
      /\ pull \in [Pulls -> PullRecord] /\ download \in [Downloads -> DownloadRecord]
      /\ Created(u)
  BY TypedParts DEF PrepareHead, Preparing
<1>1. /\ d \in Downloads /\ pull[u] \in PullRecord /\ PullFine(pull[u])
      /\ download[d] \in DownloadRecord /\ DownloadFine(download[d])
      /\ download[d].run = "new" /\ download[d].removed = 0
      /\ \A v \in Pulls \ {u} : pull[v].pc \notin Preparing
  BY <1>0, PreparesAlone, TypedParts
<1>2. /\ b \in DownloadRecord /\ b.part = download[d].part /\ b.parts = download[d].parts
      /\ b.run = download[d].run /\ b.removed = download[d].removed /\ b.total = BlobSize
  BY <1>1, SizeAssumption DEF DownloadRecord
<1>3. DownloadFine(b)
  BY <1>1, <1>2 DEF DownloadFine
<1>4. r \in PullRecord /\ r.pc = "newPart" /\ r.d = d /\ r.next = pull[u].next
  BY <1>1 DEF PullRecord
<1>5. pull[u].next = 0 /\ download[d].parts = {}
  BY <1>0, <1>1 DEF PullFine, Created
<1>6. r.next \in Parts /\ b.parts = 0 .. (r.next - 1)
  <2>1. 0 \in Parts /\ 0 .. (0 - 1) = {}
    BY PartsInterval
  <2> HIDE DEF r, b
  <2> QED
    BY <1>2, <1>4, <1>5, <2>1
<1>7. download' = [download EXCEPT ![d] = b] /\ pull' = [pull EXCEPT ![u] = r]
  BY <1>0, <1>1 DEF PrepareHead
<1> HIDE DEF b, r
<1>8. PullFine(r)
  BY <1>4, <1>6 DEF PullFine
<1>9. Rest' /\ Files'
  BY <1>0 DEF PrepareHead, Rest, Files, disk
<1>10. OthersCreate(u, d, b) /\ Creates(r, d, b)
  BY <1>1, <1>2, <1>4, <1>6 DEF OthersCreate, Creates, Preparing
<1> HIDE DEF d
<1> QED
  BY <1>1, <1>2, <1>3, <1>4, <1>7, <1>8, <1>9, <1>10, BothTyped

LEMMA NewPartFileTyped ==
    ASSUME Typed, IInv, NEW u \in Pulls, NewPartFile(u)
    PROVE  Typed'
<1> DEFINE d == pull[u].d
           i == pull[u].next
           b == [download[d] EXCEPT !.parts = download[d].parts \cup {i}]
           pc == IF i + 1 \in Parts THEN "newPart" ELSE "go"
           r == [pull[u] EXCEPT !.next = i + 1, !.pc = pc]
<1>0. /\ pull[u].pc = "newPart" /\ pull[u].pc \in Preparing /\ Rest /\ Files
      /\ pull \in [Pulls -> PullRecord] /\ download \in [Downloads -> DownloadRecord]
      /\ Created(u)
  BY TypedParts DEF NewPartFile, Preparing
<1>1. /\ d \in Downloads /\ pull[u] \in PullRecord /\ PullFine(pull[u])
      /\ download[d] \in DownloadRecord /\ DownloadFine(download[d])
      /\ download[d].run = "new" /\ download[d].removed = 0
      /\ \A v \in Pulls \ {u} : pull[v].pc \notin Preparing
  BY <1>0, PreparesAlone, TypedParts
<1>2. /\ i \in Parts /\ download[d].parts = 0 .. (i - 1) /\ download[d].total = BlobSize
  BY <1>0, <1>1 DEF PullFine, Created
<1>3. /\ i + 1 \in 0 .. Cardinality(Parts) /\ i \in Nat
      /\ (0 .. (i - 1)) \cup {i} = 0 .. (i + 1 - 1)
  <2>1. i \in Nat /\ i <= LastPart /\ Cardinality(Parts) = LastPart + 1 /\ LastPart \in Nat
    BY <1>2, PartsInterval
  <2> HIDE DEF i
  <2>2. (0 .. (i - 1)) \cup {i} = 0 .. (i + 1 - 1)
    BY <2>1
  <2> QED
    BY <2>1, <2>2
<1>4. /\ b \in DownloadRecord /\ b.part = download[d].part /\ b.parts = 0 .. (i + 1 - 1)
      /\ b.run = download[d].run /\ b.removed = download[d].removed /\ b.total = BlobSize
  <2> DEFINE parts == download[d].parts \cup {i}
  <2>1. parts \in SUBSET Parts
    BY <1>1, <1>2 DEF DownloadRecord
  <2>2. parts = 0 .. (i + 1 - 1)
    BY <1>2, <1>3
  <2>3. b = [download[d] EXCEPT !.parts = parts]
    OBVIOUS
  <2> HIDE DEF parts, b, i, d
  <2>4. b \in DownloadRecord
    BY <1>1, <2>1, <2>3 DEF DownloadRecord
  <2>5. /\ b.part = download[d].part /\ b.parts = parts
        /\ b.run = download[d].run /\ b.removed = download[d].removed
        /\ b.total = download[d].total
    BY <1>1, <2>3 DEF DownloadRecord
  <2> QED
    BY <1>2, <2>2, <2>4, <2>5
<1>5. DownloadFine(b)
  BY <1>1, <1>4 DEF DownloadFine
<1>6. pc \in {"newPart", "go"} /\ (pc = "newPart" => i + 1 \in Parts)
  OBVIOUS
<1>7. download' = [download EXCEPT ![d] = b] /\ pull' = [pull EXCEPT ![u] = r]
  BY <1>0, <1>1 DEF NewPartFile, PullRecord
<1> HIDE DEF pc, b
<1>8. r \in PullRecord /\ r.pc = pc /\ r.d = d /\ r.next = i + 1
  BY <1>1, <1>3, <1>6 DEF PullRecord
<1> HIDE DEF r
<1>9. PullFine(r)
  BY <1>6, <1>8 DEF PullFine
<1>10. Rest'
  BY <1>0 DEF NewPartFile, Rest
<1>11. Files'
  <2>1. 0 \in 0 .. PartSize /\ \A j \in Parts : 0 <= Size(j)
    BY SizeAssumption, SizeBound
  <2> QED
    BY <1>0, <2>1 DEF NewPartFile, Files
<1>12. OthersCreate(u, d, b)
  BY <1>1 DEF OthersCreate, Preparing
<1>13. Creates(r, d, b)
  <2> HIDE DEF d, i
  <2>1. r.pc \in {"newPart", "go"}
    BY <1>6, <1>8
  <2>2. 0 .. (r.next - 1) = 0 .. (i + 1 - 1)
    BY <1>3, <1>8
  <2> QED
    BY <1>4, <1>8, <2>1, <2>2 DEF Creates
<1> HIDE DEF d, i
<1> QED
  BY <1>1, <1>4, <1>5, <1>7, <1>8, <1>9, <1>10, <1>11, <1>12, <1>13, BothTyped

-----------------------------------------------------------------------------
(* The parts of a download.                                                 *)

(* Part i of the download d becomes x, and the error of the group e.        *)
With(d, i, x, e) ==
    [download[d] EXCEPT !.part = [download[d].part EXCEPT ![i] = x], !.err = e]

Becomes(d, i, x, e) == download' = [download EXCEPT ![d] = With(d, i, x, e)]

LEMMA WithFacts ==
    ASSUME Typed, NEW d \in Downloads, NEW i \in Parts, NEW x \in PartRecord,
           NEW e \in {"none", "canceled", "failed"}, PartFine(x, i),
           download[d].run = "parts"
    PROVE  LET r == With(d, i, x, e) IN
             /\ r \in DownloadRecord /\ DownloadFine(r)
             /\ r.run = download[d].run /\ r.parts = download[d].parts
             /\ r.total = download[d].total /\ r.removed = download[d].removed /\ r.err = e
             /\ \A j \in Parts : r.part[j] = IF j = i THEN x ELSE download[d].part[j]
<1> DEFINE r == With(d, i, x, e)
           part == [download[d].part EXCEPT ![i] = x]
<1>1. /\ download[d] \in DownloadRecord /\ DownloadFine(download[d])
      /\ download[d].part \in [Parts -> PartRecord]
  BY TypedParts DEF DownloadRecord, PartRecord
<1>2. /\ part \in [Parts -> PartRecord]
      /\ \A j \in Parts : part[j] = IF j = i THEN x ELSE download[d].part[j]
  BY <1>1
<1> HIDE DEF part
<1>3. /\ r \in DownloadRecord /\ r.part = part
      /\ r.run = download[d].run /\ r.parts = download[d].parts
      /\ r.total = download[d].total /\ r.removed = download[d].removed /\ r.err = e
  BY <1>1, <1>2 DEF With, part, DownloadRecord, PartRecord
<1> HIDE DEF r
<1>4. DownloadFine(r)
  BY <1>1, <1>2, <1>3 DEF DownloadFine
<1> QED
  BY <1>2, <1>3, <1>4 DEF r

(* What a part is while Run waits for the parts.                            *)
LEMMA ChunkFacts ==
    ASSUME Typed, IInv, NEW d \in Downloads, NEW i \in Parts, Chunk(d, i)
    PROVE  LET part == download[d].part[i] IN
             /\ download[d].run = "parts" /\ part \in PartRecord /\ PartFine(part, i)
             /\ part.completed \in Nat /\ Size(i) \in Nat
             /\ download[d].err \in {"none", "canceled", "failed"}
             /\ UNCHANGED <<blob, manifest, blobDownloadManager, pull, panicked, torn>>
<1>1. download[d] \in DownloadRecord /\ DownloadFine(download[d])
  BY TypedParts
<1>2. download[d].part[i] \in PartRecord /\ download[d].err \in {"none", "canceled", "failed"}
  BY <1>1 DEF DownloadRecord, PartRecord
<1>3. PartFine(download[d].part[i], i) /\ Size(i) \in Nat
  BY <1>1, SizeBound DEF DownloadFine
<1>4. download[d].part[i].completed \in Nat
  BY <1>2, SizeAssumption DEF PartRecord
<1> QED
  BY <1>2, <1>3, <1>4 DEF Chunk, Copy, WritePart, Retry, disk

LEMMA CopyEffect ==
    ASSUME Typed, IInv, NEW d \in Downloads, NEW i \in Parts, Copy(d, i)
    PROVE  \E x \in PartRecord, n \in Nat :
             /\ PartFine(x, i) /\ Becomes(d, i, x, download[d].err)
             /\ download[d].part[i].completed + n <= Size(i)
             /\ partial' = WriteAt(Section(i, download[d].part[i].completed, n))
             /\ \/ /\ x.pc = "retry" /\ x.completed = download[d].part[i].completed
                   /\ partFile' = partFile
                \/ /\ x.pc = "save" /\ x.completed = download[d].part[i].completed + n
                   /\ x.then = "ok" => x.completed = Size(i)
                   /\ partFile' = [partFile EXCEPT ![i] = "corrupt"]
             /\ saved' = saved /\ budget' \in BudgetRecord
<1> DEFINE part == download[d].part[i]
           rest == Size(i) - part.completed
<1>1. /\ download \in [Downloads -> DownloadRecord] /\ download[d] \in DownloadRecord
      /\ budget \in BudgetRecord
  BY TypedParts DEF Rest
<1>2. /\ part \in PartRecord /\ PartFine(part, i)
      /\ part.completed \in Nat /\ Size(i) \in Nat /\ part.pc = "copy"
  BY ChunkFacts DEF Chunk, Copy
<1>3. PICK n \in 0 .. rest, outcome \in {"ok", "canceled", "short", "stalled", "error"},
           tries \in Tried(part.tries) :
             /\ outcome = "ok" <=> n = rest
             /\ IF outcome \in {"ok", "canceled"} THEN UNCHANGED budget ELSE Fault
             /\ partial' = WriteAt(Section(i, part.completed, n))
             /\ download' = [download EXCEPT ![d].part[i] =
                  IF outcome = "error"
                  THEN [part EXCEPT !.pc = "retry", !.tries = tries]
                  ELSE [part EXCEPT !.pc = "save", !.then = outcome,
                                    !.completed = Counted(i, @, n)]]
             /\ partFile' = IF outcome = "error" THEN partFile
                            ELSE [partFile EXCEPT ![i] = "corrupt"]
  BY DEF Copy
<1> DEFINE retry == [part EXCEPT !.pc = "retry", !.tries = tries]
           save == [part EXCEPT !.pc = "save", !.then = outcome, !.completed = part.completed + n]
           x == IF outcome = "error" THEN retry ELSE save
<1>4. n \in Nat /\ part.completed + n <= Size(i) /\ part.completed + n \in 0 .. PartSize
      /\ (n = rest => part.completed + n = Size(i))
  BY <1>2, SizeBound, SizeAssumption DEF PartFine
<1>5. part.tries \in Nat /\ part.tries < MaxRetries /\ MaxRetries \in Nat
      /\ tries \in 0 .. MaxRetries
  BY <1>2, RetryAssumption DEF PartFine, PartRecord, Tried
<1>6. /\ retry \in PartRecord /\ retry.pc = "retry" /\ retry.completed = part.completed
  BY <1>2, <1>5 DEF PartRecord
<1>7. outcome # "error" =>
         /\ save \in PartRecord /\ save.pc = "save" /\ save.completed = part.completed + n
         /\ save.tries = part.tries /\ save.then = outcome
  BY <1>2, <1>4 DEF PartRecord
<1>8. download' = [download EXCEPT ![d].part[i] = x]
  BY <1>3 DEF Counted
<1> HIDE DEF retry, save
<1>9. Becomes(d, i, x, download[d].err)
  BY <1>1, <1>8 DEF Becomes, With, DownloadRecord
<1>10. PartFine(retry, i)
  BY <1>2, <1>6 DEF PartFine
<1>11. outcome # "error" => PartFine(save, i)
  BY <1>4, <1>5, <1>7 DEF PartFine
<1>12. saved' = saved /\ budget' \in BudgetRecord
  BY <1>1, <1>3, FaultTyped DEF Copy
<1>13. CASE outcome = "error"
  BY <1>3, <1>4, <1>6, <1>9, <1>10, <1>12, <1>13
<1>14. CASE outcome # "error"
  BY <1>3, <1>4, <1>7, <1>9, <1>11, <1>12, <1>14
<1> QED
  BY <1>13, <1>14

(* Setting one part, and then the error, field by field.                    *)
Others(r, s) ==
    /\ r.run = s.run /\ r.cancel = s.cancel /\ r.references = s.references
    /\ r.done = s.done /\ r.total = s.total /\ r.parts = s.parts /\ r.removed = s.removed

PartSet(f, d, i, y) == [f EXCEPT ![d].part[i] = y]
ErrorSet(f, d, e) == [f EXCEPT ![d].err = e]

LEMMA SetPart ==
    ASSUME NEW f \in [Downloads -> DownloadRecord], NEW d \in Downloads, NEW i \in Parts,
           NEW y \in PartRecord, NEW g, g = PartSet(f, d, i, y)
    PROVE  /\ g \in [Downloads -> DownloadRecord]
           /\ \A e \in Downloads \ {d} : g[e] = f[e]
           /\ Others(g[d], f[d]) /\ g[d].err = f[d].err
           /\ g[d].part = [f[d].part EXCEPT ![i] = y]
           /\ f[d].part \in [Parts -> PartRecord] /\ g[d].part[i] = y
<1> DEFINE part == [f[d].part EXCEPT ![i] = y]
           r == [f[d] EXCEPT !.part = part]
<1>1. g = [f EXCEPT ![d] = r]
  BY DEF PartSet
<1>2. f[d] \in DownloadRecord /\ f[d].part \in [Parts -> PartRecord]
  BY DEF DownloadRecord, PartRecord
<1>3. part \in [Parts -> PartRecord] /\ part[i] = y
  BY <1>2
<1> HIDE DEF part
<1>4. r \in DownloadRecord /\ Others(r, f[d]) /\ r.err = f[d].err /\ r.part = part
  BY <1>2, <1>3 DEF DownloadRecord, PartRecord, Others
<1> HIDE DEF r
<1>5. g \in [Downloads -> DownloadRecord] /\ g[d] = r /\ \A e \in Downloads \ {d} : g[e] = f[e]
  BY <1>1, <1>4
<1> QED
  BY <1>2, <1>3, <1>4, <1>5 DEF part

LEMMA SetError ==
    ASSUME NEW f \in [Downloads -> DownloadRecord], NEW d \in Downloads,
           NEW e \in {"none", "canceled", "failed"}, NEW g, g = ErrorSet(f, d, e)
    PROVE  /\ g \in [Downloads -> DownloadRecord]
           /\ \A c \in Downloads \ {d} : g[c] = f[c]
           /\ Others(g[d], f[d]) /\ g[d].err = e /\ g[d].part = f[d].part
<1> DEFINE r == [f[d] EXCEPT !.err = e]
<1>1. g = [f EXCEPT ![d] = r]
  BY DEF ErrorSet
<1>2. r \in DownloadRecord /\ Others(r, f[d]) /\ r.err = e /\ r.part = f[d].part
  <2> DEFINE s == f[d]
  <2>1. s \in DownloadRecord /\ r = [s EXCEPT !.err = e]
    OBVIOUS
  <2> HIDE DEF s, r
  <2>2. r \in DownloadRecord
    BY <2>1 DEF DownloadRecord
  <2>3. Others(r, s)
    BY <2>1 DEF DownloadRecord, Others
  <2>4. r.err = e /\ r.part = s.part
    BY <2>1 DEF DownloadRecord
  <2> QED
    BY <2>2, <2>3, <2>4 DEF s
<1> HIDE DEF r
<1> QED
  BY <1>1, <1>2

LEMMA BecomesFrom ==
    ASSUME Typed, NEW d \in Downloads, NEW i \in Parts,
           NEW e \in {"none", "canceled", "failed"}, NEW x \in PartRecord,
           download' \in [Downloads -> DownloadRecord],
           \A c \in Downloads \ {d} : download'[c] = download[c],
           Others(download'[d], download[d]), download'[d].err = e,
           download'[d].part = [download[d].part EXCEPT ![i] = x]
    PROVE  Becomes(d, i, x, e)
<1>1. download \in [Downloads -> DownloadRecord] /\ download[d] \in DownloadRecord
  BY TypedParts
<1>2. download'[d] = With(d, i, x, e)
  <2> DEFINE part == [download[d].part EXCEPT ![i] = x]
             w == With(d, i, x, e)
  <2>1. /\ download'[d] \in DownloadRecord /\ download'[d].part = part
        /\ Others(download'[d], download[d]) /\ download'[d].err = e
    OBVIOUS
  <2>2. part \in [Parts -> PartRecord]
    BY <1>1 DEF DownloadRecord, PartRecord
  <2> HIDE DEF part
  <2>3. w \in DownloadRecord /\ w.part = part /\ Others(w, download[d]) /\ w.err = e
    BY <1>1, <2>2 DEF With, part, DownloadRecord, PartRecord, Others
  <2>4. \A r \in DownloadRecord :
           r = [run |-> r.run, cancel |-> r.cancel, references |-> r.references,
                done |-> r.done, err |-> r.err, total |-> r.total, parts |-> r.parts,
                removed |-> r.removed, part |-> r.part]
    BY DEF DownloadRecord
  <2> HIDE DEF w
  <2>5. \A r \in DownloadRecord : r.part = part /\ Others(r, download[d]) /\ r.err = e
           => r = [run |-> download[d].run, cancel |-> download[d].cancel,
                   references |-> download[d].references, done |-> download[d].done,
                   err |-> e, total |-> download[d].total, parts |-> download[d].parts,
                   removed |-> download[d].removed, part |-> part]
    BY <2>4 DEF Others
  <2>6. download'[d] = w
    BY <2>1, <2>3, <2>5
  <2> QED
    BY <2>6 DEF w
<1>3. \A c \in Downloads : download'[c] = [download EXCEPT ![d] = With(d, i, x, e)][c]
  BY <1>1, <1>2
<1> QED
  BY <1>1, <1>3 DEF Becomes

LEMMA WritePartEffect ==
    ASSUME Typed, IInv, NEW d \in Downloads, NEW i \in Parts, WritePart(d, i)
    PROVE  \E x \in PartRecord, e \in {"none", "canceled", "failed"} :
             /\ PartFine(x, i) /\ Becomes(d, i, x, e)
             /\ x.completed = download[d].part[i].completed
             /\ e = "none" => download[d].err = "none"
             /\ x.pc = "end" /\ e = "none" => download[d].part[i].then = "ok"
             /\ x.pc \in {"end", "retry"}
             /\ \/ /\ partFile' = [partFile EXCEPT ![i] = "ok"]
                   /\ saved' = [saved EXCEPT ![i] = x.completed]
                \/ UNCHANGED <<partFile, saved>>
             /\ partial' = partial /\ budget' \in BudgetRecord
<1> DEFINE part == download[d].part[i]
           err == download[d].err
<1>1. /\ download \in [Downloads -> DownloadRecord] /\ download[d] \in DownloadRecord
      /\ download[d].part \in [Parts -> PartRecord] /\ budget \in BudgetRecord
  BY TypedParts DEF Rest, DownloadRecord, PartRecord
<1>2. /\ part \in PartRecord /\ PartFine(part, i)
      /\ part.completed \in Nat /\ Size(i) \in Nat /\ part.pc = "save"
      /\ err \in {"none", "canceled", "failed"}
  BY ChunkFacts DEF Chunk, WritePart
<1>3. part.tries \in Nat /\ part.tries < MaxRetries /\ MaxRetries \in Nat
      /\ part.tries + 1 \in 0 .. MaxRetries
  BY <1>2, RetryAssumption DEF PartFine, PartRecord
<1>4. partial' = partial /\ budget' \in BudgetRecord
  BY <1>1, FaultTyped DEF WritePart
<1>5. CASE /\ partFile' = [partFile EXCEPT ![i] = "ok"]
           /\ saved' = [saved EXCEPT ![i] = part.completed]
           /\ download' = [download EXCEPT
                 ![d].part[i].pc = IF part.then \in {"ok", "canceled"} THEN "end" ELSE "retry",
                 ![d].part[i].tries = IF part.then = "short" THEN @ + 1 ELSE @,
                 ![d].err = IF part.then = "canceled" /\ @ = "none" THEN "canceled" ELSE @]
  <2> DEFINE pc == IF part.then \in {"ok", "canceled"} THEN "end" ELSE "retry"
             tries == IF part.then = "short" THEN part.tries + 1 ELSE part.tries
             e == IF part.then = "canceled" /\ err = "none" THEN "canceled" ELSE err
             x == [part EXCEPT !.pc = pc, !.tries = tries]
  <2>2. tries \in 0 .. MaxRetries /\ pc \in {"end", "retry"} /\ e \in {"none", "canceled", "failed"}
    BY <1>2, <1>3 DEF PartRecord
  <2>1. Becomes(d, i, x, e)
    <3> DEFINE y == [part EXCEPT !.pc = pc]
               f == PartSet(download, d, i, y)
               g == PartSet(f, d, i, x)
    <3>1. /\ y \in PartRecord /\ y.tries = part.tries /\ x = [y EXCEPT !.tries = tries]
          /\ x \in PartRecord
      BY <1>2, <2>2 DEF PartRecord
    <3>2. /\ f \in [Downloads -> DownloadRecord]
          /\ \A c \in Downloads \ {d} : f[c] = download[c]
          /\ Others(f[d], download[d]) /\ f[d].err = err
          /\ f[d].part = [download[d].part EXCEPT ![i] = y] /\ f[d].part[i] = y
      <4>1. f = PartSet(download, d, i, y)
        OBVIOUS
      <4>2. y \in PartRecord
        BY <3>1
      <4> HIDE DEF y, f, PartSet
      <4> QED
        BY <1>1, <4>1, <4>2, SetPart
    <3>3. /\ g \in [Downloads -> DownloadRecord]
          /\ \A c \in Downloads \ {d} : g[c] = f[c]
          /\ Others(g[d], f[d]) /\ g[d].err = f[d].err
          /\ g[d].part = [f[d].part EXCEPT ![i] = x]
      <4>1. g = PartSet(f, d, i, x)
        OBVIOUS
      <4>2. x \in PartRecord /\ f \in [Downloads -> DownloadRecord]
        BY <3>1, <3>2
      <4> HIDE DEF f, x, y, g
      <4> QED
        BY <4>1, <4>2, SetPart
    <3>4. download' = ErrorSet(g, d, e)
      <4>1. download' = [[[download EXCEPT ![d].part[i].pc = pc]
                            EXCEPT ![d].part[i].tries = tries] EXCEPT ![d].err = e]
        BY <1>5
      <4>2. [download EXCEPT ![d].part[i].pc = pc] = f
        BY DEF PartSet
      <4>3. [f EXCEPT ![d].part[i].tries = tries] = g
        <5>1. [f EXCEPT ![d].part[i].tries = tries]
                = PartSet(f, d, i, [f[d].part[i] EXCEPT !.tries = tries])
          <6> HIDE DEF f, tries
          <6> QED
            BY DEF PartSet
        <5> HIDE DEF f, x, y, tries
        <5> QED
          BY <3>1, <3>2, <5>1
      <4> HIDE DEF f, g, pc, tries, e
      <4> QED
        BY <4>1, <4>2, <4>3 DEF ErrorSet
    <3> HIDE DEF f, g, x, y, e, err
    <3>5. /\ download' \in [Downloads -> DownloadRecord]
          /\ \A c \in Downloads \ {d} : download'[c] = g[c]
          /\ Others(download'[d], g[d]) /\ download'[d].err = e
          /\ download'[d].part = g[d].part
      BY <2>2, <3>3, <3>4, SetError
    <3>6. g[d].part = [download[d].part EXCEPT ![i] = x]
      <4>1. g[d].part = [[download[d].part EXCEPT ![i] = y] EXCEPT ![i] = x]
        BY <3>2, <3>3
      <4> QED
        BY <1>1, <4>1
    <3>7. Others(download'[d], download[d])
      BY <3>2, <3>3, <3>5 DEF Others
    <3> QED
      BY <2>2, <3>1, <3>2, <3>3, <3>5, <3>6, <3>7, BecomesFrom
  <2>3. pc = "end" /\ e = "none" => part.then = "ok"
    OBVIOUS
  <2>4. e = "none" => err = "none"
    OBVIOUS
  <2> HIDE DEF pc, tries, e
  <2>5. x \in PartRecord /\ x.pc = pc /\ x.completed = part.completed
    BY <1>2, <2>2 DEF PartRecord
  <2> HIDE DEF x
  <2>6. PartFine(x, i)
    BY <1>2, <2>2, <2>5 DEF PartFine
  <2> QED
    BY <1>4, <1>5, <2>1, <2>2, <2>3, <2>4, <2>5, <2>6
<1>6. CASE \E t \in Tried(part.tries) :
             /\ download' = [download EXCEPT ![d].part[i].pc = "retry", ![d].part[i].tries = t]
             /\ UNCHANGED <<partFile, saved>>
  <2>0. PICK t \in Tried(part.tries) :
             /\ download' = [download EXCEPT ![d].part[i].pc = "retry", ![d].part[i].tries = t]
             /\ UNCHANGED <<partFile, saved>>
    BY <1>6
  <2> DEFINE x == [part EXCEPT !.pc = "retry", !.tries = t]
  <2>2. x \in PartRecord /\ x.pc = "retry" /\ x.completed = part.completed
    <3>1. t \in 0 .. MaxRetries
      BY <1>3 DEF Tried
    <3> QED
      BY <1>2, <3>1 DEF PartRecord
  <2>1. Becomes(d, i, x, err)
    <3> DEFINE y == [part EXCEPT !.pc = "retry"]
               f == PartSet(download, d, i, y)
    <3>1. /\ y \in PartRecord /\ y.tries = part.tries
          /\ x = [y EXCEPT !.tries = t]
      BY <1>2 DEF PartRecord
    <3>2. /\ f \in [Downloads -> DownloadRecord]
          /\ \A c \in Downloads \ {d} : f[c] = download[c]
          /\ Others(f[d], download[d]) /\ f[d].err = err
          /\ f[d].part = [download[d].part EXCEPT ![i] = y] /\ f[d].part[i] = y
      <4>1. f = PartSet(download, d, i, y)
        OBVIOUS
      <4>2. y \in PartRecord
        BY <3>1
      <4> HIDE DEF y, f, PartSet
      <4> QED
        BY <1>1, <4>1, <4>2, SetPart
    <3>3. download' = PartSet(f, d, i, x)
      <4>1. download' = [f EXCEPT ![d].part[i].tries = t]
        BY <2>0 DEF PartSet
      <4>2. [f EXCEPT ![d].part[i].tries = t]
              = [f EXCEPT ![d].part[i] = [f[d].part[i] EXCEPT !.tries = t]]
        <5> HIDE DEF f
        <5> QED
          OBVIOUS
      <4> HIDE DEF f, x, y
      <4> QED
        BY <3>1, <3>2, <4>1, <4>2 DEF PartSet
    <3> HIDE DEF f, x, y, err
    <3>4. /\ download' \in [Downloads -> DownloadRecord]
          /\ \A c \in Downloads \ {d} : download'[c] = f[c]
          /\ Others(download'[d], f[d]) /\ download'[d].err = f[d].err
          /\ download'[d].part = [f[d].part EXCEPT ![i] = x]
      BY <2>2, <3>2, <3>3, SetPart
    <3>5. download'[d].part = [download[d].part EXCEPT ![i] = x]
      <4>1. download'[d].part = [[download[d].part EXCEPT ![i] = y] EXCEPT ![i] = x]
        BY <3>2, <3>4
      <4> QED
        BY <1>1, <4>1
    <3>6. Others(download'[d], download[d])
      BY <3>2, <3>4 DEF Others
    <3> QED
      BY <1>2, <2>2, <3>2, <3>4, <3>5, <3>6, BecomesFrom
  <2> HIDE DEF x
  <2>3. PartFine(x, i)
    BY <1>2, <2>2 DEF PartFine
  <2> QED
    BY <1>2, <1>4, <2>0, <2>1, <2>2, <2>3
<1> QED
  BY <1>5, <1>6 DEF WritePart

LEMMA RetryEffect ==
    ASSUME Typed, IInv, NEW d \in Downloads, NEW i \in Parts, Retry(d, i)
    PROVE  \E x \in PartRecord, e \in {"none", "canceled", "failed"} :
             /\ PartFine(x, i) /\ Becomes(d, i, x, e)
             /\ x.completed = download[d].part[i].completed
             /\ e = "none" => download[d].err = "none"
             /\ x.pc = "end" => e # "none"
             /\ x.pc \in {"end", "copy"}
             /\ UNCHANGED <<partial, partFile, saved, budget>>
<1> DEFINE part == download[d].part[i]
           err == download[d].err
<1>1. /\ download \in [Downloads -> DownloadRecord] /\ download[d] \in DownloadRecord
      /\ download[d].part \in [Parts -> PartRecord]
  BY TypedParts DEF DownloadRecord, PartRecord
<1>2. /\ part \in PartRecord /\ PartFine(part, i)
      /\ err \in {"none", "canceled", "failed"}
      /\ UNCHANGED <<partial, partFile, saved, budget>>
  BY ChunkFacts DEF Chunk, Retry, disk
<1>3. CASE /\ part.tries < MaxRetries
           /\ download' = [download EXCEPT ![d].part[i].pc = "copy"]
  <2> DEFINE x == [part EXCEPT !.pc = "copy"]
  <2>1. Becomes(d, i, x, err)
    BY <1>1, <1>3 DEF Becomes, With, DownloadRecord, PartRecord
  <2>2. /\ x \in PartRecord /\ x.pc = "copy" /\ x.completed = part.completed
        /\ x.tries = part.tries
    BY <1>2 DEF PartRecord
  <2> HIDE DEF x
  <2>3. PartFine(x, i)
    BY <1>2, <1>3, <2>2 DEF PartFine
  <2> QED
    BY <1>2, <2>1, <2>2, <2>3
<1>4. CASE download' = [download EXCEPT ![d].part[i].pc = "end",
                                        ![d].err = IF @ = "none" THEN "failed" ELSE @]
  <2> DEFINE x == [part EXCEPT !.pc = "end"]
             e == IF err = "none" THEN "failed" ELSE err
  <2>1. Becomes(d, i, x, e)
    BY <1>1, <1>4 DEF Becomes, With, DownloadRecord, PartRecord
  <2>2. x \in PartRecord /\ x.pc = "end" /\ x.completed = part.completed
    BY <1>2 DEF PartRecord
  <2>3. e \in {"none", "canceled", "failed"} /\ e # "none"
    BY <1>2
  <2> HIDE DEF x, e
  <2>4. PartFine(x, i)
    BY <1>2, <2>2 DEF PartFine
  <2> QED
    BY <1>2, <2>1, <2>2, <2>3, <2>4
<1> QED
  BY <1>3, <1>4 DEF Retry

LEMMA ChunkTyped ==
    ASSUME Typed, IInv, NEW d \in Downloads, NEW i \in Parts, Chunk(d, i)
    PROVE  Typed'
<1>0. /\ Rest /\ Files /\ download[d] \in DownloadRecord
      /\ \A v \in Pulls : pull[v].pc \notin Preparing
  <2>1. download[d].run \in Running
    BY ChunkFacts DEF Running
  <2>2. \A v \in Pulls : pull[v].pc \notin Preparing
    BY <2>1, PreparesAlone
  <2> QED
    BY <2>2, TypedParts
<1>1. /\ UNCHANGED <<blob, manifest, blobDownloadManager, pull, panicked, torn>>
      /\ download[d].err \in {"none", "canceled", "failed"} /\ download[d].run = "parts"
  BY ChunkFacts
<1>2. ASSUME NEW x \in PartRecord, NEW e \in {"none", "canceled", "failed"},
             PartFine(x, i), Becomes(d, i, x, e), Files', budget' \in BudgetRecord
      PROVE  Typed'
  <2> DEFINE r == With(d, i, x, e)
  <2>1. /\ r \in DownloadRecord /\ DownloadFine(r)
    BY <1>1, <1>2, WithFacts
  <2>2. Rest'
    BY <1>0, <1>1, <1>2 DEF Rest
  <2>3. download' = [download EXCEPT ![d] = r]
    BY <1>2 DEF Becomes
  <2> HIDE DEF r
  <2>4. \A u \in Pulls : ~(pull[u].pc \in {"head", "newPart"} /\ pull[u].d = d)
    BY <1>0 DEF Preparing
  <2> QED
    BY <1>1, <1>2, <2>1, <2>2, <2>3, <2>4, DownloadTyped
<1>3. CASE Copy(d, i)
  <2>1. PICK x \in PartRecord, n \in Nat :
             /\ PartFine(x, i) /\ Becomes(d, i, x, download[d].err)
             /\ download[d].part[i].completed + n <= Size(i)
             /\ partial' = WriteAt(Section(i, download[d].part[i].completed, n))
             /\ partFile' \in {partFile, [partFile EXCEPT ![i] = "corrupt"]}
             /\ saved' = saved /\ budget' \in BudgetRecord
    BY <1>3, CopyEffect
  <2>2. partial' \in Content
    BY <1>0, <2>1, ChunkFacts, WriteKeeps DEF Files
  <2>3. Files'
    BY <1>0, <1>1, <2>1, <2>2 DEF Files
  <2> QED
    BY <1>1, <1>2, <2>1, <2>3
<1>4. CASE WritePart(d, i)
  <2>1. PICK x \in PartRecord, e \in {"none", "canceled", "failed"} :
             /\ PartFine(x, i) /\ Becomes(d, i, x, e)
             /\ \/ /\ partFile' = [partFile EXCEPT ![i] = "ok"]
                   /\ saved' = [saved EXCEPT ![i] = x.completed]
                \/ UNCHANGED <<partFile, saved>>
             /\ partial' = partial /\ budget' \in BudgetRecord
    BY <1>4, WritePartEffect
  <2>2. x.completed \in 0 .. PartSize /\ x.completed <= Size(i)
    BY <2>1 DEF PartFine, PartRecord
  <2>3. Files'
    BY <1>0, <1>1, <2>1, <2>2 DEF Files
  <2> QED
    BY <1>2, <2>1, <2>3
<1>5. CASE Retry(d, i)
  <2>1. PICK x \in PartRecord, e \in {"none", "canceled", "failed"} :
             /\ PartFine(x, i) /\ Becomes(d, i, x, e)
             /\ UNCHANGED <<partial, partFile, saved, budget>>
    BY <1>5, RetryEffect
  <2>2. Files' /\ budget' \in BudgetRecord
    BY <1>0, <1>1, <2>1 DEF Files, Rest
  <2> QED
    BY <1>2, <2>1, <2>2
<1> QED
  BY <1>3, <1>4, <1>5 DEF Chunk

-----------------------------------------------------------------------------
(* The Run goroutine.                                                       *)

(* No pull prepares a download that has been started.                       *)
LEMMA StartedAlone ==
    ASSUME IInv, NEW d \in Downloads, download[d].run # "new", NEW u \in Pulls
    PROVE  ~(pull[u].pc \in {"head", "newPart"} /\ pull[u].d = d)
BY DEF IInv, Prepared, Preparing

(* A step of Run that leaves r of the download d.                           *)
LEMMA RunStepTyped ==
    ASSUME Typed, IInv, Rest', Files', NEW d \in Downloads, NEW r \in DownloadRecord,
           download[d].run # "new", download' = [download EXCEPT ![d] = r], pull' = pull,
           DownloadFine(r)
    PROVE  Typed'
<1>1. \A u \in Pulls : ~(pull[u].pc \in {"head", "newPart"} /\ pull[u].d = d)
  BY StartedAlone
<1> QED
  BY <1>1, DownloadTyped

LEMMA RunTypes ==
    ASSUME Typed, NEW d \in Downloads
    PROVE  /\ download \in [Downloads -> DownloadRecord] /\ download[d] \in DownloadRecord
           /\ DownloadFine(download[d]) /\ Rest /\ Files
           /\ download[d].part \in [Parts -> PartRecord] /\ download[d].removed \in Nat
           /\ download[d].total \in 0 .. BlobSize /\ download[d].parts \in SUBSET Parts
           /\ download[d].err \in {"none", "canceled", "failed"}
           /\ download[d].cancel \in {"nil", "set", "called"}
           /\ download[d].done \in {"nil", "open", "closed"}
BY TypedParts, PartsInterval DEF DownloadRecord, PartRecord

(* A record that differs from that of d in what run, err, CancelFunc and done
   hold, and in nothing else that DownloadFine is about.                    *)
LEMMA RunBecomes ==
    ASSUME Typed, NEW d \in Downloads, NEW r \in DownloadRecord,
           r.run \in {"direct", "delete", "rename", "close", "over"},
           r.run = "direct" => download[d].run = "open",
           r.part = download[d].part, r.removed = download[d].removed
    PROVE  DownloadFine(r)
<1>1. DownloadFine(download[d])
  BY RunTypes
<1> QED
  BY <1>1 DEF DownloadFine

LEMMA RunOpenTyped ==
    ASSUME Typed, IInv, NEW d \in Downloads, RunOpen(d)
    PROVE  Typed'
<1> DEFINE r == [download[d] EXCEPT !.run = "direct", !.cancel = "set"]
<1>1. /\ download[d] \in DownloadRecord /\ Rest /\ Files
      /\ download[d].total \in 0 .. BlobSize
  BY RunTypes
<1>2. download[d].run = "open"
  BY DEF RunOpen
<1>3. /\ r \in DownloadRecord /\ r.run = "direct"
      /\ r.part = download[d].part /\ r.removed = download[d].removed
  BY <1>1 DEF DownloadRecord
<1>4. download' = [download EXCEPT ![d] = r] /\ pull' = pull
  BY DEF RunOpen
<1> HIDE DEF r
<1>5. DownloadFine(r)
  BY <1>2, <1>3, RunBecomes
<1>6. Files'
  BY <1>1, TruncateFacts DEF RunOpen, Files
<1>7. Rest'
  BY <1>1 DEF RunOpen, Rest
<1> QED
  BY <1>2, <1>3, <1>4, <1>5, <1>6, <1>7, RunStepTyped

LEMMA RunReturnsTyped ==
    ASSUME Typed, IInv, Rest', Files', NEW d \in Downloads, download[d].run # "new",
           NEW err \in {"none", "canceled", "failed"}, RunReturns(d, err), pull' = pull
    PROVE  Typed'
<1> DEFINE r == [download[d] EXCEPT !.run = "delete", !.err = err]
<1>1. download[d] \in DownloadRecord
  BY RunTypes
<1>2. /\ r \in DownloadRecord /\ r.run = "delete"
      /\ r.part = download[d].part /\ r.removed = download[d].removed
  BY <1>1 DEF DownloadRecord
<1>3. download' = [download EXCEPT ![d] = r]
  BY DEF RunReturns
<1> HIDE DEF r
<1>4. DownloadFine(r)
  BY <1>2, RunBecomes
<1> QED
  BY <1>2, <1>3, <1>4, RunStepTyped

(* Every part is given an end or a copy to make.                            *)
Launched(d) ==
    [i \in Parts |-> IF i \in download[d].parts /\ download[d].part[i].completed # Size(i)
                     THEN [download[d].part[i] EXCEPT !.pc = "copy"]
                     ELSE [download[d].part[i] EXCEPT !.pc = "end"]]

LEMMA LaunchedParts ==
    ASSUME Typed, NEW d \in Downloads, download[d].run = "direct"
    PROVE  /\ Launched(d) \in [Parts -> PartRecord]
           /\ \A i \in Parts : /\ PartFine(Launched(d)[i], i)
                               /\ Launched(d)[i].completed = download[d].part[i].completed
                               /\ Launched(d)[i].pc \in {"copy", "end"}
                               /\ Launched(d)[i].pc = "end" =>
                                    i \notin download[d].parts \/ Launched(d)[i].completed = Size(i)
<1> DEFINE moved(i, pc) == [download[d].part[i] EXCEPT !.pc = pc]
<1>1. ASSUME NEW i \in Parts, NEW pc \in {"copy", "end"}
      PROVE  /\ moved(i, pc) \in PartRecord /\ PartFine(moved(i, pc), i)
             /\ moved(i, pc).completed = download[d].part[i].completed /\ moved(i, pc).pc = pc
  <2>1. /\ download[d].part[i] \in PartRecord /\ PartFine(download[d].part[i], i)
        /\ download[d].part[i].tries = 0
    BY RunTypes DEF DownloadFine
  <2> DEFINE m == moved(i, pc)
  <2>2. /\ m \in PartRecord /\ m.completed = download[d].part[i].completed /\ m.pc = pc
        /\ m.tries = 0
    BY <2>1 DEF PartRecord
  <2> HIDE DEF m
  <2>3. PartFine(m, i)
    BY <2>1, <2>2, RetryAssumption DEF PartFine
  <2> QED
    BY <2>2, <2>3 DEF m
<1>2. \A i \in Parts : Launched(d)[i] =
         IF i \in download[d].parts /\ download[d].part[i].completed # Size(i)
         THEN moved(i, "copy") ELSE moved(i, "end")
  BY DEF Launched
<1>3. Launched(d) = [i \in Parts |-> Launched(d)[i]]
  BY DEF Launched
<1> HIDE DEF moved
<1>4. \A i \in Parts : /\ Launched(d)[i] \in PartRecord /\ PartFine(Launched(d)[i], i)
                       /\ Launched(d)[i].completed = download[d].part[i].completed
                       /\ Launched(d)[i].pc \in {"copy", "end"}
                       /\ Launched(d)[i].pc = "end" =>
                            i \notin download[d].parts \/ Launched(d)[i].completed = Size(i)
  BY <1>1, <1>2
<1>5. Launched(d) \in [Parts -> PartRecord]
  BY <1>3, <1>4
<1> QED
  BY <1>4, <1>5

(* What starts the parts, and what waits for them.                          *)
LEMMA PartsBecome ==
    ASSUME Typed, NEW d \in Downloads, NEW run \in {"parts", "delete", "remove"},
           NEW part \in [Parts -> PartRecord], \A i \in Parts : PartFine(part[i], i),
           run = "parts" => download[d].run = "direct"
    PROVE  LET r == [download[d] EXCEPT !.run = run, !.part = part] IN
             /\ r \in DownloadRecord /\ DownloadFine(r) /\ r.run = run /\ r.part = part
             /\ r.parts = download[d].parts /\ r.total = download[d].total
             /\ r.removed = download[d].removed
<1> DEFINE r == [download[d] EXCEPT !.run = run, !.part = part]
<1>1. download[d] \in DownloadRecord /\ DownloadFine(download[d])
  BY RunTypes
<1>2. /\ r.run = run /\ r.part = part /\ r.removed = download[d].removed
      /\ r.parts = download[d].parts /\ r.total = download[d].total
  BY <1>1 DEF DownloadRecord
<1>3. r \in DownloadRecord
  BY <1>1 DEF DownloadRecord, PartRecord
<1> HIDE DEF r
<1>4. DownloadFine(r)
  BY <1>1, <1>2 DEF DownloadFine
<1> QED
  BY <1>2, <1>3, <1>4 DEF r

(* The parts are launched.                                                  *)
Launch(d) == download' = [download EXCEPT ![d] =
                            [download[d] EXCEPT !.run = "parts", !.part = Launched(d)]]

LEMMA RunDirectSteps ==
    ASSUME Typed, NEW d \in Downloads, RunDirect(d)
    PROVE  RunReturns(d, "canceled") \/ RunReturns(d, "failed") \/ Launch(d)
BY DEF RunDirect, Launch, Launched

LEMMA RunDirectTyped ==
    ASSUME Typed, IInv, NEW d \in Downloads, RunDirect(d)
    PROVE  Typed'
<1>1. download[d].run = "direct" /\ pull' = pull /\ Files'
  BY FilesSame DEF RunDirect, disk
<1>2. Rest'
  BY RunTypes, FaultTyped DEF RunDirect, Rest, disk
<1>3. CASE RunReturns(d, "canceled") \/ RunReturns(d, "failed")
  BY <1>1, <1>2, <1>3, RunReturnsTyped
<1>4. CASE Launch(d)
  <2> DEFINE r == [download[d] EXCEPT !.run = "parts", !.part = Launched(d)]
  <2>1. r \in DownloadRecord /\ DownloadFine(r)
    BY <1>1, LaunchedParts, PartsBecome
  <2>2. download' = [download EXCEPT ![d] = r]
    BY <1>4 DEF Launch
  <2> HIDE DEF r
  <2> QED
    BY <1>1, <1>2, <2>1, <2>2, RunStepTyped
<1> QED
  BY <1>3, <1>4, RunDirectSteps

NoParts == [i \in Parts |-> NoPart]

LEMMA NoPartsFine ==
    NoParts \in [Parts -> PartRecord] /\ \A i \in Parts : PartFine(NoParts[i], i)
<1>1. \A i \in Parts : 0 \in 0 .. PartSize /\ 0 <= Size(i)
  BY SizeAssumption, SizeBound
<1> QED
  BY <1>1, FreshPart DEF NoParts

LEMMA RunWaitTyped ==
    ASSUME Typed, IInv, NEW d \in Downloads, RunWait(d)
    PROVE  Typed'
<1> DEFINE run == IF GroupFailed(d) THEN "delete" ELSE "remove"
           r == [download[d] EXCEPT !.run = run, !.part = NoParts]
<1>1. download[d].run = "parts" /\ pull' = pull /\ Files' /\ Rest'
  BY FilesSame, RestSame DEF RunWait, disk
<1>2. r \in DownloadRecord /\ DownloadFine(r)
  BY NoPartsFine, PartsBecome
<1>3. download' = [download EXCEPT ![d] = r]
  BY DEF RunWait, NoParts
<1> HIDE DEF r
<1> QED
  BY <1>1, <1>2, <1>3, RunStepTyped

LEMMA RunRemoveTyped ==
    ASSUME Typed, IInv, NEW d \in Downloads, RunRemove(d)
    PROVE  Typed'
<1>1. download[d].run = "remove" /\ pull' = pull
  BY DEF RunRemove
<1>2. Rest' /\ Files'
  BY RunTypes DEF RunRemove, Rest, Files
<1>3. CASE /\ RemainsToRemove(d)
           /\ download' = [download EXCEPT ![d].removed = @ + 1]
  <2> DEFINE n == download[d].removed + 1
             r == [download[d] EXCEPT !.removed = n]
  <2>1. n \in 0 .. Cardinality(Parts)
    <3>1. IsFiniteSet(Parts) /\ download[d].parts \in SUBSET Parts /\ download[d].removed \in Nat
      BY RunTypes, PartsInterval
    <3>2. /\ Cardinality(download[d].parts) \in Nat /\ Cardinality(Parts) \in Nat
          /\ Cardinality(download[d].parts) <= Cardinality(Parts)
      BY <3>1, FS_Subset, FS_CardinalityType
    <3>3. download[d].removed < Cardinality(download[d].parts)
      BY <1>3 DEF RemainsToRemove
    <3> QED
      BY <3>1, <3>2, <3>3
  <2>2. download' = [download EXCEPT ![d] = r]
    BY <1>3
  <2> HIDE DEF n
  <2>3. r \in DownloadRecord /\ r.run = "remove" /\ r.part = download[d].part
    BY <1>1, <2>1, RunTypes, SMTT(30) DEF DownloadRecord
  <2> HIDE DEF r
  <2>4. DownloadFine(r)
    BY <2>3, RunTypes DEF DownloadFine
  <2> QED
    BY <1>1, <1>2, <2>2, <2>3, <2>4, RunStepTyped
<1>4. CASE download' = [download EXCEPT ![d].run = "rename"]
  <2> DEFINE r == [download[d] EXCEPT !.run = "rename"]
  <2>1. download[d] \in DownloadRecord
    BY RunTypes
  <2>2. /\ r \in DownloadRecord /\ r.run = "rename"
        /\ r.part = download[d].part /\ r.removed = download[d].removed
    BY <2>1 DEF DownloadRecord
  <2>3. download' = [download EXCEPT ![d] = r]
    BY <1>4
  <2> HIDE DEF r
  <2>5. DownloadFine(r)
    BY <2>2, RunBecomes
  <2> QED
    BY <1>1, <1>2, <2>2, <2>3, <2>5, RunStepTyped
<1> QED
  BY <1>3, <1>4 DEF RunRemove

LEMMA RunEndsTyped ==
    ASSUME Typed, IInv, NEW d \in Downloads, RunRename(d) \/ RunDelete(d) \/ RunClose(d)
    PROVE  Typed'
<1>1. CASE RunRename(d)
  <2>1. <<>> \in Content
    BY SizeAssumption DEF Content
  <2>2. Rest' /\ Files'
    BY <1>1, <2>1, RunTypes DEF RunRename, Rest, Files
  <2>3. download[d].run # "new" /\ RunReturns(d, "none") /\ pull' = pull
    BY <1>1 DEF RunRename
  <2> QED
    BY <2>2, <2>3, RunReturnsTyped
<1>2. CASE RunDelete(d)
  <2> DEFINE r == [download[d] EXCEPT !.run = "close"]
  <2>1. download[d] \in DownloadRecord
    BY RunTypes
  <2>2. /\ r \in DownloadRecord /\ r.run = "close"
        /\ r.part = download[d].part /\ r.removed = download[d].removed
    BY <2>1 DEF DownloadRecord
  <2>3. download' = [download EXCEPT ![d] = r] /\ pull' = pull /\ download[d].run # "new"
    BY <1>2 DEF RunDelete
  <2> HIDE DEF r
  <2>5. DownloadFine(r)
    BY <2>2, RunBecomes
  <2>4. Rest' /\ Files'
    BY <1>2, RunTypes DEF RunDelete, disk, Rest, Files
  <2> QED
    BY <2>2, <2>3, <2>4, <2>5, RunStepTyped
<1>3. CASE RunClose(d)
  <2> DEFINE r == [download[d] EXCEPT !.run = "over", !.done = "closed"]
  <2>1. download[d] \in DownloadRecord
    BY RunTypes
  <2>2. /\ r \in DownloadRecord /\ r.run = "over"
        /\ r.part = download[d].part /\ r.removed = download[d].removed
    BY <2>1 DEF DownloadRecord
  <2>3. download' = [download EXCEPT ![d] = r] /\ pull' = pull /\ download[d].run # "new"
    BY <1>3 DEF RunClose
  <2> HIDE DEF r
  <2>5. DownloadFine(r)
    BY <2>2, RunBecomes
  <2>4. Rest' /\ Files'
    BY <1>3, RunTypes DEF RunClose, disk, Rest, Files
  <2> QED
    BY <2>2, <2>3, <2>4, <2>5, RunStepTyped
<1> QED
  BY <1>1, <1>2, <1>3

(* Run gives up: its record then, whose CancelFunc is set.                  *)
Fails(d) ==
    [download[d] EXCEPT !.run = "delete", !.err = "failed",
                        !.cancel = IF download[d].cancel = "nil" THEN "set" ELSE download[d].cancel]

LEMMA FailsFacts ==
    ASSUME Typed, NEW d \in Downloads, RunFails(d)
    PROVE  /\ download' = [download EXCEPT ![d] = Fails(d)]
           /\ Fails(d) \in DownloadRecord /\ Fails(d).run = "delete"
           /\ Fails(d).part = download[d].part /\ Fails(d).removed = download[d].removed
           /\ download[d].run \in Running /\ download[d].run # "new"
           /\ UNCHANGED <<partial, partFile, saved, blob, manifest, blobDownloadManager, pull>>
<1> DEFINE k == IF download[d].cancel = "nil" THEN "set" ELSE download[d].cancel
           r == [download[d] EXCEPT !.run = "delete", !.err = "failed", !.cancel = k]
<1>1. download[d] \in DownloadRecord /\ k \in {"nil", "set", "called"}
  BY RunTypes
<1>2. /\ download' = [download EXCEPT ![d] = r] /\ Fails(d) = r
      /\ download[d].run \in Running /\ download[d].run # "new"
      /\ UNCHANGED <<partial, partFile, saved, blob, manifest, blobDownloadManager, pull>>
  BY DEF RunFails, Fails, Running, disk
<1> HIDE DEF k
<1>3. /\ r \in DownloadRecord /\ r.run = "delete"
      /\ r.part = download[d].part /\ r.removed = download[d].removed
  BY <1>1 DEF DownloadRecord
<1> QED
  BY <1>2, <1>3

LEMMA RunFailsTyped ==
    ASSUME Typed, IInv, NEW d \in Downloads, RunFails(d)
    PROVE  Typed'
<1>1. DownloadFine(Fails(d))
  BY FailsFacts, RunBecomes
<1>2. Rest' /\ Files'
  BY FailsFacts, FilesSame, RunTypes, FaultTyped DEF RunFails, Rest, disk
<1> QED
  BY <1>1, <1>2, FailsFacts, RunStepTyped

LEMMA RunTyped ==
    ASSUME Typed, IInv, NEW d \in Downloads, Run(d)
    PROVE  Typed'
BY RunOpenTyped, RunDirectTyped, RunWaitTyped, RunRemoveTyped, RunFailsTyped, RunEndsTyped DEF Run

(* The records that every process begins with.                              *)
LEMMA NewRecords ==
    /\ NewDownload \in DownloadRecord /\ DownloadFine(NewDownload)
    /\ [NewDownload EXCEPT !.run = "dead"] \in DownloadRecord
    /\ DownloadFine([NewDownload EXCEPT !.run = "dead"])
    /\ NewPull \in PullRecord /\ [NewPull EXCEPT !.pc = "over"] \in PullRecord
<1>1. /\ Cardinality(Pulls) \in Nat /\ Cardinality(Parts) \in Nat /\ BlobSize \in Nat
      /\ PartSize \in Nat /\ MaxRetries \in Nat
  BY PullsAssumption, PartsInterval, FS_CardinalityType, SizeAssumption, RetryAssumption
<1>2. NoParts \in [Parts -> PartRecord] /\ \A i \in Parts : PartFine(NoParts[i], i)
  BY NoPartsFine
<1>3. \A i \in Parts : NoParts[i].tries = 0
  BY DEF NoParts, NoPart
<1>4. NewDownload = [run |-> "new", cancel |-> "nil", references |-> 0, done |-> "nil",
                     err |-> "none", total |-> 0, parts |-> {}, removed |-> 0, part |-> NoParts]
  BY DEF NewDownload, NoParts
<1>5. NewDownload \in DownloadRecord
  BY <1>1, <1>2, <1>4 DEF DownloadRecord, PartRecord
<1>6. /\ [NewDownload EXCEPT !.run = "dead"] \in DownloadRecord
      /\ [NewDownload EXCEPT !.run = "dead"].run = "dead"
      /\ [NewDownload EXCEPT !.run = "dead"].part = NoParts
      /\ NewDownload.part = NoParts /\ NewDownload.removed = 0
  BY <1>4, <1>5 DEF DownloadRecord
<1>7. DownloadFine(NewDownload) /\ DownloadFine([NewDownload EXCEPT !.run = "dead"])
  BY <1>2, <1>3, <1>6 DEF DownloadFine
<1>8. NewPull \in PullRecord
  BY <1>1 DEF NewPull, PullRecord
<1>9. [NewPull EXCEPT !.pc = "over"] \in PullRecord
  BY <1>8 DEF PullRecord
<1> QED
  BY <1>5, <1>6, <1>7, <1>8, <1>9

LEMMA CrashTyped == ASSUME Typed, Crash PROVE Typed'
<1>0. /\ pull \in [Pulls -> PullRecord] /\ Rest /\ Files
      /\ \A u \in Pulls : PullFine(pull[u])
  BY TypedParts
<1> DEFINE dead == [NewDownload EXCEPT !.run = "dead"]
           gone == [NewPull EXCEPT !.pc = "over"]
<1>1. \A d \in Downloads : download'[d] \in {NewDownload, dead}
  BY DEF Crash
<1>2. download' = [d \in Downloads |-> download'[d]]
  BY DEF Crash
<1>3. \A u \in Pulls : pull'[u] = IF pull[u].pc = "start" THEN pull[u] ELSE gone
  BY DEF Crash
<1>4. pull' = [u \in Pulls |-> pull'[u]]
  BY DEF Crash
<1>5. gone.pc = "over"
  BY DEF NewPull
<1> HIDE DEF dead
<1>6. download' \in [Downloads -> DownloadRecord] /\ \A d \in Downloads : DownloadFine(download[d])'
  <2>1. \A d \in Downloads : download'[d] \in DownloadRecord /\ DownloadFine(download'[d])
    BY <1>1, NewRecords DEF dead
  <2> QED
    BY <1>2, <2>1 DEF DownloadFine, PartFine
<1>7. gone \in PullRecord
  BY NewRecords
<1> HIDE DEF gone
<1>8. pull' \in [Pulls -> PullRecord]
  BY <1>0, <1>3, <1>4, <1>7
<1>9. \A u \in Pulls : PullFine(pull[u])' /\ Created(u)'
  BY <1>0, <1>3, <1>5 DEF PullFine, Created
<1>10. Files'
  <2>1. <<>> \in Content
    BY SizeAssumption DEF Content
  <2> QED
    BY <1>0, <2>1 DEF Crash, Files
<1>11. Rest'
  <2>1. budget' \in BudgetRecord
    BY <1>0, BoundAssumption DEF Crash, Rest, BudgetRecord
  <2> QED
    BY <1>0, <2>1 DEF Crash, Rest
<1> QED
  BY <1>6, <1>8, <1>9, <1>10, <1>11
     DEF Typed, TypeOK, Rest, Files, BudgetRecord

LEMMA TypedStep == Typed /\ IInv /\ [Next]_vars => Typed'
<1> SUFFICES ASSUME Typed, IInv, [Next]_vars PROVE Typed'
  OBVIOUS
<1>1. ASSUME NEW u \in Pulls, PullModel(u) \/ ReportBlocks(u) \/ ClientLeaves(u)
      PROVE  Typed'
  <2>1. CASE \/ Stat(u) \/ LoadOrStore(u) \/ WaitDone(u) \/ WaitCanceled(u)
             \/ ReportBlocks(u) \/ ClientLeaves(u) \/ VerifyHash(u)
    BY <2>1, PullMovesTyped
  <2>2. CASE VerifyAct(u) \/ WriteManifest(u) \/ PrepareFails(u)
    BY <2>2, PullEndsTyped
  <2>3. CASE Acquire(u) \/ Release(u) \/ GoRun(u)
    BY <2>3, ReferencesStepTyped
  <2>4. CASE PrepareRead(u) \/ PrepareReset(u) \/ PrepareHead(u) \/ NewPartFile(u)
    BY <2>4, PrepareReadTyped, PrepareResetTyped, PrepareHeadTyped, NewPartFileTyped
  <2> QED
    BY <1>1, <2>1, <2>2, <2>3, <2>4 DEF PullModel, Prepare, Wait
<1>2. ASSUME NEW d \in Downloads, RunGroup(d) PROVE Typed'
  BY <1>2, RunTyped, ChunkTyped DEF RunGroup
<1>3. CASE Crash
  BY <1>3, CrashTyped
<1>4. CASE UNCHANGED vars
  BY <1>4 DEF vars, Typed, TypeOK, DownloadFine, PartFine, PullFine, Created
<1> QED
  BY <1>1, <1>2, <1>3, <1>4 DEF Next

LEMMA TypedAlways == Spec => []Typed
<1>1. Init => Typed
  BY InitTyped
<1>2. Typed /\ IInv /\ [Next]_vars => Typed'
  BY TypedStep
<1> QED
  BY <1>1, <1>2, IInvAlways, PTL DEF Spec

(* Every variable has its type: no part outgrows its size through retries,  *)
(* no file the blob, and no reference is released twice.                    *)
THEOREM DownloadTypeCorrect == Spec => []TypeOK
<1>1. Typed => TypeOK
  BY DEF Typed
<1> QED
  BY <1>1, TypedAlways, PTL

-----------------------------------------------------------------------------
(* The layer of the data: what the part files, the download in the manager  *)
(* and the pulls know of the data file and the blob, unless a download was  *)
(* resumed with some part files missing.                                    *)

(* The first n bytes of part i are in the file f.                           *)
InFile(f, i, n) == \A b \in Section(i, 0, n) : b <= Len(f) /\ f[b] = "good"

(* Before the parts are through, the bytes counted are in the data file.    *)
Begun == {"new", "open", "direct", "parts"}

PartsInFile(d) == \A i \in Parts : InFile(partial, i, download[d].part[i].completed)

(* A part that is through, or will be once its part file is written, has    *)
(* all of its bytes.                                                        *)
Through(part, i) ==
    part.pc = "end" \/ (part.pc = "save" /\ part.then = "ok") => part.completed = Size(i)

KeptDownload(d) ==
    /\ blobDownloadManager = d /\ download[d].run \in Begun => PartsInFile(d)
    /\ download[d].run \in {"open", "direct", "parts"} =>
         download[d].parts = Parts /\ download[d].total = BlobSize
    /\ download[d].run \in {"direct", "parts"} => Len(partial) = BlobSize
    /\ download[d].run = "parts" /\ download[d].err = "none" =>
         \A i \in Parts : Through(download[d].part[i], i)
    /\ download[d].run \in {"remove", "rename"} => partial = Good /\ download[d].parts = Parts
    /\ download[d].run = "remove" =>
         \A i \in Parts : i < download[d].removed => partFile[i] = "absent"
    /\ download[d].run = "rename" => \A i \in Parts : partFile[i] = "absent"

KeptPull(u) ==
    /\ pull[u].read \in {None, Good}
    /\ pull[u].pc = "manifest" => blob = Good
    /\ pull[u].pc = "verified" /\ pull[u].read = Good => blob = Good
    /\ pull[u].pc = "go" =>
         download[pull[u].d].parts = Parts /\ download[pull[u].d].total = BlobSize

KeptFiles ==
    /\ \A i \in Parts : partFile[i] = "ok" => InFile(partial, i, saved[i])
    /\ blob \in {None, Good} /\ (manifest => blob = Good)

Kept ==
    ~torn => /\ KeptFiles
             /\ \A d \in Downloads : KeptDownload(d)
             /\ \A u \in Pulls : KeptPull(u)

LEMMA EmptyFine == ASSUME NEW f, NEW i PROVE InFile(f, i, 0)
BY DEF InFile, Section

LEMMA InitKept == Init => Kept
<1> SUFFICES ASSUME Init PROVE Kept
  OBVIOUS
<1> USE DEF Init
<1>1. KeptFiles
  BY DEF KeptFiles
<1>2. \A d \in Downloads : KeptDownload(d)
  BY PullsAssumption DEF KeptDownload, NewDownload
<1>3. \A u \in Pulls : KeptPull(u)
  BY DEF KeptPull, NewPull
<1> QED
  BY <1>1, <1>2, <1>3 DEF Kept

(* A download that the step does not touch, while the data file, the part   *)
(* files and the manager are the same.                                      *)
LEMMA SameDownload ==
    ASSUME NEW d \in Downloads, KeptDownload(d), download'[d] = download[d],
           partial' = partial, partFile' = partFile,
           blobDownloadManager' \in {blobDownloadManager, None}
    PROVE  KeptDownload(d)'
<1>1. blobDownloadManager' = d => blobDownloadManager = d
  BY PullsAssumption
<1> QED
  BY <1>1 DEF KeptDownload, PartsInFile

(* A download other than the one that prepares or runs keeps nothing.       *)
LEMMA OtherDownload ==
    ASSUME IInv, NEW d \in Downloads, blobDownloadManager = d,
           blobDownloadManager' \in {d, None},
           NEW e \in Downloads \ {d}, download'[e] = download[e]
    PROVE  KeptDownload(e)'
<1>1. blobDownloadManager' # e
  BY PullsAssumption
<1>2. download'[e].run \notin Running
  BY DEF IInv, Managed
<1> QED
  BY <1>1, <1>2 DEF KeptDownload, Running

LEMMA SamePull ==
    ASSUME NEW u \in Pulls, KeptPull(u), pull'[u] = pull[u], blob' \in {blob, Good},
           pull[u].pc = "go" => /\ download'[pull[u].d].parts = download[pull[u].d].parts
                                /\ download'[pull[u].d].total = download[pull[u].d].total
    PROVE  KeptPull(u)'
BY DEF KeptPull

(* A step of the pull u alone, which is then r.                             *)
LEMMA PullKept ==
    ASSUME Typed, Kept, NEW u \in Pulls, NEW r, pull' = [pull EXCEPT ![u] = r],
           UNCHANGED <<partial, partFile, saved, blob, download, torn>>,
           blobDownloadManager' \in {blobDownloadManager, None},
           ~torn => /\ manifest' => blob = Good
                    /\ r.read \in {None, Good}
                    /\ r.pc = "manifest" => blob = Good
                    /\ r.pc = "verified" /\ r.read = Good => blob = Good,
           r.pc # "go" \/ (pull[u].pc = "go" /\ r.d = pull[u].d)
    PROVE  Kept'
<1> SUFFICES ASSUME ~torn
             PROVE  /\ KeptFiles' /\ \A d \in Downloads : KeptDownload(d)'
                    /\ \A v \in Pulls : KeptPull(v)'
  BY DEF Kept
<1>1. KeptFiles /\ (\A d \in Downloads : KeptDownload(d)) /\ \A v \in Pulls : KeptPull(v)
  BY DEF Kept
<1>2. KeptFiles'
  BY <1>1 DEF KeptFiles
<1>3. \A d \in Downloads : KeptDownload(d)'
  BY <1>1, SameDownload
<1>4. \A v \in Pulls : pull'[v] = IF v = u THEN r ELSE pull[v]
  BY TypedParts
<1>5. KeptPull(u)'
  BY <1>1, <1>4 DEF KeptPull
<1>6. ASSUME NEW v \in Pulls \ {u} PROVE KeptPull(v)'
  BY <1>1, <1>4, <1>6, SamePull
<1> QED
  BY <1>2, <1>3, <1>5, <1>6

LEMMA ReturnKept ==
    ASSUME Typed, Kept, NEW u \in Pulls, NEW result, Return(u, result),
           UNCHANGED <<partial, partFile, saved, blob, download, torn>>,
           blobDownloadManager' \in {blobDownloadManager, None},
           ~torn => (manifest' => blob = Good)
    PROVE  Kept'
<1> DEFINE r == [NewPull EXCEPT !.pc = "over", !.result = result, !.gone = pull[u].gone]
<1>1. r.pc = "over" /\ r.read = None
  BY DEF NewPull
<1>2. pull' = [pull EXCEPT ![u] = r]
  BY DEF Return
<1> HIDE DEF r
<1> QED
  BY <1>1, <1>2, PullKept

(* A pull that moves on with what it has read.                              *)
LEMMA PullMovesKept ==
    ASSUME Typed, Kept, NEW u \in Pulls,
           \/ Stat(u) \/ WaitDone(u) \/ WaitCanceled(u) \/ ReportBlocks(u) \/ ClientLeaves(u)
           \/ VerifyHash(u)
    PROVE  Kept'
<1>0. /\ pull[u] \in PullRecord
      /\ UNCHANGED <<partial, partFile, saved, blob, download, torn, manifest, blobDownloadManager>>
  BY TypedParts
     DEF Stat, WaitDone, WaitCanceled, ReportBlocks, ClientLeaves, VerifyHash, disk
<1>1. ~torn => KeptPull(u) /\ blob \in {None, Good} /\ (manifest' => blob = Good)
  BY <1>0 DEF Kept, KeptFiles
<1>2. PICK r : /\ pull' = [pull EXCEPT ![u] = r]
               /\ r.read \in {pull[u].read, blob}
               /\ r.pc = "manifest" => pull[u].pc = "manifest" \/ blob # None
               /\ r.pc = "verified" =>
                    r.read = blob \/ (pull[u].pc = "verified" /\ r.read = pull[u].read)
               /\ r.pc = "go" => pull[u].pc = "go" /\ r.d = pull[u].d
  <2>1. CASE Stat(u)
    <3> DEFINE r == IF blob = None THEN [pull[u] EXCEPT !.pc = "join"]
                    ELSE [pull[u] EXCEPT !.pc = "manifest", !.cacheHit = TRUE]
    <3>1. /\ r.read = pull[u].read /\ r.pc \in {"join", "manifest"}
          /\ r.pc = "manifest" => blob # None
      BY <1>0 DEF PullRecord
    <3>2. pull' = [pull EXCEPT ![u] = r]
      BY <2>1 DEF Stat
    <3> HIDE DEF r
    <3> QED
      BY <3>1, <3>2
  <2>2. CASE WaitDone(u) \/ WaitCanceled(u)
    <3>1. PICK result : pull' = [pull EXCEPT ![u].pc = "release", ![u].result = result]
      BY <2>2 DEF WaitDone, WaitCanceled
    <3> DEFINE r == [pull[u] EXCEPT !.pc = "release", !.result = result]
    <3>2. r.read = pull[u].read /\ r.pc = "release"
      BY <1>0 DEF PullRecord
    <3>3. pull' = [pull EXCEPT ![u] = r]
      BY <3>1
    <3> HIDE DEF r
    <3> QED
      BY <3>2, <3>3
  <2>3. CASE ReportBlocks(u)
    <3> DEFINE r == [pull[u] EXCEPT !.pc = "blocked"]
    <3>1. r.read = pull[u].read /\ r.pc = "blocked"
      BY <1>0 DEF PullRecord
    <3>2. pull' = [pull EXCEPT ![u] = r]
      BY <2>3 DEF ReportBlocks
    <3> HIDE DEF r
    <3> QED
      BY <3>1, <3>2
  <2>4. CASE ClientLeaves(u)
    <3> DEFINE r == [pull[u] EXCEPT !.gone = TRUE]
    <3>1. r.read = pull[u].read /\ r.pc = pull[u].pc /\ r.d = pull[u].d
      BY <1>0 DEF PullRecord
    <3>2. pull' = [pull EXCEPT ![u] = r]
      BY <2>4 DEF ClientLeaves
    <3> HIDE DEF r
    <3> QED
      BY <3>1, <3>2
  <2>5. CASE VerifyHash(u)
    <3> DEFINE r == [pull[u] EXCEPT !.pc = "verified", !.read = blob]
    <3>1. r.read = blob /\ r.pc = "verified"
      BY <1>0 DEF PullRecord
    <3>2. pull' = [pull EXCEPT ![u] = r]
      BY <2>5 DEF VerifyHash
    <3> HIDE DEF r
    <3> QED
      BY <3>1, <3>2
  <2> QED
    BY <2>1, <2>2, <2>3, <2>4, <2>5
<1>3. ~torn => /\ manifest' => blob = Good
               /\ r.read \in {None, Good}
               /\ r.pc = "manifest" => blob = Good
               /\ r.pc = "verified" /\ r.read = Good => blob = Good
  BY <1>1, <1>2 DEF KeptPull
<1> QED
  BY <1>0, <1>2, <1>3, PullKept

LEMMA LoadOrStoreKept ==
    ASSUME Typed, Kept, IInv, NEW u \in Pulls, LoadOrStore(u)
    PROVE  Kept'
<1> SUFFICES ASSUME ~torn
             PROVE  /\ KeptFiles' /\ \A d \in Downloads : KeptDownload(d)'
                    /\ \A v \in Pulls : KeptPull(v)'
  BY DEF Kept, LoadOrStore
<1>1. KeptFiles /\ (\A d \in Downloads : KeptDownload(d)) /\ \A v \in Pulls : KeptPull(v)
  BY DEF Kept
<1>2. pull[u] \in PullRecord /\ pull \in [Pulls -> PullRecord]
  BY TypedParts
<1>3. /\ pull[u].pc = "join"
      /\ UNCHANGED <<partial, partFile, saved, blob, download, torn, manifest>>
  BY DEF LoadOrStore, disk
<1>4. KeptFiles'
  BY <1>1, <1>3 DEF KeptFiles
<1>5. ASSUME NEW d \in Downloads PROVE KeptDownload(d)'
  <2>1. CASE blobDownloadManager' = blobDownloadManager
    BY <1>1, <1>3, <2>1, SameDownload
  <2>2. CASE /\ blobDownloadManager = None /\ \E e \in Downloads : Unused(e)
             /\ blobDownloadManager' = CHOOSE e \in Downloads : Unused(e)
    <3>1. Unused(blobDownloadManager')
      BY <2>2
    <3>2. blobDownloadManager' = d => \A i \in Parts : download[d].part[i].completed = 0
      BY <3>1 DEF Unused, NewDownload, NoPart
    <3>3. blobDownloadManager' = d => PartsInFile(d)'
      BY <1>3, <3>2, EmptyFine DEF PartsInFile
    <3> QED
      BY <1>1, <1>3, <3>3 DEF KeptDownload
  <2> QED
    BY <2>1, <2>2 DEF LoadOrStore
<1>6. PICK r : pull' = [pull EXCEPT ![u] = r] /\ r.pc \in {"acquire", "prepare"}
               /\ r.read = pull[u].read
  <2>1. PICK pc, d : /\ pull' = [pull EXCEPT ![u].pc = pc, ![u].d = d]
                     /\ pc \in {"acquire", "prepare"}
    BY DEF LoadOrStore
  <2> DEFINE r == [pull[u] EXCEPT !.pc = pc, !.d = d]
  <2>2. r.pc \in {"acquire", "prepare"} /\ r.read = pull[u].read
    BY <1>2, <2>1 DEF PullRecord
  <2>3. pull' = [pull EXCEPT ![u] = r]
    BY <2>1
  <2> HIDE DEF r
  <2> QED
    BY <2>2, <2>3
<1>7. \A v \in Pulls : pull'[v] = IF v = u THEN r ELSE pull[v]
  BY <1>2, <1>6
<1>8. KeptPull(u)'
  BY <1>1, <1>6, <1>7 DEF KeptPull
<1>9. ASSUME NEW v \in Pulls \ {u} PROVE KeptPull(v)'
  BY <1>1, <1>3, <1>7, <1>9, SamePull
<1> QED
  BY <1>4, <1>5, <1>8, <1>9

(* Nothing is kept of a download that could not be prepared, and of its     *)
(* part files no more than before.                                          *)
LEMMA PrepareFailsKept ==
    ASSUME Typed, IInv, Kept, NEW u \in Pulls, PrepareFails(u)
    PROVE  Kept'
<1> SUFFICES ASSUME ~torn
             PROVE  /\ KeptFiles' /\ \A d \in Downloads : KeptDownload(d)'
                    /\ \A v \in Pulls : KeptPull(v)'
  BY DEF Kept, PrepareFails
<1>1. KeptFiles /\ \A v \in Pulls : KeptPull(v)
  BY DEF Kept
<1>2. /\ pull[u].pc \in Preparing /\ blobDownloadManager' = None
      /\ UNCHANGED <<partial, saved, blob, manifest, download>>
  BY DEF PrepareFails, Preparing
<1>3. PICK r : pull' = [pull EXCEPT ![u] = r] /\ r.pc = "over" /\ r.read = None
  <2>1. PICK result : Return(u, result)
    BY DEF PrepareFails
  <2> DEFINE r == [NewPull EXCEPT !.pc = "over", !.result = result, !.gone = pull[u].gone]
  <2>2. pull' = [pull EXCEPT ![u] = r] /\ r.pc = "over" /\ r.read = None
    BY <2>1 DEF Return, NewPull
  <2> QED
    BY <2>2
<1>4. \A v \in Pulls : pull'[v] = IF v = u THEN r ELSE pull[v]
  BY <1>3, TypedParts
<1>5. KeptFiles'
  <2>1. partFile \in [Parts -> {"absent", "corrupt", "ok"}]
    BY TypedParts DEF Files
  <2>2. \A i \in Parts : partFile'[i] = "ok" => partFile[i] = "ok"
    BY <2>1 DEF PrepareFails
  <2> QED
    BY <1>1, <1>2, <2>2 DEF KeptFiles
<1>6. ASSUME NEW d \in Downloads PROVE KeptDownload(d)'
  <2>1. download[d].run \notin Running
    BY <1>2 DEF IInv, Prepared, Managed, Running
  <2>2. blobDownloadManager' # d
    BY <1>2, PullsAssumption
  <2> QED
    BY <1>2, <2>1, <2>2 DEF KeptDownload, Running
<1>7. ASSUME NEW v \in Pulls PROVE KeptPull(v)'
  BY <1>1, <1>2, <1>3, <1>4 DEF KeptPull
<1> QED
  BY <1>5, <1>6, <1>7

LEMMA PullEndsKept ==
    ASSUME Typed, Kept, NEW u \in Pulls, VerifyAct(u) \/ WriteManifest(u)
    PROVE  Kept'
<1>0. /\ pull[u] \in PullRecord /\ UNCHANGED <<partial, partFile, saved, download, torn>>
      /\ blobDownloadManager' \in {blobDownloadManager, None}
  BY TypedParts DEF VerifyAct, WriteManifest
<1>1. ~torn => KeptPull(u) /\ (manifest => blob = Good)
  BY DEF Kept, KeptFiles
<1>2. CASE torn
  BY <1>0, <1>2 DEF Kept
<1>3. CASE VerifyAct(u) /\ ~torn
  <2>1. pull[u].pc = "verified" /\ manifest' = manifest
    BY <1>3 DEF VerifyAct
  <2>2. CASE pull[u].read = Good /\ pull' = [pull EXCEPT ![u].pc = "manifest"] /\ blob' = blob
    <3> DEFINE r == [pull[u] EXCEPT !.pc = "manifest"]
    <3>1. r.pc = "manifest" /\ r.read = pull[u].read
      BY <1>0 DEF PullRecord
    <3>2. pull' = [pull EXCEPT ![u] = r]
      BY <2>2
    <3>3. blob = Good
      BY <1>1, <1>3, <2>1, <2>2 DEF KeptPull
    <3> HIDE DEF r
    <3> QED
      BY <1>0, <1>1, <1>3, <2>1, <2>2, <3>1, <3>2, <3>3, PullKept
  <2>3. CASE Return(u, "failed") /\ blob' = blob
    BY <1>0, <1>1, <1>3, <2>1, <2>3, ReturnKept
  <2> QED
    BY <1>1, <1>3, <2>2, <2>3 DEF VerifyAct, KeptPull
<1>4. CASE WriteManifest(u) /\ ~torn
  <2>1. pull[u].pc = "manifest" /\ blob' = blob /\ Return(u, "success")
    BY <1>4 DEF WriteManifest
  <2>2. blob = Good
    BY <1>1, <1>4, <2>1 DEF KeptPull
  <2> QED
    BY <1>0, <2>1, <2>2, ReturnKept
<1> QED
  BY <1>2, <1>3, <1>4

-----------------------------------------------------------------------------
(* References, and the start of Run.                                        *)

LEMMA ReferencesKept ==
    ASSUME Typed, IInv, Kept, NEW u \in Pulls, Acquire(u) \/ Release(u)
    PROVE  Kept'
<1> DEFINE d == pull[u].d
<1> SUFFICES ASSUME ~torn
             PROVE  /\ KeptFiles' /\ \A e \in Downloads : KeptDownload(e)'
                    /\ \A v \in Pulls : KeptPull(v)'
  BY DEF Kept, Acquire, Release
<1>1. KeptFiles /\ (\A e \in Downloads : KeptDownload(e)) /\ \A v \in Pulls : KeptPull(v)
  BY DEF Kept
<1>2. /\ pull[u] \in PullRecord /\ pull \in [Pulls -> PullRecord]
      /\ download \in [Downloads -> DownloadRecord] /\ d \in Downloads
  BY TypedParts DEF Acquire, Release, IInv, Placed
<1>3. UNCHANGED <<partial, partFile, saved, blob, torn, manifest, blobDownloadManager>>
  BY DEF Acquire, Release, disk
<1>4. KeptFiles'
  BY <1>1, <1>3 DEF KeptFiles
<1>5. \A e : /\ download'[e].run = download[e].run /\ download'[e].part = download[e].part
             /\ download'[e].parts = download[e].parts /\ download'[e].total = download[e].total
             /\ download'[e].err = download[e].err /\ download'[e].removed = download[e].removed
  <2>1. \E n, k : download' = [download EXCEPT ![d] =
                                 [download[d] EXCEPT !.references = n, !.cancel = k]]
    <3>1. CASE Acquire(u)
      <4>1. download[d] \in DownloadRecord
        BY <1>2
      <4>2. [download[d] EXCEPT !.references = download[d].references + 1]
              = [download[d] EXCEPT !.references = download[d].references + 1,
                                    !.cancel = download[d].cancel]
        BY <4>1 DEF DownloadRecord
      <4>3. download' = [download EXCEPT ![d] =
                   [download[d] EXCEPT !.references = download[d].references + 1]]
        BY <3>1 DEF Acquire
      <4> QED
        BY <4>2, <4>3
    <3>2. CASE Release(u)
      BY <3>2 DEF Release
    <3> QED
      BY <3>1, <3>2
  <2>2. PICK n, k : download' = [download EXCEPT ![d] =
                                   [download[d] EXCEPT !.references = n, !.cancel = k]]
    BY <2>1
  <2>3. download[d] \in DownloadRecord
    BY <1>2
  <2> DEFINE r == [download[d] EXCEPT !.references = n, !.cancel = k]
  <2>4. /\ r.run = download[d].run /\ r.part = download[d].part
        /\ r.parts = download[d].parts /\ r.total = download[d].total
        /\ r.err = download[d].err /\ r.removed = download[d].removed
    BY <2>3 DEF DownloadRecord
  <2>5. download' = [download EXCEPT ![d] = r]
    BY <2>2
  <2> HIDE DEF r, d
  <2>6. \A e \in Downloads : download'[e] = IF e = d THEN r ELSE download[e]
    BY <1>2, <2>5
  <2>7. \A e : e \notin Downloads => download'[e] = download[e]
    BY <1>2, <2>5
  <2> QED
    BY <2>4, <2>6, <2>7
<1>6. \A e \in Downloads : KeptDownload(e)'
  BY <1>1, <1>3, <1>5 DEF KeptDownload, PartsInFile
<1>7. PICK r : /\ pull' = [pull EXCEPT ![u] = r]
               /\ r.pc \in {"wait", "verify", "over"} /\ r.read \in {pull[u].read, None}
  <2>1. CASE Acquire(u)
    <3> DEFINE r == [pull[u] EXCEPT !.pc = "wait"]
    <3>1. r.pc = "wait" /\ r.read = pull[u].read
      BY <1>2 DEF PullRecord
    <3>2. pull' = [pull EXCEPT ![u] = r]
      BY <2>1 DEF Acquire
    <3> HIDE DEF r
    <3> QED
      BY <3>1, <3>2
  <2>2. CASE pull' = [pull EXCEPT ![u].pc = "verify", ![u].d = None]
    <3> DEFINE r == [pull[u] EXCEPT !.pc = "verify", !.d = None]
    <3>1. r.pc = "verify" /\ r.read = pull[u].read
      BY <1>2 DEF PullRecord
    <3>2. pull' = [pull EXCEPT ![u] = r]
      BY <2>2
    <3> HIDE DEF r
    <3> QED
      BY <3>1, <3>2
  <2>3. CASE Return(u, pull[u].result)
    <3> DEFINE r == [NewPull EXCEPT !.pc = "over", !.result = pull[u].result,
                                    !.gone = pull[u].gone]
    <3>1. r.pc = "over" /\ r.read = None
      BY DEF NewPull
    <3>2. pull' = [pull EXCEPT ![u] = r]
      BY <2>3 DEF Return
    <3> HIDE DEF r
    <3> QED
      BY <3>1, <3>2
  <2> QED
    BY <2>1, <2>2, <2>3 DEF Release
<1>8. \A v \in Pulls : pull'[v] = IF v = u THEN r ELSE pull[v]
  BY <1>2, <1>7
<1>9. KeptPull(u)'
  BY <1>1, <1>7, <1>8 DEF KeptPull
<1>10. ASSUME NEW v \in Pulls \ {u} PROVE KeptPull(v)'
  BY <1>1, <1>3, <1>5, <1>8, <1>10, SamePull
<1> QED
  BY <1>4, <1>6, <1>9, <1>10

(* A step of the pull that prepares, and of the download it prepares, that  *)
(* leaves the data file and the blob as they are.                           *)
LEMMA PreparesKept ==
    ASSUME Typed, IInv, Kept, ~torn, NEW u \in Pulls, pull[u].pc \in Preparing,
           NEW d \in Downloads, d = pull[u].d,
           NEW r, pull' = [pull EXCEPT ![u] = r], r.read = pull[u].read,
           r.pc \notin {"manifest", "verified"}, r.d = d,
           NEW b, download' = [download EXCEPT ![d] = b],
           UNCHANGED <<partial, blob, manifest, blobDownloadManager>>,
           \A i \in Parts : partFile'[i] = "ok" => InFile(partial, i, saved'[i]),
           KeptDownload(d)',
           r.pc = "go" => b.parts = Parts /\ b.total = BlobSize
    PROVE  Kept'
<1>1. KeptFiles /\ (\A e \in Downloads : KeptDownload(e)) /\ \A v \in Pulls : KeptPull(v)
  BY DEF Kept
<1>2. d \in Downloads /\ (\A v \in Pulls \ {u} : pull[v].pc \notin Preparing)
      /\ blobDownloadManager = d
  BY PreparesAlone DEF IInv, Prepared
<1>3. /\ pull \in [Pulls -> PullRecord] /\ download \in [Downloads -> DownloadRecord]
  BY TypedParts
<1>4. /\ \A v \in Pulls : pull'[v] = IF v = u THEN r ELSE pull[v]
      /\ \A e \in Downloads : download'[e] = IF e = d THEN b ELSE download[e]
  BY <1>3
<1>5. KeptFiles'
  BY <1>1 DEF KeptFiles
<1>6. ASSUME NEW e \in Downloads \ {d} PROVE KeptDownload(e)'
  BY <1>2, <1>4, <1>6, OtherDownload
<1>7. KeptDownload(d)'
  OBVIOUS
<1>8. KeptPull(u)'
  <2>1. KeptPull(u)
    BY <1>1
  <2> QED
    BY <1>2, <1>4, <2>1 DEF KeptPull
<1>9. ASSUME NEW v \in Pulls \ {u} PROVE KeptPull(v)'
  <2>1. pull[v].pc # "go"
    BY <1>2 DEF Preparing
  <2> QED
    BY <1>1, <1>4, <2>1, SamePull
<1> QED
  BY <1>5, <1>6, <1>7, <1>8, <1>9 DEF Kept

LEMMA GoRunKept ==
    ASSUME Typed, IInv, Kept, NEW u \in Pulls, GoRun(u)
    PROVE  Kept'
<1>0. PICK d \in Downloads : d = pull[u].d
  BY DEF GoRun, IInv, Placed, Preparing
<1> DEFINE r == [pull[u] EXCEPT !.pc = "acquire"]
           b == [download[d] EXCEPT !.run = "open"]
<1> SUFFICES ASSUME ~torn PROVE Kept'
  BY DEF Kept, GoRun
<1>1. KeptFiles /\ (\A e \in Downloads : KeptDownload(e)) /\ \A v \in Pulls : KeptPull(v)
  BY DEF Kept
<1>2. /\ pull[u].pc = "go" /\ pull[u].pc \in Preparing
      /\ pull' = [pull EXCEPT ![u] = r] /\ download' = [download EXCEPT ![d] = b]
      /\ UNCHANGED <<partial, partFile, saved, blob, manifest, blobDownloadManager>>
  BY <1>0 DEF GoRun, Preparing, disk
<1>3. /\ d \in Downloads /\ download[d] \in DownloadRecord /\ download[d].run = "new"
      /\ pull[u] \in PullRecord /\ blobDownloadManager = d
  BY <1>0, <1>2, PreparesAlone DEF IInv, Prepared
<1>4. /\ r.pc = "acquire" /\ r.read = pull[u].read /\ r.d = d
  BY <1>0, <1>3 DEF PullRecord
<1>5. /\ b.run = "open" /\ b.part = download[d].part /\ b.parts = download[d].parts
      /\ b.total = download[d].total
  BY <1>3 DEF DownloadRecord
<1>6. download[d].parts = Parts /\ download[d].total = BlobSize
  BY <1>0, <1>1, <1>2 DEF KeptPull
<1> HIDE DEF b, r
<1>7. download'[d] = b
  BY <1>2, <1>3, TypedParts
<1>8. PartsInFile(d)'
  <2>1. PartsInFile(d)
    BY <1>1, <1>3 DEF KeptDownload, Begun
  <2> QED
    BY <1>2, <1>5, <1>7, <2>1 DEF PartsInFile
<1>9. KeptDownload(d)'
  BY <1>5, <1>6, <1>7, <1>8 DEF KeptDownload
<1>10. \A i \in Parts : partFile'[i] = "ok" => InFile(partial, i, saved'[i])
  BY <1>1, <1>2 DEF KeptFiles
<1> QED
  BY <1>0, <1>2, <1>4, <1>9, <1>10, PreparesKept

-----------------------------------------------------------------------------
(* Prepare.                                                                 *)

(* What Prepare has read of the part files it has kept is on disk.          *)
LEMMA PrepareReadKept ==
    ASSUME Typed, IInv, Kept, NEW u \in Pulls, PrepareRead(u)
    PROVE  Kept'
<1>0. PICK d \in Downloads : d = pull[u].d
  BY DEF PrepareRead, IInv, Placed, Preparing
<1> DEFINE part == [i \in Parts |-> IF i \in Readable
                                    THEN [NoPart EXCEPT !.completed = saved[i]] ELSE NoPart]
           b == [download[d] EXCEPT !.done = "open", !.parts = Readable,
                                    !.total = SizeOf(Readable), !.part = part]
           pc == IF Readable = {} THEN "head" ELSE IF Readable # Present THEN "reset" ELSE "go"
           r == [pull[u] EXCEPT !.pc = pc]
<1> SUFFICES ASSUME ~torn' PROVE Kept'
  BY DEF Kept
<1>1. ~torn /\ ~(Present = Readable /\ Readable \notin {{}, Parts})
  BY DEF PrepareRead
<1>2. KeptFiles /\ (\A e \in Downloads : KeptDownload(e)) /\ \A v \in Pulls : KeptPull(v)
  BY <1>1 DEF Kept
<1>3. /\ pull[u].pc = "prepare" /\ pull[u].pc \in Preparing
      /\ UNCHANGED <<partial, saved, blob, manifest, blobDownloadManager>>
      /\ partFile' = [i \in Parts |-> IF i \in Readable THEN "ok" ELSE "absent"]
      /\ pull' = [pull EXCEPT ![u] = r] /\ download' = [download EXCEPT ![d] = b]
  BY <1>0 DEF PrepareRead, Preparing
<1>4. /\ d \in Downloads /\ download[d] \in DownloadRecord /\ download[d].run = "new"
      /\ pull[u] \in PullRecord
  BY <1>0, <1>3, PreparesAlone
<1>5. \A i \in Parts : InFile(partial, i, part[i].completed)
  <2> SUFFICES ASSUME NEW i \in Parts PROVE InFile(partial, i, part[i].completed)
    OBVIOUS
  <2>1. CASE i \in Readable
    <3>1. part[i].completed = saved[i]
      BY <2>1 DEF NoPart
    <3>2. partFile[i] = "ok"
      BY <2>1 DEF Readable
    <3> HIDE DEF part
    <3> QED
      BY <1>2, <3>1, <3>2 DEF KeptFiles
  <2>2. CASE i \notin Readable
    BY <2>2, EmptyFine DEF NoPart
  <2> QED
    BY <2>1, <2>2
<1> HIDE DEF part
<1>6. /\ b.run = "new" /\ b.part = part /\ b.parts = Readable /\ b.total = SizeOf(Readable)
  BY <1>4 DEF DownloadRecord
<1> HIDE DEF b
<1>7. download'[d] = b
  BY <1>3, <1>4, TypedParts
<1>8. PartsInFile(d)'
  BY <1>3, <1>5, <1>6, <1>7 DEF PartsInFile
<1>9. KeptDownload(d)'
  BY <1>6, <1>7, <1>8 DEF KeptDownload
<1>10. pc \in {"head", "reset", "go"} /\ (pc = "go" => Readable = Present /\ Readable # {})
  OBVIOUS
<1>11. pc = "go" => b.parts = Parts /\ b.total = BlobSize
  BY <1>1, <1>6, <1>10, SizeOfBound
<1> HIDE DEF pc
<1>12. r.pc = pc /\ r.read = pull[u].read /\ r.d = d
  BY <1>0, <1>4 DEF PullRecord
<1> HIDE DEF r
<1>13. \A i \in Parts : partFile'[i] = "ok" => InFile(partial, i, saved'[i])
  BY <1>2, <1>3 DEF KeptFiles, Readable
<1> QED
  BY <1>0, <1>1, <1>3, <1>9, <1>10, <1>11, <1>12, <1>13, PreparesKept

LEMMA PrepareResetKept ==
    ASSUME Typed, IInv, Kept, NEW u \in Pulls, PrepareReset(u)
    PROVE  Kept'
<1>0. PICK d \in Downloads : d = pull[u].d
  BY DEF PrepareReset, IInv, Placed, Preparing
<1> DEFINE b == [download[d] EXCEPT !.parts = {}, !.total = 0, !.part = NoParts]
           r == [pull[u] EXCEPT !.pc = "head"]
<1> SUFFICES ASSUME ~torn PROVE Kept'
  BY DEF Kept, PrepareReset
<1>1. /\ pull[u].pc \in Preparing
      /\ UNCHANGED <<partial, blob, manifest, blobDownloadManager>>
      /\ \A i \in Parts : partFile'[i] = "absent"
      /\ pull' = [pull EXCEPT ![u] = r] /\ download' = [download EXCEPT ![d] = b]
  BY <1>0 DEF PrepareReset, Preparing, NoParts
<1>2. /\ download[d] \in DownloadRecord /\ download[d].run = "new" /\ pull[u] \in PullRecord
  BY <1>0, <1>1, PreparesAlone
<1>3. b.run = "new" /\ b.part = NoParts
  BY <1>2 DEF DownloadRecord
<1>4. r.pc = "head" /\ r.read = pull[u].read /\ r.d = d
  BY <1>0, <1>2 DEF PullRecord
<1> HIDE DEF b, r
<1>5. download'[d] = b
  BY <1>1, TypedParts
<1>6. \A i \in Parts : NoParts[i].completed = 0
  BY DEF NoParts, NoPart
<1>7. PartsInFile(d)'
  BY <1>3, <1>5, <1>6, EmptyFine DEF PartsInFile
<1>8. KeptDownload(d)'
  BY <1>3, <1>5, <1>7 DEF KeptDownload
<1> QED
  BY <1>0, <1>1, <1>4, <1>8, PreparesKept

LEMMA PrepareHeadKept ==
    ASSUME Typed, IInv, Kept, NEW u \in Pulls, PrepareHead(u)
    PROVE  Kept'
<1>0. PICK d \in Downloads : d = pull[u].d
  BY DEF PrepareHead, IInv, Placed, Preparing
<1> DEFINE b == [download[d] EXCEPT !.total = BlobSize]
           r == [pull[u] EXCEPT !.pc = "newPart"]
<1> SUFFICES ASSUME ~torn PROVE Kept'
  BY DEF Kept, PrepareHead
<1>1. /\ pull[u].pc \in Preparing
      /\ UNCHANGED <<partial, partFile, saved, blob, manifest, blobDownloadManager>>
      /\ pull' = [pull EXCEPT ![u] = r] /\ download' = [download EXCEPT ![d] = b]
  BY <1>0 DEF PrepareHead, Preparing, disk
<1>2. /\ download[d] \in DownloadRecord /\ download[d].run = "new" /\ pull[u] \in PullRecord
      /\ blobDownloadManager = d
  BY <1>0, <1>1, PreparesAlone DEF IInv, Prepared
<1>3. b.run = "new" /\ b.part = download[d].part
  BY <1>2 DEF DownloadRecord
<1>4. r.pc = "newPart" /\ r.read = pull[u].read /\ r.d = d
  BY <1>0, <1>2 DEF PullRecord
<1> HIDE DEF b, r
<1>5. download'[d] = b
  BY <1>1, TypedParts
<1>6. PartsInFile(d) /\ KeptFiles
  BY <1>2 DEF Kept, KeptDownload, Begun
<1>7. PartsInFile(d)'
  BY <1>1, <1>3, <1>5, <1>6 DEF PartsInFile
<1>8. KeptDownload(d)'
  BY <1>3, <1>5, <1>7 DEF KeptDownload
<1>9. \A i \in Parts : partFile'[i] = "ok" => InFile(partial, i, saved'[i])
  BY <1>1, <1>6 DEF KeptFiles
<1> QED
  BY <1>0, <1>1, <1>4, <1>8, <1>9, PreparesKept

LEMMA NewPartFileKept ==
    ASSUME Typed, IInv, Kept, NEW u \in Pulls, NewPartFile(u)
    PROVE  Kept'
<1>0. PICK d \in Downloads : d = pull[u].d
  BY DEF NewPartFile, IInv, Placed, Preparing
<1>0a. PICK i \in Parts : i = pull[u].next
  BY TypedParts DEF NewPartFile, PullFine
<1> DEFINE b == [download[d] EXCEPT !.parts = download[d].parts \cup {i}]
           pc == IF i + 1 \in Parts THEN "newPart" ELSE "go"
           r == [pull[u] EXCEPT !.next = i + 1, !.pc = pc]
<1> SUFFICES ASSUME ~torn PROVE Kept'
  BY DEF Kept, NewPartFile
<1>1. /\ pull[u].pc = "newPart" /\ pull[u].pc \in Preparing
      /\ UNCHANGED <<partial, blob, manifest, blobDownloadManager>>
      /\ partFile' = [partFile EXCEPT ![i] = "ok"] /\ saved' = [saved EXCEPT ![i] = 0]
      /\ download' = [download EXCEPT ![d] = b]
  BY <1>0, <1>0a DEF NewPartFile, Preparing
<1>2. /\ download[d] \in DownloadRecord /\ download[d].run = "new" /\ pull[u] \in PullRecord
      /\ blobDownloadManager = d
  BY <1>0, <1>1, PreparesAlone DEF IInv, Prepared
<1>2a. pull' = [pull EXCEPT ![u] = r]
  BY <1>0a, <1>1, <1>2 DEF NewPartFile, PullRecord
<1>3. /\ b.run = "new" /\ b.part = download[d].part /\ b.total = download[d].total
      /\ b.parts = download[d].parts \cup {i}
  BY <1>2 DEF DownloadRecord
<1>4. pc \in {"newPart", "go"} /\ (pc = "go" => i + 1 \notin Parts)
  OBVIOUS
<1> HIDE DEF pc
<1>5. r.pc = pc /\ r.read = pull[u].read /\ r.d = d
  BY <1>0, <1>2 DEF PullRecord
<1> HIDE DEF b, r
<1>6. download'[d] = b
  BY <1>1, TypedParts
<1>7. PartsInFile(d) /\ KeptFiles
  BY <1>2 DEF Kept, KeptDownload, Begun
<1>8. PartsInFile(d)'
  BY <1>1, <1>3, <1>6, <1>7 DEF PartsInFile
<1>9. KeptDownload(d)'
  BY <1>3, <1>6, <1>8 DEF KeptDownload
<1>10. \A j \in Parts : partFile'[j] = "ok" => InFile(partial, j, saved'[j])
  <2>1. /\ saved \in [Parts -> 0 .. PartSize]
        /\ partFile \in [Parts -> {"absent", "corrupt", "ok"}]
    BY TypedParts DEF Files
  <2>2. saved'[i] = 0
    BY <1>1, <2>1
  <2>3. \A j \in Parts \ {i} : saved'[j] = saved[j] /\ partFile'[j] = partFile[j]
    BY <1>1, <2>1
  <2> QED
    BY <1>7, <2>2, <2>3, EmptyFine DEF KeptFiles
<1>11. pc = "go" => b.parts = Parts /\ b.total = BlobSize
  <2>1. download[d].parts = 0 .. (i - 1) /\ download[d].total = BlobSize
    BY <1>0, <1>0a, <1>1, TypedParts DEF Created
  <2>2. i \in Nat /\ LastPart \in Nat /\ i <= LastPart /\ Parts = 0 .. LastPart
    BY PartsInterval
  <2>3. i + 1 \notin Parts => i = LastPart
    BY <2>2
  <2>4. (0 .. (i - 1)) \cup {i} = 0 .. i
    BY <2>2
  <2> QED
    BY <1>3, <1>4, <2>1, <2>2, <2>3, <2>4
<1> QED
  BY <1>0, <1>1, <1>2a, <1>4, <1>5, <1>9, <1>10, <1>11, PreparesKept

-----------------------------------------------------------------------------
(* Run and its parts.                                                       *)

(* A step of the download that runs, which is then b.                       *)
LEMMA RunsKept ==
    ASSUME Typed, IInv, Kept, ~torn, NEW d \in Downloads, download[d].run \in Running,
           NEW b, download' = [download EXCEPT ![d] = b], pull' = pull, manifest' = manifest,
           blobDownloadManager' \in {blobDownloadManager, None}, blob' \in {blob, Good},
           \A i \in Parts : partFile'[i] = "ok" => InFile(partial', i, saved'[i]),
           KeptDownload(d)'
    PROVE  Kept'
<1>1. KeptFiles /\ (\A e \in Downloads : KeptDownload(e)) /\ \A v \in Pulls : KeptPull(v)
  BY DEF Kept
<1>2. /\ blobDownloadManager = d /\ blobDownloadManager' \in {d, None}
      /\ \A v \in Pulls : pull[v].pc # "go"
  BY PreparesAlone DEF IInv, Managed, Preparing
<1>3. \A e \in Downloads \ {d} : download'[e] = download[e]
  BY TypedParts
<1>4. KeptFiles'
  BY <1>1 DEF KeptFiles
<1>5. ASSUME NEW e \in Downloads \ {d} PROVE KeptDownload(e)'
  BY <1>2, <1>3, OtherDownload
<1>6. ASSUME NEW v \in Pulls PROVE KeptPull(v)'
  BY <1>1, <1>2, SamePull
<1> QED
  BY <1>4, <1>5, <1>6 DEF Kept

(* What is in the file stays there when all that was is kept.               *)
Grows == \A j \in Parts : \A k \in 0 .. Size(j) : InFile(partial, j, k) => InFile(partial', j, k)

LEMMA SavedGrows ==
    ASSUME Typed, KeptFiles, Grows
    PROVE  \A i \in Parts : partFile[i] = "ok" => InFile(partial', i, saved[i])
<1>1. \A i \in Parts : saved[i] \in 0 .. Size(i)
  BY TypedParts, SizeBound, SizeAssumption DEF Files
<1> QED
  BY <1>1 DEF KeptFiles, Grows

LEMMA PartsGrow ==
    ASSUME Typed, NEW d \in Downloads, PartsInFile(d), Grows
    PROVE  \A i \in Parts : InFile(partial', i, download[d].part[i].completed)
<1>1. \A i \in Parts : download[d].part[i].completed \in 0 .. Size(i)
  <2>1. ASSUME NEW i \in Parts PROVE download[d].part[i].completed \in 0 .. Size(i)
    <3>1. download[d].part[i] \in PartRecord /\ PartFine(download[d].part[i], i)
      BY RunTypes DEF DownloadFine
    <3> QED
      BY <3>1, SizeBound, SizeAssumption DEF PartRecord, PartFine
  <2> QED
    BY <2>1
<1> QED
  BY <1>1 DEF PartsInFile, Grows

LEMMA SameGrows == ASSUME partial' = partial PROVE Grows
BY DEF Grows

LEMMA WriteGrows ==
    ASSUME Typed, NEW i \in Parts, NEW from \in Nat, NEW n \in Nat, from + n <= Size(i),
           partial' = WriteAt(Section(i, from, n))
    PROVE  /\ Grows /\ Len(partial') >= Len(partial) /\ partial' \in Content
           /\ InFile(partial, i, from) => InFile(partial', i, from + n)
<1>1. partial \in Content
  BY TypedParts DEF Files
<1>2. /\ partial' \in Content /\ Len(partial') >= Len(partial)
      /\ \A j \in Parts : \A k \in 0 .. Size(j) : OnDisk(j, k) => OnDisk(j, k)'
      /\ OnDisk(i, from) => OnDisk(i, from + n)'
  BY <1>1, WriteKeeps
<1> QED
  BY <1>2 DEF OnDisk, InFile, Grows

LEMMA TruncateGrows ==
    ASSUME Typed, partial' = Truncate(BlobSize)
    PROVE  Grows /\ Len(partial') = BlobSize
<1>1. partial \in Content
  BY TypedParts DEF Files
<1>2. /\ Len(partial') = BlobSize
      /\ \A j \in Parts : \A k \in 0 .. Size(j) : OnDisk(j, k) => OnDisk(j, k)'
  BY <1>1, TruncateKeeps
<1> QED
  BY <1>2 DEF OnDisk, InFile, Grows

(* Part i of the download that runs becomes x, and the error e.             *)
LEMMA ChunkKeptBy ==
    ASSUME Typed, IInv, Kept, ~torn, NEW d \in Downloads, download[d].run = "parts",
           NEW i \in Parts, NEW x \in PartRecord, NEW e \in {"none", "canceled", "failed"},
           PartFine(x, i), Becomes(d, i, x, e),
           UNCHANGED <<blob, manifest, blobDownloadManager, pull, torn>>,
           Grows, Len(partial') = BlobSize, InFile(partial', i, x.completed),
           e = "none" => download[d].err = "none" /\ Through(x, i),
           \A j \in Parts : partFile'[j] = "ok" => InFile(partial', j, saved'[j])
    PROVE  Kept'
<1> DEFINE b == With(d, i, x, e)
<1>1. /\ b.run = "parts" /\ b.parts = download[d].parts /\ b.total = download[d].total
      /\ b.err = e
      /\ \A j \in Parts : b.part[j] = IF j = i THEN x ELSE download[d].part[j]
  BY WithFacts
<1>2. download' = [download EXCEPT ![d] = b]
  BY DEF Becomes
<1> HIDE DEF b
<1>3. download'[d] = b
  BY <1>2, TypedParts
<1>4. KeptDownload(d) /\ blobDownloadManager = d
  BY DEF Kept, IInv, Managed, Running
<1>5. \A j \in Parts : InFile(partial', j, download[d].part[j].completed)
  BY <1>4, PartsGrow DEF KeptDownload, Begun
<1>6. PartsInFile(d)'
  <2> SUFFICES ASSUME NEW j \in Parts PROVE InFile(partial', j, b.part[j].completed)
    BY <1>3 DEF PartsInFile
  <2> QED
    BY <1>1, <1>5
<1>7. e = "none" => \A j \in Parts : Through(b.part[j], j)
  BY <1>1, <1>4 DEF KeptDownload
<1>8. b.parts = Parts /\ b.total = BlobSize
  BY <1>1, <1>4 DEF KeptDownload
<1>9. KeptDownload(d)'
  BY <1>1, <1>3, <1>6, <1>7, <1>8 DEF KeptDownload, Through
<1> QED
  BY <1>2, <1>9, RunsKept DEF Running

(* A copy counts what it has written; a part file that is written claims    *)
(* what was counted.                                                        *)
LEMMA ChunkKept ==
    ASSUME Typed, IInv, Kept, NEW d \in Downloads, NEW i \in Parts, Chunk(d, i)
    PROVE  Kept'
<1> DEFINE part == download[d].part[i]
<1>1. /\ download[d].run = "parts" /\ part \in PartRecord /\ PartFine(part, i)
      /\ part.completed \in Nat /\ Size(i) \in Nat
      /\ download[d].err \in {"none", "canceled", "failed"}
      /\ UNCHANGED <<blob, manifest, blobDownloadManager, pull, torn>>
  BY ChunkFacts
<1> SUFFICES ASSUME ~torn PROVE Kept'
  BY <1>1 DEF Kept
<1>2. /\ KeptFiles /\ KeptDownload(d) /\ blobDownloadManager = d
  BY <1>1 DEF Kept, IInv, Managed, Running
<1>3. PartsInFile(d) /\ Len(partial) = BlobSize
  BY <1>1, <1>2 DEF KeptDownload, Begun
<1>4. InFile(partial, i, part.completed)
  BY <1>3 DEF PartsInFile
<1>5. /\ partFile \in [Parts -> {"absent", "corrupt", "ok"}]
      /\ saved \in [Parts -> 0 .. PartSize] /\ partial \in Content
  BY TypedParts DEF Files
<1>6. CASE Copy(d, i)
  <2>1. PICK x \in PartRecord, n \in Nat :
             /\ PartFine(x, i) /\ Becomes(d, i, x, download[d].err)
             /\ part.completed + n <= Size(i)
             /\ partial' = WriteAt(Section(i, part.completed, n))
             /\ \/ /\ x.pc = "retry" /\ x.completed = part.completed
                   /\ partFile' = partFile
                \/ /\ x.pc = "save" /\ x.completed = part.completed + n
                   /\ x.then = "ok" => x.completed = Size(i)
                   /\ partFile' = [partFile EXCEPT ![i] = "corrupt"]
             /\ saved' = saved
    BY <1>6, CopyEffect
  <2>2. /\ Grows /\ Len(partial') >= Len(partial) /\ partial' \in Content
        /\ InFile(partial', i, part.completed + n)
    BY <1>1, <1>4, <2>1, WriteGrows
  <2>3. Len(partial') = BlobSize
    <3>1. Len(partial') \in Nat /\ Len(partial') <= BlobSize /\ BlobSize \in Nat
      BY <2>2, SizeAssumption DEF Content
    <3> QED
      BY <1>3, <2>2, <3>1
  <2>4. InFile(partial', i, x.completed)
    <3>1. InFile(partial', i, part.completed)
      BY <1>3, <2>2, PartsGrow
    <3> QED
      BY <2>1, <2>2, <3>1
  <2>5. Through(x, i)
    BY <2>1 DEF Through
  <2>6. \A j \in Parts : partFile'[j] = "ok" => InFile(partial', j, saved'[j])
    <3>1. \A j \in Parts : partFile'[j] = "ok" => partFile[j] = "ok"
      BY <1>5, <2>1
    <3> QED
      BY <1>2, <2>1, <2>2, <3>1, SavedGrows
  <2> HIDE DEF part
  <2> QED
    BY <1>1, <2>1, <2>2, <2>3, <2>4, <2>5, <2>6, ChunkKeptBy
<1>7. CASE WritePart(d, i)
  <2>1. PICK x \in PartRecord, e \in {"none", "canceled", "failed"} :
             /\ PartFine(x, i) /\ Becomes(d, i, x, e)
             /\ x.completed = part.completed
             /\ e = "none" => download[d].err = "none"
             /\ x.pc = "end" /\ e = "none" => part.then = "ok"
             /\ x.pc \in {"end", "retry"}
             /\ \/ /\ partFile' = [partFile EXCEPT ![i] = "ok"]
                   /\ saved' = [saved EXCEPT ![i] = x.completed]
                \/ UNCHANGED <<partFile, saved>>
             /\ partial' = partial
    BY <1>7, WritePartEffect
  <2>2. Grows
    BY <2>1, SameGrows
  <2>3. part.pc = "save"
    BY <1>7 DEF WritePart
  <2>4. e = "none" => Through(x, i)
    <3>1. download[d].err = "none" => Through(part, i)
      BY <1>1, <1>2 DEF KeptDownload
    <3> QED
      BY <2>1, <2>3, <3>1 DEF Through
  <2>5. \A j \in Parts : partFile'[j] = "ok" => InFile(partial', j, saved'[j])
    <3>1. \A j \in Parts \ {i} : partFile'[j] = partFile[j] /\ saved'[j] = saved[j]
      BY <1>5, <2>1
    <3>2. saved'[i] = x.completed \/ (saved'[i] = saved[i] /\ partFile'[i] = partFile[i])
      BY <1>5, <2>1
    <3> QED
      BY <1>2, <1>4, <2>1, <3>1, <3>2 DEF KeptFiles
  <2>6. InFile(partial', i, x.completed)
    BY <1>4, <2>1
  <2> QED
    BY <1>1, <1>3, <2>1, <2>2, <2>4, <2>5, <2>6, ChunkKeptBy
<1>8. CASE Retry(d, i)
  <2>1. PICK x \in PartRecord, e \in {"none", "canceled", "failed"} :
             /\ PartFine(x, i) /\ Becomes(d, i, x, e)
             /\ x.completed = part.completed
             /\ e = "none" => download[d].err = "none"
             /\ x.pc = "end" => e # "none"
             /\ x.pc \in {"end", "copy"}
             /\ UNCHANGED <<partial, partFile, saved>>
    BY <1>8, RetryEffect
  <2>2. Grows /\ (e = "none" => Through(x, i))
    BY <2>1, SameGrows DEF Through
  <2>3. \A j \in Parts : partFile'[j] = "ok" => InFile(partial', j, saved'[j])
    BY <1>2, <2>1 DEF KeptFiles
  <2>4. InFile(partial', i, x.completed)
    BY <1>4, <2>1
  <2> QED
    BY <1>1, <1>3, <2>1, <2>2, <2>3, <2>4, ChunkKeptBy
<1> QED
  BY <1>6, <1>7, <1>8 DEF Chunk

(* The data file is given the size of the blob, and the parts are launched. *)
LEMMA RunOpenKept ==
    ASSUME Typed, IInv, Kept, NEW d \in Downloads, RunOpen(d)
    PROVE  Kept'
<1> DEFINE b == [download[d] EXCEPT !.run = "direct", !.cancel = "set"]
<1> SUFFICES ASSUME ~torn PROVE Kept'
  BY DEF Kept, RunOpen
<1>1. /\ download[d].run = "open" /\ partial' = Truncate(download[d].total)
      /\ download' = [download EXCEPT ![d] = b]
      /\ UNCHANGED <<partFile, saved, blob, manifest, blobDownloadManager, pull>>
  BY DEF RunOpen
<1>2. /\ KeptFiles /\ KeptDownload(d) /\ blobDownloadManager = d /\ download[d] \in DownloadRecord
  BY <1>1, RunTypes DEF Kept, IInv, Managed, Running
<1>3. /\ b.run = "direct" /\ b.part = download[d].part /\ b.parts = download[d].parts
      /\ b.total = download[d].total
  BY <1>2 DEF DownloadRecord
<1> HIDE DEF b
<1>4. download'[d] = b
  BY <1>1, TypedParts
<1>5. PartsInFile(d) /\ download[d].parts = Parts /\ download[d].total = BlobSize
  BY <1>1, <1>2 DEF KeptDownload, Begun
<1>6. Grows /\ Len(partial') = BlobSize
  BY <1>1, <1>5, TruncateGrows
<1>7. PartsInFile(d)'
  BY <1>3, <1>4, <1>5, <1>6, PartsGrow DEF PartsInFile
<1>8. KeptDownload(d)'
  BY <1>3, <1>4, <1>5, <1>6, <1>7 DEF KeptDownload
<1>9. \A i \in Parts : partFile'[i] = "ok" => InFile(partial', i, saved'[i])
  BY <1>1, <1>2, <1>6, SavedGrows
<1> QED
  BY <1>1, <1>8, <1>9, RunsKept DEF Running

(* Run has failed: nothing is kept of its download.                         *)
LEMMA RunGivesUpKept ==
    ASSUME Typed, IInv, Kept, ~torn, NEW d \in Downloads, download[d].run \in Running,
           NEW b, download' = [download EXCEPT ![d] = b], b.run = "delete",
           UNCHANGED <<partial, partFile, saved, blob, manifest, blobDownloadManager, pull>>
    PROVE  Kept'
<1>1. download'[d] = b
  BY TypedParts
<1>2. KeptDownload(d)'
  BY <1>1 DEF KeptDownload, Begun
<1>3. \A i \in Parts : partFile'[i] = "ok" => InFile(partial', i, saved'[i])
  BY DEF Kept, KeptFiles
<1> QED
  BY <1>2, <1>3, RunsKept

LEMMA RunReturnsKept ==
    ASSUME Typed, IInv, Kept, ~torn, NEW d \in Downloads, download[d].run \in Running,
           NEW err, RunReturns(d, err),
           UNCHANGED <<partial, partFile, saved, blob, manifest, blobDownloadManager, pull>>
    PROVE  Kept'
<1> DEFINE b == [download[d] EXCEPT !.run = "delete", !.err = err]
<1>1. download' = [download EXCEPT ![d] = b] /\ b.run = "delete"
  BY RunTypes DEF RunReturns, DownloadRecord
<1> HIDE DEF b
<1> QED
  BY <1>1, RunGivesUpKept

LEMMA RunFailsKept ==
    ASSUME Typed, IInv, Kept, NEW d \in Downloads, RunFails(d)
    PROVE  Kept'
<1> SUFFICES ASSUME ~torn PROVE Kept'
  BY DEF Kept, RunFails
<1> QED
  BY FailsFacts, RunGivesUpKept

LEMMA RunDirectKept ==
    ASSUME Typed, IInv, Kept, NEW d \in Downloads, RunDirect(d)
    PROVE  Kept'
<1> SUFFICES ASSUME ~torn PROVE Kept'
  BY DEF Kept, RunDirect
<1>1. /\ download[d].run = "direct" /\ download[d].run \in Running
      /\ UNCHANGED <<partial, partFile, saved, blob, manifest, blobDownloadManager, pull>>
  BY DEF RunDirect, disk, Running
<1>2. CASE RunReturns(d, "canceled") \/ RunReturns(d, "failed")
  BY <1>1, <1>2, RunReturnsKept
<1>3. CASE Launch(d)
  <2> DEFINE b == [download[d] EXCEPT !.run = "parts", !.part = Launched(d)]
  <2>1. /\ b.run = "parts" /\ b.part = Launched(d) /\ b.parts = download[d].parts
        /\ b.total = download[d].total
    <3>1. download[d] \in DownloadRecord
      BY RunTypes
    <3> QED
      BY <3>1 DEF DownloadRecord
  <2>2. download' = [download EXCEPT ![d] = b]
    BY <1>3 DEF Launch
  <2> HIDE DEF b
  <2>3. download'[d] = b
    BY <2>2, TypedParts
  <2>4. /\ KeptFiles /\ KeptDownload(d) /\ blobDownloadManager = d
    BY <1>1 DEF Kept, IInv, Managed
  <2>5. /\ PartsInFile(d) /\ download[d].parts = Parts /\ download[d].total = BlobSize
        /\ Len(partial) = BlobSize
    BY <1>1, <2>4 DEF KeptDownload, Begun
  <2>6. \A i \in Parts : /\ Launched(d)[i].completed = download[d].part[i].completed
                         /\ Through(Launched(d)[i], i)
    BY <1>1, <2>5, LaunchedParts DEF Through
  <2>7. PartsInFile(d)'
    BY <1>1, <2>1, <2>3, <2>5, <2>6 DEF PartsInFile
  <2>8. KeptDownload(d)'
    BY <1>1, <2>1, <2>3, <2>5, <2>6, <2>7 DEF KeptDownload
  <2>9. \A i \in Parts : partFile'[i] = "ok" => InFile(partial', i, saved'[i])
    BY <1>1, <2>4 DEF KeptFiles
  <2> QED
    BY <1>1, <2>2, <2>8, <2>9, RunsKept
<1> QED
  BY <1>2, <1>3, RunDirectSteps

(* When no part has failed, all are through, and the data file is the blob. *)
LEMMA RunWaitKept ==
    ASSUME Typed, IInv, Kept, NEW d \in Downloads, RunWait(d)
    PROVE  Kept'
<1> SUFFICES ASSUME ~torn PROVE Kept'
  BY DEF Kept, RunWait
<1> DEFINE run == IF GroupFailed(d) THEN "delete" ELSE "remove"
           b == [download[d] EXCEPT !.run = run, !.part = NoParts]
<1>1. /\ download[d].run = "parts" /\ download[d].run \in Running
      /\ \A i \in Parts : download[d].part[i].pc = "end"
      /\ UNCHANGED <<partial, partFile, saved, blob, manifest, blobDownloadManager, pull>>
      /\ download' = [download EXCEPT ![d] = b]
  BY DEF RunWait, disk, Running, NoParts
<1>2. b.run = run /\ b.parts = download[d].parts /\ b.removed = download[d].removed
  <2>1. download[d] \in DownloadRecord
    BY RunTypes
  <2> QED
    BY <2>1 DEF DownloadRecord
<1>3. run \in {"delete", "remove"} /\ (run = "remove" => download[d].err = "none")
  BY DEF GroupFailed
<1> HIDE DEF b, run
<1>4. download'[d] = b
  BY <1>1, TypedParts
<1>5. KeptFiles /\ KeptDownload(d) /\ blobDownloadManager = d
  BY <1>1 DEF Kept, IInv, Managed
<1>6. /\ PartsInFile(d) /\ download[d].parts = Parts /\ Len(partial) = BlobSize
      /\ download[d].removed = 0
  BY <1>1, <1>5, RunTypes DEF KeptDownload, Begun, DownloadFine
<1>7. ASSUME run = "remove" PROVE partial = Good
  <2>1. \A i \in Parts : InFile(partial, i, Size(i))
    BY <1>1, <1>3, <1>5, <1>6, <1>7 DEF KeptDownload, Through, PartsInFile
  <2>2. partial \in Content /\ \A i \in Parts : OnDisk(i, Size(i))
    BY <2>1, TypedParts DEF OnDisk, InFile, Files
  <2> QED
    BY <1>6, <2>2, AllPartsGood
<1>8. \A i \in Parts : ~(i < 0)
  BY PartsInterval
<1>9. KeptDownload(d)'
  BY <1>1, <1>2, <1>3, <1>4, <1>6, <1>7, <1>8 DEF KeptDownload, Begun
<1>10. \A i \in Parts : partFile'[i] = "ok" => InFile(partial', i, saved'[i])
  BY <1>1, <1>5 DEF KeptFiles
<1> QED
  BY <1>1, <1>9, <1>10, RunsKept

LEMMA RunRemoveKept ==
    ASSUME Typed, IInv, Kept, NEW d \in Downloads, RunRemove(d)
    PROVE  Kept'
<1> SUFFICES ASSUME ~torn PROVE Kept'
  BY DEF Kept, RunRemove
<1>1. /\ download[d].run = "remove" /\ download[d].run \in Running
      /\ UNCHANGED <<partial, saved, blob, manifest, blobDownloadManager, pull>>
  BY DEF RunRemove, Running
<1>2. KeptFiles /\ KeptDownload(d)
  BY DEF Kept
<1>3. /\ partial = Good /\ download[d].parts = Parts /\ download[d].removed \in Nat
      /\ \A i \in Parts : i < download[d].removed => partFile[i] = "absent"
      /\ partFile \in [Parts -> {"absent", "corrupt", "ok"}] /\ download[d] \in DownloadRecord
  BY <1>1, <1>2, RunTypes DEF KeptDownload, Files
<1>4. CASE /\ partFile' = [partFile EXCEPT ![download[d].removed] = "absent"]
           /\ download' = [download EXCEPT ![d].removed = @ + 1]
  <2> DEFINE n == download[d].removed
             b == [download[d] EXCEPT !.removed = n + 1]
  <2>1. b.run = "remove" /\ b.parts = Parts /\ b.removed = n + 1
    BY <1>1, <1>3 DEF DownloadRecord
  <2>2. download' = [download EXCEPT ![d] = b]
    BY <1>4
  <2> HIDE DEF b
  <2>3. download'[d] = b
    BY <2>2, TypedParts
  <2>4. \A i \in Parts : partFile'[i] = "ok" => partFile[i] = "ok"
    BY <1>3, <1>4
  <2>5. \A i \in Parts : i < n + 1 => partFile'[i] = "absent"
    <3> SUFFICES ASSUME NEW i \in Parts, i < n + 1 PROVE partFile'[i] = "absent"
      OBVIOUS
    <3>1. i < n \/ i = n
      BY <1>3, PartsInterval
    <3> HIDE DEF n
    <3>2. partFile' = [partFile EXCEPT ![n] = "absent"]
      BY <1>4 DEF n
    <3>3. i < n => partFile[i] = "absent"
      BY <1>3 DEF n
    <3> QED
      BY <1>3, <3>1, <3>2, <3>3
  <2> HIDE DEF n
  <2>6. KeptDownload(d)'
    BY <1>1, <1>3, <2>1, <2>3, <2>5 DEF KeptDownload, Begun
  <2>7. \A i \in Parts : partFile'[i] = "ok" => InFile(partial', i, saved'[i])
    BY <1>1, <1>2, <2>4 DEF KeptFiles
  <2> QED
    BY <1>1, <2>2, <2>6, <2>7, RunsKept
<1>5. CASE /\ ~RemainsToRemove(d) /\ partFile' = partFile
           /\ download' = [download EXCEPT ![d].run = "rename"]
  <2> DEFINE b == [download[d] EXCEPT !.run = "rename"]
  <2>1. b.run = "rename" /\ b.parts = Parts
    BY <1>3 DEF DownloadRecord
  <2>2. download' = [download EXCEPT ![d] = b]
    BY <1>5
  <2> HIDE DEF b
  <2>3. download'[d] = b
    BY <2>2, TypedParts
  <2>4. \A i \in Parts : partFile[i] = "absent"
    <3>1. ~(download[d].removed < LastPart + 1) /\ LastPart \in Nat
      BY <1>3, <1>5, PartsInterval DEF RemainsToRemove
    <3>2. \A i \in Parts : i \in Nat /\ i <= LastPart
      BY PartsInterval
    <3>3. \A i \in Parts : i < download[d].removed
      BY <1>3, <3>1, <3>2
    <3> QED
      BY <1>3, <3>3
  <2>5. KeptDownload(d)'
    BY <1>1, <1>3, <1>5, <2>1, <2>3, <2>4 DEF KeptDownload, Begun
  <2>6. \A i \in Parts : partFile'[i] = "ok" => InFile(partial', i, saved'[i])
    BY <1>1, <1>2, <1>5 DEF KeptFiles
  <2> QED
    BY <1>1, <2>2, <2>5, <2>6, RunsKept
<1> QED
  BY <1>4, <1>5 DEF RunRemove

(* The data file is whole when it is given the name of the blob, and no     *)
(* part file is left to claim bytes of it.                                  *)
LEMMA RunRenameKept ==
    ASSUME Typed, IInv, Kept, NEW d \in Downloads, RunRename(d)
    PROVE  Kept'
<1> SUFFICES ASSUME ~torn PROVE Kept'
  BY DEF Kept, RunRename
<1> DEFINE b == [download[d] EXCEPT !.run = "delete", !.err = "none"]
<1>1. /\ download[d].run = "rename" /\ download[d].run \in Running
      /\ blob' = partial /\ partial' = <<>>
      /\ UNCHANGED <<partFile, saved, manifest, blobDownloadManager, pull>>
      /\ download' = [download EXCEPT ![d] = b]
  BY DEF RunRename, RunReturns, Running
<1>2. KeptDownload(d) /\ download[d] \in DownloadRecord
  BY RunTypes DEF Kept
<1>3. b.run = "delete"
  BY <1>2 DEF DownloadRecord
<1> HIDE DEF b
<1>4. download'[d] = b
  BY <1>1, TypedParts
<1>5. blob' = Good /\ \A i \in Parts : partFile[i] = "absent"
  BY <1>1, <1>2 DEF KeptDownload
<1>6. KeptDownload(d)'
  BY <1>3, <1>4 DEF KeptDownload, Begun
<1>7. \A i \in Parts : partFile'[i] = "ok" => InFile(partial', i, saved'[i])
  BY <1>1, <1>5
<1> QED
  BY <1>1, <1>5, <1>6, <1>7, RunsKept

LEMMA RunEndsKept ==
    ASSUME Typed, IInv, Kept, NEW d \in Downloads, RunDelete(d) \/ RunClose(d)
    PROVE  Kept'
<1> SUFFICES ASSUME ~torn PROVE Kept'
  BY DEF Kept, RunDelete, RunClose
<1>1. KeptFiles /\ (\A e \in Downloads : KeptDownload(e)) /\ \A v \in Pulls : KeptPull(v)
  BY DEF Kept
<1>2. /\ UNCHANGED <<partial, partFile, saved, blob, manifest, pull>>
      /\ download[d].run # "new" /\ download[d] \in DownloadRecord
      /\ blobDownloadManager' \in {blobDownloadManager, None}
  BY RunTypes DEF RunDelete, RunClose, disk
<1>3. PICK b : /\ download' = [download EXCEPT ![d] = b] /\ b.run \in {"close", "over"}
  <2>1. CASE RunDelete(d)
    <3> DEFINE b == [download[d] EXCEPT !.run = "close"]
    <3>1. b.run = "close"
      BY <1>2 DEF DownloadRecord
    <3>2. download' = [download EXCEPT ![d] = b]
      BY <2>1 DEF RunDelete
    <3> HIDE DEF b
    <3> QED
      BY <3>1, <3>2
  <2>2. CASE RunClose(d)
    <3> DEFINE b == [download[d] EXCEPT !.run = "over", !.done = "closed"]
    <3>1. b.run = "over"
      BY <1>2 DEF DownloadRecord
    <3>2. download' = [download EXCEPT ![d] = b]
      BY <2>2 DEF RunClose
    <3> HIDE DEF b
    <3> QED
      BY <3>1, <3>2
  <2> QED
    BY <2>1, <2>2
<1>4. download'[d] = b /\ \A e \in Downloads \ {d} : download'[e] = download[e]
  BY <1>3, TypedParts
<1>5. KeptFiles'
  BY <1>1, <1>2 DEF KeptFiles
<1>6. KeptDownload(d)'
  BY <1>3, <1>4 DEF KeptDownload, Begun
<1>7. ASSUME NEW e \in Downloads \ {d} PROVE KeptDownload(e)'
  BY <1>1, <1>2, <1>4, <1>7, SameDownload
<1>8. ASSUME NEW v \in Pulls PROVE KeptPull(v)'
  <2>1. pull[v].pc = "go" => pull[v].d \in Downloads \ {d}
    BY <1>2 DEF IInv, Placed, Prepared, Preparing
  <2> QED
    BY <1>1, <1>2, <1>4, <2>1, SamePull
<1> QED
  BY <1>5, <1>6, <1>7, <1>8 DEF Kept

(* A crash loses the process, and part files with the data file: at the     *)
(* start, old part files are removed, and the data file only with them all. *)
LEMMA CrashKept == ASSUME Typed, Kept, Crash PROVE Kept'
<1> SUFFICES ASSUME ~torn PROVE Kept'
  BY DEF Kept, Crash
<1>1. KeptFiles /\ \A v \in Pulls : KeptPull(v)
  BY DEF Kept
<1>2. PICK old \in SUBSET Parts, oldData \in BOOLEAN, oldBlob \in BOOLEAN :
         /\ oldData => old = Parts
         /\ partFile' = [i \in Parts |-> IF i \in old THEN "absent" ELSE partFile[i]]
         /\ partial' = IF oldData THEN <<>> ELSE partial
         /\ blob' = IF oldBlob /\ ~manifest THEN None ELSE blob
  BY DEF Crash
<1>3. UNCHANGED <<saved, manifest>>
  BY DEF Crash
<1>4. KeptFiles'
  <2>1. \A i \in Parts : partFile'[i] = "ok" => InFile(partial', i, saved'[i])
    BY <1>1, <1>2, <1>3 DEF KeptFiles
  <2>2. blob' \in {None, Good} /\ (manifest' => blob' = Good)
    BY <1>1, <1>2, <1>3 DEF KeptFiles
  <2> QED
    BY <2>1, <2>2 DEF KeptFiles
<1>5. \A d \in Downloads : KeptDownload(d)'
  <2>1. \A d \in Downloads : download'[d].run \in {"new", "dead"}
    BY DEF Crash, NewDownload
  <2>2. blobDownloadManager' = None
    BY DEF Crash
  <2> QED
    BY <2>1, <2>2, PullsAssumption DEF KeptDownload
<1>6. \A u \in Pulls : KeptPull(u)'
  <2> SUFFICES ASSUME NEW u \in Pulls PROVE KeptPull(u)'
    OBVIOUS
  <2>1. pull'[u] = IF pull[u].pc = "start" THEN pull[u] ELSE [NewPull EXCEPT !.pc = "over"]
    BY DEF Crash
  <2>2. CASE pull[u].pc = "start"
    BY <1>1, <2>1, <2>2 DEF KeptPull
  <2>3. CASE pull[u].pc # "start"
    BY <2>1, <2>3 DEF KeptPull, NewPull
  <2> QED
    BY <2>2, <2>3
<1> QED
  BY <1>4, <1>5, <1>6 DEF Kept

LEMMA KeptStep == Typed /\ IInv /\ Kept /\ [Next]_vars => Kept'
<1> SUFFICES ASSUME Typed, IInv, Kept, [Next]_vars PROVE Kept'
  OBVIOUS
<1>1. ASSUME NEW u \in Pulls, PullModel(u) \/ ReportBlocks(u) \/ ClientLeaves(u)
      PROVE  Kept'
  <2>1. CASE \/ Stat(u) \/ WaitDone(u) \/ WaitCanceled(u) \/ ReportBlocks(u) \/ ClientLeaves(u)
             \/ VerifyHash(u)
    BY <2>1, PullMovesKept
  <2>2. CASE VerifyAct(u) \/ WriteManifest(u)
    BY <2>2, PullEndsKept
  <2>3. CASE Acquire(u) \/ Release(u) \/ GoRun(u) \/ LoadOrStore(u)
    BY <2>3, ReferencesKept, GoRunKept, LoadOrStoreKept
  <2>4. CASE \/ PrepareRead(u) \/ PrepareReset(u) \/ PrepareHead(u) \/ NewPartFile(u)
             \/ PrepareFails(u)
    BY <2>4, PrepareReadKept, PrepareResetKept, PrepareHeadKept, NewPartFileKept,
       PrepareFailsKept
  <2> QED
    BY <1>1, <2>1, <2>2, <2>3, <2>4 DEF PullModel, Prepare, Wait
<1>2. ASSUME NEW d \in Downloads, RunGroup(d) PROVE Kept'
  BY <1>2, RunOpenKept, RunDirectKept, RunWaitKept, RunRemoveKept, RunRenameKept, RunFailsKept,
     RunEndsKept, ChunkKept DEF RunGroup, Run
<1>3. CASE Crash
  BY <1>3, CrashKept
<1>4. CASE UNCHANGED vars
  BY <1>4 DEF vars, Kept, KeptFiles, KeptDownload, KeptPull, PartsInFile
<1> QED
  BY <1>1, <1>2, <1>3, <1>4 DEF Next

LEMMA KeptAlways == Spec => []Kept
<1>1. Init => Kept
  BY InitKept
<1>2. Typed /\ IInv /\ Kept /\ [Next]_vars => Kept'
  BY KeptStep
<1> QED
  BY <1>1, <1>2, TypedAlways, IInvAlways, PTL DEF Spec

(* A part file never claims bytes that the data file does not have, however *)
(* parts are copied, rolled back, retried and cancelled, and wherever the   *)
(* server crashes, unless a download was resumed with some part files       *)
(* missing.                                                                 *)
THEOREM PartFilesAreTrue == Spec => []SavedIsOnDisk
<1>1. Kept => SavedIsOnDisk
  BY DEF Kept, KeptFiles, SavedIsOnDisk, InFile
<1> QED
  BY <1>1, KeptAlways, PTL

(* With the same exception, whatever a pull verifies is whole or not there, *)
(* and a manifest is written only for a blob that is there: verifyBlob      *)
(* never finds what run has renamed wanting.                                *)
THEOREM BlobsAreWhole == Spec => []IntactUnlessTorn
<1>1. Kept => IntactUnlessTorn
  BY DEF Kept, KeptFiles, KeptPull, IntactUnlessTorn, ResumesCleanly
<1> QED
  BY <1>1, KeptAlways, PTL
=============================================================================
