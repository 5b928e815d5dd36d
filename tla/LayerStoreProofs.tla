-------------------------- MODULE LayerStoreProofs --------------------------
(* Proofs about LayerStore, for any number of clients, names and digests.   *)
EXTENDS LayerStore, TLAPS

USE NoneAssumption, OffersAssumption, BoundsAssumption

Typed ==
    /\ blob \in [Digests -> Files]
    /\ manifest \in [Names -> Manifests]
    /\ op \in [Clients -> Operation]
    /\ begun \in 0 .. MaxBegun
    /\ crashes \in 0 .. MaxCrashes
    /\ exposed \subseteq Digests

(* What an operation knows at each point of it.                             *)
Sound(o) ==
    /\ o.pc = "idle" => o = Idle
    /\ o.pc \in {"await", "verify", "discard"} => o.kind = "pull"
    /\ o.pc = "fetch" => o.kind \in {"pull", "create"}
    /\ o.pc \in {"fetch", "await", "verify", "write", "unlink"} => o.name \in Names
    /\ o.pc = "unlink" => o.kind = "delete"
    /\ o.pc \in {"write", "encode"} => o.kind \in {"pull", "create", "copy"}
    /\ o.pc \in {"await", "discard"} => o.at \in Digests
    /\ o.pc = "await" => o.at \in o.todo
    /\ o.from # None => o.kind = "copy"
    /\ o.kind = "copy" => o.pc \in {"write", "encode"} /\ o.old = {}
    /\ o.kind \in {"pull", "create"} => o.manifest.is = "whole"
    /\ o.kind = "pull" /\ o.pc \in {"fetch", "await"} =>
           o.todo \cup o.have = DigestsOf(o.manifest)
    /\ o.pc = "verify" => o.todo \subseteq o.have
    /\ o.kind = "create" /\ o.pc = "fetch" => o.todo \cup o.have = o.manifest.layers
    /\ o.kind = "pull" /\ o.pc \in {"verify", "write", "encode", "glob", "scan"} =>
           o.have = DigestsOf(o.manifest)
    /\ o.kind = "create" /\ o.pc \in {"write", "encode"} => o.have = DigestsOf(o.manifest)
    /\ o.kind = "pull" => o.old \cap o.have = {}

(* The history variable records every contention.                           *)
ContendedIsExposed == Contended \subseteq exposed

Kept(d) == blob[d] # "absent" \/ d \in exposed

(* What an operation is to write a manifest with is still there.            *)
WritersHave == \A c \in Clients : \A d \in Digests : Writes(op[c], d) => Kept(d)

(* A blob that an operation is to remove is named by no manifest that it    *)
(* has read, or that was not there when it began to read.                   *)
UnusedBy(o) ==
    \A d \in Digests : \A n \in Names :
        Scans(o, d) /\ n \notin o.names /\ d \in DigestsOf(manifest[n]) => d \in exposed

(* A blob whose content may be wrong is named by no manifest.               *)
UnwrittenBy(o) ==
    \A d \in Digests : \A n \in Names :
        Replaces(o, d) /\ d \in DigestsOf(manifest[n]) => d \in exposed

IInv ==
    /\ Typed
    /\ \A c \in Clients : Sound(op[c])
    /\ ContendedIsExposed
    /\ WritersHave
    /\ \A c \in Clients : UnusedBy(op[c]) /\ UnwrittenBy(op[c])
    /\ BlobsAreKept

(* A pull has a blob whose content may be wrong.                            *)
Pending(o, d) ==
    o.kind = "pull" /\ o.pc \in {"fetch", "await", "verify"} /\ d \in Unverified(o)

(* A download does not replace the blob of a pull, unless the blob was      *)
(* removed meanwhile.                                                       *)
Fresh ==
    /\ arriving \subseteq Digests
    /\ \A c \in Clients : \A d \in arriving : Pending(op[c], d) => d \in exposed

Recorded == exposed' = exposed \cup Contended'

-----------------------------------------------------------------------------
LEMMA DigestsOfType == ASSUME NEW m \in Manifests PROVE DigestsOf(m) \subseteq Digests
BY DEF DigestsOf, Manifests, Missing, Torn

LEMMA IdleIsFine ==
    /\ Idle \in Operation
    /\ Sound(Idle)
    /\ \A d \in Digests : ~Writes(Idle, d) /\ ~Scans(Idle, d) /\ ~Replaces(Idle, d)
BY DEF Idle, Operation, Sound, Writes, Scans, Replaces, Missing, Manifests, DigestsOf

LEMMA IInvInit == Init => IInv
<1> SUFFICES ASSUME Init PROVE IInv
  OBVIOUS
<1> USE DEF Init
<1>1. Typed
  BY IdleIsFine DEF Typed, Files, Manifests
<1>2. \A c \in Clients : op[c] = Idle
  OBVIOUS
<1>3. \A n \in Names : DigestsOf(manifest[n]) = {}
  BY DEF DigestsOf, Missing
<1>4. ContendedIsExposed
  BY <1>2, IdleIsFine DEF ContendedIsExposed, Contended
<1>5. WritersHave /\ BlobsAreKept
  BY <1>2, <1>3, IdleIsFine DEF WritersHave, BlobsAreKept
<1>6. \A c \in Clients : UnusedBy(op[c]) /\ UnwrittenBy(op[c])
  BY <1>3 DEF UnusedBy, UnwrittenBy
<1> QED
  BY <1>1, <1>2, <1>4, <1>5, <1>6, IdleIsFine DEF IInv

(* A step of one operation that changes no file.                            *)
LEMMA OwnStep ==
    ASSUME IInv, Recorded, NEW c \in Clients, NEW o \in Operation,
           op' = [op EXCEPT ![c] = o], blob' = blob, manifest' = manifest,
           begun' \in 0 .. MaxBegun, crashes' \in 0 .. MaxCrashes,
           Sound(o),
           \A d \in Digests : Writes(o, d) => Kept(d),
           UnusedBy(o), UnwrittenBy(o)
    PROVE  IInv'
<1> USE DEF IInv
<1>1. exposed \subseteq exposed' /\ Contended' \subseteq exposed' /\ exposed' \subseteq Digests
  BY DEF Recorded, Typed, Contended
<1>2. Typed'
  BY <1>1 DEF Typed
<1>3. \A x \in Clients : op'[x] = IF x = c THEN o ELSE op[x]
  BY DEF Typed
<1>4. \A x \in Clients : Sound(op[x])'
  BY <1>3 DEF Sound
<1>5. WritersHave'
  <2> SUFFICES ASSUME NEW x \in Clients, NEW d \in Digests, Writes(op[x], d)' PROVE Kept(d)'
    BY DEF WritersHave
  <2>1. Writes(op'[x], d)
    BY DEF Writes, Content
  <2>2. Kept(d)
    BY <1>3, <2>1 DEF WritersHave
  <2> QED
    BY <1>1, <2>2 DEF Kept
<1>6. \A x \in Clients : (UnusedBy(op[x]) /\ UnwrittenBy(op[x]))'
  <2> SUFFICES ASSUME NEW x \in Clients PROVE (UnusedBy(op[x]) /\ UnwrittenBy(op[x]))'
    OBVIOUS
  <2>1. UnusedBy(op'[x]) /\ UnwrittenBy(op'[x])
    BY <1>3
  <2> QED
    BY <1>1, <2>1 DEF UnusedBy, UnwrittenBy, Scans, Replaces
<1>7. BlobsAreKept'
  BY <1>1 DEF BlobsAreKept
<1> QED
  BY <1>1, <1>2, <1>4, <1>5, <1>6, <1>7 DEF ContendedIsExposed

LEMMA CacheHitInv ==
    ASSUME IInv, Recorded, NEW c \in Clients, NEW d \in Digests, CacheHit(c, d)
    PROVE  IInv'
<1> USE DEF CacheHit, Set
<1>1. op[c] \in Operation /\ Sound(op[c]) /\ UnwrittenBy(op[c]) /\ UnusedBy(op[c])
  BY DEF IInv, Typed
<1>2. op'[c] \in Operation
  BY <1>1 DEF IInv, Typed, Operation
<1>3. Sound(op'[c])
  BY <1>1, <1>2 DEF IInv, Typed, Operation, Sound
<1>4. \A e \in Digests : Writes(op'[c], e) => Kept(e)
  BY <1>1 DEF IInv, Typed, Sound, Writes, Content, Kept, WritersHave
<1>5. UnusedBy(op'[c]) /\ UnwrittenBy(op'[c])
  BY <1>1 DEF IInv, Typed, UnusedBy, UnwrittenBy, Scans, Replaces, Unverified
<1>6. op' = [op EXCEPT ![c] = op'[c]]
  BY DEF IInv, Typed
<1> QED
  BY <1>2, <1>3, <1>4, <1>5, <1>6, OwnStep DEF IInv, Typed


LEMMA AwaitInv ==
    ASSUME IInv, Recorded, NEW c \in Clients, NEW d \in Digests, Await(c, d)
    PROVE  IInv'
<1> USE DEF Await, Set
<1>1. op[c] \in Operation /\ Sound(op[c]) /\ UnwrittenBy(op[c]) /\ UnusedBy(op[c])
  BY DEF IInv, Typed
<1>2. op'[c] \in Operation
  BY <1>1 DEF IInv, Typed, Operation
<1>3. Sound(op'[c])
  BY <1>1, <1>2 DEF IInv, Typed, Operation, Sound
<1>4. \A e \in Digests : Writes(op'[c], e) => Kept(e)
  BY <1>1 DEF IInv, Typed, Sound, Writes, Content, Kept, WritersHave
<1>5. UnusedBy(op'[c]) /\ UnwrittenBy(op'[c])
  BY <1>1 DEF IInv, Typed, UnusedBy, UnwrittenBy, Scans, Replaces, Unverified, BlobsAreKept
<1>6. op' = [op EXCEPT ![c] = op'[c]]
  BY DEF IInv, Typed
<1> QED
  BY <1>2, <1>3, <1>4, <1>5, <1>6, OwnStep DEF IInv, Typed


LEMMA FetchedInv ==
    ASSUME IInv, Recorded, NEW c \in Clients, Fetched(c)
    PROVE  IInv'
<1> USE DEF Fetched, Set
<1>1. op[c] \in Operation /\ Sound(op[c]) /\ UnwrittenBy(op[c]) /\ UnusedBy(op[c])
  BY DEF IInv, Typed
<1>2. op'[c] \in Operation
  BY <1>1 DEF IInv, Typed, Operation
<1>3. Sound(op'[c])
  BY <1>1, <1>2 DEF IInv, Typed, Operation, Sound
<1>4. \A e \in Digests : Writes(op'[c], e) => Kept(e)
  BY <1>1 DEF IInv, Typed, Sound, Writes, Content, Kept, WritersHave
<1>5. UnusedBy(op'[c]) /\ UnwrittenBy(op'[c])
  BY <1>1 DEF IInv, Typed, UnusedBy, UnwrittenBy, Scans, Replaces, Unverified
<1>6. op' = [op EXCEPT ![c] = op'[c]]
  BY DEF IInv, Typed
<1> QED
  BY <1>2, <1>3, <1>4, <1>5, <1>6, OwnStep DEF IInv, Typed


LEMMA VerifiedInv ==
    ASSUME IInv, Recorded, NEW c \in Clients, Verified(c)
    PROVE  IInv'
<1> USE DEF Verified, Set
<1>1. op[c] \in Operation /\ Sound(op[c]) /\ UnwrittenBy(op[c]) /\ UnusedBy(op[c])
  BY DEF IInv, Typed
<1>2. op'[c] \in Operation
  BY <1>1 DEF IInv, Typed, Operation
<1>3. Sound(op'[c])
  BY <1>1, <1>2 DEF IInv, Typed, Operation, Sound
<1>4. \A e \in Digests : Writes(op'[c], e) => Kept(e)
  BY <1>1 DEF IInv, Typed, Sound, Writes, Content, Kept, WritersHave
<1>5. UnusedBy(op'[c]) /\ UnwrittenBy(op'[c])
  BY <1>1 DEF IInv, Typed, UnusedBy, UnwrittenBy, Scans, Replaces, Unverified
<1>6. op' = [op EXCEPT ![c] = op'[c]]
  BY DEF IInv, Typed
<1> QED
  BY <1>2, <1>3, <1>4, <1>5, <1>6, OwnStep DEF IInv, Typed


LEMMA GlobInv ==
    ASSUME IInv, Recorded, NEW c \in Clients, Glob(c)
    PROVE  IInv'
<1> USE DEF Glob, Set
<1>1. op[c] \in Operation /\ Sound(op[c]) /\ UnwrittenBy(op[c]) /\ UnusedBy(op[c])
  BY DEF IInv, Typed
<1>2. op'[c] \in Operation
  BY <1>1 DEF IInv, Typed, Operation
<1>3. Sound(op'[c])
  <2> DEFINE o == op[c]
             a == [o EXCEPT !.pc = "scan", !.names = {n \in Names : manifest[n].is # "missing"}]
  <2>1. op'[c] = a /\ o.pc = "glob"
    BY DEF IInv, Typed
  <2>2. /\ a.kind = o.kind /\ a.pc = "scan" /\ a.name = o.name /\ a.from = o.from
        /\ a.manifest = o.manifest /\ a.todo = o.todo /\ a.have = o.have /\ a.hits = o.hits
        /\ a.at = o.at /\ a.old = o.old
    BY <1>1 DEF Operation
  <2> HIDE DEF a
  <2>3. Sound(a)
    BY <1>1, <2>1, <2>2 DEF Sound
  <2> QED
    BY <2>1, <2>3
<1>4. \A e \in Digests : Writes(op'[c], e) => Kept(e)
  BY <1>1 DEF IInv, Typed, Sound, Writes, Content, Kept, WritersHave
<1>5. UnusedBy(op'[c]) /\ UnwrittenBy(op'[c])
  BY <1>1 DEF IInv, Typed, UnusedBy, UnwrittenBy, Scans, Replaces, Unverified, DigestsOf, Missing
<1>6. op' = [op EXCEPT ![c] = op'[c]]
  BY DEF IInv, Typed
<1> QED
  BY <1>2, <1>3, <1>4, <1>5, <1>6, OwnStep DEF IInv, Typed


(* An operation ends.                                                       *)
LEMMA IdleStep ==
    ASSUME IInv, Recorded, NEW c \in Clients, Set(c, Idle),
           UNCHANGED <<blob, manifest, begun, crashes>>
    PROVE  IInv'
<1>1. UnusedBy(Idle) /\ UnwrittenBy(Idle)
  BY IdleIsFine DEF UnusedBy, UnwrittenBy
<1>2. begun' \in 0 .. MaxBegun /\ crashes' \in 0 .. MaxCrashes
  BY DEF IInv, Typed
<1> QED
  BY <1>1, <1>2, IdleIsFine, OwnStep DEF Set

LEMMA EndInv ==
    ASSUME IInv, Recorded, NEW c \in Clients, Abort(c) \/ Removed(c)
    PROVE  IInv'
BY IdleStep DEF Abort, Removed

LEMMA VerifyGood ==
    ASSUME IInv, Recorded, NEW c \in Clients, NEW d \in Digests, Verify(c, d),
           Set(c, [op[c] EXCEPT !.todo = @ \ {d}])
    PROVE  IInv'
<1> USE DEF Verify, Set
<1>1. op[c] \in Operation /\ Sound(op[c]) /\ UnwrittenBy(op[c]) /\ UnusedBy(op[c])
  BY DEF IInv, Typed
<1>2. op'[c] \in Operation
  BY <1>1 DEF IInv, Typed, Operation
<1>3. Sound(op'[c])
  BY <1>1, <1>2 DEF IInv, Typed, Operation, Sound
<1>4. \A e \in Digests : Writes(op'[c], e) => Kept(e)
  BY <1>1 DEF IInv, Typed, Sound, Writes, Content, Kept, WritersHave
<1>5. UnusedBy(op'[c]) /\ UnwrittenBy(op'[c])
  BY <1>1 DEF IInv, Typed, UnusedBy, UnwrittenBy, Scans, Replaces, Unverified
<1>6. op' = [op EXCEPT ![c] = op'[c]]
  BY DEF IInv, Typed
<1> QED
  BY <1>2, <1>3, <1>4, <1>5, <1>6, OwnStep DEF IInv, Typed

LEMMA VerifyBad ==
    ASSUME IInv, Recorded, NEW c \in Clients, NEW d \in Digests, Verify(c, d),
           blob[d] = "bad", Set(c, [op[c] EXCEPT !.pc = "discard", !.at = d])
    PROVE  IInv'
<1> USE DEF Verify, Set
<1>1. op[c] \in Operation /\ Sound(op[c]) /\ UnwrittenBy(op[c]) /\ UnusedBy(op[c])
  BY DEF IInv, Typed
<1>2. op'[c] \in Operation
  BY <1>1 DEF IInv, Typed, Operation
<1>3. Sound(op'[c])
  BY <1>1, <1>2 DEF IInv, Typed, Operation, Sound
<1>4. \A e \in Digests : Writes(op'[c], e) => Kept(e)
  BY <1>1 DEF IInv, Typed, Sound, Writes, Content, Kept, WritersHave
<1>5. Replaces(op[c], d)
  BY <1>1 DEF Sound, Replaces, Unverified
<1>6. op'[c].pc = "discard" /\ op'[c].at = d
  BY <1>1 DEF IInv, Typed, Operation
<1>7. \A e \in Digests : ~Scans(op'[c], e) /\ (Replaces(op'[c], e) => e = d)
  BY <1>6 DEF Scans, Replaces
<1>8. UnusedBy(op'[c]) /\ UnwrittenBy(op'[c])
  BY <1>1, <1>5, <1>7 DEF UnusedBy, UnwrittenBy
<1>9. op' = [op EXCEPT ![c] = op'[c]]
  BY DEF IInv, Typed
<1> QED
  BY <1>2, <1>3, <1>4, <1>8, <1>9, OwnStep DEF IInv, Typed

LEMMA VerifyInv ==
    ASSUME IInv, Recorded, NEW c \in Clients, NEW d \in Digests, Verify(c, d)
    PROVE  IInv'
<1>1. CASE blob[d] = "good"
  BY <1>1, VerifyGood DEF Verify
<1>2. CASE blob[d] = "bad"
  BY <1>2, VerifyBad DEF Verify
<1>3. CASE Set(c, Idle)
  BY <1>3, IdleStep DEF Verify
<1> QED
  BY <1>1, <1>2, <1>3 DEF Verify

LEMMA AdoptFinds ==
    ASSUME IInv, Recorded, NEW c \in Clients, NEW d \in Digests, Adopt(c, d),
           blob[d] # "absent"
    PROVE  IInv'
<1> USE DEF Adopt, Set
<1>1. op[c] \in Operation /\ Sound(op[c]) /\ UnwrittenBy(op[c]) /\ UnusedBy(op[c])
  BY DEF IInv, Typed
<1>2. op'[c] \in Operation
  BY <1>1 DEF IInv, Typed, Operation
<1>3. Sound(op'[c])
  BY <1>1, <1>2 DEF IInv, Typed, Operation, Sound
<1>4. \A e \in Digests : Writes(op'[c], e) => Kept(e)
  BY <1>1 DEF IInv, Typed, Sound, Writes, Content, Kept, WritersHave
<1>5. UnusedBy(op'[c]) /\ UnwrittenBy(op'[c])
  BY <1>1 DEF IInv, Typed, UnusedBy, UnwrittenBy, Scans, Replaces, Unverified
<1>6. op' = [op EXCEPT ![c] = op'[c]]
  BY DEF IInv, Typed
<1> QED
  BY <1>2, <1>3, <1>4, <1>5, <1>6, OwnStep DEF IInv, Typed

LEMMA AdoptInv ==
    ASSUME IInv, Recorded, NEW c \in Clients, NEW d \in Digests, Adopt(c, d)
    PROVE  IInv'
<1>1. CASE blob[d] = "absent"
  BY <1>1, IdleStep DEF Adopt
<1>2. CASE blob[d] # "absent"
  BY <1>2, AdoptFinds
<1> QED
  BY <1>1, <1>2

LEMMA ReadFinds ==
    ASSUME IInv, Recorded, NEW c \in Clients, NEW n \in Names, Read(c, n),
           Set(c, [op[c] EXCEPT !.names = @ \ {n}, !.old = @ \ InUse(manifest[n])])
    PROVE  IInv'
<1> USE DEF Read, InUse, Set
<1>1. op[c] \in Operation /\ Sound(op[c]) /\ UnwrittenBy(op[c]) /\ UnusedBy(op[c])
  BY DEF IInv, Typed
<1>2. op'[c] \in Operation
  BY <1>1 DEF IInv, Typed, Operation
<1>3. Sound(op'[c])
  BY <1>1, <1>2 DEF IInv, Typed, Operation, Sound
<1>4. \A e \in Digests : Writes(op'[c], e) => Kept(e)
  BY <1>1 DEF IInv, Typed, Sound, Writes, Content, Kept, WritersHave
<1>5. UnusedBy(op'[c]) /\ UnwrittenBy(op'[c])
  BY <1>1 DEF IInv, Typed, UnusedBy, UnwrittenBy, Scans, Replaces, Unverified
<1>6. op' = [op EXCEPT ![c] = op'[c]]
  BY DEF IInv, Typed
<1> QED
  BY <1>2, <1>3, <1>4, <1>5, <1>6, OwnStep DEF IInv, Typed

LEMMA ReadInv ==
    ASSUME IInv, Recorded, NEW c \in Clients, NEW n \in Names, Read(c, n)
    PROVE  IInv'
<1>1. CASE Set(c, Idle)
  BY <1>1, IdleStep DEF Read
<1>2. CASE Set(c, [op[c] EXCEPT !.names = @ \ {n}, !.old = @ \ InUse(manifest[n])])
  BY <1>2, ReadFinds
<1> QED
  BY <1>1, <1>2 DEF Read

-----------------------------------------------------------------------------
(* An operation begins.                                                     *)
LEMMA BeginStep ==
    ASSUME IInv, Recorded, NEW c \in Clients, NEW o \in Operation, Begin(c, o),
           Sound(o), \A d \in Digests : ~Scans(o, d) /\ ~Replaces(o, d),
           \A d \in Digests : Writes(o, d) => Kept(d)
    PROVE  IInv'
<1>1. UnusedBy(o) /\ UnwrittenBy(o)
  BY DEF UnusedBy, UnwrittenBy
<1>2. begun' \in 0 .. MaxBegun /\ crashes' \in 0 .. MaxCrashes
  BY DEF IInv, Typed, Begin
<1> QED
  BY <1>1, <1>2, OwnStep DEF Set, Begin

LEMMA BeginPullInv ==
    ASSUME IInv, Recorded, NEW c \in Clients, NEW n \in Names, NEW m \in Offers, BeginPull(c, n, m)
    PROVE  IInv'
<1> DEFINE o == [Idle EXCEPT !.kind = "pull", !.pc = "fetch", !.name = n,
                          !.manifest = Manifest(m), !.todo = DigestsOf(Manifest(m)),
                          !.old = DigestsOf(manifest[n])]
<1>1. /\ Manifest(m) \in Manifests /\ DigestsOf(Manifest(m)) \subseteq Digests
     /\ DigestsOf(manifest[n]) \subseteq Digests
  BY DigestsOfType DEF IInv, Typed, Manifest, Manifests, DigestsOf
<1>2. o \in Operation
  BY <1>1, IdleIsFine DEF Operation, Idle
<1>3. Sound(o)
  BY <1>1, <1>2 DEF Sound, Idle, DigestsOf, Manifest
<1>4. \A e \in Digests : ~Scans(o, e) /\ ~Replaces(o, e) /\ (Writes(o, e) => Kept(e))
  BY DEF Scans, Replaces, Unverified, Writes, Content, Idle
<1> QED
  BY <1>2, <1>3, <1>4, BeginStep DEF BeginPull

LEMMA BeginCreateInv ==
    ASSUME IInv, Recorded, NEW c \in Clients,
           NEW n \in Names, NEW layers \in SUBSET Digests, NEW config \in Digests, BeginCreate(c, n, layers, config)
    PROVE  IInv'
<1> DEFINE o == [Idle EXCEPT !.kind = "create", !.pc = "fetch", !.name = n, !.todo = layers,
                    !.manifest = Manifest([layers |-> layers, config |-> config]),
                    !.old = DigestsOf(manifest[n])]
<1>1. /\ Manifest([layers |-> layers, config |-> config]) \in Manifests
     /\ DigestsOf(manifest[n]) \subseteq Digests
  BY DigestsOfType DEF IInv, Typed, Manifest, Manifests, DigestsOf
<1>2. o \in Operation
  BY <1>1, IdleIsFine DEF Operation, Idle
<1>3. Sound(o)
  BY <1>1, <1>2 DEF Sound, Idle, DigestsOf, Manifest
<1>4. \A e \in Digests : ~Scans(o, e) /\ ~Replaces(o, e) /\ (Writes(o, e) => Kept(e))
  BY DEF Scans, Replaces, Unverified, Writes, Content, Idle
<1> QED
  BY <1>2, <1>3, <1>4, BeginStep DEF BeginCreate

LEMMA BeginCopyInv ==
    ASSUME IInv, Recorded, NEW c \in Clients, NEW source \in Names, NEW n \in Names, BeginCopy(c, source, n)
    PROVE  IInv'
<1> DEFINE o == [Idle EXCEPT !.kind = "copy", !.pc = "write", !.name = n, !.from = source]
<1>1. source # None
  BY DigestsOfType DEF IInv, Typed, Manifest, Manifests, DigestsOf
<1>2. o \in Operation
  BY <1>1, IdleIsFine DEF Operation, Idle
<1>3. Sound(o)
  BY <1>1, <1>2 DEF Sound, Idle, DigestsOf, Manifest
<1>4. \A e \in Digests : ~Scans(o, e) /\ ~Replaces(o, e) /\ (Writes(o, e) => Kept(e))
  BY DEF Scans, Replaces, Unverified, Writes, Content, Idle, IInv, BlobsAreKept, Kept
<1> QED
  BY <1>2, <1>3, <1>4, BeginStep DEF BeginCopy

LEMMA BeginDeleteInv ==
    ASSUME IInv, Recorded, NEW c \in Clients, NEW n \in Names, BeginDelete(c, n)
    PROVE  IInv'
<1> DEFINE o == [Idle EXCEPT !.kind = "delete", !.pc = "unlink", !.name = n,
                          !.old = DigestsOf(manifest[n])]
<1>1. DigestsOf(manifest[n]) \subseteq Digests
  BY DigestsOfType DEF IInv, Typed, Manifest, Manifests, DigestsOf
<1>2. o \in Operation
  BY <1>1, IdleIsFine DEF Operation, Idle
<1>3. Sound(o)
  BY <1>1, <1>2 DEF Sound, Idle, DigestsOf, Manifest
<1>4. \A e \in Digests : ~Scans(o, e) /\ ~Replaces(o, e) /\ (Writes(o, e) => Kept(e))
  BY DEF Scans, Replaces, Unverified, Writes, Content, Idle
<1> QED
  BY <1>2, <1>3, <1>4, BeginStep DEF BeginDelete


-----------------------------------------------------------------------------
(* Steps that change a blob.                                                *)

LEMMA RecordedGrows ==
    ASSUME IInv, Recorded
    PROVE  exposed \subseteq exposed' /\ Contended' \subseteq exposed' /\ exposed' \subseteq Digests
BY DEF IInv, Recorded, Typed, Contended

(* Client c removes the blob of d.                                          *)
LEMMA LoseBlob ==
    ASSUME IInv, Recorded, NEW c \in Clients, NEW d \in Digests, NEW o \in Operation,
           blob' = [blob EXCEPT ![d] = "absent"], op' = [op EXCEPT ![c] = o],
           UNCHANGED <<manifest, begun, crashes>>,
           Scans(op[c], d) \/ Replaces(op[c], d),
           \A n \in Names : d \in DigestsOf(manifest[n]) => d \in exposed,
           Sound(o), \A e \in Digests : ~Writes(o, e) /\ ~Replaces(o, e), UnusedBy(o)
    PROVE  IInv'
<1> USE DEF IInv
<1>1. exposed \subseteq exposed' /\ Contended' \subseteq exposed' /\ exposed' \subseteq Digests
  BY RecordedGrows
<1>2. Typed'
  BY <1>1 DEF Typed, Files
<1>3. \A x \in Clients : op'[x] = IF x = c THEN o ELSE op[x]
  BY DEF Typed
<1>4. \A x \in Clients : Sound(op[x])'
  BY <1>3 DEF Sound
<1>5. \A e \in Digests : blob'[e] = IF e = d THEN "absent" ELSE blob[e]
  BY DEF Typed
<1>6. WritersHave'
  <2> SUFFICES ASSUME NEW x \in Clients, NEW e \in Digests, Writes(op[x], e)' PROVE Kept(e)'
    BY DEF WritersHave
  <2>1. Writes(op'[x], e)
    BY DEF Writes, Content
  <2>2. x # c /\ Writes(op[x], e)
    BY <1>3, <2>1
  <2>3. Kept(e)
    BY <2>2 DEF WritersHave
  <2>4. CASE e = d
    <3>1. d \in Contended
      BY <2>2, <2>4 DEF Contended
    <3> QED
      BY <3>1, <2>4, <1>1 DEF ContendedIsExposed, Kept
  <2>5. CASE e # d
    BY <2>5, <2>3, <1>1, <1>5 DEF Kept
  <2> QED
    BY <2>4, <2>5
<1>7. \A x \in Clients : (UnusedBy(op[x]) /\ UnwrittenBy(op[x]))'
  <2> SUFFICES ASSUME NEW x \in Clients PROVE (UnusedBy(op[x]) /\ UnwrittenBy(op[x]))'
    OBVIOUS
  <2>1. UnusedBy(op'[x])
    BY <1>3
  <2>2. UnusedBy(op[x])'
    BY <1>1, <2>1 DEF UnusedBy, Scans
  <2>3. \A e \in Digests : Replaces(op[x], e)' => x # c /\ Replaces(op[x], e)
    <3>1. \A e \in Digests : Replaces(op[x], e)' => Replaces(op'[x], e)
      BY <1>5 DEF Replaces
    <3> QED
      BY <3>1, <1>3
  <2>4. UnwrittenBy(op[x])'
    BY <1>1, <2>3 DEF UnwrittenBy
  <2> QED
    BY <2>2, <2>4
<1>8. BlobsAreKept'
  <2> SUFFICES ASSUME NEW n \in Names, NEW e \in DigestsOf(manifest[n])
               PROVE  blob'[e] # "absent" \/ e \in exposed'
    BY DEF BlobsAreKept
  <2>1. e \in Digests
    BY DigestsOfType DEF Typed
  <2> QED
    BY <2>1, <1>1, <1>5 DEF BlobsAreKept
<1> QED
  BY <1>1, <1>2, <1>4, <1>6, <1>7, <1>8 DEF ContendedIsExposed

LEMMA RemoveInv ==
    ASSUME IInv, Recorded, NEW c \in Clients, NEW d \in Digests, Remove(c, d)
    PROVE  IInv'
<1> DEFINE o == [op[c] EXCEPT !.old = @ \ {d}]
<1>1. op[c] \in Operation /\ Sound(op[c]) /\ UnusedBy(op[c])
  BY DEF IInv, Typed
<1>2. o \in Operation
  BY <1>1 DEF Operation
<1>3. /\ o.pc = "scan" /\ op[c].pc = "scan" /\ op[c].names = {} /\ d \in op[c].old
      /\ o.old \subseteq op[c].old /\ o.names = op[c].names
  BY <1>1 DEF Operation, Remove
<1>4. Sound(o)
  BY <1>1, <1>3 DEF Sound, Operation
<1>5. \A e \in Digests : ~Writes(o, e) /\ ~Replaces(o, e)
  BY <1>3 DEF Writes, Replaces
<1>6. UnusedBy(o)
  BY <1>1, <1>3 DEF UnusedBy, Scans
<1>7. Scans(op[c], d) /\ \A n \in Names : d \in DigestsOf(manifest[n]) => d \in exposed
  BY <1>1, <1>3 DEF Scans, UnusedBy
<1> QED
  BY <1>2, <1>4, <1>5, <1>6, <1>7, LoseBlob DEF Remove, Set

LEMMA DiscardInv ==
    ASSUME IInv, Recorded, NEW c \in Clients, Discard(c)
    PROVE  IInv'
<1>1. op[c] \in Operation /\ Sound(op[c]) /\ UnwrittenBy(op[c])
  BY DEF IInv, Typed
<1>2. PICK d \in Digests : d = op[c].at /\ op[c].pc = "discard"
  BY <1>1 DEF Discard, Sound
<1>3. Replaces(op[c], d)
  BY <1>2 DEF Replaces
<1>4. \A n \in Names : d \in DigestsOf(manifest[n]) => d \in exposed
  BY <1>1, <1>3 DEF UnwrittenBy
<1>5. UnusedBy(Idle)
  BY IdleIsFine DEF UnusedBy
<1> QED
  BY <1>2, <1>3, <1>4, <1>5, IdleIsFine, LoseBlob DEF Discard, Set

(* A blob is created, if it is not there, and perhaps an operation goes on. *)
LEMMA GainBlob ==
    ASSUME IInv, Recorded, NEW d \in Digests, WithBlob(d), manifest' = manifest,
           begun' \in 0 .. MaxBegun, crashes' \in 0 .. MaxCrashes,
           op' \in [Clients -> Operation],
           \A x \in Clients :
               /\ Sound(op'[x])
               /\ \A e \in Digests : Writes(op'[x], e) => Kept(e) \/ e = d
               /\ \A e \in Digests : Scans(op'[x], e) => Scans(op[x], e) /\ op'[x] = op[x]
               /\ \A e \in Digests : Replaces(op'[x], e) => Replaces(op[x], e)
    PROVE  IInv'
<1> USE DEF IInv
<1>1. exposed \subseteq exposed' /\ Contended' \subseteq exposed' /\ exposed' \subseteq Digests
  BY RecordedGrows
<1>2. Typed'
  BY <1>1 DEF Typed, Files, WithBlob
<1>3. \A e \in Digests :
          /\ Kept(e) \/ e = d => Kept(e)'
          /\ blob'[e] = "bad" => blob[e] = "bad"
  BY <1>1 DEF Typed, Files, WithBlob, Kept
<1>4. \A x \in Clients : Sound(op[x])'
  BY DEF Sound
<1>5. WritersHave'
  <2> SUFFICES ASSUME NEW x \in Clients, NEW e \in Digests, Writes(op[x], e)' PROVE Kept(e)'
    BY DEF WritersHave
  <2>1. Writes(op'[x], e)
    BY DEF Writes, Content
  <2> QED
    BY <2>1, <1>3
<1>6. \A x \in Clients : (UnusedBy(op[x]) /\ UnwrittenBy(op[x]))'
  <2> SUFFICES ASSUME NEW x \in Clients PROVE (UnusedBy(op[x]) /\ UnwrittenBy(op[x]))'
    OBVIOUS
  <2>1. \A e \in Digests : Scans(op[x], e)' => Scans(op[x], e) /\ op'[x] = op[x]
    BY DEF Scans
  <2>2. UnusedBy(op[x])'
    BY <1>1, <2>1 DEF UnusedBy
  <2>3. \A e \in Digests : Replaces(op[x], e)' => Replaces(op'[x], e)
    BY <1>3 DEF Replaces
  <2>4. UnwrittenBy(op[x])'
    BY <1>1, <2>3 DEF UnwrittenBy
  <2> QED
    BY <2>2, <2>4
<1>7. BlobsAreKept'
  <2> SUFFICES ASSUME NEW n \in Names, NEW e \in DigestsOf(manifest[n])
               PROVE  blob'[e] # "absent" \/ e \in exposed'
    BY DEF BlobsAreKept
  <2>1. e \in Digests
    BY DigestsOfType DEF Typed
  <2> QED
    BY <2>1, <1>3 DEF BlobsAreKept, Kept
<1> QED
  BY <1>1, <1>2, <1>4, <1>5, <1>6, <1>7 DEF ContendedIsExposed

LEMMA CreateBlobInv ==
    ASSUME IInv, Recorded, NEW d \in Digests, CreateBlob(d)
    PROVE  IInv'
<1>1. op' = op /\ op \in [Clients -> Operation]
  BY DEF CreateBlob, IInv, Typed
<1>2. begun' \in 0 .. MaxBegun /\ crashes' \in 0 .. MaxCrashes
  BY DEF CreateBlob, IInv, Typed
<1> QED
  BY <1>1, <1>2, GainBlob DEF CreateBlob, IInv, WritersHave

LEMMA NewConfigInv ==
    ASSUME IInv, Recorded, NEW c \in Clients, NewConfig(c)
    PROVE  IInv'
<1> DEFINE d == op[c].manifest.config
           o == [op[c] EXCEPT !.pc = "write", !.have = @ \cup {d}]
<1>1. op[c] \in Operation /\ Sound(op[c])
  BY DEF IInv, Typed
<1>2. op[c].kind = "create" /\ op[c].pc = "fetch" /\ op[c].todo = {}
  BY DEF NewConfig
<1>3. op[c].manifest.is = "whole" /\ d \in Digests
  BY <1>1, <1>2 DEF Sound, Operation, Manifests, Missing, Torn
<1>4. o \in Operation
  BY <1>1, <1>3 DEF Operation
<1>5. Sound(o)
  <2>1. /\ o.kind = "create" /\ o.pc = "write" /\ o.have = op[c].have \cup {d}
        /\ o.todo = {} /\ o.manifest = op[c].manifest /\ o.name = op[c].name
        /\ o.from = op[c].from /\ o.at = op[c].at /\ o.old = op[c].old
    BY <1>1, <1>2 DEF Operation
  <2> HIDE DEF o
  <2> QED
    BY <1>1, <1>2, <1>3, <1>4, <2>1 DEF Sound, DigestsOf
<1>6. op' = [op EXCEPT ![c] = o] /\ op \in [Clients -> Operation]
  BY DEF NewConfig, Set, IInv, Typed
<1>7. op' \in [Clients -> Operation] /\ \A x \in Clients : op'[x] = IF x = c THEN o ELSE op[x]
  BY <1>4, <1>6
<1>8. \A e \in Digests : ~Scans(o, e) /\ ~Replaces(o, e)
  BY <1>1 DEF Scans, Replaces, Operation
<1>9. \A e \in Digests : Writes(o, e) => Kept(e) \/ e = d
  <2>1. \A e \in Digests : Writes(o, e) => Writes(op[c], e) \/ e = d
    BY <1>1, <1>2 DEF Writes, Operation
  <2> QED
    BY <2>1 DEF IInv, WritersHave
<1>10. begun' \in 0 .. MaxBegun /\ crashes' \in 0 .. MaxCrashes
  BY DEF NewConfig, IInv, Typed
<1>11. \A x \in Clients :
           /\ Sound(op'[x])
           /\ \A e \in Digests : Writes(op'[x], e) => Kept(e) \/ e = d
           /\ \A e \in Digests : Scans(op'[x], e) => Scans(op[x], e) /\ op'[x] = op[x]
           /\ \A e \in Digests : Replaces(op'[x], e) => Replaces(op[x], e)
  BY <1>5, <1>7, <1>8, <1>9 DEF IInv, WritersHave
<1> QED
  BY <1>3, <1>7, <1>10, <1>11, GainBlob DEF NewConfig

(* A download arrives for every operation that waits for it.                *)
LEMMA ArrivedFacts ==
    ASSUME NEW o \in Operation, NEW d \in Digests, Sound(o)
    PROVE  /\ Arrived(o, d) \in Operation
           /\ Sound(Arrived(o, d))
           /\ \A e \in Digests :
                  /\ Writes(Arrived(o, d), e) => Writes(o, e) \/ e = d
                  /\ Scans(Arrived(o, d), e) => Arrived(o, d) = o
                  /\ Replaces(Arrived(o, d), e) => Replaces(o, e) \/ e = d
                  /\ Pending(Arrived(o, d), e) => Pending(o, e) \/ e = d
           /\ Replaces(o, d) \/ Arrived(o, d) = o
<1> USE DEF Awaits
<1>1. CASE ~(o.pc = "await" /\ o.at = d)
  BY <1>1 DEF Arrived
<1>2. CASE o.pc = "await" /\ o.at = d
  <2> DEFINE a == [o EXCEPT !.pc = "fetch", !.at = None, !.todo = @ \ {d},
                            !.have = @ \cup {d}, !.old = @ \ {d}]
  <2>1. Arrived(o, d) = a
    BY <1>2 DEF Arrived
  <2>2. a \in Operation
    BY DEF Operation
  <2>3. Sound(a)
    BY <1>2 DEF Sound, Operation
  <2>4. o.kind = "pull" /\ a.kind = "pull" /\ a.pc = "fetch" /\ a.have = o.have \cup {d} /\ a.hits = o.hits
    BY <1>2 DEF Sound, Operation
  <2>5. \A e \in Digests : ~Scans(a, e) /\ (Writes(a, e) => Writes(o, e) \/ e = d)
    BY <1>2, <2>4 DEF Scans, Writes
  <2>6. \A e \in Digests : Replaces(a, e) => Replaces(o, e) \/ e = d
    BY <1>2, <2>4 DEF Replaces, Unverified
  <2>7. \A e \in Digests : Pending(a, e) => Pending(o, e) \/ e = d
    BY <1>2, <2>4 DEF Pending, Unverified
  <2>8. Replaces(o, d)
    BY <1>2 DEF Replaces
  <2> QED
    BY <2>1, <2>2, <2>3, <2>5, <2>6, <2>7, <2>8
<1> QED
  BY <1>1, <1>2

LEMMA DownloadedInv ==
    ASSUME IInv, Fresh, Recorded, NEW d \in Digests, Downloaded(d)
    PROVE  IInv'
<1> USE DEF IInv
<1>1. exposed \subseteq exposed' /\ Contended' \subseteq exposed' /\ exposed' \subseteq Digests
  BY RecordedGrows
<1>3. d \in arriving
  BY DEF Downloaded
<1>4. \A x \in Clients : op[x] \in Operation /\ op'[x] = Arrived(op[x], d)
  BY DEF Downloaded, Typed
<1>5. \A x \in Clients :
          /\ op'[x] \in Operation
          /\ Sound(op'[x])
          /\ \A e \in Digests :
                 /\ Writes(op'[x], e) => Writes(op[x], e) \/ e = d
                 /\ Scans(op'[x], e) => op'[x] = op[x]
                 /\ Replaces(op'[x], e) => Replaces(op[x], e) \/ e = d
          /\ Replaces(op[x], d) \/ op'[x] = op[x]
  BY <1>4, ArrivedFacts
<1>6. PICK content \in {"good", "bad"} : blob' = [blob EXCEPT ![d] = content]
  BY DEF Downloaded
<1>7. \A e \in Digests : blob'[e] = IF e = d THEN content ELSE blob[e]
  BY <1>6 DEF Typed
<1>8. op' \in [Clients -> Operation]
  BY <1>4, <1>5 DEF Downloaded
<1>9. Typed'
  BY <1>1, <1>6, <1>8 DEF Downloaded, Typed, Files
<1>10. manifest' = manifest
  BY DEF Downloaded
<1>11. \A x \in Clients : Sound(op[x])'
  BY <1>5 DEF Sound
<1>12. WritersHave'
  <2> SUFFICES ASSUME NEW x \in Clients, NEW e \in Digests, Writes(op[x], e)' PROVE Kept(e)'
    BY DEF WritersHave
  <2>1. Writes(op'[x], e)
    BY <1>10 DEF Writes, Content
  <2>2. Kept(e) \/ e = d
    BY <1>5, <2>1 DEF WritersHave
  <2> QED
    BY <2>2, <1>1, <1>7 DEF Kept
<1>13. \A x \in Clients : (UnusedBy(op[x]) /\ UnwrittenBy(op[x]))'
  <2> SUFFICES ASSUME NEW x \in Clients PROVE (UnusedBy(op[x]) /\ UnwrittenBy(op[x]))'
    OBVIOUS
  <2>1. \A e \in Digests : Scans(op[x], e)' => Scans(op[x], e) /\ op'[x] = op[x]
    BY <1>5 DEF Scans
  <2>2. UnusedBy(op[x])'
    BY <1>1, <1>10, <2>1 DEF UnusedBy
  <2>3. \A e \in Digests : Replaces(op[x], e)' => Replaces(op[x], e) \/ e = d
    <3>1. \A e \in Digests : Replaces(op[x], e)' => Replaces(op'[x], e) \/ e = d
      BY <1>7 DEF Replaces
    <3> QED
      BY <3>1, <1>5
  <2>4. Replaces(op[x], d)' => Replaces(op[x], d) \/ d \in exposed
    <3>1. CASE op'[x] = op[x]
      <4>1. Replaces(op[x], d)' => Replaces(op[x], d) \/ Pending(op[x], d)
        BY <3>1 DEF Replaces, Pending
      <4> QED
        BY <4>1, <1>3 DEF Fresh
    <3> QED
      BY <3>1, <1>5
  <2>5. UnwrittenBy(op[x])'
    BY <1>1, <1>10, <2>3, <2>4 DEF UnwrittenBy
  <2> QED
    BY <2>2, <2>5
<1>14. BlobsAreKept'
  <2> SUFFICES ASSUME NEW n \in Names, NEW e \in DigestsOf(manifest[n])
               PROVE  blob'[e] # "absent" \/ e \in exposed'
    BY <1>10 DEF BlobsAreKept
  <2>1. e \in Digests
    BY DigestsOfType DEF Typed
  <2> QED
    BY <2>1, <1>1, <1>7 DEF BlobsAreKept
<1> QED
  BY <1>1, <1>9, <1>11, <1>12, <1>13, <1>14 DEF ContendedIsExposed

-----------------------------------------------------------------------------
(* Steps that change a manifest: client c writes what it has, or nothing.   *)
LEMMA ManifestStep ==
    ASSUME IInv, Recorded, NEW c \in Clients, UNCHANGED <<blob, begun, crashes>>,
           manifest' \in [Names -> Manifests], op' \in [Clients -> Operation],
           \A n \in Names : \A e \in Digests :
               e \in DigestsOf(manifest'[n]) => e \in DigestsOf(manifest[n]) \/ Writes(op[c], e),
           \A x \in Clients :
               /\ Sound(op'[x])
               /\ \A e \in Digests :
                      /\ Writes(op[x], e)' => Kept(e)
                      /\ Scans(op'[x], e) => x # c /\ Scans(op[x], e) /\ op'[x].names = op[x].names
                      /\ Replaces(op'[x], e) => x # c /\ Replaces(op[x], e)
    PROVE  IInv'
<1> USE DEF IInv
<1>1. exposed \subseteq exposed' /\ Contended' \subseteq exposed' /\ exposed' \subseteq Digests
  BY RecordedGrows
<1>2. Typed'
  BY <1>1 DEF Typed
<1>3. \A x \in Clients : Sound(op[x])'
  BY DEF Sound
<1>4. \A e \in Digests : Kept(e) => Kept(e)'
  BY <1>1 DEF Kept
<1>5. WritersHave'
  BY <1>4 DEF WritersHave
<1>6. \A x \in Clients : (UnusedBy(op[x]) /\ UnwrittenBy(op[x]))'
  <2> SUFFICES ASSUME NEW x \in Clients PROVE (UnusedBy(op[x]) /\ UnwrittenBy(op[x]))'
    OBVIOUS
  <2>1. \A e \in Digests : Scans(op[x], e)' => Scans(op'[x], e)
    BY DEF Scans
  <2>2. \A e \in Digests : Replaces(op[x], e)' => Replaces(op'[x], e)
    BY DEF Replaces
  <2>3. ASSUME NEW e \in Digests, x # c, Scans(op[x], e) \/ Replaces(op[x], e), Writes(op[c], e)
        PROVE  e \in exposed
    BY <2>3 DEF Contended, ContendedIsExposed
  <2>4. UnusedBy(op[x])'
    <3> SUFFICES ASSUME NEW e \in Digests, NEW n \in Names, Scans(op[x], e)',
                        n \notin op'[x].names, e \in DigestsOf(manifest'[n])
                 PROVE  e \in exposed
      BY <1>1 DEF UnusedBy, DigestsOf
    <3>1. x # c /\ Scans(op[x], e) /\ n \notin op[x].names
      BY <2>1
    <3> QED
      BY <2>3, <3>1 DEF UnusedBy
  <2>5. UnwrittenBy(op[x])'
    <3> SUFFICES ASSUME NEW e \in Digests, NEW n \in Names, Replaces(op[x], e)',
                        e \in DigestsOf(manifest'[n])
                 PROVE  e \in exposed
      BY <1>1 DEF UnwrittenBy, DigestsOf
    <3>1. x # c /\ Replaces(op[x], e)
      BY <2>2
    <3> QED
      BY <2>3, <3>1 DEF UnwrittenBy
  <2> QED
    BY <2>4, <2>5
<1>7. BlobsAreKept'
  <2> SUFFICES ASSUME NEW n \in Names, NEW e \in DigestsOf(manifest'[n]) PROVE Kept(e)'
    BY DEF BlobsAreKept, Kept, DigestsOf
  <2>1. e \in Digests
    BY DigestsOfType
  <2>2. Kept(e)
    BY <2>1 DEF BlobsAreKept, WritersHave, Kept
  <2> QED
    BY <1>4, <2>1, <2>2
<1> QED
  BY <1>1, <1>2, <1>3, <1>5, <1>6, <1>7 DEF ContendedIsExposed

LEMMA TruncateInv ==
    ASSUME IInv, Recorded, NEW c \in Clients, Truncate(c)
    PROVE  IInv'
<1> DEFINE o == [op[c] EXCEPT !.pc = "encode"]
<1>1. op[c] \in Operation /\ Sound(op[c]) /\ op[c].pc = "write"
  BY DEF IInv, Typed, Truncate
<1>2. op[c].name \in Names
  BY <1>1 DEF Sound
<1>3. o \in Operation
  BY <1>1 DEF Operation
<1>4. Sound(o)
  BY <1>1, <1>3 DEF Sound, Operation
<1>5. op' = [op EXCEPT ![c] = o] /\ op \in [Clients -> Operation]
  BY DEF Truncate, Set, IInv, Typed
<1>6. op' \in [Clients -> Operation] /\ \A x \in Clients : op'[x] = IF x = c THEN o ELSE op[x]
  BY <1>3, <1>5
<1>7. \A n \in Names : manifest'[n] = IF n = op[c].name THEN Torn ELSE manifest[n]
  BY DEF Truncate, IInv, Typed
<1>8. manifest' \in [Names -> Manifests] /\ DigestsOf(Torn) = {}
  BY DEF Truncate, IInv, Typed, Manifests, DigestsOf, Torn
<1>9. \A n \in Names : DigestsOf(manifest'[n]) \subseteq DigestsOf(manifest[n])
  BY <1>7, <1>8
<1>10. ASSUME NEW x \in Clients, NEW e \in Digests PROVE Writes(op[x], e)' => Kept(e)
  <2>1. op[x] \in Operation /\ Sound(op[x])
    BY DEF IInv, Typed
  <2>2. /\ op'[x].kind = op[x].kind /\ op'[x].have = op[x].have
        /\ op'[x].from = op[x].from /\ op'[x].manifest = op[x].manifest
        /\ op'[x].pc = op[x].pc \/ (op'[x].pc = "encode" /\ op[x].pc = "write")
    BY <1>1, <1>6 DEF Operation
  <2>3. DigestsOf(Content(op[x]))' \subseteq DigestsOf(Content(op[x]))
    BY <1>9, <2>1, <2>2 DEF Content, DigestsOf, Operation
  <2>4. Writes(op[x], e)' => Writes(op[x], e)
    BY <2>2, <2>3 DEF Writes
  <2> QED
    BY <2>4 DEF IInv, WritersHave
<1>11. \A e \in Digests : ~Scans(o, e) /\ ~Replaces(o, e)
  BY <1>1 DEF Scans, Replaces, Operation
<1>12. \A x \in Clients :
           /\ Sound(op'[x])
           /\ \A e \in Digests :
                  /\ Writes(op[x], e)' => Kept(e)
                  /\ Scans(op'[x], e) => x # c /\ Scans(op[x], e) /\ op'[x].names = op[x].names
                  /\ Replaces(op'[x], e) => x # c /\ Replaces(op[x], e)
  BY <1>4, <1>6, <1>10, <1>11 DEF IInv
<1> QED
  BY <1>6, <1>8, <1>9, <1>12, ManifestStep DEF Truncate

LEMMA EncodeInv ==
    ASSUME IInv, Recorded, NEW c \in Clients, Encode(c)
    PROVE  IInv'
<1> DEFINE o == IF op[c].old = {} THEN Idle ELSE [op[c] EXCEPT !.pc = "glob"]
<1>1. op[c] \in Operation /\ Sound(op[c]) /\ op[c].pc = "encode"
  BY DEF IInv, Typed, Encode
<1>2. o \in Operation
  BY <1>1, IdleIsFine DEF Operation
<1>3. Sound(o)
  BY <1>1, <1>2, IdleIsFine DEF Sound, Operation
<1>4. op' = [op EXCEPT ![c] = o] /\ op \in [Clients -> Operation]
  BY DEF Encode, Set, IInv, Typed
<1>5. op' \in [Clients -> Operation] /\ \A x \in Clients : op'[x] = IF x = c THEN o ELSE op[x]
  BY <1>2, <1>4
<1>6. Content(op[c]) \in Manifests
  BY <1>1 DEF Content, Operation, IInv, Typed
<1>7. manifest' \in [Names -> Manifests]
  BY <1>6 DEF Encode, IInv, Typed
<1>8. \A n \in Names : manifest'[n] = manifest[n] \/ manifest'[n] = Content(op[c])
  BY DEF Encode, IInv, Typed
<1>9. \A e \in Digests : e \in DigestsOf(Content(op[c])) => Writes(op[c], e)
  BY <1>1 DEF Writes, Content, Sound
<1>10. ASSUME NEW x \in Clients, NEW e \in Digests PROVE Writes(op[x], e)' => Kept(e)
  <2>1. CASE x = c
    BY <2>1, <1>1, <1>5, IdleIsFine DEF Writes, Operation, Idle
  <2>2. CASE x # c
    <3>1. op[x] \in Operation /\ op'[x] = op[x]
      BY <1>5, <2>2 DEF IInv, Typed
    <3>2. Content(op[x])' = Content(op[x]) \/ Content(op[x])' = Content(op[c])
      BY <1>8, <3>1 DEF Content, Operation
    <3>3. Writes(op[x], e)' => Writes(op[x], e) \/ e \in DigestsOf(Content(op[c]))
      BY <3>1, <3>2 DEF Writes, DigestsOf
    <3> QED
      BY <1>9, <3>3 DEF IInv, WritersHave
  <2> QED
    BY <2>1, <2>2
<1>11. \A e \in Digests : ~Scans(o, e) /\ ~Replaces(o, e)
  BY <1>1, IdleIsFine DEF Scans, Replaces, Operation
<1>12. \A x \in Clients :
           /\ Sound(op'[x])
           /\ \A e \in Digests :
                  /\ Writes(op[x], e)' => Kept(e)
                  /\ Scans(op'[x], e) => x # c /\ Scans(op[x], e) /\ op'[x].names = op[x].names
                  /\ Replaces(op'[x], e) => x # c /\ Replaces(op[x], e)
  BY <1>3, <1>5, <1>10, <1>11 DEF IInv
<1> QED
  BY <1>5, <1>7, <1>8, <1>9, <1>12, ManifestStep DEF Encode

LEMMA DetachedFacts ==
    ASSUME IInv, NEW x \in Clients, NEW n \in Names
    PROVE  LET a == Detached(op[x], n) IN
           /\ a \in Operation
           /\ Sound(a)
           /\ a.names = op[x].names
           /\ \A e \in Digests : Scans(a, e) <=> Scans(op[x], e)
           /\ \A e \in Digests : Replaces(a, e) => Replaces(op[x], e)
           /\ a.kind = op[x].kind /\ a.pc = op[x].pc /\ a.have = op[x].have
           /\ a.from = IF op[x].from = n THEN None ELSE op[x].from
           /\ a.manifest = IF op[x].from = n THEN manifest[n] ELSE op[x].manifest
<1> DEFINE o == op[x]
           a == Detached(o, n)
<1>1. o \in Operation /\ Sound(o) /\ manifest[n] \in Manifests
  BY DEF IInv, Typed
<1>2. /\ a.kind = o.kind /\ a.pc = o.pc /\ a.todo = o.todo /\ a.have = o.have /\ a.hits = o.hits
      /\ a.at = o.at /\ a.old = o.old /\ a.names = o.names
      /\ a.from = (IF o.from = n THEN None ELSE o.from)
      /\ a.manifest = (IF o.from = n THEN manifest[n] ELSE o.manifest)
      /\ a.name = (IF o.pc = "encode" /\ o.name = n THEN None ELSE o.name)
  BY <1>1 DEF Detached, Operation
<1>3. a \in Operation
  <2> DEFINE name == IF o.pc = "encode" /\ o.name = n THEN None ELSE o.name
             from == IF o.from = n THEN None ELSE o.from
             written == IF o.from = n THEN manifest[n] ELSE o.manifest
  <2>1. name \in Names \cup {None} /\ from \in Names \cup {None} /\ written \in Manifests
    BY <1>1 DEF Operation
  <2>2. a = [o EXCEPT !.name = name, !.manifest = written, !.from = from]
    BY <1>1 DEF Detached, Operation
  <2> HIDE DEF name, from, written, a
  <2> QED
    BY <1>1, <2>1, <2>2 DEF Operation
<1>4. Sound(a)
  <2>1. o.kind # "copy" => o.from = None /\ a.manifest = o.manifest
    BY <1>1, <1>2 DEF Sound
  <2>2. o.pc = "idle" => a = o
    BY <1>1 DEF Detached, Sound, Idle
  <2> QED
    BY <1>1, <1>2, <1>3, <2>1, <2>2 DEF Sound, Operation
<1>5. \A e \in Digests : Scans(a, e) <=> Scans(o, e)
  BY <1>2 DEF Scans
<1>6. \A e \in Digests : Replaces(a, e) => Replaces(o, e)
  BY <1>2 DEF Replaces, Unverified
<1> QED
  BY <1>2, <1>3, <1>4, <1>5, <1>6

LEMMA UnlinkInv ==
    ASSUME IInv, Recorded, NEW c \in Clients, Unlink(c)
    PROVE  IInv'
<1> DEFINE m == op[c].name
           o == IF manifest[m].is = "missing" THEN Idle ELSE [op[c] EXCEPT !.pc = "glob"]
<1>1. op[c] \in Operation /\ Sound(op[c]) /\ op[c].pc = "unlink"
  BY DEF IInv, Typed, Unlink
<1>2. m \in Names /\ op[c].kind = "delete"
  BY <1>1 DEF Sound
<1>3. o \in Operation
  BY <1>1, IdleIsFine DEF Operation
<1>4. Sound(o)
  BY <1>1, <1>2, <1>3, IdleIsFine DEF Sound, Operation
<1>5. \A x \in Clients : op'[x] = IF x = c THEN o ELSE Detached(op[x], m)
  BY DEF Unlink
<1>6. op' \in [Clients -> Operation]
  BY <1>2, <1>3, <1>5, DetachedFacts DEF Unlink
<1>7. \A n \in Names : manifest'[n] = IF n = m THEN Missing ELSE manifest[n]
  BY DEF Unlink, IInv, Typed
<1>8. manifest' \in [Names -> Manifests] /\ DigestsOf(Missing) = {}
  BY DEF Unlink, IInv, Typed, Manifests, DigestsOf, Missing
<1>9. \A n \in Names : DigestsOf(manifest'[n]) \subseteq DigestsOf(manifest[n])
  BY <1>7, <1>8
<1>10. \A e \in Digests : ~Writes(o, e)' /\ ~Scans(o, e) /\ ~Replaces(o, e)
  BY <1>1 DEF Writes, Scans, Replaces, Operation, Idle
<1>11. ASSUME NEW x \in Clients, NEW e \in Digests PROVE Writes(op[x], e)' => Kept(e)
  <2>1. CASE x = c
    BY <2>1, <1>5, <1>1 DEF Writes, Operation, Idle
  <2>2. CASE x # c
    <3> DEFINE a == Detached(op[x], m)
    <3>1. op'[x] = a /\ op[x] \in Operation
      BY <1>5, <2>2 DEF IInv, Typed
    <3>2. /\ a.kind = op[x].kind /\ a.pc = op[x].pc /\ a.have = op[x].have
          /\ a.from = IF op[x].from = m THEN None ELSE op[x].from
          /\ a.manifest = IF op[x].from = m THEN manifest[m] ELSE op[x].manifest
      BY <1>2, DetachedFacts
    <3>3. DigestsOf(Content(op[x]))' \subseteq DigestsOf(Content(op[x]))
      <4> DEFINE n == IF op[x].from = m THEN None ELSE op[x].from
      <4>1. m \in Names /\ m # None /\ (op[x].from = None \/ op[x].from \in Names)
        BY <1>2, <3>1 DEF Operation
      <4>2. /\ Content(op[x])' = IF n = None THEN a.manifest ELSE manifest'[n]
            /\ Content(op[x]) = IF op[x].from = None THEN op[x].manifest
                                ELSE manifest[op[x].from]
        BY <3>1, <3>2 DEF Content
      <4> HIDE DEF a
      <4>3. CASE op[x].from = m
        BY <3>2, <4>1, <4>2, <4>3
      <4>4. CASE op[x].from # m
        BY <1>7, <3>2, <4>1, <4>2, <4>4
      <4> QED
        BY <4>3, <4>4
    <3>4. Writes(op[x], e)' => Writes(op[x], e)
      BY <3>1, <3>2, <3>3 DEF Writes
    <3> QED
      BY <3>4 DEF IInv, WritersHave
  <2> QED
    BY <2>1, <2>2
<1>12. \A x \in Clients :
           /\ Sound(op'[x])
           /\ \A e \in Digests :
                  /\ Writes(op[x], e)' => Kept(e)
                  /\ Scans(op'[x], e) => x # c /\ Scans(op[x], e) /\ op'[x].names = op[x].names
                  /\ Replaces(op'[x], e) => x # c /\ Replaces(op[x], e)
  BY <1>2, <1>4, <1>5, <1>10, <1>11, DetachedFacts
<1> QED
  BY <1>6, <1>8, <1>9, <1>12, ManifestStep DEF Unlink

-----------------------------------------------------------------------------
LEMMA RestartInv ==
    ASSUME IInv, Recorded, Restart
    PROVE  IInv'
<1> USE DEF IInv
<1>1. exposed \subseteq exposed' /\ Contended' \subseteq exposed' /\ exposed' \subseteq Digests
  BY RecordedGrows
<1>2. PICK pruned \in SUBSET Unreferenced :
          blob' = [d \in Digests |-> IF d \in pruned THEN "absent" ELSE blob[d]]
  BY DEF Restart
<1>3. op' = [x \in Clients |-> Idle] /\ manifest' = manifest
  BY DEF Restart
<1>4. Typed'
  BY <1>1, <1>2, <1>3, IdleIsFine DEF Restart, Typed, Files
<1>5. \A x \in Clients : op'[x] = Idle
  BY <1>3
<1>6. \A x \in Clients : Sound(op[x])'
  BY <1>5, IdleIsFine DEF Sound
<1>7. \A x \in Clients : \A d \in Digests :
          ~Writes(op[x], d)' /\ ~Scans(op[x], d)' /\ ~Replaces(op[x], d)'
  BY <1>5 DEF Writes, Scans, Replaces, Idle
<1>8. WritersHave' /\ \A x \in Clients : (UnusedBy(op[x]) /\ UnwrittenBy(op[x]))'
  BY <1>7 DEF WritersHave, UnusedBy, UnwrittenBy
<1>9. BlobsAreKept'
  <2> SUFFICES ASSUME NEW n \in Names, NEW e \in DigestsOf(manifest[n])
               PROVE  blob'[e] # "absent" \/ e \in exposed'
    BY <1>3 DEF BlobsAreKept
  <2>1. e \in Digests /\ e \notin pruned
    BY <1>2, DigestsOfType DEF Typed, Unreferenced, InUse
  <2> QED
    BY <2>1, <1>1, <1>2 DEF BlobsAreKept
<1> QED
  BY <1>1, <1>4, <1>6, <1>8, <1>9 DEF ContendedIsExposed

LEMMA StepInv == IInv /\ Fresh /\ Next => IInv'
<1> SUFFICES ASSUME IInv, Fresh, Next PROVE IInv'
  OBVIOUS
<1>1. Recorded /\ Step
  BY DEF Next, Recorded
<1>2. ASSUME NEW c \in Clients, Pull(c) PROVE IInv'
  BY <1>1, <1>2, BeginPullInv, CacheHitInv, AwaitInv, VerifyInv, FetchedInv, DiscardInv,
     VerifiedInv DEF Pull
<1>3. ASSUME NEW c \in Clients, Create(c) PROVE IInv'
  <2>1. ASSUME NEW n \in Names, NEW source \in Names, NEW config \in Digests,
               CreateFrom(c, n, source, config)
        PROVE  IInv'
    <3>1. manifest[source].layers \in SUBSET Digests
      BY <2>1 DEF CreateFrom, IInv, Typed, Manifests, Missing, Torn
    <3> QED
      BY <1>1, <2>1, <3>1, BeginCreateInv DEF CreateFrom
  <2>2. ASSUME NEW n \in Names, NEW d \in Digests, NEW config \in Digests,
               CreateFromFile(c, n, d, config)
        PROVE  IInv'
    BY <1>1, <2>2, BeginCreateInv DEF CreateFromFile
  <2> QED
    BY <1>1, <1>3, <2>1, <2>2, AdoptInv, NewConfigInv DEF Create
<1>4. ASSUME NEW c \in Clients, Write(c) PROVE IInv'
  BY <1>1, <1>4, BeginCopyInv, EndInv, TruncateInv, EncodeInv DEF Write
<1>5. ASSUME NEW c \in Clients, Delete(c) PROVE IInv'
  BY <1>1, <1>5, BeginDeleteInv, ReadInv, UnlinkInv, GlobInv, EndInv, RemoveInv DEF Delete
<1> QED
  BY <1>1, <1>2, <1>3, <1>4, <1>5, DownloadedInv, CreateBlobInv, RestartInv DEF Step

LEMMA StutterInv == IInv /\ UNCHANGED vars => IInv'
<1> SUFFICES ASSUME IInv, UNCHANGED vars PROVE IInv'
  OBVIOUS
<1>1. /\ blob' = blob /\ manifest' = manifest /\ op' = op
      /\ begun' = begun /\ crashes' = crashes /\ exposed' = exposed
  BY DEF vars
<1>2. Typed'
  BY <1>1 DEF IInv, Typed
<1>3. ASSUME NEW c \in Clients PROVE Sound(op[c])'
  <2>1. Sound(op[c]) /\ op'[c] = op[c]
    BY <1>1 DEF IInv
  <2> HIDE <1>1
  <2> QED
    BY <2>1 DEF Sound
<1>4. ContendedIsExposed'
  BY <1>1 DEF IInv, ContendedIsExposed, Contended, Writes, Content, Scans, Replaces,
              Unverified, DigestsOf
<1>5. WritersHave'
  BY <1>1 DEF IInv, WritersHave, Kept, Writes, Content, DigestsOf
<1>6. \A c \in Clients : (UnusedBy(op[c]) /\ UnwrittenBy(op[c]))'
  BY <1>1 DEF IInv, UnusedBy, UnwrittenBy, Scans, Replaces, Unverified, DigestsOf
<1>7. BlobsAreKept'
  BY <1>1 DEF IInv, BlobsAreKept, DigestsOf
<1> QED
  BY <1>2, <1>3, <1>4, <1>5, <1>6, <1>7 DEF IInv

-----------------------------------------------------------------------------
(* A step that starts no download, and by which no pull gets a blob.        *)
LEMMA FreshStep ==
    ASSUME Fresh, Recorded, arriving' \subseteq arriving,
           \A x \in Clients : \A d \in Digests : Pending(op'[x], d) => Pending(op[x], d)
    PROVE  Fresh'
BY DEF Fresh, Recorded, Pending, Unverified

(* Such a step of one operation.                                            *)
LEMMA FreshOwn ==
    ASSUME IInv, Fresh, Recorded, NEW c \in Clients, NEW o, op' = [op EXCEPT ![c] = o],
           arriving' \subseteq arriving,
           \A d \in Digests : Pending(o, d) => Pending(op[c], d)
    PROVE  Fresh'
<1>1. \A x \in Clients : op'[x] = IF x = c THEN o ELSE op[x]
  BY DEF IInv, Typed
<1> QED
  BY <1>1, FreshStep

LEMMA FreshEnd ==
    ASSUME IInv, Fresh, Recorded, NEW c \in Clients, Set(c, Idle), arriving' \subseteq arriving
    PROVE  Fresh'
<1>1. \A d \in Digests : ~Pending(Idle, d)
  BY DEF Pending, Idle
<1> QED
  BY <1>1, FreshOwn DEF Set

LEMMA AwaitFresh ==
    ASSUME IInv, Fresh, Recorded, NEW c \in Clients, NEW d \in Digests, Await(c, d)
    PROVE  Fresh'
<1> DEFINE o == [op[c] EXCEPT !.pc = "await", !.at = d]
<1>1. op[c] \in Operation /\ op[c].kind = "pull" /\ op[c].pc = "fetch"
  BY DEF Await, IInv, Typed
<1>2. op' = [op EXCEPT ![c] = o] /\ op \in [Clients -> Operation]
  BY DEF Await, Set, IInv, Typed
<1>3. \A x \in Clients : op'[x] = IF x = c THEN o ELSE op[x]
  BY <1>2
<1>4. \A e \in Digests : Pending(o, e) => Pending(op[c], e)
  BY <1>1 DEF Pending, Unverified, Operation
<1>5. \A x \in Clients : \A e \in Digests : Pending(op'[x], e) => Pending(op[x], e)
  BY <1>3, <1>4
<1>6. ASSUME NEW x \in Clients, Pending(op[x], d) PROVE d \in exposed
  <2>1. op[x] \in Operation /\ Sound(op[x])
    BY DEF IInv, Typed
  <2>2. d \in op[x].have
    BY <1>6, <2>1 DEF Pending, Unverified, Sound
  <2>3. Writes(op[x], d)
    BY <1>6, <2>2 DEF Pending, Writes
  <2> QED
    BY <2>3 DEF Await, IInv, WritersHave, Kept
<1>7. arriving' = arriving \cup {d} /\ exposed \subseteq exposed'
  BY DEF Await, Recorded
<1>8. \A x \in Clients : \A e \in arriving' : Pending(op'[x], e) => e \in exposed'
  BY <1>5, <1>6, <1>7 DEF Fresh
<1> QED
  BY <1>7, <1>8 DEF Fresh, Pending, Unverified

LEMMA DownloadedFresh ==
    ASSUME IInv, Fresh, Recorded, NEW d \in Digests, Downloaded(d)
    PROVE  Fresh'
<1>1. \A x \in Clients : op[x] \in Operation /\ Sound(op[x]) /\ op'[x] = Arrived(op[x], d)
  BY DEF Downloaded, IInv, Typed
<1>2. \A x \in Clients : \A e \in Digests : Pending(op'[x], e) => Pending(op[x], e) \/ e = d
  BY <1>1, ArrivedFacts
<1>3. arriving' = arriving \ {d} /\ exposed \subseteq exposed'
  BY DEF Downloaded, Recorded
<1>4. \A x \in Clients : \A e \in arriving' : Pending(op'[x], e) => e \in exposed'
  BY <1>2, <1>3 DEF Fresh
<1> QED
  BY <1>3, <1>4 DEF Fresh, Pending, Unverified

LEMMA PullFresh ==
    ASSUME IInv, Fresh, Recorded, NEW c \in Clients, Pull(c)
    PROVE  Fresh'
<1>1. op[c] \in Operation /\ Sound(op[c])
  BY DEF IInv, Typed
<1>2. ASSUME NEW n \in Names, NEW m \in Offers, BeginPull(c, n, m) PROVE Fresh'
  <2> DEFINE o == [Idle EXCEPT !.kind = "pull", !.pc = "fetch", !.name = n,
                              !.manifest = Manifest(m), !.todo = DigestsOf(Manifest(m)),
                              !.old = DigestsOf(manifest[n])]
  <2>1. op' = [op EXCEPT ![c] = o] /\ arriving' = arriving
    BY <1>2 DEF BeginPull, Begin, Set
  <2>2. \A d \in Digests : ~Pending(o, d)
    BY DEF Pending, Unverified, Idle
  <2> QED
    BY <2>1, <2>2, FreshOwn
<1>3. ASSUME NEW d \in Digests, CacheHit(c, d) PROVE Fresh'
  <2> DEFINE o == [op[c] EXCEPT !.todo = @ \ {d}, !.have = @ \cup {d}, !.hits = @ \cup {d},
                                !.old = @ \ {d}]
  <2>1. op' = [op EXCEPT ![c] = o] /\ arriving' = arriving /\ op[c].pc = "fetch"
    BY <1>3 DEF CacheHit, Set
  <2>2. \A e \in Digests : Pending(o, e) => Pending(op[c], e)
    BY <1>1, <2>1 DEF Pending, Unverified, Operation
  <2> QED
    BY <2>1, <2>2, FreshOwn
<1>4. ASSUME NEW d \in Digests, Verify(c, d) PROVE Fresh'
  <2>1. arriving' = arriving /\ op[c].pc = "verify"
    BY <1>4 DEF Verify
  <2>2. CASE Set(c, [op[c] EXCEPT !.todo = @ \ {d}])
    <3>1. \A e \in Digests :
              Pending([op[c] EXCEPT !.todo = @ \ {d}], e) => Pending(op[c], e)
      BY <1>1, <2>1 DEF Pending, Unverified, Operation
    <3> QED
      BY <2>1, <2>2, <3>1, FreshOwn DEF Set
  <2>3. CASE Set(c, [op[c] EXCEPT !.pc = "discard", !.at = d])
    <3>1. \A e \in Digests : ~Pending([op[c] EXCEPT !.pc = "discard", !.at = d], e)
      BY <1>1 DEF Pending, Operation
    <3> QED
      BY <2>1, <2>3, <3>1, FreshOwn DEF Set
  <2> QED
    BY <1>4, <2>1, <2>2, <2>3, FreshEnd DEF Verify
<1>5. ASSUME Fetched(c) PROVE Fresh'
  <2> DEFINE o == [op[c] EXCEPT !.pc = "verify", !.todo = op[c].have \ op[c].hits]
  <2>1. op' = [op EXCEPT ![c] = o] /\ arriving' = arriving /\ op[c].pc = "fetch"
    BY <1>5 DEF Fetched, Set
  <2>2. \A e \in Digests : Pending(o, e) => Pending(op[c], e)
    BY <1>1, <2>1 DEF Pending, Unverified, Operation
  <2> QED
    BY <2>1, <2>2, FreshOwn
<1>6. ASSUME Discard(c) PROVE Fresh'
  BY <1>6, FreshEnd DEF Discard
<1>7. ASSUME Verified(c) PROVE Fresh'
  <2>1. \A e \in Digests : ~Pending([op[c] EXCEPT !.pc = "write"], e)
    BY <1>1 DEF Pending, Operation
  <2> QED
    BY <1>7, <2>1, FreshOwn DEF Verified, Set
<1> QED
  BY <1>2, <1>3, <1>4, <1>5, <1>6, <1>7, AwaitFresh DEF Pull

(* No other operation downloads.                                            *)
LEMMA OtherFresh ==
    ASSUME IInv, Fresh, Recorded, NEW c \in Clients, NEW o,
           Set(c, o), arriving' \subseteq arriving,
           o.kind # "pull" \/ o.pc \notin {"fetch", "await", "verify"}
    PROVE  Fresh'
BY FreshOwn DEF Set, Pending

LEMMA CreateFresh ==
    ASSUME IInv, Fresh, Recorded, NEW c \in Clients, Create(c)
    PROVE  Fresh'
<1>1. op[c] \in Operation
  BY DEF IInv, Typed
<1>2. ASSUME NEW n \in Names, NEW layers, NEW config \in Digests,
             BeginCreate(c, n, layers, config)
      PROVE  Fresh'
  BY <1>2, OtherFresh DEF BeginCreate, Begin, Idle
<1>3. ASSUME NEW d \in Digests, Adopt(c, d) PROVE Fresh'
  <2>1. arriving' = arriving /\ op[c].kind = "create"
    BY <1>3 DEF Adopt
  <2>2. [op[c] EXCEPT !.todo = @ \ {d}, !.have = @ \cup {d}].kind = "create"
    BY <1>1, <2>1 DEF Operation
  <2> QED
    BY <1>3, <2>1, <2>2, OtherFresh, FreshEnd DEF Adopt
<1>4. ASSUME NewConfig(c) PROVE Fresh'
  <2> DEFINE o == [op[c] EXCEPT !.pc = "write", !.have = @ \cup {op[c].manifest.config}]
  <2>1. Set(c, o) /\ arriving' = arriving /\ o.pc = "write"
    BY <1>1, <1>4 DEF NewConfig, Operation
  <2> QED
    BY <2>1, OtherFresh
<1> QED
  BY <1>2, <1>3, <1>4 DEF Create, CreateFrom, CreateFromFile

LEMMA WriteFresh ==
    ASSUME IInv, Fresh, Recorded, NEW c \in Clients, Write(c)
    PROVE  Fresh'
<1>1. op[c] \in Operation
  BY DEF IInv, Typed
<1>2. ASSUME NEW source \in Names, NEW n \in Names, BeginCopy(c, source, n) PROVE Fresh'
  BY <1>2, OtherFresh DEF BeginCopy, Begin, Idle
<1>3. ASSUME Abort(c) PROVE Fresh'
  BY <1>3, FreshEnd DEF Abort
<1>4. ASSUME Truncate(c) PROVE Fresh'
  <2>1. [op[c] EXCEPT !.pc = "encode"].pc = "encode"
    BY <1>1 DEF Operation
  <2> QED
    BY <1>4, <2>1, OtherFresh DEF Truncate
<1>5. ASSUME Encode(c) PROVE Fresh'
  <2>1. [op[c] EXCEPT !.pc = "glob"].pc = "glob" /\ Idle.pc = "idle"
    BY <1>1 DEF Operation, Idle
  <2> QED
    BY <1>5, <2>1, OtherFresh DEF Encode
<1> QED
  BY <1>2, <1>3, <1>4, <1>5 DEF Write

LEMMA DeleteFresh ==
    ASSUME IInv, Fresh, Recorded, NEW c \in Clients, Delete(c)
    PROVE  Fresh'
<1>1. op[c] \in Operation
  BY DEF IInv, Typed
<1>2. ASSUME NEW n \in Names, BeginDelete(c, n) PROVE Fresh'
  BY <1>2, OtherFresh DEF BeginDelete, Begin, Idle
<1>3. ASSUME NEW n \in Names, Read(c, n) PROVE Fresh'
  <2> DEFINE o == [op[c] EXCEPT !.names = @ \ {n}, !.old = @ \ InUse(manifest[n])]
  <2>1. (Set(c, o) \/ Set(c, Idle)) /\ arriving' = arriving /\ o.pc = "scan"
    BY <1>1, <1>3 DEF Read, Operation
  <2> QED
    BY <2>1, OtherFresh, FreshEnd
<1>4. ASSUME Unlink(c) PROVE Fresh'
  <2>1. op[c].name \in Names /\ arriving' = arriving
    BY <1>4 DEF Unlink, IInv, Sound
  <2>2. \A d \in Digests : ~Pending(Idle, d) /\ ~Pending([op[c] EXCEPT !.pc = "glob"], d)
    BY <1>1 DEF Pending, Operation, Idle
  <2>3. ASSUME NEW x \in Clients, NEW d \in Digests, x # c
        PROVE  Pending(Detached(op[x], op[c].name), d) => Pending(op[x], d)
    <3>1. op[x] \in Operation
      BY DEF IInv, Typed
    <3> QED
      BY <3>1 DEF Detached, Pending, Unverified, Operation
  <2>4. \A x \in Clients : \A d \in Digests : Pending(op'[x], d) => Pending(op[x], d)
    BY <1>4, <2>2, <2>3 DEF Unlink
  <2> QED
    BY <2>1, <2>4, FreshStep
<1>5. ASSUME Glob(c) PROVE Fresh'
  <2> DEFINE o == [op[c] EXCEPT !.pc = "scan",
                                !.names = {n \in Names : manifest[n].is # "missing"}]
  <2>1. Set(c, o) /\ arriving' = arriving /\ o.pc = "scan"
    BY <1>1, <1>5 DEF Glob, Operation
  <2> QED
    BY <2>1, OtherFresh
<1>6. ASSUME Removed(c) PROVE Fresh'
  BY <1>6, FreshEnd DEF Removed
<1>7. ASSUME NEW d \in Digests, Remove(c, d) PROVE Fresh'
  <2>1. [op[c] EXCEPT !.old = @ \ {d}].pc = "scan"
    BY <1>1, <1>7 DEF Remove, Operation
  <2> QED
    BY <1>7, <2>1, OtherFresh DEF Remove
<1> QED
  BY <1>2, <1>3, <1>4, <1>5, <1>6, <1>7 DEF Delete

LEMMA FreshInv == IInv /\ Fresh /\ Next => Fresh'
<1> SUFFICES ASSUME IInv, Fresh, Next PROVE Fresh'
  OBVIOUS
<1>1. Recorded /\ Step
  BY DEF Next, Recorded
<1>2. ASSUME NEW d \in Digests, CreateBlob(d) PROVE Fresh'
  BY <1>1, <1>2, FreshStep DEF CreateBlob
<1>3. ASSUME Restart PROVE Fresh'
  <2>1. arriving' = {}
    BY <1>3 DEF Restart
  <2> QED
    BY <2>1 DEF Fresh
<1> QED
  BY <1>1, <1>2, <1>3, PullFresh, CreateFresh, WriteFresh, DeleteFresh, DownloadedFresh
     DEF Step

LEMMA IInvAlways == Spec => [](IInv /\ Fresh)
<1>1. Init => Fresh
  BY DEF Init, Fresh
<1>2. Fresh /\ UNCHANGED vars => Fresh'
  BY DEF Fresh, Pending, Unverified, vars
<1>3. IInv /\ Fresh /\ [Next]_vars => (IInv /\ Fresh)'
  BY <1>2, StepInv, FreshInv, StutterInv
<1> QED
  BY IInvInit, <1>1, <1>3, PTL DEF Spec

-----------------------------------------------------------------------------
(* Every variable has its type, and a pull that writes its manifest has     *)
(* every blob of it and removes none of them.                               *)
THEOREM TypeCorrect == Spec => []TypeOK
<1>1. IInv /\ Fresh => TypeOK
  BY DEF IInv, Fresh, Typed, TypeOK, Sound
<1> QED
  BY IInvAlways, <1>1, PTL

(* However many operations there are at a time, and wherever the server     *)
(* stops, a blob of a model is lost only if one of them was about to remove *)
(* it while another was about to write a manifest with it.                  *)
THEOREM ModelsKeepTheirBlobs == Spec => []BlobsAreKept
<1>1. IInv => BlobsAreKept
  BY DEF IInv
<1> QED
  BY IInvAlways, <1>1, PTL
=============================================================================
