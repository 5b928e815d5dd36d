----------------------------- MODULE LayerStore -----------------------------
(***************************************************************************)
(* The models directory: blobs, named by their digests, and manifests that *)
(* name blobs, shared by every model that has them (manifest/manifest.go,  *)
(* manifest/layer.go, and the handlers in server/ that pull, create, copy  *)
(* and delete models).  There is no lock.  An operation that replaces or   *)
(* deletes a manifest reads all the others, one by one, and removes the    *)
(* blobs that none of them names.  The server may stop at any moment; when *)
(* it starts again it removes what no manifest names, unless one is torn.  *)
(*                                                                         *)
(* How a blob is downloaded is in BlobDownload; here it arrives, with the  *)
(* right content or a wrong one.                                           *)
(***************************************************************************)
EXTENDS Naturals, FiniteSets

CONSTANTS
    Clients,    \* requests under way at a time
    Names,      \* of models
    Digests,
    Offers,     \* the manifests that the registry may answer a pull with
    None,
    MaxBegun,   \* bounds the operations begun
    MaxCrashes  \* bounds the restarts

ASSUME NoneAssumption == None \notin Names \cup Digests
ASSUME OffersAssumption == Offers \subseteq [layers : SUBSET Digests, config : Digests]
ASSUME BoundsAssumption == MaxBegun \in Nat /\ MaxCrashes \in Nat

VARIABLES
    blob,      \* the file of each digest
    manifest,  \* the file of each name
    arriving,  \* the digests that a download is to end with
    op,        \* the operation of each client
    begun,     \* operations begun so far
    crashes,   \* restarts so far
    exposed    \* history: digests that one client was to write the name of
               \* while another was to remove the blob

vars == <<blob, manifest, arriving, op, begun, crashes, exposed>>

Files == {"absent", "good", "bad"}

Manifest(m) == [is |-> "whole", layers |-> m.layers, config |-> m.config]

(* A file that does not exist, and one that is truncated and not written.   *)
Missing == [is |-> "missing", layers |-> {}, config |-> None]
Torn == [is |-> "torn", layers |-> {}, config |-> None]

Manifests ==
    [is : {"whole"}, layers : SUBSET Digests, config : Digests] \cup {Missing, Torn}

DigestsOf(m) == IF m.is = "whole" THEN m.layers \cup {m.config} ELSE {}

(* Where an operation is, the name it writes or deletes, the manifest it is *)
(* to write, the digests left to fetch or verify and those it has found,    *)
(* the digests it may remove, and the names left to read.                   *)
Operation ==
    [kind : {"none", "pull", "create", "copy", "delete"},
     pc : {"idle", "fetch", "await", "verify", "discard", "write", "encode",
           "unlink", "glob", "scan"},
     name : Names \cup {None}, from : Names \cup {None}, manifest : Manifests,
     todo : SUBSET Digests, have : SUBSET Digests, hits : SUBSET Digests,
     at : Digests \cup {None}, old : SUBSET Digests, names : SUBSET Names]

Idle ==
    [kind |-> "none", pc |-> "idle", name |-> None, from |-> None, manifest |-> Missing,
     todo |-> {}, have |-> {}, hits |-> {}, at |-> None, old |-> {}, names |-> {}]

Set(c, new) == op' = [op EXCEPT ![c] = new]

Begin(c, new) ==
    /\ op[c].pc = "idle" /\ begun < MaxBegun
    /\ begun' = begun + 1
    /\ Set(c, new)
    /\ UNCHANGED <<arriving, blob, manifest, crashes>>

-----------------------------------------------------------------------------
(* PullModel.                                                               *)

(* Seeded fault: the config is not among the layers to download.            *)
BeginPullLayers(c, n, m) ==
    Begin(c, [Idle EXCEPT !.kind = "pull", !.pc = "fetch", !.name = n, !.manifest = Manifest(m),
                          !.todo = m.layers, !.old = DigestsOf(manifest[n])])

BeginPull(c, n, m) ==
    Begin(c, [Idle EXCEPT !.kind = "pull", !.pc = "fetch", !.name = n, !.manifest = Manifest(m),
                          !.todo = DigestsOf(Manifest(m)), !.old = DigestsOf(manifest[n])])

(* downloadBlob finds the blob: it will not be verified.                    *)
CacheHit(c, d) ==
    LET o == op[c] IN
    /\ o.kind = "pull" /\ o.pc = "fetch" /\ d \in o.todo /\ blob[d] # "absent"
    /\ Set(c, [o EXCEPT !.todo = @ \ {d}, !.have = @ \cup {d}, !.hits = @ \cup {d},
                        !.old = @ \ {d}])
    /\ UNCHANGED <<arriving, blob, manifest, begun, crashes>>

(* It does not, and joins or starts a download.                             *)
Await(c, d) ==
    LET o == op[c] IN
    /\ o.kind = "pull" /\ o.pc = "fetch" /\ d \in o.todo /\ blob[d] = "absent"
    /\ Set(c, [o EXCEPT !.pc = "await", !.at = d])
    /\ arriving' = arriving \cup {d}
    /\ UNCHANGED <<blob, manifest, begun, crashes>>

Awaits(o, d) == o.pc = "await" /\ o.at = d

(* The download that has ended is renamed over whatever has its name.       *)
Arrived(o, d) ==
    IF Awaits(o, d)
    THEN [o EXCEPT !.pc = "fetch", !.at = None, !.todo = @ \ {d}, !.have = @ \cup {d},
                   !.old = @ \ {d}]
    ELSE o

Downloaded(d) ==
    /\ d \in arriving
    /\ arriving' = arriving \ {d}
    /\ \E content \in {"good", "bad"} : blob' = [blob EXCEPT ![d] = content]
    /\ op' = [c \in Clients |-> Arrived(op[c], d)]
    /\ UNCHANGED <<manifest, begun, crashes>>

(* The client leaves, or a request fails.  A download that nobody awaits is *)
(* cancelled, unless it is past that.                                       *)
Abort(c) ==
    /\ op[c].pc \in {"fetch", "await"} \/ (op[c].kind = "create" /\ op[c].pc = "write")
    /\ Set(c, Idle)
    /\ \/ UNCHANGED arriving
       \/ /\ \A x \in Clients \ {c} : ~Awaits(op[x], op[c].at)
          /\ arriving' = arriving \ {op[c].at}
    /\ UNCHANGED <<blob, manifest, begun, crashes>>

Fetched(c) ==
    LET o == op[c] IN
    /\ o.kind = "pull" /\ o.pc = "fetch" /\ o.todo = {}
    /\ Set(c, [o EXCEPT !.pc = "verify", !.todo = o.have \ o.hits])
    /\ UNCHANGED <<arriving, blob, manifest, begun, crashes>>

Verify(c, d) ==
    LET o == op[c] IN
    /\ o.pc = "verify" /\ d \in o.todo
    /\ \/ blob[d] = "good" /\ Set(c, [o EXCEPT !.todo = @ \ {d}])
       \/ blob[d] = "bad" /\ Set(c, [o EXCEPT !.pc = "discard", !.at = d])
       \/ blob[d] = "absent" /\ Set(c, Idle)
    /\ UNCHANGED <<arriving, blob, manifest, begun, crashes>>

(* Whatever has the name of the blob by now is removed.                     *)
Discard(c) ==
    /\ op[c].pc = "discard"
    /\ blob' = [blob EXCEPT ![op[c].at] = "absent"]
    /\ Set(c, Idle)
    /\ UNCHANGED <<arriving, manifest, begun, crashes>>

Verified(c) ==
    /\ op[c].pc = "verify" /\ op[c].todo = {}
    /\ Set(c, [op[c] EXCEPT !.pc = "write"])
    /\ UNCHANGED <<arriving, blob, manifest, begun, crashes>>

-----------------------------------------------------------------------------
(* CreateHandler: the layers of another model, or an uploaded file, with a  *)
(* new config.                                                              *)
BeginCreate(c, n, layers, config) ==
    Begin(c, [Idle EXCEPT !.kind = "create", !.pc = "fetch", !.name = n, !.todo = layers,
                          !.manifest = Manifest([layers |-> layers, config |-> config]),
                          !.old = DigestsOf(manifest[n])])

CreateFrom(c, n, source, config) ==
    /\ manifest[source].is = "whole" /\ blob[manifest[source].config] # "absent"
    /\ BeginCreate(c, n, manifest[source].layers, config)

CreateFromFile(c, n, d, config) ==
    /\ blob[d] # "absent"
    /\ BeginCreate(c, n, {d}, config)

(* NewLayerFromLayer.                                                       *)
Adopt(c, d) ==
    LET o == op[c] IN
    /\ o.kind = "create" /\ o.pc = "fetch" /\ d \in o.todo
    /\ Set(c, IF blob[d] = "absent" THEN Idle
              ELSE [o EXCEPT !.todo = @ \ {d}, !.have = @ \cup {d}])
    /\ UNCHANGED <<arriving, blob, manifest, begun, crashes>>

(* NewLayer: a blob that is there is used.                                  *)
WithBlob(d) == blob' = [blob EXCEPT ![d] = IF @ = "absent" THEN "good" ELSE @]

NewConfig(c) ==
    LET o == op[c] IN
    /\ o.kind = "create" /\ o.pc = "fetch" /\ o.todo = {}
    /\ WithBlob(o.manifest.config)
    /\ Set(c, [o EXCEPT !.pc = "write", !.have = @ \cup {o.manifest.config}])
    /\ UNCHANGED <<arriving, manifest, begun, crashes>>

(* CreateBlobHandler.                                                       *)
CreateBlob(d) ==
    /\ blob[d] = "absent" /\ begun < MaxBegun
    /\ begun' = begun + 1
    /\ WithBlob(d)
    /\ UNCHANGED <<arriving, manifest, op, crashes>>

-----------------------------------------------------------------------------
(* CopyModel: the source is opened, and read when the copy is there.        *)
BeginCopy(c, source, n) ==
    /\ source # n /\ manifest[source].is # "missing"
    /\ Begin(c, [Idle EXCEPT !.kind = "copy", !.pc = "write", !.name = n, !.from = source])

(* What an operation writes.                                                *)
Content(o) == IF o.from = None THEN o.manifest ELSE manifest[o.from]

(* WriteManifest, os.WriteFile and CopyModel truncate the file first.       *)
Truncate(c) ==
    LET o == op[c] IN
    /\ o.pc = "write"
    /\ manifest' = [manifest EXCEPT ![o.name] = Torn]
    /\ Set(c, [o EXCEPT !.pc = "encode"])
    /\ UNCHANGED <<arriving, blob, begun, crashes>>

(* The file may have been deleted meanwhile.                                *)
Encode(c) ==
    LET o == op[c] IN
    /\ o.pc = "encode"
    /\ manifest' = IF o.name = None THEN manifest
                   ELSE [manifest EXCEPT ![o.name] = Content(o)]
    /\ Set(c, IF o.old = {} THEN Idle ELSE [o EXCEPT !.pc = "glob"])
    /\ UNCHANGED <<arriving, blob, begun, crashes>>

-----------------------------------------------------------------------------
(* DeleteHandler.                                                           *)
BeginDelete(c, n) ==
    /\ manifest[n].is = "whole"
    /\ Begin(c, [Idle EXCEPT !.kind = "delete", !.pc = "unlink", !.name = n,
                             !.old = DigestsOf(manifest[n])])

(* Who has the file open goes on with it.                                   *)
Detached(o, n) ==
    [o EXCEPT !.name = IF o.pc = "encode" /\ @ = n THEN None ELSE @,
              !.manifest = IF o.from = n THEN manifest[n] ELSE @,
              !.from = IF @ = n THEN None ELSE @]

Unlink(c) ==
    LET o == op[c] IN
    /\ o.pc = "unlink"
    /\ manifest' = [manifest EXCEPT ![o.name] = Missing]
    /\ op' = [x \in Clients |->
                  IF x # c THEN Detached(op[x], o.name)
                  ELSE IF manifest[o.name].is = "missing" THEN Idle ELSE [o EXCEPT !.pc = "glob"]]
    /\ UNCHANGED <<arriving, blob, begun, crashes>>

-----------------------------------------------------------------------------
(* deleteUnusedLayers and RemoveLayers.                                     *)

Glob(c) ==
    LET o == op[c] IN
    /\ o.pc = "glob"
    /\ Set(c, [o EXCEPT !.pc = "scan", !.names = {n \in Names : manifest[n].is # "missing"}])
    /\ UNCHANGED <<arriving, blob, manifest, begun, crashes>>

(* Seeded fault: the config of another model is not counted.                *)
InUseLayers(m) == IF m.is = "whole" THEN m.layers ELSE {}

InUse(m) == DigestsOf(m)

(* A torn manifest is skipped.  One that is gone ends the scan with an      *)
(* error, unless it went after the file was found.                          *)
Read(c, n) ==
    LET o == op[c] IN
    /\ o.pc = "scan" /\ n \in o.names
    /\ \/ Set(c, [o EXCEPT !.names = @ \ {n}, !.old = @ \ InUse(manifest[n])])
       \/ manifest[n].is = "missing" /\ Set(c, Idle)
    /\ UNCHANGED <<arriving, blob, manifest, begun, crashes>>

Remove(c, d) ==
    LET o == op[c] IN
    /\ o.pc = "scan" /\ o.names = {} /\ d \in o.old
    /\ blob' = [blob EXCEPT ![d] = "absent"]
    /\ Set(c, [o EXCEPT !.old = @ \ {d}])
    /\ UNCHANGED <<arriving, manifest, begun, crashes>>

Removed(c) ==
    /\ op[c].pc = "scan" /\ op[c].names = {} /\ op[c].old = {}
    /\ Set(c, Idle)
    /\ UNCHANGED <<arriving, blob, manifest, begun, crashes>>

(* The server stops and starts: Serve and PruneLayers.  A blob of the last  *)
(* hour is kept, and a prune that is cut short removes some of the rest.    *)
Unreferenced == {d \in Digests : \A n \in Names : d \notin InUse(manifest[n])}

Restart ==
    /\ crashes < MaxCrashes
    /\ crashes' = crashes + 1
    /\ op' = [c \in Clients |-> Idle]
    /\ \E pruned \in SUBSET Unreferenced :
        /\ pruned # {} => \A n \in Names : manifest[n].is # "torn"
        /\ blob' = [d \in Digests |-> IF d \in pruned THEN "absent" ELSE blob[d]]
    /\ arriving' = {}
    /\ UNCHANGED <<manifest, begun>>

-----------------------------------------------------------------------------
Init ==
    /\ blob = [d \in Digests |-> "absent"]
    /\ manifest = [n \in Names |-> Missing]
    /\ arriving = {}
    /\ op = [c \in Clients |-> Idle]
    /\ begun = 0
    /\ crashes = 0
    /\ exposed = {}

Pull(c) ==
    \/ \E n \in Names, m \in Offers : BeginPull(c, n, m)
    \/ \E d \in Digests : CacheHit(c, d) \/ Await(c, d) \/ Verify(c, d)
    \/ Fetched(c) \/ Discard(c) \/ Verified(c)

Create(c) ==
    \/ \E n, source \in Names, config \in Digests : CreateFrom(c, n, source, config)
    \/ \E n \in Names, d, config \in Digests : CreateFromFile(c, n, d, config)
    \/ \E d \in Digests : Adopt(c, d)
    \/ NewConfig(c)

Write(c) ==
    \/ \E source, n \in Names : BeginCopy(c, source, n)
    \/ Abort(c) \/ Truncate(c) \/ Encode(c)

Delete(c) ==
    \/ \E n \in Names : BeginDelete(c, n) \/ Read(c, n)
    \/ Unlink(c) \/ Glob(c) \/ Removed(c)
    \/ \E d \in Digests : Remove(c, d)

(* An operation has found the blob of d and is to write a manifest with it. *)
Writes(o, d) ==
    /\ o.pc \in {"fetch", "await", "verify", "write", "encode"}
    /\ d \in (IF o.kind = "copy" THEN DigestsOf(Content(o)) ELSE o.have)

(* An operation may remove the blob of d: it has begun to read manifests,   *)
(* or may have downloaded something else in its place.                      *)
Scans(o, d) == o.pc = "scan" /\ d \in o.old

Unverified(o) == IF o.pc = "verify" THEN o.todo ELSE o.have \ o.hits

Replaces(o, d) ==
    \/ o.pc \in {"await", "discard"} /\ o.at = d
    \/ /\ o.kind = "pull" /\ o.pc \in {"fetch", "await", "verify"}
       /\ blob[d] = "bad" /\ d \in Unverified(o)

Contended ==
    {d \in Digests : \E c, x \in Clients :
        c # x /\ Writes(op[c], d) /\ (Scans(op[x], d) \/ Replaces(op[x], d))}

Step ==
    \/ \E c \in Clients : Pull(c) \/ Create(c) \/ Write(c) \/ Delete(c)
    \/ \E d \in Digests : Downloaded(d) \/ CreateBlob(d)
    \/ Restart

Next == Step /\ exposed' = exposed \cup Contended'

Spec == Init /\ [][Next]_vars

-----------------------------------------------------------------------------
(* Properties.                                                              *)

(* Every variable has its type, and a pull that writes its manifest has     *)
(* found or downloaded every blob of it and will remove none of them        *)
(* (images.go:1074).                                                        *)
TypeOK ==
    /\ blob \in [Digests -> Files]
    /\ manifest \in [Names -> Manifests]
    /\ op \in [Clients -> Operation]
    /\ \A c \in Clients : op[c].kind = "pull" /\ op[c].pc \in {"write", "encode", "glob", "scan"} =>
           op[c].have = DigestsOf(op[c].manifest) /\ op[c].old \cap op[c].have = {}
    /\ begun \in 0 .. MaxBegun /\ crashes \in 0 .. MaxCrashes
    /\ arriving \subseteq Digests /\ exposed \subseteq Digests

(* The blobs of every model are there, whatever is pulled, created, copied  *)
(* and deleted beside it and wherever the server stops: a blob is lost only *)
(* if one operation was about to remove it while another was about to write *)
(* a manifest with it (manifest.go:102, images.go:845).                     *)
BlobsAreKept ==
    \A n \in Names : \A d \in DigestsOf(manifest[n]) : blob[d] # "absent" \/ d \in exposed
=============================================================================
