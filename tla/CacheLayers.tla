---------------------------- MODULE CacheLayers ----------------------------
(***************************************************************************)
(* The per-layer caches of the MLX runner (mlxrunner/cache) and their      *)
(* snapshots, as operators on the state of a prefix cache.                 *)
(*                                                                         *)
(* An attention layer (KVCache) keeps one entry per token in a buffer and  *)
(* can be rewound by moving its offset.  An entry is modelled by the tokens *)
(* it was computed from: its own, all before it and, in an image, those of *)
(* the image that are in the same batch.  A snapshot is lazy as long as    *)
(* its entries are still in the buffer; they are copied out, and only then *)
(* counted in bytes, before a write takes their place.                     *)
(* A recurrent layer (RecurrentCache) keeps one state for all tokens so    *)
(* far, modelled by these tokens, and cannot be rewound.                   *)
(*                                                                         *)
(* The state c of a prefix cache has the fields                            *)
(*   layers  the kinds of the layers of the model in their order           *)
(*   trie    a function from the keys of nodes (the tokens from the root)  *)
(*   kv      the attention layer: buffer and offset                        *)
(*   rec     the recurrent layer: <<>> when it holds nothing               *)
(*   bytes   pagedOutBytes                                                 *)
(* and others that PrefixCache adds.                                       *)
(***************************************************************************)
EXTENDS Naturals, Sequences, FiniteSetsExt, SequencesExt

CONSTANTS
    Images,   \* tokens that stand for images: the tokens of an image are a
              \* run of one of them, which its bytes determine
    RecBytes  \* the size of a recurrent state, an entry being of size 1

ASSUME SizeAssumption == RecBytes \in Nat

(* Images, whose tokens attend to each other: the tokens of stream from     *)
(* ItemStart + 1 to ItemEnd belong together with token n.                   *)
InsideItem(stream, n) == n \in 1 .. Len(stream) - 1 /\ stream[n] \in Images /\ stream[n + 1] = stream[n]
ItemEnd(stream, n) ==
    CHOOSE e \in n .. Len(stream) : ~InsideItem(stream, e) /\ \A i \in n .. e - 1 : InsideItem(stream, i)
ItemStart(stream, n) ==
    CHOOSE e \in 0 .. n : ~InsideItem(stream, e) /\ \A i \in e + 1 .. n : InsideItem(stream, i)

(* A snapshot of the entries from + 1 .. to; none has no entries.           *)
NoSnapshot == [from |-> 0, to |-> 0, lazy |-> FALSE, data |-> <<>>]
Lazy(from, to) ==
    IF to <= from THEN NoSnapshot ELSE [from |-> from, to |-> to, lazy |-> TRUE, data |-> <<>>]

Entries(c, snap) == IF snap.lazy THEN SubSeq(c.kv.buf, snap.from + 1, snap.to) ELSE snap.data

Owned(c, snap) == [snap EXCEPT !.lazy = FALSE, !.data = Entries(c, snap)]

KvSize(snap) == Len(snap.data)
RecSize(state) == IF state = <<>> THEN 0 ELSE RecBytes
SnapshotBytes(node) == KvSize(node.kv) + RecSize(node.rec)

-----------------------------------------------------------------------------
(* Writing to the attention layer.                                          *)

(* Seeded fault: the hook of the byte count is not called.                  *)
CopyOutUncounted(c, hit) ==
    [c EXCEPT !.trie = [k \in DOMAIN c.trie |->
        IF k \in hit THEN [c.trie[k] EXCEPT !.kv = Owned(c, @)] ELSE c.trie[k]]]

(* copyOut of the snapshots of the nodes hit, with the hook that counts.    *)
CopyOut(c, hit) ==
    [c EXCEPT !.trie = [k \in DOMAIN c.trie |->
                  IF k \in hit THEN [c.trie[k] EXCEPT !.kv = Owned(c, @)] ELSE c.trie[k]],
              !.bytes = @ + SumFunctionOnSet([k \in DOMAIN c.trie |-> c.trie[k].kv.to - c.trie[k].kv.from], hit)]

(* Seeded fault: a snapshot that begins in the last slot is left out.       *)
OverlapsMore(snap, first, end) == snap.lazy /\ snap.from + 1 < end /\ snap.to > first

Overlaps(snap, first, end) == snap.lazy /\ snap.from < end /\ snap.to > first

AppendKV(c, entries) ==
    LET prev == c.kv.off
        end == prev + Len(entries)
        d == CopyOut(c, {k \in DOMAIN c.trie : Overlaps(c.trie[k].kv, prev, end)})
    IN [d EXCEPT !.kv = [buf |-> SubSeq(@.buf, 1, prev) \o entries
                                   \o SubSeq(@.buf, end + 1, Len(@.buf)),
                         off |-> end]]

(* The forward pass over the tokens of the stream up to end as one batch.   *)
Forward(c, stream, end) ==
    LET batch == SubSeq(stream, 1, end)
        d == IF "kv" \in ToSet(c.layers)
             THEN AppendKV(c, [i \in 1 .. end - c.kv.off |->
                                 SubSeq(batch, 1, ItemEnd(batch, c.kv.off + i))])
             ELSE c
    IN IF "rec" \in ToSet(c.layers)
       THEN [d EXCEPT !.rec = @ \o SubSeq(stream, Len(@) + 1, end)] ELSE d

-----------------------------------------------------------------------------
(* The interface of a layer.                                                *)

Offset(c, layer) == IF layer = "kv" THEN c.kv.off ELSE Len(c.rec)

MinCacheOffset(c) == Min({Offset(c, layer) : layer \in ToSet(c.layers)})

HasSnapshot(node, layer) == IF layer = "kv" THEN node.kv # NoSnapshot ELSE node.rec # <<>>

Free(c, layer) ==
    IF layer = "kv"
    THEN [CopyOut(c, {k \in DOMAIN c.trie : c.trie[k].kv.lazy})
            EXCEPT !.kv = [buf |-> <<>>, off |-> 0]]
    ELSE [c EXCEPT !.rec = <<>>]

(* Restore(nil, target).                                                    *)
CanRewind(c, layer, target) ==
    IF layer = "kv" THEN target <= c.kv.off ELSE target = Len(c.rec)

Rewind(c, layer, target) == IF layer = "kv" THEN [c EXCEPT !.kv.off = target] ELSE c

(* Restore(snapshot, target), the snapshot being that of node key.          *)
CanRestore(c, layer, key, target) ==
    IF layer = "kv"
    THEN target <= c.trie[key].kv.to /\ c.kv.off >= c.trie[key].kv.from
    ELSE target = Len(c.trie[key].rec)

Restore(c, layer, key, target) ==
    LET snap == c.trie[key].kv IN
    IF layer = "rec" THEN [c EXCEPT !.rec = c.trie[key].rec]
    ELSE IF snap.lazy THEN [c EXCEPT !.kv.off = Min({target, snap.to})]
    ELSE LET d == AppendKV([c EXCEPT !.kv.off = snap.from], snap.data)
         IN [d EXCEPT !.kv.off = Min({target, @})]

(* Split(snapshot, at): entries are divided, a state belongs to the tail.   *)
Part(snap, from, to) ==
    [snap EXCEPT !.from = from, !.to = to,
                 !.data = IF snap.lazy THEN @ ELSE SubSeq(@, from - snap.from + 1, to - snap.from)]

SplitHead(snap, at) ==
    IF at <= snap.from THEN NoSnapshot
    ELSE IF at >= snap.to THEN snap ELSE Part(snap, snap.from, at)

SplitTail(snap, at) ==
    IF at <= snap.from THEN snap
    ELSE IF at >= snap.to THEN NoSnapshot ELSE Part(snap, at, snap.to)

(* Merge(parent, child): both are lost if either is missing.                *)
MergeKv(c, p, ch) ==
    IF p = NoSnapshot \/ ch = NoSnapshot THEN NoSnapshot
    ELSE IF p.lazy /\ ch.lazy /\ p.to = ch.from THEN Lazy(p.from, ch.to)
    ELSE [from |-> p.from, to |-> ch.to, lazy |-> FALSE, data |-> Entries(c, p) \o Entries(c, ch)]
=============================================================================
