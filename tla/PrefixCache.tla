---------------------------- MODULE PrefixCache ----------------------------
(***************************************************************************)
(* The cache of prompts of the MLX runner (mlxrunner/prefix_cache.go,      *)
(* cache_trie.go).  What the layers computed for earlier requests is kept  *)
(* as snapshots in a trie of tokens, of which one path is in the layers    *)
(* themselves.  A request goes over to the path that matches it best,      *)
(* evaluates the rest of its prompt, capturing snapshots on its way,       *)
(* decodes, and leaves what it added in the trie; snapshots that take too  *)
(* much memory are evicted.                                                *)
(*                                                                         *)
(* A node is named by its key, the tokens from the root to its end: its    *)
(* parent is the longest proper prefix of the key that is a node, to split *)
(* a node is to add one between, to merge is to drop one.                  *)
(*                                                                         *)
(* One goroutine serves one request at a time, so a step is a whole        *)
(* operation; between them the request may be cancelled.  Which layers the *)
(* model has is chosen at the start.                                       *)
(***************************************************************************)
EXTENDS CacheLayers

CONSTANTS
    Models,           \* the layers of a model in their order: "kv", "rec"
    Tokens,           \* the tokens of prompts and answers
    Prompts,          \* the prompts of requests
    Answers,          \* what the model may answer, to any prompt
    SnapshotInterval, \* snapshotInterval and preThinking: where prefill is to
    PreThinking,      \* capture snapshots that are kept
    PrefillChunk,     \* prefillChunkSize()
    MaxPagedOutBytes, \* maxPagedOutBytes
    MaxRequests       \* bound: requests served

ASSUME ModelsAssumption ==
    Models \subseteq Seq({"kv", "rec"}) \ {<<>>}
(* No prompt ends with an image: extendChunk would cut the image there.     *)
ASSUME PromptsAssumption ==
    /\ Prompts \cup Answers \subseteq Seq(Tokens)
    /\ \A t \in Prompts : t # <<>> /\ Last(t) \notin Images
ASSUME BoundsAssumption ==
    /\ {PreThinking, MaxPagedOutBytes, MaxRequests} \subseteq Nat
    /\ {SnapshotInterval, PrefillChunk} \subseteq Nat \ {0}

VARIABLES
    c,        \* the prefix cache: what CacheLayers says, the active path, the
              \* clock, and whether it has panicked
    s,        \* the session of the request being served
    requests  \* how many have been

vars == <<c, s, requests>>

-----------------------------------------------------------------------------
(* The trie.                                                                *)

NewNode(used) == [kv |-> NoSnapshot, rec |-> <<>>, used |-> used, user |-> FALSE]

Common(k, t) == Len(LongestCommonPrefix({k, t}))
Root == <<>>

ParentOf(T, k) ==
    LET above == {p \in DOMAIN T : IsStrictPrefix(p, k)}
    IN CHOOSE p \in above : \A o \in above : Len(o) <= Len(p)
StartOffset(T, k) == IF k = Root THEN 0 ELSE Len(ParentOf(T, k))
Children(T, k) == {d \in DOMAIN T \ {Root} : ParentOf(T, d) = k}

Put(T, k, node) == [j \in DOMAIN T \cup {k} |-> IF j = k THEN node ELSE T[j]]
Drop(T, k) == [j \in DOMAIN T \ {k} |-> T[j]]

(* The members of S, no two of one size, with the smallest first.           *)
Ascending(S, Size(_)) ==
    [i \in 1 .. Cardinality(S) |->
        CHOOSE x \in S : Cardinality({y \in S : Size(y) < Size(x)}) = i - 1]

(* findBestMatch: the nodes at or below from with a token of their edge in  *)
(* common with the tokens t, and how many tokens of t they cover.           *)
MatchPath(T, from, t) ==
    Ascending({from} \cup {k \in DOMAIN T : IsStrictPrefix(from, k) /\ Common(k, t) > StartOffset(T, k)},
              Len)
Matched(T, from, t) == Common(Last(MatchPath(T, from, t)), t)

(* The schedule of captures: nothing, or the offset it was made at.         *)
NoCaptures == [on |-> FALSE, base |-> 0]

Panic(d) == [d EXCEPT !.panicked = TRUE]

Touch(d, k) == [d EXCEPT !.trie[k].used = d.clock + 1, !.clock = @ + 1]

(* splitNode at offset at, counted from the root.                           *)
SplitNode(d, k, at) ==
    LET node == d.trie[k]
        parent == [NewNode(node.used) EXCEPT !.kv = SplitHead(node.kv, at)]
        child == [node EXCEPT !.kv = SplitTail(node.kv, at)]
    IN IF at <= StartOffset(d.trie, k) \/ at >= Len(k) THEN Panic(d)
       ELSE [d EXCEPT
           !.trie = Put(Put(@, k, child), SubSeq(k, 1, at), parent),
           !.bytes = @ - SnapshotBytes(node) + SnapshotBytes(parent) + SnapshotBytes(child)]

(* mergeWithChild: node k and its only child become one, which the path     *)
(* knows under the name of the child.                                       *)
MergeWithChild(d, k) ==
    LET node == d.trie[k]
        Merged(child) == [kv   |-> MergeKv(d, node.kv, d.trie[child].kv),
                          rec  |-> d.trie[child].rec,
                          used |-> Max({node.used, d.trie[child].used}),
                          user |-> d.trie[child].user]
        Renamed(child) == [i \in DOMAIN d.path |-> IF d.path[i] = k THEN child ELSE d.path[i]]
        Joined(child, new) ==
            [d EXCEPT
               !.trie = Put(Drop(@, k), child, new),
               !.path = IF Contains(@, child) /\ Contains(@, k)
                        THEN RemoveAt(@, CHOOSE i \in DOMAIN @ : @[i] = k) ELSE Renamed(child),
               !.bytes = @ - SnapshotBytes(node) - SnapshotBytes(d.trie[child]) + SnapshotBytes(new)]
        Join(child) == Joined(child, Merged(child))
    IN IF Cardinality(Children(d.trie, k)) # 1 THEN Panic(d)
       ELSE Join(CHOOSE child \in Children(d.trie, k) : TRUE)

RemoveNode(d, k) ==
    [d EXCEPT !.trie = Drop(@, k), !.bytes = @ - SnapshotBytes(d.trie[k])]

-----------------------------------------------------------------------------
(* Eviction.                                                                *)

(* Seeded fault: the end of the active path may be evicted.                 *)
EvictableFrontier(d) ==
    {k \in DOMAIN d.trie \ {Root} : Cardinality(Children(d.trie, k)) <= 1}

Evictable(d) ==
    {k \in DOMAIN d.trie \ {Root, Last(d.path)} : Cardinality(Children(d.trie, k)) <= 1}

(* Oldest, then deepest, then largest.                                      *)
EvictBefore(d, j, k) ==
    \/ d.trie[j].used < d.trie[k].used
    \/ /\ d.trie[j].used = d.trie[k].used
       /\ \/ Len(j) > Len(k)
          \/ Len(j) = Len(k) /\ SnapshotBytes(d.trie[j]) > SnapshotBytes(d.trie[k])

EvictOne(d) ==
    LET Evict(k) == IF Children(d.trie, k) = {} THEN RemoveNode(d, k) ELSE MergeWithChild(d, k)
    IN IF d.bytes <= MaxPagedOutBytes \/ Evictable(d) = {} THEN d
       ELSE Evict(CHOOSE k \in Evictable(d) : \A j \in Evictable(d) : ~EvictBefore(d, j, k))

(* enforceEvictionPolicy: every round takes a node away.                    *)
EnforceEvictionPolicy(d) ==
    FoldLeft(LAMBDA e, i : EvictOne(e), d, [i \in 1 .. Cardinality(DOMAIN d.trie) |-> i])

-----------------------------------------------------------------------------
(* switchToPath.                                                            *)

(* Seeded fault: the layers are rewound to the common node, even if the     *)
(* prompt does not reach its end.                                           *)
RewindToAncestor(ancestorOffset, matched) == ancestorOffset

RewindTarget(ancestorOffset, matched) == Min({ancestorOffset, matched})

(* Every layer is rewound, or freed if it cannot be.                        *)
RewindOrFree(d, layer, target) ==
    IF CanRewind(d, layer, target) THEN Rewind(d, layer, target) ELSE Free(d, layer)

Rewound(d, target) ==
    FoldLeft(LAMBDA e, layer : RewindOrFree(e, layer, target), d, d.layers)

(* The snapshots of the path are fed to the layers that are behind them; at *)
(* the first one that cannot be restored, this stops.                       *)
PageInLayer(acc, layer, k, matched) ==
    LET target == Min({Len(k), matched})
    IN IF \/ acc.stop
          \/ ~HasSnapshot(acc.cache.trie[k], layer)
          \/ Offset(acc.cache, layer) >= target
       THEN acc
       ELSE IF CanRestore(acc.cache, layer, k, target)
            THEN [acc EXCEPT !.cache = Restore(@, layer, k, target)]
            ELSE [acc EXCEPT !.stop = TRUE]

PageInNode(acc, k, matched) ==
    FoldLeft(LAMBDA a, layer : PageInLayer(a, layer, k, matched), acc, acc.cache.layers)

PageIn(d, newPath, matched) ==
    FoldLeft(LAMBDA acc, k : PageInNode(acc, k, matched),
             [cache |-> d, stop |-> FALSE], newPath).cache

(* All layers to the offset of the one furthest behind, or all freed.       *)
Aligned(d) ==
    LET off == MinCacheOffset(d)
    IN IF \A layer \in ToSet(d.layers) : CanRewind(d, layer, off)
       THEN FoldLeft(LAMBDA e, layer : Rewind(e, layer, off), d, d.layers)
       ELSE FoldLeft(LAMBDA e, layer : Free(e, layer), d, d.layers)

(* The path is cut where the layers are, inside a node if need be.          *)
CutPath(d, newPath, off) ==
    LET i == Max({1} \cup {n \in DOMAIN newPath : StartOffset(d.trie, newPath[n]) < off})
        k == newPath[i]
        e == IF Len(k) > off THEN SplitNode(d, k, off) ELSE d
    IN [e EXCEPT !.path = Append(SubSeq(newPath, 1, i - 1),
                                 IF Len(k) > off THEN SubSeq(k, 1, off) ELSE k)]

SwitchToPath(d, newPath, matched) ==
    LET common == LongestCommonPrefix({d.path, newPath})
        ancestorOffset == IF common = <<>> THEN 0 ELSE Len(Last(common))
        Cut(paged) == CutPath(Aligned(paged), newPath, MinCacheOffset(paged))
        Used(cut) == EnforceEvictionPolicy(Touch(cut, Last(cut.path)))
    IN Used(Cut(PageIn(Rewound(d, RewindTarget(ancestorOffset, matched)), newPath, matched)))

-----------------------------------------------------------------------------
(* Growing the trie.                                                        *)

(* Seeded fault: a node that matches in part is not split.                  *)
MatchesInPartNever(T, path, matched) == FALSE

MatchesInPart(T, path, matched) == Len(path) > 1 /\ matched < Len(Last(path))

(* advancePath from the frontier by the tokens of stored up to end.         *)
AdvancePath(d, stored, end) ==
    LET frontier == Last(d.path)
        key == frontier \o SubSeq(stored, Len(frontier) + 1, end)
        Grown(e, walked, matched) ==
            IF matched = Len(key) THEN [e EXCEPT !.path = walked]
            ELSE [e EXCEPT !.path = Append(walked, key),
                           !.trie = Put(@, key, NewNode(@[Last(walked)].used))]
        Walked(path, matched) ==
            IF MatchesInPart(d.trie, path, matched)
            THEN Grown(SplitNode(d, Last(path), matched),
                       d.path \o Append(Tail(Front(path)), SubSeq(key, 1, matched)), matched)
            ELSE Grown(d, d.path \o Tail(path), matched)
    IN IF end > Len(stored) THEN Panic(d)
       ELSE Walked(MatchPath(d.trie, frontier, key), Matched(d.trie, frontier, key))

CompactPath(d) ==
    LET parent == d.path[Len(d.path) - 1]
    IN IF \/ Len(d.path) < 2
          \/ parent = Root \/ d.trie[parent].user
          \/ Cardinality(Children(d.trie, parent)) # 1
       THEN d ELSE MergeWithChild(d, parent)

(* attachCapturedSnapshots: a layer that has a snapshot keeps it.           *)
Attach(d, k, kv, rec) ==
    LET node == d.trie[k]
        new == [node EXCEPT
            !.kv = IF @ # NoSnapshot \/ kv = NoSnapshot THEN @
                   ELSE SplitTail(kv, StartOffset(d.trie, k)),
            !.rec = IF @ # <<>> THEN @ ELSE rec]
    IN Touch([d EXCEPT !.trie[k] = new, !.bytes = @ - SnapshotBytes(node) + SnapshotBytes(new)], k)

(* pageOut: the layers rest at the end of the node; what it lacks is taken  *)
(* from them.                                                               *)
PageOut(d, k) ==
    LET node == d.trie[k]
        new == [node EXCEPT
            !.kv = IF @ # NoSnapshot \/ "kv" \notin ToSet(d.layers) THEN @
                   ELSE Lazy(StartOffset(d.trie, k), d.kv.off),
            !.rec = IF @ # <<>> THEN @ ELSE d.rec]
    IN IF \A layer \in ToSet(d.layers) : HasSnapshot(node, layer) THEN d
       ELSE EnforceEvictionPolicy([d EXCEPT !.trie[k] = new,
                                            !.bytes = @ - SnapshotBytes(node) + SnapshotBytes(new)])

-----------------------------------------------------------------------------
(* A session.                                                               *)

NoSession == [phase |-> "idle", inputs |-> <<>>, outputs |-> <<>>, cached |-> 0, pending |-> <<>>]

Stored(session) == session.inputs \o session.outputs

(* The part of the prompt that begin matches: one token is always left to   *)
(* be evaluated, and an image is matched as a whole or not at all.          *)
Matchable(inputs) ==
    LET t == IF Matched(c.trie, Root, inputs) = Len(inputs) THEN Front(inputs) ELSE inputs
        matched == Matched(c.trie, Root, t)
    IN IF InsideItem(inputs, matched) THEN SubSeq(inputs, 1, ItemStart(inputs, matched)) ELSE t

Begin(inputs) ==
    LET Started(d, matched) ==
            /\ c' = d
            /\ s' = [NoSession EXCEPT
                  !.phase = "begun", !.inputs = inputs, !.cached = MinCacheOffset(d),
                  !.pending = IF MinCacheOffset(d) < matched
                              THEN <<[offset |-> matched, user |-> FALSE]>> ELSE <<>>]
        Resumed(path, matched) == Started(SwitchToPath(c, path, matched), matched)
        t == Matchable(inputs)
    IN /\ s.phase = "idle" /\ ~c.panicked
       /\ requests < MaxRequests  \* bound
       /\ Resumed(MatchPath(c.trie, Root, t), Matched(c.trie, Root, t))
       /\ requests' = requests + 1

(* The snapshots that prefill asks for, with the one begin has scheduled.   *)
PrefillOffsets(inputs) ==
    {n \in 1 .. Len(inputs) - 1 : n % SnapshotInterval = 0} \cup
    {n \in {Len(inputs) - PreThinking} : n > 0}

Scheduled ==
    LET asked == {n \in {ItemEnd(s.inputs, o) : o \in PrefillOffsets(s.inputs)} : n > MinCacheOffset(c)}
        all == asked \cup {s.pending[i].offset : i \in DOMAIN s.pending}
        sorted == Ascending(all, LAMBDA n : n)
    IN [i \in DOMAIN sorted |-> [offset |-> sorted[i], user |-> sorted[i] \in asked]]

(* PrepareSnapshots panics if a schedule is left from an earlier prefill.   *)
SchedulePrefill ==
    LET base == MinCacheOffset(c)
    IN /\ s.phase = "begun" /\ ~c.panicked
       /\ s' = [s EXCEPT !.phase = "prefill", !.pending = Scheduled]
       /\ c' = IF Scheduled = <<>> THEN c
               ELSE IF c.captures.on \/ Scheduled[1].offset < base THEN Panic(c)
               ELSE [c EXCEPT !.captures = [on |-> TRUE, base |-> base]]
       /\ UNCHANGED requests

(* attachPrefillSnapshots: the snapshots captured at the offsets that have  *)
(* been crossed become nodes.                                               *)
AttachStep(e, i, d, session) ==
    LET pending == session.pending
        offset == pending[i].offset
        from == IF i = 1 THEN d.captures.base ELSE pending[i - 1].offset
        kv == IF "kv" \in ToSet(d.layers) THEN Lazy(from, offset) ELSE NoSnapshot
        rec == IF "rec" \in ToSet(d.layers) THEN SubSeq(d.rec, 1, offset) ELSE <<>>
        AttachAt(f, k) ==
            CompactPath(Attach([f EXCEPT !.trie[k].user = @ \/ pending[i].user], k, kv, rec))
        AttachEnd(f) == AttachAt(f, Last(f.path))
    IN IF offset > MinCacheOffset(d) THEN e
       ELSE AttachEnd(IF Len(Last(e.path)) < offset THEN AdvancePath(e, Stored(session), offset)
                      ELSE e)

AttachPrefill(d, session) ==
    LET indices == [i \in DOMAIN session.pending |-> i]
        attached == FoldLeft(LAMBDA e, i : AttachStep(e, i, d, session), d, indices)
    IN IF session.pending = <<>> THEN d
       ELSE EnforceEvictionPolicy([attached EXCEPT !.captures = NoCaptures])

(* The end of the chunk that begins at token at + 1: it is cut before an    *)
(* image it does not hold whole, or grows to the end of one it begins with. *)
Chunk(inputs, at) ==
    LET end == Min({at + PrefillChunk, Len(inputs) - 1})
    IN IF ~InsideItem(inputs, end) THEN end
       ELSE IF ItemStart(inputs, end) > at THEN ItemStart(inputs, end)
       ELSE Min({ItemEnd(inputs, end), Len(inputs) - 1})

(* A round of prefill's loop, all but one token being evaluated; the end of *)
(* it; and its end by a cancelled request.                                  *)
PrefillStep ==
    /\ s.phase = "prefill" /\ MinCacheOffset(c) < Len(s.inputs) - 1
    /\ c' = Forward(c, s.inputs, Chunk(s.inputs, MinCacheOffset(c)))
    /\ UNCHANGED <<s, requests>>

PrefillEnd ==
    /\ s.phase = "prefill" /\ MinCacheOffset(c) = Len(s.inputs) - 1
    /\ c' = AttachPrefill(c, s)
    /\ s' = [s EXCEPT !.phase = "prefilled", !.pending = <<>>]
    /\ UNCHANGED requests

Cancel ==
    /\ s.phase \in {"prefill", "prefilled"}
    /\ s' = [s EXCEPT !.phase = "over"]
    /\ UNCHANGED <<c, requests>>

(* decode: one forward for each token of the answer, the first of the last  *)
(* token of the prompt.                                                     *)
Decode(answer) ==
    LET outputs == s.outputs \o answer IN
    /\ s.phase = "prefilled"
    /\ c' = FoldLeft(LAMBDA e, i : Forward(e, s.inputs \o outputs, i), c,
                    [i \in 1 .. Len(answer) |-> Len(s.inputs) + i - 1])
    /\ s' = [s EXCEPT !.outputs = outputs, !.phase = "over"]
    /\ UNCHANGED requests

(* Seeded fault: close leaves the captures of a cancelled prefill.          *)
NotAttached(d, session) == d

CloseAttach(d, session) == AttachPrefill(d, session)

PagedOut(d) == CompactPath(PageOut(d, Last(d.path)))

Saved(d, session) ==
    LET Used(e) == Touch(e, Last(e.path))
        Kept(e, off) ==
            IF off = 0 THEN e
            ELSE IF off > Len(Stored(session)) THEN Panic(e)
            ELSE IF off > Len(Last(e.path)) THEN Used(PagedOut(AdvancePath(e, Stored(session), off)))
            ELSE Used(e)
        Attached(e) == Kept(e, MinCacheOffset(e))
    IN Attached(CloseAttach(d, session))

(* Of the clock only the order matters, and what lies in the buffer after   *)
(* the offset only where a snapshot names it.                               *)
Settled(d) ==
    LET uses == {d.trie[k].used : k \in DOMAIN d.trie}
        Rank(u) == Cardinality({v \in uses : v < u})
        end == Max({d.kv.off} \cup {d.trie[k].kv.to : k \in {j \in DOMAIN d.trie : d.trie[j].kv.lazy}})
    IN [d EXCEPT !.trie = [k \in DOMAIN d.trie |-> [d.trie[k] EXCEPT !.used = Rank(@)]],
                 !.clock = Cardinality(uses),
                 !.kv.buf = SubSeq(@, 1, end)]

Close ==
    /\ s.phase \in {"prefilled", "over"} /\ ~c.panicked
    /\ c' = Settled(Saved(c, s))
    /\ s' = NoSession
    /\ UNCHANGED requests

Init ==
    /\ \E layers \in Models :
       c = [layers |-> layers, trie |-> [k \in {Root} |-> NewNode(0)], path |-> <<Root>>,
            kv |-> [buf |-> <<>>, off |-> 0], rec |-> <<>>,
            captures |-> NoCaptures, bytes |-> 0, clock |-> 1, panicked |-> FALSE]
    /\ s = NoSession
    /\ requests = 0

Next ==
    \/ \E inputs \in Prompts : Begin(inputs)
    \/ SchedulePrefill \/ PrefillStep \/ PrefillEnd \/ Cancel
    \/ \E answer \in Answers : Decode(answer)
    \/ Close

Spec == Init /\ [][Next]_vars

-----------------------------------------------------------------------------
(* Properties.                                                              *)

(* The trie is compressed: where two keys part there is a node, so siblings *)
(* begin with different tokens; and the active path leads from the root to  *)
(* its end without leaving a node out (prefix_cache.go:24).                 *)
TypeOK ==
    /\ Root \in DOMAIN c.trie
    /\ \A j, k \in DOMAIN c.trie : LongestCommonPrefix({j, k}) \in DOMAIN c.trie
    /\ ToSet(c.path) = {k \in DOMAIN c.trie : IsPrefix(k, Last(c.path))}
    /\ \A i \in 2 .. Len(c.path) : IsStrictPrefix(c.path[i - 1], c.path[i])
    /\ s.phase \in {"idle", "begun", "prefill", "prefilled", "over"}

(* What the request is served.                                              *)
Stream == IF s.phase = "idle" THEN Last(c.path) ELSE Stored(s)

(* What is in the layers was computed for the tokens of the request, in     *)
(* this order and from the first on, and all layers are at the same token   *)
(* (prefix_cache.go:19), whatever was cached, overwritten, split, merged or *)
(* evicted before.                                                          *)
LiveStateIsOfTheStream ==
    ~c.panicked =>
    /\ \A layer \in ToSet(c.layers) : Offset(c, layer) = MinCacheOffset(c)
    /\ "kv" \in ToSet(c.layers) =>
         \A i \in 1 .. c.kv.off : i <= Len(c.kv.buf) /\ c.kv.buf[i] = SubSeq(Stream, 1, ItemEnd(Stream, i))
    /\ c.rec = SubSeq(Stream, 1, Len(c.rec))
    /\ s.phase = "idle" => MinCacheOffset(c) = Len(Last(c.path))

(* A node holds the entries of its edge, computed for its key, and the      *)
(* recurrent state at its end or none (prefix_cache.go:9-12).               *)
NodesHoldTheirEdge ==
    \A k \in DOMAIN c.trie \ {Root} :
        LET node == c.trie[k] IN
        /\ "kv" \in ToSet(c.layers) =>
             /\ node.kv.from = StartOffset(c.trie, k) /\ node.kv.to = Len(k)
             /\ Entries(c, node.kv) = [i \in 1 .. Len(k) - node.kv.from |-> SubSeq(k, 1, ItemEnd(k, node.kv.from + i))]
        /\ node.rec \in {<<>>, k}

(* pagedOutBytes is what the snapshots in the trie take, through lazy       *)
(* snapshots that are copied out late, splits, merges and evictions.        *)
BytesAreCounted ==
    c.bytes = SumFunction([k \in DOMAIN c.trie |-> SnapshotBytes(c.trie[k])])

(* None of the panics of the trie, of the schedule of captures and of close *)
(* is reached.                                                              *)
NoPanic == ~c.panicked

(* A request resumes at the deepest node at or below its match that holds   *)
(* whole-state (prefix_cache.go:16-17), or where the layers already are.    *)
ResumePoint(inputs) ==
    LET limit == Matched(c.trie, Root, Matchable(inputs))
        usable == {k \in DOMAIN c.trie : /\ IsPrefix(k, inputs) /\ Len(k) <= limit
                                         /\ k = Last(c.path) \/ c.trie[k].rec # <<>>}
    IN IF "rec" \in ToSet(c.layers) THEN Max({0} \cup {Len(k) : k \in usable}) ELSE limit

ResumesDeepest ==
    [][\A inputs \in Prompts : Begin(inputs) => s'.cached = ResumePoint(inputs)]_vars
=============================================================================
