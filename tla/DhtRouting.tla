----------------------------- MODULE DhtRouting -----------------------------
(***************************************************************************)
(* The DHT's routing table (internal/dht/routing.go) and its file          *)
(* (internal/dht/persist.go).  The bucket tree is its leaves from left to  *)
(* right: an inner node is a prefix shared by neighbouring leaves, and     *)
(* only the bucket of the local node is ever split, so the sibling of an   *)
(* ancestor of a leaf is a leaf.  Identifiers have W bits.                 *)
(***************************************************************************)
EXTENDS Naturals, Sequences, FiniteSets, FiniteSetsExt, SequencesExt

CONSTANTS W,             \* bits of a node ID
          Local,         \* the local node's ID
          K,             \* bucketK
          CacheCap,      \* bucketCache
          BadCondition   \* badCondition

VARIABLE table       \* the leaves, left to right

rtVars == <<table>>

IDs == 0 .. 2^W - 1
Node(id) == [id |-> id, condition |-> 0]
isBad(n) == n.condition >= BadCondition

Span(b) == 2^(W - b.prefixLen)
inRange(b, id) == b.minID <= id /\ id < b.minID + Span(b)

newBucket(prefixLen, minID) ==
    [prefixLen |-> prefixLen, minID |-> minID, nodes |-> << >>, cache |-> << >>]

\* findTreeNode: the position of the leaf that covers id.
LeafOf(t, id) == CHOOSE i \in DOMAIN t : inRange(t[i], id)

contains(b, id) == \E i \in DOMAIN b.nodes : b.nodes[i].id = id

(***************************************************************************)
(* bucket.addNode and bucket.dropNode.                                     *)
(***************************************************************************)
CanAdd(b, id) == \/ contains(b, id)
                 \/ Len(b.nodes) < K
                 \/ isBad(b.nodes[1])

WithNode(b, n) ==
    LET at == {i \in DOMAIN b.nodes : b.nodes[i].id = n.id}
        rest == IF at # {} THEN RemoveAt(b.nodes, Min(at))
                ELSE IF Len(b.nodes) < K THEN b.nodes ELSE Tail(b.nodes)
    IN  [b EXCEPT !.nodes = Append(rest, n)]

cacheNode(b, n) ==
    [b EXCEPT !.cache = SubSeq(<<n>> \o @, 1, Min({CacheCap, Len(@) + 1}))]

\* The first node with the ID leaves; the newest cached one takes a place.
dropNode(b, id) ==
    LET at == Min({i \in DOMAIN b.nodes : b.nodes[i].id = id})
    IN  IF b.cache = << >> THEN [b EXCEPT !.nodes = RemoveAt(@, at)]
        ELSE [b EXCEPT !.nodes = Append(RemoveAt(@, at), Head(b.cache)),
                       !.cache = Tail(@)]

splitAllowed(b) == b.prefixLen < W - 1 /\ inRange(b, Local)

SplitCopies(b) ==                                                 \* mutant
    LET half == Span(b) \div 2
        l    == newBucket(b.prefixLen + 1, b.minID)
    IN  << [l EXCEPT !.nodes = SelectSeq(b.nodes,
                                         LAMBDA n : inRange(l, n.id))],
           [b EXCEPT !.prefixLen = @ + 1, !.minID = @ + half] >>

\* The lower half is the new, left bucket; the cache stays on the right.
split(b) ==
    LET half == Span(b) \div 2
        l    == newBucket(b.prefixLen + 1, b.minID)
    IN  << [l EXCEPT !.nodes = SelectSeq(b.nodes,
                                         LAMBDA n : inRange(l, n.id))],
           [b EXCEPT !.prefixLen = @ + 1, !.minID = @ + half,
                     !.nodes = SelectSeq(b.nodes,
                                         LAMBDA n : ~inRange(l, n.id))] >>

Replace(t, i, bs) == SubSeq(t, 1, i - 1) \o bs \o SubSeq(t, i + 1, Len(t))

\* FoldLeft, with each step computed before the next one begins.
FoldSteps(op(_, _), base, seq) ==
    LET f[n \in 0 .. Len(seq)] ==
          IF n = 0 THEN base
          ELSE CHOOSE r \in {op(acc, seq[n]) : acc \in {f[n - 1]}} : TRUE
    IN  f[Len(seq)]

(***************************************************************************)
(* addNodeInternal: split the local bucket until the node fits or its      *)
(* bucket may not be split.                                                *)
(***************************************************************************)
Added(t, id, good) ==
    LET Step(acc, k) ==
          LET i == LeafOf(acc, id)
          IN  IF CanAdd(acc[i], id) \/ ~splitAllowed(acc[i]) THEN acc
              ELSE Replace(acc, i, split(acc[i]))
        t2 == FoldSteps(Step, t, [k \in 1 .. W |-> k])
        i  == LeafOf(t2, id)
    IN  IF id = Local THEN t
        ELSE IF CanAdd(t2[i], id) THEN [t2 EXCEPT ![i] = WithNode(@, Node(id))]
        ELSE IF good THEN [t2 EXCEPT ![i] = cacheNode(@, Node(id))]
        ELSE t2

Removed(t, id) ==
    LET i == LeafOf(t, id)
    IN  IF contains(t[i], id) THEN [t EXCEPT ![i] = dropNode(@, id)] ELSE t

AddNode(id, good) == table' = Added(table, id, good)

\* A reply from another ID than expected replaces the old node.
BatchUpdate(id, expected) ==
    LET t == Added(table, id, TRUE)
    IN  table' = IF id = expected THEN t ELSE Removed(t, expected)

onTimeout(id) ==
    LET i == LeafOf(table, id)
        b == table[i]
        at == Min({j \in DOMAIN b.nodes : b.nodes[j].id = id})
        hit == [b EXCEPT !.nodes[at].condition = @ + 1]
    IN  /\ contains(b, id)
        /\ table' = [table EXCEPT ![i] =
                        IF isBad(hit.nodes[at]) THEN dropNode(hit, id)
                        ELSE hit]

(***************************************************************************)
(* findClosestKNodes: the target's leaf, the rest of its parent, then the  *)
(* sibling of each ancestor, until K nodes are collected.                  *)
(***************************************************************************)
goodNodes(b) == SelectSeq(b.nodes, LAMBDA n : ~isBad(n))

Within(b, prefixLen, minID) ==
    minID <= b.minID /\ b.minID < minID + 2^(W - prefixLen)

Ancestor(b, l) == b.minID - (b.minID % 2^(W - l))

collectDownward(t, b) ==
    LET p    == Ancestor(b, b.prefixLen - 1)
        rest == SelectSeq([i \in DOMAIN t |-> i],
                          LAMBDA i : Within(t[i], b.prefixLen - 1, p))
    IN  IF b.minID = p THEN rest ELSE Reverse(rest)

\* The leaf beside the ancestor at depth l, for l from the parent upward.
Sibling(t, b, l) ==
    CHOOSE i \in DOMAIN t : t[i].prefixLen = l
                            /\ t[i].minID # Ancestor(b, l)
                            /\ Within(t[i], l - 1, Ancestor(b, l - 1))

collectUpward(t, b) ==
    [k \in 1 .. b.prefixLen - 1 |-> Sibling(t, b, b.prefixLen - k)]

GetClosestNodes(t, target) ==
    LET b     == t[LeafOf(t, target)]
        order == IF Len(t) = 1 THEN <<1>>
                 ELSE collectDownward(t, b) \o collectUpward(t, b)
        found == FoldSteps(LAMBDA acc, i :
                             IF Len(acc) >= K THEN acc
                             ELSE acc \o goodNodes(t[i]), << >>, order)
    IN  SubSeq(found, 1, Min({K, Len(found)}))

(***************************************************************************)
(* The file: written at the end of Run to a temporary name and renamed;    *)
(* read into an empty table at the start.                                  *)
(***************************************************************************)
snapshotGoodNodes(t) ==
    FlattenSeq([i \in DOMAIN t |->
        [j \in DOMAIN goodNodes(t[i]) |-> goodNodes(t[i])[j].id]])

NewRoutingTable == << newBucket(0, 0) >>

Loaded(ids) == FoldSteps(LAMBDA t, id : Added(t, id, FALSE), NewRoutingTable, ids)

\* The server ends and is started again with the same identifier.
Restart == table' = Loaded(snapshotGoodNodes(table))

RtInit == table = NewRoutingTable

RtNext ==
    \/ \E id \in IDs, good \in BOOLEAN : AddNode(id, good)
    \/ \E id, old \in IDs \ {Local} : BatchUpdate(id, old)
    \/ \E id \in IDs : onTimeout(id)
    \/ Restart

RtSpec == RtInit /\ [][RtNext]_rtVars

(***************************************************************************)
(* Every node is in the bucket its ID leads to, whatever was split, moved  *)
(* or promoted from a cache (findTreeNode, split); a lookup finds as many  *)
(* nodes as there are, up to K, wherever the target lies                   *)
(* (findClosestKNodes); and a table written to the file and read back has  *)
(* the same good nodes (snapshotGoodNodes, NewServer).                     *)
(***************************************************************************)
RoutingSound ==
    /\ \A i \in DOMAIN table : \A j \in DOMAIN table[i].nodes :
          inRange(table[i], table[i].nodes[j].id)
    /\ LET good == Len(snapshotGoodNodes(table))
       IN  \A target \in IDs :
              Len(GetClosestNodes(table, target)) = Min({K, good})
    /\ Range(snapshotGoodNodes(Loaded(snapshotGoodNodes(table))))
          = Range(snapshotGoodNodes(table))
=============================================================================
