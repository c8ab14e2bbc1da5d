------------------------------ MODULE TreeBin -------------------------------
(***************************************************************************)
(* dlmalloc's tree bins.  Each bin is a bitwise trie of the sizes in its   *)
(* range; chunks of one size form a ring (fd, bk) of which only the oldest *)
(* is in the trie, the others have no parent.  Sizes count granules of 16  *)
(* bytes, so SizeBits is 28, TreeBinShift 4 and NTreeBins 32 on wasm32.    *)
(***************************************************************************)
EXTENDS Integers, FiniteSets, Sequences, TLC

LOCAL INSTANCE FiniteSetsExt
LOCAL INSTANCE SequencesExt

CONSTANTS Chunk,         \* chunk addresses
          NULL,          \* the null pointer
          Bin,           \* the parent of a root: the address of its bin
          SizeBits,      \* bits of a size
          TreeBinShift,  \* log2 of the smallest size kept in a tree
          NTreeBins,
          Sizes          \* bound: the sizes that are freed and those asked for

ASSUME TreeBinAssumption ==
    /\ SizeBits \in Nat /\ TreeBinShift \in 2 .. SizeBits
    /\ NTreeBins \in Nat /\ NTreeBins % 2 = 0
    /\ Sizes \subseteq 2^TreeBinShift .. 2^SizeBits - 1

VARIABLE tree  \* node: the free chunks; root: of each bin; map: treemap

MinLargeSize == 2^TreeBinShift
Words        == 2^SizeBits

BitOf(s, k) == IF k < 0 THEN 0 ELSE (s \div 2^k) % 2

(* compute_tree_index: two bins for each power of two, the last one takes  *)
(* everything above.                                                       *)
Log2(x) == CHOOSE k \in 0 .. SizeBits : 2^k <= x /\ x < 2^(k + 1)

TreeIndex(s) ==
    LET x == s \div 2^TreeBinShift
    IN  CASE x = 0 -> 0
          [] x >= 2^(NTreeBins \div 2) -> NTreeBins - 1
          [] OTHER -> 2 * Log2(x) + BitOf(s, Log2(x) + TreeBinShift - 1)

(* leftshift_for_tree_index puts this bit first; each level of the trie    *)
(* tests the next lower one.                                               *)
FirstBit_LastLikeOthers_Mutant(i) == (i \div 2) + TreeBinShift - 2
FirstBit(i) == IF i = NTreeBins - 1 THEN SizeBits - 1 ELSE (i \div 2) + TreeBinShift - 2

-----------------------------------------------------------------------------
(* insert_large_chunk.                                                     *)

RECURSIVE Slot(_, _, _, _)
(* The node at which the descent for size s from t stops.                  *)
Slot(n, t, s, k) ==
    LET c == n[t].child[BitOf(s, k)]
    IN  IF n[t].size = s \/ c = NULL THEN [at |-> t, side |-> BitOf(s, k)]
        ELSE Slot(n, c, s, k - 1)

Leaf(x, s, parent) ==
    [size |-> s, index |-> TreeIndex(s), parent |-> parent,
     child |-> [c \in 0 .. 1 |-> NULL], fd |-> x, bk |-> x]

(* A chunk of a size the trie has joins the ring behind the one in the     *)
(* trie, as the youngest.                                                  *)
Chain_Oldest_Mutant(n, t, x) ==
    x :> [Leaf(x, n[t].size, NULL) EXCEPT !.fd = t, !.bk = n[t].bk]
      @@ [n EXCEPT ![n[t].bk].fd = x, ![t].bk = x]

Chain(n, t, x) ==
    x :> [Leaf(x, n[t].size, NULL) EXCEPT !.fd = n[t].fd, !.bk = t]
      @@ [n EXCEPT ![n[t].fd].bk = x, ![t].fd = x]

InsertLargeChunk(b, x, s) ==
    LET i    == TreeIndex(s)
        slot == Slot(b.node, b.root[i], s, FirstBit(i))
    IN  IF i \notin b.map
        THEN [node |-> x :> Leaf(x, s, Bin) @@ b.node,
              root |-> [b.root EXCEPT ![i] = x], map |-> b.map \cup {i}]
        ELSE [b EXCEPT !.node =
                 IF @[slot.at].size = s THEN Chain(@, slot.at, x)
                 ELSE x :> Leaf(x, s, slot.at) @@ [@ EXCEPT ![slot.at].child[slot.side] = x]]

-----------------------------------------------------------------------------
(* unlink_large_chunk.                                                     *)

RECURSIVE RightmostLeaf(_, _)
RightmostLeaf(n, t) ==
    CASE n[t].child[1] # NULL -> RightmostLeaf(n, n[t].child[1])
      [] n[t].child[1] = NULL /\ n[t].child[0] # NULL -> RightmostLeaf(n, n[t].child[0])
      [] OTHER -> t

(* The child slot of p that holds c now holds r.                           *)
SetChild(n, p, c, r) ==
    [n EXCEPT ![p].child = [side \in 0 .. 1 |-> IF @[side] = c THEN r ELSE @[side]]]

(* What takes the place of x: the oldest of its ring, or a leaf below it.  *)
Replacement(n, x) ==
    IF n[x].bk # x THEN n[x].bk
    ELSE IF RightmostLeaf(n, x) = x THEN NULL ELSE RightmostLeaf(n, x)

(* ... once it has left its own place.                                     *)
Loosened(n, x) ==
    LET r == Replacement(n, x)
    IN  CASE n[x].bk # x -> [n EXCEPT ![n[x].fd].bk = r, ![r].fd = n[x].fd]
          [] n[x].bk = x /\ r # NULL -> SetChild(n, n[r].parent, r, NULL)
          [] OTHER -> n

(* r gets the parent and the children of x.                                *)
Adopt_NoParent_Mutant(n, x, r) ==
    [n EXCEPT ![r].parent = n[x].parent,
              ![r].child = [side \in 0 .. 1 |-> IF n[x].child[side] = NULL THEN @[side]
                                               ELSE n[x].child[side]]]

Adopt(n, x, r) ==
    LET below == {n[x].child[side] : side \in 0 .. 1} \ {NULL}
    IN  [y \in DOMAIN n |->
            CASE y = r -> [n[r] EXCEPT !.parent = n[x].parent,
                             !.child = [side \in 0 .. 1 |->
                                 IF n[x].child[side] = NULL THEN @[side] ELSE n[x].child[side]]]
              [] y \in below -> [n[y] EXCEPT !.parent = r]
              [] OTHER -> n[y]]

UnlinkLargeChunk(b, x) ==
    LET n      == b.node
        i      == n[x].index
        r      == Replacement(n, x)
        loose  == Loosened(n, x)
        isRoot == b.root[i] = x
        placed == IF isRoot THEN loose ELSE SetChild(loose, n[x].parent, x, r)
        linked == IF r = NULL THEN placed ELSE Adopt(placed, x, r)
        final  == IF n[x].parent = NULL THEN loose ELSE linked
    IN  [node |-> [y \in DOMAIN n \ {x} |-> final[y]],
         root |-> IF isRoot THEN [b.root EXCEPT ![i] = r] ELSE b.root,
         map  |-> IF isRoot /\ r = NULL THEN b.map \ {i} ELSE b.map]

-----------------------------------------------------------------------------
(* The lookups of tmalloc_large and tmalloc_small.  What a chunk leaves    *)
(* over is unsigned: a chunk that is too small leaves a lot.               *)
Rem(s, nb) == (s - nb) % Words

Fit(v, rsize) == [v |-> v, rsize |-> rsize]
Better(n, t, nb, f) ==
    IF Rem(n[t].size, nb) < f.rsize THEN Fit(t, Rem(n[t].size, nb)) ELSE f

LeftmostChild(n, t) == IF n[t].child[0] # NULL THEN n[t].child[0] ELSE n[t].child[1]

RECURSIVE Walk(_, _, _, _)
Walk(n, t, nb, f) ==
    IF t = NULL THEN f ELSE Walk(n, LeftmostChild(n, t), nb, Better(n, t, nb, f))

(* The deepest right subtree that the descent passed by.                   *)
Untaken_First_Mutant(rst, right, next) == IF rst = NULL /\ right # next THEN right ELSE rst
Untaken(rst, right, next) == IF right # NULL /\ right # next THEN right ELSE rst

RECURSIVE Descend(_, _, _, _, _, _)
(* Where the search for the smallest chunk goes on, and the best so far.   *)
Descend(n, t, nb, k, f, rst) ==
    LET g    == Better(n, t, nb, f)
        next == n[t].child[BitOf(nb, k)]
        u    == Untaken(rst, n[t].child[1], next)
    IN  CASE g.rsize = 0 -> [t |-> t, fit |-> g]
          [] g.rsize # 0 /\ next = NULL -> [t |-> u, fit |-> g]
          [] OTHER -> Descend(n, next, nb, k - 1, g, u)

NoFit(nb) == Fit(NULL, Rem(0, nb))

TmallocLarge(b, nb) ==
    LET idx    == TreeIndex(nb)
        d      == IF b.root[idx] = NULL THEN [t |-> NULL, fit |-> NoFit(nb)]
                  ELSE Descend(b.node, b.root[idx], nb, FirstBit(idx), NoFit(nb), NULL)
        larger == {i \in b.map : i > idx}
        t      == IF d.t = NULL /\ d.fit.v = NULL /\ larger # {} THEN b.root[Min(larger)] ELSE d.t
    IN  Walk(b.node, t, nb, d.fit).v

(* For a request smaller than every chunk in a tree.                       *)
TmallocSmall(b, nb) == Walk(b.node, b.root[Min(b.map)], nb, NoFit(nb)).v

-----------------------------------------------------------------------------
Free == \E x \in Chunk \ DOMAIN tree.node, s \in Sizes : tree' = InsertLargeChunk(tree, x, s)

(* A neighbour is freed, or grows into this chunk.                         *)
Coalesce == \E x \in DOMAIN tree.node : tree' = UnlinkLargeChunk(tree, x)

(* The remainder goes into a tree if it is large.                          *)
MallocLarge ==
    \E nb \in Sizes, r \in Chunk \ DOMAIN tree.node :
        LET v    == TmallocLarge(tree, nb)
            rest == tree.node[v].size - nb
            b    == UnlinkLargeChunk(tree, v)
        IN  /\ v # NULL
            /\ tree' = IF rest < MinLargeSize THEN b ELSE InsertLargeChunk(b, r, rest)

(* The remainder becomes dv.                                               *)
MallocSmall ==
    \E nb \in 1 .. MinLargeSize - 1 :
        /\ tree.map # {}
        /\ tree' = UnlinkLargeChunk(tree, TmallocSmall(tree, nb))

Init == tree = [node |-> [x \in {} |-> NULL], root |-> [i \in 0 .. NTreeBins - 1 |-> NULL], map |-> {}]

Next == Free \/ Coalesce \/ MallocLarge \/ MallocSmall

Spec == Init /\ [][Next]_tree

-----------------------------------------------------------------------------
InTrie == {x \in DOMAIN tree.node : tree.node[x].parent # NULL}

RECURSIVE Subtree(_)
Subtree(t) ==
    IF t = NULL THEN {}
    ELSE {t} \cup Subtree(tree.node[t].child[0]) \cup Subtree(tree.node[t].child[1])

RECURSIVE RingFrom(_, _)
(* The ring in the order of age, from x to the one before t.               *)
RingFrom(x, t) == <<x>> \o (IF tree.node[x].bk = t THEN <<>> ELSE RingFrom(tree.node[x].bk, t))

SizesOf(S) == {tree.node[x].size : x \in S}

TypeOK ==
    /\ DOMAIN tree.node \subseteq Chunk
    /\ \A x \in DOMAIN tree.node :
          tree.node[x] \in [size : MinLargeSize .. Words - 1, index : 0 .. NTreeBins - 1,
                            parent : DOMAIN tree.node \cup {NULL, Bin},
                            child : [0 .. 1 -> DOMAIN tree.node \cup {NULL}],
                            fd : DOMAIN tree.node, bk : DOMAIN tree.node]
    /\ tree.root \in [0 .. NTreeBins - 1 -> DOMAIN tree.node \cup {NULL}]
    /\ tree.map = {i \in 0 .. NTreeBins - 1 : tree.root[i] # NULL}

(* do_check_tree and do_check_treebin: every pointer of the trie is        *)
(* matched by the one that leads back, also round the rings, and a chained *)
(* chunk has no children.                                                  *)
LinksMatch ==
    /\ TypeOK
    /\ \A x \in DOMAIN tree.node :
          LET X == tree.node[x]
          IN  /\ X.index = TreeIndex(X.size)
              /\ tree.node[X.fd].bk = x /\ tree.node[X.bk].fd = x
              /\ tree.node[X.fd].size = X.size
              /\ X.parent = Bin => tree.root[X.index] = x
              /\ X.parent \in Chunk => x \in {tree.node[X.parent].child[c] : c \in 0 .. 1}
              /\ \A c \in 0 .. 1 : X.child[c] # NULL =>
                    x \in InTrie /\ tree.node[X.child[c]].parent = x
    /\ UNION {Subtree(tree.root[i]) : i \in 0 .. NTreeBins - 1} = InTrie

(* Each size is in its trie once, and "each node's left subtree contains   *)
(* all smaller sizes than its right subtree".                              *)
TrieOrdered ==
    /\ \A x, y \in InTrie : tree.node[x].size = tree.node[y].size => x = y
    /\ \A x \in InTrie :
          \A s \in SizesOf(Subtree(tree.node[x].child[0])), r \in SizesOf(Subtree(tree.node[x].child[1])) :
              s < r

(* Best fit, first in first out: for every request, the lookups find the   *)
(* chunk in the trie of the smallest size that is large enough.            *)
BestFit(nb) ==
    LET fits == {x \in InTrie : tree.node[x].size >= nb}
    IN  IF fits = {} THEN NULL
        ELSE CHOOSE x \in fits : tree.node[x].size = Min(SizesOf(fits))

LookupsFindBestFit ==
    /\ \A nb \in MinLargeSize .. Words - 1 : TmallocLarge(tree, nb) = BestFit(nb)
    /\ tree.map # {} => \A nb \in 1 .. MinLargeSize - 1 : TmallocSmall(tree, nb) = BestFit(nb)

(* The rings are the queues that malloc relies on.                         *)
Fifo == INSTANCE FifoBins
          WITH Size  <- MinLargeSize .. Words - 1,
               queue <- [s \in MinLargeSize .. Words - 1 |->
                   LET heads == {x \in InTrie : tree.node[x].size = s}
                   IN  IF heads = {} THEN <<>>
                       ELSE LET h == CHOOSE x \in heads : TRUE IN RingFrom(h, h)]

RefinesFifoBins == Fifo!Spec
=============================================================================
