---------------------------- MODULE ChunkProofs ----------------------------
(***************************************************************************)
(* Lemmas about DlMalloc's operators.  First its boundary tags: the shape  *)
(* that the headers of the heap have (Shape), that laying a stretch of     *)
(* chunks anew as one chunk or two keeps it (Relay), and that each of the  *)
(* header macros lays what it should.  Then what is done with the chunks:  *)
(* the bins, malloc from a bin, from dv or from top, dispose_chunk,        *)
(* realloc in place, and memalign.  Each keeps the heap whole (Whole): the *)
(* headers keep their shape, the bins hold the free chunks but top and dv, *)
(* and the chunks in use are those that somebody owns.                     *)
(***************************************************************************)
EXTENDS DlMalloc, SystemLayerProofs

LOCAL INSTANCE SequencesExt
LOCAL INSTANCE FiniteSetsExt

-----------------------------------------------------------------------------
(* The shape of the headers t of a heap whose fake chunk is at F; S holds  *)
(* the first chunk of every segment.                                       *)

IsChunk(t, F, p) == p \in DOMAIN t /\ t[p].size # 1 /\ p # F

TagType == [prevFoot : {NoFoot} \cup BinSizes, size : 1 .. AddrWords,
            pinuse : BOOLEAN, cinuse : BOOLEAN]

Heads(t, F) ==
    /\ F \in DOMAIN t /\ t[F].size = TopFootSize /\ t[F].cinuse = FALSE
    /\ F + 14 <= MaxPages * PageWords
    /\ \A q \in DOMAIN t : q \in Nat /\ HeapBase + 2 <= q /\ q <= F /\ t[q] \in TagType
    /\ \A q \in DOMAIN t : t[q].size = 1 => t[q].cinuse = TRUE

Tiles(t, F) ==
    \A p : IsChunk(t, F, p) =>
        /\ p % 4 = 2 /\ t[p].size % 4 = 0 /\ t[p].size >= 4
        /\ p + t[p].size \in DOMAIN t
        /\ \A q \in DOMAIN t : p < q => p + t[p].size <= q

Agree(t, F) ==
    \A p : IsChunk(t, F, p) =>
        /\ t[p + t[p].size].pinuse = t[p].cinuse
        /\ t[p].cinuse = FALSE => t[p].pinuse = TRUE

(* Whose header says that the chunk before is free can find it.            *)
Backs(t, F) ==
    \A q \in DOMAIN t \ {F} :
        t[q].pinuse = FALSE =>
            \E p : /\ IsChunk(t, F, p) /\ t[p].cinuse = FALSE
                   /\ p + t[p].size = q /\ t[q].prevFoot = t[p].size

Starts(t, F, S) ==
    \A q \in S : IsChunk(t, F, q) /\ \A p : IsChunk(t, F, p) => p + t[p].size # q

Shape(t, F, S) ==
    Heads(t, F) /\ Tiles(t, F) /\ Agree(t, F) /\ Backs(t, F) /\ Starts(t, F, S)

(* u is t with the stretch from p to e relaid: as one chunk if mid = e,    *)
(* else as a chunk in use up to mid and a second one; c says whether the   *)
(* last of them is in use.                                                 *)
LastOf(p, mid, e) == IF mid = e THEN p ELSE mid

AnyTag == [prevFoot : {NoFoot} \cup BinSizes, size : Int, pinuse : BOOLEAN, cinuse : BOOLEAN]

Relaid(t, u, F, p, mid, e, c) ==
    /\ DOMAIN u = {q \in DOMAIN t : q <= p \/ q >= e} \cup {mid}
    /\ \A q \in DOMAIN u : q \notin {p, mid, e} => u[q] = t[q]
    /\ u[p].size = mid - p
    /\ u[p].cinuse = IF mid = e THEN c ELSE TRUE
    /\ u[p].pinuse = t[p].pinuse
    /\ t[p].pinuse = FALSE => u[p].prevFoot = t[p].prevFoot
    /\ mid # e => u[mid].size = e - mid /\ u[mid].pinuse = TRUE /\ u[mid].cinuse = c
    /\ u[e].size = t[e].size /\ u[e].cinuse = t[e].cinuse /\ u[e].pinuse = c
    /\ (c = FALSE /\ e # F) => u[e].prevFoot = e - LastOf(p, mid, e)
    /\ \A x \in {p, mid, e} : u[x] \in AnyTag

(* A multiple of four no longer than the memory is a bin size and fits in  *)
(* an address.                                                             *)
LEMMA SizeFacts ==
    ASSUME NEW s \in Nat, s > 0, s % 4 = 0, s <= MaxPages * PageWords
    PROVE  s \in BinSizes /\ s \in 1 .. AddrWords /\ s >= 4
  <1>1. MaxPages * PageWords \in Nat /\ MaxPages * PageWords <= AddrWords /\ AddrWords \in Nat
    BY AddrWordsFacts, MemoryAssumption, MemoryEnd
  <1>2. s >= 4 BY SMT
  <1>3. s \in MinChunkSize .. MaxPages * PageWords /\ s % MallocAlignment = 0
    BY <1>1, <1>2, Layout
  <1> QED BY <1>1, <1>2, <1>3 DEF BinSizes

(* Every header the stretch swallows is the end of a chunk.                *)
Swallows(t, F, p, e) ==
    \A x \in DOMAIN t : (p < x /\ x <= e) => \E y : IsChunk(t, F, y) /\ y + t[y].size = x

(* A chunk of t outside the stretch from p to e.                           *)
Spared(t, F, p, e, q) == IsChunk(t, F, q) /\ (q < p \/ q >= e)

Reshapes(t, u, F, S, p, mid, e) ==
    /\ Shape(u, F, S)
    /\ \A q : IsChunk(u, F, q) <=> \/ Spared(t, F, p, e, q)
                                   \/ q = p
                                   \/ (q = mid /\ mid # e)
    /\ \A q : Spared(t, F, p, e, q) =>
           /\ u[q].size = t[q].size /\ u[q].cinuse = t[q].cinuse
           /\ t[q + t[q].size].size = 1 => u[q + t[q].size].size = 1

(* Laying a stretch of chunks anew, as one chunk or two, keeps the shape   *)
(* of the headers.                                                         *)
LEMMA Relay ==
    ASSUME NEW t, NEW u, NEW F, NEW S, Shape(t, F, S),
           NEW p, IsChunk(t, F, p), NEW e \in DOMAIN t, NEW mid \in Nat, NEW c \in BOOLEAN,
           p < mid, mid <= e, mid % 4 = 2, e % 4 = 2,
           Swallows(t, F, p, e),
           Relaid(t, u, F, p, mid, e, c),
           c = FALSE => (e = F \/ t[e].cinuse = TRUE),
           c = FALSE /\ mid = e => t[p].pinuse = TRUE
    PROVE  Reshapes(t, u, F, S, p, mid, e)
  <1>1. Heads(t, F) /\ Tiles(t, F) /\ Agree(t, F) /\ Backs(t, F) /\ Starts(t, F, S)
    BY DEF Shape
  <1>2. /\ p \in DOMAIN t /\ t[p].size # 1 /\ p # F /\ p % 4 = 2
        /\ p \in Nat /\ e \in Nat /\ F \in Nat /\ e <= F
    BY <1>1 DEF IsChunk, Heads, Tiles
  <1>3. /\ e - p \in BinSizes /\ mid - p \in Nat /\ mid - p >= 4 /\ (mid - p) % 4 = 0
        /\ mid - p \in BinSizes /\ mid - p \in 1 .. AddrWords
        /\ mid # e => /\ e - mid >= 4 /\ (e - mid) % 4 = 0
                      /\ e - mid \in BinSizes /\ e - mid \in 1 .. AddrWords
    <2>1. F + 14 <= MaxPages * PageWords /\ MaxPages * PageWords \in Nat
      BY <1>1, MemoryAssumption, MemoryEnd DEF Heads
    <2> DEFINE a == e - p
               b == mid - p
               d == e - mid
    <2>2. /\ a \in Nat /\ a > 0 /\ a <= MaxPages * PageWords
          /\ b \in Nat /\ b > 0 /\ b <= MaxPages * PageWords
          /\ d \in Nat /\ d <= MaxPages * PageWords
          /\ mid # e => d > 0
      BY <1>2, <2>1
    <2>3. a % 4 = 0 /\ b % 4 = 0 /\ d % 4 = 0 BY <1>2, <2>2, SMT
    <2> HIDE DEF a, b, d
    <2>4. /\ a \in BinSizes /\ b \in BinSizes /\ b \in 1 .. AddrWords /\ b >= 4
          /\ mid # e => d >= 4 /\ d \in BinSizes /\ d \in 1 .. AddrWords
      BY <2>2, <2>3, SizeFacts
    <2> QED BY <2>2, <2>3, <2>4 DEF a, b, d
  <1>4. /\ DOMAIN u = {q \in DOMAIN t : q <= p \/ q >= e} \cup {mid}
        /\ p \in DOMAIN u /\ e \in DOMAIN u /\ mid \in DOMAIN u
        /\ \A q \in DOMAIN u : q \notin {p, mid, e} => q \in DOMAIN t /\ u[q] = t[q]
        /\ \A q \in DOMAIN u : q \in Nat
    BY <1>1, <1>2 DEF Relaid, Heads
  <1>5. Heads(u, F)
    <2>1. F \in DOMAIN u /\ u[F].size = TopFootSize /\ u[F].cinuse = FALSE
      <3>1. F \in DOMAIN t /\ t[F].size = TopFootSize /\ t[F].cinuse = FALSE
        BY <1>1 DEF Heads
      <3>2. F \in DOMAIN u BY <1>2, <1>4, <3>1
      <3>3. CASE F = e BY <3>1, <3>2, <3>3 DEF Relaid
      <3>4. CASE F # e BY <1>2, <1>4, <3>1, <3>2, <3>4
      <3> QED BY <3>3, <3>4
    <2>2. ASSUME NEW q \in DOMAIN u
          PROVE  /\ q \in Nat /\ HeapBase + 2 <= q /\ q <= F /\ u[q] \in TagType
                 /\ u[q].size = 1 => u[q].cinuse = TRUE
      <3>1. \A x \in DOMAIN t : /\ x \in Nat /\ HeapBase + 2 <= x /\ x <= F
                                /\ t[x] \in TagType
                                /\ t[x].size = 1 => t[x].cinuse = TRUE
        BY <1>1 DEF Heads
      <3>2. \A r \in AnyTag : r.size \in 1 .. AddrWords => r \in TagType
        BY DEF AnyTag, TagType
      <3>3. HeapBase \in Nat BY HeapAssumption
      <3>4. CASE q \notin {p, mid, e}
        <4>1. q \in DOMAIN t /\ u[q] = t[q] BY <1>4, <3>4, Zenon
        <4> QED BY <3>1, <4>1, Zenon
      <3>5. CASE q = p
        <4>1. u[p] \in AnyTag /\ u[p].size = mid - p BY DEF Relaid
        <4>2. u[p] \in TagType BY <1>3, <3>2, <4>1, Zenon
        <4>3. u[p].size # 1 BY <1>3, <4>1
        <4> QED BY <1>2, <3>1, <3>5, <4>2, <4>3, Zenon
      <3>6. CASE q = e
        <4>1. u[e] \in AnyTag /\ u[e].size = t[e].size /\ u[e].cinuse = t[e].cinuse
          BY DEF Relaid
        <4>2. t[e].size \in 1 .. AddrWords
          <5>1. t[e] \in TagType BY <3>1, Zenon
          <5> QED BY <5>1 DEF TagType
        <4>3. u[e] \in TagType BY <3>2, <4>1, <4>2, Zenon
        <4> QED BY <3>1, <3>6, <4>1, <4>3, Zenon
      <3>7. CASE q = mid /\ mid # e
        <4>1. u[mid] \in AnyTag /\ u[mid].size = e - mid BY <3>7 DEF Relaid
        <4>2. HeapBase + 2 <= p BY <1>2, <3>1, Zenon
        <4>3. mid \in Nat /\ HeapBase + 2 <= mid /\ mid <= F BY <1>2, <3>3, <4>2
        <4>4. u[mid] \in TagType BY <1>3, <3>2, <3>7, <4>1, Zenon
        <4>5. u[mid].size # 1 BY <1>3, <3>7, <4>1
        <4> QED BY <3>7, <4>3, <4>4, <4>5, Zenon
      <3> QED BY <3>4, <3>5, <3>6, <3>7
    <2>3. F + 14 <= MaxPages * PageWords BY <1>1 DEF Heads
    <2> QED BY <2>1, <2>2, <2>3 DEF Heads
  <1>6. \A q : IsChunk(u, F, q) <=> \/ Spared(t, F, p, e, q)
                                   \/ q = p
                                   \/ (q = mid /\ mid # e)
    <2> TAKE q
    <2>1. CASE q = p
      <3>1. u[p].size = mid - p BY DEF Relaid
      <3>2. u[p].size # 1 BY <1>3, <3>1
      <3> QED BY <1>2, <1>4, <2>1, <3>2, Zenon DEF IsChunk
    <2>2. CASE q = mid /\ mid # e
      <3>1. u[mid].size = e - mid BY <2>2 DEF Relaid
      <3>2. u[mid].size # 1 BY <1>3, <2>2, <3>1
      <3>3. mid # F BY <1>2, <2>2
      <3> QED BY <1>4, <2>2, <3>2, <3>3, Zenon DEF IsChunk
    <2>3. CASE q = e
      <3>1. u[e].size = t[e].size BY DEF Relaid
      <3>2. q >= e /\ q # p BY <1>2, <2>3
      <3> QED BY <1>4, <2>3, <3>1, <3>2, Zenon DEF IsChunk, Spared
    <2>4. CASE q \notin {p, mid, e}
      <3>1. q \in DOMAIN u <=> q \in DOMAIN t /\ (q < p \/ q >= e)
        BY <1>1, <1>2, <1>4, <2>4 DEF Heads
      <3>2. q \in DOMAIN u => u[q] = t[q] BY <1>4, <2>4
      <3> QED BY <2>4, <3>1, <3>2, Zenon DEF IsChunk, Spared
    <2> QED BY <2>1, <2>2, <2>3, <2>4
  <1>7. \A q : Spared(t, F, p, e, q) =>
                  /\ u[q].size = t[q].size /\ u[q].cinuse = t[q].cinuse
                  /\ q + t[q].size \in DOMAIN u
                  /\ q + t[q].size # mid \/ mid = e
                  /\ t[q + t[q].size].size = 1 => u[q + t[q].size].size = 1
    <2> SUFFICES ASSUME NEW q, Spared(t, F, p, e, q)
                 PROVE  /\ u[q].size = t[q].size /\ u[q].cinuse = t[q].cinuse
                        /\ q + t[q].size \in DOMAIN u
                        /\ q + t[q].size # mid \/ mid = e
                        /\ t[q + t[q].size].size = 1 => u[q + t[q].size].size = 1
      OBVIOUS
    <2> DEFINE n == q + t[q].size
    <2>0. IsChunk(t, F, q) /\ (q < p \/ q >= e) BY DEF Spared
    <2>1. /\ q \in DOMAIN t /\ q \in Nat /\ t[q].size \in Nat /\ t[q].size >= 4
          /\ n \in DOMAIN t /\ n \in Nat /\ \A x \in DOMAIN t : q < x => n <= x
      BY <1>1, <2>0 DEF IsChunk, Tiles, Heads, TagType
    <2>2. n <= p \/ n > e
      <3>1. CASE q < p BY <1>2, <2>1, <3>1
      <3>2. CASE q >= e BY <1>2, <2>1, <3>2
      <3> QED BY <2>0, <3>1, <3>2
    <2>3. u[q].size = t[q].size /\ u[q].cinuse = t[q].cinuse
      <3>1. CASE q = e BY <3>1 DEF Relaid
      <3>2. CASE q # e
        <4>1. q \notin {p, mid, e} /\ q \in DOMAIN u BY <1>2, <1>4, <2>0, <2>1, <3>2
        <4> QED BY <1>4, <4>1
      <3> QED BY <3>1, <3>2
    <2>4. n \in DOMAIN u /\ (n # mid \/ mid = e) BY <1>2, <1>4, <2>1, <2>2
    <2>5. t[n].size = 1 => u[n].size = 1
      <3>1. CASE n = p BY <1>2, <3>1
      <3>2. CASE n # p BY <1>2, <1>4, <2>1, <2>2, <2>4, <3>2
      <3> QED BY <3>1, <3>2
    <2> QED BY <2>3, <2>4, <2>5
  <1>8. Tiles(u, F)
    <2> SUFFICES ASSUME NEW q, IsChunk(u, F, q)
                 PROVE  /\ q % 4 = 2 /\ u[q].size % 4 = 0 /\ u[q].size >= 4
                        /\ q + u[q].size \in DOMAIN u
                        /\ \A x \in DOMAIN u : q < x => q + u[q].size <= x
      BY DEF Tiles
    <2>1. CASE q = p
      <3>1. u[p].size = mid - p BY DEF Relaid
      <3>2. p + u[p].size = mid BY <1>2, <3>1
      <3>3. \A x \in DOMAIN u : p < x => mid <= x BY <1>1, <1>2, <1>4 DEF Heads
      <3> QED BY <1>2, <1>3, <1>4, <2>1, <3>1, <3>2, <3>3
    <2>2. CASE q = mid /\ mid # e
      <3>1. u[mid].size = e - mid BY <2>2 DEF Relaid
      <3>2. mid + u[mid].size = e BY <1>2, <3>1
      <3>3. \A x \in DOMAIN u : mid < x => e <= x BY <1>1, <1>2, <1>4 DEF Heads
      <3> QED BY <1>2, <1>3, <1>4, <2>2, <3>1, <3>2, <3>3
    <2>3. CASE Spared(t, F, p, e, q)
      <3>1. u[q].size = t[q].size /\ q + t[q].size \in DOMAIN u BY <1>7, <2>3
      <3>2. /\ q % 4 = 2 /\ t[q].size % 4 = 0 /\ t[q].size >= 4 /\ q \in Nat /\ t[q].size \in Nat
            /\ \A x \in DOMAIN t : q < x => q + t[q].size <= x
            /\ q < p \/ q >= e
        BY <1>1, <2>3 DEF Spared, Tiles, Heads, IsChunk, TagType
      <3>3. ASSUME NEW x \in DOMAIN u, q < x PROVE q + t[q].size <= x
        <4>1. CASE x \in DOMAIN t BY <3>2, <3>3, <4>1
        <4>2. CASE x = mid
          <5>1. CASE q < p
            <6>1. q + t[q].size <= p BY <1>2, <3>2, <5>1
            <6> QED BY <1>2, <3>2, <4>2, <6>1
          <5>2. CASE q >= e BY <1>2, <3>2, <3>3, <4>2, <5>2
          <5> QED BY <3>2, <5>1, <5>2
        <4> QED BY <1>4, <4>1, <4>2
      <3> QED BY <3>1, <3>2, <3>3
    <2> QED BY <1>6, <2>1, <2>2, <2>3
  <1>9. Agree(u, F)
    <2> SUFFICES ASSUME NEW q, IsChunk(u, F, q)
                 PROVE  /\ u[q + u[q].size].pinuse = u[q].cinuse
                        /\ u[q].cinuse = FALSE => u[q].pinuse = TRUE
      BY DEF Agree
    <2>1. CASE q = p
      <3>1. u[p].size = mid - p /\ p + u[p].size = mid BY <1>2 DEF Relaid
      <3>2. CASE mid = e BY <2>1, <3>1, <3>2 DEF Relaid
      <3>3. CASE mid # e BY <2>1, <3>1, <3>3 DEF Relaid
      <3> QED BY <3>2, <3>3
    <2>2. CASE q = mid /\ mid # e
      <3>1. u[mid].size = e - mid /\ mid + u[mid].size = e BY <1>2, <2>2 DEF Relaid
      <3> QED BY <2>2, <3>1 DEF Relaid
    <2>3. CASE Spared(t, F, p, e, q)
      <3> DEFINE n == q + t[q].size
      <3>1. /\ u[q].size = t[q].size /\ u[q].cinuse = t[q].cinuse
            /\ n \in DOMAIN u /\ (n # mid \/ mid = e)
        BY <1>7, <2>3
      <3>2. /\ q \in DOMAIN t /\ n \in DOMAIN t /\ q \in Nat /\ t[q].size \in Nat /\ n \in Nat /\ q < n
            /\ t[n].pinuse = t[q].cinuse /\ (t[q].cinuse = FALSE => t[q].pinuse = TRUE)
            /\ n <= p \/ ~(q < p)
            /\ q < p \/ q >= e
        BY <1>1, <1>2, <2>3 DEF Spared, IsChunk, Tiles, Heads, TagType, Agree
      <3>3. u[n].pinuse = t[n].pinuse
        <4>1. n # e BY <1>2, <3>2
        <4>2. CASE n = p BY <4>2 DEF Relaid
        <4>3. CASE n # p BY <1>4, <3>1, <4>1, <4>3
        <4> QED BY <4>2, <4>3
      <3>4. u[q].cinuse = FALSE => u[q].pinuse = TRUE
        <4>1. CASE q = e
          <5>1. u[e].cinuse = t[e].cinuse /\ u[e].pinuse = c BY DEF Relaid
          <5>2. e # F BY <2>3, <4>1 DEF Spared, IsChunk
          <5> QED BY <4>1, <5>1, <5>2
        <4>2. CASE q # e
          <5>1. q \notin {p, mid, e} /\ q \in DOMAIN u BY <1>2, <1>4, <3>2, <4>2
          <5> QED BY <1>4, <3>2, <5>1
        <4> QED BY <4>1, <4>2
      <3> QED BY <3>1, <3>2, <3>3, <3>4
    <2> QED BY <1>6, <2>1, <2>2, <2>3
  <1>10. Backs(u, F)
    <2> SUFFICES ASSUME NEW q \in DOMAIN u \ {F}, u[q].pinuse = FALSE
                 PROVE  \E y : /\ IsChunk(u, F, y) /\ u[y].cinuse = FALSE
                               /\ y + u[y].size = q /\ u[q].prevFoot = u[y].size
      BY DEF Backs
    <2>1. CASE q = e
      <3>1. c = FALSE /\ u[q].prevFoot = e - LastOf(p, mid, e) BY <2>1 DEF Relaid
      <3>2. CASE mid = e
        <4>1. IsChunk(u, F, p) BY <1>6, Zenon
        <4>2. u[p].cinuse = FALSE /\ u[p].size = e - p
          BY <3>1, <3>2 DEF Relaid
        <4> QED BY <1>2, <2>1, <3>1, <3>2, <4>1, <4>2 DEF LastOf
      <3>3. CASE mid # e
        <4>1. IsChunk(u, F, mid) /\ u[mid].cinuse = FALSE /\ u[mid].size = e - mid
          BY <1>6, <3>1, <3>3 DEF Relaid
        <4> QED BY <1>2, <2>1, <3>1, <3>3, <4>1 DEF LastOf
      <3> QED BY <3>2, <3>3
    <2>2. CASE q = mid /\ mid # e BY <2>2 DEF Relaid
    <2>3. CASE q # e /\ q # mid
      <3>1. /\ q \in DOMAIN t /\ q \in Nat /\ t[q].pinuse = FALSE
            /\ u[q].prevFoot = t[q].prevFoot /\ (q <= p \/ q > e)
        <4>1. CASE q = p
          <5>1. t[p].pinuse = FALSE BY <4>1 DEF Relaid
          <5> QED BY <1>2, <4>1, <5>1 DEF Relaid
        <4>2. CASE q # p
          <5>1. q \in DOMAIN t /\ u[q] = t[q] BY <1>4, <2>3, <4>2
          <5> QED BY <1>2, <1>4, <2>3, <4>2, <5>1
        <4> QED BY <4>1, <4>2
      <3>2. PICK y : /\ IsChunk(t, F, y) /\ t[y].cinuse = FALSE
                     /\ y + t[y].size = q /\ t[q].prevFoot = t[y].size
        BY <1>1, <3>1 DEF Backs
      <3>3. /\ y \in DOMAIN t /\ y \in Nat /\ t[y].size \in Nat /\ t[y].size >= 4
            /\ \A x \in DOMAIN t : y < x => y + t[y].size <= x
        BY <1>1, <3>2 DEF IsChunk, Tiles, Heads, TagType
      <3>4. y < p \/ y >= e
        <4>1. CASE q <= p BY <1>2, <3>1, <3>2, <3>3, <4>1
        <4>2. CASE q > e BY <1>2, <3>1, <3>2, <3>3, <4>2
        <4> QED BY <3>1, <4>1, <4>2
      <3>5. Spared(t, F, p, e, y) BY <3>2, <3>4, Zenon DEF Spared
      <3>6. IsChunk(u, F, y) BY <1>6, <3>5, Zenon
      <3>7. u[y].size = t[y].size /\ u[y].cinuse = FALSE BY <1>7, <3>2, <3>5, Zenon
      <3> QED BY <3>1, <3>2, <3>6, <3>7
    <2> QED BY <2>1, <2>2, <2>3
  <1>11. Starts(u, F, S)
    <2> SUFFICES ASSUME NEW q \in S
                 PROVE  IsChunk(u, F, q) /\ \A y : IsChunk(u, F, y) => y + u[y].size # q
      BY DEF Starts
    <2>1. IsChunk(t, F, q) /\ \A y : IsChunk(t, F, y) => y + t[y].size # q
      BY <1>1 DEF Starts
    <2>2. q \in DOMAIN t /\ q \in Nat /\ ~(p < q /\ q <= e)
      BY <1>1, <2>1 DEF IsChunk, Heads, Swallows
    <2>3. IsChunk(u, F, q) /\ q # mid
      <3>1. q <= p \/ q >= e BY <1>2, <2>2
      <3>2. q = p \/ Spared(t, F, p, e, q) BY <1>2, <2>1, <2>2, <3>1 DEF Spared
      <3>3. q # mid BY <1>2, <2>2
      <3> QED BY <1>6, <3>2, <3>3, Zenon
    <2> SUFFICES ASSUME NEW y, IsChunk(u, F, y), y + u[y].size = q PROVE FALSE
      BY <2>3
    <2>4. CASE y = p
      <3>1. p + u[p].size = mid BY <1>2 DEF Relaid
      <3> QED BY <2>3, <2>4, <3>1
    <2>5. CASE y = mid /\ mid # e
      <3>1. mid + u[mid].size = e BY <1>2, <2>5 DEF Relaid
      <3> QED BY <1>2, <2>2, <2>5, <3>1
    <2>6. CASE Spared(t, F, p, e, y) BY <1>7, <2>1, <2>6 DEF Spared
    <2> QED BY <1>6, <2>4, <2>5, <2>6
  <1>12. Shape(u, F, S) BY <1>5, <1>8, <1>9, <1>10, <1>11 DEF Shape
  <1> QED BY <1>6, <1>7, <1>12 DEF Reshapes

-----------------------------------------------------------------------------
Fields == {"seg", "older", "top", "topsize", "contiguous", "footprint", "maxFootprint",
           "leastAddr", "tag", "bins", "smallmap", "dv", "dvsize"}

State(h) == h = [f \in Fields |-> h[f]]

(* h's headers are records.                                                *)
Tagged(h) == State(h) /\ h.tag \in [DOMAIN h.tag -> AnyTag] /\ DOMAIN h.tag \subseteq Nat

(* g is h but for its headers.                                             *)
SameButTags(h, g) ==
    /\ State(g)
    /\ g.seg = h.seg /\ g.older = h.older /\ g.top = h.top /\ g.topsize = h.topsize
    /\ g.contiguous = h.contiguous /\ g.footprint = h.footprint
    /\ g.maxFootprint = h.maxFootprint /\ g.leastAddr = h.leastAddr
    /\ g.bins = h.bins /\ g.smallmap = h.smallmap /\ g.dv = h.dv /\ g.dvsize = h.dvsize

(* g is h with the header at p rewritten and none up to p + s.             *)
LaidAt(h, g, p, s, pin, cin) ==
    /\ SameButTags(h, g) /\ Tagged(g)
    /\ DOMAIN g.tag = {p} \cup {x \in DOMAIN h.tag : x < p \/ x >= p + s}
    /\ \A x \in DOMAIN g.tag : x # p => g.tag[x] = h.tag[x]
    /\ g.tag[p].size = s /\ g.tag[p].pinuse = pin /\ g.tag[p].cinuse = cin
    /\ pin = FALSE /\ p \in DOMAIN h.tag => g.tag[p].prevFoot = h.tag[p].prevFoot

(* What Lay writes: the two headers it touches, and nothing else.          *)
LEMMA LayFacts ==
    ASSUME NEW h, Tagged(h), NEW p \in Nat, NEW s \in Int, NEW pin \in BOOLEAN,
           NEW cin \in BOOLEAN
    PROVE  LaidAt(h, Lay(h, p, s, pin, cin), p, s, pin, cin)
  <1> DEFINE g == Lay(h, p, s, pin, cin)
  <1>1. g = [h EXCEPT !.tag = Laid(h.tag, p, s, pin, cin)] BY DEF Lay
  <1>2. g.tag = Laid(h.tag, p, s, pin, cin) /\ SameButTags(h, g)
    BY <1>1 DEF SameButTags, State, Fields, Tagged
  <1> HIDE DEF g
  <1>3. /\ DOMAIN g.tag = {p} \cup {x \in DOMAIN h.tag : x < p \/ x >= p + s}
        /\ \A x \in DOMAIN g.tag : x # p => g.tag[x] = h.tag[x]
    BY <1>2 DEF Laid
  <1>4. g.tag[p] = [prevFoot |-> IF pin \/ p \notin DOMAIN h.tag THEN NoFoot
                                 ELSE h.tag[p].prevFoot,
                    size |-> s, pinuse |-> pin, cinuse |-> cin]
    BY <1>2 DEF Laid
  <1>5. g.tag[p] \in AnyTag
    BY <1>4 DEF AnyTag, Tagged
  <1>6. g.tag \in [DOMAIN g.tag -> AnyTag]
    BY <1>2, <1>3, <1>5 DEF Tagged, Laid
  <1>7. Tagged(g) BY <1>2, <1>3, <1>6 DEF Tagged, SameButTags
  <1>8. LaidAt(h, g, p, s, pin, cin) BY <1>2, <1>3, <1>4, <1>7 DEF LaidAt
  <1> QED BY <1>8 DEF g

(* g is h but for the header at e, where only the prev_foot and the pinuse *)
(* bit may differ.                                                         *)
Touches(h, g, e) ==
    /\ SameButTags(h, g) /\ Tagged(g)
    /\ DOMAIN g.tag = DOMAIN h.tag
    /\ \A x \in DOMAIN g.tag : x # e => g.tag[x] = h.tag[x]
    /\ g.tag[e].size = h.tag[e].size /\ g.tag[e].cinuse = h.tag[e].cinuse

(* A header written over with one of the same size and cinuse is touched,  *)
(* no more.                                                                *)
LEMMA TouchesRecord ==
    ASSUME NEW h, Tagged(h), NEW e \in DOMAIN h.tag, NEW r \in AnyTag,
           r.size = h.tag[e].size, r.cinuse = h.tag[e].cinuse,
           NEW g, g = [h EXCEPT !.tag = [h.tag EXCEPT ![e] = r]]
    PROVE  Touches(h, g, e) /\ g.tag[e] = r
  <1>1. g.tag = [h.tag EXCEPT ![e] = r] /\ SameButTags(h, g)
    BY DEF SameButTags, State, Fields, Tagged
  <1>2. /\ DOMAIN g.tag = DOMAIN h.tag /\ g.tag[e] = r
        /\ \A x \in DOMAIN g.tag : x # e => g.tag[x] = h.tag[x]
    BY <1>1 DEF Tagged
  <1>3. g.tag \in [DOMAIN g.tag -> AnyTag] BY <1>1 DEF Tagged
  <1>4. Tagged(g) BY <1>1, <1>2, <1>3 DEF Tagged, SameButTags
  <1> QED BY <1>1, <1>2, <1>4 DEF Touches

(* set_foot touches the header behind the chunk and leaves its pinuse.     *)
LEMMA FootFacts ==
    ASSUME NEW h, Tagged(h), NEW p, NEW s \in BinSizes, NEW e \in DOMAIN h.tag, p + s = e
    PROVE  /\ Touches(h, SetFoot(h, p, s), e)
           /\ SetFoot(h, p, s).tag[e].prevFoot = s
           /\ SetFoot(h, p, s).tag[e].pinuse = h.tag[e].pinuse
  <1> DEFINE g == SetFoot(h, p, s)
             r == [h.tag[e] EXCEPT !.prevFoot = s]
  <1>1. g = [h EXCEPT !.tag = [h.tag EXCEPT ![e] = r]] BY DEF SetFoot
  <1>2. h.tag[e] \in AnyTag BY DEF Tagged
  <1>3. /\ r \in AnyTag /\ r.size = h.tag[e].size /\ r.cinuse = h.tag[e].cinuse
        /\ r.prevFoot = s /\ r.pinuse = h.tag[e].pinuse
    BY <1>2 DEF AnyTag
  <1> HIDE DEF g, r
  <1>4. Touches(h, g, e) /\ g.tag[e] = r BY <1>1, <1>3, TouchesRecord
  <1>5. g.tag[e].prevFoot = s /\ g.tag[e].pinuse = h.tag[e].pinuse BY <1>3, <1>4
  <1> QED BY <1>4, <1>5 DEF g

(* set_pinuse on a header that is there touches it.                        *)
LEMMA PinuseFacts ==
    ASSUME NEW h, Tagged(h), NEW e \in DOMAIN h.tag
    PROVE  Touches(h, SetPinuse(h, e), e) /\ SetPinuse(h, e).tag[e].pinuse = TRUE
  <1> DEFINE g == SetPinuse(h, e)
             r == [h.tag[e] EXCEPT !.pinuse = TRUE, !.prevFoot = NoFoot]
  <1>1. g = [h EXCEPT !.tag = [h.tag EXCEPT ![e] = [h.tag[e] EXCEPT !.pinuse = TRUE],
                                            ![e].prevFoot = NoFoot]]
    BY DEF SetPinuse
  <1>2. g = [h EXCEPT !.tag = [h.tag EXCEPT ![e] = r]]
    <2>1. [h.tag EXCEPT ![e] = [h.tag[e] EXCEPT !.pinuse = TRUE], ![e].prevFoot = NoFoot]
            = [h.tag EXCEPT ![e] = r]
      BY DEF Tagged
    <2> QED BY <1>1, <2>1
  <1>3. h.tag[e] \in AnyTag BY DEF Tagged
  <1>4. /\ r \in AnyTag /\ r.size = h.tag[e].size /\ r.cinuse = h.tag[e].cinuse
        /\ r.pinuse = TRUE
    BY <1>3 DEF AnyTag
  <1> HIDE DEF g, r
  <1>5. Touches(h, g, e) /\ g.tag[e] = r BY <1>2, <1>4, TouchesRecord
  <1>6. g.tag[e].pinuse = TRUE BY <1>4, <1>5
  <1> QED BY <1>5, <1>6 DEF g

(* clear_pinuse touches its header and leaves the foot there.              *)
LEMMA NoPinuseFacts ==
    ASSUME NEW h, Tagged(h), NEW e \in DOMAIN h.tag
    PROVE  Touches(h, ClearPinuse(h, e), e) /\ ClearPinuse(h, e).tag[e].pinuse = FALSE
           /\ ClearPinuse(h, e).tag[e].prevFoot = h.tag[e].prevFoot
  <1> DEFINE g == ClearPinuse(h, e)
             r == [h.tag[e] EXCEPT !.pinuse = FALSE]
  <1>1. g = [h EXCEPT !.tag = [h.tag EXCEPT ![e] = r]] BY DEF ClearPinuse
  <1>2. h.tag[e] \in AnyTag BY DEF Tagged
  <1>3. /\ r \in AnyTag /\ r.size = h.tag[e].size /\ r.cinuse = h.tag[e].cinuse
        /\ r.pinuse = FALSE /\ r.prevFoot = h.tag[e].prevFoot
    BY <1>2 DEF AnyTag
  <1> HIDE DEF g, r
  <1>4. Touches(h, g, e) /\ g.tag[e] = r BY <1>1, <1>3, TouchesRecord
  <1>5. g.tag[e].pinuse = FALSE /\ g.tag[e].prevFoot = h.tag[e].prevFoot BY <1>3, <1>4
  <1> QED BY <1>4, <1>5 DEF g

(* In a header yet to be written the bit is left for set_inuse to find.    *)
Plants(h, g, e) ==
    /\ SameButTags(h, g) /\ Tagged(g)
    /\ DOMAIN g.tag = {e} \cup DOMAIN h.tag
    /\ \A x \in DOMAIN g.tag : x # e => g.tag[x] = h.tag[x]
    /\ g.tag[e].pinuse = TRUE

(* set_pinuse on a word without a header plants one.                       *)
LEMMA NewPinuseFacts ==
    ASSUME NEW h, Tagged(h), NEW e \in Nat, e \notin DOMAIN h.tag
    PROVE  Plants(h, SetPinuse(h, e), e)
  <1> DEFINE g == SetPinuse(h, e)
  <1>1. g = Lay(h, e, 0, TRUE, FALSE) BY DEF SetPinuse
  <1> HIDE DEF g
  <1>2. LaidAt(h, g, e, 0, TRUE, FALSE)
    <2>1. 0 \in Int /\ TRUE \in BOOLEAN /\ FALSE \in BOOLEAN OBVIOUS
    <2> QED BY <1>1, <2>1, LayFacts, Zenon
  <1>3. {x \in DOMAIN h.tag : x < e \/ x >= e + 0} = DOMAIN h.tag BY DEF Tagged
  <1>4. Plants(h, g, e) BY <1>2, <1>3 DEF LaidAt, Plants
  <1> QED BY <1>4 DEF g

-----------------------------------------------------------------------------
(* What the operations make of a stretch.                                  *)
Retags(h, g, F, p, mid, e, c) ==
    SameButTags(h, g) /\ Tagged(g) /\ Relaid(h.tag, g.tag, F, p, mid, e, c)

(* The whole stretch becomes a chunk in use.                               *)
LEMMA UsesWhole ==
    ASSUME NEW h, Tagged(h), NEW p \in DOMAIN h.tag, NEW e \in DOMAIN h.tag, p < e,
           NEW F, NEW s, s = e - p, NEW b, b = h.tag[p].pinuse
    PROVE  Retags(h, SetPinuse(Lay(h, p, s, b, TRUE), p + s), F, p, e, e, TRUE)
  <1> DEFINE k == Lay(h, p, s, b, TRUE)
             g == SetPinuse(k, e)
  <1>1. p \in Nat /\ e \in Nat /\ s \in Int /\ p + s = e /\ p < e BY DEF Tagged
  <1>2. b \in BOOLEAN /\ TRUE \in BOOLEAN BY DEF Tagged, AnyTag
  <1>3. SetPinuse(Lay(h, p, s, b, TRUE), p + s) = g BY <1>1
  <1>4. LaidAt(h, k, p, s, b, TRUE) BY <1>1, <1>2, LayFacts, Zenon
  <1> HIDE DEF k
  <1>5. e \in DOMAIN k.tag /\ Tagged(k) BY <1>1, <1>4 DEF LaidAt
  <1>6. Touches(k, g, e) /\ g.tag[e].pinuse = TRUE BY <1>5, PinuseFacts
  <1> HIDE DEF g
  <1>7. SameButTags(h, g) /\ Tagged(g) BY <1>4, <1>6 DEF LaidAt, Touches, SameButTags
  <1>8. Relaid(h.tag, g.tag, F, p, e, e, TRUE)
    <2>1. DOMAIN g.tag = {q \in DOMAIN h.tag : q <= p \/ q >= e} \cup {e}
      BY <1>1, <1>4, <1>6 DEF Tagged, LaidAt, Touches
    <2>2. g.tag[p] = k.tag[p] /\ k.tag[e] = h.tag[e]
      BY <1>1, <1>4, <1>5, <1>6 DEF LaidAt, Touches
    <2>3. \A q \in DOMAIN g.tag : q \notin {p, e} => g.tag[q] = h.tag[q]
      BY <1>4, <1>6 DEF LaidAt, Touches
    <2>4. g.tag[p] \in AnyTag /\ g.tag[e] \in AnyTag
      BY <1>1, <1>5, <1>6, <1>7, <2>1 DEF Tagged
    <2>5. /\ g.tag[p].size = e - p /\ g.tag[p].cinuse = TRUE
          /\ g.tag[p].pinuse = h.tag[p].pinuse
          /\ h.tag[p].pinuse = FALSE => g.tag[p].prevFoot = h.tag[p].prevFoot
      BY <1>4, <2>2 DEF LaidAt
    <2>6. /\ g.tag[e].size = h.tag[e].size /\ g.tag[e].cinuse = h.tag[e].cinuse
          /\ g.tag[e].pinuse = TRUE
      BY <1>6, <2>2 DEF Touches
    <2> QED BY <2>1, <2>3, <2>4, <2>5, <2>6 DEF Relaid
  <1> QED BY <1>3, <1>7, <1>8 DEF Retags

(* set_inuse lays a stretch as one chunk in use.                           *)
LEMMA SetInuseWhole ==
    ASSUME NEW h, Tagged(h), NEW p \in DOMAIN h.tag, NEW e \in DOMAIN h.tag, p < e,
           NEW F, NEW s, s = e - p
    PROVE  Retags(h, SetInuse(h, p, s), F, p, e, e, TRUE)
  <1>1. PICK b : b = h.tag[p].pinuse OBVIOUS
  <1>2. PinuseFound(h, p) = b BY <1>1 DEF PinuseFound, Tagged, AnyTag
  <1>3. Retags(h, SetPinuse(Lay(h, p, s, b, TRUE), p + s), F, p, e, e, TRUE)
    BY <1>1, UsesWhole
  <1> QED BY <1>2, <1>3 DEF SetInuse

(* set_inuse_and_pinuse lays it so where the chunk before is in use.       *)
LEMMA SetInuseAndPinuseWhole ==
    ASSUME NEW h, Tagged(h), NEW p \in DOMAIN h.tag, NEW e \in DOMAIN h.tag, p < e,
           NEW F, NEW s, s = e - p, h.tag[p].pinuse = TRUE
    PROVE  Retags(h, SetInuseAndPinuse(h, p, s), F, p, e, e, TRUE)
  <1>1. PICK b : b = TRUE OBVIOUS
  <1>2. Retags(h, SetPinuse(Lay(h, p, s, b, TRUE), p + s), F, p, e, e, TRUE)
    BY <1>1, UsesWhole
  <1> QED BY <1>1, <1>2 DEF SetInuseAndPinuse

(* The whole stretch becomes a free chunk; the header behind it knows that *)
(* already, or is told before.                                             *)
LEMMA FreesWhole ==
    ASSUME NEW h, Tagged(h), NEW p \in DOMAIN h.tag, NEW e \in DOMAIN h.tag, p < e,
           NEW F, NEW s, s = e - p, s \in BinSizes, h.tag[p].pinuse = TRUE,
           h.tag[e].pinuse = FALSE
    PROVE  Retags(h, SetSizeAndPinuseOfFreeChunk(h, p, s), F, p, e, e, FALSE)
  <1> DEFINE k == Lay(h, p, s, TRUE, FALSE)
             g == SetFoot(k, p, s)
  <1>1. p \in Nat /\ e \in Nat /\ s \in Int /\ p + s = e /\ p < e BY DEF Tagged
  <1>2. TRUE \in BOOLEAN /\ FALSE \in BOOLEAN OBVIOUS
  <1>3. SetSizeAndPinuseOfFreeChunk(h, p, s) = g BY DEF SetSizeAndPinuseOfFreeChunk
  <1>4. LaidAt(h, k, p, s, TRUE, FALSE) BY <1>1, <1>2, LayFacts, Zenon
  <1> HIDE DEF k
  <1>5. e \in DOMAIN k.tag /\ Tagged(k) BY <1>1, <1>4 DEF LaidAt
  <1>6. Touches(k, g, e) /\ g.tag[e].prevFoot = s /\ g.tag[e].pinuse = k.tag[e].pinuse
    BY <1>1, <1>5, FootFacts
  <1> HIDE DEF g
  <1>7. SameButTags(h, g) /\ Tagged(g) BY <1>4, <1>6 DEF LaidAt, Touches, SameButTags
  <1>8. Relaid(h.tag, g.tag, F, p, e, e, FALSE)
    <2>1. DOMAIN g.tag = {q \in DOMAIN h.tag : q <= p \/ q >= e} \cup {e}
      BY <1>1, <1>4, <1>6 DEF Tagged, LaidAt, Touches
    <2>2. g.tag[p] = k.tag[p] /\ k.tag[e] = h.tag[e]
      BY <1>1, <1>4, <1>5, <1>6 DEF LaidAt, Touches
    <2>3. \A q \in DOMAIN g.tag : q \notin {p, e} => g.tag[q] = h.tag[q]
      BY <1>4, <1>6 DEF LaidAt, Touches
    <2>4. g.tag[p] \in AnyTag /\ g.tag[e] \in AnyTag
      BY <1>1, <1>5, <1>6, <1>7, <2>1 DEF Tagged
    <2>5. /\ g.tag[p].size = e - p /\ g.tag[p].cinuse = FALSE
          /\ g.tag[p].pinuse = TRUE
      BY <1>4, <2>2 DEF LaidAt
    <2>6. /\ g.tag[e].size = h.tag[e].size /\ g.tag[e].cinuse = h.tag[e].cinuse
          /\ g.tag[e].pinuse = FALSE /\ g.tag[e].prevFoot = e - LastOf(p, e, e)
      BY <1>6, <2>2 DEF Touches, LastOf
    <2> QED BY <2>1, <2>3, <2>4, <2>5, <2>6 DEF Relaid
  <1> QED BY <1>3, <1>7, <1>8 DEF Retags

(* set_free_with_pinuse lays a stretch as one free chunk, and the chunk    *)
(* behind is told.                                                         *)
LEMMA FreesWholeTelling ==
    ASSUME NEW h, Tagged(h), NEW p \in DOMAIN h.tag, NEW e \in DOMAIN h.tag, p < e,
           NEW F, NEW s, s = e - p, s \in BinSizes, h.tag[p].pinuse = TRUE
    PROVE  Retags(h, SetFreeWithPinuse(h, p, s, e), F, p, e, e, FALSE)
  <1> DEFINE k == ClearPinuse(h, e)
             g == SetSizeAndPinuseOfFreeChunk(k, p, s)
  <1>1. SetFreeWithPinuse(h, p, s, e) = g BY DEF SetFreeWithPinuse
  <1>2. Touches(h, k, e) /\ k.tag[e].pinuse = FALSE BY NoPinuseFacts
  <1> HIDE DEF k
  <1>3. /\ Tagged(k) /\ p \in DOMAIN k.tag /\ e \in DOMAIN k.tag /\ k.tag[p].pinuse = TRUE
        /\ SameButTags(h, k)
    BY <1>2 DEF Touches, Tagged
  <1>4. Retags(k, g, F, p, e, e, FALSE) BY <1>2, <1>3, FreesWhole
  <1> HIDE DEF g
  <1>5. SameButTags(h, g) BY <1>3, <1>4 DEF Retags, SameButTags
  <1>6. Relaid(k.tag, g.tag, F, p, e, e, FALSE) /\ Tagged(g) BY <1>4 DEF Retags
  <1>7. Relaid(h.tag, g.tag, F, p, e, e, FALSE) BY <1>2, <1>3, <1>6 DEF Relaid, Touches
  <1> QED BY <1>1, <1>5, <1>6, <1>7 DEF Retags

(* The stretch joins top.                                                  *)
LEMMA JoinsTop ==
    ASSUME NEW h, Tagged(h), NEW p \in DOMAIN h.tag, NEW e \in DOMAIN h.tag, p < e,
           NEW s, s = e - p, h.tag[p].pinuse = TRUE,
           h.tag[e].pinuse = FALSE
    PROVE  Retags(h, Lay(h, p, s, TRUE, FALSE), e, p, e, e, FALSE)
  <1> DEFINE g == Lay(h, p, s, TRUE, FALSE)
  <1>1. p \in Nat /\ e \in Nat /\ s \in Int /\ p + s = e /\ p < e BY DEF Tagged
  <1>2. TRUE \in BOOLEAN /\ FALSE \in BOOLEAN OBVIOUS
  <1>4. LaidAt(h, g, p, s, TRUE, FALSE) BY <1>1, <1>2, LayFacts, Zenon
  <1> HIDE DEF g
  <1>5. e \in DOMAIN g.tag /\ Tagged(g) BY <1>1, <1>4 DEF LaidAt
  <1>8. Relaid(h.tag, g.tag, e, p, e, e, FALSE)
    <2>1. DOMAIN g.tag = {q \in DOMAIN h.tag : q <= p \/ q >= e} \cup {e}
      BY <1>1, <1>4 DEF Tagged, LaidAt
    <2>2. g.tag[e] = h.tag[e] BY <1>1, <1>4, <1>5 DEF LaidAt
    <2>4. g.tag[p] \in AnyTag /\ g.tag[e] \in AnyTag
      BY <1>1, <1>5, <2>1 DEF Tagged
    <2> QED BY <1>1, <1>4, <2>1, <2>2, <2>4 DEF Relaid, LaidAt
  <1>9. Retags(h, g, e, p, e, e, FALSE) BY <1>4, <1>5, <1>8 DEF Retags, LaidAt
  <1> QED BY <1>9 DEF g

(* A chunk in use has been laid from p up to mid.                          *)
Opens(h, k, p, mid) ==
    /\ SameButTags(h, k) /\ Tagged(k) /\ p \in DOMAIN k.tag
    /\ \A x : x # mid => (x \in DOMAIN k.tag <=> x \in DOMAIN h.tag /\ (x <= p \/ x >= mid))
    /\ \A x \in DOMAIN k.tag : x \notin {p, mid} => k.tag[x] = h.tag[x]
    /\ k.tag[p].size = mid - p /\ k.tag[p].cinuse = TRUE
    /\ k.tag[p].pinuse = h.tag[p].pinuse
    /\ h.tag[p].pinuse = FALSE => k.tag[p].prevFoot = h.tag[p].prevFoot

(* A first header laid short of the stretch's end opens it for a second    *)
(* one.                                                                    *)
LEMMA LayOpens ==
    ASSUME NEW h, Tagged(h), NEW p \in DOMAIN h.tag, NEW mid \in Nat, p < mid,
           NEW nb, nb = mid - p, NEW b, b = h.tag[p].pinuse
    PROVE  Opens(h, Lay(h, p, nb, b, TRUE), p, mid)
  <1> DEFINE k == Lay(h, p, nb, b, TRUE)
  <1>1. p \in Nat /\ nb \in Int /\ p + nb = mid BY DEF Tagged
  <1>2. b \in BOOLEAN /\ TRUE \in BOOLEAN BY DEF Tagged, AnyTag
  <1>3. LaidAt(h, k, p, nb, b, TRUE) BY <1>1, <1>2, LayFacts, Zenon
  <1> HIDE DEF k
  <1>4. \A x : x # mid => (x \in DOMAIN k.tag <=> x \in DOMAIN h.tag /\ (x <= p \/ x >= mid))
    BY <1>1, <1>3 DEF LaidAt, Tagged
  <1>5. Opens(h, k, p, mid) BY <1>1, <1>3, <1>4 DEF Opens, LaidAt
  <1> QED BY <1>5 DEF k

(* set_inuse on the first part opens the stretch, and tells the second its *)
(* pinuse.                                                                 *)
LEMMA SetInuseOpens ==
    ASSUME NEW h, Tagged(h), NEW p \in DOMAIN h.tag, NEW mid \in Nat, p < mid,
           NEW nb, nb = mid - p
    PROVE  Opens(h, SetInuse(h, p, nb), p, mid) /\ PinuseFound(SetInuse(h, p, nb), mid) = TRUE
  <1>1. PICK b : b = h.tag[p].pinuse OBVIOUS
  <1> DEFINE k == Lay(h, p, nb, b, TRUE)
             g == SetPinuse(k, mid)
  <1>2. PinuseFound(h, p) = b /\ p + nb = mid BY <1>1 DEF PinuseFound, Tagged, AnyTag
  <1>3. SetInuse(h, p, nb) = g BY <1>2 DEF SetInuse
  <1>4. Opens(h, k, p, mid) BY <1>1, LayOpens
  <1> HIDE DEF k
  <1>5. Tagged(k) BY <1>4 DEF Opens
  <1>6. /\ SameButTags(k, g) /\ Tagged(g) /\ DOMAIN g.tag = {mid} \cup DOMAIN k.tag
        /\ \A x \in DOMAIN g.tag : x # mid => g.tag[x] = k.tag[x]
        /\ g.tag[mid].pinuse = TRUE
    <2>1. CASE mid \in DOMAIN k.tag
      <3>1. Touches(k, g, mid) /\ g.tag[mid].pinuse = TRUE BY <1>5, <2>1, PinuseFacts
      <3> QED BY <2>1, <3>1 DEF Touches
    <2>2. CASE mid \notin DOMAIN k.tag
      <3>1. Plants(k, g, mid) BY <1>5, <2>2, NewPinuseFacts
      <3> QED BY <3>1 DEF Plants
    <2> QED BY <2>1, <2>2
  <1> HIDE DEF g
  <1>7. SameButTags(h, g) BY <1>4, <1>6 DEF Opens, SameButTags
  <1>8. p \in DOMAIN g.tag /\ p # mid /\ g.tag[p] = k.tag[p]
    BY <1>4, <1>6 DEF Opens, Tagged
  <1>9. \A x : x # mid => (x \in DOMAIN g.tag <=> x \in DOMAIN h.tag /\ (x <= p \/ x >= mid))
    BY <1>4, <1>6 DEF Opens
  <1>10. \A x \in DOMAIN g.tag : x \notin {p, mid} => g.tag[x] = h.tag[x]
    BY <1>4, <1>6 DEF Opens
  <1>11. Opens(h, g, p, mid) BY <1>4, <1>6, <1>7, <1>8, <1>9, <1>10 DEF Opens
  <1>12. PinuseFound(g, mid) = TRUE BY <1>6 DEF PinuseFound
  <1> QED BY <1>3, <1>11, <1>12

(* Then a second chunk from mid to e; the header at e is yet to be told.   *)
Halves(h, g, p, mid, e, c) ==
    /\ SameButTags(h, g) /\ Tagged(g)
    /\ DOMAIN g.tag = {q \in DOMAIN h.tag : q <= p \/ q >= e} \cup {mid}
    /\ \A q \in DOMAIN g.tag : q \notin {p, mid} => g.tag[q] = h.tag[q]
    /\ g.tag[p].size = mid - p /\ g.tag[p].cinuse = TRUE
    /\ g.tag[p].pinuse = h.tag[p].pinuse
    /\ h.tag[p].pinuse = FALSE => g.tag[p].prevFoot = h.tag[p].prevFoot
    /\ g.tag[mid].size = e - mid /\ g.tag[mid].pinuse = TRUE /\ g.tag[mid].cinuse = c

(* A second header closes the stretch: two chunks.                         *)
LEMMA LayHalves ==
    ASSUME NEW h, Tagged(h), NEW p \in DOMAIN h.tag, NEW e \in DOMAIN h.tag,
           NEW mid \in Nat, p < mid, mid < e, NEW k, Opens(h, k, p, mid),
           NEW s, s = e - mid, NEW c \in BOOLEAN
    PROVE  Halves(h, Lay(k, mid, s, TRUE, c), p, mid, e, c)
  <1> DEFINE g == Lay(k, mid, s, TRUE, c)
  <1>1. /\ p \in Nat /\ e \in Nat /\ s \in Int /\ mid + s = e /\ Tagged(k)
        /\ DOMAIN h.tag \subseteq Nat
    BY DEF Tagged, Opens
  <1>2. TRUE \in BOOLEAN OBVIOUS
  <1>3. LaidAt(k, g, mid, s, TRUE, c) BY <1>1, <1>2, LayFacts, Zenon
  <1> HIDE DEF g
  <1>4. DOMAIN g.tag = {mid} \cup {x \in DOMAIN k.tag : x < mid \/ x >= e}
    BY <1>1, <1>3 DEF LaidAt
  <1>5. DOMAIN g.tag = {q \in DOMAIN h.tag : q <= p \/ q >= e} \cup {mid}
    BY <1>1, <1>4 DEF Opens
  <1>6. p \in DOMAIN g.tag /\ g.tag[p] = k.tag[p]
    BY <1>1, <1>3, <1>5 DEF LaidAt
  <1>7. \A q \in DOMAIN g.tag : q \notin {p, mid} => g.tag[q] = h.tag[q]
    BY <1>3, <1>4 DEF LaidAt, Opens
  <1>8. SameButTags(h, g) BY <1>3 DEF LaidAt, Opens, SameButTags
  <1>9. Halves(h, g, p, mid, e, c) BY <1>3, <1>5, <1>6, <1>7, <1>8 DEF LaidAt, Opens, Halves
  <1> QED BY <1>9 DEF g

(* The ways in which the header at e learns of it.                         *)
LEMMA HalvesTold ==
    ASSUME NEW h, Tagged(h), NEW p \in DOMAIN h.tag, NEW e \in DOMAIN h.tag,
           NEW mid \in Nat, p < mid, mid < e, NEW c \in BOOLEAN,
           NEW k, Halves(h, k, p, mid, e, c), NEW F,
           NEW g, SameButTags(k, g), Tagged(g), DOMAIN g.tag = DOMAIN k.tag,
           \A x \in DOMAIN g.tag : x # e => g.tag[x] = k.tag[x],
           g.tag[e].size = k.tag[e].size, g.tag[e].cinuse = k.tag[e].cinuse,
           g.tag[e].pinuse = c,
           (c = FALSE /\ e # F) => g.tag[e].prevFoot = e - mid
    PROVE  Retags(h, g, F, p, mid, e, c)
  <1>1. p \in Nat /\ e \in Nat BY DEF Tagged
  <1>2. SameButTags(h, g) BY DEF Halves, SameButTags
  <1>3. /\ e \in DOMAIN g.tag /\ p \in DOMAIN g.tag /\ mid \in DOMAIN g.tag
        /\ k.tag[e] = h.tag[e] /\ g.tag[p] = k.tag[p] /\ g.tag[mid] = k.tag[mid]
    BY <1>1 DEF Halves
  <1>4. \A x \in {p, mid, e} : g.tag[x] \in AnyTag BY <1>3 DEF Tagged
  <1>5. \A q \in DOMAIN g.tag : q \notin {p, mid, e} => g.tag[q] = h.tag[q] BY DEF Halves
  <1>6. DOMAIN g.tag = {q \in DOMAIN h.tag : q <= p \/ q >= e} \cup {mid} BY DEF Halves
  <1>7. LastOf(p, mid, e) = mid BY <1>1 DEF LastOf
  <1>8. /\ g.tag[p].size = mid - p /\ g.tag[p].cinuse = TRUE
        /\ g.tag[p].pinuse = h.tag[p].pinuse
        /\ h.tag[p].pinuse = FALSE => g.tag[p].prevFoot = h.tag[p].prevFoot
        /\ g.tag[mid].size = e - mid /\ g.tag[mid].pinuse = TRUE /\ g.tag[mid].cinuse = c
    BY <1>3 DEF Halves
  <1>9. /\ g.tag[e].size = h.tag[e].size /\ g.tag[e].cinuse = h.tag[e].cinuse
    BY <1>3
  <1>10. mid # e BY <1>1
  <1>11. Relaid(h.tag, g.tag, F, p, mid, e, c)
    BY <1>4, <1>5, <1>6, <1>7, <1>8, <1>9, <1>10 DEF Relaid
  <1> QED BY <1>2, <1>11 DEF Retags

(* An unknown is told nothing if it knows already.                         *)
LEMMA HalvesKnown ==
    ASSUME NEW h, Tagged(h), NEW p \in DOMAIN h.tag, NEW e \in DOMAIN h.tag,
           NEW mid \in Nat, p < mid, mid < e, NEW g, Halves(h, g, p, mid, e, FALSE),
           h.tag[e].pinuse = FALSE
    PROVE  Retags(h, g, e, p, mid, e, FALSE)
  <1>1. p \in Nat /\ e \in Nat BY DEF Tagged
  <1>2. /\ Tagged(g) /\ SameButTags(g, g) /\ e \in DOMAIN g.tag /\ g.tag[e] = h.tag[e]
    BY <1>1 DEF Halves, SameButTags
  <1>3. FALSE \in BOOLEAN OBVIOUS
  <1> QED BY <1>2, <1>3, HalvesTold

(* A free second chunk closes the stretch where the chunk behind is told   *)
(* already.                                                                *)
LEMMA FootTells ==
    ASSUME NEW h, Tagged(h), NEW p \in DOMAIN h.tag, NEW e \in DOMAIN h.tag,
           NEW mid \in Nat, p < mid, mid < e, NEW k, Opens(h, k, p, mid),
           NEW s, s = e - mid, s \in BinSizes, h.tag[e].pinuse = FALSE, NEW F
    PROVE  Retags(h, SetSizeAndPinuseOfFreeChunk(k, mid, s), F, p, mid, e, FALSE)
  <1> DEFINE l == Lay(k, mid, s, TRUE, FALSE)
             g == SetFoot(l, mid, s)
  <1>1. p \in Nat /\ e \in Nat /\ mid + s = e BY DEF Tagged
  <1>2. FALSE \in BOOLEAN OBVIOUS
  <1>3. SetSizeAndPinuseOfFreeChunk(k, mid, s) = g BY DEF SetSizeAndPinuseOfFreeChunk
  <1>4. Halves(h, l, p, mid, e, FALSE) BY <1>2, LayHalves
  <1> HIDE DEF l
  <1>5. /\ Tagged(l) /\ e \in DOMAIN l.tag /\ l.tag[e].pinuse = FALSE
    BY <1>1, <1>4 DEF Halves
  <1>6. Touches(l, g, e) /\ g.tag[e].prevFoot = s /\ g.tag[e].pinuse = l.tag[e].pinuse
    BY <1>1, <1>5, FootFacts
  <1> HIDE DEF g
  <1>7. Retags(h, g, F, p, mid, e, FALSE)
    BY <1>2, <1>4, <1>5, <1>6, HalvesTold DEF Touches
  <1> QED BY <1>3, <1>7

(* Cut: a free chunk, whose neighbour behind it knows it is free.          *)
LEMMA CutRetags ==
    ASSUME NEW h, Tagged(h), NEW p \in DOMAIN h.tag, NEW e \in DOMAIN h.tag, p < e,
           NEW s, s = e - p, NEW nb \in Nat, 0 < nb, nb <= s, NEW F,
           h.tag[p].pinuse = TRUE, h.tag[e].pinuse = FALSE,
           Splits(s, nb) => s - nb \in BinSizes
    PROVE  IF Splits(s, nb) THEN Retags(h, Cut(h, p, s, nb), F, p, p + nb, e, FALSE)
           ELSE Retags(h, Cut(h, p, s, nb), F, p, e, e, TRUE)
  <1>1. p \in Nat /\ e \in Nat BY DEF Tagged
  <1>2. CASE Splits(s, nb)
    <2>1. PICK mid \in Nat : mid = p + nb BY <1>1
    <2>2. PICK r : r = s - nb OBVIOUS
    <2>3. PICK b : b = TRUE OBVIOUS
    <2>4. /\ p < mid /\ mid < e /\ nb = mid - p /\ r = e - mid /\ r \in BinSizes
      <3>1. s - nb >= 4 BY <1>2, Layout DEF Splits
      <3> QED BY <1>1, <1>2, <2>1, <2>2, <3>1
    <2>5. Opens(h, Lay(h, p, nb, b, TRUE), p, mid) BY <2>3, <2>4, LayOpens
    <2>6. PICK k : k = Lay(h, p, nb, b, TRUE) OBVIOUS
    <2>7. Retags(h, SetSizeAndPinuseOfFreeChunk(k, mid, r), F, p, mid, e, FALSE)
      BY <2>4, <2>5, <2>6, FootTells
    <2>8. Cut(h, p, s, nb) = SetSizeAndPinuseOfFreeChunk(k, mid, r)
      BY <1>2, <2>1, <2>2, <2>3, <2>6 DEF Cut, SetSizeAndPinuseOfInuseChunk
    <2> QED BY <1>2, <2>1, <2>7, <2>8
  <1>3. CASE ~Splits(s, nb)
    <2>1. Retags(h, SetInuseAndPinuse(h, p, s), F, p, e, e, TRUE)
      BY SetInuseAndPinuseWhole
    <2> QED BY <1>3, <2>1 DEF Cut
  <1> QED BY <1>2, <1>3

(* Two chunks in use: what TrimTo makes of one.                            *)
LEMMA TwoInuse ==
    ASSUME NEW h, Tagged(h), NEW p \in DOMAIN h.tag, NEW e \in DOMAIN h.tag,
           NEW mid \in Nat, p < mid, mid < e, NEW nb, nb = mid - p, NEW r, r = e - mid, NEW F
    PROVE  Retags(h, SetInuse(SetInuse(h, p, nb), mid, r), F, p, mid, e, TRUE)
  <1> DEFINE k == SetInuse(h, p, nb)
             l == Lay(k, mid, r, TRUE, TRUE)
             g == SetPinuse(l, e)
  <1>1. p \in Nat /\ e \in Nat /\ mid + r = e BY DEF Tagged
  <1>2. TRUE \in BOOLEAN OBVIOUS
  <1>3. Opens(h, k, p, mid) /\ PinuseFound(k, mid) = TRUE BY SetInuseOpens
  <1> HIDE DEF k
  <1>4. SetInuse(k, mid, r) = g BY <1>1, <1>3 DEF SetInuse
  <1>5. Halves(h, l, p, mid, e, TRUE) BY <1>2, <1>3, LayHalves
  <1> HIDE DEF l
  <1>6. Tagged(l) /\ e \in DOMAIN l.tag BY <1>1, <1>5 DEF Halves
  <1>7. Touches(l, g, e) /\ g.tag[e].pinuse = TRUE BY <1>6, PinuseFacts
  <1> HIDE DEF g
  <1>8. Retags(h, g, F, p, mid, e, TRUE)
    BY <1>2, <1>5, <1>7, HalvesTold DEF Touches
  <1> QED BY <1>4, <1>8 DEF k

(* The same two, the second one first: memalign's leader.                  *)
LEMMA TwoInuseBackward ==
    ASSUME NEW h, Tagged(h), NEW p \in DOMAIN h.tag, NEW e \in DOMAIN h.tag,
           NEW mid \in Nat, p < mid, mid < e, mid \notin DOMAIN h.tag,
           NEW nb, nb = mid - p, NEW r, r = e - mid, NEW F
    PROVE  Retags(h, SetInuse(SetInuse(h, mid, r), p, nb), F, p, mid, e, TRUE)
  <1> DEFINE a == Lay(h, mid, r, FALSE, TRUE)
             k == SetPinuse(a, e)
             b == k.tag[p].pinuse
             l == Lay(k, p, nb, b, TRUE)
             g == SetPinuse(l, mid)
  <1>1. p \in Nat /\ e \in Nat /\ mid + r = e /\ r \in Int /\ nb \in Int /\ p + nb = mid
    BY DEF Tagged
  <1>2. TRUE \in BOOLEAN /\ FALSE \in BOOLEAN OBVIOUS
  <1>3. SetInuse(h, mid, r) = k
    <2>1. PinuseFound(h, mid) = FALSE BY DEF PinuseFound
    <2> QED BY <1>1, <2>1 DEF SetInuse
  <1>4. LaidAt(h, a, mid, r, FALSE, TRUE) BY <1>1, <1>2, LayFacts, Zenon
  <1> HIDE DEF a
  <1>5. Tagged(a) /\ e \in DOMAIN a.tag /\ a.tag[e] = h.tag[e]
    BY <1>1, <1>4, SMTT(60) DEF LaidAt
  <1>6. Touches(a, k, e) /\ k.tag[e].pinuse = TRUE BY <1>5, PinuseFacts
  <1> HIDE DEF k
  <1>7. /\ Tagged(k) /\ p \in DOMAIN k.tag /\ k.tag[p] = h.tag[p]
        /\ mid \in DOMAIN k.tag /\ e \in DOMAIN k.tag
        /\ k.tag[mid].size = r /\ k.tag[mid].cinuse = TRUE
        /\ k.tag[e].size = h.tag[e].size /\ k.tag[e].cinuse = h.tag[e].cinuse
    BY <1>1, <1>4, <1>5, <1>6, SMTT(60) DEF Touches, LaidAt
  <1>8. b \in BOOLEAN /\ PinuseFound(k, p) = b BY <1>7 DEF Tagged, AnyTag, PinuseFound
  <1>9. SetInuse(k, p, nb) = g BY <1>1, <1>8 DEF SetInuse
  <1> HIDE DEF b
  <1>10. LaidAt(k, l, p, nb, b, TRUE) BY <1>1, <1>2, <1>7, <1>8, LayFacts, Zenon
  <1> HIDE DEF l
  <1>11. Tagged(l) /\ mid \in DOMAIN l.tag BY <1>1, <1>7, <1>10 DEF LaidAt
  <1>12. Touches(l, g, mid) /\ g.tag[mid].pinuse = TRUE BY <1>11, PinuseFacts
  <1> HIDE DEF g
  <1>13. SameButTags(h, g) /\ Tagged(g)
    BY <1>4, <1>6, <1>10, <1>12 DEF SameButTags, LaidAt, Touches
  <1>14. Relaid(h.tag, g.tag, F, p, mid, e, TRUE)
    <2>1. DOMAIN g.tag = {q \in DOMAIN h.tag : q <= p \/ q >= e} \cup {mid}
      <3>1. DOMAIN k.tag = {mid} \cup {x \in DOMAIN h.tag : x < mid \/ x >= e}
        BY <1>1, <1>4, <1>6 DEF LaidAt, Touches
      <3>2. DOMAIN g.tag = {p} \cup {x \in DOMAIN k.tag : x < p \/ x >= mid}
        BY <1>1, <1>10, <1>12 DEF LaidAt, Touches
      <3>3. DOMAIN h.tag \subseteq Nat BY DEF Tagged
      <3>4. ASSUME NEW q
            PROVE  q \in DOMAIN g.tag <=> (q \in DOMAIN h.tag /\ (q <= p \/ q >= e)) \/ q = mid
        <4>1. CASE q \in DOMAIN h.tag
          <5>1. q \in Nat BY <3>3, <4>1
          <5> QED BY <1>1, <3>1, <3>2, <4>1, <5>1
        <4>2. CASE q \notin DOMAIN h.tag BY <1>1, <3>1, <3>2, <4>2
        <4> QED BY <4>1, <4>2
      <3> QED BY <3>4
    <2>2. \A q \in DOMAIN g.tag : q \notin {p, mid, e} => g.tag[q] = h.tag[q]
      <3>1. \A q \in DOMAIN g.tag : q \notin {p, mid} => q \in DOMAIN k.tag /\ g.tag[q] = k.tag[q]
        BY <1>10, <1>12 DEF LaidAt, Touches
      <3>2. \A q \in DOMAIN k.tag : q \notin {mid, e} => k.tag[q] = h.tag[q]
        BY <1>4, <1>6 DEF LaidAt, Touches
      <3> QED BY <3>1, <3>2
    <2>3. /\ g.tag[p] = l.tag[p] /\ l.tag[mid] = k.tag[mid] /\ g.tag[e] = k.tag[e]
          /\ \A x \in {p, mid, e} : x \in DOMAIN g.tag
      <3>1. \A x \in {p, mid, e} : x \in DOMAIN g.tag BY <1>1, <2>1
      <3>2. g.tag[p] = l.tag[p] BY <1>1, <1>12, <3>1 DEF Touches
      <3>3. l.tag[mid] = k.tag[mid] BY <1>1, <1>10, <1>11 DEF LaidAt
      <3>4. g.tag[e] = l.tag[e] /\ e \in DOMAIN l.tag BY <1>1, <1>12, <3>1 DEF Touches
      <3>5. l.tag[e] = k.tag[e] BY <1>1, <1>10, <3>4 DEF LaidAt
      <3> QED BY <3>1, <3>2, <3>3, <3>4, <3>5
    <2>4. \A x \in {p, mid, e} : g.tag[x] \in AnyTag BY <1>13, <2>3 DEF Tagged
    <2>5. /\ g.tag[p].size = nb /\ g.tag[p].cinuse = TRUE /\ g.tag[p].pinuse = h.tag[p].pinuse
          /\ h.tag[p].pinuse = FALSE => g.tag[p].prevFoot = h.tag[p].prevFoot
      BY <1>7, <1>10, <2>3 DEF LaidAt, b
    <2>6. g.tag[mid].size = r /\ g.tag[mid].cinuse = TRUE /\ g.tag[mid].pinuse = TRUE
      BY <1>7, <1>12, <2>3 DEF Touches
    <2>7. /\ g.tag[e].size = h.tag[e].size /\ g.tag[e].cinuse = h.tag[e].cinuse
          /\ g.tag[e].pinuse = TRUE
      BY <1>6, <1>7, <2>3
    <2> QED BY <1>1, <2>1, <2>2, <2>4, <2>5, <2>6, <2>7 DEF Relaid
  <1> QED BY <1>3, <1>9, <1>13, <1>14 DEF Retags

(* Telling the chunk behind a free stretch once more changes nothing of    *)
(* the relaying.                                                           *)
LEMMA ClearKeeps ==
    ASSUME NEW h, NEW g, NEW F, NEW p, NEW mid, NEW e, Retags(h, g, F, p, mid, e, FALSE),
           p \in DOMAIN h.tag, e \in DOMAIN h.tag, e \in Nat, p \in Nat, mid \in Nat,
           p < mid, mid <= e
    PROVE  Retags(h, ClearPinuse(g, e), F, p, mid, e, FALSE)
  <1> DEFINE k == ClearPinuse(g, e)
  <1>1. /\ SameButTags(h, g) /\ Tagged(g) /\ Relaid(h.tag, g.tag, F, p, mid, e, FALSE)
        /\ e \in DOMAIN g.tag
    BY DEF Retags, Relaid
  <1>2. Touches(g, k, e) /\ k.tag[e].pinuse = FALSE /\ k.tag[e].prevFoot = g.tag[e].prevFoot
    BY <1>1, NoPinuseFacts
  <1> HIDE DEF k
  <1>3. SameButTags(h, k) /\ Tagged(k) BY <1>1, <1>2 DEF Touches, SameButTags
  <1>4. k.tag[p] = g.tag[p] /\ (mid # e => k.tag[mid] = g.tag[mid])
    <2>1. p \in DOMAIN g.tag /\ mid \in DOMAIN g.tag /\ p # e
      BY <1>1 DEF Relaid
    <2> QED BY <1>2, <2>1 DEF Touches
  <1>5. DOMAIN k.tag = DOMAIN g.tag BY <1>2 DEF Touches
  <1>6. \A q \in DOMAIN k.tag : q \notin {p, mid, e} => k.tag[q] = h.tag[q]
    BY <1>1, <1>2 DEF Touches, Relaid
  <1>7. \A x \in {p, mid, e} : k.tag[x] \in AnyTag
    BY <1>1, <1>3, <1>4, <1>5 DEF Relaid, Tagged
  <1>8. /\ k.tag[e].size = h.tag[e].size /\ k.tag[e].cinuse = h.tag[e].cinuse
        /\ e # F => k.tag[e].prevFoot = e - LastOf(p, mid, e)
    BY <1>1, <1>2 DEF Relaid, Touches
  <1>9. Relaid(h.tag, k.tag, F, p, mid, e, FALSE)
    BY <1>1, <1>2, <1>4, <1>5, <1>6, <1>7, <1>8 DEF Relaid
  <1>10. Retags(h, k, F, p, mid, e, FALSE) BY <1>3, <1>9 DEF Retags
  <1> QED BY <1>10 DEF k

-----------------------------------------------------------------------------
(* Stretches of the heap.                                                  *)

(* The chunks of t from p up to e are those of C.                          *)
Stretch(t, F, p, e, C) ==
    /\ IsChunk(t, F, p) /\ e \in DOMAIN t /\ p < e /\ e % 4 = 2
    /\ Swallows(t, F, p, e)
    /\ \A q : IsChunk(t, F, q) => (q \in C <=> (p <= q /\ q < e))
    /\ p \in C

OneChunk(t, F, p, e) ==
    /\ Stretch(t, F, p, e, {p})
    /\ t[e].pinuse = t[p].cinuse
    /\ t[p].cinuse = FALSE => t[p].pinuse = TRUE /\ (e = F \/ t[e].cinuse = TRUE)
    /\ e - p = t[p].size /\ t[p].size \in BinSizes /\ t[p].size \in Nat
    /\ p \in Nat /\ e \in Nat /\ e <= F /\ p < e /\ p % 4 = 2 /\ e % 4 = 2
    /\ t[p].size % 4 = 0 /\ t[p].size >= 4
    /\ p \in DOMAIN t /\ e \in DOMAIN t
    /\ e # F => IsChunk(t, F, e) \/ t[e].size = 1

(* One chunk is a stretch.                                                 *)
LEMMA ChunkStretch ==
    ASSUME NEW t, NEW F, NEW S, Shape(t, F, S), NEW p, IsChunk(t, F, p),
           NEW e, e = p + t[p].size
    PROVE  OneChunk(t, F, p, e)
  <1>1. Heads(t, F) /\ Tiles(t, F) /\ Agree(t, F) BY DEF Shape
  <1>2. /\ p \in DOMAIN t /\ p \in Nat /\ p # F /\ p <= F /\ F \in Nat
        /\ t[p].size \in Nat /\ t[p].size # 1
    BY <1>1 DEF IsChunk, Heads, TagType
  <1>3. /\ p % 4 = 2 /\ t[p].size % 4 = 0 /\ t[p].size >= 4 /\ e \in DOMAIN t
        /\ \A q \in DOMAIN t : p < q => e <= q
    BY <1>1 DEF Tiles
  <1>4. e \in Nat /\ p < e /\ e <= F /\ e - p = t[p].size
    BY <1>1, <1>2, <1>3 DEF Heads
  <1>5. e % 4 = 2
    <2>1. PICK s \in Nat : s = t[p].size BY <1>2
    <2>2. e = p + s /\ s % 4 = 0 BY <1>3, <2>1
    <2> QED BY <1>2, <1>3, <2>2, SMT
  <1>6. t[e].pinuse = t[p].cinuse /\ (t[p].cinuse = FALSE => t[p].pinuse = TRUE)
    BY <1>1 DEF Agree
  <1>7. t[p].size \in BinSizes
    <2>1. F <= MaxPages * PageWords /\ MaxPages * PageWords \in Nat
      BY <1>1, <1>2, MemoryAssumption, MemoryEnd DEF Heads
    <2>2. PICK s \in Nat : s = t[p].size BY <1>2
    <2>3. s > 0 /\ s % 4 = 0 /\ s <= MaxPages * PageWords BY <1>2, <1>3, <1>4, <2>1, <2>2
    <2> QED BY <2>2, <2>3, SizeFacts
  <1>8. e # F => IsChunk(t, F, e) \/ t[e].size = 1 BY <1>3 DEF IsChunk
  <1>9. Swallows(t, F, p, e)
    <2>1. ASSUME NEW x \in DOMAIN t, p < x, x <= e PROVE x = e
      <3>1. x \in Nat BY <1>1 DEF Heads
      <3> QED BY <1>3, <1>4, <2>1, <3>1
    <2> QED BY <2>1 DEF Swallows
  <1>10. \A q : IsChunk(t, F, q) => (q \in {p} <=> (p <= q /\ q < e))
    <2> SUFFICES ASSUME NEW q, IsChunk(t, F, q) PROVE q \in {p} <=> (p <= q /\ q < e)
      OBVIOUS
    <2>1. q \in DOMAIN t /\ q \in Nat BY <1>1 DEF IsChunk, Heads
    <2> QED BY <1>2, <1>3, <1>4, <2>1
  <1>11. t[p].cinuse = FALSE => (e = F \/ t[e].cinuse = TRUE)
    <2> SUFFICES ASSUME t[p].cinuse = FALSE, e # F PROVE t[e].cinuse = TRUE
      OBVIOUS
    <2>1. t[e].cinuse \in BOOLEAN BY <1>1, <1>3 DEF Heads, TagType
    <2>2. CASE t[e].size = 1 BY <1>1, <1>3, <2>2 DEF Heads
    <2>3. CASE IsChunk(t, F, e)
      <3>1. t[e].cinuse = FALSE => t[e].pinuse = TRUE BY <1>1, <2>3 DEF Agree
      <3>2. t[e].pinuse = FALSE BY <1>6
      <3> QED BY <2>1, <3>1, <3>2
    <2> QED BY <1>8, <2>2, <2>3
  <1>12. Stretch(t, F, p, e, {p}) BY <1>3, <1>4, <1>5, <1>9, <1>10 DEF Stretch
  <1> QED BY <1>2, <1>3, <1>4, <1>5, <1>6, <1>7, <1>8, <1>11, <1>12 DEF OneChunk

(* Two stretches that meet are one.                                        *)
LEMMA JoinStretch ==
    ASSUME NEW t, NEW F, NEW S, Shape(t, F, S), NEW p, NEW m, NEW e, NEW C, NEW D,
           Stretch(t, F, p, m, C), Stretch(t, F, m, e, D)
    PROVE  Stretch(t, F, p, e, C \cup D)
  <1>1. Heads(t, F) BY DEF Shape
  <1>2. p \in Nat /\ m \in Nat /\ e \in Nat /\ p < m /\ m < e
    BY <1>1 DEF Stretch, IsChunk, Heads
  <1>3. Swallows(t, F, p, e)
    <2> SUFFICES ASSUME NEW x \in DOMAIN t, p < x, x <= e
                 PROVE  \E y : IsChunk(t, F, y) /\ y + t[y].size = x
      BY DEF Swallows
    <2>1. x \in Nat BY <1>1 DEF Heads
    <2>2. CASE x <= m BY <2>2 DEF Stretch, Swallows
    <2>3. CASE m < x BY <2>3 DEF Stretch, Swallows
    <2> QED BY <1>2, <2>1, <2>2, <2>3
  <1>4. \A q : IsChunk(t, F, q) => (q \in C \cup D <=> (p <= q /\ q < e))
    <2> SUFFICES ASSUME NEW q, IsChunk(t, F, q) PROVE q \in C \cup D <=> (p <= q /\ q < e)
      OBVIOUS
    <2>1. q \in Nat BY <1>1 DEF IsChunk, Heads
    <2>2. q \in C <=> (p <= q /\ q < m) BY DEF Stretch
    <2>3. q \in D <=> (m <= q /\ q < e) BY DEF Stretch
    <2> QED BY <1>2, <2>1, <2>2, <2>3
  <1> QED BY <1>2, <1>3, <1>4 DEF Stretch

-----------------------------------------------------------------------------
(* Queues of chunks.                                                       *)
Among(q, x)  == \E i \in 1 .. Len(q) : q[i] = x
NoRepeat(q)  == \A i, j \in 1 .. Len(q) : q[i] = q[j] => i = j

(* Filing a chunk at the front of a queue.                                 *)
LEMMA ConsFacts ==
    ASSUME NEW q \in Seq(Nat), NoRepeat(q), NEW p \in Nat, ~Among(q, p)
    PROVE  /\ Cons(p, q) \in Seq(Nat) /\ NoRepeat(Cons(p, q)) /\ Cons(p, q) # <<>>
           /\ \A x : Among(Cons(p, q), x) <=> Among(q, x) \/ x = p
  <1> DEFINE r == <<p>> \o q
  <1>1. Cons(p, q) = r BY DEF Cons
  <1>2. /\ r \in Seq(Nat) /\ Len(r) = Len(q) + 1 /\ Len(q) \in Nat /\ r[1] = p
        /\ \A i \in 1 .. Len(q) : r[i + 1] = q[i]
    OBVIOUS
  <1> HIDE DEF r
  <1>3. \A i \in 2 .. Len(r) : i - 1 \in 1 .. Len(q) /\ r[i] = q[i - 1]
    <2> SUFFICES ASSUME NEW i \in 2 .. Len(r) PROVE i - 1 \in 1 .. Len(q) /\ r[i] = q[i - 1]
      OBVIOUS
    <2>1. PICK j \in 1 .. Len(q) : i = j + 1
      <3>1. i - 1 \in 1 .. Len(q) /\ i = (i - 1) + 1 BY <1>2
      <3> QED BY <3>1
    <2>2. i - 1 = j BY <2>1
    <2> QED BY <1>2, <2>1, <2>2
  <1>4. NoRepeat(r)
    <2> SUFFICES ASSUME NEW i \in 1 .. Len(r), NEW j \in 1 .. Len(r), r[i] = r[j]
                 PROVE  i = j
      BY DEF NoRepeat
    <2>1. CASE i = 1 /\ j = 1 BY <2>1
    <2>2. CASE i = 1 /\ j # 1
      <3>1. j \in 2 .. Len(r) BY <1>2, <2>2
      <3> QED BY <1>2, <1>3, <2>2, <3>1 DEF Among
    <2>3. CASE i # 1 /\ j = 1
      <3>1. i \in 2 .. Len(r) BY <1>2, <2>3
      <3> QED BY <1>2, <1>3, <2>3, <3>1 DEF Among
    <2>4. CASE i # 1 /\ j # 1
      <3>1. i \in 2 .. Len(r) /\ j \in 2 .. Len(r) BY <1>2, <2>4
      <3>2. i - 1 = j - 1 BY <1>3, <3>1 DEF NoRepeat
      <3> QED BY <1>2, <3>2
    <2> QED BY <2>1, <2>2, <2>3, <2>4
  <1>5. ASSUME NEW x PROVE Among(r, x) <=> Among(q, x) \/ x = p
    <2>1. ASSUME Among(r, x) PROVE Among(q, x) \/ x = p
      <3>1. PICK i \in 1 .. Len(r) : r[i] = x BY <2>1 DEF Among
      <3>2. CASE i = 1 BY <1>2, <3>1, <3>2
      <3>3. CASE i # 1
        <4>1. i \in 2 .. Len(r) BY <1>2, <3>3
        <4> QED BY <1>3, <3>1, <4>1 DEF Among
      <3> QED BY <3>2, <3>3
    <2>2. ASSUME Among(q, x) PROVE Among(r, x)
      <3>1. PICK i \in 1 .. Len(q) : q[i] = x BY <2>2 DEF Among
      <3>2. r[i + 1] = x /\ i + 1 \in 1 .. Len(r) BY <1>2, <3>1, SMTT(60)
      <3> QED BY <3>2 DEF Among
    <2>3. Among(r, p) BY <1>2 DEF Among
    <2> QED BY <2>1, <2>2, <2>3
  <1>6. r # <<>> BY <1>2
  <1> QED BY <1>1, <1>2, <1>4, <1>5, <1>6

(* Filing a chunk at the end of a queue.                                   *)
LEMMA AppendFacts ==
    ASSUME NEW q \in Seq(Nat), NoRepeat(q), NEW p \in Nat, ~Among(q, p)
    PROVE  /\ Append(q, p) \in Seq(Nat) /\ NoRepeat(Append(q, p)) /\ Append(q, p) # <<>>
           /\ \A x : Among(Append(q, p), x) <=> Among(q, x) \/ x = p
  <1> DEFINE r == Append(q, p)
  <1>1. /\ r \in Seq(Nat) /\ Len(r) = Len(q) + 1 /\ Len(q) \in Nat /\ r[Len(q) + 1] = p
        /\ \A i \in 1 .. Len(q) : r[i] = q[i]
    OBVIOUS
  <1> HIDE DEF r
  <1>2. \A i \in 1 .. Len(r) : i = Len(q) + 1 \/ i \in 1 .. Len(q) BY <1>1
  <1>3. NoRepeat(r) BY <1>1, <1>2 DEF NoRepeat, Among
  <1>4. ASSUME NEW x PROVE Among(r, x) <=> Among(q, x) \/ x = p
    <2>1. ASSUME Among(r, x) PROVE Among(q, x) \/ x = p BY <1>1, <1>2, <2>1 DEF Among
    <2>2. ASSUME Among(q, x) PROVE Among(r, x) BY <1>1, <2>2 DEF Among
    <2>3. Among(r, p)
      <3>1. Len(q) + 1 \in 1 .. Len(r) BY <1>1
      <3> QED BY <1>1, <3>1 DEF Among
    <2> QED BY <2>1, <2>2, <2>3
  <1>5. r # <<>> BY <1>1
  <1> QED BY <1>1, <1>3, <1>4, <1>5 DEF r

(* Taking the chunk at one place of a queue out of it.                     *)
LEMMA RemoveOne ==
    ASSUME NEW q \in Seq(Nat), NoRepeat(q), NEW p, NEW i \in 1 .. Len(q), q[i] = p
    PROVE  /\ RemoveAt(q, i) \in Seq(Nat) /\ NoRepeat(RemoveAt(q, i))
           /\ \A x : Among(RemoveAt(q, i), x) <=> Among(q, x) /\ x # p
           /\ RemoveAt(q, i) = <<>> <=> q = <<p>>
  <1>1. PICK n \in Nat : n = Len(q) OBVIOUS
  <1>2. i \in Nat /\ 1 <= i /\ i <= n BY <1>1
  <1> DEFINE a == SubSeq(q, 1, i - 1)
             b == SubSeq(q, i + 1, Len(q))
             r == a \o b
  <1>3. RemoveAt(q, i) = r BY DEF RemoveAt
  <1>4. a \in Seq(Nat) /\ Len(a) = i - 1 /\ \A j \in 1 .. i - 1 : a[j] = q[j]
    <2>1. \A j \in 1 .. i - 1 : j \in Nat /\ 1 + j - 1 = j BY <1>2
    <2> QED BY <1>1, <1>2, <2>1
  <1>5. b \in Seq(Nat) /\ Len(b) = n - i /\ \A j \in 1 .. n - i : b[j] = q[i + j]
    <2>1. b \in Seq(Nat) BY <1>1, <1>2
    <2>2. Len(b) = n - i BY <1>1, <1>2
    <2>3. \A j \in 1 .. n - i : b[j] = q[(i + 1) + j - 1] BY <1>1, <1>2
    <2>4. \A j \in 1 .. n - i : (i + 1) + j - 1 = i + j BY <1>2
    <2> HIDE DEF b
    <2> QED BY <2>1, <2>2, <2>3, <2>4
  <1> HIDE DEF a, b
  <1>6. /\ r \in Seq(Nat) /\ Len(r) = n - 1
        /\ \A j \in 1 .. i - 1 : r[j] = q[j]
        /\ \A j \in i .. n - 1 : r[j] = q[j + 1]
    <2>0. a \in Seq(Nat) /\ b \in Seq(Nat) BY <1>4, <1>5
    <2>1. r \in Seq(Nat) BY <2>0
    <2>2. Len(r) = Len(a) + Len(b) BY <2>0
    <2>3. Len(r) = n - 1 BY <1>2, <1>4, <1>5, <2>2
    <2>4. \A j \in 1 .. i - 1 : r[j] = q[j]
      <3>1. ASSUME NEW j \in 1 .. i - 1 PROVE r[j] = a[j]
        <4>1. j \in 1 .. Len(a) BY <1>4
        <4> QED BY <1>4, <1>5, <4>1
      <3> HIDE DEF r
      <3> QED BY <1>4, <3>1
    <2>5. ASSUME NEW j \in i .. n - 1 PROVE r[j] = q[j + 1]
      <3>1. PICK k \in 1 .. n - i : j = k + (i - 1) /\ i + k = j + 1
        <4>1. j - (i - 1) \in 1 .. n - i /\ j = (j - (i - 1)) + (i - 1) BY <1>2
        <4>2. i + (j - (i - 1)) = j + 1 BY <1>2
        <4> QED BY <4>1, <4>2
      <3>2. k \in 1 .. Len(b) /\ j = k + Len(a) /\ j > Len(a) /\ j <= Len(a) + Len(b)
        BY <1>2, <1>4, <1>5, <3>1
      <3>3. r[j] = b[j - Len(a)]
        <4>1. j \in Len(a) + 1 .. Len(a) + Len(b) BY <2>0, <3>2
        <4> QED BY <2>0, <4>1
      <3>4. j - Len(a) = k BY <1>2, <1>4, <3>1
      <3> HIDE DEF r
      <3> QED BY <1>5, <3>1, <3>3, <3>4
    <2> HIDE DEF r
    <2> QED BY <2>1, <2>3, <2>4, <2>5
  <1> HIDE DEF r
  <1>7. NoRepeat(r)
    <2> SUFFICES ASSUME NEW j \in 1 .. Len(r), NEW k \in 1 .. Len(r), r[j] = r[k]
                 PROVE  j = k
      BY DEF NoRepeat
    <2>1. \A x \in 1 .. Len(r) : x \in 1 .. i - 1 \/ x \in i .. n - 1 BY <1>1, <1>2, <1>6
    <2>2. CASE j \in 1 .. i - 1 /\ k \in 1 .. i - 1
      <3>1. j \in 1 .. Len(q) /\ k \in 1 .. Len(q) BY <1>1, <1>2, <2>2
      <3>2. q[j] = q[k] BY <1>6, <2>2
      <3> QED BY <3>1, <3>2 DEF NoRepeat
    <2>3. CASE j \in 1 .. i - 1 /\ k \in i .. n - 1
      <3>1. j \in 1 .. Len(q) /\ k + 1 \in 1 .. Len(q) BY <1>1, <1>2, <2>3
      <3>2. q[j] = q[k + 1] BY <1>6, <2>3
      <3>3. j = k + 1 BY <3>1, <3>2 DEF NoRepeat
      <3> QED BY <1>1, <1>2, <2>3, <3>3
    <2>4. CASE j \in i .. n - 1 /\ k \in 1 .. i - 1
      <3>1. j + 1 \in 1 .. Len(q) /\ k \in 1 .. Len(q) BY <1>1, <1>2, <2>4
      <3>2. q[j + 1] = q[k] BY <1>6, <2>4
      <3>3. j + 1 = k BY <3>1, <3>2 DEF NoRepeat
      <3> QED BY <1>1, <1>2, <2>4, <3>3
    <2>5. CASE j \in i .. n - 1 /\ k \in i .. n - 1
      <3>1. j + 1 \in 1 .. Len(q) /\ k + 1 \in 1 .. Len(q) BY <1>1, <1>2, <2>5
      <3>2. q[j + 1] = q[k + 1] BY <1>6, <2>5
      <3>3. j + 1 = k + 1 BY <3>1, <3>2 DEF NoRepeat
      <3> QED BY <1>1, <1>2, <2>5, <3>3
    <2> QED BY <2>1, <2>2, <2>3, <2>4, <2>5
  <1>8. ASSUME NEW x PROVE Among(r, x) <=> Among(q, x) /\ x # p
    <2>1. ASSUME Among(r, x) PROVE Among(q, x) /\ x # p
      <3>1. PICK j \in 1 .. n - 1 : r[j] = x BY <1>6, <2>1 DEF Among
      <3>2. \E k \in 1 .. n : k # i /\ q[k] = x
        <4>1. CASE j < i
          <5>1. j \in 1 .. i - 1 BY <1>2, <4>1
          <5>2. q[j] = x BY <1>6, <3>1, <5>1
          <5>3. j \in 1 .. n /\ j # i BY <1>2, <5>1
          <5> QED BY <5>2, <5>3
        <4>2. CASE j >= i
          <5>1. j \in i .. n - 1 BY <1>2, <4>2
          <5>2. q[j + 1] = x BY <1>6, <3>1, <5>1
          <5>3. j + 1 \in 1 .. n /\ j + 1 # i BY <1>2, <5>1
          <5> QED BY <5>2, <5>3
        <4> QED BY <1>2, <4>1, <4>2
      <3> QED BY <1>1, <1>2, <3>2 DEF Among, NoRepeat
    <2>2. ASSUME Among(q, x), x # p PROVE Among(r, x)
      <3>1. PICK k \in 1 .. n : q[k] = x /\ k # i BY <1>1, <2>2 DEF Among
      <3>2. CASE k < i
        <4>1. k \in 1 .. i - 1 /\ k \in 1 .. Len(r) BY <1>2, <1>6, <3>2
        <4>2. r[k] = x BY <1>6, <3>1, <4>1
        <4> QED BY <4>1, <4>2 DEF Among
      <3>3. CASE k > i
        <4>1. PICK j \in i .. n - 1 : k = j + 1
          <5>1. k - 1 \in i .. n - 1 /\ k = (k - 1) + 1 BY <1>1, <1>2, <3>1, <3>3
          <5> QED BY <5>1
        <4>2. j \in 1 .. Len(r) BY <1>2, <1>6, <4>1
        <4>3. r[j] = q[j + 1] BY <1>6, <4>1
        <4>4. r[j] = x BY <3>1, <4>1, <4>3
        <4> QED BY <4>2, <4>4 DEF Among
      <3> QED BY <1>1, <1>2, <3>1, <3>2, <3>3
    <2> QED BY <2>1, <2>2
  <1>9. r = <<>> <=> q = <<p>>
    <2>1. ASSUME r = <<>> PROVE q = <<p>>
      <3>1. Len(r) = 0 BY <2>1
      <3>2. n = 1 /\ i = 1 BY <1>2, <1>6, <3>1
      <3>3. Len(q) = 1 /\ q[1] = p BY <1>1, <3>2
      <3> HIDE DEF r
      <3> QED BY <3>3
    <2>2. ASSUME q = <<p>> PROVE r = <<>>
      <3>1. Len(q) = 1 BY <2>2
      <3>2. Len(r) = 0 BY <1>1, <1>6, <3>1
      <3> QED BY <1>6, <3>2
    <2> QED BY <2>1, <2>2
  <1> QED BY <1>3, <1>6, <1>7, <1>8, <1>9

(* Taking a chunk out of its queue, wherever it stands.                    *)
LEMMA RemoveFacts ==
    ASSUME NEW q \in Seq(Nat), NoRepeat(q), NEW p, Among(q, p)
    PROVE  LET r == RemoveAt(q, CHOOSE j \in DOMAIN q : q[j] = p)
           IN  /\ r \in Seq(Nat) /\ NoRepeat(r)
               /\ \A x : Among(r, x) <=> Among(q, x) /\ x # p
               /\ r = <<>> <=> q = <<p>>
  <1> DEFINE i == CHOOSE j \in DOMAIN q : q[j] = p
  <1>1. DOMAIN q = 1 .. Len(q) OBVIOUS
  <1>2. i \in 1 .. Len(q) /\ q[i] = p BY <1>1 DEF Among
  <1> HIDE DEF i
  <1>3. /\ RemoveAt(q, i) \in Seq(Nat) /\ NoRepeat(RemoveAt(q, i))
        /\ \A x : Among(RemoveAt(q, i), x) <=> Among(q, x) /\ x # p
        /\ RemoveAt(q, i) = <<>> <=> q = <<p>>
    BY <1>2, RemoveOne
  <1> QED BY <1>3 DEF i

-----------------------------------------------------------------------------
(* The bins of a malloc_state.                                             *)
SmallIndexes == {SmallIndex(s) : s \in {r \in BinSizes : IsSmall(r)}}

BinsOK(h) ==
    /\ State(h)
    /\ h.bins \in [BinSizes -> Seq(Nat)]
    /\ \A s \in BinSizes : NoRepeat(h.bins[s])
    /\ \A s \in BinSizes : IsSmall(s) => (SmallIndex(s) \in h.smallmap <=> h.bins[s] # <<>>)
    /\ h.smallmap \subseteq SmallIndexes

Filed(h, x, s) == s \in BinSizes /\ Among(h.bins[s], x)

SameButBins(h, g) ==
    /\ State(g)
    /\ g.seg = h.seg /\ g.older = h.older /\ g.top = h.top /\ g.topsize = h.topsize
    /\ g.contiguous = h.contiguous /\ g.footprint = h.footprint
    /\ g.maxFootprint = h.maxFootprint /\ g.leastAddr = h.leastAddr
    /\ g.tag = h.tag /\ g.dv = h.dv /\ g.dvsize = h.dvsize

Files(h, g, p, s) ==
    /\ SameButBins(h, g) /\ BinsOK(g)
    /\ \A x, r : Filed(g, x, r) <=> Filed(h, x, r) \/ (x = p /\ r = s)

Unfiles(h, g, p, s) ==
    /\ SameButBins(h, g) /\ BinsOK(g)
    /\ \A x, r : Filed(g, x, r) <=> Filed(h, x, r) /\ ~(x = p /\ r = s)

(* Different small sizes have different bins.                              *)
LEMMA SmallIndexInjective ==
    ASSUME NEW r \in BinSizes, NEW s \in BinSizes, SmallIndex(r) = SmallIndex(s)
    PROVE  r = s
  <1>1. /\ r \in Nat /\ s \in Nat /\ r % 4 = 0 /\ s % 4 = 0
    <2>1. MaxPages * PageWords \in Nat BY MemoryAssumption, MemoryEnd
    <2> QED BY <2>1, Layout DEF BinSizes
  <1>2. r \div 2 = s \div 2 BY DEF SmallIndex
  <1> QED BY <1>1, <1>2, SMT

(* g is h with q for its bin of size s.                                    *)
Rebinned(h, g, s, q) ==
    /\ SameButBins(h, g) /\ BinsOK(g)
    /\ \A x, r : Filed(g, x, r) <=> \/ r # s /\ Filed(h, x, r)
                                    \/ r = s /\ Among(q, x)

(* One bin replaced, with the small map.                                   *)
LEMMA BinReplaced ==
    ASSUME NEW h, BinsOK(h), NEW s \in BinSizes, NEW q \in Seq(Nat), NoRepeat(q),
           NEW m, m \subseteq SmallIndexes,
           \A i : i # SmallIndex(s) => (i \in m <=> i \in h.smallmap),
           IsSmall(s) => (SmallIndex(s) \in m <=> q # <<>>),
           ~IsSmall(s) => m = h.smallmap,
           NEW g, g = [h EXCEPT !.bins = [h.bins EXCEPT ![s] = q], !.smallmap = m]
    PROVE  Rebinned(h, g, s, q)
  <1>1. /\ SameButBins(h, g) /\ g.bins = [h.bins EXCEPT ![s] = q] /\ g.smallmap = m
    BY DEF SameButBins, State, Fields, BinsOK
  <1>2. /\ g.bins \in [BinSizes -> Seq(Nat)] /\ g.bins[s] = q
        /\ \A r \in BinSizes : r # s => g.bins[r] = h.bins[r]
    BY <1>1 DEF BinsOK
  <1>3. \A r \in BinSizes : NoRepeat(g.bins[r]) BY <1>2 DEF BinsOK
  <1>4. ASSUME NEW r \in BinSizes, IsSmall(r)
        PROVE  SmallIndex(r) \in g.smallmap <=> g.bins[r] # <<>>
    <2>1. SmallIndex(r) \in h.smallmap <=> h.bins[r] # <<>> BY <1>4 DEF BinsOK
    <2>2. CASE r = s BY <1>1, <1>2, <1>4, <2>2
    <2>3. CASE r # s
      <3>1. SmallIndex(r) # SmallIndex(s) BY <2>3, SmallIndexInjective
      <3> QED BY <1>1, <1>2, <2>1, <2>3, <3>1
    <2> QED BY <2>2, <2>3
  <1>5. BinsOK(g) BY <1>1, <1>2, <1>3, <1>4 DEF BinsOK, SameButBins
  <1>6. ASSUME NEW x, NEW r
        PROVE  Filed(g, x, r) <=> \/ r # s /\ Filed(h, x, r)
                                  \/ r = s /\ Among(q, x)
    <2>1. CASE r = s BY <1>2, <2>1 DEF Filed
    <2>2. CASE r # s BY <1>2, <2>2 DEF Filed
    <2> QED BY <2>1, <2>2
  <1> QED BY <1>1, <1>5, <1>6 DEF Rebinned

(* insert_small_chunk files the chunk, and marks the bin.                  *)
LEMMA InsertSmallFacts ==
    ASSUME NEW h, BinsOK(h), NEW p \in Nat, NEW s \in BinSizes, IsSmall(s), ~Filed(h, p, s)
    PROVE  Files(h, InsertSmallChunk(h, p, s), p, s)
  <1> DEFINE q == IF SmallIndex(s) \in h.smallmap THEN Cons(p, h.bins[s]) ELSE <<p>>
             m == h.smallmap \cup {SmallIndex(s)}
             g == [h EXCEPT !.bins = [h.bins EXCEPT ![s] = q], !.smallmap = m]
  <1>1. InsertSmallChunk(h, p, s) = g
    BY DEF InsertSmallChunk, BinsOK, State, Fields
  <1>2. h.bins[s] \in Seq(Nat) /\ NoRepeat(h.bins[s]) /\ ~Among(h.bins[s], p)
    BY DEF BinsOK, Filed
  <1>3. /\ q \in Seq(Nat) /\ NoRepeat(q) /\ q # <<>>
        /\ \A x : Among(q, x) <=> Among(h.bins[s], x) \/ x = p
    <2>1. CASE SmallIndex(s) \in h.smallmap BY <1>2, <2>1, ConsFacts
    <2>2. CASE SmallIndex(s) \notin h.smallmap
      <3>1. h.bins[s] = <<>> BY <2>2 DEF BinsOK
      <3>2. ~Among(h.bins[s], p) /\ \A x : ~Among(h.bins[s], x) BY <3>1 DEF Among
      <3>3. /\ <<p>> \in Seq(Nat) /\ NoRepeat(<<p>>) /\ <<p>> # <<>>
            /\ \A x : Among(<<p>>, x) <=> x = p
        BY DEF NoRepeat, Among
      <3> QED BY <2>2, <3>2, <3>3
    <2> QED BY <2>1, <2>2
  <1>4. m \subseteq SmallIndexes /\ SmallIndex(s) \in m
    BY DEF BinsOK, SmallIndexes
  <1>5. \A i : i # SmallIndex(s) => (i \in m <=> i \in h.smallmap) OBVIOUS
  <1> HIDE DEF q, m
  <1>6. Rebinned(h, g, s, q)
    BY <1>3, <1>4, <1>5, BinReplaced, Zenon
  <1> HIDE DEF g
  <1>7. Files(h, g, p, s) BY <1>3, <1>6 DEF Files, Filed, Rebinned
  <1> QED BY <1>1, <1>7

(* insert_chunk files the chunk, small or large.                           *)
LEMMA InsertFacts ==
    ASSUME NEW h, BinsOK(h), NEW p \in Nat, NEW s \in BinSizes, ~Filed(h, p, s)
    PROVE  Files(h, InsertChunk(h, p, s), p, s)
  <1>1. CASE IsSmall(s) BY <1>1, InsertSmallFacts DEF InsertChunk
  <1>2. CASE ~IsSmall(s)
    <2> DEFINE q == Append(h.bins[s], p)
               m == h.smallmap
               g == [h EXCEPT !.bins = [h.bins EXCEPT ![s] = q], !.smallmap = m]
    <2>1. InsertChunk(h, p, s) = g
      BY <1>2 DEF InsertChunk, InsertLargeChunk, BinsOK, State, Fields
    <2>2. h.bins[s] \in Seq(Nat) /\ NoRepeat(h.bins[s]) /\ ~Among(h.bins[s], p)
      BY DEF BinsOK, Filed
    <2>3. /\ q \in Seq(Nat) /\ NoRepeat(q)
          /\ \A x : Among(q, x) <=> Among(h.bins[s], x) \/ x = p
      BY <2>2, AppendFacts
    <2>4. m \subseteq SmallIndexes BY DEF BinsOK
    <2> HIDE DEF q
    <2>5. Rebinned(h, g, s, q)
      BY <1>2, <2>3, <2>4, BinReplaced, Zenon
    <2> HIDE DEF g
    <2>6. Files(h, g, p, s) BY <2>3, <2>5 DEF Files, Filed, Rebinned
    <2> QED BY <2>1, <2>6
  <1> QED BY <1>1, <1>2

(* unlink_chunk takes the chunk out of its bin, and clears the mark of a   *)
(* bin that is empty.                                                      *)
LEMMA UnlinkFacts ==
    ASSUME NEW h, BinsOK(h), NEW p, NEW s, Filed(h, p, s)
    PROVE  Unfiles(h, UnlinkChunk(h, p, s), p, s)
  <1> DEFINE b == h.bins[s]
             q == RemoveAt(b, CHOOSE i \in DOMAIN b : b[i] = p)
             m == IF IsSmall(s) /\ b = <<p>> THEN h.smallmap \ {SmallIndex(s)} ELSE h.smallmap
             g == [h EXCEPT !.bins = [h.bins EXCEPT ![s] = q], !.smallmap = m]
  <1>1. s \in BinSizes BY DEF Filed
  <1>2. UnlinkChunk(h, p, s) = g
    BY <1>1 DEF UnlinkChunk, BinsOK, State, Fields
  <1>3. b \in Seq(Nat) /\ NoRepeat(b) /\ Among(b, p) BY <1>1 DEF BinsOK, Filed
  <1>4. /\ q \in Seq(Nat) /\ NoRepeat(q)
        /\ \A x : Among(q, x) <=> Among(b, x) /\ x # p
        /\ q = <<>> <=> b = <<p>>
    BY <1>3, RemoveFacts
  <1> HIDE DEF q
  <1>5. IsSmall(s) => SmallIndex(s) \in h.smallmap
    <2>1. b # <<>> BY <1>3 DEF Among
    <2> QED BY <1>1, <2>1 DEF BinsOK
  <1>6. /\ m \subseteq SmallIndexes
        /\ \A i : i # SmallIndex(s) => (i \in m <=> i \in h.smallmap)
        /\ IsSmall(s) => (SmallIndex(s) \in m <=> q # <<>>)
        /\ ~IsSmall(s) => m = h.smallmap
    BY <1>4, <1>5 DEF BinsOK
  <1> HIDE DEF m
  <1>7. Rebinned(h, g, s, q)
    BY <1>1, <1>4, <1>6, BinReplaced, Zenon
  <1> HIDE DEF g
  <1>8. Unfiles(h, g, p, s) BY <1>1, <1>4, <1>7 DEF Unfiles, Filed, Rebinned
  <1> QED BY <1>2, <1>8

(* The head of a bin that is not empty is filed there.                     *)
LEMMA HeadFiled ==
    ASSUME NEW h, BinsOK(h), NEW s \in BinSizes, h.bins[s] # <<>>
    PROVE  Filed(h, Head(h.bins[s]), s)
  <1>1. PICK q \in Seq(Nat) : q = h.bins[s] BY DEF BinsOK
  <1>2. Len(q) >= 1 /\ Head(q) = q[1] BY <1>1
  <1>3. 1 \in 1 .. Len(q) BY <1>2
  <1> QED BY <1>1, <1>2, <1>3 DEF Filed, Among

-----------------------------------------------------------------------------
(* Heaps between two steps of an operation: A holds the chunks in use that *)
(* somebody owns, X the free chunks that are in no bin.                    *)
FreeAt(t, F, x) == IsChunk(t, F, x) /\ t[x].cinuse = FALSE
UsedAt(t, F, x) == IsChunk(t, F, x) /\ t[x].cinuse = TRUE

Owned(t, F, A) ==
    /\ \A x \in A : UsedAt(t, F, x)
    /\ \A x : UsedAt(t, F, x) /\ x \notin A => t[x + t[x].size].size = 1

Holds(h, F, X) ==
    \A x, s : Filed(h, x, s) <=> FreeAt(h.tag, F, x) /\ x \notin X /\ h.tag[x].size = s

Loose(h, F, S, A, X) ==
    /\ Tagged(h) /\ BinsOK(h) /\ Shape(h.tag, F, S)
    /\ Owned(h.tag, F, A) /\ Holds(h, F, X)

(* What relaying a stretch adds to A and to X.                             *)
NewUsed(p, mid, e, c) == (IF mid # e THEN {p} ELSE {}) \cup (IF c THEN {LastOf(p, mid, e)} ELSE {})
NewFree(p, mid, e, c) == IF c THEN {} ELSE {LastOf(p, mid, e)}

Kept(h, g, F, C) ==
    \A q : IsChunk(h.tag, F, q) /\ q \notin C =>
        /\ IsChunk(g.tag, F, q)
        /\ g.tag[q].size = h.tag[q].size /\ g.tag[q].cinuse = h.tag[q].cinuse

Pieces(h, g, F, p, mid, e, c, C) ==
    /\ SameButTags(h, g) /\ Kept(h, g, F, C)
    /\ \A q : IsChunk(g.tag, F, q) =>
           \/ IsChunk(h.tag, F, q) /\ q \notin C
           \/ q = p
           \/ q = mid /\ mid # e
    /\ IsChunk(g.tag, F, p) /\ g.tag[p].size = mid - p
    /\ IsChunk(g.tag, F, LastOf(p, mid, e))
    /\ g.tag[LastOf(p, mid, e)].size = e - LastOf(p, mid, e)
    /\ g.tag[LastOf(p, mid, e)].cinuse = c
    /\ mid # e => g.tag[p].cinuse = TRUE

Relayed(h, g, F, S, A, X, p, mid, e, c, C) ==
    /\ Pieces(h, g, F, p, mid, e, c, C)
    /\ Loose(g, F, S, (A \ C) \cup NewUsed(p, mid, e, c), (X \ C) \cup NewFree(p, mid, e, c))

(* Relaying a stretch whose free chunks are in no bin keeps headers and    *)
(* bins in step.                                                           *)
LEMMA RelayLoose ==
    ASSUME NEW h, NEW F, NEW S, NEW A, NEW X, Loose(h, F, S, A, X),
           NEW p, NEW e, NEW C, Stretch(h.tag, F, p, e, C),
           NEW mid \in Nat, p < mid, mid <= e, mid % 4 = 2,
           NEW c \in BOOLEAN, NEW g, Retags(h, g, F, p, mid, e, c),
           c = FALSE => (e = F \/ h.tag[e].cinuse = TRUE),
           c = FALSE /\ mid = e => h.tag[p].pinuse = TRUE,
           \A x \in C : FreeAt(h.tag, F, x) => x \in X
    PROVE  Relayed(h, g, F, S, A, X, p, mid, e, c, C)
  <1> DEFINE t == h.tag
             u == g.tag
             l == LastOf(p, mid, e)
             A2 == (A \ C) \cup NewUsed(p, mid, e, c)
             X2 == (X \ C) \cup NewFree(p, mid, e, c)
  <1>1. /\ Shape(t, F, S) /\ Tagged(h) /\ BinsOK(h) /\ Owned(t, F, A) /\ Holds(h, F, X)
        /\ SameButTags(h, g) /\ Tagged(g) /\ Relaid(t, u, F, p, mid, e, c)
    BY DEF Loose, Retags
  <1>2. /\ IsChunk(t, F, p) /\ e \in DOMAIN t /\ e % 4 = 2 /\ Swallows(t, F, p, e) /\ p \in C
        /\ \A q : IsChunk(t, F, q) => (q \in C <=> (p <= q /\ q < e))
    BY DEF Stretch
  <1>3. p \in Nat /\ e \in Nat /\ \A q : IsChunk(t, F, q) => q \in Nat
    <2>1. \A q \in DOMAIN t : q \in Nat BY <1>1 DEF Tagged
    <2> QED BY <1>2, <2>1 DEF IsChunk
  <1>4. /\ Shape(u, F, S)
        /\ \A q : IsChunk(u, F, q) <=> \/ Spared(t, F, p, e, q)
                                       \/ q = p
                                       \/ (q = mid /\ mid # e)
        /\ \A q : Spared(t, F, p, e, q) =>
               /\ u[q].size = t[q].size /\ u[q].cinuse = t[q].cinuse
               /\ t[q + t[q].size].size = 1 => u[q + t[q].size].size = 1
    <2>1. p < mid /\ mid <= e /\ mid % 4 = 2 OBVIOUS
    <2>2. Reshapes(t, u, F, S, p, mid, e)
      <3> HIDE DEF t, u
      <3>1. c = FALSE => (e = F \/ t[e].cinuse = TRUE) BY DEF t
      <3>2. c = FALSE /\ mid = e => t[p].pinuse = TRUE BY DEF t
      <3> QED BY <1>1, <1>2, <3>1, <3>2, Relay
    <2> QED BY <2>2 DEF Reshapes
  <1>5. \A q : Spared(t, F, p, e, q) <=> IsChunk(t, F, q) /\ q \notin C
    <2> SUFFICES ASSUME NEW q, IsChunk(t, F, q)
                 PROVE  (q < p \/ q >= e) <=> q \notin C
      BY DEF Spared
    <2> QED BY <1>2, <1>3
  <1>6. /\ u[p].size = mid - p
        /\ u[p].cinuse = IF mid = e THEN c ELSE TRUE
        /\ mid # e => u[mid].size = e - mid /\ u[mid].cinuse = c
    BY <1>1 DEF Relaid
  <1>7. IsChunk(u, F, p) /\ IsChunk(u, F, l) /\ u[l].size = e - l /\ u[l].cinuse = c
    BY <1>4, <1>6 DEF LastOf
  <1>8. Pieces(h, g, F, p, mid, e, c, C)
    <2>1. mid # e => u[p].cinuse = TRUE BY <1>6
    <2> QED BY <1>1, <1>4, <1>5, <1>6, <1>7, <2>1 DEF Pieces, Kept
  <1>9. mid # e => ~IsChunk(t, F, mid) \/ mid \in C BY <1>2, <1>3
  <1>10. Owned(u, F, A2)
    <2>1. ASSUME NEW x \in A2 PROVE UsedAt(u, F, x)
      <3>1. CASE x \in A \ C
        <4>1. UsedAt(t, F, x) BY <1>1, <3>1 DEF Owned
        <4>2. Spared(t, F, p, e, x) BY <1>5, <3>1, <4>1 DEF UsedAt
        <4> QED BY <1>4, <4>1, <4>2 DEF UsedAt
      <3>2. CASE x \in NewUsed(p, mid, e, c)
        <4>1. (mid # e /\ x = p) \/ (c = TRUE /\ x = l)
          BY <3>2 DEF NewUsed
        <4> QED BY <1>6, <1>7, <4>1 DEF UsedAt
      <3> QED BY <3>1, <3>2
    <2>2. ASSUME NEW x, UsedAt(u, F, x), x \notin A2
          PROVE  u[x + u[x].size].size = 1
      <3>1. IsChunk(u, F, x) /\ u[x].cinuse = TRUE BY <2>2 DEF UsedAt
      <3>2. CASE Spared(t, F, p, e, x)
        <4>1. u[x].size = t[x].size /\ u[x].cinuse = t[x].cinuse
              /\ (t[x + t[x].size].size = 1 => u[x + t[x].size].size = 1)
          BY <1>4, <3>2
        <4>2. IsChunk(t, F, x) /\ x \notin C BY <1>5, <3>2
        <4>3. x \notin A BY <2>2, <4>2
        <4>4. t[x + t[x].size].size = 1 BY <1>1, <3>1, <4>1, <4>2, <4>3 DEF Owned, UsedAt
        <4> QED BY <4>1, <4>4
      <3>3. CASE x = p
        <4>1. mid = e /\ c = TRUE BY <1>6, <2>2, <3>1, <3>3 DEF NewUsed
        <4> QED BY <2>2, <3>3, <4>1 DEF NewUsed, LastOf
      <3>4. CASE x = mid /\ mid # e
        <4>1. c = TRUE BY <1>6, <3>1, <3>4
        <4> QED BY <2>2, <3>4, <4>1 DEF NewUsed, LastOf
      <3> QED BY <1>4, <3>1, <3>2, <3>3, <3>4
    <2> QED BY <2>1, <2>2 DEF Owned
  <1>11. g.bins = h.bins /\ BinsOK(g)
    BY <1>1 DEF SameButTags, BinsOK
  <1>12. Holds(g, F, X2)
    <2> SUFFICES ASSUME NEW x, NEW s
                 PROVE  Filed(g, x, s) <=> FreeAt(u, F, x) /\ x \notin X2 /\ u[x].size = s
      BY DEF Holds
    <2>1. Filed(g, x, s) <=> FreeAt(t, F, x) /\ x \notin X /\ t[x].size = s
      BY <1>1, <1>11 DEF Holds, Filed
    <2>2. CASE Spared(t, F, p, e, x)
      <3>1. IsChunk(t, F, x) /\ x \notin C BY <1>5, <2>2
      <3>2. IsChunk(u, F, x) /\ u[x].size = t[x].size /\ u[x].cinuse = t[x].cinuse
        BY <1>4, <2>2
      <3>3. x # l BY <1>2, <1>9, <3>1 DEF LastOf
      <3>4. x \in X2 <=> x \in X BY <3>1, <3>3 DEF NewFree
      <3> QED BY <2>1, <3>1, <3>2, <3>4 DEF FreeAt
    <2>3. CASE ~Spared(t, F, p, e, x)
      <3>1. ~Filed(g, x, s) BY <1>5, <2>1, <2>3 DEF FreeAt
      <3>2. ASSUME FreeAt(u, F, x) PROVE x \in X2
        <4>1. x = p \/ (x = mid /\ mid # e) BY <1>4, <2>3, <3>2 DEF FreeAt
        <4>2. u[x].cinuse = FALSE BY <3>2 DEF FreeAt
        <4>3. c = FALSE /\ x = l BY <1>6, <4>1, <4>2 DEF LastOf
        <4> QED BY <4>3 DEF NewFree
      <3> QED BY <3>1, <3>2
    <2> QED BY <2>2, <2>3
  <1>13. Loose(g, F, S, A2, X2) BY <1>1, <1>4, <1>10, <1>11, <1>12 DEF Loose
  <1> QED BY <1>8, <1>13 DEF Relayed


(* Where the chunks of a heap are and how long they are does not depend on *)
(* its other fields; its bins may be changed one chunk at a time.          *)
LEMMA UnlinkLoose ==
    ASSUME NEW h, NEW F, NEW S, NEW A, NEW X, Loose(h, F, S, A, X),
           NEW p, NEW s, FreeAt(h.tag, F, p), p \notin X, h.tag[p].size = s
    PROVE  /\ SameButBins(h, UnlinkChunk(h, p, s))
           /\ Loose(UnlinkChunk(h, p, s), F, S, A, X \cup {p})
  <1>1. PICK g : g = UnlinkChunk(h, p, s) OBVIOUS
  <1>2. Tagged(h) /\ BinsOK(h) /\ Shape(h.tag, F, S) /\ Owned(h.tag, F, A) /\ Holds(h, F, X)
    BY DEF Loose
  <1>3. Filed(h, p, s) BY <1>2 DEF Holds
  <1>4. Unfiles(h, g, p, s) BY <1>1, <1>2, <1>3, UnlinkFacts
  <1>5. SameButBins(h, g) /\ BinsOK(g) /\ g.tag = h.tag
    BY <1>4 DEF Unfiles, SameButBins
  <1>6. Tagged(g) BY <1>2, <1>5 DEF Tagged, SameButBins
  <1>7. Holds(g, F, X \cup {p})
    <2> SUFFICES ASSUME NEW x, NEW r
                 PROVE  Filed(g, x, r) <=> /\ FreeAt(g.tag, F, x) /\ x \notin X \cup {p}
                                           /\ g.tag[x].size = r
      BY DEF Holds
    <2>1. Filed(g, x, r) <=> Filed(h, x, r) /\ ~(x = p /\ r = s) BY <1>4 DEF Unfiles
    <2>2. Filed(h, x, r) <=> FreeAt(h.tag, F, x) /\ x \notin X /\ h.tag[x].size = r
      BY <1>2 DEF Holds
    <2> QED BY <1>5, <2>1, <2>2
  <1>8. Loose(g, F, S, A, X \cup {p}) BY <1>2, <1>5, <1>6, <1>7 DEF Loose
  <1> QED BY <1>1, <1>5, <1>8

(* Filing a loose free chunk leaves it loose no more.                      *)
LEMMA InsertLoose ==
    ASSUME NEW h, NEW F, NEW S, NEW A, NEW X, Loose(h, F, S, A, X),
           NEW p, NEW s \in BinSizes, FreeAt(h.tag, F, p), p \in X, h.tag[p].size = s
    PROVE  /\ SameButBins(h, InsertChunk(h, p, s))
           /\ Loose(InsertChunk(h, p, s), F, S, A, X \ {p})
  <1>1. PICK g : g = InsertChunk(h, p, s) OBVIOUS
  <1>2. Tagged(h) /\ BinsOK(h) /\ Shape(h.tag, F, S) /\ Owned(h.tag, F, A) /\ Holds(h, F, X)
    BY DEF Loose
  <1>3. ~Filed(h, p, s) /\ p \in Nat BY <1>2 DEF Holds, FreeAt, IsChunk, Tagged
  <1>4. Files(h, g, p, s) BY <1>1, <1>2, <1>3, InsertFacts
  <1>5. SameButBins(h, g) /\ BinsOK(g) /\ g.tag = h.tag
    BY <1>4 DEF Files, SameButBins
  <1>6. Tagged(g) BY <1>2, <1>5 DEF Tagged, SameButBins
  <1>7. Holds(g, F, X \ {p})
    <2> SUFFICES ASSUME NEW x, NEW r
                 PROVE  Filed(g, x, r) <=> /\ FreeAt(g.tag, F, x) /\ x \notin X \ {p}
                                           /\ g.tag[x].size = r
      BY DEF Holds
    <2>1. Filed(g, x, r) <=> Filed(h, x, r) \/ (x = p /\ r = s) BY <1>4 DEF Files
    <2>2. Filed(h, x, r) <=> FreeAt(h.tag, F, x) /\ x \notin X /\ h.tag[x].size = r
      BY <1>2 DEF Holds
    <2> QED BY <1>5, <2>1, <2>2
  <1>8. Loose(g, F, S, A, X \ {p}) BY <1>2, <1>5, <1>6, <1>7 DEF Loose
  <1> QED BY <1>1, <1>5, <1>8

(* g has h's headers and bins, and Y the free chunks that X has.           *)
LEMMA SameLoose ==
    ASSUME NEW h, NEW F, NEW S, NEW A, NEW X, Loose(h, F, S, A, X),
           NEW g, State(g), g.tag = h.tag, g.bins = h.bins, g.smallmap = h.smallmap,
           NEW Y, \A x : FreeAt(h.tag, F, x) => (x \in X <=> x \in Y)
    PROVE  Loose(g, F, S, A, Y)
  <1>1. Tagged(h) /\ BinsOK(h) /\ Shape(h.tag, F, S) /\ Owned(h.tag, F, A) /\ Holds(h, F, X)
    BY DEF Loose
  <1>2. Tagged(g) /\ BinsOK(g) BY <1>1 DEF Tagged, BinsOK
  <1>3. Holds(g, F, Y) BY <1>1 DEF Holds, Filed
  <1> QED BY <1>1, <1>2, <1>3 DEF Loose

-----------------------------------------------------------------------------
(* The heap between two operations.                                        *)
FakeAt(h)      == h.top + h.topsize
FirstChunks(h) == {s.base + 2 : s \in h.older \cup {h.seg}}

TopOK(h, F) == FreeAt(h.tag, F, h.top) /\ h.tag[h.top].size = h.topsize

DvOK(h, F) ==
    IF h.dvsize = 0 THEN h.dv = NULL
    ELSE FreeAt(h.tag, F, h.dv) /\ h.dv # h.top /\ h.tag[h.dv].size = h.dvsize

Whole(h, F, S, A) == Loose(h, F, S, A, {h.top, h.dv}) /\ TopOK(h, F) /\ DvOK(h, F)

(* Before the first memory there is nothing.                               *)
Blank(h, A) ==
    /\ Tagged(h) /\ BinsOK(h) /\ DOMAIN h.tag = {} /\ \A x, s : ~Filed(h, x, s)
    /\ h.dv = NULL /\ h.dvsize = 0 /\ A = {}

HeapOK(h, A, pg) ==
    /\ HeapInv(SystemPart(h), pg, foreign)
    /\ IF Initialized(h) THEN Whole(h, FakeAt(h), FirstChunks(h), A) ELSE Blank(h, A)

(* SystemPart copies the fields of the system layer.                       *)
LEMMA SystemFields ==
    ASSUME NEW h
    PROVE  /\ SystemPart(h).seg = h.seg /\ SystemPart(h).older = h.older
           /\ SystemPart(h).top = h.top /\ SystemPart(h).topsize = h.topsize
           /\ SystemPart(h).contiguous = h.contiguous
           /\ SystemPart(h).footprint = h.footprint
           /\ SystemPart(h).maxFootprint = h.maxFootprint
           /\ SystemPart(h).leastAddr = h.leastAddr
  BY DEF SystemPart

(* Chunks are addresses above NULL, and top is the last one.               *)
Known(h, F, S, A) ==
    /\ Tagged(h) /\ State(h) /\ BinsOK(h) /\ Shape(h.tag, F, S)
    /\ \A x : IsChunk(h.tag, F, x) => x \in Nat /\ x # NULL
    /\ \A x \in A : UsedAt(h.tag, F, x)
    /\ OneChunk(h.tag, F, h.top, F)
    /\ h.tag[h.top].size = h.topsize /\ h.tag[h.top].cinuse = FALSE
    /\ h.top \in Nat /\ h.topsize \in Nat /\ F \in Nat
    /\ Initialized(h)

(* What a whole heap says of its headers, the chunks in use and the memory *)
(* they lie in.                                                            *)
LEMMA WholeFacts ==
    ASSUME NEW h, NEW F, NEW S, NEW A, Whole(h, F, S, A), F = FakeAt(h)
    PROVE  Known(h, F, S, A)
  <1> DEFINE t == h.tag
  <1>1. /\ Tagged(h) /\ BinsOK(h) /\ Shape(t, F, S) /\ Owned(t, F, A)
        /\ IsChunk(t, F, h.top) /\ t[h.top].cinuse = FALSE /\ t[h.top].size = h.topsize
    BY DEF Whole, Loose, TopOK, FreeAt
  <1>2. Heads(t, F) /\ Tiles(t, F) BY <1>1 DEF Shape
  <1>3. \A x : IsChunk(t, F, x) => x \in Nat /\ x # NULL
    BY <1>2, HeapAssumption DEF IsChunk, Heads, NULL
  <1>4. PICK p : p = h.top OBVIOUS
  <1>5. OneChunk(t, F, p, F)
    <2>1. F = p + t[p].size /\ IsChunk(t, F, p) BY <1>1, <1>4 DEF FakeAt
    <2> HIDE DEF t
    <2> QED BY <1>1, <2>1, ChunkStretch, Zenon
  <1>6. h.top \in Nat /\ F \in Nat /\ h.topsize \in Nat BY <1>1, <1>4, <1>5 DEF OneChunk
  <1>8. Initialized(h) BY <1>1, <1>3 DEF Initialized
  <1>9. State(h) BY <1>1 DEF Tagged
  <1>10. \A x \in A : UsedAt(t, F, x) BY <1>1 DEF Owned
  <1> QED BY <1>1, <1>3, <1>4, <1>5, <1>6, <1>8, <1>9, <1>10 DEF Known


-----------------------------------------------------------------------------
(* Allocation from inside the heap.                                        *)

(* The free chunk p of s words has been given to the user.                 *)
CutDone(h, g, F, S, A, X, p, s, nb) ==
    /\ SameButTags(h, g) /\ Kept(h, g, F, {p})
    /\ Loose(g, F, S, A \cup {p}, (X \ {p}) \cup (IF Splits(s, nb) THEN {p + nb} ELSE {}))
    /\ g.tag[p].size \in Nat /\ g.tag[p].size >= nb
    /\ Splits(s, nb) => /\ FreeAt(g.tag, F, p + nb) /\ g.tag[p + nb].size = s - nb
                        /\ s - nb \in BinSizes /\ s - nb # 0
                        /\ ~IsChunk(h.tag, F, p + nb)

(* Cutting nb words from a free chunk that is in no bin; the rest is in    *)
(* none either.                                                            *)
LEMMA CutLoose ==
    ASSUME NEW h, NEW F, NEW S, NEW A, NEW X, Loose(h, F, S, A, X),
           NEW p, FreeAt(h.tag, F, p), p \in X, NEW s, s = h.tag[p].size,
           NEW nb \in Nat, nb > 0, nb % 4 = 0, nb <= s
    PROVE  CutDone(h, Cut(h, p, s, nb), F, S, A, X, p, s, nb)
  <1>1. PICK g : g = Cut(h, p, s, nb) OBVIOUS
  <1>2. PICK e : e = p + h.tag[p].size OBVIOUS
  <1>3. Tagged(h) /\ Shape(h.tag, F, S) /\ IsChunk(h.tag, F, p) /\ h.tag[p].cinuse = FALSE
    BY DEF Loose, FreeAt
  <1>4. OneChunk(h.tag, F, p, e)
    <2>1. PICK t : t = h.tag OBVIOUS
    <2>2. OneChunk(t, F, p, e) BY <1>2, <1>3, <2>1, ChunkStretch
    <2> QED BY <2>1, <2>2
  <1>5. /\ p \in DOMAIN h.tag /\ e \in DOMAIN h.tag /\ p < e /\ s = e - p /\ s \in BinSizes
        /\ s \in Nat /\ s % 4 = 0 /\ p \in Nat /\ e \in Nat /\ p % 4 = 2 /\ e % 4 = 2
        /\ e <= F /\ F \in Nat
        /\ h.tag[p].pinuse = TRUE /\ h.tag[e].pinuse = FALSE
        /\ (e = F \/ h.tag[e].cinuse = TRUE)
        /\ Stretch(h.tag, F, p, e, {p})
    <2>1. F \in DOMAIN h.tag BY <1>3 DEF Shape, Heads
    <2> QED BY <1>3, <1>4, <2>1 DEF OneChunk, Tagged
  <1>6. Splits(s, nb) => s - nb \in BinSizes
    <2>1. MaxPages * PageWords \in Nat BY MemoryAssumption, MemoryEnd
    <2>2. s <= MaxPages * PageWords BY <1>5, <2>1 DEF BinSizes
    <2>3. PICK r \in Int : r = s - nb BY <1>5
    <2>4. r % 4 = 0 BY <1>5, <2>3, SMT
    <2>5. r >= 4 => r \in BinSizes
      <3>1. r >= 4 => r \in Nat /\ r > 0 /\ r <= MaxPages * PageWords
        BY <1>5, <2>1, <2>2, <2>3
      <3> QED BY <2>4, <3>1, SizeFacts
    <2> QED BY <2>3, <2>5, Layout DEF Splits
  <1>7. IF Splits(s, nb) THEN Retags(h, g, F, p, p + nb, e, FALSE)
        ELSE Retags(h, g, F, p, e, e, TRUE)
    <2>1. 0 < nb OBVIOUS
    <2> QED BY <1>1, <1>3, <1>5, <1>6, <2>1, CutRetags
  <1>8. \A x \in {p} : FreeAt(h.tag, F, x) => x \in X OBVIOUS
  <1>9. CASE Splits(s, nb)
    <2>1. PICK mid : mid = p + nb OBVIOUS
    <2>2. mid \in Nat /\ p < mid /\ mid < e /\ mid <= e /\ mid % 4 = 2 /\ mid # e
      <3>1. s - nb >= 4 BY <1>9, Layout DEF Splits
      <3>2. mid % 4 = 2 BY <1>5, <2>1, SMT
      <3> QED BY <1>5, <2>1, <3>1, <3>2
    <2>3. FALSE \in BOOLEAN OBVIOUS
    <2>4. Retags(h, g, F, p, mid, e, FALSE) BY <1>7, <1>9, <2>1
    <2>5. Relayed(h, g, F, S, A, X, p, mid, e, FALSE, {p})
      BY <1>5, <1>8, <2>2, <2>3, <2>4, RelayLoose, Zenon
    <2>6. LastOf(p, mid, e) = mid BY <2>2 DEF LastOf
    <2>7. /\ SameButTags(h, g) /\ Kept(h, g, F, {p})
          /\ g.tag[p].size = mid - p
          /\ FreeAt(g.tag, F, mid) /\ g.tag[mid].size = e - mid
      BY <2>5, <2>6 DEF Relayed, Pieces, FreeAt
    <2>8. Loose(g, F, S, A \cup {p}, (X \ {p}) \cup {mid})
      <3>1. Loose(g, F, S, (A \ {p}) \cup NewUsed(p, mid, e, FALSE),
                           (X \ {p}) \cup NewFree(p, mid, e, FALSE))
        BY <2>5 DEF Relayed
      <3>2. (A \ {p}) \cup NewUsed(p, mid, e, FALSE) = A \cup {p} BY <2>2 DEF NewUsed
      <3>3. NewFree(p, mid, e, FALSE) = {mid} BY <2>6 DEF NewFree
      <3> QED BY <3>1, <3>2, <3>3
    <2>9. ~IsChunk(h.tag, F, mid)
      BY <1>5, <2>2 DEF Stretch
    <2>10. g.tag[p].size \in Nat /\ g.tag[p].size >= nb /\ e - mid = s - nb /\ s - nb # 0
      BY <1>5, <2>1, <2>2, <2>7
    <2> QED BY <1>1, <1>6, <1>9, <2>1, <2>7, <2>8, <2>9, <2>10 DEF CutDone
  <1>10. CASE ~Splits(s, nb)
    <2>1. TRUE \in BOOLEAN /\ e <= e /\ ~(TRUE = FALSE) BY <1>5
    <2>2. Retags(h, g, F, p, e, e, TRUE) BY <1>7, <1>10
    <2>3. Relayed(h, g, F, S, A, X, p, e, e, TRUE, {p})
      BY <1>5, <1>8, <2>1, <2>2, RelayLoose, Zenon
    <2>4. SameButTags(h, g) /\ Kept(h, g, F, {p}) /\ g.tag[p].size = e - p
      BY <2>3 DEF Relayed, Pieces
    <2>5. Loose(g, F, S, A \cup {p}, (X \ {p}) \cup {})
      <3>1. Loose(g, F, S, (A \ {p}) \cup NewUsed(p, e, e, TRUE),
                           (X \ {p}) \cup NewFree(p, e, e, TRUE))
        BY <2>3 DEF Relayed
      <3>2. (A \ {p}) \cup NewUsed(p, e, e, TRUE) = A \cup {p} BY DEF NewUsed, LastOf
      <3>3. NewFree(p, e, e, TRUE) = {} BY DEF NewFree
      <3> QED BY <3>1, <3>2, <3>3
    <2> QED BY <1>1, <1>5, <1>10, <2>4, <2>5 DEF CutDone
  <1> QED BY <1>9, <1>10


(* What a step inside the heap leaves alone.                               *)
SameHeap(h, g) ==
    /\ State(g)
    /\ g.seg = h.seg /\ g.older = h.older /\ g.contiguous = h.contiguous
    /\ g.footprint = h.footprint /\ g.maxFootprint = h.maxFootprint
    /\ g.leastAddr = h.leastAddr

SameTopDv(h, g) == g.top = h.top /\ g.topsize = h.topsize /\ g.dv = h.dv /\ g.dvsize = h.dvsize

Steady(h, g, A) == \A x \in A : g.tag[x].size = h.tag[x].size

(* p, a free chunk of h, is in use in g, with nb words at least.           *)
Gave(h, g, F, S, A, p, nb) ==
    /\ SameHeap(h, g) /\ FakeAt(g) = F /\ Whole(g, F, S, A \cup {p})
    /\ FreeAt(h.tag, F, p) /\ g.tag[p].size \in Nat /\ g.tag[p].size >= nb
    /\ Steady(h, g, A)
    /\ IF p = h.top THEN nb < h.topsize /\ g.top = h.top + nb /\ g.topsize = h.topsize - nb
       ELSE g.top = h.top /\ g.topsize = h.topsize

(* The chunk p from the bin of size s, cut; the rest is in no bin yet.     *)
Took(h, c, F, S, A, p, s, nb) ==
    /\ SameHeap(h, c) /\ SameTopDv(h, c) /\ Kept(h, c, F, {p})
    /\ Loose(c, F, S, A \cup {p},
             {h.top, h.dv} \cup (IF Splits(s, nb) THEN {p + nb} ELSE {}))
    /\ p \notin {h.top, h.dv} /\ FreeAt(h.tag, F, p)
    /\ c.tag[p].size \in Nat /\ c.tag[p].size >= nb
    /\ Splits(s, nb) => /\ FreeAt(c.tag, F, p + nb) /\ c.tag[p + nb].size = s - nb
                        /\ s - nb \in BinSizes /\ s - nb # 0
                        /\ ~IsChunk(h.tag, F, p + nb)

(* Taking the head of a bin and cutting it.                                *)
LEMMA TakeCut ==
    ASSUME NEW h, NEW F, NEW S, NEW A, Whole(h, F, S, A),
           NEW s \in BinSizes, h.bins[s] # <<>>, NEW p, p = Head(h.bins[s]),
           NEW nb \in Nat, nb > 0, nb % 4 = 0, nb <= s
    PROVE  Took(h, Cut(UnlinkChunk(h, p, s), p, s, nb), F, S, A, p, s, nb)
  <1>1. PICK X : X = {h.top, h.dv} OBVIOUS
  <1>2. Loose(h, F, S, A, X) /\ BinsOK(h) /\ Holds(h, F, X) BY <1>1 DEF Whole, Loose
  <1>3. Filed(h, p, s) BY <1>2, HeadFiled
  <1>4. FreeAt(h.tag, F, p) /\ p \notin X /\ h.tag[p].size = s BY <1>2, <1>3 DEF Holds
  <1>5. PICK k : k = UnlinkChunk(h, p, s) OBVIOUS
  <1>6. SameButBins(h, k) /\ Loose(k, F, S, A, X \cup {p}) BY <1>2, <1>4, <1>5, UnlinkLoose
  <1>7. PICK Y : Y = X \cup {p} OBVIOUS
  <1>8. k.tag = h.tag BY <1>6 DEF SameButBins
  <1>9. FreeAt(k.tag, F, p) /\ s = k.tag[p].size /\ p \in Y BY <1>4, <1>7, <1>8
  <1>10. PICK c : c = Cut(k, p, s, nb) BY Zenon
  <1>11. CutDone(k, c, F, S, A, Y, p, s, nb)
    <2>1. Loose(k, F, S, A, Y) BY <1>6, <1>7
    <2> QED BY <1>9, <1>10, <2>1, CutLoose, Zenon
  <1>12. /\ SameHeap(h, c) /\ SameTopDv(h, c)
    BY <1>6, <1>11 DEF CutDone, SameButTags, SameButBins, SameHeap, SameTopDv
  <1>13. Kept(h, c, F, {p}) BY <1>8, <1>11 DEF CutDone, Kept
  <1>14. PICK R : R = IF Splits(s, nb) THEN {p + nb} ELSE {} OBVIOUS
  <1>15. (Y \ {p}) \cup R = X \cup R BY <1>4, <1>7
  <1>16. Loose(c, F, S, A \cup {p}, X \cup R)
    <2>1. Loose(c, F, S, A \cup {p}, (Y \ {p}) \cup R) BY <1>11, <1>14 DEF CutDone
    <2> QED BY <1>15, <2>1
  <1>17. Took(h, c, F, S, A, p, s, nb)
    BY <1>1, <1>4, <1>8, <1>11, <1>12, <1>13, <1>14, <1>16 DEF Took, CutDone
  <1> QED BY <1>5, <1>10, <1>17

(* Taking from a bin leaves top, dv and everyone else's chunks as they     *)
(* were.                                                                   *)
LEMMA TookWhole ==
    ASSUME NEW h, NEW F, NEW S, NEW A, Whole(h, F, S, A), F = FakeAt(h), NEW c, NEW p, NEW s,
           NEW nb, Took(h, c, F, S, A, p, s, nb)
    PROVE  /\ TopOK(c, F) /\ DvOK(c, F) /\ FakeAt(c) = F /\ Steady(h, c, A)
  <1>1. /\ SameTopDv(h, c) /\ Kept(h, c, F, {p}) /\ FreeAt(h.tag, F, p)
        /\ p \notin {h.top, h.dv}
    BY DEF Took
  <1>2. TopOK(h, F) /\ DvOK(h, F) /\ Owned(h.tag, F, A) BY DEF Whole, Loose
  <1>3. TopOK(c, F) /\ FakeAt(c) = F
    BY <1>1, <1>2 DEF TopOK, FakeAt, SameTopDv, Kept, FreeAt
  <1>4. DvOK(c, F)
    BY <1>1, <1>2 DEF DvOK, SameTopDv, Kept, FreeAt
  <1>5. Steady(h, c, A)
    BY <1>1, <1>2 DEF Steady, Kept, Owned, UsedAt, FreeAt
  <1> QED BY <1>3, <1>4, <1>5

(* With the rest filed, the request is served.                             *)
LEMMA TookGave ==
    ASSUME NEW h, NEW F, NEW S, NEW A, Whole(h, F, S, A), F = FakeAt(h), NEW c, NEW p, NEW s,
           NEW nb, Took(h, c, F, S, A, p, s, nb)
    PROVE  Gave(h, IF Splits(s, nb) THEN InsertChunk(c, p + nb, s - nb) ELSE c,
                F, S, A, p, nb)
  <1>1. TopOK(c, F) /\ DvOK(c, F) /\ FakeAt(c) = F /\ Steady(h, c, A) BY TookWhole
  <1>2. /\ SameHeap(h, c) /\ SameTopDv(h, c) /\ FreeAt(h.tag, F, p)
        /\ p \notin {h.top, h.dv} /\ c.tag[p].size \in Nat /\ c.tag[p].size >= nb
    BY DEF Took
  <1>3. CASE ~Splits(s, nb)
    <2>1. {h.top, h.dv} \cup {} = {c.top, c.dv} BY <1>2 DEF SameTopDv
    <2>2. Loose(c, F, S, A \cup {p}, {h.top, h.dv} \cup {}) BY <1>3 DEF Took
    <2>3. Whole(c, F, S, A \cup {p}) BY <1>1, <2>1, <2>2 DEF Whole
    <2> QED BY <1>1, <1>2, <1>3, <2>3 DEF Gave, SameTopDv
  <1>4. CASE Splits(s, nb)
    <2>1. PICK q, r : q = p + nb /\ r = s - nb OBVIOUS
    <2>2. /\ FreeAt(c.tag, F, q) /\ c.tag[q].size = r /\ r \in BinSizes
          /\ ~IsChunk(h.tag, F, q)
      BY <1>4, <2>1 DEF Took
    <2>3. PICK X : X = {h.top, h.dv} \cup {q} OBVIOUS
    <2>4. PICK B : B = A \cup {p} OBVIOUS
    <2>5. Loose(c, F, S, B, X) BY <1>4, <2>1, <2>3, <2>4 DEF Took
    <2>6. PICK g : g = InsertChunk(c, q, r) OBVIOUS
    <2>7. q \in X BY <2>3
    <2>8. SameButBins(c, g) /\ Loose(g, F, S, B, X \ {q})
      BY <2>2, <2>5, <2>6, <2>7, InsertLoose
    <2>9. \A x : FreeAt(g.tag, F, x) => (x \in X \ {q} <=> x \in {g.top, g.dv})
      <3>1. g.top = h.top /\ g.dv = h.dv BY <1>2, <2>8 DEF SameTopDv, SameButBins
      <3>2. q # h.top
        <4>1. IsChunk(h.tag, F, h.top) BY DEF Whole, TopOK, FreeAt
        <4> QED BY <2>2, <4>1
      <3>3. q # h.dv
        <4>1. CASE h.dvsize = 0
          <5>1. h.dv = NULL BY <4>1 DEF Whole, DvOK
          <5>2. q # NULL
            <6>1. IsChunk(c.tag, F, q) /\ Shape(c.tag, F, S) BY <2>2, <2>5 DEF FreeAt, Loose
            <6> QED BY <6>1, HeapAssumption DEF IsChunk, Shape, Heads, NULL
          <5> QED BY <5>1, <5>2
        <4>2. CASE h.dvsize # 0
          <5>1. IsChunk(h.tag, F, h.dv) BY <4>2 DEF Whole, DvOK, FreeAt
          <5> QED BY <2>2, <5>1
        <4> QED BY <4>1, <4>2
      <3> QED BY <2>3, <3>1, <3>2, <3>3
    <2>10. /\ State(g) /\ g.tag = c.tag /\ g.bins = g.bins /\ g.smallmap = g.smallmap
           /\ g.top = c.top /\ g.topsize = c.topsize /\ g.dv = c.dv /\ g.dvsize = c.dvsize
      BY <2>8 DEF SameButBins
    <2>11. PICK Z, Y : Z = X \ {q} /\ Y = {g.top, g.dv} OBVIOUS
    <2>12. Loose(g, F, S, B, Y)
      <3>1. g.tag = g.tag OBVIOUS
      <3>2. Loose(g, F, S, B, Z) BY <2>8, <2>11
      <3>3. \A x : FreeAt(g.tag, F, x) => (x \in Z <=> x \in Y) BY <2>9, <2>11
      <3> QED BY <2>10, <3>1, <3>2, <3>3, SameLoose
    <2>13. TopOK(g, F) /\ DvOK(g, F) /\ FakeAt(g) = F
      BY <1>1, <2>10 DEF TopOK, DvOK, FakeAt
    <2>14. Whole(g, F, S, A \cup {p}) BY <2>4, <2>11, <2>12, <2>13 DEF Whole
    <2>15. SameHeap(h, g) BY <1>2, <2>8 DEF SameHeap, SameButBins
    <2>16. Steady(h, g, A) BY <1>1, <2>10 DEF Steady
    <2>17. Gave(h, g, F, S, A, p, nb)
      BY <1>2, <2>10, <2>13, <2>14, <2>15, <2>16 DEF Gave, SameTopDv
    <2> QED BY <1>4, <2>1, <2>6, <2>17
  <1> QED BY <1>3, <1>4


(* For a small request the rest becomes dv; the old dv, smaller still,     *)
(* goes into its bin.                                                      *)
LEMMA TookDv ==
    ASSUME NEW h, NEW F, NEW S, NEW A, Whole(h, F, S, A), F = FakeAt(h), NEW c, NEW p, NEW s,
           NEW nb, Took(h, c, F, S, A, p, s, nb), Splits(s, nb),
           h.dvsize # 0 => IsSmall(h.dvsize)
    PROVE  Gave(h, ReplaceDv(c, p + nb, s - nb), F, S, A, p, nb)
  <1>1. TopOK(c, F) /\ DvOK(c, F) /\ FakeAt(c) = F /\ Steady(h, c, A) BY TookWhole
  <1>2. /\ SameHeap(h, c) /\ SameTopDv(h, c) /\ FreeAt(h.tag, F, p)
        /\ p \notin {h.top, h.dv} /\ c.tag[p].size \in Nat /\ c.tag[p].size >= nb
    BY DEF Took
  <1>3. PICK q, r : q = p + nb /\ r = s - nb OBVIOUS
  <1>4. /\ FreeAt(c.tag, F, q) /\ c.tag[q].size = r /\ r \in BinSizes /\ r # 0
        /\ ~IsChunk(h.tag, F, q)
    BY <1>3 DEF Took
  <1>5. q # h.top
    <2>1. IsChunk(h.tag, F, h.top) BY DEF Whole, TopOK, FreeAt
    <2> QED BY <1>4, <2>1
  <1>6. PICK B : B = A \cup {p} OBVIOUS
  <1>7. PICK X : X = {h.top, h.dv} \cup {q} OBVIOUS
  <1>8. Loose(c, F, S, B, X) BY <1>3, <1>6, <1>7 DEF Took
  <1>9. PICK k : k = IF c.dvsize # 0 THEN InsertSmallChunk(c, c.dv, c.dvsize) ELSE c OBVIOUS
  <1>10. PICK g : g = [k EXCEPT !.dv = q, !.dvsize = r] OBVIOUS
  <1>11. ReplaceDv(c, q, r) = g BY <1>9, <1>10 DEF ReplaceDv
  <1>12. /\ SameButBins(c, k)
         /\ \E Y : /\ Loose(k, F, S, B, Y)
                   /\ \A x : FreeAt(k.tag, F, x) => (x \in Y <=> x \in {h.top, q})
    <2>1. CASE c.dvsize # 0
      <3>1. /\ FreeAt(c.tag, F, c.dv) /\ c.dv # c.top /\ c.tag[c.dv].size = c.dvsize
        BY <1>1, <2>1 DEF DvOK
      <3>2. PICK d, n : d = c.dv /\ n = c.dvsize OBVIOUS
      <3>3. d = h.dv /\ n = h.dvsize /\ IsSmall(n) BY <1>2, <2>1, <3>2 DEF SameTopDv
      <3>4. n \in BinSizes
        <4>1. PICK t : t = c.tag OBVIOUS
        <4>2. Shape(t, F, S) /\ IsChunk(t, F, d) BY <1>8, <3>1, <3>2, <4>1 DEF Loose, FreeAt
        <4>3. PICK e : e = d + t[d].size OBVIOUS
        <4>4. OneChunk(t, F, d, e) BY <4>2, <4>3, ChunkStretch
        <4> QED BY <3>1, <3>2, <4>1, <4>4 DEF OneChunk
      <3>5. k = InsertChunk(c, d, n) BY <1>9, <2>1, <3>2, <3>3 DEF InsertChunk
      <3>6. FreeAt(c.tag, F, d) /\ d \in X /\ c.tag[d].size = n
        BY <1>7, <3>1, <3>2, <3>3
      <3>7. SameButBins(c, k) /\ Loose(k, F, S, B, X \ {d})
        BY <1>8, <3>4, <3>5, <3>6, InsertLoose
      <3>8. d # h.top /\ d # q
        <4>1. d # h.top BY <1>2, <3>1, <3>2 DEF SameTopDv
        <4>2. IsChunk(h.tag, F, h.dv)
          BY <1>2, <2>1 DEF Whole, DvOK, FreeAt, SameTopDv
        <4> QED BY <1>4, <3>3, <4>1, <4>2
      <3>9. \A x : x \in X \ {d} <=> x \in {h.top, q} BY <1>7, <3>3, <3>8
      <3> QED BY <3>7, <3>9
    <2>2. CASE c.dvsize = 0
      <3>1. k = c BY <1>9, <2>2
      <3>2. SameButBins(c, k) BY <1>2, <3>1 DEF SameButBins, SameHeap
      <3>3. ASSUME NEW x, FreeAt(k.tag, F, x) PROVE x \in X <=> x \in {h.top, q}
        <4>1. IsChunk(c.tag, F, x) /\ Shape(c.tag, F, S) BY <1>8, <3>1, <3>3 DEF FreeAt, Loose
        <4>2. x # NULL BY <4>1, HeapAssumption DEF IsChunk, Shape, Heads, NULL
        <4>3. h.dv = NULL BY <1>1, <1>2, <2>2 DEF DvOK, SameTopDv
        <4> QED BY <1>7, <4>2, <4>3
      <3>4. Loose(k, F, S, B, X) BY <1>8, <3>1
      <3> QED BY <3>2, <3>3, <3>4
    <2> QED BY <2>1, <2>2
  <1>13. PICK Y : /\ Loose(k, F, S, B, Y)
                  /\ \A x : FreeAt(k.tag, F, x) => (x \in Y <=> x \in {h.top, q})
    BY <1>12
  <1>14. /\ State(g) /\ g.tag = k.tag /\ g.bins = k.bins /\ g.smallmap = k.smallmap
         /\ g.top = k.top /\ g.topsize = k.topsize /\ g.dv = q /\ g.dvsize = r
         /\ g.seg = k.seg /\ g.older = k.older /\ g.contiguous = k.contiguous
         /\ g.footprint = k.footprint /\ g.maxFootprint = k.maxFootprint
         /\ g.leastAddr = k.leastAddr
    BY <1>10, <1>12 DEF SameButBins, State, Fields
  <1>15. g.top = h.top /\ g.topsize = h.topsize /\ g.tag = c.tag
    BY <1>2, <1>12, <1>14 DEF SameButBins, SameTopDv
  <1>16. PICK Z : Z = {g.top, g.dv} OBVIOUS
  <1>17. Loose(g, F, S, B, Z)
    <2>1. \A x : FreeAt(k.tag, F, x) => (x \in Y <=> x \in Z)
      BY <1>13, <1>14, <1>15, <1>16
    <2> QED BY <1>13, <1>14, <2>1, SameLoose
  <1>18. DvOK(g, F) BY <1>4, <1>5, <1>14, <1>15 DEF DvOK
  <1>19. TopOK(g, F) /\ FakeAt(g) = F
    BY <1>1, <1>2, <1>15 DEF TopOK, FakeAt, SameTopDv
  <1>20. Whole(g, F, S, A \cup {p}) BY <1>6, <1>16, <1>17, <1>18, <1>19 DEF Whole
  <1>21. SameHeap(h, g) BY <1>2, <1>12, <1>14 DEF SameHeap, SameButBins
  <1>22. Steady(h, g, A) BY <1>1, <1>15 DEF Steady
  <1>23. Gave(h, g, F, S, A, p, nb)
    BY <1>2, <1>15, <1>19, <1>20, <1>21, <1>22 DEF Gave
  <1> QED BY <1>3, <1>11, <1>23

(* From dv.                                                                *)
LEMMA DvGave ==
    ASSUME NEW h, NEW F, NEW S, NEW A, Whole(h, F, S, A), F = FakeAt(h),
           NEW nb \in Nat, nb > 0, nb % 4 = 0, nb <= h.dvsize
    PROVE  TakeDv(h, nb).p = h.dv /\ Gave(h, TakeDv(h, nb).h, F, S, A, h.dv, nb)
  <1>1. PICK p, s : p = h.dv /\ s = h.dvsize OBVIOUS
  <1>2. PICK X : X = {h.top, h.dv} OBVIOUS
  <1>3. Loose(h, F, S, A, X) /\ TopOK(h, F) BY <1>2 DEF Whole
  <1>4. FreeAt(h.tag, F, p) /\ p # h.top /\ h.tag[p].size = s /\ p \in X
    <2>1. s # 0 BY <1>1
    <2> QED BY <1>1, <1>2, <2>1 DEF Whole, DvOK
  <1>5. PICK c : c = Cut(h, p, s, nb) OBVIOUS
  <1>6. nb <= s BY <1>1
  <1>7. CutDone(h, c, F, S, A, X, p, s, nb) BY <1>3, <1>4, <1>5, <1>6, CutLoose
  <1>8. PICK q, r : q = p + nb /\ r = s - nb OBVIOUS
  <1>9. PICK g : g = IF Splits(s, nb) THEN [c EXCEPT !.dv = @ + nb, !.dvsize = @ - nb]
                     ELSE [c EXCEPT !.dv = NULL, !.dvsize = 0]
    OBVIOUS
  <1>10. TakeDv(h, nb).p = h.dv /\ TakeDv(h, nb).h = g
    BY <1>1, <1>5, <1>9 DEF TakeDv, Got
  <1>11. /\ SameButTags(h, c) /\ Kept(h, c, F, {p}) /\ c.tag[p].size \in Nat
         /\ c.tag[p].size >= nb
    BY <1>7 DEF CutDone
  <1>12. /\ State(g) /\ g.tag = c.tag /\ g.bins = c.bins /\ g.smallmap = c.smallmap
         /\ g.top = c.top /\ g.topsize = c.topsize
         /\ g.seg = c.seg /\ g.older = c.older /\ g.contiguous = c.contiguous
         /\ g.footprint = c.footprint /\ g.maxFootprint = c.maxFootprint
         /\ g.leastAddr = c.leastAddr
         /\ IF Splits(s, nb) THEN g.dv = q /\ g.dvsize = r ELSE g.dv = NULL /\ g.dvsize = 0
    <2>1. CASE Splits(s, nb)
      <3>1. g = [c EXCEPT !.dv = @ + nb, !.dvsize = @ - nb] BY <1>9, <2>1
      <3>2. c.dv = p /\ c.dvsize = s BY <1>1, <1>11 DEF SameButTags
      <3> QED BY <1>8, <1>11, <2>1, <3>1, <3>2 DEF SameButTags, State, Fields
    <2>2. CASE ~Splits(s, nb)
      <3>1. g = [c EXCEPT !.dv = NULL, !.dvsize = 0] BY <1>9, <2>2
      <3> QED BY <1>11, <2>2, <3>1 DEF SameButTags, State, Fields
    <2> QED BY <2>1, <2>2
  <1>13. SameHeap(h, g) BY <1>11, <1>12 DEF SameHeap, SameButTags
  <1>14. g.top = h.top /\ g.topsize = h.topsize BY <1>11, <1>12 DEF SameButTags
  <1>15. TopOK(g, F) /\ FakeAt(g) = F
    BY <1>3, <1>4, <1>11, <1>12, <1>14 DEF TopOK, FakeAt, Kept, FreeAt
  <1>16. Splits(s, nb) => /\ FreeAt(c.tag, F, q) /\ c.tag[q].size = r /\ r # 0
                          /\ ~IsChunk(h.tag, F, q)
    BY <1>7, <1>8 DEF CutDone
  <1>17. DvOK(g, F)
    <2>1. IsChunk(h.tag, F, h.top) BY <1>3 DEF TopOK, FreeAt
    <2> QED BY <1>12, <1>14, <1>16, <2>1 DEF DvOK
  <1>18. PICK B, Y, Z : /\ B = A \cup {p} /\ Z = {g.top, g.dv}
                        /\ Y = (X \ {p}) \cup (IF Splits(s, nb) THEN {q} ELSE {})
    OBVIOUS
  <1>19. Loose(c, F, S, B, Y) BY <1>7, <1>8, <1>18 DEF CutDone
  <1>20. ASSUME NEW x, FreeAt(c.tag, F, x) PROVE x \in Y <=> x \in Z
    <2>1. x # NULL
      <3>1. IsChunk(c.tag, F, x) /\ Shape(c.tag, F, S) BY <1>19, <1>20 DEF FreeAt, Loose
      <3> QED BY <3>1, HeapAssumption DEF IsChunk, Shape, Heads, NULL
    <2>2. x \in X \ {p} <=> x = h.top BY <1>1, <1>2, <1>4
    <2>3. CASE Splits(s, nb) BY <1>12, <1>14, <1>18, <2>2, <2>3
    <2>4. CASE ~Splits(s, nb) BY <1>12, <1>14, <1>18, <2>1, <2>2, <2>4
    <2> QED BY <2>3, <2>4
  <1>21. Loose(g, F, S, B, Z) BY <1>12, <1>19, <1>20, SameLoose
  <1>22. Whole(g, F, S, A \cup {p}) BY <1>15, <1>17, <1>18, <1>21 DEF Whole
  <1>23. Steady(h, g, A)
    BY <1>3, <1>4, <1>11, <1>12 DEF Steady, Kept, Loose, Owned, UsedAt, FreeAt
  <1>24. Gave(h, g, F, S, A, p, nb)
    BY <1>4, <1>11, <1>12, <1>13, <1>14, <1>15, <1>22, <1>23 DEF Gave
  <1> QED BY <1>1, <1>10, <1>24


(* dv is a chunk or NULL, so it survives what keeps the chunks but those   *)
(* of C.                                                                   *)
LEMMA DvKept ==
    ASSUME NEW h, NEW g, NEW F, NEW C, DvOK(h, F), Kept(h, g, F, C),
           h.dvsize # 0 => h.dv \notin C, g.dv = h.dv, g.dvsize = h.dvsize,
           h.dvsize # 0 => h.dv # g.top
    PROVE  DvOK(g, F)
  BY DEF DvOK, Kept, FreeAt

(* From the front of top.                                                  *)
LEMMA TopGave ==
    ASSUME NEW h, NEW F, NEW S, NEW A, Whole(h, F, S, A), F = FakeAt(h),
           NEW nb \in Nat, nb > 0, nb % 4 = 0, nb < h.topsize
    PROVE  SplitTop(h, nb).p = h.top /\ Gave(h, SplitTop(h, nb).h, F, S, A, h.top, nb)
  <1>1. Known(h, F, S, A) BY WholeFacts
  <1>2. PICK p : p = h.top OBVIOUS
  <1>3. /\ OneChunk(h.tag, F, p, F) /\ Tagged(h) /\ State(h) /\ IsChunk(h.tag, F, p)
        /\ h.tag[p].size = h.topsize /\ h.tag[p].cinuse = FALSE
    BY <1>1, <1>2 DEF Known, OneChunk, Stretch
  <1>4. /\ p \in Nat /\ F \in Nat /\ p < F /\ p % 4 = 2 /\ F % 4 = 2 /\ h.topsize \in Nat
        /\ F - p = h.topsize /\ h.topsize % 4 = 0 /\ p \in DOMAIN h.tag /\ F \in DOMAIN h.tag
        /\ h.tag[p].pinuse = TRUE /\ h.tag[F].pinuse = FALSE /\ Stretch(h.tag, F, p, F, {p})
    BY <1>3 DEF OneChunk
  <1>5. PICK mid, n : mid = p + nb /\ n = h.topsize - nb OBVIOUS
  <1>6. /\ mid \in Nat /\ p < mid /\ mid < F /\ mid <= F /\ mid # F /\ n = F - mid /\ n \in Nat
        /\ nb = mid - p
    BY <1>4, <1>5
  <1>7. mid % 4 = 2 BY <1>4, <1>5, SMT
  <1>8. PICK r : r = CutTop(h, nb) OBVIOUS
  <1>9. /\ State(r) /\ r.tag = h.tag /\ r.bins = h.bins /\ r.smallmap = h.smallmap
        /\ r.top = mid /\ r.topsize = n /\ r.dv = h.dv /\ r.dvsize = h.dvsize
        /\ SameHeap(h, r)
    BY <1>2, <1>3, <1>5, <1>8 DEF CutTop, State, Fields, SameHeap
  <1>10. PICK X : X = {h.top, h.dv} OBVIOUS
  <1>11. Loose(h, F, S, A, X) /\ TopOK(h, F) /\ DvOK(h, F) BY <1>10 DEF Whole
  <1>12. Loose(r, F, S, A, X)
    <2>1. \A x : FreeAt(h.tag, F, x) => (x \in X <=> x \in X) OBVIOUS
    <2> QED BY <1>9, <1>11, <2>1, SameLoose
  <1>13. PICK b, c : b = TRUE /\ c = FALSE OBVIOUS
  <1>14. PICK k : k = Lay(r, p, nb, b, b) OBVIOUS
  <1>15. PICK g : g = Lay(k, mid, n, b, c) OBVIOUS
  <1>16. SplitTop(h, nb).p = p /\ SplitTop(h, nb).h = g
    BY <1>2, <1>8, <1>9, <1>13, <1>14, <1>15 DEF SplitTop, Got, SetSizeAndPinuseOfInuseChunk
  <1>17. Retags(r, g, F, p, mid, F, FALSE)
    <2>1. Tagged(r) /\ p \in DOMAIN r.tag /\ F \in DOMAIN r.tag /\ b = r.tag[p].pinuse
          /\ r.tag[F].pinuse = FALSE
      BY <1>3, <1>4, <1>9, <1>13 DEF Tagged
    <2>2. Opens(r, k, p, mid) BY <1>6, <1>13, <1>14, <2>1, LayOpens
    <2>3. Halves(r, g, p, mid, F, FALSE)
      <3>1. c \in BOOLEAN BY <1>13
      <3>2. Halves(r, g, p, mid, F, c) BY <1>6, <1>13, <1>15, <2>1, <2>2, <3>1, LayHalves
      <3> QED BY <1>13, <3>2
    <2> QED BY <1>6, <2>1, <2>3, HalvesKnown
  <1>18. Relayed(r, g, F, S, A, X, p, mid, F, FALSE, {p})
    <2>1. Stretch(r.tag, F, p, F, {p}) BY <1>4, <1>9
    <2>2. \A x \in {p} : FreeAt(r.tag, F, x) => x \in X BY <1>2, <1>10
    <2>3. FALSE \in BOOLEAN /\ F = F OBVIOUS
    <2> QED BY <1>6, <1>7, <1>12, <1>17, <2>1, <2>2, <2>3, RelayLoose, Zenon
  <1>19. LastOf(p, mid, F) = mid BY <1>6 DEF LastOf
  <1>20. /\ SameButTags(r, g) /\ Kept(r, g, F, {p}) /\ g.tag[p].size = mid - p
         /\ FreeAt(g.tag, F, mid) /\ g.tag[mid].size = F - mid
    BY <1>18, <1>19 DEF Relayed, Pieces, FreeAt
  <1>21. PICK B, Y : B = A \cup {p} /\ Y = (X \ {p}) \cup {mid} OBVIOUS
  <1>22. Loose(g, F, S, B, Y)
    <2>1. Loose(g, F, S, (A \ {p}) \cup NewUsed(p, mid, F, FALSE),
                         (X \ {p}) \cup NewFree(p, mid, F, FALSE))
      BY <1>18 DEF Relayed
    <2>2. (A \ {p}) \cup NewUsed(p, mid, F, FALSE) = B BY <1>6, <1>21 DEF NewUsed
    <2>3. (X \ {p}) \cup NewFree(p, mid, F, FALSE) = Y BY <1>19, <1>21 DEF NewFree
    <2> QED BY <2>1, <2>2, <2>3
  <1>23. /\ g.top = mid /\ g.topsize = n /\ g.dv = h.dv /\ g.dvsize = h.dvsize /\ State(g)
         /\ SameHeap(h, g)
    BY <1>9, <1>20 DEF SameButTags, SameHeap
  <1>24. Kept(h, g, F, {p}) BY <1>9, <1>20 DEF Kept
  <1>25. TopOK(g, F) /\ FakeAt(g) = F BY <1>6, <1>20, <1>23 DEF TopOK, FakeAt
  <1>26. h.dvsize # 0 => h.dv # p /\ h.dv # mid /\ IsChunk(h.tag, F, h.dv)
    <2> SUFFICES ASSUME h.dvsize # 0 PROVE h.dv # p /\ h.dv # mid /\ IsChunk(h.tag, F, h.dv)
      OBVIOUS
    <2>1. IsChunk(h.tag, F, h.dv) /\ h.dv # p BY <1>2, <1>11 DEF DvOK, FreeAt
    <2>2. ~IsChunk(h.tag, F, mid)
      <3>1. mid \notin {p} /\ p <= mid /\ mid < F BY <1>4, <1>6
      <3> QED BY <1>4, <3>1 DEF Stretch
    <2> QED BY <2>1, <2>2
  <1>27. DvOK(g, F)
    <2>1. h.dvsize # 0 => h.dv \notin {p} BY <1>26
    <2>2. h.dvsize # 0 => h.dv # g.top BY <1>23, <1>26
    <2> QED BY <1>11, <1>23, <1>24, <2>1, <2>2, DvKept
  <1>28. PICK Z : Z = {g.top, g.dv} OBVIOUS
  <1>29. Loose(g, F, S, B, Z)
    <2>1. ASSUME NEW x, FreeAt(g.tag, F, x) PROVE x \in Y <=> x \in Z
      <3>1. x # NULL
        <4>1. IsChunk(g.tag, F, x) /\ Shape(g.tag, F, S) BY <1>22, <2>1 DEF FreeAt, Loose
        <4> QED BY <4>1, HeapAssumption DEF IsChunk, Shape, Heads, NULL
      <3>2. h.dvsize = 0 => h.dv = NULL BY <1>11 DEF DvOK
      <3> QED BY <1>2, <1>10, <1>21, <1>23, <1>26, <1>28, <3>1, <3>2
    <2>2. g.tag = g.tag /\ g.bins = g.bins /\ g.smallmap = g.smallmap OBVIOUS
    <2> QED BY <1>22, <1>23, <2>1, <2>2, SameLoose
  <1>30. Whole(g, F, S, A \cup {p}) BY <1>21, <1>25, <1>27, <1>28, <1>29 DEF Whole
  <1>31. Steady(h, g, A)
    BY <1>3, <1>11, <1>24 DEF Steady, Kept, Loose, Owned, UsedAt
  <1>32. FreeAt(h.tag, F, p) BY <1>3 DEF FreeAt
  <1>33. g.tag[p].size \in Nat /\ g.tag[p].size >= nb BY <1>6, <1>20
  <1>34. nb < h.topsize /\ g.top = h.top + nb /\ g.topsize = h.topsize - nb
    BY <1>2, <1>5, <1>23
  <1>35. Gave(h, g, F, S, A, p, nb)
    BY <1>2, <1>23, <1>25, <1>30, <1>31, <1>32, <1>33, <1>34 DEF Gave
  <1> QED BY <1>2, <1>16, <1>35


(* Min finds the least element of a set of numbers.                        *)
LEMMA LeastElement ==
    ASSUME NEW T \in SUBSET Nat, T # {}
    PROVE  Min(T) \in T /\ Min(T) \in Nat /\ \A x \in T : Min(T) <= x
  <1>1. \E x \in T : \A y \in T : x <= y BY LeastNatural
  <1> QED BY <1>1 DEF Min

(* A marked small bin is not empty, and no chunk is nearly as large as the *)
(* address space.                                                          *)
LEMMA MarkFacts ==
    ASSUME NEW h, BinsOK(h), NEW i \in h.smallmap
    PROVE  /\ 2 * i \in BinSizes /\ IsSmall(2 * i) /\ h.bins[2 * i] # <<>>
           /\ i \in Nat /\ i % 2 = 0 /\ SmallIndex(2 * i) = i
  <1>1. PICK r \in BinSizes : IsSmall(r) /\ i = SmallIndex(r)
    BY DEF BinsOK, SmallIndexes
  <1>2. r \in Nat /\ r % 4 = 0
    <2>1. MaxPages * PageWords \in Nat BY MemoryAssumption, MemoryEnd
    <2> QED BY <2>1, Layout DEF BinSizes
  <1>3. i = r \div 2 BY <1>1 DEF SmallIndex
  <1>4. 2 * i = r /\ i \in Nat /\ i % 2 = 0 BY <1>2, <1>3, SMT
  <1>5. h.bins[r] # <<>> BY <1>1 DEF BinsOK
  <1> QED BY <1>1, <1>4, <1>5

(* No chunk, top and dv included, is near the size where size_t wraps.     *)
LEMMA SizesBelow ==
    ASSUME NEW h, NEW F, NEW S, NEW A, Whole(h, F, S, A), F = FakeAt(h)
    PROVE  /\ \A x : IsChunk(h.tag, F, x) => /\ h.tag[x].size \in Nat
                                             /\ h.tag[x].size < AddrWords - 15
           /\ h.topsize \in Nat /\ h.topsize < AddrWords - 15
           /\ h.dvsize \in Nat /\ h.dvsize < AddrWords - 15
           /\ \A s \in BinSizes : h.bins[s] # <<>> => s < AddrWords - 15
  <1>1. Known(h, F, S, A) /\ TopOK(h, F) /\ DvOK(h, F) /\ Holds(h, F, {h.top, h.dv})
    BY WholeFacts DEF Whole, Loose
  <1>2. /\ \A x : IsChunk(h.tag, F, x) => x \in Nat /\ x # NULL
        /\ F \in Nat /\ Shape(h.tag, F, S) /\ h.topsize \in Nat /\ BinsOK(h)
    BY <1>1 DEF Known
  <1>3. F + 14 <= AddrWords /\ AddrWords \in Nat
    <2>1. F + 14 <= MaxPages * PageWords BY <1>2 DEF Shape, Heads
    <2>2. MaxPages * PageWords \in Nat /\ MaxPages * PageWords <= AddrWords
      BY MemoryAssumption, MemoryEnd
    <2> QED BY <1>2, <2>1, <2>2, AddrWordsFacts
  <1>4. ASSUME NEW x, IsChunk(h.tag, F, x)
        PROVE  h.tag[x].size \in Nat /\ h.tag[x].size < AddrWords - 15
    <2>1. PICK t, e : t = h.tag /\ e = x + t[x].size OBVIOUS
    <2>2. OneChunk(t, F, x, e) BY <1>2, <1>4, <2>1, ChunkStretch
    <2>3. x \in Nat /\ x >= 6
      <3>1. Heads(h.tag, F) BY <1>2 DEF Shape
      <3> QED BY <1>4, <3>1, HeapAssumption DEF IsChunk, Heads
    <2> QED BY <1>2, <1>3, <2>1, <2>2, <2>3 DEF OneChunk
  <1>5. h.topsize < AddrWords - 15 BY <1>1, <1>4 DEF TopOK, FreeAt
  <1>6. h.dvsize \in Nat /\ h.dvsize < AddrWords - 15
    <2>1. CASE h.dvsize = 0 BY <2>1, AddrWordsFacts, PageAssumption
    <2>2. CASE h.dvsize # 0 BY <1>1, <1>4, <2>2 DEF DvOK, FreeAt
    <2> QED BY <2>1, <2>2
  <1>7. ASSUME NEW s \in BinSizes, h.bins[s] # <<>> PROVE s < AddrWords - 15
    <2>1. PICK x : x = Head(h.bins[s]) OBVIOUS
    <2>2. Filed(h, x, s) BY <1>2, <1>7, <2>1, HeadFiled
    <2>3. IsChunk(h.tag, F, x) /\ h.tag[x].size = s BY <1>1, <2>2 DEF Holds, FreeAt
    <2> QED BY <1>4, <2>3
  <1> QED BY <1>2, <1>4, <1>5, <1>6, <1>7

(* The sizes malloc works with.                                            *)
Proper(nb)   == nb \in Nat /\ nb >= 4 /\ nb % 4 = 0 /\ nb <= MaxSizeT
AnySize(nb)  == Proper(nb) \/ nb = MaxSizeT

(* From the bins, for a request that is not oversized.                     *)
LEMMA SmallGave ==
    ASSUME NEW h, NEW F, NEW S, NEW A, Whole(h, F, S, A), F = FakeAt(h),
           NEW nb, Proper(nb), NEW s \in BinSizes, h.bins[s] # <<>>, nb <= s,
           Splits(s, nb) => (h.dvsize # 0 => IsSmall(h.dvsize))
    PROVE  /\ TakeForSmall(h, s, nb).p # NULL
           /\ Gave(h, TakeForSmall(h, s, nb).h, F, S, A, TakeForSmall(h, s, nb).p, nb)
  <1>1. PICK p : p = Head(h.bins[s]) OBVIOUS
  <1>2. PICK c : c = Cut(UnlinkChunk(h, p, s), p, s, nb) OBVIOUS
  <1>3. Took(h, c, F, S, A, p, s, nb)
    <2>1. nb \in Nat /\ nb > 0 /\ nb % 4 = 0 BY DEF Proper
    <2> QED BY <1>1, <1>2, <2>1, TakeCut
  <1>4. p # NULL
    <2>1. Known(h, F, S, A) BY WholeFacts
    <2> QED BY <1>3, <2>1 DEF Took, Known, FreeAt
  <1>5. PICK g : g = IF Splits(s, nb) THEN ReplaceDv(c, p + nb, s - nb) ELSE c OBVIOUS
  <1>6. TakeForSmall(h, s, nb).p = p /\ TakeForSmall(h, s, nb).h = g
    BY <1>1, <1>2, <1>5 DEF TakeForSmall, Got
  <1>7. Gave(h, g, F, S, A, p, nb)
    <2>1. CASE Splits(s, nb)
      <3>1. Gave(h, ReplaceDv(c, p + nb, s - nb), F, S, A, p, nb) BY <1>3, <2>1, TookDv
      <3> QED BY <1>5, <2>1, <3>1
    <2>2. CASE ~Splits(s, nb)
      <3>1. Gave(h, IF Splits(s, nb) THEN InsertChunk(c, p + nb, s - nb) ELSE c,
                 F, S, A, p, nb)
        BY <1>3, TookGave
      <3> QED BY <1>5, <2>2, <3>1
    <2> QED BY <2>1, <2>2
  <1> QED BY <1>4, <1>6, <1>7

(* A tree bin whose chunks are long enough serves the request.             *)
LEMMA LargeGave ==
    ASSUME NEW h, NEW F, NEW S, NEW A, Whole(h, F, S, A), F = FakeAt(h),
           NEW nb, Proper(nb), NEW s \in BinSizes, h.bins[s] # <<>>, nb <= s
    PROVE  /\ TakeForLarge(h, s, nb).p # NULL
           /\ Gave(h, TakeForLarge(h, s, nb).h, F, S, A, TakeForLarge(h, s, nb).p, nb)
  <1>1. PICK p : p = Head(h.bins[s]) OBVIOUS
  <1>2. PICK c : c = Cut(UnlinkChunk(h, p, s), p, s, nb) OBVIOUS
  <1>3. Took(h, c, F, S, A, p, s, nb)
    <2>1. nb \in Nat /\ nb > 0 /\ nb % 4 = 0 BY DEF Proper
    <2> QED BY <1>1, <1>2, <2>1, TakeCut
  <1>4. p # NULL
    <2>1. Known(h, F, S, A) BY WholeFacts
    <2> QED BY <1>3, <2>1 DEF Took, Known, FreeAt
  <1>5. PICK g : g = IF Splits(s, nb) THEN InsertChunk(c, p + nb, s - nb) ELSE c OBVIOUS
  <1>6. TakeForLarge(h, s, nb).p = p /\ TakeForLarge(h, s, nb).h = g
    BY <1>1, <1>2, <1>5 DEF TakeForLarge, Got
  <1>7. Gave(h, g, F, S, A, p, nb) BY <1>3, <1>5, TookGave
  <1> QED BY <1>4, <1>6, <1>7

-----------------------------------------------------------------------------
(* malloc inside the heap.                                                 *)

(* What FromHeap found: a chunk, or nothing, and then top is too short.    *)
Found(h, r, F, S, A, nb) ==
    IF r.p # NULL THEN Gave(h, r.h, F, S, A, r.p, nb) ELSE NeedsSystem(h, nb)

(* The order in which malloc looks, one case at a time.                    *)
Chooses(h, nb, exact, small, tree, r) ==
    \/ IsSmall(nb) /\ exact # {} /\ r = TakeForSmall(h, 2 * Min(exact), nb)
    \/ IsSmall(nb) /\ nb > h.dvsize /\ small # {} /\ r = TakeForSmall(h, 2 * Min(small), nb)
    \/ IsSmall(nb) /\ nb > h.dvsize /\ tree # {} /\ r = TakeForSmall(h, Min(tree), nb)
    \/ tree # {} /\ r = TakeForLarge(h, Min(tree), nb)
    \/ nb <= h.dvsize /\ r = TakeDv(h, nb)
    \/ NeedsSystem(h, nb) /\ r = NothingFits
    \/ ~NeedsSystem(h, nb) /\ r = SplitTop(h, nb)

(* What FromHeap does, case by case.                                       *)
LEMMA FromHeapCases ==
    ASSUME NEW h, NEW nb,
           NEW exact, exact = h.smallmap \cap {SmallIndex(nb), SmallIndex(nb) + 1},
           NEW small, small = SmallFits(h, nb),
           NEW tree, tree = TreeFits(h, nb),
           exact # {} => small # {},
           NEW r, r = FromHeap(h, nb)
    PROVE  Chooses(h, nb, exact, small, tree, r)
  <1>1. r = CASE IsSmall(nb) /\ exact # {}      -> TakeForSmall(h, 2 * Min(exact), nb)
              [] IsSmall(nb) /\ nb > h.dvsize /\ exact = {} /\ small # {}
                                                -> TakeForSmall(h, 2 * Min(small), nb)
              [] IsSmall(nb) /\ nb > h.dvsize /\ small = {} /\ tree # {}
                                                -> TakeForSmall(h, Min(tree), nb)
              [] ~IsSmall(nb) /\ tree # {} /\ TreeBeatsDv(h, Min(tree), nb)
                                                -> TakeForLarge(h, Min(tree), nb)
              [] OTHER -> IF nb <= h.dvsize THEN TakeDv(h, nb)
                          ELSE IF NeedsSystem(h, nb) THEN NothingFits
                          ELSE SplitTop(h, nb)
    BY DEF FromHeap
  <1>2. CASE IsSmall(nb) /\ exact # {} BY <1>1, <1>2 DEF Chooses
  <1>3. CASE IsSmall(nb) /\ nb > h.dvsize /\ exact = {} /\ small # {} BY <1>1, <1>3 DEF Chooses
  <1>4. CASE IsSmall(nb) /\ nb > h.dvsize /\ small = {} /\ tree # {} BY <1>1, <1>4 DEF Chooses
  <1>5. CASE ~IsSmall(nb) /\ tree # {} /\ TreeBeatsDv(h, Min(tree), nb) BY <1>1, <1>5 DEF Chooses
  <1>6. CASE /\ ~(IsSmall(nb) /\ exact # {})
             /\ ~(IsSmall(nb) /\ nb > h.dvsize /\ exact = {} /\ small # {})
             /\ ~(IsSmall(nb) /\ nb > h.dvsize /\ small = {} /\ tree # {})
             /\ ~(~IsSmall(nb) /\ tree # {} /\ TreeBeatsDv(h, Min(tree), nb))
    BY <1>1, <1>6 DEF Chooses
  <1> QED BY <1>2, <1>3, <1>4, <1>5, <1>6 DEF Chooses

(* The marked bins that fit nb.                                            *)
LEMMA MarksFit ==
    ASSUME NEW h, BinsOK(h), NEW nb \in Nat, NEW i \in h.smallmap
    PROVE  /\ i \in Nat /\ 2 * i \in BinSizes /\ h.bins[2 * i] # <<>> /\ SmallIndex(nb) \in Nat
           /\ i >= SmallIndex(nb) => 2 * i >= nb - 1
           /\ nb % 4 = 0 /\ i >= SmallIndex(nb) => 2 * i >= nb
           /\ nb % 4 = 0 /\ i \in {SmallIndex(nb), SmallIndex(nb) + 1} => 2 * i = nb
  <1>1. i \in Nat /\ 2 * i \in BinSizes /\ h.bins[2 * i] # <<>> /\ i % 2 = 0 BY MarkFacts
  <1>2. PICK j : j = nb \div 2 OBVIOUS
  <1>3. j \in Nat /\ 2 * j <= nb /\ nb <= 2 * j + 1 BY <1>2, SMT
  <1>4. nb % 4 = 0 => nb = 2 * j /\ j % 2 = 0 BY <1>2, SMT
  <1>5. nb % 4 = 0 => i # j + 1
    <2>1. j % 2 = 0 => i # j + 1 BY <1>1, <1>3, SMT
    <2> QED BY <1>4, <2>1
  <1>6. SmallIndex(nb) = j BY <1>2 DEF SmallIndex
  <1> QED BY <1>1, <1>3, <1>4, <1>5, <1>6

(* FromHeap serves the request, or top is too short for it.                *)
LEMMA HeapFound ==
    ASSUME NEW h, NEW F, NEW S, NEW A, Whole(h, F, S, A), F = FakeAt(h),
           NEW nb, AnySize(nb)
    PROVE  Found(h, FromHeap(h, nb), F, S, A, nb)
  <1>1. Known(h, F, S, A) BY WholeFacts
  <1>2. BinsOK(h) /\ h.top # NULL BY <1>1 DEF Known, Initialized
  <1>3. /\ h.topsize \in Nat /\ h.topsize < AddrWords - 15
        /\ h.dvsize \in Nat /\ h.dvsize < AddrWords - 15
        /\ \A s \in BinSizes : h.bins[s] # <<>> => s < AddrWords - 15
    BY SizesBelow
  <1>4. nb \in Nat /\ AddrWords \in Nat /\ (nb % 4 = 0 \/ nb = AddrWords - 1)
    BY AddrWordsFacts, PageAssumption DEF AnySize, Proper, MaxSizeT
  <1>5. PICK exact : exact = h.smallmap \cap {SmallIndex(nb), SmallIndex(nb) + 1} OBVIOUS
  <1>6. PICK small : small = SmallFits(h, nb) OBVIOUS
  <1>7. PICK tree : tree = TreeFits(h, nb) OBVIOUS
  <1>8. PICK r : r = FromHeap(h, nb) OBVIOUS
  <1>9. \A i \in h.smallmap :
           /\ i \in Nat /\ 2 * i \in BinSizes /\ h.bins[2 * i] # <<>> /\ SmallIndex(nb) \in Nat
           /\ i >= SmallIndex(nb) => 2 * i >= nb - 1
           /\ nb % 4 = 0 /\ i >= SmallIndex(nb) => 2 * i >= nb
           /\ nb % 4 = 0 /\ i \in {SmallIndex(nb), SmallIndex(nb) + 1} => 2 * i = nb
    BY <1>2, <1>4, MarksFit
  <1>10. \A s \in BinSizes : s \in Nat
    <2>1. MaxPages * PageWords \in Nat BY MemoryAssumption, MemoryEnd
    <2> QED BY <2>1, Layout DEF BinSizes
  <1>11. exact \in SUBSET Nat /\ small \in SUBSET Nat /\ tree \in SUBSET Nat
    BY <1>5, <1>6, <1>7, <1>9, <1>10 DEF SmallFits, TreeFits, LargeSizes
  <1>12. exact # {} => small # {} BY <1>5, <1>6, <1>9 DEF SmallFits
  <1>13. \A i \in exact : i \in h.smallmap /\ i >= SmallIndex(nb)
    BY <1>5, <1>9
  <1>14. \A i \in small : i \in h.smallmap /\ i >= SmallIndex(nb)
    BY <1>6 DEF SmallFits
  <1>15. \A s \in tree : s \in BinSizes /\ s >= nb /\ h.bins[s] # <<>>
    BY <1>7 DEF TreeFits, LargeSizes
  <1>16. \/ IsSmall(nb) /\ exact # {} /\ r = TakeForSmall(h, 2 * Min(exact), nb)
         \/ IsSmall(nb) /\ nb > h.dvsize /\ small # {} /\ r = TakeForSmall(h, 2 * Min(small), nb)
         \/ IsSmall(nb) /\ nb > h.dvsize /\ tree # {} /\ r = TakeForSmall(h, Min(tree), nb)
         \/ tree # {} /\ r = TakeForLarge(h, Min(tree), nb)
         \/ nb <= h.dvsize /\ r = TakeDv(h, nb)
         \/ NeedsSystem(h, nb) /\ r = NothingFits
         \/ ~NeedsSystem(h, nb) /\ r = SplitTop(h, nb)
    <2>1. Chooses(h, nb, exact, small, tree, r)
      BY <1>5, <1>6, <1>7, <1>8, <1>12, FromHeapCases
    <2> QED BY <2>1 DEF Chooses
  <1>17. CASE NeedsSystem(h, nb) /\ r = NothingFits
    BY <1>8, <1>17 DEF Found, NothingFits, Got
  <1>18. CASE nb = AddrWords - 1
    <2>1. small = {}
      <3> SUFFICES ASSUME NEW i \in small PROVE FALSE OBVIOUS
      <3>1. i \in h.smallmap /\ i >= SmallIndex(nb) BY <1>14
      <3>2. PICK s : s = 2 * i OBVIOUS
      <3>3. s \in BinSizes /\ s >= nb - 1 /\ h.bins[s] # <<>> /\ s \in Nat BY <1>9, <1>10, <3>1, <3>2
      <3> QED BY <1>3, <1>4, <1>18, <3>3
    <2>2. tree = {}
      <3> SUFFICES ASSUME NEW s \in tree PROVE FALSE OBVIOUS
      <3> QED BY <1>3, <1>4, <1>10, <1>15, <1>18
    <2>3. ~(nb <= h.dvsize) /\ NeedsSystem(h, nb) BY <1>3, <1>4, <1>18 DEF NeedsSystem
    <2> QED BY <1>12, <1>16, <1>17, <2>1, <2>2, <2>3
  <1>19. CASE nb # AddrWords - 1
    <2>1. Proper(nb) BY <1>19 DEF AnySize, MaxSizeT
    <2>2. /\ nb \in Nat /\ nb > 0 /\ nb % 4 = 0 BY <2>1 DEF Proper
    <2>3. CASE IsSmall(nb) /\ exact # {} /\ r = TakeForSmall(h, 2 * Min(exact), nb)
      <3>0. PICK i : i = Min(exact) OBVIOUS
      <3>1. PICK s : s = 2 * i OBVIOUS
      <3>2. i \in exact BY <1>11, <2>3, <3>0, LeastElement
      <3>6. i \in h.smallmap /\ i \in {SmallIndex(nb), SmallIndex(nb) + 1} BY <1>5, <3>2
      <3>7. 2 * i \in BinSizes /\ h.bins[2 * i] # <<>> BY <1>9, <3>6
      <3>8. 2 * i = nb BY <1>9, <2>2, <3>6
      <3>3. s \in BinSizes /\ h.bins[s] # <<>> /\ s = nb BY <3>1, <3>7, <3>8
      <3>9. MinChunkSize = 4 BY Layout
      <3>10. nb <= s /\ s - nb = 0 BY <2>2, <3>3
      <3>4. nb <= s /\ ~Splits(s, nb) BY <3>9, <3>10 DEF Splits
      <3>5. /\ TakeForSmall(h, s, nb).p # NULL
            /\ Gave(h, TakeForSmall(h, s, nb).h, F, S, A, TakeForSmall(h, s, nb).p, nb)
        BY <2>1, <3>3, <3>4, SmallGave
      <3> QED BY <1>8, <2>3, <3>0, <3>1, <3>5 DEF Found
    <2>4. ASSUME IsSmall(nb), nb > h.dvsize, NEW s \in BinSizes, h.bins[s] # <<>>, nb <= s,
                 r = TakeForSmall(h, s, nb)
          PROVE  Found(h, r, F, S, A, nb)
      <3>1. h.dvsize # 0 => IsSmall(h.dvsize)
        BY <1>3, <2>2, <2>4, ChunkAssumption DEF IsSmall
      <3>2. /\ TakeForSmall(h, s, nb).p # NULL
            /\ Gave(h, TakeForSmall(h, s, nb).h, F, S, A, TakeForSmall(h, s, nb).p, nb)
        BY <2>1, <2>4, <3>1, SmallGave
      <3> QED BY <2>4, <3>2 DEF Found
    <2>5. CASE IsSmall(nb) /\ nb > h.dvsize /\ small # {} /\ r = TakeForSmall(h, 2 * Min(small), nb)
      <3>1. PICK s : s = 2 * Min(small) OBVIOUS
      <3>2. Min(small) \in small BY <1>11, <2>5, LeastElement
      <3>3. s \in BinSizes /\ h.bins[s] # <<>> /\ s >= nb BY <1>9, <1>14, <2>2, <3>1, <3>2
      <3>4. nb <= s BY <1>10, <2>2, <3>3
      <3>5. Found(h, r, F, S, A, nb) BY <2>4, <2>5, <3>1, <3>3, <3>4
      <3> QED BY <1>8, <3>5
    <2>6. CASE IsSmall(nb) /\ nb > h.dvsize /\ tree # {} /\ r = TakeForSmall(h, Min(tree), nb)
      <3>1. PICK s : s = Min(tree) OBVIOUS
      <3>2. s \in tree BY <1>11, <2>6, <3>1, LeastElement
      <3>3. s \in BinSizes /\ h.bins[s] # <<>> /\ nb <= s BY <1>10, <1>15, <2>2, <3>2
      <3>5. Found(h, r, F, S, A, nb) BY <2>4, <2>6, <3>1, <3>3
      <3> QED BY <1>8, <3>5
    <2>7. CASE tree # {} /\ r = TakeForLarge(h, Min(tree), nb)
      <3>1. PICK s : s = Min(tree) OBVIOUS
      <3>2. s \in tree BY <1>11, <2>7, <3>1, LeastElement
      <3>3. s \in BinSizes /\ h.bins[s] # <<>> /\ nb <= s BY <1>10, <1>15, <2>2, <3>2
      <3>4. /\ TakeForLarge(h, s, nb).p # NULL
            /\ Gave(h, TakeForLarge(h, s, nb).h, F, S, A, TakeForLarge(h, s, nb).p, nb)
        BY <2>1, <3>3, LargeGave
      <3> QED BY <1>8, <2>7, <3>1, <3>4 DEF Found
    <2>8. CASE nb <= h.dvsize /\ r = TakeDv(h, nb)
      <3>1. TakeDv(h, nb).p = h.dv /\ Gave(h, TakeDv(h, nb).h, F, S, A, h.dv, nb)
        BY <2>2, <2>8, DvGave
      <3>2. h.dv # NULL
        <4>1. FreeAt(h.tag, F, h.dv) BY <3>1 DEF Gave
        <4> QED BY <1>1, <4>1 DEF Known, FreeAt
      <3> QED BY <1>8, <2>8, <3>1, <3>2 DEF Found
    <2>9. CASE ~NeedsSystem(h, nb) /\ r = SplitTop(h, nb)
      <3>1. nb < h.topsize BY <1>3, <2>2, <2>9 DEF NeedsSystem
      <3>2. SplitTop(h, nb).p = h.top /\ Gave(h, SplitTop(h, nb).h, F, S, A, h.top, nb)
        BY <2>2, <3>1, TopGave
      <3> QED BY <1>2, <1>8, <2>9, <3>2 DEF Found
    <2> QED BY <1>16, <1>17, <2>3, <2>5, <2>6, <2>7, <2>8, <2>9
  <1> QED BY <1>18, <1>19

-----------------------------------------------------------------------------
(* A step inside the heap may move top, within the newest segment.         *)
LEMMA WholeIsHeap ==
    ASSUME NEW h, NEW B, NEW pg \in Nat, pg <= MaxPages, HeapOK(h, B, pg), Initialized(h),
           NEW F, F = FakeAt(h), NEW S, S = FirstChunks(h),
           NEW g, NEW A, SameHeap(h, g), FakeAt(g) = F, Whole(g, F, S, A)
    PROVE  HeapOK(g, A, pg) /\ Initialized(g) /\ FirstChunks(g) = S
  <1>1. PICK a, b : a = SystemPart(h) /\ b = SystemPart(g) OBVIOUS
  <1>2. HeapInv(a, pg, foreign) BY <1>1 DEF HeapOK
  <1>3. /\ a.seg = h.seg /\ a.older = h.older /\ a.top = h.top /\ a.topsize = h.topsize
        /\ a.contiguous = h.contiguous /\ a.footprint = h.footprint
        /\ a.maxFootprint = h.maxFootprint /\ a.leastAddr = h.leastAddr
    BY <1>1, SystemFields
  <1>4. Initialized(a) BY <1>3 DEF Initialized
  <1>5. Known(g, F, S, A) BY WholeFacts
  <1>6. /\ Shape(g.tag, F, S) /\ OneChunk(g.tag, F, g.top, F) /\ g.tag[g.top].size = g.topsize
        /\ g.top \in Nat /\ g.topsize \in Nat /\ F \in Nat /\ Initialized(g)
    BY <1>5 DEF Known
  <1>7. PICK t, n : t = g.top /\ n = g.topsize OBVIOUS
  <1>8. t \in Nat /\ n \in Nat /\ t % 4 = 2 /\ n >= 4 /\ n % 4 = 0 /\ t + n = F /\ t < F
    BY <1>6, <1>7 DEF OneChunk, FakeAt
  <1>9. a.seg.base \in Nat
    BY <1>2, AddrWordsFacts DEF HeapInv, HeapType, SegmentRecord
  <1>10. t >= a.seg.base + 2
    <2>1. PICK q : q = a.seg.base + 2 OBVIOUS
    <2>2. q \in S BY <1>3, <2>1 DEF FirstChunks
    <2>3. IsChunk(g.tag, F, q) BY <1>6, <2>2 DEF Shape, Starts
    <2>4. q \in DOMAIN g.tag /\ q # F /\ q <= F /\ q \in Nat BY <1>6, <2>3 DEF IsChunk, Shape, Heads
    <2>5. \A x \in DOMAIN g.tag : t < x => t + g.tag[t].size <= x
      BY <1>6, <1>7 DEF Shape, Tiles, OneChunk, Stretch
    <2>6. t < q => F <= q BY <1>6, <1>7, <1>8, <2>4, <2>5
    <2> QED BY <1>8, <2>1, <2>4, <2>6
  <1>11. t + n = a.top + a.topsize BY <1>3, <1>8 DEF FakeAt
  <1>12. HeapInv([a EXCEPT !.top = t, !.topsize = n], pg, foreign)
    BY <1>2, <1>4, <1>8, <1>10, <1>11, TopMoves
  <1>13. b = [a EXCEPT !.top = t, !.topsize = n]
    BY <1>1, <1>7 DEF SystemPart, SameHeap
  <1>14. FirstChunks(g) = S BY DEF FirstChunks, SameHeap
  <1>15. HeapOK(g, A, pg) BY <1>1, <1>6, <1>12, <1>13, <1>14 DEF HeapOK
  <1> QED BY <1>6, <1>14, <1>15

-----------------------------------------------------------------------------
(* Giving the chunk p0 back.                                               *)

(* h is h0 but for its bins: the chunks C, from p up to e, are p0 and free *)
(* neighbours of it that are in no bin any more.                           *)
Merging(h0, h, F, S, A, p0, p, e, C) ==
    /\ SameHeap(h0, h) /\ h.top = h0.top /\ h.topsize = h0.topsize /\ h.tag = h0.tag
    /\ h.dv = h0.dv /\ h.dvsize = h0.dvsize
    /\ Loose(h, F, S, A, {h0.top, h0.dv} \cup (C \ {p0}))
    /\ Stretch(h0.tag, F, p, e, C) /\ p0 \in C /\ A \ C = A \ {p0}
    /\ p \in Nat /\ e \in Nat /\ p < e /\ p % 4 = 2 /\ e % 4 = 2 /\ e <= F
    /\ e - p \in BinSizes /\ h0.tag[p].pinuse = TRUE

(* The chunks of C have become the free chunk p, which is in no bin.       *)
Freed(h0, g, F, S, A, p0, p, e, C) ==
    /\ SameHeap(h0, g) /\ Kept(h0, g, F, C)
    /\ Loose(g, F, S, A \ {p0}, ({h0.top, h0.dv} \ C) \cup {p})
    /\ FreeAt(g.tag, F, p) /\ g.tag[p].size = e - p
    /\ Steady(h0, g, A \ {p0})

(* p0 has been given back.                                                 *)
Disposed(h0, g, F, S, A, p0) ==
    /\ SameHeap(h0, g) /\ FakeAt(g) = F /\ Whole(g, F, S, A \ {p0})
    /\ Steady(h0, g, A \ {p0})

(* A stretch below F is short enough for a bin.                            *)
LEMMA StretchSize ==
    ASSUME NEW t, NEW F, NEW S, Shape(t, F, S), NEW p \in Nat, NEW e \in Nat, p < e,
           p % 4 = 2, e % 4 = 2, e <= F
    PROVE  e - p \in BinSizes
  <1>1. F \in Nat /\ F + 14 <= MaxPages * PageWords /\ MaxPages * PageWords \in Nat
    BY MemoryAssumption, MemoryEnd DEF Shape, Heads
  <1>2. PICK s : s = e - p OBVIOUS
  <1>3. s \in Nat /\ s > 0 /\ s <= MaxPages * PageWords BY <1>1, <1>2
  <1>4. s % 4 = 0 BY <1>2, <1>3, SMT
  <1> QED BY <1>2, <1>3, <1>4, SizeFacts

(* The chunk before p0 is in use.                                          *)
LEMMA MergingStart ==
    ASSUME NEW h0, NEW F, NEW S, NEW A, Whole(h0, F, S, A), F = FakeAt(h0),
           NEW p0 \in A, h0.tag[p0].pinuse = TRUE,
           NEW e, e = p0 + h0.tag[p0].size
    PROVE  Merging(h0, h0, F, S, A, p0, p0, e, {p0})
  <1>1. Known(h0, F, S, A) BY WholeFacts
  <1>2. PICK t : t = h0.tag OBVIOUS
  <1>3. State(h0) /\ Shape(t, F, S) /\ IsChunk(t, F, p0) BY <1>1, <1>2 DEF Known, UsedAt
  <1>4. e = p0 + t[p0].size BY <1>2
  <1>5. OneChunk(t, F, p0, e) BY <1>3, <1>4, ChunkStretch
  <1>6. SameHeap(h0, h0) BY <1>3 DEF SameHeap
  <1>7. Loose(h0, F, S, A, {h0.top, h0.dv} \cup ({p0} \ {p0}))
    <2>1. {h0.top, h0.dv} \cup ({p0} \ {p0}) = {h0.top, h0.dv} OBVIOUS
    <2> QED BY <2>1, Zenon DEF Whole
  <1> QED BY <1>2, <1>5, <1>6, <1>7 DEF Merging, OneChunk

(* The chunk before p0 is free.                                            *)
LEMMA MergingBack ==
    ASSUME NEW h0, NEW F, NEW S, NEW A, Whole(h0, F, S, A), F = FakeAt(h0),
           NEW p0 \in A, h0.tag[p0].pinuse = FALSE,
           NEW e, e = p0 + h0.tag[p0].size,
           NEW f, f = h0.tag[p0].prevFoot, NEW y, y = p0 - f
    PROVE  /\ Merging(h0, IF y # h0.dv THEN UnlinkChunk(h0, y, f) ELSE h0, F, S, A, p0, y, e, {y, p0})
           /\ FreeAt(h0.tag, F, y) /\ f \in Nat /\ y # h0.top
  <1>1. Known(h0, F, S, A) BY WholeFacts
  <1>2. PICK t : t = h0.tag OBVIOUS
  <1>3. /\ State(h0) /\ Shape(t, F, S) /\ IsChunk(t, F, p0) /\ t[p0].cinuse = TRUE
        /\ OneChunk(t, F, h0.top, F)
    BY <1>1, <1>2 DEF Known, UsedAt
  <1>4. e = p0 + t[p0].size BY <1>2
  <1>5. OneChunk(t, F, p0, e) BY <1>3, <1>4, ChunkStretch
  <1>6. PICK z : /\ IsChunk(t, F, z) /\ t[z].cinuse = FALSE
                 /\ z + t[z].size = p0 /\ t[p0].prevFoot = t[z].size
    BY <1>2, <1>3 DEF Shape, Backs, IsChunk
  <1>7. OneChunk(t, F, z, p0) BY <1>3, <1>6, ChunkStretch
  <1>8. z \in Nat /\ t[z].size \in Nat BY <1>7 DEF OneChunk
  <1>9. z = y /\ f = t[y].size /\ f \in Nat BY <1>2, <1>6, <1>8, SMTT(60)
  <1>10. FreeAt(t, F, y) BY <1>6, <1>9 DEF FreeAt
  <1>11. y # h0.top
    <2> SUFFICES ASSUME y = h0.top PROVE FALSE OBVIOUS
    <2>1. t[y].size = F - y /\ F \in Nat BY <1>3 DEF OneChunk
    <2>2. p0 = F BY <1>6, <1>8, <1>9, <2>1
    <2> QED BY <1>3, <2>2 DEF IsChunk
  <1>12. PICK h : h = IF y # h0.dv THEN UnlinkChunk(h0, y, f) ELSE h0 OBVIOUS
  <1>13. PICK X, Y : X = {h0.top, h0.dv} /\ Y = {h0.top, h0.dv} \cup ({y, p0} \ {p0}) OBVIOUS
  <1>14. Loose(h0, F, S, A, X) BY <1>13 DEF Whole
  <1>15. y \in Nat /\ p0 \in Nat /\ y < p0 /\ y # p0 /\ y % 4 = 2 /\ t[y].pinuse = TRUE
    <2>1. z \in Nat /\ p0 \in Nat /\ z < p0 /\ z % 4 = 2 /\ t[z].pinuse = TRUE
      BY <1>6, <1>7 DEF OneChunk
    <2> QED BY <1>9, <2>1
  <1>16. /\ SameHeap(h0, h) /\ h.top = h0.top /\ h.topsize = h0.topsize /\ h.tag = h0.tag
         /\ h.dv = h0.dv /\ h.dvsize = h0.dvsize
         /\ Loose(h, F, S, A, Y)
    <2>1. CASE y # h0.dv
      <3>1. y \notin X BY <1>11, <1>13, <2>1, SMTT(60)
      <3>2. SameButBins(h0, h) /\ Loose(h, F, S, A, X \cup {y})
        BY <1>2, <1>9, <1>10, <1>12, <1>14, <2>1, <3>1, UnlinkLoose
      <3>3. X \cup {y} = Y BY <1>13, <1>15
      <3>4. Loose(h, F, S, A, Y) BY <3>2, <3>3
      <3> QED BY <3>2, <3>4 DEF SameButBins, SameHeap
    <2>2. CASE y = h0.dv
      <3>1. X = Y BY <1>13, <1>15, <2>2
      <3>2. h = h0 BY <1>12, <2>2
      <3> QED BY <1>3, <1>14, <3>1, <3>2 DEF SameHeap
    <2> QED BY <2>1, <2>2
  <1>17. Stretch(t, F, y, e, {y, p0})
    <2>1. Stretch(t, F, y, p0, {y}) /\ Stretch(t, F, p0, e, {p0}) BY <1>5, <1>7, <1>9, Zenon DEF OneChunk
    <2>2. PICK C, D : C = {y} /\ D = {p0} OBVIOUS
    <2>3. Stretch(t, F, y, e, C \cup D) BY <1>3, <2>1, <2>2, JoinStretch
    <2>4. C \cup D = {y, p0} BY <2>2
    <2> QED BY <2>3, <2>4, Zenon
  <1>18. A \ {y, p0} = A \ {p0}
    <2>1. y \notin A BY <1>1, <1>2, <1>10 DEF Known, UsedAt, FreeAt
    <2> QED BY <2>1
  <1>19. /\ y \in Nat /\ e \in Nat /\ y < e /\ y % 4 = 2 /\ e % 4 = 2 /\ e <= F
         /\ t[y].pinuse = TRUE
    <2>1. p0 \in Nat /\ e \in Nat /\ p0 < e /\ e % 4 = 2 /\ e <= F BY <1>5 DEF OneChunk
    <2>2. y < e BY <1>15, <2>1
    <2> QED BY <1>15, <2>1, <2>2
  <1>20. e - y \in BinSizes BY <1>3, <1>19, StretchSize
  <1>21. Merging(h0, h, F, S, A, p0, y, e, {y, p0})
    BY <1>2, <1>13, <1>16, <1>17, <1>18, <1>19, <1>20 DEF Merging
  <1> QED BY <1>2, <1>9, <1>10, <1>11, <1>12, <1>21, Zenon

(* The chunk behind is free too.                                           *)
BehindMerged(h0, k, F, S, A, p0, p, e, e2, n, C) ==
    /\ Merging(h0, k, F, S, A, p0, p, e2, C \cup {e})
    /\ h0.tag[e2].pinuse = FALSE /\ (e2 = F \/ h0.tag[e2].cinuse = TRUE)
    /\ n \in Nat /\ n > 0

(* Merging one more free chunk behind.                                     *)
LEMMA MergingNext ==
    ASSUME NEW h0, NEW F, NEW S, NEW A, Whole(h0, F, S, A), F = FakeAt(h0),
           NEW h, NEW p0, NEW p, NEW e, NEW C, Merging(h0, h, F, S, A, p0, p, e, C),
           FreeAt(h0.tag, F, e), NEW n, n = h0.tag[e].size, NEW e2, e2 = e + n,
           NEW k, k = IF e \in {h0.top, h0.dv} THEN h ELSE UnlinkChunk(h, e, n)
    PROVE  BehindMerged(h0, k, F, S, A, p0, p, e, e2, n, C)
  <1>1. Known(h0, F, S, A) BY WholeFacts
  <1>2. PICK t : t = h0.tag OBVIOUS
  <1>3. State(h0) /\ Shape(t, F, S) /\ IsChunk(t, F, e) /\ t[e].cinuse = FALSE
    BY <1>1, <1>2 DEF Known, FreeAt
  <1>4. e2 = e + t[e].size BY <1>2
  <1>5. OneChunk(t, F, e, e2) BY <1>3, <1>4, ChunkStretch
  <1>6. /\ SameHeap(h0, h) /\ h.top = h0.top /\ h.topsize = h0.topsize /\ h.tag = h0.tag
        /\ h.dv = h0.dv /\ h.dvsize = h0.dvsize
        /\ Loose(h, F, S, A, {h0.top, h0.dv} \cup (C \ {p0}))
        /\ Stretch(t, F, p, e, C) /\ p0 \in C /\ A \ C = A \ {p0}
        /\ p \in Nat /\ e \in Nat /\ p < e /\ p % 4 = 2 /\ e % 4 = 2 /\ e <= F
        /\ h0.tag[p].pinuse = TRUE
    BY <1>2 DEF Merging
  <1>7. e \notin C BY <1>3, <1>6 DEF Stretch
  <1>8. PICK X, Y : X = {h0.top, h0.dv} \cup (C \ {p0}) /\ Y = {h0.top, h0.dv} \cup ((C \cup {e}) \ {p0})
    OBVIOUS
  <1>9. Y = X \cup {e} BY <1>6, <1>7, <1>8
  <1>10. /\ SameHeap(h0, k) /\ k.top = h0.top /\ k.topsize = h0.topsize /\ k.tag = h0.tag
         /\ k.dv = h0.dv /\ k.dvsize = h0.dvsize
         /\ Loose(k, F, S, A, Y)
    <2>1. CASE e \in {h0.top, h0.dv}
      <3>1. X = Y BY <1>8, <1>9, <2>1
      <3> QED BY <1>6, <1>8, <2>1, <3>1
    <2>2. CASE e \notin {h0.top, h0.dv}
      <3>1. e \notin X BY <1>7, <1>8, <2>2
      <3>2. FreeAt(h.tag, F, e) /\ h.tag[e].size = n /\ Loose(h, F, S, A, X) BY <1>6, <1>8
      <3>3. SameButBins(h, k) /\ Loose(k, F, S, A, X \cup {e})
        BY <2>2, <3>1, <3>2, UnlinkLoose
      <3> QED BY <1>6, <1>9, <3>3 DEF SameButBins, SameHeap
    <2> QED BY <2>1, <2>2
  <1>11. Stretch(t, F, p, e2, C \cup {e})
    <2>1. PICK D : D = {e} OBVIOUS
    <2>2. Stretch(t, F, e, e2, D) BY <1>5, <2>1 DEF OneChunk
    <2>3. Stretch(t, F, p, e2, C \cup D) BY <1>3, <1>6, <2>2, JoinStretch
    <2> QED BY <2>1, <2>3
  <1>12. A \ (C \cup {e}) = A \ {p0}
    <2>1. e \notin A BY <1>1, <1>2, <1>3 DEF Known, UsedAt
    <2> QED BY <1>6, <2>1
  <1>13. e2 \in Nat /\ e2 % 4 = 2 /\ e2 <= F /\ n \in Nat /\ n >= 4 /\ e < e2
    BY <1>2, <1>5 DEF OneChunk
  <1>14. p < e2 BY <1>6, <1>13
  <1>15. e2 - p \in BinSizes BY <1>3, <1>6, <1>13, <1>14, StretchSize
  <1>16. t[e2].pinuse = FALSE /\ (e2 = F \/ t[e2].cinuse = TRUE) BY <1>3, <1>5 DEF OneChunk
  <1>17. Merging(h0, k, F, S, A, p0, p, e2, C \cup {e})
    BY <1>2, <1>6, <1>8, <1>10, <1>11, <1>12, <1>13, <1>14, <1>15 DEF Merging
  <1> QED BY <1>2, <1>13, <1>16, <1>17 DEF BehindMerged

(* The stretch is relaid as one free chunk.                                *)
LEMMA MergingFreed ==
    ASSUME NEW h0, NEW F, NEW S, NEW A, Whole(h0, F, S, A), F = FakeAt(h0),
           NEW h, NEW p0 \in A, NEW p, NEW e, NEW C, Merging(h0, h, F, S, A, p0, p, e, C),
           e = F \/ h0.tag[e].cinuse = TRUE,
           NEW k, State(k), SameHeap(h, k), k.tag = h.tag, k.bins = h.bins, k.smallmap = h.smallmap,
           NEW g, Retags(k, g, F, p, e, e, FALSE)
    PROVE  Freed(h0, g, F, S, A, p0, p, e, C)
  <1>1. Known(h0, F, S, A) BY WholeFacts
  <1>2. PICK X : X = {h0.top, h0.dv} \cup (C \ {p0}) OBVIOUS
  <1>3. /\ SameHeap(h0, h) /\ h.tag = h0.tag /\ Loose(h, F, S, A, X)
        /\ Stretch(h0.tag, F, p, e, C) /\ p0 \in C /\ A \ C = A \ {p0}
        /\ p \in Nat /\ e \in Nat /\ p < e /\ e <= e /\ e % 4 = 2 /\ h0.tag[p].pinuse = TRUE
    BY <1>2 DEF Merging
  <1>4. Loose(k, F, S, A, X)
    <2>1. \A x : FreeAt(h.tag, F, x) => (x \in X <=> x \in X) OBVIOUS
    <2> QED BY <1>3, <2>1, SameLoose
  <1>5. h0.tag[p0].cinuse = TRUE BY <1>1 DEF Known, UsedAt
  <1>6. Relayed(k, g, F, S, A, X, p, e, e, FALSE, C)
    <2>1. Stretch(k.tag, F, p, e, C) BY <1>3
    <2>2. \A x \in C : FreeAt(k.tag, F, x) => x \in X
      BY <1>2, <1>3, <1>5 DEF FreeAt
    <2>3. FALSE \in BOOLEAN /\ e = e /\ k.tag[p].pinuse = TRUE /\ (e = F \/ k.tag[e].cinuse = TRUE)
      BY <1>3
    <2> QED BY <1>3, <1>4, <2>1, <2>2, <2>3, RelayLoose, Zenon
  <1>7. LastOf(p, e, e) = p BY DEF LastOf
  <1>8. /\ SameButTags(k, g) /\ Kept(k, g, F, C) /\ IsChunk(g.tag, F, p)
        /\ g.tag[p].size = e - p /\ g.tag[p].cinuse = FALSE
    BY <1>6, <1>7 DEF Relayed, Pieces
  <1>9. Loose(g, F, S, A \ {p0}, ({h0.top, h0.dv} \ C) \cup {p})
    <2>1. Loose(g, F, S, (A \ C) \cup NewUsed(p, e, e, FALSE), (X \ C) \cup NewFree(p, e, e, FALSE))
      BY <1>6 DEF Relayed
    <2>2. (A \ C) \cup NewUsed(p, e, e, FALSE) = A \ {p0} BY <1>3 DEF NewUsed
    <2>3. (X \ C) \cup NewFree(p, e, e, FALSE) = ({h0.top, h0.dv} \ C) \cup {p}
      BY <1>2, <1>7 DEF NewFree
    <2> QED BY <2>1, <2>2, <2>3
  <1>10. SameHeap(h0, g) BY <1>3, <1>8 DEF SameHeap, SameButTags
  <1>11. Kept(h0, g, F, C) BY <1>3, <1>8 DEF Kept
  <1>12. Steady(h0, g, A \ {p0})
    <2>1. \A x \in A \ {p0} : IsChunk(h0.tag, F, x) /\ x \notin C
      BY <1>1, <1>3 DEF Known, UsedAt
    <2> QED BY <1>11, <2>1 DEF Steady, Kept
  <1> QED BY <1>8, <1>9, <1>10, <1>11, <1>12 DEF Freed, FreeAt

-----------------------------------------------------------------------------
(* Where the merged chunk goes.                                            *)

(* No chunk is at address 0.                                               *)
LEMMA ChunkNotNull ==
    ASSUME NEW t, NEW F, NEW S, Shape(t, F, S), NEW x, IsChunk(t, F, x)
    PROVE  x \in Nat /\ x # NULL
  BY HeapAssumption DEF Shape, Heads, IsChunk, NULL, MallocAlignment

(* dispose ends with the merged chunk in its bin.                          *)
LEMMA EndInsert ==
    ASSUME NEW h0, NEW F, NEW S, NEW A, Whole(h0, F, S, A), F = FakeAt(h0),
           NEW g, NEW p0, NEW p, NEW e, NEW C, Freed(h0, g, F, S, A, p0, p, e, C),
           p \in C, h0.top \notin C, h0.dvsize # 0 => h0.dv \notin C, SameTopDv(h0, g),
           NEW s \in BinSizes, s = e - p
    PROVE  Disposed(h0, InsertChunk(g, p, s), F, S, A, p0)
  <1>1. PICK X, B, k : X = ({h0.top, h0.dv} \ C) \cup {p} /\ B = A \ {p0} /\ k = InsertChunk(g, p, s)
    OBVIOUS
  <1>2. /\ SameHeap(h0, g) /\ Kept(h0, g, F, C) /\ Loose(g, F, S, B, X)
        /\ FreeAt(g.tag, F, p) /\ g.tag[p].size = s /\ Steady(h0, g, B)
    BY <1>1 DEF Freed
  <1>3. SameButBins(g, k) /\ Loose(k, F, S, B, X \ {p})
    <2>1. p \in X BY <1>1
    <2> QED BY <1>1, <1>2, <2>1, InsertLoose
  <1>4. k.top = h0.top /\ k.topsize = h0.topsize /\ k.dv = h0.dv /\ k.dvsize = h0.dvsize
        /\ k.tag = g.tag /\ State(k)
    BY <1>3 DEF SameButBins, SameTopDv
  <1>5. SameHeap(h0, k) BY <1>2, <1>3 DEF SameHeap, SameButBins
  <1>6. Known(h0, F, S, A) BY WholeFacts
  <1>7. TopOK(h0, F) /\ DvOK(h0, F) BY DEF Whole
  <1>8. TopOK(k, F) BY <1>2, <1>4, <1>7 DEF TopOK, Kept, FreeAt
  <1>9. h0.dvsize # 0 => h0.dv # k.top BY <1>4, <1>7 DEF DvOK
  <1>10. Kept(h0, k, F, C) BY <1>2, <1>4 DEF Kept
  <1>11. DvOK(k, F) BY <1>4, <1>7, <1>9, <1>10, DvKept
  <1>12. \A x : FreeAt(k.tag, F, x) => (x \in X \ {p} <=> x \in {k.top, k.dv})
    <2> SUFFICES ASSUME NEW x, FreeAt(k.tag, F, x)
                 PROVE  x \in X \ {p} <=> x \in {k.top, k.dv}
      OBVIOUS
    <2>1. Shape(k.tag, F, S) BY <1>3 DEF Loose
    <2>2. x # NULL
      <3>1. IsChunk(k.tag, F, x) BY DEF FreeAt
      <3>2. PICK t : t = k.tag OBVIOUS
      <3> QED BY <2>1, <3>1, <3>2, ChunkNotNull
    <2>3. h0.dvsize = 0 => h0.dv = NULL BY <1>7 DEF DvOK
    <2> QED BY <1>1, <1>4, <2>2, <2>3
  <1>13. Loose(k, F, S, B, {k.top, k.dv})
    <2>1. PICK Y : Y = {k.top, k.dv} OBVIOUS
    <2>2. PICK Z : Z = X \ {p} OBVIOUS
    <2>3. \A x : FreeAt(k.tag, F, x) => (x \in Z <=> x \in Y) BY <1>12, <2>1, <2>2
    <2>4. Loose(k, F, S, B, Z) BY <1>3, <2>2
    <2>5. Loose(k, F, S, B, Y) BY <1>4, <2>3, <2>4, SameLoose
    <2> QED BY <2>1, <2>5
  <1>14. Whole(k, F, S, B) BY <1>8, <1>11, <1>13 DEF Whole
  <1>15. FakeAt(k) = F BY <1>4 DEF FakeAt
  <1>16. Steady(h0, k, B) BY <1>2, <1>4 DEF Steady
  <1> QED BY <1>1, <1>5, <1>14, <1>15, <1>16 DEF Disposed

(* dispose ends with the merged chunk as dv.                               *)
LEMMA EndDv ==
    ASSUME NEW h0, NEW F, NEW S, NEW A, Whole(h0, F, S, A), F = FakeAt(h0),
           NEW g, NEW p0, NEW p, NEW e, NEW C, Freed(h0, g, F, S, A, p0, p, e, C),
           h0.top \notin C, p \in C, h0.dvsize # 0, h0.dv \in C, e - p \in BinSizes,
           NEW k, State(k), SameHeap(g, k), k.tag = g.tag, k.bins = g.bins,
           k.smallmap = g.smallmap, k.top = h0.top, k.topsize = h0.topsize,
           k.dv = p, k.dvsize = e - p
    PROVE  Disposed(h0, k, F, S, A, p0)
  <1>1. PICK X, B : X = ({h0.top, h0.dv} \ C) \cup {p} /\ B = A \ {p0} OBVIOUS
  <1>2. /\ SameHeap(h0, g) /\ Kept(h0, g, F, C) /\ Loose(g, F, S, B, X)
        /\ FreeAt(g.tag, F, p) /\ g.tag[p].size = e - p /\ Steady(h0, g, B)
    BY <1>1 DEF Freed
  <1>3. SameHeap(h0, k) BY <1>2 DEF SameHeap
  <1>4. TopOK(h0, F) BY DEF Whole
  <1>5. TopOK(k, F) BY <1>2, <1>4 DEF TopOK, Kept, FreeAt
  <1>6. DvOK(k, F)
    <2>1. e - p # 0 BY DEF BinSizes, MinChunkSize
    <2> QED BY <1>2, <2>1 DEF DvOK
  <1>7. Loose(k, F, S, B, {k.top, k.dv})
    <2>1. PICK Y : Y = {k.top, k.dv} OBVIOUS
    <2>2. \A x : FreeAt(g.tag, F, x) => (x \in X <=> x \in Y) BY <1>1, <2>1
    <2>3. Loose(k, F, S, B, Y) BY <1>2, <2>2, SameLoose
    <2> QED BY <2>1, <2>3
  <1>8. FakeAt(k) = F BY DEF FakeAt
  <1>9. Steady(h0, k, B) BY <1>2 DEF Steady
  <1> QED BY <1>1, <1>3, <1>5, <1>6, <1>7, <1>8, <1>9 DEF Disposed, Whole

(* dispose ends with the merged chunk as top.                              *)
LEMMA EndTop ==
    ASSUME NEW h0, NEW F, NEW S, NEW A, Whole(h0, F, S, A), F = FakeAt(h0),
           NEW g, NEW p0, NEW p, NEW C, Freed(h0, g, F, S, A, p0, p, F, C),
           h0.top \in C, p \in C, p \in Nat,
           NEW k, State(k), SameHeap(g, k), k.tag = g.tag, k.bins = g.bins,
           k.smallmap = g.smallmap, k.top = p, k.topsize = F - p,
           IF h0.dvsize # 0 /\ h0.dv \in C THEN k.dv = NULL /\ k.dvsize = 0
           ELSE k.dv = h0.dv /\ k.dvsize = h0.dvsize
    PROVE  Disposed(h0, k, F, S, A, p0)
  <1>1. PICK X, B : X = ({h0.top, h0.dv} \ C) \cup {p} /\ B = A \ {p0} OBVIOUS
  <1>2. /\ SameHeap(h0, g) /\ Kept(h0, g, F, C) /\ Loose(g, F, S, B, X)
        /\ FreeAt(g.tag, F, p) /\ g.tag[p].size = F - p /\ Steady(h0, g, B)
    BY <1>1 DEF Freed
  <1>3. SameHeap(h0, k) BY <1>2 DEF SameHeap
  <1>4. TopOK(k, F) BY <1>2 DEF TopOK
  <1>5. DvOK(h0, F) BY DEF Whole
  <1>6. DvOK(k, F)
    <2>1. CASE h0.dvsize # 0 /\ h0.dv \in C BY <2>1 DEF DvOK
    <2>2. CASE h0.dvsize # 0 /\ h0.dv \notin C
      BY <1>2, <1>5, <2>2 DEF DvOK, Kept, FreeAt
    <2>3. CASE h0.dvsize = 0 BY <1>5, <2>3 DEF DvOK
    <2> QED BY <2>1, <2>2, <2>3
  <1>7. Loose(k, F, S, B, {k.top, k.dv})
    <2>1. PICK Y : Y = {k.top, k.dv} OBVIOUS
    <2>2. \A x : FreeAt(g.tag, F, x) => x # NULL
      <3>1. PICK t : t = g.tag OBVIOUS
      <3>2. Shape(t, F, S) BY <1>2, <3>1 DEF Loose
      <3> QED BY <3>1, <3>2, ChunkNotNull DEF FreeAt
    <2>3. h0.dvsize = 0 => h0.dv = NULL BY <1>5 DEF DvOK
    <2>4. \A x : FreeAt(g.tag, F, x) => (x \in X <=> x \in Y) BY <1>1, <2>1, <2>2, <2>3
    <2>5. Loose(k, F, S, B, Y) BY <1>2, <2>4, SameLoose
    <2> QED BY <2>1, <2>5
  <1>8. FakeAt(k) = F
    <2>1. F \in Nat
      <3>1. Known(h0, F, S, A) BY WholeFacts
      <3> QED BY <3>1 DEF Known
    <2> QED BY <2>1 DEF FakeAt
  <1>9. Steady(h0, k, B) BY <1>2 DEF Steady
  <1> QED BY <1>1, <1>3, <1>4, <1>6, <1>7, <1>8, <1>9 DEF Disposed, Whole

-----------------------------------------------------------------------------
(* Dispose, one case at a time.                                            *)

(* k is h but for top and dv.                                              *)
Moved(h, k) ==
    /\ State(k) /\ SameHeap(h, k)
    /\ k.tag = h.tag /\ k.bins = h.bins /\ k.smallmap = h.smallmap

(* The merge with the chunk before is done.                                *)
Gathered(h0, h, F, S, A, p0, p, s, e, C) ==
    /\ Merging(h0, h, F, S, A, p0, p, e, C)
    /\ p0 \in A /\ p \in C /\ h0.top \notin C /\ s = e - p
    /\ p = h0.dv <=> h0.dv \in C
    /\ p = h0.dv => h0.dvsize # 0
    /\ e # F /\ h0.tag[e].pinuse = TRUE

(* What holds of a heap while chunks are being merged.                     *)
LEMMA MergingFacts ==
    ASSUME NEW h0, NEW F, NEW S, NEW A, Whole(h0, F, S, A), F = FakeAt(h0),
           NEW h, NEW p0, NEW p, NEW e, NEW C, Merging(h0, h, F, S, A, p0, p, e, C)
    PROVE  /\ State(h) /\ Tagged(h) /\ p \in DOMAIN h.tag /\ e \in DOMAIN h.tag /\ p < e
           /\ h.tag[p].pinuse = TRUE /\ h.tag = h0.tag /\ SameTopDv(h0, h) /\ SameHeap(h0, h)
           /\ e - p \in BinSizes /\ p \in Nat /\ e \in Nat /\ F \in Nat
           /\ SameHeap(h, h)
  <1>1. Known(h0, F, S, A) BY WholeFacts
  <1>2. /\ h.tag = h0.tag /\ SameHeap(h0, h) /\ Stretch(h0.tag, F, p, e, C)
        /\ p < e /\ h0.tag[p].pinuse = TRUE /\ e - p \in BinSizes /\ p \in Nat /\ e \in Nat
        /\ SameTopDv(h0, h)
    BY DEF Merging, SameTopDv
  <1>3. p \in DOMAIN h0.tag /\ e \in DOMAIN h0.tag BY <1>2 DEF Stretch, IsChunk
  <1>4. State(h) BY <1>2 DEF SameHeap
  <1>5. Tagged(h) BY <1>1, <1>2, <1>4 DEF Known, Tagged
  <1>6. SameHeap(h, h) BY <1>4 DEF SameHeap
  <1> QED BY <1>1, <1>2, <1>3, <1>4, <1>5, <1>6 DEF Known

(* dv grows at its end.                                                    *)
LEMMA DisposeOntoDv ==
    ASSUME NEW h0, NEW F, NEW S, NEW A, Whole(h0, F, S, A), F = FakeAt(h0),
           NEW h, NEW p0, NEW p, NEW s, NEW e, NEW C, Gathered(h0, h, F, S, A, p0, p, s, e, C),
           h0.tag[e].cinuse = TRUE, p = h0.dv
    PROVE  Disposed(h0, SetFreeWithPinuse([h EXCEPT !.dvsize = s], p, s, e), F, S, A, p0)
  <1>1. /\ Merging(h0, h, F, S, A, p0, p, e, C)
        /\ p0 \in A /\ p \in C /\ h0.top \notin C /\ s = e - p
        /\ h0.dv \in C /\ h0.dvsize # 0
    BY DEF Gathered
  <1>2. /\ State(h) /\ Tagged(h) /\ p \in DOMAIN h.tag /\ e \in DOMAIN h.tag /\ p < e
        /\ h.tag[p].pinuse = TRUE /\ h.tag = h0.tag /\ SameTopDv(h0, h)
        /\ e - p \in BinSizes /\ p \in Nat /\ e \in Nat
    BY <1>1, MergingFacts, ZenonT(60)
  <1>3. PICK k : k = [h EXCEPT !.dvsize = s] OBVIOUS
  <1>4. Moved(h, k) /\ k.top = h.top /\ k.topsize = h.topsize /\ k.dv = h.dv /\ k.dvsize = s
    BY <1>2, <1>3 DEF Moved, SameHeap, State, Fields
  <1>5. Tagged(k) /\ p \in DOMAIN k.tag /\ e \in DOMAIN k.tag /\ k.tag[p].pinuse = TRUE
    BY <1>2, <1>4 DEF Moved, Tagged
  <1>6. PICK g : g = SetFreeWithPinuse(k, p, s, e) OBVIOUS
  <1>7. Retags(k, g, F, p, e, e, FALSE) BY <1>1, <1>2, <1>5, <1>6, FreesWholeTelling
  <1>8. Freed(h0, g, F, S, A, p0, p, e, C)
    BY <1>1, <1>2, <1>4, <1>7, MergingFreed DEF Moved
  <1>9. SameButTags(k, g) BY <1>7 DEF Retags
  <1>10. /\ State(g) /\ g.top = h0.top /\ g.topsize = h0.topsize /\ g.dv = p /\ g.dvsize = e - p
    BY <1>1, <1>2, <1>4, <1>9 DEF SameButTags, SameTopDv
  <1>11. SameHeap(g, g) BY <1>10 DEF SameHeap
  <1>12. Disposed(h0, g, F, S, A, p0) BY <1>1, <1>2, <1>8, <1>10, <1>11, EndDv
  <1> QED BY <1>3, <1>6, <1>12

(* Neither neighbour is special, and the one behind is in use.             *)
LEMMA DisposeInsert ==
    ASSUME NEW h0, NEW F, NEW S, NEW A, Whole(h0, F, S, A), F = FakeAt(h0),
           NEW h, NEW p0, NEW p, NEW s, NEW e, NEW C, Gathered(h0, h, F, S, A, p0, p, s, e, C),
           h0.tag[e].cinuse = TRUE, p # h0.dv
    PROVE  Disposed(h0, InsertChunk(SetFreeWithPinuse(h, p, s, e), p, s), F, S, A, p0)
  <1>1. /\ Merging(h0, h, F, S, A, p0, p, e, C)
        /\ p0 \in A /\ p \in C /\ h0.top \notin C /\ s = e - p
        /\ h0.dv \notin C
    BY DEF Gathered
  <1>2. /\ State(h) /\ Tagged(h) /\ p \in DOMAIN h.tag /\ e \in DOMAIN h.tag /\ p < e
        /\ h.tag[p].pinuse = TRUE /\ h.tag = h0.tag /\ SameTopDv(h0, h) /\ SameHeap(h, h)
        /\ e - p \in BinSizes /\ p \in Nat /\ e \in Nat
    BY <1>1, MergingFacts
  <1>3. PICK g : g = SetFreeWithPinuse(h, p, s, e) OBVIOUS
  <1>4. Retags(h, g, F, p, e, e, FALSE) BY <1>1, <1>2, <1>3, FreesWholeTelling
  <1>5. Freed(h0, g, F, S, A, p0, p, e, C) BY <1>1, <1>2, <1>4, MergingFreed
  <1>6. SameTopDv(h0, g)
    <2>1. SameButTags(h, g) BY <1>4 DEF Retags
    <2> QED BY <1>2, <2>1 DEF SameButTags, SameTopDv
  <1>7. Disposed(h0, InsertChunk(g, p, s), F, S, A, p0) BY <1>1, <1>2, <1>5, <1>6, EndInsert
  <1> QED BY <1>3, <1>7

(* The chunk joins top.                                                    *)
LEMMA DisposeIntoTop ==
    ASSUME NEW h0, NEW F, NEW S, NEW A, Whole(h0, F, S, A), F = FakeAt(h0),
           NEW h, NEW p0, NEW p, NEW s, NEW e, NEW C, Gathered(h0, h, F, S, A, p0, p, s, e, C),
           e = h0.top
    PROVE  Disposed(h0, FreeIntoTop(h, p, s), F, S, A, p0)
  <1>1. /\ Merging(h0, h, F, S, A, p0, p, e, C)
        /\ p0 \in A /\ p \in C /\ h0.top \notin C /\ s = e - p
        /\ p = h0.dv <=> h0.dv \in C
        /\ p = h0.dv => h0.dvsize # 0
    BY DEF Gathered
  <1>2. /\ h.tag = h0.tag /\ SameTopDv(h0, h) /\ SameHeap(h, h) /\ e \in Nat /\ p \in Nat /\ F \in Nat
    BY <1>1, MergingFacts, ZenonT(60)
  <1>3. TopOK(h0, F) /\ DvOK(h0, F) BY DEF Whole
  <1>4. Known(h0, F, S, A) BY WholeFacts
  <1>5. PICK n, D : n = h0.tag[e].size /\ D = C \cup {e} OBVIOUS
  <1>6. FreeAt(h0.tag, F, e) /\ n = h0.topsize /\ F = e + n /\ n \in Nat
    BY <1>3, <1>4, <1>5 DEF TopOK, FakeAt, Known
  <1>7. PICK y, e2 : y = h /\ e2 = e + n OBVIOUS
  <1>8. Merging(h0, h, F, S, A, p0, p, F, D) /\ h0.tag[F].pinuse = FALSE
    <2>1. y = IF e \in {h0.top, h0.dv} THEN h ELSE UnlinkChunk(h, e, n) BY <1>7
    <2>2. BehindMerged(h0, y, F, S, A, p0, p, e, e2, n, C)
      BY <1>1, <1>5, <1>6, <1>7, <2>1, MergingNext
    <2> QED BY <1>5, <1>6, <1>7, <2>2 DEF BehindMerged
  <1>9. /\ State(h) /\ Tagged(h) /\ p \in DOMAIN h.tag /\ F \in DOMAIN h.tag /\ p < F
        /\ h.tag[p].pinuse = TRUE
    BY <1>8, MergingFacts
  <1>10. PICK r : r = h.topsize + s OBVIOUS
  <1>11. r = F - p BY <1>1, <1>2, <1>6, <1>10 DEF SameTopDv
  <1>12. PICK g : g = Lay(h, p, r, TRUE, FALSE) OBVIOUS
  <1>13. Retags(h, g, F, p, F, F, FALSE) BY <1>2, <1>8, <1>9, <1>11, <1>12, JoinsTop
  <1>14. Freed(h0, g, F, S, A, p0, p, F, D)
    <2>1. F = F OBVIOUS
    <2> QED BY <1>1, <1>2, <1>8, <1>9, <1>13, <2>1, MergingFreed
  <1>15. SameButTags(h, g) BY <1>13 DEF Retags
  <1>16. PICK t : t = [g EXCEPT !.top = p, !.topsize = @ + s] OBVIOUS
  <1>17. /\ Moved(g, t) /\ t.top = p /\ t.topsize = F - p /\ t.dv = h0.dv /\ t.dvsize = h0.dvsize
    <2>1. g.topsize + s = F - p BY <1>10, <1>11, <1>15 DEF SameButTags
    <2> QED BY <1>2, <1>15, <1>16, <2>1 DEF SameButTags, SameTopDv, Moved, SameHeap, State, Fields
  <1>18. PICK k : k = IF p = h.dv THEN [t EXCEPT !.dv = NULL, !.dvsize = 0] ELSE t OBVIOUS
  <1>19. /\ Moved(g, k) /\ k.top = p /\ k.topsize = F - p
         /\ IF p = h0.dv THEN k.dv = NULL /\ k.dvsize = 0
            ELSE k.dv = h0.dv /\ k.dvsize = h0.dvsize
    <2>1. h.dv = h0.dv BY <1>2 DEF SameTopDv
    <2>2. CASE p = h0.dv
      <3>1. k = [t EXCEPT !.dv = NULL, !.dvsize = 0] BY <1>18, <2>1, <2>2
      <3> QED BY <1>17, <2>2, <3>1 DEF Moved, SameHeap, State, Fields
    <2>3. CASE p # h0.dv BY <1>17, <1>18, <2>1, <2>3
    <2> QED BY <2>2, <2>3
  <1>20. h0.dvsize # 0 => h0.dv # e BY <1>3 DEF DvOK
  <1>21. IF h0.dvsize # 0 /\ h0.dv \in D THEN k.dv = NULL /\ k.dvsize = 0
         ELSE k.dv = h0.dv /\ k.dvsize = h0.dvsize
    BY <1>1, <1>5, <1>19, <1>20
  <1>22. h0.top \in D /\ p \in D BY <1>1, <1>5
  <1>23. Disposed(h0, k, F, S, A, p0)
    BY <1>2, <1>14, <1>19, <1>21, <1>22, EndTop DEF Moved
  <1>24. FreeIntoTop(h, p, s) = k BY <1>10, <1>12, <1>16, <1>18 DEF FreeIntoTop
  <1> QED BY <1>23, <1>24

(* dv grows at its front.                                                  *)
LEMMA DisposeIntoDv ==
    ASSUME NEW h0, NEW F, NEW S, NEW A, Whole(h0, F, S, A), F = FakeAt(h0),
           NEW h, NEW p0, NEW p, NEW s, NEW e, NEW C, Gathered(h0, h, F, S, A, p0, p, s, e, C),
           FreeAt(h0.tag, F, e), e = h0.dv, e # h0.top
    PROVE  Disposed(h0, FreeIntoDv(h, p, s), F, S, A, p0)
  <1>1. /\ Merging(h0, h, F, S, A, p0, p, e, C)
        /\ p0 \in A /\ p \in C /\ h0.top \notin C /\ s = e - p
    BY DEF Gathered
  <1>2. /\ h.tag = h0.tag /\ SameTopDv(h0, h) /\ SameHeap(h, h) /\ e \in Nat /\ p \in Nat /\ F \in Nat
    BY <1>1, MergingFacts
  <1>3. DvOK(h0, F) /\ Known(h0, F, S, A) BY WholeFacts DEF Whole
  <1>4. h0.dvsize # 0
    <2>1. e # NULL BY <1>3 DEF Known, FreeAt
    <2> QED BY <1>3, <2>1 DEF DvOK
  <1>5. PICK n, D, e2 : n = h0.tag[e].size /\ D = C \cup {e} /\ e2 = e + n OBVIOUS
  <1>6. n = h0.dvsize BY <1>3, <1>4, <1>5 DEF DvOK
  <1>7. PICK y : y = h OBVIOUS
  <1>8. /\ Merging(h0, h, F, S, A, p0, p, e2, D) /\ h0.tag[e2].pinuse = FALSE
        /\ (e2 = F \/ h0.tag[e2].cinuse = TRUE) /\ n \in Nat
    <2>1. y = IF e \in {h0.top, h0.dv} THEN h ELSE UnlinkChunk(h, e, n) BY <1>7
    <2>2. BehindMerged(h0, y, F, S, A, p0, p, e, e2, n, C)
      BY <1>1, <1>5, <1>7, <2>1, MergingNext
    <2> QED BY <1>5, <1>7, <2>2 DEF BehindMerged
  <1>9. /\ State(h) /\ Tagged(h) /\ p \in DOMAIN h.tag /\ e2 \in DOMAIN h.tag /\ p < e2
        /\ h.tag[p].pinuse = TRUE /\ e2 \in Nat /\ e2 - p \in BinSizes
    BY <1>8, MergingFacts
  <1>10. PICK r : r = h.dvsize + s OBVIOUS
  <1>11. r = e2 - p BY <1>1, <1>2, <1>5, <1>6, <1>8, <1>9, <1>10 DEF SameTopDv
  <1>12. PICK k : k = [h EXCEPT !.dv = p, !.dvsize = @ + s] OBVIOUS
  <1>13. Moved(h, k) /\ k.top = h.top /\ k.topsize = h.topsize /\ k.dv = p /\ k.dvsize = r
    BY <1>9, <1>10, <1>12 DEF Moved, SameHeap, State, Fields
  <1>14. /\ Tagged(k) /\ p \in DOMAIN k.tag /\ e2 \in DOMAIN k.tag /\ k.tag[p].pinuse = TRUE
         /\ k.tag[e2].pinuse = FALSE
    BY <1>2, <1>8, <1>9, <1>13 DEF Moved, Tagged
  <1>15. PICK g : g = SetSizeAndPinuseOfFreeChunk(k, p, r) OBVIOUS
  <1>16. Retags(k, g, F, p, e2, e2, FALSE) BY <1>9, <1>11, <1>14, <1>15, FreesWhole
  <1>17. Freed(h0, g, F, S, A, p0, p, e2, D)
    BY <1>1, <1>8, <1>13, <1>16, MergingFreed DEF Moved
  <1>18. SameButTags(k, g) BY <1>16 DEF Retags
  <1>19. /\ State(g) /\ g.top = h0.top /\ g.topsize = h0.topsize /\ g.dv = p /\ g.dvsize = e2 - p
    BY <1>2, <1>11, <1>13, <1>18 DEF SameButTags, SameTopDv
  <1>20. SameHeap(g, g) BY <1>19 DEF SameHeap
  <1>21. h0.top \notin D /\ p \in D /\ h0.dv \in D BY <1>1, <1>5
  <1>22. Disposed(h0, g, F, S, A, p0) BY <1>4, <1>9, <1>17, <1>19, <1>20, <1>21, EndDv
  <1>23. FreeIntoDv(h, p, s) = g BY <1>10, <1>12, <1>15 DEF FreeIntoDv
  <1> QED BY <1>22, <1>23

(* The chunk behind is in a bin.                                           *)
LEMMA DisposeWithNext ==
    ASSUME NEW h0, NEW F, NEW S, NEW A, Whole(h0, F, S, A), F = FakeAt(h0),
           NEW h, NEW p0, NEW p, NEW s, NEW e, NEW C, Gathered(h0, h, F, S, A, p0, p, s, e, C),
           FreeAt(h0.tag, F, e), e # h0.dv, e # h0.top
    PROVE  Disposed(h0, FreeWithNext(h, p, s, e), F, S, A, p0)
  <1>1. /\ Merging(h0, h, F, S, A, p0, p, e, C)
        /\ p0 \in A /\ p \in C /\ h0.top \notin C /\ s = e - p
        /\ p = h0.dv <=> h0.dv \in C
        /\ p = h0.dv => h0.dvsize # 0
    BY DEF Gathered
  <1>2. /\ h.tag = h0.tag /\ SameTopDv(h0, h) /\ SameHeap(h, h) /\ e \in Nat /\ p \in Nat /\ F \in Nat
    BY <1>1, MergingFacts
  <1>3. PICK n, D, e2, k : n = h0.tag[e].size /\ D = C \cup {e} /\ e2 = e + n /\ k = UnlinkChunk(h, e, n)
    OBVIOUS
  <1>4. /\ Merging(h0, k, F, S, A, p0, p, e2, D) /\ h0.tag[e2].pinuse = FALSE
        /\ (e2 = F \/ h0.tag[e2].cinuse = TRUE) /\ n \in Nat
    <2>1. k = IF e \in {h0.top, h0.dv} THEN h ELSE UnlinkChunk(h, e, n) BY <1>3
    <2>2. BehindMerged(h0, k, F, S, A, p0, p, e, e2, n, C)
      BY <1>1, <1>3, <2>1, MergingNext
    <2> QED BY <1>3, <2>2 DEF BehindMerged
  <1>5. /\ State(k) /\ Tagged(k) /\ p \in DOMAIN k.tag /\ e2 \in DOMAIN k.tag /\ p < e2
        /\ k.tag[p].pinuse = TRUE /\ e2 \in Nat /\ e2 - p \in BinSizes /\ k.tag = h0.tag
        /\ SameTopDv(h0, k) /\ SameHeap(k, k)
    BY <1>4, MergingFacts
  <1>6. PICK r : r = s + n OBVIOUS
  <1>7. r = e2 - p BY <1>1, <1>2, <1>3, <1>4, <1>6
  <1>8. PICK g : g = SetSizeAndPinuseOfFreeChunk(k, p, r) OBVIOUS
  <1>9. Retags(k, g, F, p, e2, e2, FALSE) BY <1>4, <1>5, <1>7, <1>8, FreesWhole
  <1>10. Freed(h0, g, F, S, A, p0, p, e2, D)
    BY <1>1, <1>4, <1>5, <1>9, MergingFreed
  <1>11. SameButTags(k, g) BY <1>9 DEF Retags
  <1>12. SameTopDv(h0, g) /\ State(g) BY <1>5, <1>11 DEF SameButTags, SameTopDv
  <1>13. h0.top \notin D /\ p \in D BY <1>1, <1>3
  <1>14. PICK z : z = IF p = h.dv THEN [g EXCEPT !.dvsize = r] ELSE InsertChunk(g, p, r) OBVIOUS
  <1>15. Disposed(h0, z, F, S, A, p0)
    <2>1. h.dv = h0.dv BY <1>2 DEF SameTopDv
    <2>2. CASE p = h0.dv
      <3>1. z = [g EXCEPT !.dvsize = r] BY <1>14, <2>1, <2>2
      <3>2. /\ Moved(g, z) /\ z.top = h0.top /\ z.topsize = h0.topsize /\ z.dv = p
            /\ z.dvsize = r
        BY <1>12, <2>2, <3>1 DEF SameTopDv, Moved, SameHeap, State, Fields
      <3>3. h0.dvsize # 0 /\ h0.dv \in D BY <1>1, <1>3, <2>2
      <3> QED BY <1>5, <1>7, <1>10, <1>13, <3>2, <3>3, EndDv DEF Moved
    <2>3. CASE p # h0.dv
      <3>1. z = InsertChunk(g, p, r) BY <1>14, <2>1, <2>3
      <3>2. h0.dv \notin D BY <1>1, <1>3, <2>3
      <3> QED BY <1>5, <1>7, <1>10, <1>12, <1>13, <3>1, <3>2, EndInsert
    <2> QED BY <2>2, <2>3
  <1>16. FreeWithNext(h, p, s, e) = z
    <2>1. ChunkSize(h, e) = n BY <1>2, <1>3 DEF ChunkSize
    <2> QED BY <1>3, <1>6, <1>8, <1>14, <2>1 DEF FreeWithNext
  <1> QED BY <1>15, <1>16

(* The merge with the chunk before, whether or not there is one.           *)
GathersBefore(h0, h, F, S, A, p0, p, s, e, back) ==
    /\ \E C : Gathered(h0, h, F, S, A, p0, p, s, e, C)
    /\ p = h0.dv => back

(* dispose gathers the free chunk before its own, or starts with its own.  *)
LEMMA GatheredEither ==
    ASSUME NEW h0, NEW F, NEW S, NEW A, Whole(h0, F, S, A), F = FakeAt(h0),
           NEW p0 \in A, NEW s0, s0 = h0.tag[p0].size, NEW e, e = p0 + s0,
           NEW f, f = h0.tag[p0].prevFoot, NEW back, back = (h0.tag[p0].pinuse = FALSE),
           NEW p, p = IF back THEN p0 - f ELSE p0,
           NEW s, s = IF back THEN s0 + f ELSE s0,
           NEW h, h = IF back /\ p # h0.dv THEN UnlinkChunk(h0, p, f) ELSE h0
    PROVE  GathersBefore(h0, h, F, S, A, p0, p, s, e, back)
  <1>1. Known(h0, F, S, A) BY WholeFacts
  <1>2. PICK t : t = h0.tag OBVIOUS
  <1>3. UsedAt(t, F, p0) /\ Shape(t, F, S) BY <1>1, <1>2 DEF Known
  <1>4. OneChunk(t, F, p0, e)
    <2>1. e = p0 + t[p0].size BY <1>2
    <2> QED BY <1>3, <2>1, ChunkStretch DEF UsedAt
  <1>5. t[e].pinuse = TRUE /\ p0 \in Nat /\ s0 \in Nat /\ e \in Nat /\ s0 = e - p0
    BY <1>2, <1>3, <1>4 DEF OneChunk, UsedAt
  <1>6. e # F
    <2>1. OneChunk(t, F, h0.top, F) /\ h0.tag[h0.top].cinuse = FALSE BY <1>1, <1>2 DEF Known
    <2>2. t[F].pinuse = FALSE BY <1>2, <2>1 DEF OneChunk
    <2> QED BY <1>5, <2>2
  <1>7. DvOK(h0, F) /\ TopOK(h0, F) BY DEF Whole
  <1>8. p0 # NULL /\ p0 # h0.top /\ p0 # h0.dv
    BY <1>1, <1>2, <1>3, <1>7 DEF Known, UsedAt, TopOK, DvOK, FreeAt
  <1>9. CASE back
    <2>1. h0.tag[p0].pinuse = FALSE BY <1>9
    <2>2. PICK y, k : y = p0 - f /\ k = IF y # h0.dv THEN UnlinkChunk(h0, y, f) ELSE h0 OBVIOUS
    <2>3. p = y /\ h = k /\ s = s0 + f BY <1>9, <2>2
    <2>4. PICK C : C = {y, p0} OBVIOUS
    <2>5. e = p0 + h0.tag[p0].size OBVIOUS
    <2>6. /\ Merging(h0, k, F, S, A, p0, y, e, C)
          /\ FreeAt(t, F, y) /\ f \in Nat /\ y # h0.top
      BY <1>2, <2>1, <2>2, <2>4, <2>5, MergingBack, ZenonT(60)
    <2>7. y # NULL BY <1>1, <1>2, <2>6 DEF Known, FreeAt
    <2>8. h0.top \notin C /\ p \in C /\ (p = h0.dv <=> h0.dv \in C)
      BY <1>8, <2>3, <2>4, <2>6
    <2>9. p = h0.dv => h0.dvsize # 0 BY <1>7, <2>3, <2>7 DEF DvOK
    <2>10. s = e - p BY <1>5, <2>2, <2>3, <2>6, SMTT(60)
    <2>11. Gathered(h0, h, F, S, A, p0, p, s, e, C)
      BY <1>2, <1>5, <1>6, <2>3, <2>6, <2>8, <2>9, <2>10, SMTT(60) DEF Gathered
    <2> QED BY <1>9, <2>11 DEF GathersBefore
  <1>10. CASE ~back
    <2>1. p = p0 /\ h = h0 /\ s = s0 BY <1>10
    <2>2. h0.tag[p0].pinuse = TRUE BY <1>1, <1>2, <1>3, <1>10 DEF Known, Tagged, AnyTag, UsedAt, IsChunk
    <2>3. PICK C : C = {p0} OBVIOUS
    <2>4. Merging(h0, h0, F, S, A, p0, p0, e, C) BY <2>2, <2>3, MergingStart
    <2>5. Gathered(h0, h, F, S, A, p0, p, s, e, C)
      BY <1>2, <1>5, <1>6, <1>8, <2>1, <2>3, <2>4 DEF Gathered
    <2> QED BY <1>8, <2>1, <2>5 DEF GathersBefore
  <1> QED BY <1>9, <1>10

(* dispose_chunk gives a chunk back whatever its neighbours are: free, dv  *)
(* or top.                                                                 *)
LEMMA DisposeWhole ==
    ASSUME NEW h0, NEW F, NEW S, NEW A, Whole(h0, F, S, A), F = FakeAt(h0),
           NEW p0 \in A, NEW s0, s0 = h0.tag[p0].size
    PROVE  Disposed(h0, Dispose(h0, p0, s0), F, S, A, p0)
  <1>1. PICK e, f, back : e = p0 + s0 /\ f = h0.tag[p0].prevFoot /\ back = (h0.tag[p0].pinuse = FALSE)
    OBVIOUS
  <1>2. PICK p : p = IF back THEN p0 - f ELSE p0 OBVIOUS
  <1>3. PICK s : s = IF back THEN s0 + f ELSE s0 OBVIOUS
  <1>4. PICK h : h = IF back /\ p # h0.dv THEN UnlinkChunk(h0, p, f) ELSE h0 OBVIOUS
  <1>5. /\ \E C : Gathered(h0, h, F, S, A, p0, p, s, e, C)
        /\ p = h0.dv => back
    <2>1. GathersBefore(h0, h, F, S, A, p0, p, s, e, back)
      BY <1>1, <1>2, <1>3, <1>4, GatheredEither
    <2> QED BY <2>1 DEF GathersBefore
  <1>6. PICK C : Gathered(h0, h, F, S, A, p0, p, s, e, C) BY <1>5
  <1>7. Known(h0, F, S, A) BY WholeFacts
  <1>8. /\ h.tag = h0.tag /\ SameTopDv(h0, h) /\ e \in DOMAIN h.tag
    BY <1>6, MergingFacts DEF Gathered
  <1>9. h0.tag[e].cinuse \in BOOLEAN /\ h0.tag[p0].pinuse \in BOOLEAN
    BY <1>7, <1>8 DEF Known, Tagged, AnyTag, UsedAt, IsChunk
  <1>10. e # F /\ h0.tag[e].pinuse = TRUE BY <1>6 DEF Gathered
  <1>11. h0.tag[e].cinuse = FALSE => FreeAt(h0.tag, F, e)
    BY <1>7, <1>8, <1>10 DEF FreeAt, IsChunk, Known, Shape, Heads
  <1>12. PICK growsDv : growsDv = (back /\ p = h0.dv /\ h0.tag[e].pinuse /\ h0.tag[e].cinuse)
    OBVIOUS
  <1>13. growsDv <=> (p = h0.dv /\ h0.tag[e].cinuse = TRUE) BY <1>5, <1>9, <1>10, <1>12
  <1>14. h.dv = h0.dv /\ h.top = h0.top BY <1>8 DEF SameTopDv
  <1>15. Dispose(h0, p0, s0) =
            CASE growsDv -> SetFreeWithPinuse([h EXCEPT !.dvsize = s], p, s, e)
              [] ~growsDv /\ h0.tag[e].cinuse -> InsertChunk(SetFreeWithPinuse(h, p, s, e), p, s)
              [] ~h0.tag[e].cinuse /\ e = h0.top -> FreeIntoTop(h, p, s)
              [] ~h0.tag[e].cinuse /\ e = h0.dv /\ e # h0.top -> FreeIntoDv(h, p, s)
              [] ~h0.tag[e].cinuse /\ e \notin {h0.top, h0.dv} -> FreeWithNext(h, p, s, e)
    <2>1. (~h0.tag[p0].pinuse) = back BY <1>1, <1>9
    <2>2. p = IF ~h0.tag[p0].pinuse THEN p0 - h0.tag[p0].prevFoot ELSE p0 BY <1>1, <1>2, <2>1
    <2>3. s = IF ~h0.tag[p0].pinuse THEN s0 + h0.tag[p0].prevFoot ELSE s0 BY <1>1, <1>3, <2>1
    <2>4. h = IF ~h0.tag[p0].pinuse /\ p # h0.dv THEN UnlinkChunk(h0, p, h0.tag[p0].prevFoot) ELSE h0
      BY <1>1, <1>4, <2>1
    <2>5. growsDv = (~h0.tag[p0].pinuse /\ p = h0.dv /\ h0.tag[e].pinuse /\ h0.tag[e].cinuse)
      BY <1>12, <2>1
    <2> QED BY <1>1, <1>8, <1>14, <2>2, <2>3, <2>4, <2>5, Zenon DEF Dispose
  <1>16. CASE growsDv
    <2>1. p = h0.dv /\ h0.tag[e].cinuse = TRUE BY <1>13, <1>16
    <2>2. Dispose(h0, p0, s0) = SetFreeWithPinuse([h EXCEPT !.dvsize = s], p, s, e)
      BY <1>15, <1>16, <2>1
    <2> QED BY <1>6, <2>1, <2>2, DisposeOntoDv
  <1>17. CASE ~growsDv /\ h0.tag[e].cinuse = TRUE
    <2>1. p # h0.dv BY <1>13, <1>17
    <2>2. Dispose(h0, p0, s0) = InsertChunk(SetFreeWithPinuse(h, p, s, e), p, s)
      BY <1>15, <1>17
    <2> QED BY <1>6, <1>17, <2>1, <2>2, DisposeInsert
  <1>18. CASE h0.tag[e].cinuse = FALSE /\ e = h0.top
    <2>1. ~growsDv BY <1>13, <1>18
    <2>2. Dispose(h0, p0, s0) = FreeIntoTop(h, p, s) BY <1>15, <1>18, <2>1
    <2> QED BY <1>6, <1>18, <2>2, DisposeIntoTop
  <1>19. CASE h0.tag[e].cinuse = FALSE /\ e = h0.dv /\ e # h0.top
    <2>1. ~growsDv BY <1>13, <1>19
    <2>2. Dispose(h0, p0, s0) = FreeIntoDv(h, p, s) BY <1>15, <1>19, <2>1
    <2> QED BY <1>6, <1>11, <1>19, <2>2, DisposeIntoDv
  <1>20. CASE h0.tag[e].cinuse = FALSE /\ e \notin {h0.top, h0.dv}
    <2>1. ~growsDv BY <1>13, <1>20
    <2>2. Dispose(h0, p0, s0) = FreeWithNext(h, p, s, e) BY <1>15, <1>20, <2>1
    <2>3. e # h0.dv /\ e # h0.top BY <1>20
    <2> QED BY <1>6, <1>11, <1>20, <2>2, <2>3, DisposeWithNext
  <1> QED BY <1>9, <1>16, <1>17, <1>18, <1>19, <1>20

-----------------------------------------------------------------------------
(* A block that stays where it is.                                         *)

(* The chunks C, from p up to e, are p, which somebody owns, and free      *)
(* chunks behind it that are in no bin any more.                           *)
Widens(h0, h, F, S, A, p, e, C) ==
    /\ SameHeap(h0, h) /\ SameTopDv(h0, h) /\ h.tag = h0.tag
    /\ Loose(h, F, S, A, {h0.top, h0.dv} \cup (C \ {p}))
    /\ Stretch(h0.tag, F, p, e, C) /\ p \in C /\ p \in A /\ A \ C = A \ {p}
    /\ p \in Nat /\ e \in Nat /\ p < e /\ p % 4 = 2 /\ e % 4 = 2 /\ e <= F

(* The stretch has become one chunk in use, or two of them.                *)
Occupied(h0, g, F, S, A, p, mid, e) ==
    /\ SameHeap(h0, g) /\ SameTopDv(h0, g) /\ FakeAt(g) = F
    /\ Whole(g, F, S, A \cup (IF mid = e THEN {} ELSE {mid}))
    /\ g.tag[p].size = mid - p
    /\ mid # e => g.tag[mid].size = e - mid /\ mid \notin A
    /\ Steady(h0, g, A \ {p})

(* The block p has kept its place, and has nb words at least.              *)
Resized(h0, g, F, S, A, p, nb) ==
    /\ SameHeap(h0, g) /\ FakeAt(g) = F /\ Whole(g, F, S, A)
    /\ p \in A /\ g.tag[p].size \in Nat /\ g.tag[p].size >= nb
    /\ Steady(h0, g, A \ {p})

(* What holds of a heap while an owned chunk takes in what is behind it.   *)
LEMMA WidensFacts ==
    ASSUME NEW h0, NEW F, NEW S, NEW A, Whole(h0, F, S, A), F = FakeAt(h0),
           NEW h, NEW p, NEW e, NEW C, Widens(h0, h, F, S, A, p, e, C)
    PROVE  /\ State(h) /\ Tagged(h) /\ SameTopDv(h0, h) /\ SameHeap(h0, h) /\ h.tag = h0.tag
           /\ p \in DOMAIN h.tag /\ e \in DOMAIN h.tag /\ p < e /\ p \in Nat /\ e \in Nat
           /\ p % 4 = 2 /\ e % 4 = 2 /\ e <= F /\ F \in Nat
  <1>1. Known(h0, F, S, A) BY WholeFacts
  <1>2. State(h) /\ Tagged(h) BY <1>1 DEF Widens, SameHeap, Loose
  <1>3. p \in DOMAIN h.tag /\ e \in DOMAIN h.tag BY DEF Widens, Stretch, IsChunk
  <1>4. F \in Nat BY <1>1 DEF Known
  <1> QED BY <1>2, <1>3, <1>4 DEF Widens

(* Laid as one chunk in use, the widened chunk is the owner's still.       *)
LEMMA WidensUsed ==
    ASSUME NEW h0, NEW F, NEW S, NEW A, Whole(h0, F, S, A), F = FakeAt(h0),
           NEW h, NEW p, NEW e, NEW C, Widens(h0, h, F, S, A, p, e, C),
           h0.top \notin C, h0.dvsize # 0 => h0.dv \notin C,
           NEW mid \in Nat, p < mid, mid <= e, mid % 4 = 2,
           NEW g, Retags(h, g, F, p, mid, e, TRUE)
    PROVE  Occupied(h0, g, F, S, A, p, mid, e)
  <1>1. Known(h0, F, S, A) /\ TopOK(h0, F) /\ DvOK(h0, F) BY WholeFacts DEF Whole
  <1>2. PICK X : X = {h0.top, h0.dv} \cup (C \ {p}) OBVIOUS
  <1>3. /\ SameHeap(h0, h) /\ SameTopDv(h0, h) /\ h.tag = h0.tag /\ Loose(h, F, S, A, X)
        /\ Stretch(h0.tag, F, p, e, C) /\ p \in C /\ p \in A /\ A \ C = A \ {p}
        /\ p \in Nat /\ e \in Nat /\ p < e /\ p % 4 = 2 /\ e % 4 = 2 /\ e <= F
    BY <1>2 DEF Widens
  <1>4. UsedAt(h0.tag, F, p) BY <1>1, <1>3 DEF Known
  <1>5. Relayed(h, g, F, S, A, X, p, mid, e, TRUE, C)
    <2>1. Stretch(h.tag, F, p, e, C) BY <1>3
    <2>2. \A x \in C : FreeAt(h.tag, F, x) => x \in X BY <1>2, <1>3, <1>4 DEF FreeAt, UsedAt
    <2>3. TRUE \in BOOLEAN /\ TRUE # FALSE OBVIOUS
    <2> QED BY <1>3, <2>1, <2>2, <2>3, RelayLoose, Zenon
  <1>6. PICK l : l = LastOf(p, mid, e) OBVIOUS
  <1>7. l = IF mid = e THEN p ELSE mid BY <1>6 DEF LastOf
  <1>8. /\ SameButTags(h, g) /\ Kept(h, g, F, C) /\ g.tag[p].size = mid - p
        /\ g.tag[l].size = e - l
    BY <1>5, <1>6 DEF Relayed, Pieces
  <1>9. PICK B : B = A \cup (IF mid = e THEN {} ELSE {mid}) OBVIOUS
  <1>10. Loose(g, F, S, B, X \ C)
    <2>1. Loose(g, F, S, (A \ C) \cup NewUsed(p, mid, e, TRUE), (X \ C) \cup NewFree(p, mid, e, TRUE))
      BY <1>5 DEF Relayed
    <2>2. (A \ C) \cup NewUsed(p, mid, e, TRUE) = B BY <1>3, <1>6, <1>7, <1>9 DEF NewUsed
    <2>3. (X \ C) \cup NewFree(p, mid, e, TRUE) = X \ C BY DEF NewFree
    <2> QED BY <2>1, <2>2, <2>3
  <1>11. /\ SameTopDv(h0, g) /\ SameHeap(h0, g) /\ State(g)
    BY <1>3, <1>8 DEF SameTopDv, SameHeap, SameButTags
  <1>12. Kept(h0, g, F, C) BY <1>3, <1>8 DEF Kept
  <1>13. TopOK(g, F) BY <1>1, <1>11, <1>12 DEF TopOK, Kept, FreeAt, SameTopDv
  <1>14. DvOK(g, F)
    <2>1. g.dv = h0.dv /\ g.dvsize = h0.dvsize /\ g.top = h0.top BY <1>11 DEF SameTopDv
    <2>2. h0.dvsize # 0 => h0.dv # g.top BY <1>1, <2>1 DEF DvOK
    <2> QED BY <1>1, <1>12, <2>1, <2>2, DvKept
  <1>15. PICK Y, Z : Y = X \ C /\ Z = {g.top, g.dv} OBVIOUS
  <1>16. Loose(g, F, S, B, Z)
    <2>1. \A x : FreeAt(g.tag, F, x) => x # NULL
      <3>1. PICK t : t = g.tag OBVIOUS
      <3>2. Shape(t, F, S) BY <1>10, <3>1 DEF Loose
      <3> QED BY <3>1, <3>2, ChunkNotNull DEF FreeAt
    <2>2. h0.dvsize = 0 => h0.dv = NULL BY <1>1 DEF DvOK
    <2>3. g.top = h0.top /\ g.dv = h0.dv BY <1>11 DEF SameTopDv
    <2>4. \A x : FreeAt(g.tag, F, x) => (x \in Y <=> x \in Z) BY <1>2, <1>3, <1>15, <2>1, <2>2, <2>3
    <2>5. Loose(g, F, S, B, Y) BY <1>10, <1>15
    <2> QED BY <1>11, <2>4, <2>5, SameLoose
  <1>17. Whole(g, F, S, B) BY <1>13, <1>14, <1>15, <1>16 DEF Whole
  <1>18. FakeAt(g) = F BY <1>11 DEF FakeAt, SameTopDv
  <1>19. mid # e => g.tag[mid].size = e - mid /\ mid \notin A
    <2> SUFFICES ASSUME mid # e PROVE g.tag[mid].size = e - mid /\ mid \notin A OBVIOUS
    <2>1. g.tag[mid].size = e - mid BY <1>7, <1>8
    <2>2. ASSUME mid \in A PROVE FALSE
      <3>1. IsChunk(h0.tag, F, mid) BY <1>1, <2>2 DEF Known, UsedAt
      <3>2. p <= mid /\ mid < e /\ mid # p BY <1>3
      <3>3. mid \in C BY <1>3, <3>1, <3>2 DEF Stretch
      <3> QED BY <1>3, <2>2, <3>2, <3>3
    <2> QED BY <2>1, <2>2
  <1>20. Steady(h0, g, A \ {p})
    <2>1. \A x \in A \ {p} : IsChunk(h0.tag, F, x) /\ x \notin C
      BY <1>1, <1>3 DEF Known, UsedAt
    <2> QED BY <1>12, <2>1 DEF Steady, Kept
  <1> QED BY <1>8, <1>9, <1>11, <1>17, <1>18, <1>19, <1>20 DEF Occupied

(* TrimTo: the block keeps nb words of the stretch.                        *)
LEMMA TrimResizes ==
    ASSUME NEW h0, NEW F, NEW S, NEW A, Whole(h0, F, S, A), F = FakeAt(h0),
           NEW h, NEW p, NEW e, NEW C, Widens(h0, h, F, S, A, p, e, C),
           h0.top \notin C, h0.dvsize # 0 => h0.dv \notin C,
           NEW s, s = e - p, NEW nb \in Nat, nb > 0, nb % 4 = 0, nb <= s
    PROVE  Resized(h0, TrimTo(h, p, s, nb), F, S, A, p, nb)
  <1>1. /\ Tagged(h) /\ p \in DOMAIN h.tag /\ e \in DOMAIN h.tag /\ p < e /\ p \in Nat /\ e \in Nat
        /\ p % 4 = 2 /\ e % 4 = 2 /\ F \in Nat
    BY WidensFacts
  <1>2. p \in A BY DEF Widens
  <1>3. CASE ~Splits(s, nb)
    <2>1. PICK g : g = SetInuse(h, p, s) OBVIOUS
    <2>2. TrimTo(h, p, s, nb) = g BY <1>3, <2>1 DEF TrimTo
    <2>3. Retags(h, g, F, p, e, e, TRUE) BY <1>1, <2>1, SetInuseWhole
    <2>4. Occupied(h0, g, F, S, A, p, e, e)
      <3>1. e <= e BY <1>1
      <3> QED BY <1>1, <2>3, <3>1, WidensUsed
    <2>5. A \cup (IF e = e THEN {} ELSE {e}) = A OBVIOUS
    <2>6. /\ SameHeap(h0, g) /\ FakeAt(g) = F /\ Whole(g, F, S, A) /\ g.tag[p].size = s
          /\ Steady(h0, g, A \ {p})
      BY <2>4, <2>5 DEF Occupied
    <2>7. s \in Nat BY <1>1
    <2> QED BY <1>2, <2>2, <2>6, <2>7 DEF Resized
  <1>4. CASE Splits(s, nb)
    <2>1. PICK mid, r : mid = p + nb /\ r = s - nb OBVIOUS
    <2>2. r >= 4 BY <1>4, <2>1 DEF Splits, MinChunkSize
    <2>3. /\ mid \in Nat /\ p < mid /\ mid < e /\ mid <= e /\ mid # e /\ nb = mid - p
          /\ r = e - mid
      BY <1>1, <2>1, <2>2
    <2>4. mid % 4 = 2 BY <1>1, <2>1, SMT
    <2>5. PICK g : g = SetInuse(SetInuse(h, p, nb), mid, r) OBVIOUS
    <2>6. TrimTo(h, p, s, nb) = Dispose(g, mid, r) BY <1>4, <2>1, <2>5 DEF TrimTo
    <2>7. Retags(h, g, F, p, mid, e, TRUE) BY <1>1, <2>3, <2>5, TwoInuse
    <2>8. Occupied(h0, g, F, S, A, p, mid, e) BY <2>3, <2>4, <2>7, WidensUsed
    <2>9. PICK B : B = A \cup {mid} OBVIOUS
    <2>10. /\ SameHeap(h0, g) /\ FakeAt(g) = F /\ Whole(g, F, S, B) /\ g.tag[p].size = nb
           /\ g.tag[mid].size = r /\ mid \notin A /\ Steady(h0, g, A \ {p})
      BY <2>3, <2>8, <2>9 DEF Occupied
    <2>11. PICK z : z = Dispose(g, mid, r) OBVIOUS
    <2>12. Disposed(g, z, F, S, B, mid) BY <2>9, <2>10, <2>11, DisposeWhole
    <2>13. B \ {mid} = A BY <2>9, <2>10
    <2>14. SameHeap(g, z) /\ FakeAt(z) = F /\ Whole(z, F, S, A) /\ Steady(g, z, A)
      BY <2>12, <2>13 DEF Disposed
    <2>15. SameHeap(h0, z) BY <2>10, <2>14 DEF SameHeap
    <2>16. z.tag[p].size = nb /\ Steady(h0, z, A \ {p}) BY <1>2, <2>10, <2>14 DEF Steady
    <2>17. nb >= nb OBVIOUS
    <2> QED BY <1>2, <2>6, <2>11, <2>14, <2>15, <2>16, <2>17 DEF Resized
  <1> QED BY <1>3, <1>4

(* A block on its own.                                                     *)
LEMMA WidensItself ==
    ASSUME NEW h0, NEW F, NEW S, NEW A, Whole(h0, F, S, A), F = FakeAt(h0),
           NEW p \in A, NEW e, e = p + h0.tag[p].size
    PROVE  /\ Widens(h0, h0, F, S, A, p, e, {p})
           /\ h0.top \notin {p} /\ (h0.dvsize # 0 => h0.dv \notin {p})
           /\ h0.tag[p].size = e - p
  <1>1. Known(h0, F, S, A) /\ TopOK(h0, F) /\ DvOK(h0, F) BY WholeFacts DEF Whole
  <1>2. PICK t : t = h0.tag OBVIOUS
  <1>3. State(h0) /\ Shape(t, F, S) /\ UsedAt(t, F, p) BY <1>1, <1>2 DEF Known
  <1>4. e = p + t[p].size BY <1>2
  <1>5. OneChunk(t, F, p, e) BY <1>3, <1>4, ChunkStretch DEF UsedAt
  <1>6. SameHeap(h0, h0) /\ SameTopDv(h0, h0) BY <1>3 DEF SameHeap, SameTopDv
  <1>7. Loose(h0, F, S, A, {h0.top, h0.dv} \cup ({p} \ {p})) BY DEF Whole
  <1>8. Widens(h0, h0, F, S, A, p, e, {p}) BY <1>2, <1>5, <1>6, <1>7 DEF Widens, OneChunk
  <1>9. h0.top \notin {p} /\ (h0.dvsize # 0 => h0.dv \notin {p})
    BY <1>1, <1>2, <1>3 DEF TopOK, DvOK, FreeAt, UsedAt
  <1>10. h0.tag[p].size = e - p BY <1>2, <1>5 DEF OneChunk
  <1> QED BY <1>8, <1>9, <1>10

Alone(h0, F, S, A, p, e) ==
    /\ Widens(h0, h0, F, S, A, p, e, {p})
    /\ h0.top \notin {p} /\ (h0.dvsize # 0 => h0.dv \notin {p})
    /\ h0.tag[p].size = e - p

(* The owned chunk alone, to begin with.                                   *)
LEMMA WidensAlone ==
    ASSUME NEW h0, NEW F, NEW S, NEW A, Whole(h0, F, S, A), F = FakeAt(h0),
           NEW p \in A, NEW e, e = p + h0.tag[p].size
    PROVE  Alone(h0, F, S, A, p, e)
  BY WidensItself DEF Alone

(* realloc that shrinks, or finds enough room already.                     *)
LEMMA ShrinkResizes ==
    ASSUME NEW h0, NEW F, NEW S, NEW A, Whole(h0, F, S, A), F = FakeAt(h0),
           NEW p \in A, NEW s, s = h0.tag[p].size,
           NEW nb \in Nat, nb > 0, nb % 4 = 0, nb <= s
    PROVE  Resized(h0, TrimTo(h0, p, s, nb), F, S, A, p, nb)
  <1>1. PICK e, C : e = p + h0.tag[p].size /\ C = {p} BY Zenon
  <1>2. /\ Widens(h0, h0, F, S, A, p, e, C) /\ h0.top \notin C
        /\ (h0.dvsize # 0 => h0.dv \notin C) /\ s = e - p
    BY <1>1, WidensItself
  <1> QED BY <1>2, TrimResizes

(* A block and the free chunk behind it.                                   *)
WidensBehind(h0, h, F, S, A, p, e, e2, n) ==
    /\ Widens(h0, h, F, S, A, p, e2, {p, e})
    /\ h0.tag[e2].pinuse = FALSE /\ (e2 = F \/ h0.tag[e2].cinuse = TRUE)
    /\ n \in Nat /\ n > 0 /\ e \in Nat /\ e2 = e + n
    /\ h0.tag[p].size = e - p /\ h0.tag[p].size \in Nat

(* Taking in the free chunk behind.                                        *)
LEMMA WidensNext ==
    ASSUME NEW h0, NEW F, NEW S, NEW A, Whole(h0, F, S, A), F = FakeAt(h0),
           NEW p \in A, NEW e, e = p + h0.tag[p].size, FreeAt(h0.tag, F, e),
           NEW n, n = h0.tag[e].size, NEW e2, e2 = e + n,
           NEW h, h = IF e \in {h0.top, h0.dv} THEN h0 ELSE UnlinkChunk(h0, e, n)
    PROVE  WidensBehind(h0, h, F, S, A, p, e, e2, n)
  <1>1. Known(h0, F, S, A) BY WholeFacts
  <1>2. PICK t : t = h0.tag OBVIOUS
  <1>3. State(h0) /\ Shape(t, F, S) /\ UsedAt(t, F, p) /\ IsChunk(t, F, e) /\ t[e].cinuse = FALSE
    BY <1>1, <1>2 DEF Known, FreeAt
  <1>4. e = p + t[p].size /\ e2 = e + t[e].size BY <1>2
  <1>5. OneChunk(t, F, p, e) BY <1>3, <1>4, ChunkStretch DEF UsedAt
  <1>6. OneChunk(t, F, e, e2) BY <1>3, <1>4, ChunkStretch, SMTT(60)
  <1>7. /\ p \in Nat /\ e \in Nat /\ e2 \in Nat /\ p < e /\ e < e2 /\ e2 <= F /\ p % 4 = 2
        /\ e2 % 4 = 2 /\ t[p].size = e - p /\ t[p].size \in Nat /\ n \in Nat /\ n > 0
    <2>1. /\ p \in Nat /\ e \in Nat /\ p < e /\ p % 4 = 2 /\ t[p].size = e - p
          /\ t[p].size \in Nat
      BY <1>5, SMTT(60) DEF OneChunk
    <2>2. /\ e2 \in Nat /\ e < e2 /\ e2 <= F /\ e2 % 4 = 2 /\ t[e].size \in Nat /\ t[e].size >= 4
      BY <1>6 DEF OneChunk
    <2>3. n = t[e].size BY <1>2, SMTT(60)
    <2> QED BY <2>1, <2>2, <2>3
  <1>8. t[e2].pinuse = FALSE /\ (e2 = F \/ t[e2].cinuse = TRUE) BY <1>3, <1>6 DEF OneChunk
  <1>9. PICK X, C : X = {h0.top, h0.dv} /\ C = {p, e} OBVIOUS
  <1>19. PICK Y : Y = {h0.top, h0.dv} \cup (C \ {p}) OBVIOUS
  <1>10. Y = X \cup {e} BY <1>7, <1>9, <1>19
  <1>11. Loose(h0, F, S, A, X) BY <1>9 DEF Whole
  <1>12. SameHeap(h0, h) /\ SameTopDv(h0, h) /\ h.tag = h0.tag /\ Loose(h, F, S, A, Y)
    <2>1. CASE e \in {h0.top, h0.dv}
      <3>1. h = h0 BY <2>1
      <3>2. X = Y BY <1>9, <1>10, <2>1, SMTT(60)
      <3> QED BY <1>3, <1>11, <3>1, <3>2 DEF SameHeap, SameTopDv
    <2>2. CASE e \notin {h0.top, h0.dv}
      <3>1. h = UnlinkChunk(h0, e, n) /\ e \notin X BY <1>9, <2>2
      <3>2. SameButBins(h0, h) /\ Loose(h, F, S, A, X \cup {e})
        BY <1>11, <3>1, UnlinkLoose
      <3> QED BY <1>10, <3>2, Zenon DEF SameButBins, SameHeap, SameTopDv
    <2> QED BY <2>1, <2>2, SMTT(60)
  <1>13. Stretch(t, F, p, e2, C)
    <2>1. PICK D, E : D = {p} /\ E = {e} OBVIOUS
    <2>2. Stretch(t, F, p, e, D) /\ Stretch(t, F, e, e2, E) BY <1>5, <1>6, <2>1 DEF OneChunk
    <2>3. Stretch(t, F, p, e2, D \cup E) BY <1>3, <2>2, JoinStretch
    <2>4. D \cup E = C BY <1>9, <2>1
    <2> QED BY <2>3, <2>4
  <1>14. A \ C = A \ {p}
    <2>1. e \notin A BY <1>1, <1>2, <1>3, SMTT(60) DEF Known, UsedAt
    <2> QED BY <1>9, <2>1
  <1>15. Widens(h0, h, F, S, A, p, e2, C)
    <2>1. p \in C /\ p \in A /\ p < e2 BY <1>7, <1>9
    <2> QED BY <1>2, <1>7, <1>12, <1>13, <1>14, <1>19, <2>1, ZenonT(60) DEF Widens
  <1> QED BY <1>2, <1>7, <1>8, <1>9, <1>15, Zenon DEF WidensBehind

(* A chunk behind one in use is free unless its header says otherwise.     *)
LEMMA BehindUsed ==
    ASSUME NEW h0, NEW F, NEW S, NEW A, Whole(h0, F, S, A), F = FakeAt(h0),
           NEW p \in A, NEW e, e = p + h0.tag[p].size
    PROVE  /\ e # F /\ e \in Nat /\ e # NULL /\ h0.tag[e].cinuse \in BOOLEAN
           /\ h0.tag[e].cinuse = FALSE => FreeAt(h0.tag, F, e)
           /\ e = h0.dv => h0.dvsize # 0
  <1>1. Known(h0, F, S, A) BY WholeFacts
  <1>2. PICK t : t = h0.tag OBVIOUS
  <1>3. Shape(t, F, S) /\ UsedAt(t, F, p) BY <1>1, <1>2 DEF Known
  <1>4. e = p + t[p].size BY <1>2
  <1>5. OneChunk(t, F, p, e) BY <1>3, <1>4, ChunkStretch DEF UsedAt
  <1>6. t[e].pinuse = TRUE /\ e \in DOMAIN t /\ e \in Nat /\ p < e /\ p \in Nat
    BY <1>3, <1>5 DEF OneChunk, UsedAt
  <1>7. e # F
    <2>1. OneChunk(t, F, h0.top, F) /\ h0.tag[h0.top].cinuse = FALSE BY <1>1, <1>2 DEF Known
    <2>2. t[F].pinuse = FALSE BY <1>2, <2>1 DEF OneChunk
    <2> QED BY <1>6, <2>2
  <1>8. t[e].cinuse \in BOOLEAN BY <1>1, <1>2, <1>6 DEF Known, Tagged, AnyTag
  <1>9. t[e].cinuse = FALSE => FreeAt(t, F, e)
    BY <1>3, <1>6, <1>7 DEF FreeAt, IsChunk, Shape, Heads
  <1>10. e # NULL BY <1>6 DEF NULL
  <1>11. e = h0.dv => h0.dvsize # 0 BY <1>10, SMTT(60) DEF Whole, DvOK
  <1> QED BY <1>2, <1>6, <1>7, <1>8, <1>9, <1>10, <1>11

(* The chunk behind is in a bin: it joins the block, which is then trimmed.*)
LEMMA NextResizes ==
    ASSUME NEW h0, NEW F, NEW S, NEW A, Whole(h0, F, S, A), F = FakeAt(h0),
           NEW p \in A, NEW e, e = p + h0.tag[p].size, h0.tag[e].cinuse = FALSE,
           e # h0.top, e # h0.dv, NEW n, n = h0.tag[e].size,
           NEW s, s = h0.tag[p].size + n, NEW nb \in Nat, nb > 0, nb % 4 = 0, nb <= s
    PROVE  Resized(h0, TrimTo(UnlinkChunk(h0, e, n), p, s, nb), F, S, A, p, nb)
  <1>1. FreeAt(h0.tag, F, e) BY BehindUsed
  <1>2. PICK e2, h, C : e2 = e + n /\ h = UnlinkChunk(h0, e, n) /\ C = {p, e} OBVIOUS
  <1>3. WidensBehind(h0, h, F, S, A, p, e, e2, n)
    <2>1. h = IF e \in {h0.top, h0.dv} THEN h0 ELSE UnlinkChunk(h0, e, n) BY <1>2, SMTT(60)
    <2> QED BY <1>1, <1>2, <2>1, WidensNext
  <1>4. Widens(h0, h, F, S, A, p, e2, C) BY <1>2, <1>3, Zenon DEF WidensBehind
  <1>5. s = e2 - p
    <2>1. n \in Nat /\ e \in Nat /\ h0.tag[p].size = e - p BY <1>3, Zenon DEF WidensBehind
    <2>2. p \in Nat BY <1>4 DEF Widens
    <2>3. s = (e - p) + n BY <2>1
    <2>4. \A a, b, c \in Nat : (a - b) + c = (a + c) - b OBVIOUS
    <2> QED BY <1>2, <2>1, <2>2, <2>3, <2>4, ZenonT(60)
  <1>6. h0.top \notin C /\ (h0.dvsize # 0 => h0.dv \notin C)
    <2>1. h0.top \notin {p} /\ (h0.dvsize # 0 => h0.dv \notin {p}) BY WidensItself
    <2> QED BY <1>2, <2>1
  <1>7. Resized(h0, TrimTo(h, p, s, nb), F, S, A, p, nb) BY <1>4, <1>5, <1>6, TrimResizes
  <1> QED BY <1>2, <1>7

-----------------------------------------------------------------------------
(* The stretch ends in a free chunk, or has become one in use.             *)
Reshaped(h0, h, g, F, S, A, p, mid, e, C, c) ==
    /\ SameHeap(h0, g) /\ SameTopDv(h0, g) /\ State(g) /\ Kept(h0, g, F, C)
    /\ Loose(g, F, S, A, ({h0.top, h0.dv} \ C) \cup (IF c THEN {} ELSE {mid}))
    /\ g.tag[p].size = mid - p
    /\ c = FALSE => FreeAt(g.tag, F, mid) /\ g.tag[mid].size = e - mid
    /\ Steady(h0, g, A \ {p})

(* The stretch laid anew: a chunk in use and, where it is longer than      *)
(* asked, a free rest.                                                     *)
LEMMA WidensReshaped ==
    ASSUME NEW h0, NEW F, NEW S, NEW A, Whole(h0, F, S, A), F = FakeAt(h0),
           NEW h, NEW p, NEW e, NEW C, Widens(h0, h, F, S, A, p, e, C),
           NEW mid \in Nat, p < mid, mid <= e, mid % 4 = 2, NEW c \in BOOLEAN,
           c = FALSE => mid # e /\ (e = F \/ h0.tag[e].cinuse = TRUE),
           c = TRUE => mid = e,
           NEW g, Retags(h, g, F, p, mid, e, c)
    PROVE  Reshaped(h0, h, g, F, S, A, p, mid, e, C, c)
  <1>1. Known(h0, F, S, A) BY WholeFacts
  <1>2. PICK X : X = {h0.top, h0.dv} \cup (C \ {p}) OBVIOUS
  <1>3. /\ SameHeap(h0, h) /\ SameTopDv(h0, h) /\ h.tag = h0.tag /\ Loose(h, F, S, A, X)
        /\ Stretch(h0.tag, F, p, e, C) /\ p \in C /\ p \in A /\ A \ C = A \ {p}
        /\ p \in Nat /\ e \in Nat /\ p < e /\ p % 4 = 2 /\ e % 4 = 2 /\ e <= F
    BY <1>2 DEF Widens
  <1>4. UsedAt(h0.tag, F, p) BY <1>1, <1>3 DEF Known
  <1>5. Relayed(h, g, F, S, A, X, p, mid, e, c, C)
    <2>1. Stretch(h.tag, F, p, e, C) BY <1>3
    <2>2. \A x \in C : FreeAt(h.tag, F, x) => x \in X BY <1>2, <1>3, <1>4 DEF FreeAt, UsedAt
    <2>3. TRUE \in BOOLEAN /\ FALSE \in BOOLEAN /\ TRUE # FALSE OBVIOUS
    <2>4. CASE c = TRUE
      <3>1. Retags(h, g, F, p, mid, e, TRUE) BY <2>4
      <3>2. Relayed(h, g, F, S, A, X, p, mid, e, TRUE, C)
        BY <1>3, <2>1, <2>2, <2>3, <3>1, RelayLoose, Zenon
      <3> QED BY <2>4, <3>2
    <2>5. CASE c = FALSE
      <3>1. Retags(h, g, F, p, mid, e, FALSE) /\ mid # e /\ (e = F \/ h.tag[e].cinuse = TRUE)
        BY <1>3, <2>5
      <3>2. Relayed(h, g, F, S, A, X, p, mid, e, FALSE, C)
        BY <1>3, <2>1, <2>2, <2>3, <3>1, RelayLoose, Zenon
      <3> QED BY <2>5, <3>2
    <2> QED BY <2>4, <2>5
  <1>6. PICK l : l = LastOf(p, mid, e) OBVIOUS
  <1>7. l = IF c THEN p ELSE mid BY <1>6 DEF LastOf
  <1>8. /\ SameButTags(h, g) /\ Kept(h, g, F, C) /\ g.tag[p].size = mid - p
        /\ g.tag[l].size = e - l /\ IsChunk(g.tag, F, l) /\ g.tag[l].cinuse = c
    BY <1>5, <1>6 DEF Relayed, Pieces
  <1>9. Loose(g, F, S, A, ({h0.top, h0.dv} \ C) \cup (IF c THEN {} ELSE {mid}))
    <2>1. Loose(g, F, S, (A \ C) \cup NewUsed(p, mid, e, c), (X \ C) \cup NewFree(p, mid, e, c))
      BY <1>5 DEF Relayed
    <2>2. (A \ C) \cup NewUsed(p, mid, e, c) = A BY <1>3, <1>6, <1>7 DEF NewUsed
    <2>3. (X \ C) \cup NewFree(p, mid, e, c) = ({h0.top, h0.dv} \ C) \cup (IF c THEN {} ELSE {mid})
      BY <1>2, <1>6, <1>7 DEF NewFree
    <2> QED BY <2>1, <2>2, <2>3
  <1>10. SameTopDv(h0, g) /\ SameHeap(h0, g) /\ State(g)
    BY <1>3, <1>8 DEF SameTopDv, SameHeap, SameButTags
  <1>11. Kept(h0, g, F, C) BY <1>3, <1>8 DEF Kept
  <1>12. Steady(h0, g, A \ {p})
    <2>1. \A x \in A \ {p} : IsChunk(h0.tag, F, x) /\ x \notin C
      BY <1>1, <1>3 DEF Known, UsedAt
    <2> QED BY <1>11, <2>1 DEF Steady, Kept
  <1>13. c = FALSE => FreeAt(g.tag, F, mid) /\ g.tag[mid].size = e - mid
    BY <1>7, <1>8 DEF FreeAt
  <1> QED BY <1>8, <1>9, <1>10, <1>11, <1>12, <1>13 DEF Reshaped

(* What is left of top, or of dv, is where the block now ends.             *)
LEMMA TopEnds ==
    ASSUME NEW h0, NEW F, NEW S, NEW A, Whole(h0, F, S, A), F = FakeAt(h0),
           NEW h, NEW p, NEW C, Widens(h0, h, F, S, A, p, F, C), h0.top \in C,
           h0.dvsize # 0 => h0.dv \notin C,
           NEW mid \in Nat, p < mid, mid < F, NEW nb, nb = mid - p,
           NEW k, Reshaped(h0, h, k, F, S, A, p, mid, F, C, FALSE),
           NEW g, Moved(k, g), g.top = mid, g.topsize = F - mid, g.dv = h0.dv,
           g.dvsize = h0.dvsize
    PROVE  Resized(h0, g, F, S, A, p, nb)
  <1>1. Known(h0, F, S, A) /\ TopOK(h0, F) /\ DvOK(h0, F) BY WholeFacts DEF Whole
  <1>2. /\ SameHeap(h0, k) /\ Kept(h0, k, F, C)
        /\ Loose(k, F, S, A, ({h0.top, h0.dv} \ C) \cup {mid})
        /\ k.tag[p].size = mid - p /\ FreeAt(k.tag, F, mid) /\ k.tag[mid].size = F - mid
        /\ Steady(h0, k, A \ {p})
    BY DEF Reshaped
  <1>3. g.tag = k.tag /\ g.bins = k.bins /\ g.smallmap = k.smallmap /\ State(g) BY DEF Moved
  <1>4. SameHeap(h0, g) BY <1>2 DEF Moved, SameHeap
  <1>5. /\ Stretch(h0.tag, F, p, F, C) /\ p \in Nat /\ p \in A BY DEF Widens
  <1>6. F \in Nat BY <1>1 DEF Known
  <1>7. h0.dvsize # 0 => h0.dv # mid
    <2> SUFFICES ASSUME h0.dvsize # 0, h0.dv = mid PROVE FALSE OBVIOUS
    <2>1. IsChunk(h0.tag, F, mid) BY <1>1 DEF DvOK, FreeAt
    <2>2. p <= mid BY <1>5
    <2>3. mid \in C BY <1>5, <2>1, <2>2 DEF Stretch
    <2> QED BY <2>3
  <1>8. TopOK(g, F) BY <1>2, <1>3 DEF TopOK
  <1>9. DvOK(g, F)
    <2>1. Kept(h0, g, F, C) BY <1>2, <1>3 DEF Kept
    <2>2. h0.dvsize # 0 => h0.dv # g.top BY <1>7
    <2> QED BY <1>1, <2>1, <2>2, DvKept
  <1>10. PICK X, Y : X = ({h0.top, h0.dv} \ C) \cup {mid} /\ Y = {g.top, g.dv} OBVIOUS
  <1>11. Loose(g, F, S, A, Y)
    <2>1. \A x : FreeAt(k.tag, F, x) => x # NULL
      <3>1. PICK t : t = k.tag OBVIOUS
      <3>2. Shape(t, F, S) BY <1>2, <3>1 DEF Loose
      <3> QED BY <3>1, <3>2, ChunkNotNull DEF FreeAt
    <2>2. h0.dvsize = 0 => h0.dv = NULL BY <1>1 DEF DvOK
    <2>3. \A x : FreeAt(k.tag, F, x) => (x \in X <=> x \in Y) BY <1>10, <2>1, <2>2
    <2>4. Loose(k, F, S, A, X) BY <1>2, <1>10
    <2> QED BY <1>3, <2>3, <2>4, SameLoose
  <1>12. Whole(g, F, S, A) BY <1>8, <1>9, <1>10, <1>11 DEF Whole
  <1>13. FakeAt(g) = F BY <1>6 DEF FakeAt
  <1>14. Steady(h0, g, A \ {p}) BY <1>2, <1>3 DEF Steady
  <1>15. g.tag[p].size = nb /\ nb \in Nat /\ nb >= nb BY <1>2, <1>3, <1>5
  <1> QED BY <1>4, <1>5, <1>12, <1>13, <1>14, <1>15 DEF Resized

(* realloc into dv: the rest is the new dv, or there is none.              *)
LEMMA DvEnds ==
    ASSUME NEW h0, NEW F, NEW S, NEW A, Whole(h0, F, S, A), F = FakeAt(h0),
           NEW h, NEW p, NEW e, NEW C, Widens(h0, h, F, S, A, p, e, C), h0.top \notin C,
           h0.dv \in C, NEW c \in BOOLEAN,
           NEW mid \in Nat, p < mid, mid <= e, c = FALSE => mid < e, NEW nb \in Nat, nb <= mid - p,
           NEW k, Reshaped(h0, h, k, F, S, A, p, mid, e, C, c),
           NEW g, Moved(k, g), g.top = h0.top, g.topsize = h0.topsize,
           IF c THEN g.dv = NULL /\ g.dvsize = 0 ELSE g.dv = mid /\ g.dvsize = e - mid
    PROVE  Resized(h0, g, F, S, A, p, nb)
  <1>1. Known(h0, F, S, A) /\ TopOK(h0, F) BY WholeFacts DEF Whole
  <1>2. PICK X : X = ({h0.top, h0.dv} \ C) \cup (IF c THEN {} ELSE {mid}) OBVIOUS
  <1>3. /\ SameHeap(h0, k) /\ Kept(h0, k, F, C) /\ Loose(k, F, S, A, X)
        /\ k.tag[p].size = mid - p
        /\ c = FALSE => FreeAt(k.tag, F, mid) /\ k.tag[mid].size = e - mid
        /\ Steady(h0, k, A \ {p})
    BY <1>2 DEF Reshaped
  <1>4. g.tag = k.tag /\ g.bins = k.bins /\ g.smallmap = k.smallmap /\ State(g) BY DEF Moved
  <1>5. SameHeap(h0, g) BY <1>3 DEF Moved, SameHeap
  <1>6. /\ Stretch(h0.tag, F, p, e, C) /\ p \in Nat /\ e \in Nat /\ p \in A BY DEF Widens
  <1>7. TopOK(g, F) BY <1>1, <1>3, <1>4 DEF TopOK, Kept, FreeAt
  <1>8. c = FALSE => mid # h0.top
    <2> SUFFICES ASSUME c = FALSE, mid = h0.top PROVE FALSE OBVIOUS
    <2>1. IsChunk(h0.tag, F, mid) BY <1>1 DEF TopOK, FreeAt
    <2>2. p <= mid /\ mid < e BY <1>6
    <2>3. mid \in C BY <1>6, <2>1, <2>2 DEF Stretch
    <2> QED BY <2>3
  <1>9. DvOK(g, F)
    <2>1. CASE c = TRUE BY <2>1 DEF DvOK
    <2>2. CASE c = FALSE
      <3>1. e - mid # 0 BY <1>6, <2>2
      <3> QED BY <1>3, <1>4, <1>8, <2>2, <3>1 DEF DvOK
    <2> QED BY <2>1, <2>2
  <1>10. PICK Y : Y = {g.top, g.dv} OBVIOUS
  <1>11. Loose(g, F, S, A, Y)
    <2>1. \A x : FreeAt(k.tag, F, x) => x # NULL
      <3>1. PICK t : t = k.tag OBVIOUS
      <3>2. Shape(t, F, S) BY <1>3, <3>1 DEF Loose
      <3> QED BY <3>1, <3>2, ChunkNotNull DEF FreeAt
    <2>2. \A x : FreeAt(k.tag, F, x) => (x \in X <=> x \in Y)
      <3>1. CASE c = TRUE BY <1>2, <1>10, <2>1, <3>1
      <3>2. CASE c = FALSE BY <1>2, <1>10, <2>1, <3>2
      <3> QED BY <3>1, <3>2
    <2> QED BY <1>3, <1>4, <2>2, SameLoose
  <1>12. Whole(g, F, S, A) BY <1>7, <1>9, <1>10, <1>11 DEF Whole
  <1>13. FakeAt(g) = F BY DEF FakeAt
  <1>14. Steady(h0, g, A \ {p}) BY <1>3, <1>4 DEF Steady
  <1>15. g.tag[p].size \in Nat /\ g.tag[p].size >= nb BY <1>3, <1>4, <1>6
  <1> QED BY <1>5, <1>6, <1>12, <1>13, <1>14, <1>15 DEF Resized

(* The block grows into top.                                               *)
LEMMA TopResizes ==
    ASSUME NEW h0, NEW F, NEW S, NEW A, Whole(h0, F, S, A), F = FakeAt(h0),
           NEW p \in A, NEW e, e = p + h0.tag[p].size, e = h0.top,
           NEW s, s = h0.tag[p].size + h0.topsize,
           NEW nb \in Nat, nb > 0, nb % 4 = 0, nb < s,
           NEW mid, mid = p + nb, NEW r, r = s - nb
    PROVE  Resized(h0, Lay([SetInuse(h0, p, nb) EXCEPT !.top = mid, !.topsize = r],
                           mid, r, TRUE, FALSE), F, S, A, p, nb)
  <1>1. Known(h0, F, S, A) /\ TopOK(h0, F) BY WholeFacts DEF Whole
  <1>2. FreeAt(h0.tag, F, e) BY <1>1 DEF TopOK
  <1>3. PICK n, e2, h, C : n = h0.tag[e].size /\ e2 = e + n /\ h = h0 /\ C = {p, e} OBVIOUS
  <1>4. WidensBehind(h0, h, F, S, A, p, e, e2, n)
    <2>1. h = IF e \in {h0.top, h0.dv} THEN h0 ELSE UnlinkChunk(h0, e, n) BY <1>3
    <2> QED BY <1>2, <1>3, <2>1, WidensNext
  <1>5. n = h0.topsize /\ e2 = F BY <1>1, <1>3 DEF TopOK, FakeAt
  <1>6. Widens(h0, h0, F, S, A, p, F, C) /\ h0.tag[F].pinuse = FALSE
    BY <1>3, <1>4, <1>5 DEF WidensBehind
  <1>7. n \in Nat /\ e \in Nat /\ F = e + n /\ h0.tag[p].size = e - p BY <1>4, <1>5 DEF WidensBehind
  <1>8. /\ Tagged(h0) /\ p \in DOMAIN h0.tag /\ F \in DOMAIN h0.tag /\ p < F /\ p \in Nat
        /\ p % 4 = 2 /\ F \in Nat
    BY <1>6, WidensFacts
  <1>9. s = F - p BY <1>5, <1>7, <1>8
  <1>10. mid \in Nat /\ p < mid /\ mid < F /\ r = F - mid /\ r \in Int /\ nb = mid - p /\ mid # F
         /\ mid <= F
    BY <1>8, <1>9
  <1>11. mid % 4 = 2 BY <1>8, SMT
  <1>12. PICK k, c : k = SetInuse(h0, p, nb) /\ c = FALSE OBVIOUS
  <1>13. PICK l, g : /\ l = Lay(k, mid, r, TRUE, c)
                     /\ g = Lay([k EXCEPT !.top = mid, !.topsize = r], mid, r, TRUE, c)
    OBVIOUS
  <1>14. Opens(h0, k, p, mid) BY <1>8, <1>10, <1>12, SetInuseOpens
  <1>15. Retags(h0, l, F, p, mid, F, FALSE)
    <2>1. c \in BOOLEAN BY <1>12
    <2>2. Halves(h0, l, p, mid, F, c) BY <1>8, <1>10, <1>13, <1>14, <2>1, LayHalves
    <2>3. Halves(h0, l, p, mid, F, FALSE) BY <1>12, <2>2
    <2> QED BY <1>6, <1>8, <1>10, <2>3, HalvesKnown
  <1>16. Reshaped(h0, h0, l, F, S, A, p, mid, F, C, FALSE)
    <2>1. FALSE \in BOOLEAN /\ FALSE # TRUE /\ F = F OBVIOUS
    <2> QED BY <1>6, <1>10, <1>11, <1>15, <2>1, WidensReshaped, Zenon
  <1>17. SameButTags(h0, l) BY <1>15 DEF Retags
  <1>18. SameButTags(h0, k) BY <1>14 DEF Opens
  <1>19. Moved(l, g) /\ g.top = mid /\ g.topsize = F - mid /\ g.dv = h0.dv /\ g.dvsize = h0.dvsize
    <2>1. PICK m : m = [k EXCEPT !.top = mid, !.topsize = r] OBVIOUS
    <2>2. /\ State(m) /\ SameHeap(k, m) /\ m.tag = k.tag /\ m.bins = k.bins
          /\ m.smallmap = k.smallmap /\ m.top = mid /\ m.topsize = r
          /\ m.dv = k.dv /\ m.dvsize = k.dvsize
      BY <1>18, <2>1 DEF SameHeap, SameButTags, State, Fields
    <2>3. g = [m EXCEPT !.tag = Laid(m.tag, mid, r, TRUE, c)] BY <1>13, <2>1 DEF Lay
    <2>4. l = [k EXCEPT !.tag = Laid(k.tag, mid, r, TRUE, c)] BY <1>13 DEF Lay
    <2>5. PICK u : u = Laid(k.tag, mid, r, TRUE, c) OBVIOUS
    <2>6. g = [m EXCEPT !.tag = u] /\ l = [k EXCEPT !.tag = u] BY <2>2, <2>3, <2>4, <2>5
    <2>7. State(k) BY <1>18 DEF SameButTags
    <2>8. /\ State(g) /\ SameHeap(m, g) /\ g.tag = u /\ g.bins = m.bins
          /\ g.smallmap = m.smallmap /\ g.top = mid /\ g.topsize = r
          /\ g.dv = m.dv /\ g.dvsize = m.dvsize
      BY <2>2, <2>6 DEF SameHeap, State, Fields
    <2>9. SameHeap(k, l) /\ l.tag = u /\ l.bins = k.bins /\ l.smallmap = k.smallmap
      BY <2>6, <2>7 DEF SameHeap, State, Fields
    <2>10. SameHeap(l, g) BY <2>2, <2>8, <2>9 DEF SameHeap
    <2>11. Moved(l, g) BY <2>2, <2>8, <2>9, <2>10 DEF Moved
    <2>12. k.dv = h0.dv /\ k.dvsize = h0.dvsize BY <1>18 DEF SameButTags
    <2> QED BY <1>10, <2>2, <2>8, <2>11, <2>12
  <1>20. h0.top \in C /\ (h0.dvsize # 0 => h0.dv \notin C)
    <2>1. h0.dvsize # 0 => h0.dv \notin {p} BY WidensItself
    <2>2. h0.dvsize # 0 => h0.dv # h0.top BY DEF Whole, DvOK
    <2> QED BY <1>3, <2>1, <2>2
  <1>21. Resized(h0, g, F, S, A, p, nb) BY <1>6, <1>10, <1>16, <1>19, <1>20, TopEnds
  <1> QED BY <1>12, <1>13, <1>21

(* The block grows into dv, which keeps what the block does not need.      *)
LEMMA DvResizes ==
    ASSUME NEW h0, NEW F, NEW S, NEW A, Whole(h0, F, S, A), F = FakeAt(h0),
           NEW p \in A, NEW e, e = p + h0.tag[p].size, e = h0.dv,
           NEW s, s = h0.tag[p].size + h0.dvsize,
           NEW nb \in Nat, nb > 0, nb % 4 = 0, nb <= s,
           NEW mid, mid = p + nb, NEW r, r = s - nb, NEW e2, e2 = p + s
    PROVE  Resized(h0,
              IF Splits(s, nb) THEN
                  [ClearPinuse(SetSizeAndPinuseOfFreeChunk(SetInuse(h0, p, nb), mid, r), e2)
                      EXCEPT !.dv = mid, !.dvsize = r]
              ELSE [SetInuse(h0, p, s) EXCEPT !.dv = NULL, !.dvsize = 0],
              F, S, A, p, nb)
  <1>1. Known(h0, F, S, A) /\ DvOK(h0, F) BY WholeFacts DEF Whole
  <1>2. h0.dvsize # 0 BY BehindUsed, ZenonT(60)
  <1>3. FreeAt(h0.tag, F, e) /\ e # h0.top BY <1>1, <1>2 DEF DvOK
  <1>4. PICK n, e3, h, C : n = h0.tag[e].size /\ e3 = e + n /\ h = h0 /\ C = {p, e} OBVIOUS
  <1>5. WidensBehind(h0, h, F, S, A, p, e, e3, n)
    <2>1. h = IF e \in {h0.top, h0.dv} THEN h0 ELSE UnlinkChunk(h0, e, n) BY <1>4
    <2> QED BY <1>3, <1>4, <2>1, WidensNext
  <1>6. /\ Widens(h0, h0, F, S, A, p, e3, C) /\ h0.tag[e3].pinuse = FALSE
        /\ (e3 = F \/ h0.tag[e3].cinuse = TRUE)
        /\ n \in Nat /\ e \in Nat /\ h0.tag[p].size = e - p
    BY <1>4, <1>5 DEF WidensBehind
  <1>7. n = h0.dvsize BY <1>1, <1>2, <1>4 DEF DvOK
  <1>8. /\ Tagged(h0) /\ p \in DOMAIN h0.tag /\ e3 \in DOMAIN h0.tag /\ p < e3 /\ p \in Nat
        /\ p % 4 = 2 /\ e3 % 4 = 2 /\ F \in Nat /\ e3 \in Nat /\ e3 <= F /\ State(h0)
    BY <1>6, WidensFacts
  <1>9. s \in Nat /\ s = e3 - p /\ e2 = e3
    <2>1. s = (e - p) + n BY <1>6, <1>7
    <2>2. \A a, b, c \in Nat : (a - b) + c = (a + c) - b OBVIOUS
    <2>3. \A a, b \in Nat : b + (a - b) = a OBVIOUS
    <2>4. e3 = e + n BY <1>4
    <2>5. s = e3 - p BY <1>6, <1>8, <2>1, <2>2, <2>4, ZenonT(60)
    <2>6. p + s = e3 BY <1>8, <2>3, <2>5, ZenonT(60)
    <2> QED BY <1>8, <2>5, <2>6
  <1>10. h0.top \notin C /\ h0.dv \in C
    <2>1. h0.top \notin {p} BY WidensItself
    <2> QED BY <1>3, <1>4, <2>1
  <1>11. CASE Splits(s, nb)
    <2>1. s - nb >= 4 BY <1>11 DEF Splits, MinChunkSize
    <2>2. /\ mid \in Nat /\ p < mid /\ mid < e3 /\ mid <= e3 /\ mid # e3 /\ r = e3 - mid
          /\ nb = mid - p /\ nb <= mid - p
      BY <1>8, <1>9, <2>1
    <2>3. mid % 4 = 2 BY <1>8, SMT
    <2>4. r \in BinSizes
      <3>1. Shape(h0.tag, F, S) BY <1>1 DEF Known
      <3>2. PICK t : t = h0.tag OBVIOUS
      <3> QED BY <1>8, <2>2, <2>3, <3>1, <3>2, StretchSize
    <2>5. PICK k, f, l : /\ k = SetInuse(h0, p, nb)
                         /\ f = SetSizeAndPinuseOfFreeChunk(k, mid, r)
                         /\ l = ClearPinuse(f, e3)
      OBVIOUS
    <2>6. PICK g : g = [l EXCEPT !.dv = mid, !.dvsize = r] OBVIOUS
    <2>7. Opens(h0, k, p, mid) BY <1>8, <2>2, <2>5, SetInuseOpens
    <2>8. Retags(h0, f, F, p, mid, e3, FALSE) BY <1>6, <1>8, <2>2, <2>4, <2>5, <2>7, FootTells
    <2>9. Retags(h0, l, F, p, mid, e3, FALSE) BY <1>8, <2>2, <2>5, <2>8, ClearKeeps
    <2>10. Reshaped(h0, h0, l, F, S, A, p, mid, e3, C, FALSE)
      <3>1. FALSE \in BOOLEAN /\ FALSE # TRUE OBVIOUS
      <3> QED BY <1>6, <2>2, <2>3, <2>9, <3>1, WidensReshaped, Zenon
    <2>11. SameButTags(h0, l) BY <2>9 DEF Retags
    <2>12. Moved(l, g) /\ g.top = h0.top /\ g.topsize = h0.topsize /\ g.dv = mid /\ g.dvsize = r
      BY <2>6, <2>11 DEF Moved, SameHeap, SameButTags, State, Fields
    <2>13. Resized(h0, g, F, S, A, p, nb)
      <3>1. PICK c : c = FALSE OBVIOUS
      <3>2. Reshaped(h0, h0, l, F, S, A, p, mid, e3, C, c) /\ c \in BOOLEAN /\ mid < e3
        BY <2>2, <2>10, <3>1
      <3>3. IF c THEN g.dv = NULL /\ g.dvsize = 0 ELSE g.dv = mid /\ g.dvsize = e3 - mid
        BY <2>2, <2>12, <3>1
      <3> QED BY <1>6, <1>10, <2>2, <2>12, <3>2, <3>3, DvEnds
    <2> QED BY <1>9, <1>11, <2>5, <2>6, <2>13
  <1>12. CASE ~Splits(s, nb)
    <2>1. PICK l : l = SetInuse(h0, p, s) OBVIOUS
    <2>2. PICK g : g = [l EXCEPT !.dv = NULL, !.dvsize = 0] OBVIOUS
    <2>3. Retags(h0, l, F, p, e3, e3, TRUE) BY <1>8, <1>9, <2>1, SetInuseWhole
    <2>4. Reshaped(h0, h0, l, F, S, A, p, e3, e3, C, TRUE)
      <3>1. TRUE \in BOOLEAN /\ FALSE # TRUE /\ e3 = e3 /\ e3 <= e3 BY <1>8
      <3> QED BY <1>6, <1>8, <2>3, <3>1, WidensReshaped, Zenon
    <2>5. SameButTags(h0, l) BY <2>3 DEF Retags
    <2>6. Moved(l, g) /\ g.top = h0.top /\ g.topsize = h0.topsize /\ g.dv = NULL /\ g.dvsize = 0
      BY <2>2, <2>5 DEF Moved, SameHeap, SameButTags, State, Fields
    <2>7. Resized(h0, g, F, S, A, p, nb)
      <3>1. PICK c : c = TRUE OBVIOUS
      <3>2. Reshaped(h0, h0, l, F, S, A, p, e3, e3, C, c) /\ c \in BOOLEAN /\ e3 <= e3
            /\ nb <= e3 - p /\ c # FALSE
        <4>1. nb <= e3 - p /\ e3 <= e3 BY <1>8, <1>9
        <4>2. c \in BOOLEAN /\ c # FALSE BY <3>1
        <4>3. Reshaped(h0, h0, l, F, S, A, p, e3, e3, C, c) BY <2>4, <3>1
        <4> QED BY <4>1, <4>2, <4>3
      <3>3. IF c THEN g.dv = NULL /\ g.dvsize = 0 ELSE g.dv = e3 /\ g.dvsize = e3 - e3
        BY <2>6, <3>1
      <3> QED BY <1>6, <1>8, <1>10, <2>6, <3>2, <3>3, DvEnds
    <2> QED BY <1>12, <2>1, <2>2, <2>7
  <1> QED BY <1>11, <1>12

-----------------------------------------------------------------------------
(* aligned_alloc: the leader is given back.                                *)
Led(h0, g, F, S, A, p, pos, r) ==
    /\ SameHeap(h0, g) /\ FakeAt(g) = F /\ Whole(g, F, S, (A \ {p}) \cup {pos})
    /\ g.tag[pos].size = r /\ pos \notin A /\ Steady(h0, g, A \ {p})

(* memalign's leader split off and given back.                             *)
LEMMA LeaderGiven ==
    ASSUME NEW h0, NEW F, NEW S, NEW A, Whole(h0, F, S, A), F = FakeAt(h0),
           NEW p \in A, NEW s, s = h0.tag[p].size,
           NEW pos \in Nat, p < pos, pos < p + s, pos % 4 = 2,
           NEW lead, lead = pos - p, NEW r, r = s - lead,
           NEW z, z = Dispose(SetInuse(SetInuse(h0, pos, r), p, lead), p, lead)
    PROVE  Led(h0, z, F, S, A, p, pos, r)
  <1>1. PICK e, C : e = p + h0.tag[p].size /\ C = {p} OBVIOUS
  <1>2. /\ Widens(h0, h0, F, S, A, p, e, C) /\ h0.top \notin C
        /\ (h0.dvsize # 0 => h0.dv \notin C) /\ s = e - p
    <2>1. /\ Widens(h0, h0, F, S, A, p, e, {p})
          /\ h0.top \notin {p} /\ (h0.dvsize # 0 => h0.dv \notin {p})
          /\ h0.tag[p].size = e - p
      <3>1. Alone(h0, F, S, A, p, e) BY <1>1, WidensAlone
      <3> QED BY <3>1 DEF Alone
    <2> QED BY <1>1, <2>1
  <1>3. /\ Tagged(h0) /\ p \in DOMAIN h0.tag /\ e \in DOMAIN h0.tag /\ p < e /\ p \in Nat
        /\ e \in Nat /\ F \in Nat
    BY <1>2, WidensFacts
  <1>4. /\ pos < e /\ pos <= e /\ pos # e /\ r = e - pos BY <1>1, <1>2, <1>3
  <1>5. pos \notin DOMAIN h0.tag
    <2>1. Known(h0, F, S, A) BY WholeFacts
    <2>2. PICK t : t = h0.tag OBVIOUS
    <2>3. Shape(t, F, S) /\ UsedAt(t, F, p) BY <2>1, <2>2 DEF Known
    <2>4. \A q \in DOMAIN t : p < q => p + t[p].size <= q BY <2>3 DEF Shape, Tiles, UsedAt
    <2> QED BY <1>1, <1>3, <1>4, <2>2, <2>4
  <1>6. PICK g : g = SetInuse(SetInuse(h0, pos, r), p, lead) OBVIOUS
  <1>7. Retags(h0, g, F, p, pos, e, TRUE) BY <1>3, <1>4, <1>5, <1>6, TwoInuseBackward
  <1>8. Occupied(h0, g, F, S, A, p, pos, e) BY <1>2, <1>4, <1>7, WidensUsed
  <1>9. PICK B : B = A \cup {pos} OBVIOUS
  <1>10. /\ SameHeap(h0, g) /\ FakeAt(g) = F /\ Whole(g, F, S, B) /\ g.tag[p].size = lead
         /\ g.tag[pos].size = r /\ pos \notin A /\ Steady(h0, g, A \ {p})
    BY <1>4, <1>8, <1>9 DEF Occupied
  <1>11. z = Dispose(g, p, lead) BY <1>6
  <1>12. Disposed(g, z, F, S, B, p)
    <2>1. p \in B BY <1>9
    <2> QED BY <1>10, <1>11, <2>1, DisposeWhole
  <1>13. B \ {p} = (A \ {p}) \cup {pos} BY <1>9
  <1>14. /\ SameHeap(g, z) /\ FakeAt(z) = F /\ Whole(z, F, S, (A \ {p}) \cup {pos})
         /\ Steady(g, z, (A \ {p}) \cup {pos})
    BY <1>12, <1>13 DEF Disposed
  <1>15. SameHeap(h0, z) BY <1>10, <1>14 DEF SameHeap
  <1>16. z.tag[pos].size = r /\ Steady(h0, z, A \ {p}) BY <1>10, <1>14 DEF Steady
  <1> QED BY <1>10, <1>14, <1>15, <1>16 DEF Led

-----------------------------------------------------------------------------
(* Alignments.                                                             *)

(* Rounding up to a multiple.                                              *)
RoundsUp(u, x, al) == u \in Nat /\ x <= u /\ u < x + al /\ \E k \in Nat : u = k * al

(* AlignUp rounds up to a multiple.                                        *)
LEMMA AlignUpFacts ==
    ASSUME NEW al \in Nat, al > 0, NEW x \in Nat, NEW u, u = AlignUp(x, al)
    PROVE  RoundsUp(u, x, al)
  <1>1. PICK y : y = x + al - 1 OBVIOUS
  <1>2. y \in Nat BY <1>1
  <1>3. PICK k, r : k = y \div al /\ r = y % al OBVIOUS
  <1>4. y = k * al + r /\ r \in 0 .. al - 1 /\ k \in Nat BY <1>2, <1>3, SMT
  <1>5. PICK m : m = k * al OBVIOUS
  <1>6. m \in Nat BY <1>4, <1>5, SMT
  <1>7. AlignUp(x, al) = m BY <1>1, <1>3, <1>5 DEF AlignUp
  <1>8. y = m + r BY <1>4, <1>5
  <1>9. x <= m /\ m < x + al BY <1>1, <1>4, <1>6, <1>8
  <1> QED BY <1>4, <1>5, <1>6, <1>7, <1>9 DEF RoundsUp

(* A multiple of a multiple of four is one of four.                        *)
LEMMA MultipleOfFour ==
    ASSUME NEW al \in Nat, al % 4 = 0, NEW k \in Nat
    PROVE  (k * al) % 4 = 0
  <1>1. PICK j \in Nat : al = 4 * j
    <2>1. al \div 4 \in Nat /\ al = 4 * (al \div 4) BY SMT
    <2> QED BY <2>1
  <1>2. k * al = 4 * (k * j) /\ k * j \in Nat BY <1>1, SMT
  <1>3. PICK y, z : y = k * j /\ z = k * al OBVIOUS
  <1>4. y \in Nat /\ z = 4 * y BY <1>2, <1>3
  <1>5. z % 4 = 0 BY <1>4, SMT
  <1> QED BY <1>3, <1>5

(* A multiple leaves no remainder.                                         *)
LEMMA MultipleOf ==
    ASSUME NEW al \in Nat, al > 0, NEW k \in Nat
    PROVE  (k * al) % al = 0
  BY SMT

(* A power of two above four is a multiple of four.                        *)
LEMMA PowerOfTwoFacts ==
    ASSUME NEW x \in Nat, x > 4, PowerOfTwo(x)
    PROVE  x % 4 = 0
  <1>1. \A d \in 1 .. x : x % d = 0 => d = 1 \/ d % 2 = 0 BY DEF PowerOfTwo
  <1>2. x % 2 = 0
    <2>1. x % x = 0 BY SMT
    <2>2. x \in 1 .. x /\ x # 1 OBVIOUS
    <2> QED BY <1>1, <2>1, <2>2
  <1>3. PICK m \in Nat : x = 2 * m
    <2>1. x \div 2 \in Nat /\ x = 2 * (x \div 2) BY <1>2, SMT
    <2> QED BY <2>1
  <1>4. m > 2 /\ m \in 1 .. x BY <1>3
  <1>5. x % m = 0 BY <1>3, <1>4, SMT
  <1>6. m % 2 = 0 BY <1>1, <1>4, <1>5
  <1> QED BY <1>3, <1>6, SMT

(* Twice a power of two is one.                                            *)
LEMMA PowerOfTwoDoubles ==
    ASSUME NEW x \in Nat, x > 0, PowerOfTwo(x)
    PROVE  PowerOfTwo(2 * x)
  <1> SUFFICES ASSUME NEW d \in 1 .. 2 * x, (2 * x) % d = 0, d % 2 # 0, d # 1
               PROVE  FALSE
    BY DEF PowerOfTwo
  <1>1. \A c \in 1 .. x : x % c = 0 => c = 1 \/ c % 2 = 0 BY DEF PowerOfTwo
  <1>2. PICK n : n = 2 * x OBVIOUS
  <1>3. n \in Nat /\ d \in Nat /\ d > 0 /\ n % d = 0 BY <1>2
  <1>4. PICK k : k = n \div d OBVIOUS
  <1>5. n = k * d /\ k \in Nat BY <1>3, <1>4, SMT
  <1>6. PICK c \in Nat : d = 2 * c + 1
    <2>1. d % 2 = 1 /\ d \div 2 \in Nat /\ d = 2 * (d \div 2) + (d % 2) BY <1>3, SMT
    <2> QED BY <2>1
  <1>7. n = 2 * (k * c) + k /\ k * c \in Nat BY <1>5, <1>6, SMT
  <1>8. PICK b : b = k * c OBVIOUS
  <1>9. k = 2 * (x - b) /\ b \in Nat /\ x - b \in Int BY <1>2, <1>5, <1>7, <1>8
  <1>10. PICK j : j = x - b OBVIOUS
  <1>11. j \in Nat /\ k = 2 * j BY <1>5, <1>9, <1>10
  <1>12. 2 * x = 2 * (j * d) /\ j * d \in Nat BY <1>2, <1>3, <1>5, <1>11, SMT
  <1>13. x = j * d BY <1>12
  <1>14. x % d = 0 BY <1>3, <1>11, <1>13, SMT
  <1>15. d <= x
    <2>1. j >= 1
      <3>1. j = 0 => j * d = 0 BY <1>3, SMT
      <3> QED BY <1>11, <1>13, <3>1
    <2>2. PICK i \in Nat : j = i + 1
      <3>1. j - 1 \in Nat /\ j = (j - 1) + 1 BY <1>11, <2>1
      <3> QED BY <3>1
    <2>3. j * d = i * d + d /\ i * d \in Nat BY <1>3, <2>2, SMT
    <2> QED BY <1>3, <1>13, <2>3
  <1>16. d \in 1 .. x BY <1>3, <1>15
  <1> QED BY <1>1, <1>14, <1>16

(* There is one between any number and its double.                         *)
LEMMA PowerOfTwoBetween ==
    ASSUME NEW a \in Nat, a > 0
    PROVE  \E x \in a .. 2 * a : PowerOfTwo(x)
  <1> DEFINE P(n) == \E x \in n .. 2 * n : PowerOfTwo(x)
  <1> SUFFICES ASSUME ~P(a) PROVE FALSE OBVIOUS
  <1>1. PICK T : T = {n \in Nat : n > 0 /\ ~P(n)} OBVIOUS
  <1>2. a \in T /\ T \in SUBSET Nat BY <1>1
  <1>3. PICK n \in T : \A y \in T : n <= y
    <2>1. T # {} BY <1>2
    <2> QED BY <1>2, <2>1, LeastNatural
  <1>4. n \in Nat /\ n > 0 /\ ~P(n) BY <1>1, <1>3
  <1>5. n # 1
    <2>1. PowerOfTwo(1)
      <3>1. \A d \in 1 .. 1 : d = 1 OBVIOUS
      <3> QED BY <3>1 DEF PowerOfTwo
    <2>2. 1 \in 1 .. 2 * 1 OBVIOUS
    <2>3. P(1) BY <2>1, <2>2
    <2> QED BY <1>4, <2>3
  <1>6. PICK b \in Nat : b > 0 /\ b < n /\ n <= 2 * b /\ 2 * b <= n + 1
    <2>1. (n + 1) \div 2 \in Nat /\ n <= 2 * ((n + 1) \div 2) /\ 2 * ((n + 1) \div 2) <= n + 1
      BY <1>4, SMT
    <2>2. PICK b : b = (n + 1) \div 2 OBVIOUS
    <2>3. b \in Nat /\ n <= 2 * b /\ 2 * b <= n + 1 BY <2>1, <2>2
    <2>4. b > 0 /\ b < n BY <1>4, <1>5, <2>3
    <2> QED BY <2>3, <2>4
  <1>7. P(b)
    <2>1. b \notin T BY <1>3, <1>4, <1>6
    <2> QED BY <1>1, <1>6, <2>1
  <1>8. PICK x \in b .. 2 * b : PowerOfTwo(x) BY <1>7
  <1>9. x \in Nat /\ x > 0 BY <1>6
  <1>10. CASE x >= n
    <2>1. x \in n .. 2 * n BY <1>4, <1>6, <1>9, <1>10
    <2> QED BY <1>4, <1>8, <2>1
  <1>11. CASE x < n
    <2>1. PowerOfTwo(2 * x) BY <1>8, <1>9, PowerOfTwoDoubles
    <2>2. 2 * x \in n .. 2 * n BY <1>4, <1>6, <1>9, <1>11
    <2> QED BY <1>4, <2>1, <2>2
  <1> QED BY <1>4, <1>9, <1>10, <1>11

(* memalign rounds an alignment up to one of four words or more.           *)
LEMMA AlignmentFacts ==
    ASSUME NEW a \in Nat, a > MallocAlignment
    PROVE  /\ RoundedAlignment(a) \in Nat /\ RoundedAlignment(a) >= a
           /\ RoundedAlignment(a) % 4 = 0 /\ RoundedAlignment(a) > 4
  <1>1. PICK T : T = {x \in a .. 2 * a : PowerOfTwo(x)} OBVIOUS
  <1>2. T # {} /\ T \in SUBSET Nat
    <2>1. a > 0 BY DEF MallocAlignment
    <2>2. \E x \in a .. 2 * a : PowerOfTwo(x) BY <2>1, PowerOfTwoBetween
    <2> QED BY <1>1, <2>2
  <1>3. PICK m : m = Min(T) OBVIOUS
  <1>4. m \in T BY <1>2, <1>3, LeastElement
  <1>5. m \in Nat /\ m >= a /\ PowerOfTwo(m) BY <1>1, <1>4
  <1>6. m > 4 BY <1>5 DEF MallocAlignment
  <1>7. m % 4 = 0 BY <1>5, <1>6, PowerOfTwoFacts
  <1>8. RoundedAlignment(a) = m BY <1>1, <1>3 DEF RoundedAlignment
  <1> QED BY <1>5, <1>6, <1>7, <1>8

(* Chunk addresses are aligned to four words, so an aligned block is never *)
(* too close to the chunk it is cut from.                                  *)
LEMMA MemalignPlace ==
    ASSUME NEW p \in Nat, p % 4 = 2, NEW al \in Nat, al > 4, al % 4 = 0,
           NEW pos, pos = AlignedPosition(p, al)
    PROVE  /\ pos \in Nat /\ p <= pos /\ pos < p + al /\ pos % 4 = 2
           /\ Chunk2Mem(pos) % al = 0
  <1>1. PICK x, u : x = Chunk2Mem(p) /\ u = AlignUp(x, al) OBVIOUS
  <1>2. x \in Nat /\ x = p + 2 BY <1>1 DEF Chunk2Mem
  <1>3. /\ u \in Nat /\ x <= u /\ u < x + al /\ \E k \in Nat : u = k * al
    <2>1. al > 0 OBVIOUS
    <2>2. RoundsUp(u, x, al) BY <1>1, <1>2, <2>1, AlignUpFacts
    <2> QED BY <2>2 DEF RoundsUp
  <1>4. PICK k \in Nat : u = k * al BY <1>3
  <1>5. u % 4 = 0 /\ u % al = 0
    <2>1. (k * al) % 4 = 0 BY MultipleOfFour
    <2>2. al > 0 OBVIOUS
    <2>3. (k * al) % al = 0 BY <2>2, MultipleOf
    <2> QED BY <1>4, <2>1, <2>3
  <1>6. PICK br : br = Mem2Chunk(u) OBVIOUS
  <1>7. br \in Nat /\ br = u - 2 /\ p <= br /\ br < p + al BY <1>2, <1>3, <1>6 DEF Mem2Chunk
  <1>8. br % 4 = 2 BY <1>2, <1>3, <1>5, <1>7, SMT
  <1>9. br = p \/ br - p >= 4 BY <1>7, <1>8, SMT
  <1>10. pos = br
    <2>1. br = p \/ br - p >= MinChunkSize BY <1>9 DEF MinChunkSize
    <2>2. pos = IF br = p \/ br - p >= MinChunkSize THEN br ELSE br + al
      BY <1>1, <1>6 DEF AlignedPosition
    <2> QED BY <2>1, <2>2
  <1>11. Chunk2Mem(pos) = u BY <1>3, <1>7, <1>10 DEF Chunk2Mem
  <1> QED BY <1>5, <1>7, <1>8, <1>10, <1>11

(* The block pos, cut out of the chunk p, has nb words at least.           *)
Placed(h0, g, F, S, A, p, pos, nb) ==
    /\ SameHeap(h0, g) /\ FakeAt(g) = F /\ Whole(g, F, S, (A \ {p}) \cup {pos})
    /\ g.tag[pos].size \in Nat /\ g.tag[pos].size >= nb
    /\ Steady(h0, g, A \ {p})
    /\ pos = p \/ pos \notin A

(* memalign's block stands at the aligned place: the leader given back,    *)
(* the tail trimmed.                                                       *)
LEMMA MemalignEnds ==
    ASSUME NEW h0, NEW F, NEW S, NEW A, Whole(h0, F, S, A), F = FakeAt(h0),
           NEW p \in A, NEW nb \in Nat, nb > 0, nb % 4 = 0,
           NEW pos \in Nat, p <= pos, pos % 4 = 2,
           NEW lead, lead = pos - p, NEW s, s = h0.tag[p].size - lead, nb <= s,
           NEW based, based = IF lead = 0 THEN h0
                              ELSE Dispose(SetInuse(SetInuse(h0, pos, s), p, lead), p, lead)
    PROVE  Placed(h0, IF s > nb + MinChunkSize THEN TrimTo(based, pos, s, nb) ELSE based,
                  F, S, A, p, pos, nb)
  <1>1. Known(h0, F, S, A) BY WholeFacts
  <1>2. PICK t, e : t = h0.tag /\ e = p + h0.tag[p].size OBVIOUS
  <1>3. Shape(t, F, S) /\ UsedAt(t, F, p) /\ State(h0) BY <1>1, <1>2 DEF Known
  <1>4. OneChunk(t, F, p, e) BY <1>2, <1>3, ChunkStretch DEF UsedAt
  <1>5. p \in Nat /\ t[p].size \in Nat /\ e = p + t[p].size /\ s = t[p].size - lead
    BY <1>2, <1>4 DEF OneChunk
  <1>6. lead \in Nat /\ s \in Nat
    <2>1. lead \in Nat BY <1>5
    <2>2. s \in Int BY <1>5, <2>1
    <2> QED BY <2>1, <2>2
  <1>7. PICK B : B = (A \ {p}) \cup {pos} OBVIOUS
  <1>8. /\ SameHeap(h0, based) /\ FakeAt(based) = F /\ Whole(based, F, S, B)
        /\ based.tag[pos].size = s /\ Steady(h0, based, A \ {p})
        /\ pos = p \/ pos \notin A
    <2>1. CASE lead = 0
      <3>1. pos = p /\ based = h0 /\ s = t[p].size BY <1>5, <2>1
      <3>2. B = A BY <1>7, <3>1
      <3>3. SameHeap(h0, h0) /\ Steady(h0, h0, A \ {p}) BY <1>3 DEF SameHeap, Steady
      <3> QED BY <1>2, <3>1, <3>2, <3>3
    <2>2. CASE lead # 0
      <3>1. p < pos BY <1>5, <1>6, <2>2
      <3>2. PICK z : z = h0.tag[p].size OBVIOUS
      <3>3. z \in Nat /\ s = z - lead /\ pos < p + z BY <1>2, <1>5, <1>6, <3>2
      <3>4. based = Dispose(SetInuse(SetInuse(h0, pos, s), p, lead), p, lead) BY <2>2
      <3>5. /\ SameHeap(h0, based) /\ FakeAt(based) = F /\ Whole(based, F, S, (A \ {p}) \cup {pos})
            /\ based.tag[pos].size = s /\ pos \notin A /\ Steady(h0, based, A \ {p})
        <4>1. Led(h0, based, F, S, A, p, pos, s) BY <3>1, <3>2, <3>3, <3>4, LeaderGiven, SMTT(60)
        <4> QED BY <4>1 DEF Led
      <3> QED BY <1>7, <3>5
    <2> QED BY <2>1, <2>2
  <1>9. CASE s > nb + MinChunkSize
    <2>1. PICK g : g = TrimTo(based, pos, s, nb) OBVIOUS
    <2>2. Resized(based, g, F, S, B, pos, nb)
      <3>1. pos \in B BY <1>7
      <3> QED BY <1>8, <2>1, <3>1, ShrinkResizes
    <2>3. /\ SameHeap(based, g) /\ FakeAt(g) = F /\ Whole(g, F, S, B)
          /\ g.tag[pos].size \in Nat /\ g.tag[pos].size >= nb /\ Steady(based, g, B \ {pos})
      BY <2>2 DEF Resized
    <2>4. SameHeap(h0, g) BY <1>8, <2>3, SMTT(60) DEF SameHeap
    <2>5. Steady(h0, g, A \ {p})
      <3>1. A \ {p} \subseteq B \ {pos} BY <1>7, <1>8
      <3> QED BY <1>8, <2>3, <3>1 DEF Steady
    <2> QED BY <1>7, <1>8, <1>9, <2>1, <2>3, <2>4, <2>5 DEF Placed
  <1>10. CASE ~(s > nb + MinChunkSize)
    BY <1>6, <1>7, <1>8, <1>10 DEF Placed
  <1> QED BY <1>9, <1>10
=============================================================================
