-------------------------- MODULE DlMallocProofs ---------------------------
(***************************************************************************)
(* The chunk layer's invariant, proved.  New memory (init_top,             *)
(* add_segment) keeps the heap whole; with the callers' blocks that gives  *)
(* the inductive invariant HeapIInv, which every step preserves (Steps);   *)
(* the run's invariants follow from it.                                    *)
(***************************************************************************)
EXTENDS ChunkProofs

LOCAL INSTANCE SequencesExt
LOCAL INSTANCE FiniteSetsExt

-----------------------------------------------------------------------------
(* init_top.                                                               *)

(* Top has been laid from p up to the fake chunk at G.                     *)
TopLaid(h, g, p, G) ==
    /\ SameButTags(h, g) /\ Tagged(g)
    /\ DOMAIN g.tag = {p, G} \cup {x \in DOMAIN h.tag : x < p}
    /\ \A x \in DOMAIN h.tag : x < p => g.tag[x] = h.tag[x]
    /\ g.tag[p].size = G - p /\ g.tag[p].pinuse = TRUE /\ g.tag[p].cinuse = FALSE
    /\ g.tag[G].size = 14 /\ g.tag[G].pinuse = FALSE /\ g.tag[G].cinuse = FALSE

(* init_top lays top from its place up to the fake chunk.                  *)
LEMMA InitTopFacts ==
    ASSUME NEW h, Tagged(h), NEW p \in Nat, p = h.top, NEW n \in Nat, n = h.topsize, n >= 4,
           NEW G, G = p + n, \A x \in DOMAIN h.tag : x < G
    PROVE  TopLaid(h, InitTop(h), p, G)
  <1>1. PICK a, b, s : a = TRUE /\ b = FALSE /\ s = 14 OBVIOUS
  <1>2. TopFootSize = s BY <1>1, Layout
  <1>3. PICK k, g : k = Lay(h, p, n, a, b) /\ g = Lay(k, G, s, b, b) OBVIOUS
  <1>4. InitTop(h) = g BY <1>1, <1>2, <1>3 DEF InitTop
  <1>5. a \in BOOLEAN /\ b \in BOOLEAN /\ s \in Int /\ n \in Int /\ G \in Nat /\ p < G /\ s > 0
    <2>1. a \in BOOLEAN /\ b \in BOOLEAN BY <1>1
    <2>2. s \in Int /\ s > 0 BY <1>1
    <2>3. n \in Int /\ G \in Nat /\ p < G OBVIOUS
    <2> QED BY <2>1, <2>2, <2>3
  <1>6. LaidAt(h, k, p, n, a, b) BY <1>3, <1>5, LayFacts
  <1>7. /\ SameButTags(h, k) /\ Tagged(k)
        /\ DOMAIN k.tag = {p} \cup {x \in DOMAIN h.tag : x < p \/ x >= p + n}
        /\ \A x \in DOMAIN k.tag : x # p => k.tag[x] = h.tag[x]
        /\ k.tag[p].size = n /\ k.tag[p].pinuse = a /\ k.tag[p].cinuse = b
    BY <1>6 DEF LaidAt
  <1>8. LaidAt(k, g, G, s, b, b) BY <1>3, <1>5, <1>7, LayFacts
  <1>9. /\ SameButTags(k, g) /\ Tagged(g)
        /\ DOMAIN g.tag = {G} \cup {x \in DOMAIN k.tag : x < G \/ x >= G + s}
        /\ \A x \in DOMAIN g.tag : x # G => g.tag[x] = k.tag[x]
        /\ g.tag[G].size = s /\ g.tag[G].pinuse = b /\ g.tag[G].cinuse = b
    BY <1>8 DEF LaidAt
  <1>10. DOMAIN h.tag \subseteq Nat BY DEF Tagged
  <1>11. DOMAIN k.tag = {p} \cup {x \in DOMAIN h.tag : x < p} BY <1>5, <1>7, <1>10
  <1>12. DOMAIN g.tag = {p, G} \cup {x \in DOMAIN h.tag : x < p} BY <1>5, <1>9, <1>10, <1>11
  <1>13. \A x \in DOMAIN h.tag : x < p => g.tag[x] = h.tag[x] BY <1>5, <1>7, <1>9, <1>10, <1>11, <1>12
  <1>14. g.tag[p] = k.tag[p] BY <1>5, <1>9, <1>12
  <1>15. n = G - p BY <1>5
  <1>16. SameButTags(h, g) BY <1>7, <1>9 DEF SameButTags
  <1> QED BY <1>1, <1>4, <1>7, <1>9, <1>12, <1>13, <1>14, <1>15, <1>16 DEF TopLaid

-----------------------------------------------------------------------------
(* Headers of a heap whose memory has grown.                               *)

(* The end of a heap in the memory, which may still grow.                  *)
EndsAt(p, G) ==
    /\ p \in Nat /\ G \in Nat /\ p + 4 <= G /\ p % 4 = 2 /\ G % 4 = 2 /\ HeapBase + 2 <= p
    /\ G + 14 <= MaxPages * PageWords

(* Arithmetic of a place for top.                                          *)
LEMMA EndFacts ==
    ASSUME NEW p, NEW G, EndsAt(p, G)
    PROVE  /\ G - p \in 1 .. AddrWords /\ G - p \in Nat /\ (G - p) % 4 = 0 /\ G - p >= 4
           /\ G - p \in BinSizes
           /\ 14 \in 1 .. AddrWords /\ TopFootSize = 14 /\ p < G
  <1>1. MaxPages * PageWords \in Nat /\ MaxPages * PageWords <= AddrWords
    BY MemoryAssumption, MemoryEnd
  <1>2. PICK n : n = G - p OBVIOUS
  <1>3. n \in Nat /\ n >= 4 /\ n <= MaxPages * PageWords BY <1>1, <1>2 DEF EndsAt
  <1>4. n % 4 = 0 BY <1>2, SMT DEF EndsAt
  <1>5. n \in BinSizes /\ n \in 1 .. AddrWords BY <1>3, <1>4, SizeFacts
  <1>6. AddrWords \in Nat /\ 14 <= AddrWords BY AddrWordsFacts, PageAssumption
  <1> QED BY <1>2, <1>3, <1>4, <1>5, <1>6, Layout DEF EndsAt

(* The headers of a new heap: one chunk.                                   *)
OneShape(u, G, p) == Shape(u, G, {p}) /\ \A q : IsChunk(u, G, q) <=> q = p

(* Top and the fake chunk alone have the shape of headers.                 *)
LEMMA FirstShape ==
    ASSUME NEW u, NEW p, NEW G, EndsAt(p, G), u \in [{p, G} -> AnyTag],
           u[p].size = G - p, u[p].pinuse = TRUE, u[p].cinuse = FALSE,
           u[G].size = 14, u[G].pinuse = FALSE, u[G].cinuse = FALSE
    PROVE  OneShape(u, G, p)
  <1>1. /\ G - p \in 1 .. AddrWords /\ G - p \in Nat /\ (G - p) % 4 = 0 /\ G - p >= 4
        /\ 14 \in 1 .. AddrWords /\ TopFootSize = 14 /\ p < G
    BY EndFacts
  <1>2. /\ p \in Nat /\ G \in Nat /\ p + 4 <= G /\ p % 4 = 2 /\ HeapBase + 2 <= p
        /\ G + 14 <= MaxPages * PageWords /\ HeapBase \in Nat
    BY HeapAssumption DEF EndsAt
  <1>3. PICK n : n = G - p OBVIOUS
  <1>4. n \in 1 .. AddrWords /\ n \in Nat /\ n % 4 = 0 /\ n >= 4 /\ p + n = G /\ n # 1
    BY <1>1, <1>2, <1>3
  <1>5. \A q : IsChunk(u, G, q) <=> q = p BY <1>1, <1>2, <1>3, <1>4 DEF IsChunk
  <1>6. u[p] \in TagType /\ u[G] \in TagType BY <1>1, <1>3, <1>4 DEF AnyTag, TagType
  <1>7. Heads(u, G) BY <1>1, <1>2, <1>3, <1>4, <1>6 DEF Heads
  <1>8. Tiles(u, G) BY <1>2, <1>3, <1>4, <1>5 DEF Tiles
  <1>9. Agree(u, G) BY <1>2, <1>3, <1>4, <1>5 DEF Agree
  <1>10. Backs(u, G) BY DEF Backs
  <1>11. Starts(u, G, {p}) BY <1>2, <1>3, <1>4, <1>5 DEF Starts
  <1> QED BY <1>5, <1>7, <1>8, <1>9, <1>10, <1>11 DEF Shape, OneShape

(* The chunks before top, of a heap that ends at F.                        *)
LastChunk(t, F, p) ==
    /\ p \in Nat /\ F \in Nat /\ p \in DOMAIN t /\ F \in DOMAIN t /\ p < F
    /\ IsChunk(t, F, p) /\ t[p].pinuse = TRUE /\ t[p].cinuse = FALSE
    /\ t[p].size = F - p /\ t[F].pinuse = FALSE
    /\ \A q \in DOMAIN t : q \in Nat /\ (q < p \/ q = p \/ q = F)
    /\ \A q : IsChunk(t, F, q) => q = p \/ (q < p /\ q + t[q].size <= p /\ q + t[q].size \in DOMAIN t)

(* Top is the last chunk before the fake one.                              *)
LEMMA TopIsLast ==
    ASSUME NEW h, NEW F, NEW S, NEW A, Whole(h, F, S, A), F = FakeAt(h), NEW p, p = h.top
    PROVE  LastChunk(h.tag, F, p)
  <1>1. Known(h, F, S, A) BY WholeFacts
  <1>2. PICK t : t = h.tag OBVIOUS
  <1>3. Shape(t, F, S) /\ OneChunk(t, F, p, F) /\ t[p].cinuse = FALSE BY <1>1, <1>2 DEF Known
  <1>4. /\ p \in Nat /\ F \in Nat /\ p < F /\ p \in DOMAIN t /\ F \in DOMAIN t
        /\ t[p].size = F - p /\ t[p].pinuse = TRUE /\ t[F].pinuse = FALSE
        /\ Stretch(t, F, p, F, {p})
    BY <1>3 DEF OneChunk
  <1>5. IsChunk(t, F, p) BY <1>4 DEF Stretch
  <1>6. \A q \in DOMAIN t : q \in Nat /\ q <= F BY <1>3 DEF Shape, Heads
  <1>7. \A q \in DOMAIN t : p < q => p + t[p].size <= q BY <1>3, <1>5 DEF Shape, Tiles
  <1>8. p + t[p].size = F BY <1>4
  <1>9. \A q \in DOMAIN t : q \in Nat /\ (q < p \/ q = p \/ q = F) BY <1>4, <1>6, <1>7, <1>8
  <1>10. ASSUME NEW q, IsChunk(t, F, q), q # p
         PROVE  q < p /\ q + t[q].size <= p /\ q + t[q].size \in DOMAIN t
    <2>1. q \in DOMAIN t /\ q # F BY <1>10 DEF IsChunk
    <2>2. q \in Nat /\ q < p BY <1>9, <1>10, <2>1
    <2> QED BY <1>3, <1>4, <1>10, <2>2 DEF Shape, Tiles
  <1>11. \A q : IsChunk(t, F, q) => q = p \/ (q < p /\ q + t[q].size <= p /\ q + t[q].size \in DOMAIN t)
    BY <1>10
  <1> QED BY <1>2, <1>3, <1>4, <1>5, <1>9, <1>11 DEF LastChunk

(* Top has grown up to G.                                                  *)
Lengthened(t, u, p, G) ==
    /\ u \in [DOMAIN u -> AnyTag]
    /\ DOMAIN u = {p, G} \cup {x \in DOMAIN t : x < p}
    /\ \A x \in DOMAIN t : x < p => u[x] = t[x]
    /\ u[p].size = G - p /\ u[p].pinuse = TRUE /\ u[p].cinuse = FALSE
    /\ u[G].size = 14 /\ u[G].pinuse = FALSE /\ u[G].cinuse = FALSE

(* The chunks before p are the same in t and in u.                         *)
SameBefore(t, F, u, G, p) ==
    \A q : q # p => (IsChunk(t, F, q) <=> IsChunk(u, G, q))

(* Top made longer keeps the shape.                                        *)
LEMMA LongerShape ==
    ASSUME NEW t, NEW F, NEW S, Shape(t, F, S), NEW p, LastChunk(t, F, p),
           NEW G, EndsAt(p, G), F < G, NEW u, Lengthened(t, u, p, G)
    PROVE  Shape(u, G, S) /\ SameBefore(t, F, u, G, p) /\ IsChunk(u, G, p)
  <1>1. /\ G - p \in 1 .. AddrWords /\ G - p \in Nat /\ (G - p) % 4 = 0 /\ G - p >= 4
        /\ 14 \in 1 .. AddrWords /\ TopFootSize = 14 /\ p < G
    BY EndFacts
  <1>2. /\ p \in Nat /\ G \in Nat /\ p % 4 = 2 /\ HeapBase + 2 <= p
        /\ G + 14 <= MaxPages * PageWords /\ HeapBase \in Nat
    BY HeapAssumption DEF EndsAt
  <1>3. PICK n : n = G - p OBVIOUS
  <1>4. n \in 1 .. AddrWords /\ n \in Nat /\ n % 4 = 0 /\ n >= 4 /\ p + n = G /\ n # 1
    BY <1>1, <1>2, <1>3
  <1>5. /\ F \in Nat /\ p \in DOMAIN t /\ F \in DOMAIN t /\ p < F
        /\ IsChunk(t, F, p) /\ t[p].pinuse = TRUE /\ t[p].cinuse = FALSE
        /\ t[p].size = F - p /\ t[F].pinuse = FALSE
        /\ \A q \in DOMAIN t : q \in Nat /\ (q < p \/ q = p \/ q = F)
    BY DEF LastChunk
  <1>6. \A q : IsChunk(t, F, q) => q = p \/ (q < p /\ q + t[q].size <= p /\ q + t[q].size \in DOMAIN t)
    BY DEF LastChunk
  <1>7. /\ \A x \in DOMAIN u : u[x] \in AnyTag
        /\ DOMAIN u = {p, G} \cup {x \in DOMAIN t : x < p}
        /\ \A x \in DOMAIN t : x < p => u[x] = t[x]
        /\ u[p].size = n /\ u[p].pinuse = TRUE /\ u[p].cinuse = FALSE
        /\ u[G].size = 14 /\ u[G].pinuse = FALSE /\ u[G].cinuse = FALSE
    BY <1>3 DEF Lengthened
  <1>8. \A q \in DOMAIN t : t[q] \in TagType /\ HeapBase + 2 <= q BY DEF Shape, Heads
  <1>9. IsChunk(u, G, p) BY <1>1, <1>2, <1>4, <1>7 DEF IsChunk
  <1>10. ASSUME NEW q, q # p PROVE IsChunk(t, F, q) <=> IsChunk(u, G, q)
    <2>1. ASSUME IsChunk(t, F, q) PROVE IsChunk(u, G, q)
      <3>1. q \in DOMAIN t /\ q < p /\ t[q].size # 1 BY <1>6, <1>10, <2>1 DEF IsChunk
      <3>2. q \in Nat /\ q \in DOMAIN u /\ u[q] = t[q] BY <1>5, <1>7, <3>1
      <3> QED BY <1>1, <1>2, <3>1, <3>2 DEF IsChunk
    <2>2. ASSUME IsChunk(u, G, q) PROVE IsChunk(t, F, q)
      <3>1. q \in DOMAIN t /\ q < p /\ u[q].size # 1 BY <1>7, <1>10, <2>2 DEF IsChunk
      <3>2. q \in Nat /\ u[q] = t[q] BY <1>5, <1>7, <3>1
      <3> QED BY <1>5, <3>1, <3>2 DEF IsChunk
    <2> QED BY <2>1, <2>2
  <1>11. ASSUME NEW q, IsChunk(u, G, q), q # p
         PROVE  /\ q \in Nat /\ q < p /\ u[q] = t[q] /\ IsChunk(t, F, q)
                /\ q + t[q].size \in Nat /\ q + t[q].size <= p /\ q + t[q].size \in DOMAIN t
                /\ u[q + t[q].size].pinuse = t[q + t[q].size].pinuse
                /\ q + t[q].size \in DOMAIN u
    <2>1. IsChunk(t, F, q) BY <1>10, <1>11
    <2>2. q < p /\ q + t[q].size <= p /\ q + t[q].size \in DOMAIN t /\ q \in DOMAIN t
      BY <1>6, <1>11, <2>1 DEF IsChunk
    <2>3. q \in Nat /\ u[q] = t[q] /\ q + t[q].size \in Nat BY <1>5, <1>7, <2>2
    <2>4. PICK z : z = q + t[q].size OBVIOUS
    <2>5. z \in DOMAIN u /\ u[z].pinuse = t[z].pinuse
      <3>1. CASE z = p BY <1>5, <1>7, <3>1
      <3>2. CASE z # p
        <4>1. z < p BY <1>2, <2>2, <2>3, <2>4, <3>2
        <4> QED BY <1>7, <2>2, <2>4, <4>1
      <3> QED BY <3>1, <3>2
    <2> QED BY <2>1, <2>2, <2>3, <2>4, <2>5
  <1>12. Heads(u, G)
    <2>1. \A q \in DOMAIN u : q \in Nat /\ HeapBase + 2 <= q /\ q <= G /\ u[q] \in TagType
      <3> SUFFICES ASSUME NEW q \in DOMAIN u
                   PROVE  q \in Nat /\ HeapBase + 2 <= q /\ q <= G /\ u[q] \in TagType
        OBVIOUS
      <3>1. CASE q = p BY <1>1, <1>2, <1>4, <1>7, <3>1 DEF AnyTag, TagType
      <3>2. CASE q = G BY <1>1, <1>2, <1>7, <3>2 DEF AnyTag, TagType
      <3>3. CASE q \in DOMAIN t /\ q < p
        <4>1. u[q] = t[q] /\ t[q] \in TagType /\ q \in Nat /\ HeapBase + 2 <= q
          BY <1>5, <1>7, <1>8, <3>3
        <4> QED BY <1>1, <1>2, <3>3, <4>1
      <3> QED BY <1>7, <3>1, <3>2, <3>3
    <2>2. \A q \in DOMAIN u : u[q].size = 1 => u[q].cinuse = TRUE
      <3>1. \A q \in DOMAIN t : t[q].size = 1 => t[q].cinuse = TRUE BY DEF Shape, Heads
      <3> QED BY <1>4, <1>7, <3>1
    <2> QED BY <1>1, <1>2, <1>7, <2>1, <2>2 DEF Heads
  <1>13. Tiles(u, G)
    <2> SUFFICES ASSUME NEW q, IsChunk(u, G, q)
                 PROVE  /\ q % 4 = 2 /\ u[q].size % 4 = 0 /\ u[q].size >= 4
                        /\ q + u[q].size \in DOMAIN u
                        /\ \A x \in DOMAIN u : q < x => q + u[q].size <= x
      BY DEF Tiles
    <2>1. CASE q = p
      <3>1. q + u[q].size = G BY <1>4, <1>7, <2>1
      <3>2. \A x \in DOMAIN u : p < x => x = G BY <1>2, <1>5, <1>7
      <3> QED BY <1>2, <1>4, <1>7, <2>1, <3>1, <3>2
    <2>2. CASE q # p
      <3>1. /\ q \in Nat /\ q < p /\ u[q] = t[q] /\ IsChunk(t, F, q)
            /\ q + t[q].size \in Nat /\ q + t[q].size <= p /\ q + t[q].size \in DOMAIN u
        BY <1>11, <2>2
      <3>2. q % 4 = 2 /\ t[q].size % 4 = 0 /\ t[q].size >= 4
            /\ \A x \in DOMAIN t : q < x => q + t[q].size <= x
        BY <3>1 DEF Shape, Tiles
      <3>3. \A x \in DOMAIN u : q < x => q + t[q].size <= x
        BY <1>1, <1>2, <1>7, <3>1, <3>2
      <3> QED BY <3>1, <3>2, <3>3
    <2> QED BY <2>1, <2>2
  <1>14. Agree(u, G)
    <2> SUFFICES ASSUME NEW q, IsChunk(u, G, q)
                 PROVE  /\ u[q + u[q].size].pinuse = u[q].cinuse
                        /\ u[q].cinuse = FALSE => u[q].pinuse = TRUE
      BY DEF Agree
    <2>1. CASE q = p
      <3>1. q + u[q].size = G BY <1>4, <1>7, <2>1
      <3> QED BY <1>7, <2>1, <3>1
    <2>2. CASE q # p
      <3>1. /\ u[q] = t[q] /\ IsChunk(t, F, q)
            /\ u[q + t[q].size].pinuse = t[q + t[q].size].pinuse
        BY <1>11, <2>2
      <3> QED BY <3>1 DEF Shape, Agree
    <2> QED BY <2>1, <2>2
  <1>15. Backs(u, G)
    <2> SUFFICES ASSUME NEW q \in DOMAIN u \ {G}, u[q].pinuse = FALSE
                 PROVE  \E y : /\ IsChunk(u, G, y) /\ u[y].cinuse = FALSE
                               /\ y + u[y].size = q /\ u[q].prevFoot = u[y].size
      BY DEF Backs
    <2>1. q # p BY <1>7
    <2>2. q \in DOMAIN t /\ q < p /\ u[q] = t[q] /\ q # F BY <1>2, <1>5, <1>7, <2>1
    <2>3. PICK y : /\ IsChunk(t, F, y) /\ t[y].cinuse = FALSE
                   /\ y + t[y].size = q /\ t[q].prevFoot = t[y].size
      BY <2>2 DEF Shape, Backs
    <2>4. y # p BY <1>5, <2>2, <2>3
    <2>5. IsChunk(u, G, y) BY <1>10, <2>3, <2>4
    <2>6. u[y] = t[y] BY <1>11, <2>4, <2>5
    <2> QED BY <2>2, <2>3, <2>5, <2>6
  <1>16. Starts(u, G, S)
    <2> SUFFICES ASSUME NEW q \in S
                 PROVE  IsChunk(u, G, q) /\ \A y : IsChunk(u, G, y) => y + u[y].size # q
      BY DEF Starts
    <2>1. IsChunk(t, F, q) /\ \A y : IsChunk(t, F, y) => y + t[y].size # q BY DEF Shape, Starts
    <2>2. IsChunk(u, G, q) BY <1>9, <1>10, <2>1
    <2>3. ASSUME NEW y, IsChunk(u, G, y), y + u[y].size = q PROVE FALSE
      <3>1. CASE y = p
        <4>1. q = G BY <1>4, <1>7, <2>3, <3>1
        <4> QED BY <2>2, <4>1 DEF IsChunk
      <3>2. CASE y # p
        <4>1. u[y] = t[y] /\ IsChunk(t, F, y) BY <1>11, <2>3, <3>2
        <4> QED BY <2>1, <2>3, <4>1
      <3> QED BY <3>1, <3>2
    <2> QED BY <2>2, <2>3
  <1>17. SameBefore(t, F, u, G, p) BY <1>10 DEF SameBefore
  <1> QED BY <1>9, <1>12, <1>13, <1>14, <1>15, <1>16, <1>17 DEF Shape

-----------------------------------------------------------------------------
(* Heaps whose memory has grown.                                           *)

(* k has the chunks and the bins of h.                                     *)
SameChunks(h, k) ==
    /\ State(k) /\ k.tag = h.tag /\ k.bins = h.bins /\ k.smallmap = h.smallmap
    /\ k.dv = h.dv /\ k.dvsize = h.dvsize

(* Nothing has been laid, and nothing is free.                             *)
Empty(h) ==
    /\ Tagged(h) /\ BinsOK(h) /\ DOMAIN h.tag = {} /\ \A x, s : ~Filed(h, x, s)
    /\ h.dv = NULL /\ h.dvsize = 0

(* What init_top made of k, which got its top from the system layer: g's   *)
(* chunks end at G.                                                        *)
Opened(k, g, G, S, A) == SameButTags(k, g) /\ FakeAt(g) = G /\ Whole(g, G, S, A)

(* Bins and their marks do not depend on the other fields.                 *)
LEMMA BinsKept ==
    ASSUME NEW h, BinsOK(h), NEW g, State(g), g.bins = h.bins, g.smallmap = h.smallmap
    PROVE  BinsOK(g) /\ \A x, s : Filed(g, x, s) <=> Filed(h, x, s)
  <1>1. BinsOK(g) BY DEF BinsOK
  <1>2. \A x, s : Filed(g, x, s) <=> Filed(h, x, s) BY DEF Filed
  <1> QED BY <1>1, <1>2

(* The first memory of a heap is one free chunk.                           *)
LEMMA FirstWhole ==
    ASSUME NEW k, Empty(k), NEW p, p = k.top, NEW n \in Nat, n = k.topsize, NEW G, G = p + n,
           EndsAt(p, G)
    PROVE  Opened(k, InitTop(k), G, {p}, {})
  <1>1. /\ G - p \in Nat /\ (G - p) % 4 = 0 /\ G - p >= 4 /\ p < G
    BY EndFacts
  <1>2. p \in Nat /\ G \in Nat /\ p + 4 <= G /\ HeapBase + 2 <= p /\ HeapBase \in Nat
    BY HeapAssumption DEF EndsAt
  <1>3. Tagged(k) /\ BinsOK(k) /\ DOMAIN k.tag = {} /\ \A x, s : ~Filed(k, x, s)
        /\ k.dv = NULL /\ k.dvsize = 0
    BY DEF Empty
  <1>4. PICK g : g = InitTop(k) OBVIOUS
  <1>5. n = G - p /\ n >= 4 BY <1>1, <1>2
  <1>6. TopLaid(k, g, p, G) BY <1>2, <1>3, <1>4, <1>5, InitTopFacts
  <1>7. /\ SameButTags(k, g) /\ Tagged(g) /\ DOMAIN g.tag = {p, G}
        /\ g.tag[p].size = G - p /\ g.tag[p].pinuse = TRUE /\ g.tag[p].cinuse = FALSE
        /\ g.tag[G].size = 14 /\ g.tag[G].pinuse = FALSE /\ g.tag[G].cinuse = FALSE
    BY <1>3, <1>6 DEF TopLaid
  <1>8. PICK u : u = g.tag OBVIOUS
  <1>9. u \in [{p, G} -> AnyTag] BY <1>7, <1>8 DEF Tagged
  <1>10. Shape(u, G, {p}) /\ \A q : IsChunk(u, G, q) <=> q = p
    <2>1. /\ u[p].size = G - p /\ u[p].pinuse = TRUE /\ u[p].cinuse = FALSE
          /\ u[G].size = 14 /\ u[G].pinuse = FALSE /\ u[G].cinuse = FALSE
      BY <1>7, <1>8
    <2>2. OneShape(u, G, p) BY <1>9, <2>1, FirstShape
    <2> QED BY <2>2 DEF OneShape
  <1>11. /\ State(g) /\ g.bins = k.bins /\ g.smallmap = k.smallmap /\ g.top = p
         /\ g.topsize = n /\ g.dv = NULL /\ g.dvsize = 0
    BY <1>3, <1>7 DEF SameButTags
  <1>12. BinsOK(g) /\ \A x, s : ~Filed(g, x, s) BY <1>3, <1>11, BinsKept
  <1>13. Owned(u, G, {}) BY <1>7, <1>8, <1>10 DEF Owned, UsedAt
  <1>14. Holds(g, G, {g.top, g.dv}) BY <1>8, <1>10, <1>11, <1>12 DEF Holds, FreeAt
  <1>15. Loose(g, G, {p}, {}, {g.top, g.dv})
    BY <1>7, <1>8, <1>10, <1>12, <1>13, <1>14 DEF Loose
  <1>16. TopOK(g, G) BY <1>5, <1>7, <1>8, <1>10, <1>11 DEF TopOK, FreeAt
  <1>17. DvOK(g, G) BY <1>11 DEF DvOK
  <1>18. FakeAt(g) = G BY <1>11 DEF FakeAt
  <1> QED BY <1>4, <1>7, <1>15, <1>16, <1>17, <1>18 DEF Opened, Whole

(* Appending: top has grown, and nothing else has changed.                 *)
LEMMA AppendWhole ==
    ASSUME NEW h, NEW F, NEW S, NEW A, Whole(h, F, S, A), F = FakeAt(h),
           NEW k, SameChunks(h, k), NEW p, p = h.top, k.top = p, NEW n \in Nat, n = k.topsize,
           NEW G, G = p + n, EndsAt(p, G), F < G
    PROVE  Opened(k, InitTop(k), G, S, A) /\ Steady(h, InitTop(k), A)
  <1>1. Known(h, F, S, A) BY WholeFacts
  <1>2. PICK t : t = h.tag OBVIOUS
  <1>3. LastChunk(t, F, p) BY <1>2, TopIsLast
  <1>4. /\ Loose(h, F, S, A, {h.top, h.dv}) /\ TopOK(h, F) /\ DvOK(h, F) BY DEF Whole
  <1>5. /\ Tagged(h) /\ BinsOK(h) /\ Shape(t, F, S) /\ Owned(t, F, A)
        /\ Holds(h, F, {h.top, h.dv})
    BY <1>2, <1>4 DEF Loose
  <1>6. /\ G - p \in Nat /\ G - p >= 4 /\ p < G
    BY EndFacts
  <1>7. p \in Nat /\ G \in Nat BY DEF EndsAt
  <1>8. /\ F \in Nat /\ p \in DOMAIN t /\ F \in DOMAIN t /\ p < F
        /\ IsChunk(t, F, p) /\ t[p].cinuse = FALSE /\ t[p].size # 1
        /\ \A q \in DOMAIN t : q \in Nat /\ (q < p \/ q = p \/ q = F)
    BY <1>3 DEF LastChunk, IsChunk
  <1>9. \A q : IsChunk(t, F, q) => q = p \/ (q < p /\ q + t[q].size <= p /\ q + t[q].size \in DOMAIN t)
    BY <1>3 DEF LastChunk
  <1>10. /\ State(k) /\ k.tag = t /\ k.bins = h.bins /\ k.smallmap = h.smallmap
         /\ k.dv = h.dv /\ k.dvsize = h.dvsize
    BY <1>2 DEF SameChunks
  <1>11. Tagged(k) BY <1>2, <1>5, <1>10 DEF Tagged
  <1>12. n = G - p /\ n >= 4 BY <1>6, <1>7
  <1>13. \A x \in DOMAIN k.tag : x < G BY <1>7, <1>8, <1>10
  <1>14. PICK g : g = InitTop(k) OBVIOUS
  <1>15. TopLaid(k, g, p, G) BY <1>7, <1>11, <1>12, <1>13, <1>14, InitTopFacts
  <1>16. PICK u : u = g.tag OBVIOUS
  <1>17. SameButTags(k, g) /\ Tagged(g) BY <1>15 DEF TopLaid
  <1>18. u \in [DOMAIN u -> AnyTag] BY <1>16, <1>17 DEF Tagged
  <1>19. Lengthened(t, u, p, G) BY <1>10, <1>15, <1>16, <1>18 DEF TopLaid, Lengthened
  <1>20. Shape(u, G, S) /\ SameBefore(t, F, u, G, p) /\ IsChunk(u, G, p)
    BY <1>3, <1>5, <1>19, LongerShape
  <1>21. \A q : q # p => (IsChunk(t, F, q) <=> IsChunk(u, G, q)) BY <1>20 DEF SameBefore
  <1>22. /\ \A x \in DOMAIN t : x < p => u[x] = t[x]
         /\ u[p].size = G - p /\ u[p].cinuse = FALSE
    BY <1>19 DEF Lengthened
  <1>23. ASSUME NEW q, IsChunk(t, F, q), q # p
         PROVE  /\ u[q] = t[q]
                /\ t[q + t[q].size].size = 1 => u[q + t[q].size].size = 1
    <2>1. q < p /\ q + t[q].size <= p /\ q + t[q].size \in DOMAIN t /\ q \in DOMAIN t
      BY <1>9, <1>23 DEF IsChunk
    <2>2. PICK z : z = q + t[q].size OBVIOUS
    <2>3. z \in Nat /\ z <= p BY <1>8, <2>1, <2>2
    <2>4. ASSUME t[z].size = 1 PROVE u[z].size = 1
      <3>1. z # p BY <1>8, <2>4
      <3>2. z < p BY <1>7, <2>3, <3>1
      <3> QED BY <1>22, <2>1, <2>2, <2>4, <3>2
    <2> QED BY <1>22, <2>1, <2>2, <2>4
  <1>24. Owned(u, G, A)
    <2>1. ASSUME NEW x \in A PROVE UsedAt(u, G, x)
      <3>1. UsedAt(t, F, x) BY <1>5, <2>1 DEF Owned
      <3>2. IsChunk(t, F, x) /\ x # p /\ t[x].cinuse = TRUE BY <1>8, <3>1 DEF UsedAt
      <3> QED BY <1>21, <1>23, <3>2 DEF UsedAt
    <2>2. ASSUME NEW x, UsedAt(u, G, x), x \notin A PROVE u[x + u[x].size].size = 1
      <3>1. IsChunk(u, G, x) /\ x # p /\ u[x].cinuse = TRUE BY <1>22, <2>2 DEF UsedAt
      <3>2. IsChunk(t, F, x) BY <1>21, <3>1
      <3>3. u[x] = t[x] /\ (t[x + t[x].size].size = 1 => u[x + t[x].size].size = 1)
        BY <1>23, <3>1, <3>2
      <3>4. UsedAt(t, F, x) BY <3>1, <3>2, <3>3 DEF UsedAt
      <3>5. t[x + t[x].size].size = 1 BY <1>5, <2>2, <3>4 DEF Owned
      <3> QED BY <3>3, <3>5
    <2> QED BY <2>1, <2>2 DEF Owned
  <1>25. Steady(h, g, A)
    <2>1. ASSUME NEW x \in A PROVE u[x].size = t[x].size
      <3>1. UsedAt(t, F, x) BY <1>5, <2>1 DEF Owned
      <3>2. IsChunk(t, F, x) /\ x # p BY <1>8, <3>1 DEF UsedAt
      <3> QED BY <1>23, <3>2
    <2> QED BY <1>2, <1>16, <2>1 DEF Steady
  <1>26. /\ State(g) /\ g.bins = h.bins /\ g.smallmap = h.smallmap /\ g.top = p
         /\ g.topsize = n /\ g.dv = h.dv /\ g.dvsize = h.dvsize
    BY <1>10, <1>17 DEF SameButTags
  <1>27. BinsOK(g) /\ \A x, s : Filed(g, x, s) <=> Filed(h, x, s) BY <1>5, <1>26, BinsKept
  <1>28. \A x : x # p => (FreeAt(t, F, x) <=> FreeAt(u, G, x))
    BY <1>21, <1>23 DEF FreeAt
  <1>29. \A x : x # p /\ FreeAt(t, F, x) => u[x].size = t[x].size BY <1>23 DEF FreeAt
  <1>30. Holds(g, G, {g.top, g.dv})
    BY <1>2, <1>5, <1>16, <1>26, <1>27, <1>28, <1>29 DEF Holds
  <1>31. Loose(g, G, S, A, {g.top, g.dv})
    BY <1>16, <1>17, <1>20, <1>24, <1>27, <1>30 DEF Loose
  <1>32. TopOK(g, G) BY <1>12, <1>16, <1>20, <1>22, <1>26 DEF TopOK, FreeAt
  <1>33. DvOK(g, G)
    <2>1. CASE h.dvsize = 0 BY <1>4, <1>26, <2>1 DEF DvOK
    <2>2. CASE h.dvsize # 0
      <3>1. FreeAt(t, F, h.dv) /\ h.dv # p /\ t[h.dv].size = h.dvsize
        BY <1>2, <1>4, <2>2 DEF DvOK
      <3>2. FreeAt(u, G, h.dv) /\ u[h.dv].size = h.dvsize BY <1>28, <1>29, <3>1
      <3> QED BY <1>16, <1>26, <2>2, <3>1, <3>2 DEF DvOK
    <2> QED BY <2>1, <2>2
  <1>34. FakeAt(g) = G BY <1>26 DEF FakeAt
  <1> QED BY <1>14, <1>17, <1>25, <1>31, <1>32, <1>33, <1>34 DEF Opened, Whole

-----------------------------------------------------------------------------
(* A new segment.                                                          *)

(* Fenceposts fill the words from lo to hi.                                *)
Fenced(h, g, lo, hi) ==
    /\ SameButTags(h, g) /\ Tagged(g)
    /\ DOMAIN g.tag = (lo .. hi) \cup DOMAIN h.tag
    /\ \A x \in lo .. hi : g.tag[x] = FencePost
    /\ \A x \in DOMAIN h.tag : x \notin lo .. hi => g.tag[x] = h.tag[x]

FenceRow(t, lo, hi) ==
    [x \in (lo .. hi) \cup DOMAIN t |-> IF x \in lo .. hi THEN FencePost ELSE t[x]]

(* The fenceposts fill their row and nothing else.                         *)
LEMMA FenceFacts ==
    ASSUME NEW h, Tagged(h), NEW lo \in Nat, NEW hi \in Nat,
           NEW f, f = FenceRow(h.tag, lo, hi), NEW g, g = [h EXCEPT !.tag = f]
    PROVE  Fenced(h, g, lo, hi)
  <1>0. f = [x \in (lo .. hi) \cup DOMAIN h.tag |->
                          IF x \in lo .. hi THEN FencePost ELSE h.tag[x]]
    BY DEF FenceRow
  <1>1. State(h) /\ h.tag \in [DOMAIN h.tag -> AnyTag] /\ DOMAIN h.tag \subseteq Nat BY DEF Tagged
  <1>2. SameButTags(h, g) /\ g.tag = f BY <1>1 DEF SameButTags, State, Fields
  <1>3. FencePost \in AnyTag BY DEF FencePost, AnyTag
  <1>4. f \in [DOMAIN f -> AnyTag] /\ DOMAIN f \subseteq Nat BY <1>0, <1>1, <1>3
  <1>5. Tagged(g) BY <1>2, <1>4 DEF Tagged, SameButTags
  <1> QED BY <1>0, <1>2, <1>5 DEF Fenced

(* The layout that add_segment's arithmetic comes to, for a top that ends  *)
(* at F: a record of eight words there, and five fenceposts behind it.     *)
SegmentLayout(h, F) ==
    LET oldEnd  == h.seg.base + h.seg.size
        ssize   == PadRequest(SegmentRecordWords)
        rawsp   == oldEnd - (ssize + 4 + (MallocAlignment - 1))
        asp     == rawsp + AlignOffset(Chunk2Mem(rawsp))
    IN  /\ ssize = 8 /\ asp = F /\ (IF asp < h.top + MinChunkSize THEN h.top ELSE asp) = F
        /\ oldEnd - 2 = F + 12

(* Where add_segment puts its record: over the old top, or at the old fake *)
(* chunk.                                                                  *)
LEMMA SegmentLayoutFacts ==
    ASSUME NEW h, NEW F \in Nat, h.seg.base + h.seg.size = F + 14, F % 4 = 2,
           h.top \in Nat, h.top + 4 <= F
    PROVE  SegmentLayout(h, F)
  <1>1. PadRequest(SegmentRecordWords) = 8
    BY DEF PadRequest, SegmentRecordWords, ChunkOverhead, MallocAlignment
  <1>2. F + 14 - (8 + 4 + (4 - 1)) = F - 1 OBVIOUS
  <1>3. AlignOffset(Chunk2Mem(F - 1)) = 1 BY SMTT(60) DEF AlignOffset, Chunk2Mem, MallocAlignment
  <1> QED BY <1>1, <1>2, <1>3 DEF SegmentLayout, MallocAlignment, MinChunkSize

(* AddSegmentTags in those terms.                                          *)
LEMMA AddSegmentSteps ==
    ASSUME NEW h, NEW F \in Nat, SegmentLayout(h, F), NEW e,
           NEW p, p = h.top, p \in Nat, p + 4 <= F, NEW s, s = F - p,
           NEW k, k = InitTop(AddSegment(h, e)),
           NEW l, l = SetSizeAndPinuseOfInuseChunk(k, F, 8),
           NEW f, f = FenceRow(l.tag, F + 8, F + 12),
           NEW m, m = [l EXCEPT !.tag = f]
    PROVE  AddSegmentTags(h, e) = InsertChunk(SetFreeWithPinuse(m, p, s, F), p, s)
  <1>1. s # 0 OBVIOUS
  <1> QED BY <1>1 DEF AddSegmentTags, SegmentLayout, FenceRow

(* The headers after add_segment: the old top p is free, the record of the *)
(* old segment and the fenceposts follow it, and the new top is at nt.     *)
Segmented(t, u, F, p, nt, G) ==
    /\ u \in [DOMAIN u -> AnyTag]
    /\ DOMAIN u = DOMAIN t \cup (F + 8 .. F + 12) \cup {nt, G}
    /\ \A x \in DOMAIN t : x < p => u[x] = t[x]
    /\ u[p].size = F - p /\ u[p].pinuse = TRUE /\ u[p].cinuse = FALSE
    /\ u[F].size = 8 /\ u[F].pinuse = FALSE /\ u[F].cinuse = TRUE /\ u[F].prevFoot = F - p
    /\ \A x \in F + 8 .. F + 12 : u[x].size = 1 /\ u[x].pinuse = TRUE /\ u[x].cinuse = TRUE
    /\ u[nt].size = G - nt /\ u[nt].pinuse = TRUE /\ u[nt].cinuse = FALSE
    /\ u[G].size = 14 /\ u[G].pinuse = FALSE /\ u[G].cinuse = FALSE

(* What add_segment leaves: the old top cut off behind fenceposts, a new   *)
(* top in the new segment.                                                 *)
LEMMA SegmentedFacts ==
    ASSUME NEW h, NEW F \in Nat, Tagged(h), SegmentLayout(h, F),
           NEW p, p = h.top, LastChunk(h.tag, F, p), p + 4 <= F, F - p \in BinSizes,
           NEW nt \in Nat, NEW G, EndsAt(nt, G), F + 14 < nt,
           NEW k0, SameChunks(h, k0), k0.top = nt, NEW n \in Nat, n = k0.topsize, G = nt + n,
           NEW k, k = InitTop(k0),
           NEW l, l = SetSizeAndPinuseOfInuseChunk(k, F, 8),
           NEW f, f = FenceRow(l.tag, F + 8, F + 12),
           NEW m, m = [l EXCEPT !.tag = f], NEW s, s = F - p,
           NEW g, g = SetFreeWithPinuse(m, p, s, F)
    PROVE  SameButTags(k0, g) /\ Tagged(g) /\ Segmented(h.tag, g.tag, F, p, nt, G)
  <1>1. PICK t : t = h.tag OBVIOUS
  <1>2. /\ p \in Nat /\ p \in DOMAIN t /\ F \in DOMAIN t /\ p < F
        /\ t[p].size = F - p /\ t[p].pinuse = TRUE
        /\ \A q \in DOMAIN t : q \in Nat /\ (q < p \/ q = p \/ q = F)
    BY <1>1 DEF LastChunk
  <1>3. nt \in Nat /\ G \in Nat /\ nt + 4 <= G BY DEF EndsAt
  <1>4. n >= 4 /\ n = G - nt BY <1>3
  <1>5. Tagged(k0) /\ k0.tag = t BY <1>1 DEF SameChunks, Tagged
  <1>6. \A x \in DOMAIN k0.tag : x < G /\ x < nt BY <1>2, <1>3, <1>5
  <1>7. TopLaid(k0, k, nt, G) BY <1>3, <1>4, <1>5, <1>6, InitTopFacts
  <1>8. /\ SameButTags(k0, k) /\ Tagged(k)
        /\ DOMAIN k.tag = {nt, G} \cup DOMAIN t
        /\ \A x \in DOMAIN t : k.tag[x] = t[x]
        /\ k.tag[nt].size = G - nt /\ k.tag[nt].pinuse = TRUE /\ k.tag[nt].cinuse = FALSE
        /\ k.tag[G].size = 14 /\ k.tag[G].pinuse = FALSE /\ k.tag[G].cinuse = FALSE
    BY <1>5, <1>6, <1>7 DEF TopLaid
  <1>9. PICK a, b, eight : a = TRUE /\ b = FALSE /\ eight = 8 OBVIOUS
  <1>10. a \in BOOLEAN /\ eight \in Int BY <1>9
  <1>11. l = Lay(k, F, eight, a, a) BY <1>9 DEF SetSizeAndPinuseOfInuseChunk
  <1>12. LaidAt(k, l, F, eight, a, a) BY <1>8, <1>10, <1>11, LayFacts
  <1>13. /\ SameButTags(k, l) /\ Tagged(l)
         /\ DOMAIN l.tag = {F} \cup {x \in DOMAIN k.tag : x < F \/ x >= F + 8}
         /\ \A x \in DOMAIN l.tag : x # F => l.tag[x] = k.tag[x]
         /\ l.tag[F].size = 8 /\ l.tag[F].pinuse = TRUE /\ l.tag[F].cinuse = TRUE
    BY <1>9, <1>12 DEF LaidAt
  <1>14. DOMAIN l.tag = {nt, G} \cup DOMAIN t BY <1>2, <1>3, <1>8, <1>13
  <1>15. PICK lo, hi : lo = F + 8 /\ hi = F + 12 OBVIOUS
  <1>16. lo \in Nat /\ hi \in Nat BY <1>15
  <1>17. f = FenceRow(l.tag, lo, hi) BY <1>15
  <1>18. Fenced(l, m, lo, hi) BY <1>13, <1>16, <1>17, FenceFacts, Zenon
  <1>19. /\ SameButTags(l, m) /\ Tagged(m)
         /\ DOMAIN m.tag = (F + 8 .. F + 12) \cup DOMAIN t \cup {nt, G}
         /\ \A x \in F + 8 .. F + 12 : m.tag[x] = FencePost
         /\ \A x \in DOMAIN t \cup {nt, G} : m.tag[x] = l.tag[x]
    BY <1>2, <1>3, <1>14, <1>15, <1>18 DEF Fenced
  <1>20. p \in DOMAIN m.tag /\ F \in DOMAIN m.tag /\ s \in BinSizes BY <1>2, <1>19
  <1>21. m.tag[p].pinuse = TRUE BY <1>2, <1>8, <1>13, <1>14, <1>19
  <1>22. Retags(m, g, G, p, F, F, FALSE)
    BY <1>2, <1>19, <1>20, <1>21, FreesWholeTelling
  <1>23. PICK u : u = g.tag OBVIOUS
  <1>24. SameButTags(m, g) /\ Tagged(g) /\ Relaid(m.tag, u, G, p, F, F, FALSE)
    BY <1>22, <1>23 DEF Retags
  <1>25. /\ DOMAIN u = {q \in DOMAIN m.tag : q <= p \/ q >= F} \cup {F}
         /\ \A q \in DOMAIN u : q \notin {p, F} => u[q] = m.tag[q]
         /\ u[p].size = F - p /\ u[p].cinuse = FALSE /\ u[p].pinuse = m.tag[p].pinuse
         /\ u[F].size = m.tag[F].size /\ u[F].cinuse = m.tag[F].cinuse /\ u[F].pinuse = FALSE
         /\ F # G => u[F].prevFoot = F - p
    BY <1>24 DEF Relaid, LastOf
  <1>26. DOMAIN u = DOMAIN t \cup (F + 8 .. F + 12) \cup {nt, G}
    BY <1>2, <1>3, <1>19, <1>25
  <1>27. F # G /\ nt \notin {p, F} /\ G \notin {p, F} /\ nt # G /\ F \in DOMAIN t /\ p \in DOMAIN t
    BY <1>2, <1>3
  <1>28. \A x \in DOMAIN t : x < p => u[x] = t[x]
    <2> SUFFICES ASSUME NEW x \in DOMAIN t, x < p PROVE u[x] = t[x] OBVIOUS
    <2>1. x # F /\ x # p BY <1>2
    <2>2. k.tag[x] = t[x] BY <1>8
    <2>3. l.tag[x] = k.tag[x] BY <1>13, <1>14, <2>1
    <2>4. m.tag[x] = l.tag[x] BY <1>19
    <2>5. x \in DOMAIN u BY <1>26
    <2>6. u[x] = m.tag[x] BY <1>25, <2>1, <2>5
    <2> QED BY <2>2, <2>3, <2>4, <2>6
  <1>29. u[nt] = k.tag[nt] /\ u[G] = k.tag[G]
    <2> SUFFICES ASSUME NEW x \in {nt, G} PROVE u[x] = k.tag[x] OBVIOUS
    <2>1. x # F /\ x # p BY <1>27
    <2>3. l.tag[x] = k.tag[x] BY <1>13, <1>14, <2>1
    <2>4. m.tag[x] = l.tag[x] BY <1>19
    <2>5. x \in DOMAIN u BY <1>26
    <2>6. u[x] = m.tag[x] BY <1>25, <2>1, <2>5
    <2> QED BY <2>3, <2>4, <2>6
  <1>30. u[F].size = 8 /\ u[F].cinuse = TRUE BY <1>13, <1>19, <1>25, <1>27
  <1>31. \A x \in F + 8 .. F + 12 : u[x] = FencePost
    <2> SUFFICES ASSUME NEW x \in F + 8 .. F + 12 PROVE u[x] = FencePost OBVIOUS
    <2>1. x \notin {p, F} /\ x \in DOMAIN u BY <1>2, <1>26
    <2> QED BY <1>19, <1>25, <2>1
  <1>32. \A x \in F + 8 .. F + 12 : u[x].size = 1 /\ u[x].pinuse = TRUE /\ u[x].cinuse = TRUE
    BY <1>31 DEF FencePost
  <1>33. u \in [DOMAIN u -> AnyTag] BY <1>23, <1>24 DEF Tagged
  <1>34. u[p].pinuse = TRUE BY <1>21, <1>25
  <1>35. u[F].prevFoot = F - p BY <1>25, <1>27
  <1>36. Segmented(t, u, F, p, nt, G)
    <2>1. u[p].size = F - p /\ u[p].pinuse = TRUE /\ u[p].cinuse = FALSE BY <1>25, <1>34
    <2>2. u[F].pinuse = FALSE BY <1>25
    <2>3. /\ u[nt].size = G - nt /\ u[nt].pinuse = TRUE /\ u[nt].cinuse = FALSE
          /\ u[G].size = 14 /\ u[G].pinuse = FALSE /\ u[G].cinuse = FALSE
      BY <1>8, <1>29
    <2> QED BY <1>26, <1>28, <1>30, <1>32, <1>33, <1>35, <2>1, <2>2, <2>3, Zenon DEF Segmented
  <1>37. SameButTags(k0, g) BY <1>8, <1>13, <1>19, <1>24 DEF SameButTags
  <1> QED BY <1>1, <1>23, <1>24, <1>36, <1>37

-----------------------------------------------------------------------------
(* The chunks of the extended heap: the old ones, the record, the new top. *)
OneMore(t, F, u, G, nt) ==
    \A q : IsChunk(u, G, q) <=> IsChunk(t, F, q) \/ q = F \/ q = nt

(* What an old chunk before top is in the new headers.                     *)
OldChunk(t, F, u, G, p, q) ==
    /\ q \in Nat /\ q < p /\ u[q] = t[q] /\ q \in DOMAIN t
    /\ q + t[q].size \in Nat /\ q + t[q].size <= p /\ q + t[q].size \in DOMAIN t
    /\ u[q + t[q].size].pinuse = t[q + t[q].size].pinuse
    /\ t[q + t[q].size].size = 1 => u[q + t[q].size].size = 1

(* The chunks of the old segments are what they were.                      *)
LEMMA OldChunks ==
    ASSUME NEW t, NEW F, NEW S, Shape(t, F, S), NEW p, LastChunk(t, F, p),
           NEW nt, NEW G, NEW u, Segmented(t, u, F, p, nt, G),
           NEW q, IsChunk(t, F, q), q # p
    PROVE  OldChunk(t, F, u, G, p, q)
  <1>1. /\ p \in Nat /\ F \in Nat /\ p < F /\ t[p].pinuse = TRUE /\ t[p].size # 1
        /\ \A x \in DOMAIN t : x \in Nat
    BY DEF LastChunk, IsChunk
  <1>2. q < p /\ q + t[q].size <= p /\ q + t[q].size \in DOMAIN t /\ q \in DOMAIN t
    BY DEF LastChunk, IsChunk
  <1>3. \A x \in DOMAIN t : x < p => u[x] = t[x] BY DEF Segmented
  <1>4. u[p].pinuse = TRUE BY DEF Segmented
  <1>5. q \in Nat /\ u[q] = t[q] /\ q + t[q].size \in Nat BY <1>1, <1>2, <1>3
  <1>6. PICK z : z = q + t[q].size OBVIOUS
  <1>7. u[z].pinuse = t[z].pinuse /\ (t[z].size = 1 => u[z].size = 1)
    <2>1. CASE z = p BY <1>1, <1>4, <2>1
    <2>2. CASE z # p
      <3>1. z < p BY <1>1, <1>2, <1>5, <1>6, <2>2
      <3> QED BY <1>2, <1>3, <1>6, <3>1
    <2> QED BY <2>1, <2>2
  <1> QED BY <1>2, <1>5, <1>6, <1>7 DEF OldChunk

(* A segment more keeps the shape, with one first chunk more.              *)
LEMMA SegmentShape ==
    ASSUME NEW t, NEW F, NEW S, Shape(t, F, S), NEW p, LastChunk(t, F, p), F % 4 = 2,
           NEW nt, NEW G, EndsAt(nt, G), F + 14 < nt,
           NEW u, Segmented(t, u, F, p, nt, G)
    PROVE  Shape(u, G, S \cup {nt}) /\ OneMore(t, F, u, G, nt)
  <1>1. /\ G - nt \in 1 .. AddrWords /\ G - nt \in Nat /\ (G - nt) % 4 = 0 /\ G - nt >= 4
        /\ 14 \in 1 .. AddrWords /\ TopFootSize = 14 /\ nt < G
    BY EndFacts
  <1>2. /\ nt \in Nat /\ G \in Nat /\ nt % 4 = 2 /\ HeapBase + 2 <= nt
        /\ G + 14 <= MaxPages * PageWords /\ HeapBase \in Nat
    BY HeapAssumption DEF EndsAt
  <1>3. PICK n : n = G - nt OBVIOUS
  <1>4. n \in 1 .. AddrWords /\ n \in Nat /\ n % 4 = 0 /\ n >= 4 /\ nt + n = G /\ n # 1
    BY <1>1, <1>2, <1>3
  <1>5. /\ p \in Nat /\ F \in Nat /\ p \in DOMAIN t /\ F \in DOMAIN t /\ p < F
        /\ IsChunk(t, F, p) /\ t[p].pinuse = TRUE /\ t[p].cinuse = FALSE
        /\ t[p].size = F - p /\ t[p].size # 1
        /\ \A q \in DOMAIN t : q \in Nat /\ (q < p \/ q = p \/ q = F)
    BY DEF LastChunk, IsChunk
  <1>6. PICK s : s = F - p OBVIOUS
  <1>7. s \in Nat /\ p + s = F /\ s # 1 /\ s > 0 BY <1>5, <1>6
  <1>8. \A q \in DOMAIN t : t[q] \in TagType /\ HeapBase + 2 <= q BY DEF Shape, Heads
  <1>9. s \in 1 .. AddrWords BY <1>5, <1>6, <1>8 DEF TagType
  <1>10. s % 4 = 0 /\ s >= 4 /\ p % 4 = 2 BY <1>5, <1>6 DEF Shape, Tiles
  <1>11. /\ \A x \in DOMAIN u : u[x] \in AnyTag
         /\ DOMAIN u = DOMAIN t \cup (F + 8 .. F + 12) \cup {nt, G}
         /\ \A x \in DOMAIN t : x < p => u[x] = t[x]
    BY DEF Segmented
  <1>12. /\ u[p].size = s /\ u[p].pinuse = TRUE /\ u[p].cinuse = FALSE
         /\ u[F].size = 8 /\ u[F].pinuse = FALSE /\ u[F].cinuse = TRUE /\ u[F].prevFoot = s
    BY <1>6 DEF Segmented
  <1>13. \A x \in F + 8 .. F + 12 : u[x].size = 1 /\ u[x].pinuse = TRUE /\ u[x].cinuse = TRUE
    BY DEF Segmented
  <1>14. /\ u[nt].size = n /\ u[nt].pinuse = TRUE /\ u[nt].cinuse = FALSE
         /\ u[G].size = 14 /\ u[G].pinuse = FALSE /\ u[G].cinuse = FALSE
    BY <1>3 DEF Segmented
  <1>15. /\ p \in DOMAIN u /\ F \in DOMAIN u /\ nt \in DOMAIN u /\ G \in DOMAIN u
         /\ F + 8 \in DOMAIN u /\ p # F /\ p # G /\ F # G /\ nt # G /\ nt # F /\ nt # p
    BY <1>1, <1>2, <1>5, <1>11
  <1>16. \A x \in DOMAIN u : \/ x \in DOMAIN t /\ x < p
                             \/ x = p \/ x = F \/ x \in F + 8 .. F + 12 \/ x = nt \/ x = G
    BY <1>5, <1>11
  <1>17. IsChunk(u, G, p) /\ IsChunk(u, G, F) /\ IsChunk(u, G, nt)
    BY <1>4, <1>7, <1>12, <1>14, <1>15 DEF IsChunk
  <1>18. ASSUME NEW q, IsChunk(t, F, q), q # p PROVE OldChunk(t, F, u, G, p, q)
    BY <1>18, OldChunks
  <1>19. ASSUME NEW q PROVE IsChunk(u, G, q) <=> IsChunk(t, F, q) \/ q = F \/ q = nt
    <2>1. ASSUME IsChunk(u, G, q), q # F, q # nt PROVE IsChunk(t, F, q)
      <3>1. q \in DOMAIN u /\ q # G /\ u[q].size # 1 BY <2>1 DEF IsChunk
      <3>2. q \in DOMAIN t /\ (q < p \/ q = p) BY <1>13, <1>16, <2>1, <3>1, <1>5
      <3>3. CASE q = p BY <1>5, <3>3
      <3>4. CASE q < p
        <4>1. t[q].size # 1 BY <1>11, <3>1, <3>2, <3>4
        <4> QED BY <2>1, <3>2, <4>1 DEF IsChunk
      <3> QED BY <3>2, <3>3, <3>4
    <2>2. ASSUME IsChunk(t, F, q), q # p PROVE IsChunk(u, G, q)
      <3>1. OldChunk(t, F, u, G, p, q) BY <1>18, <2>2
      <3>2. q \in DOMAIN t /\ q \in Nat /\ q < p /\ u[q] = t[q] BY <3>1 DEF OldChunk
      <3>3. q \in DOMAIN u BY <1>11, <3>2
      <3>5. q # G BY <1>1, <1>2, <1>5, <3>2
      <3>4. t[q].size # 1 BY <2>2 DEF IsChunk
      <3> QED BY <3>2, <3>3, <3>5, <3>4 DEF IsChunk
    <2> QED BY <1>17, <2>1, <2>2
  <1>20. OneMore(t, F, u, G, nt) BY <1>19 DEF OneMore
  <1>21. Heads(u, G)
    <2>1. \A q \in DOMAIN u : q \in Nat /\ HeapBase + 2 <= q /\ q <= G /\ u[q] \in TagType
      <3> SUFFICES ASSUME NEW q \in DOMAIN u
                   PROVE  q \in Nat /\ HeapBase + 2 <= q /\ q <= G /\ u[q] \in TagType
        OBVIOUS
      <3>1. 1 \in 1 .. AddrWords /\ 8 \in 1 .. AddrWords BY <1>1, AddrWordsFacts
      <3>2. u[q] \in AnyTag BY <1>11
      <3>3. HeapBase + 2 <= p /\ p \in Nat /\ F \in Nat /\ p < F BY <1>5, <1>8
      <3>4. CASE q = p
        <4>1. u[q] \in TagType BY <1>9, <1>12, <3>2, <3>4 DEF AnyTag, TagType
        <4> QED BY <1>1, <1>2, <3>3, <3>4, <4>1
      <3>5. CASE q = F
        <4>1. u[q] \in TagType BY <1>12, <3>1, <3>2, <3>5 DEF AnyTag, TagType
        <4> QED BY <1>1, <1>2, <3>3, <3>5, <4>1
      <3>6. CASE q \in F + 8 .. F + 12
        <4>1. u[q] \in TagType BY <1>13, <3>1, <3>2, <3>6 DEF AnyTag, TagType
        <4> QED BY <1>1, <1>2, <3>3, <3>6, <4>1
      <3>7. CASE q = nt
        <4>1. u[q] \in TagType BY <1>4, <1>14, <3>2, <3>7 DEF AnyTag, TagType
        <4> QED BY <1>1, <1>2, <3>7, <4>1
      <3>8. CASE q = G
        <4>1. u[q] \in TagType BY <1>1, <1>14, <3>2, <3>8 DEF AnyTag, TagType
        <4> QED BY <1>1, <1>2, <3>8, <4>1
      <3>9. CASE q \in DOMAIN t /\ q < p
        <4>1. u[q] = t[q] /\ t[q] \in TagType /\ q \in Nat /\ HeapBase + 2 <= q
          BY <1>5, <1>8, <1>11, <3>9
        <4> QED BY <1>1, <1>2, <1>5, <3>9, <4>1
      <3> QED BY <1>16, <3>4, <3>5, <3>6, <3>7, <3>8, <3>9
    <2>2. ASSUME NEW q \in DOMAIN u, u[q].size = 1 PROVE u[q].cinuse = TRUE
      <3>1. \A x \in DOMAIN t : t[x].size = 1 => t[x].cinuse = TRUE BY DEF Shape, Heads
      <3>2. CASE q \in DOMAIN t /\ q < p BY <1>11, <2>2, <3>1, <3>2
      <3>3. CASE q \in F + 8 .. F + 12 BY <1>13, <3>3
      <3>4. q # p /\ q # nt /\ q # G BY <1>4, <1>7, <1>12, <1>14, <2>2
      <3> QED BY <1>12, <1>16, <3>2, <3>3, <3>4
    <2> QED BY <1>1, <1>2, <1>14, <1>15, <2>1, <2>2 DEF Heads
  <1>22. Tiles(u, G)
    <2> SUFFICES ASSUME NEW q, IsChunk(u, G, q)
                 PROVE  /\ q % 4 = 2 /\ u[q].size % 4 = 0 /\ u[q].size >= 4
                        /\ q + u[q].size \in DOMAIN u
                        /\ \A x \in DOMAIN u : q < x => q + u[q].size <= x
      BY DEF Tiles
    <2>1. CASE q = p
      <3>1. q + u[q].size = F BY <1>7, <1>12, <2>1
      <3>2. \A x \in DOMAIN u : p < x => F <= x BY <1>2, <1>5, <1>15, <1>16, EndFacts
      <3> QED BY <1>10, <1>12, <1>15, <2>1, <3>1, <3>2
    <2>2. CASE q = F
      <3>1. \A x \in DOMAIN u : F < x => F + 8 <= x BY <1>1, <1>2, <1>5, <1>16
      <3>2. 8 % 4 = 0 /\ 8 >= 4 OBVIOUS
      <3> QED BY <1>12, <1>15, <2>2, <3>1, <3>2
    <2>3. CASE q = nt
      <3>1. \A x \in DOMAIN u : nt < x => G <= x BY <1>1, <1>2, <1>5, <1>16
      <3> QED BY <1>2, <1>4, <1>14, <1>15, <2>3, <3>1
    <2>4. CASE IsChunk(t, F, q) /\ q # p
      <3>1. OldChunk(t, F, u, G, p, q) BY <1>18, <2>4
      <3>2. /\ q \in Nat /\ q < p /\ u[q] = t[q]
            /\ q + t[q].size \in Nat /\ q + t[q].size <= p /\ q + t[q].size \in DOMAIN u
        BY <1>11, <3>1 DEF OldChunk
      <3>3. q % 4 = 2 /\ t[q].size % 4 = 0 /\ t[q].size >= 4
            /\ \A x \in DOMAIN t : q < x => q + t[q].size <= x
        BY <2>4 DEF Shape, Tiles
      <3>4. ASSUME NEW x \in DOMAIN u, q < x PROVE q + t[q].size <= x
        <4>1. CASE x \in DOMAIN t BY <3>3, <3>4, <4>1
        <4>2. CASE x \notin DOMAIN t
          <5>1. x \in Nat /\ p < x BY <1>1, <1>2, <1>5, <1>11, <4>2
          <5> QED BY <1>5, <3>2, <5>1
        <4> QED BY <4>1, <4>2
      <3> QED BY <3>2, <3>3, <3>4
    <2> QED BY <1>19, <2>1, <2>2, <2>3, <2>4
  <1>23. Agree(u, G)
    <2> SUFFICES ASSUME NEW q, IsChunk(u, G, q)
                 PROVE  /\ u[q + u[q].size].pinuse = u[q].cinuse
                        /\ u[q].cinuse = FALSE => u[q].pinuse = TRUE
      BY DEF Agree
    <2>1. CASE q = p
      <3>1. q + u[q].size = F BY <1>7, <1>12, <2>1
      <3> QED BY <1>12, <2>1, <3>1
    <2>2. CASE q = F
      <3>1. F + 8 \in F + 8 .. F + 12 BY <1>5
      <3> QED BY <1>12, <1>13, <2>2, <3>1
    <2>3. CASE q = nt
      <3>1. q + u[q].size = G BY <1>4, <1>14, <2>3
      <3> QED BY <1>14, <2>3, <3>1
    <2>4. CASE IsChunk(t, F, q) /\ q # p
      <3>1. OldChunk(t, F, u, G, p, q) BY <1>18, <2>4
      <3>2. u[q] = t[q] /\ u[q + t[q].size].pinuse = t[q + t[q].size].pinuse
        BY <3>1 DEF OldChunk
      <3> QED BY <2>4, <3>2 DEF Shape, Agree
    <2> QED BY <1>19, <2>1, <2>2, <2>3, <2>4
  <1>24. Backs(u, G)
    <2> SUFFICES ASSUME NEW q \in DOMAIN u \ {G}, u[q].pinuse = FALSE
                 PROVE  \E y : /\ IsChunk(u, G, y) /\ u[y].cinuse = FALSE
                               /\ y + u[y].size = q /\ u[q].prevFoot = u[y].size
      BY DEF Backs
    <2>1. q # p /\ q # nt /\ q \notin F + 8 .. F + 12 BY <1>12, <1>13, <1>14
    <2>2. CASE q = F BY <1>7, <1>12, <1>17, <2>2
    <2>3. CASE q # F
      <3>1. q \in DOMAIN t /\ q < p BY <1>16, <2>1, <2>3
      <3>2. u[q] = t[q] BY <1>11, <3>1
      <3>3. PICK y : /\ IsChunk(t, F, y) /\ t[y].cinuse = FALSE
                     /\ y + t[y].size = q /\ t[q].prevFoot = t[y].size
        BY <2>3, <3>1, <3>2 DEF Shape, Backs
      <3>4. y # p BY <1>5, <3>1, <3>3
      <3>5. IsChunk(u, G, y) BY <1>19, <3>3
      <3>6. OldChunk(t, F, u, G, p, y) BY <1>18, <3>3, <3>4
      <3>7. u[y] = t[y] BY <3>6 DEF OldChunk
      <3> QED BY <3>2, <3>3, <3>5, <3>7
    <2> QED BY <2>2, <2>3
  <1>25. Starts(u, G, S \cup {nt})
    <2>1. \A q \in S : IsChunk(t, F, q) /\ \A y : IsChunk(t, F, y) => y + t[y].size # q
      BY DEF Shape, Starts
    <2>2. ASSUME NEW q, IsChunk(t, F, q) PROVE q \in Nat /\ q < F
      <3>1. q \in DOMAIN t /\ q # F BY <2>2 DEF IsChunk
      <3> QED BY <1>5, <3>1
    <2>3. ASSUME NEW q \in S \cup {nt} PROVE IsChunk(u, G, q) BY <1>19, <2>1, <2>3
    <2>4. ASSUME NEW q \in S \cup {nt}, NEW y, IsChunk(u, G, y), y + u[y].size = q PROVE FALSE
      <3>0. q = nt \/ (q \in S /\ q \in Nat /\ q < F) BY <2>1, <2>2
      <3>1. CASE y = p
        <4>1. q = F BY <1>7, <1>12, <2>4, <3>1
        <4> QED BY <1>15, <3>0, <4>1, <1>5
      <3>2. CASE y = F
        <4>1. q = F + 8 BY <1>12, <2>4, <3>2
        <4> QED BY <1>2, <1>5, <3>0, <4>1
      <3>3. CASE y = nt
        <4>1. q = G BY <1>4, <1>14, <2>4, <3>3
        <4> QED BY <1>1, <1>2, <1>5, <3>0, <4>1
      <3>4. CASE IsChunk(t, F, y) /\ y # p
        <4>1. OldChunk(t, F, u, G, p, y) BY <1>18, <3>4
        <4>2. u[y] = t[y] /\ y + t[y].size \in Nat /\ y + t[y].size <= p BY <4>1 DEF OldChunk
        <4>3. q = y + t[y].size BY <2>4, <4>2
        <4>4. q # nt BY <1>2, <1>5, <4>2, <4>3
        <4> QED BY <2>1, <3>0, <3>4, <4>3, <4>4
      <3> QED BY <1>19, <2>4, <3>1, <3>2, <3>3, <3>4
    <2> QED BY <2>3, <2>4 DEF Starts
  <1> QED BY <1>20, <1>21, <1>22, <1>23, <1>24, <1>25 DEF Shape

-----------------------------------------------------------------------------
Enlarged(g, i, G, S, A) == SameButBins(g, i) /\ FakeAt(i) = G /\ Whole(i, G, S, A)

(* add_segment: the old top is an ordinary free chunk, and the new segment *)
(* one free chunk.                                                         *)
LEMMA SegmentWhole ==
    ASSUME NEW h, NEW F, NEW S, NEW A, Whole(h, F, S, A), F = FakeAt(h),
           NEW p, p = h.top, NEW nt \in Nat, NEW n \in Nat, NEW G, G = nt + n, EndsAt(nt, G),
           F + 14 < nt, NEW k, SameChunks(h, k), k.top = nt, k.topsize = n,
           NEW g, SameButTags(k, g), Tagged(g), Segmented(h.tag, g.tag, F, p, nt, G),
           NEW s, s = F - p
    PROVE  /\ Enlarged(g, InsertChunk(g, p, s), G, S \cup {nt}, A)
           /\ Steady(h, InsertChunk(g, p, s), A)
  <1>1. Known(h, F, S, A) BY WholeFacts
  <1>2. PICK t, u : t = h.tag /\ u = g.tag OBVIOUS
  <1>3. LastChunk(t, F, p) BY <1>2, TopIsLast
  <1>4. /\ Loose(h, F, S, A, {h.top, h.dv}) /\ TopOK(h, F) /\ DvOK(h, F) BY DEF Whole
  <1>5. /\ BinsOK(h) /\ Shape(t, F, S) /\ Owned(t, F, A) /\ Holds(h, F, {h.top, h.dv})
    BY <1>2, <1>4 DEF Loose
  <1>6. OneChunk(t, F, p, F) BY <1>1, <1>2 DEF Known
  <1>7. F % 4 = 2 /\ s \in BinSizes /\ t[p].size = s /\ F \in Nat BY <1>1, <1>6 DEF OneChunk, Known
  <1>8. Segmented(t, u, F, p, nt, G) BY <1>2
  <1>9. Shape(u, G, S \cup {nt}) /\ OneMore(t, F, u, G, nt)
    BY <1>3, <1>5, <1>7, <1>8, SegmentShape, ZenonT(60)
  <1>10. \A q : IsChunk(u, G, q) <=> IsChunk(t, F, q) \/ q = F \/ q = nt BY <1>9 DEF OneMore
  <1>11. /\ u[p].size = s /\ u[p].cinuse = FALSE /\ u[F].size = 8 /\ u[F].cinuse = TRUE
         /\ u[nt].size = G - nt /\ u[nt].cinuse = FALSE
    BY <1>8 DEF Segmented
  <1>12. u[F + 8].size = 1
    <2>1. F + 8 \in F + 8 .. F + 12 BY <1>7
    <2> QED BY <1>8, <2>1 DEF Segmented
  <1>13. /\ p \in Nat /\ p < F /\ IsChunk(t, F, p) /\ t[p].cinuse = FALSE
         /\ ~IsChunk(t, F, F) /\ ~IsChunk(t, F, nt) /\ p # nt
    <2>1. p \in Nat /\ p < F /\ IsChunk(t, F, p) /\ t[p].cinuse = FALSE BY <1>3 DEF LastChunk
    <2>2. ~IsChunk(t, F, F) BY DEF IsChunk
    <2>3. nt \notin DOMAIN t BY <1>3, <1>7 DEF LastChunk
    <2> QED BY <1>7, <2>1, <2>2, <2>3 DEF IsChunk
  <1>14. ASSUME NEW q, IsChunk(t, F, q), q # p
         PROVE  /\ u[q] = t[q]
                /\ t[q + t[q].size].size = 1 => u[q + t[q].size].size = 1
    BY <1>3, <1>5, <1>8, <1>14, OldChunks DEF OldChunk
  <1>15. Owned(u, G, A)
    <2>1. ASSUME NEW x \in A PROVE UsedAt(u, G, x)
      <3>1. UsedAt(t, F, x) BY <1>5, <2>1 DEF Owned
      <3>2. IsChunk(t, F, x) /\ x # p /\ t[x].cinuse = TRUE BY <1>13, <3>1 DEF UsedAt
      <3> QED BY <1>10, <1>14, <3>2 DEF UsedAt
    <2>2. ASSUME NEW x, UsedAt(u, G, x), x \notin A PROVE u[x + u[x].size].size = 1
      <3>1. IsChunk(u, G, x) /\ x # p /\ x # nt /\ u[x].cinuse = TRUE BY <1>11, <2>2 DEF UsedAt
      <3>2. CASE x = F BY <1>11, <1>12, <3>2
      <3>3. CASE x # F
        <4>1. IsChunk(t, F, x) BY <1>10, <3>1, <3>3
        <4>2. u[x] = t[x] /\ (t[x + t[x].size].size = 1 => u[x + t[x].size].size = 1)
          BY <1>14, <3>1, <4>1
        <4>3. UsedAt(t, F, x) BY <3>1, <4>1, <4>2 DEF UsedAt
        <4>4. t[x + t[x].size].size = 1 BY <1>5, <2>2, <4>3 DEF Owned
        <4> QED BY <4>2, <4>4
      <3> QED BY <3>2, <3>3
    <2> QED BY <2>1, <2>2 DEF Owned
  <1>16. \A x : FreeAt(u, G, x) <=> FreeAt(t, F, x) \/ x = nt
    <2>1. ASSUME NEW x, x # p, x # nt PROVE FreeAt(u, G, x) <=> FreeAt(t, F, x)
      <3>1. CASE x = F BY <1>11, <1>13, <3>1 DEF FreeAt
      <3>2. CASE x # F BY <1>10, <1>14, <2>1, <3>2 DEF FreeAt
      <3> QED BY <3>1, <3>2
    <2>2. FreeAt(u, G, p) /\ FreeAt(t, F, p) BY <1>10, <1>11, <1>13 DEF FreeAt
    <2>3. FreeAt(u, G, nt) BY <1>10, <1>11 DEF FreeAt
    <2> QED BY <2>1, <2>2, <2>3
  <1>17. \A x : FreeAt(t, F, x) => u[x].size = t[x].size
    BY <1>7, <1>11, <1>14 DEF FreeAt
  <1>18. ~FreeAt(t, F, nt) BY <1>13 DEF FreeAt
  <1>19. /\ State(g) /\ g.bins = h.bins /\ g.smallmap = h.smallmap /\ g.top = nt
         /\ g.topsize = n /\ g.dv = h.dv /\ g.dvsize = h.dvsize
    BY DEF SameButTags, SameChunks
  <1>20. BinsOK(g) /\ \A x, r : Filed(g, x, r) <=> Filed(h, x, r) BY <1>5, <1>19, BinsKept
  <1>21. PICK X : X = {p, nt, h.dv} OBVIOUS
  <1>22. \A x, r : Filed(h, x, r) <=> FreeAt(t, F, x) /\ x \notin {p, h.dv} /\ t[x].size = r
    BY <1>2, <1>5 DEF Holds
  <1>23. ASSUME NEW x, NEW r PROVE Filed(g, x, r) <=> FreeAt(u, G, x) /\ x \notin X /\ u[x].size = r
    <2>1. CASE x = nt BY <1>18, <1>20, <1>21, <1>22, <2>1
    <2>2. CASE x # nt BY <1>16, <1>17, <1>20, <1>21, <1>22, <2>2
    <2> QED BY <2>1, <2>2
  <1>24. Holds(g, G, X) BY <1>2, <1>23 DEF Holds
  <1>25. PICK T : T = S \cup {nt} OBVIOUS
  <1>26. Loose(g, G, T, A, X) BY <1>2, <1>9, <1>15, <1>20, <1>24, <1>25 DEF Loose
  <1>27. FreeAt(g.tag, G, p) /\ p \in X /\ g.tag[p].size = s
    BY <1>2, <1>11, <1>13, <1>16, <1>21 DEF FreeAt
  <1>28. PICK i : i = InsertChunk(g, p, s) OBVIOUS
  <1>29. SameButBins(g, i) /\ Loose(i, G, T, A, X \ {p}) BY <1>7, <1>26, <1>27, <1>28, InsertLoose
  <1>30. /\ State(i) /\ i.tag = u /\ i.top = nt /\ i.topsize = n /\ i.dv = h.dv
         /\ i.dvsize = h.dvsize
    BY <1>2, <1>19, <1>29 DEF SameButBins
  <1>31. h.dv # p
    <2>1. CASE h.dvsize = 0
      <3>1. p # NULL BY <1>1 DEF Known, Initialized
      <3> QED BY <1>4, <2>1, <3>1 DEF DvOK
    <2>2. CASE h.dvsize # 0 BY <1>4, <2>2 DEF DvOK
    <2> QED BY <2>1, <2>2
  <1>32. X \ {p} = {i.top, i.dv} BY <1>13, <1>21, <1>30, <1>31
  <1>33. TopOK(i, G)
    <2>1. FreeAt(u, G, nt) BY <1>16
    <2>2. u[nt].size = n BY <1>11
    <2> QED BY <1>30, <2>1, <2>2 DEF TopOK
  <1>34. DvOK(i, G)
    <2>1. CASE h.dvsize = 0 BY <1>4, <1>30, <2>1 DEF DvOK
    <2>2. CASE h.dvsize # 0
      <3>1. FreeAt(t, F, h.dv) /\ t[h.dv].size = h.dvsize BY <1>2, <1>4, <2>2 DEF DvOK
      <3>2. FreeAt(u, G, h.dv) /\ u[h.dv].size = h.dvsize /\ h.dv # nt
        BY <1>16, <1>17, <1>18, <3>1
      <3> QED BY <1>30, <2>2, <3>2 DEF DvOK
    <2> QED BY <2>1, <2>2
  <1>35. FakeAt(i) = G BY <1>30 DEF FakeAt
  <1>36. Steady(h, i, A)
    <2>1. ASSUME NEW x \in A PROVE u[x].size = t[x].size
      <3>1. UsedAt(t, F, x) BY <1>5, <2>1 DEF Owned
      <3>2. IsChunk(t, F, x) /\ x # p BY <1>13, <3>1 DEF UsedAt
      <3> QED BY <1>14, <3>2
    <2> QED BY <1>2, <1>30, <2>1 DEF Steady
  <1>37. Whole(i, G, T, A) BY <1>29, <1>32, <1>33, <1>34 DEF Whole
  <1> QED BY <1>25, <1>28, <1>29, <1>35, <1>36, <1>37 DEF Enlarged

-----------------------------------------------------------------------------
(* The system layer under the chunks.                                      *)

(* g has the system layer's fields of h.                                   *)
SameSystem(h, g) ==
    /\ g.seg = h.seg /\ g.older = h.older /\ g.top = h.top /\ g.topsize = h.topsize
    /\ g.contiguous = h.contiguous /\ g.footprint = h.footprint
    /\ g.maxFootprint = h.maxFootprint /\ g.leastAddr = h.leastAddr

(* Heaps with the same system fields have the same SystemPart.             *)
LEMMA SystemSame ==
    ASSUME NEW h, NEW g, SameSystem(h, g)
    PROVE  SystemPart(g) = SystemPart(h)
  BY DEF SameSystem, SystemPart

(* SystemPart has the fields of the heap it is taken from.                 *)
LEMMA SystemCopy ==
    ASSUME NEW h
    PROVE  SameSystem(h, SystemPart(h))
  BY DEF SameSystem, SystemPart

SystemFieldNames == {"seg", "older", "top", "topsize", "contiguous", "footprint",
                     "maxFootprint", "leastAddr"}

(* A system record is the SystemPart of a heap that agrees with it.        *)
LEMMA SystemEqual ==
    ASSUME NEW k, NEW r, r = [f \in SystemFieldNames |-> r[f]], SameSystem(k, r)
    PROVE  SystemPart(k) = r
  <1>1. \A f \in SystemFieldNames : k[f] = r[f] BY DEF SystemFieldNames, SameSystem
  <1>2. SystemPart(k) = [f \in SystemFieldNames |-> k[f]] BY DEF SystemPart, SystemFieldNames
  <1> QED BY <1>1, <1>2

(* k does to the chunks of h nothing, and q is its system part.            *)
Below(h, k, q) == SameChunks(h, k) /\ SystemPart(k) = q

(* The first morecore, seen from the system layer.                         *)
LEMMA TryInitBelow ==
    ASSUME NEW h, State(h)
    PROVE  Below(h, TryInitAllocator(h), TryInitAllocator(SystemPart(h)))
  <1>1. PICK q : q = SystemPart(h) OBVIOUS
  <1>2. SameSystem(h, q) BY <1>1, SystemCopy
  <1>3. Initialized(q) <=> Initialized(h) BY <1>2 DEF SameSystem, Initialized
  <1>4. CASE Initialized(h) \/ ~InitialHeapUsable
    <2>1. TryInitAllocator(h) = h /\ TryInitAllocator(q) = q
      BY <1>3, <1>4 DEF TryInitAllocator
    <2> QED BY <1>1, <2>1 DEF Below, SameChunks
  <1>5. CASE ~(Initialized(h) \/ ~InitialHeapUsable)
    <2>1. /\ TryInitAllocator(h) =
               [h EXCEPT !.seg = [base |-> HeapBase, size |-> InitialHeapSize],
                   !.top = NewTop(HeapBase),
                   !.topsize = NewTopSize(HeapBase, InitialHeapSize),
                   !.footprint = InitialHeapSize,
                   !.maxFootprint = InitialHeapSize,
                   !.leastAddr = HeapBase]
          /\ TryInitAllocator(q) =
               [q EXCEPT !.seg = [base |-> HeapBase, size |-> InitialHeapSize],
                   !.top = NewTop(HeapBase),
                   !.topsize = NewTopSize(HeapBase, InitialHeapSize),
                   !.footprint = InitialHeapSize,
                   !.maxFootprint = InitialHeapSize,
                   !.leastAddr = HeapBase]
      BY <1>3, <1>5 DEF TryInitAllocator
    <2>2. SameChunks(h, TryInitAllocator(h)) BY <2>1 DEF SameChunks, State, Fields
    <2>3. PICK k, r : k = TryInitAllocator(h) /\ r = TryInitAllocator(q) OBVIOUS
    <2>4. r = [f \in SystemFieldNames |-> r[f]]
      BY <1>1, <2>1, <2>3 DEF SystemPart, SystemFieldNames
    <2>5. SameSystem(k, r)
      BY <1>1, <2>1, <2>3 DEF SameSystem, SystemPart, State, Fields
    <2>6. SystemPart(TryInitAllocator(h)) = TryInitAllocator(q)
      BY <2>3, <2>4, <2>5, SystemEqual
    <2> QED BY <1>1, <2>2, <2>6 DEF Below
  <1> QED BY <1>4, <1>5

(* A segment added, seen from the system layer.                            *)
LEMMA SegmentBelow ==
    ASSUME NEW h, State(h), NEW e
    PROVE  Below(h, AddSegment(h, e), AddSegment(SystemPart(h), e))
  <1>1. PICK q : q = SystemPart(h) OBVIOUS
  <1>2. SameSystem(h, q) BY <1>1, SystemCopy
  <1>3. Segments(q) = Segments(h) BY <1>2 DEF SameSystem, Segments, Initialized
  <1>4. PICK b, z, f, m : /\ b = NewTop(e.tbase) /\ z = NewTopSize(e.tbase, e.tsize)
                          /\ f = h.footprint + e.tsize
                          /\ m = IF f > h.maxFootprint THEN f ELSE h.maxFootprint
    OBVIOUS
  <1>5. PICK l : l = IF h.leastAddr = NULL \/ e.tbase < h.leastAddr THEN e.tbase ELSE h.leastAddr
    OBVIOUS
  <1>6. AddSegment(h, e) = [h EXCEPT !.contiguous = e.contiguous, !.footprint = f,
                              !.maxFootprint = m, !.older = Segments(h),
                              !.seg = [base |-> e.tbase, size |-> e.tsize],
                              !.top = b, !.topsize = z, !.leastAddr = l]
    BY <1>4, <1>5 DEF AddSegment, Grown, State, Fields
  <1>7. AddSegment(q, e) = [q EXCEPT !.contiguous = e.contiguous, !.footprint = f,
                              !.maxFootprint = m, !.older = Segments(h),
                              !.seg = [base |-> e.tbase, size |-> e.tsize],
                              !.top = b, !.topsize = z, !.leastAddr = l]
    BY <1>1, <1>2, <1>3, <1>4, <1>5 DEF AddSegment, Grown, SystemPart, SameSystem
  <1>8. SameChunks(h, AddSegment(h, e)) BY <1>6 DEF SameChunks, State, Fields
  <1>9. SystemPart(AddSegment(h, e)) = AddSegment(q, e)
    <2>3. PICK k, r : k = AddSegment(h, e) /\ r = AddSegment(q, e) OBVIOUS
    <2>4. r = [x \in SystemFieldNames |-> r[x]]
      BY <1>1, <1>7, <2>3 DEF SystemPart, SystemFieldNames
    <2>5. SameSystem(k, r)
      BY <1>1, <1>6, <1>7, <2>3 DEF SameSystem, SystemPart, State, Fields
    <2> QED BY <2>3, <2>4, <2>5, SystemEqual
  <1> QED BY <1>1, <1>8, <1>9 DEF Below

(* A segment extended, seen from the system layer.                         *)
LEMMA AppendBelow ==
    ASSUME NEW h, State(h), NEW e
    PROVE  Below(h, AppendToSegment(h, e), AppendToSegment(SystemPart(h), e))
  <1>1. PICK q : q = SystemPart(h) OBVIOUS
  <1>2. SameSystem(h, q) BY <1>1, SystemCopy
  <1>4. PICK z, f, m, s : /\ z = h.topsize + e.tsize
                          /\ f = h.footprint + e.tsize
                          /\ m = IF f > h.maxFootprint THEN f ELSE h.maxFootprint
                          /\ s = [h.seg EXCEPT !.size = @ + e.tsize]
    OBVIOUS
  <1>6. AppendToSegment(h, e) = [h EXCEPT !.contiguous = e.contiguous, !.footprint = f,
                              !.maxFootprint = m, !.seg = s, !.topsize = z]
    BY <1>4 DEF AppendToSegment, Grown, State, Fields
  <1>7. AppendToSegment(q, e) = [q EXCEPT !.contiguous = e.contiguous, !.footprint = f,
                              !.maxFootprint = m, !.seg = s, !.topsize = z]
    BY <1>1, <1>2, <1>4 DEF AppendToSegment, Grown, SystemPart, SameSystem
  <1>8. SameChunks(h, AppendToSegment(h, e)) BY <1>6 DEF SameChunks, State, Fields
  <1>9. SystemPart(AppendToSegment(h, e)) = AppendToSegment(q, e)
    <2>3. PICK k, r : k = AppendToSegment(h, e) /\ r = AppendToSegment(q, e) OBVIOUS
    <2>4. r = [x \in SystemFieldNames |-> r[x]]
      BY <1>1, <1>7, <2>3 DEF SystemPart, SystemFieldNames
    <2>5. SameSystem(k, r)
      BY <1>1, <1>6, <1>7, <2>3 DEF SameSystem, SystemPart, State, Fields
    <2> QED BY <2>3, <2>4, <2>5, SystemEqual
  <1> QED BY <1>1, <1>8, <1>9 DEF Below

(* The contiguity flag, seen from the system layer.                        *)
LEMMA FlagBelow ==
    ASSUME NEW h, State(h), NEW c
    PROVE  Below(h, [h EXCEPT !.contiguous = c], [SystemPart(h) EXCEPT !.contiguous = c])
  BY DEF Below, SameChunks, State, Fields, SystemPart

(* A request cut from top, seen from the system layer.                     *)
LEMMA CutBelow ==
    ASSUME NEW h, State(h), NEW nb
    PROVE  Below(h, CutTop(h, nb), CutTop(SystemPart(h), nb))
  BY DEF Below, SameChunks, State, Fields, SystemPart, CutTop

(* What the system layer reads.                                            *)
LEMMA SystemReads ==
    ASSUME NEW h, NEW e, NEW nb
    PROVE  /\ Segments(SystemPart(h)) = Segments(h)
           /\ Initialized(SystemPart(h)) <=> Initialized(h)
           /\ Appends(SystemPart(h), e) <=> Appends(h, e)
           /\ NeedsSystem(SystemPart(h), nb) <=> NeedsSystem(h, nb)
  <1>1. PICK q : q = SystemPart(h) OBVIOUS
  <1>2. SameSystem(h, q) BY <1>1, SystemCopy
  <1>3. q.top = h.top /\ q.topsize = h.topsize BY <1>2 DEF SameSystem
  <1>4. Segments(q) = Segments(h) /\ (Initialized(q) <=> Initialized(h))
    BY <1>2 DEF SameSystem, Segments, Initialized
  <1>5. Appends(q, e) <=> Appends(h, e) BY <1>3, <1>4 DEF Appends
  <1>6. NeedsSystem(q, nb) <=> NeedsSystem(h, nb) BY <1>3 DEF NeedsSystem
  <1> QED BY <1>1, <1>4, <1>5, <1>6

(* What morecore is asked depends on the system layer's fields alone.      *)
LEMMA AcquireReads ==
    ASSUME NEW h, NEW nb, NEW g
    PROVE  Acquire(SystemPart(h), nb, g) = Acquire(h, nb, g)
  <1>1. PICK q : q = SystemPart(h) OBVIOUS
  <1>2. SameSystem(h, q) BY <1>1, SystemCopy
  <1>3. q.top = h.top /\ q.topsize = h.topsize /\ q.contiguous = h.contiguous
    BY <1>2 DEF SameSystem
  <1>4. Segments(q) = Segments(h) BY <1>1, SystemReads
  <1>5. ContiguousMorecore(q, nb, g) = ContiguousMorecore(h, nb, g)
    BY <1>3, <1>4 DEF ContiguousMorecore
  <1>6. Acquire(q, nb, g) = Acquire(h, nb, g) BY <1>3, <1>5 DEF Acquire
  <1> QED BY <1>1, <1>6

-----------------------------------------------------------------------------
(* Where top lies, by the system layer's invariant.                        *)
Placing(k, p, n, G) ==
    /\ p \in Nat /\ n \in Nat /\ G \in Nat /\ G = p + n /\ EndsAt(p, G)
    /\ k.seg.base \in Nat /\ k.seg.size \in Nat
    /\ k.seg.base + k.seg.size = G + 14 /\ p >= k.seg.base + 2

(* The system layer's invariant says where top may be laid.                *)
LEMMA PlacingFacts ==
    ASSUME NEW k, NEW pg \in Nat, pg <= MaxPages, NEW fr, HeapInv(SystemPart(k), pg, fr),
           Initialized(k), NEW p, p = k.top, NEW n, n = k.topsize, NEW G, G = FakeAt(k)
    PROVE  Placing(k, p, n, G)
  <1>1. PICK q : q = SystemPart(k) OBVIOUS
  <1>2. q.seg = k.seg /\ q.top = k.top /\ q.topsize = k.topsize BY <1>1, SystemFields
  <1>3. Initialized(q) BY <1>1, SystemReads
  <1>4. HeapType(q) /\ NewestSegment(q, pg) /\ TopShape(q) BY <1>1, <1>3 DEF HeapInv
  <1>5. k.seg \in SegmentRecord /\ p \in Nat /\ n \in Nat
    BY <1>2, <1>4, AddrWordsFacts DEF HeapType
  <1>6. /\ HeapBase <= k.seg.base /\ k.seg.base + k.seg.size <= pg * PageWords
        /\ p >= k.seg.base + 2 /\ p % 4 = 2 /\ n >= 4 /\ n % 4 = 0
        /\ p + n + 14 = k.seg.base + k.seg.size
    BY <1>2, <1>4 DEF NewestSegment, TopShape, Limit
  <1>7. k.seg.base \in Nat /\ k.seg.size \in Nat BY <1>5, AddrWordsFacts DEF SegmentRecord
  <1>8. G = p + n BY DEF FakeAt
  <1>9. G \in Nat BY <1>5, <1>8
  <1>10. pg * PageWords <= MaxPages * PageWords /\ pg * PageWords \in Nat
         /\ MaxPages * PageWords \in Nat
    <2>1. MaxPages \in Nat BY MemoryAssumption
    <2>2. CASE pg = MaxPages BY <2>1, <2>2, MemoryEnd
    <2>3. CASE pg < MaxPages
      <3>1. pg * PageWords \in Nat /\ MaxPages * PageWords \in Nat
            /\ (pg + 1) * PageWords = pg * PageWords + PageWords
            /\ (pg + 1) * PageWords <= MaxPages * PageWords
        BY <2>1, <2>3, PagesMonotone
      <3> QED BY <3>1, PageAssumption
    <2> QED BY <2>1, <2>2, <2>3
  <1>11. G % 4 = 2 BY <1>5, <1>6, <1>8, SMT
  <1>12. HeapBase \in Nat BY HeapAssumption
  <1>13. HeapBase + 2 <= p /\ p + 4 <= G /\ G + 14 <= MaxPages * PageWords
    BY <1>5, <1>6, <1>7, <1>8, <1>9, <1>10, <1>12
  <1>14. EndsAt(p, G) BY <1>5, <1>6, <1>9, <1>11, <1>13 DEF EndsAt
  <1>15. k.seg.base + k.seg.size = G + 14 BY <1>6, <1>8
  <1> QED BY <1>5, <1>6, <1>7, <1>8, <1>9, <1>14, <1>15 DEF Placing

(* A heap that has its chunks, over a system layer that has its invariant. *)
LEMMA HeapFromWhole ==
    ASSUME NEW k, NEW pg, HeapInv(SystemPart(k), pg, foreign), Initialized(k),
           NEW g, SameSystem(k, g), NEW G, FakeAt(g) = G, NEW S, S = FirstChunks(k),
           NEW A, Whole(g, G, S, A)
    PROVE  HeapOK(g, A, pg) /\ Initialized(g)
  <1>1. SystemPart(g) = SystemPart(k) BY SystemSame
  <1>2. Initialized(g) /\ FirstChunks(g) = S BY DEF SameSystem, Initialized, FirstChunks
  <1> QED BY <1>1, <1>2 DEF HeapOK

(* The first segment makes a heap of one free chunk.                       *)
LEMMA FirstHeap ==
    ASSUME NEW h, Blank(h, {}), ~Initialized(h), NEW k, SameChunks(h, k),
           NEW pg \in Nat, pg <= MaxPages, HeapInv(SystemPart(k), pg, foreign), Initialized(k),
           k.older = {}, k.top = k.seg.base + 2
    PROVE  HeapOK(InitTop(k), {}, pg) /\ Initialized(InitTop(k))
  <1>1. PICK p, n, G : p = k.top /\ n = k.topsize /\ G = FakeAt(k) OBVIOUS
  <1>2. Placing(k, p, n, G) BY <1>1, PlacingFacts
  <1>3. n \in Nat /\ G = p + n /\ EndsAt(p, G) BY <1>2 DEF Placing
  <1>4. Empty(k)
    <2>1. Tagged(k) /\ DOMAIN k.tag = {} BY DEF Blank, SameChunks, Tagged
    <2>2. State(k) /\ k.bins = h.bins /\ k.smallmap = h.smallmap BY DEF SameChunks
    <2>3. BinsOK(h) /\ \A x, s : ~Filed(h, x, s) BY DEF Blank
    <2>4. BinsOK(k) /\ \A x, s : ~Filed(k, x, s) BY <2>2, <2>3, BinsKept
    <2>5. k.dv = NULL /\ k.dvsize = 0 BY DEF Blank, SameChunks
    <2> QED BY <2>1, <2>4, <2>5 DEF Empty
  <1>5. PICK g : g = InitTop(k) OBVIOUS
  <1>6. Opened(k, g, G, {p}, {}) BY <1>1, <1>3, <1>4, <1>5, FirstWhole
  <1>7. SameButTags(k, g) /\ FakeAt(g) = G /\ Whole(g, G, {p}, {}) BY <1>6 DEF Opened
  <1>8. SameSystem(k, g) BY <1>7 DEF SameButTags, SameSystem
  <1>9. {p} = FirstChunks(k) BY <1>1 DEF FirstChunks
  <1>10. PICK S, A : S = {p} /\ A = {} OBVIOUS
  <1>11. HeapOK(g, A, pg) /\ Initialized(g) BY <1>7, <1>8, <1>9, <1>10, HeapFromWhole
  <1> QED BY <1>5, <1>10, <1>11

(* A step of the system layer keeps the heap, and every chunk in use.      *)
Sustains(h, g, A, pg) == HeapOK(g, A, pg) /\ Steady(h, g, A)

(* The first thing a call of malloc does.                                  *)
LEMMA InitSustains ==
    ASSUME MemoryInv, NEW h, NEW A, HeapOK(h, A, pages)
    PROVE  Sustains(h, InitAllocator(h), A, pages)
  <1>1. PICK i : i = TryInitAllocator(h) OBVIOUS
  <1>2. CASE ~(Initialized(i) /\ ~Initialized(h))
    <2>1. InitAllocator(h) = h BY <1>1, <1>2 DEF InitAllocator
    <2> QED BY <2>1 DEF Sustains, Steady
  <1>3. CASE Initialized(i) /\ ~Initialized(h)
    <2>1. InitAllocator(h) = InitTop(i) BY <1>1, <1>3 DEF InitAllocator
    <2>2. Blank(h, A) BY <1>3 DEF HeapOK
    <2>3. A = {} /\ State(h) BY <2>2 DEF Blank, Tagged
    <2>4. PICK q : q = SystemPart(h) OBVIOUS
    <2>5. HeapInv(q, pages, foreign) BY <2>4 DEF HeapOK
    <2>6. Below(h, i, TryInitAllocator(q)) BY <1>1, <2>3, <2>4, TryInitBelow
    <2>7. SameChunks(h, i) /\ SystemPart(i) = TryInitAllocator(q) BY <2>6 DEF Below
    <2>8. HeapInv(SystemPart(i), pages, foreign) BY <2>5, <2>7, TryInitKeeps
    <2>9. i = [h EXCEPT !.seg = [base |-> HeapBase, size |-> InitialHeapSize],
                   !.top = NewTop(HeapBase),
                   !.topsize = NewTopSize(HeapBase, InitialHeapSize),
                   !.footprint = InitialHeapSize,
                   !.maxFootprint = InitialHeapSize,
                   !.leastAddr = HeapBase]
      BY <1>1, <1>3 DEF TryInitAllocator
    <2>10. i.older = h.older /\ i.top = NewTop(HeapBase) /\ i.seg.base = HeapBase
      BY <2>3, <2>9 DEF State, Fields
    <2>11. h.older = {}
      <3>1. q.older = h.older /\ ~Initialized(q) BY <1>3, <2>4, SystemFields, SystemReads
      <3> QED BY <2>5, <3>1 DEF HeapInv, Accounting
    <2>12. NewTop(HeapBase) = HeapBase + 2 BY Layout, InitialHeapFacts
    <2>13. pages \in Nat /\ pages <= MaxPages BY MemoryAssumption DEF MemoryInv
    <2>14. Blank(h, {}) /\ i.older = {} /\ i.top = i.seg.base + 2
      BY <2>2, <2>3, <2>10, <2>11, <2>12
    <2>15. HeapOK(InitTop(i), {}, pages)
      BY <1>3, <2>7, <2>8, <2>13, <2>14, FirstHeap
    <2> QED BY <2>1, <2>3, <2>15 DEF Sustains, Steady
  <1> QED BY <1>2, <1>3

(* sys_alloc's three ways to use new memory.                               *)
Extends(h, x, A, pg) == Sustains(h, x, A, pg) /\ Initialized(x)

(* New memory for a heap that had none.                                    *)
LEMMA ExtendFirst ==
    ASSUME MemoryInv, NEW h, NEW A, HeapOK(h, A, pages), ~Initialized(h),
           NEW e, ExtensionOK(e), e.tbase # CMFAIL
    PROVE  Extends(h, Extend(h, e), A, e.newPages)
  <1>1. Blank(h, A) BY DEF HeapOK
  <1>2. A = {} /\ State(h) BY <1>1 DEF Blank, Tagged
  <1>3. PICK q : q = SystemPart(h) OBVIOUS
  <1>4. HeapInv(q, pages, foreign) BY <1>3 DEF HeapOK
  <1>5. Segments(h) = {} BY DEF Segments
  <1>6. ~Appends(h, e) BY <1>5 DEF Appends
  <1>7. ~Appends(q, e) BY <1>3, <1>6, SystemReads
  <1>8. PICK k : k = AddSegment(h, e) OBVIOUS
  <1>9. Extend(h, e) = InitTop(k) BY <1>6, <1>8 DEF Extend
  <1>10. Below(h, k, AddSegment(q, e)) BY <1>2, <1>3, <1>8, SegmentBelow
  <1>11. SameChunks(h, k) /\ SystemPart(k) = AddSegment(q, e) BY <1>10 DEF Below
  <1>12. HeapInv(AddSegment(q, e), e.newPages, foreign) /\ Initialized(AddSegment(q, e))
    BY <1>4, <1>7, SegmentKeeps
  <1>13. HeapInv(SystemPart(k), e.newPages, foreign) /\ Initialized(k)
    BY <1>11, <1>12, SystemReads
  <1>14. e.tbase \in Nat /\ e.tbase % 4 = 0 /\ e.newPages \in Nat /\ e.newPages <= MaxPages
    BY <1>4, RegionFacts
  <1>15. k.older = Segments(h) /\ k.top = NewTop(e.tbase) /\ k.seg.base = e.tbase
    BY <1>2, <1>8 DEF AddSegment, Grown, State, Fields
  <1>16. k.older = {} /\ k.top = k.seg.base + 2
    <2>1. PICK b : b = e.tbase OBVIOUS
    <2>2. NewTop(b) = b + 2 BY <1>14, <2>1, Layout
    <2> QED BY <1>5, <1>15, <2>1, <2>2
  <1>17. PICK pg : pg = e.newPages OBVIOUS
  <1>18. Blank(h, {}) BY <1>1, <1>2
  <1>19. HeapOK(InitTop(k), {}, pg) /\ Initialized(InitTop(k))
    BY <1>11, <1>13, <1>14, <1>16, <1>17, <1>18, FirstHeap
  <1> QED BY <1>2, <1>9, <1>17, <1>19 DEF Extends, Sustains, Steady

(* New memory right behind the segment of top.                             *)
LEMMA ExtendAppend ==
    ASSUME MemoryInv, NEW h, NEW A, HeapOK(h, A, pages), Initialized(h),
           NEW e, ExtensionOK(e), e.tbase # CMFAIL, Appends(h, e)
    PROVE  Extends(h, Extend(h, e), A, e.newPages)
  <1>1. PICK F, S : F = FakeAt(h) /\ S = FirstChunks(h) OBVIOUS
  <1>2. Whole(h, F, S, A) BY <1>1 DEF HeapOK
  <1>3. Known(h, F, S, A) BY <1>1, <1>2, WholeFacts
  <1>4. Tagged(h) /\ State(h) /\ h.top \in Nat /\ h.topsize \in Nat /\ F \in Nat
    BY <1>3 DEF Known
  <1>5. PICK q : q = SystemPart(h) OBVIOUS
  <1>6. HeapInv(q, pages, foreign) BY <1>5 DEF HeapOK
  <1>7. Appends(q, e) /\ Initialized(q) BY <1>5, SystemReads
  <1>8. PICK k : k = AppendToSegment(h, e) OBVIOUS
  <1>9. Extend(h, e) = InitTop(k) BY <1>8 DEF Extend
  <1>10. Below(h, k, AppendToSegment(q, e)) BY <1>4, <1>5, <1>8, AppendBelow
  <1>11. SameChunks(h, k) /\ SystemPart(k) = AppendToSegment(q, e) BY <1>10 DEF Below
  <1>12. HeapInv(AppendToSegment(q, e), e.newPages, foreign) /\ Initialized(AppendToSegment(q, e))
    BY <1>6, <1>7, AppendKeeps
  <1>13. HeapInv(SystemPart(k), e.newPages, foreign) /\ Initialized(k)
    BY <1>11, <1>12, SystemReads
  <1>14. /\ e.tsize \in Nat /\ e.tsize >= PageWords /\ e.newPages \in Nat
         /\ e.newPages <= MaxPages
    BY <1>6, RegionFacts
  <1>15. /\ k.older = h.older /\ k.top = h.top /\ k.topsize = h.topsize + e.tsize
         /\ k.seg = [h.seg EXCEPT !.size = @ + e.tsize]
    BY <1>4, <1>8 DEF AppendToSegment, Grown, State, Fields
  <1>16. PICK pg, p, n, G : pg = e.newPages /\ p = k.top /\ n = k.topsize /\ G = FakeAt(k)
    OBVIOUS
  <1>17. Placing(k, p, n, G) BY <1>13, <1>14, <1>16, PlacingFacts
  <1>18. n \in Nat /\ G = p + n /\ EndsAt(p, G) BY <1>17 DEF Placing
  <1>19. F < G
    <2>1. G = F + e.tsize BY <1>1, <1>4, <1>14, <1>15, <1>16, <1>18 DEF FakeAt
    <2> QED BY <1>4, <1>14, <2>1, PageAssumption
  <1>20. PICK g : g = InitTop(k) OBVIOUS
  <1>21. p = h.top /\ k.top = p BY <1>15, <1>16
  <1>22. Opened(k, g, G, S, A) /\ Steady(h, g, A)
    BY <1>1, <1>2, <1>11, <1>16, <1>18, <1>19, <1>20, <1>21, AppendWhole
  <1>23. SameButTags(k, g) /\ FakeAt(g) = G /\ Whole(g, G, S, A) BY <1>22 DEF Opened
  <1>24. SameSystem(k, g) BY <1>23 DEF SameButTags, SameSystem
  <1>25. S = FirstChunks(k)
    <2>1. k.seg.base = h.seg.base
      <3>1. k.seg = [h.seg EXCEPT !.size = h.seg.size + e.tsize] BY <1>15
      <3>2. q.seg = h.seg /\ HeapType(q) BY <1>5, <1>6, SystemFields DEF HeapInv
      <3>3. h.seg \in SegmentRecord BY <3>2 DEF HeapType
      <3> QED BY <3>1, <3>3 DEF SegmentRecord
    <2>2. PICK O : O = {x.base + 2 : x \in h.older} OBVIOUS
    <2>3. FirstChunks(h) = O \cup {h.seg.base + 2} BY <2>2 DEF FirstChunks
    <2>4. FirstChunks(k) = O \cup {k.seg.base + 2} BY <1>15, <2>2 DEF FirstChunks
    <2> QED BY <1>1, <2>1, <2>3, <2>4
  <1>26. HeapOK(g, A, pg) /\ Initialized(g) BY <1>13, <1>16, <1>23, <1>24, <1>25, HeapFromWhole
  <1> QED BY <1>9, <1>16, <1>20, <1>22, <1>26 DEF Extends, Sustains

(* New memory elsewhere: a segment of its own.                             *)
LEMMA ExtendSegment ==
    ASSUME MemoryInv, NEW h, NEW A, HeapOK(h, A, pages), Initialized(h),
           NEW e, ExtensionOK(e), e.tbase # CMFAIL, ~Appends(h, e)
    PROVE  Extends(h, Extend(h, e), A, e.newPages)
  <1>1. PICK F, S : F = FakeAt(h) /\ S = FirstChunks(h) OBVIOUS
  <1>2. Whole(h, F, S, A) BY <1>1 DEF HeapOK
  <1>3. Known(h, F, S, A) BY <1>1, <1>2, WholeFacts
  <1>4. Tagged(h) /\ State(h) /\ F \in Nat BY <1>3 DEF Known
  <1>5. PICK q : q = SystemPart(h) OBVIOUS
  <1>6. HeapInv(q, pages, foreign) BY <1>5 DEF HeapOK
  <1>7. ~Appends(q, e) BY <1>5, SystemReads
  <1>8. PICK k0 : k0 = AddSegment(h, e) OBVIOUS
  <1>9. Extend(h, e) = AddSegmentTags(h, e) BY DEF Extend
  <1>10. Below(h, k0, AddSegment(q, e)) BY <1>4, <1>5, <1>8, SegmentBelow
  <1>11. SameChunks(h, k0) /\ SystemPart(k0) = AddSegment(q, e) BY <1>10 DEF Below
  <1>12. HeapInv(AddSegment(q, e), e.newPages, foreign) /\ Initialized(AddSegment(q, e))
    BY <1>6, <1>7, SegmentKeeps
  <1>13. HeapInv(SystemPart(k0), e.newPages, foreign) /\ Initialized(k0)
    BY <1>11, <1>12, SystemReads
  <1>14. /\ e.tbase \in Nat /\ e.tbase % 4 = 0 /\ e.tbase = pages * PageWords
         /\ e.newPages \in Nat /\ e.newPages <= MaxPages
    BY <1>6, RegionFacts
  <1>15. /\ k0.older = Segments(h) /\ k0.top = NewTop(e.tbase) /\ k0.seg.base = e.tbase
    BY <1>4, <1>8 DEF AddSegment, Grown, State, Fields
  <1>16. PICK pg, nt, n, G : pg = e.newPages /\ nt = k0.top /\ n = k0.topsize /\ G = FakeAt(k0)
    OBVIOUS
  <1>17. Placing(k0, nt, n, G) BY <1>13, <1>14, <1>16, PlacingFacts
  <1>18. nt \in Nat /\ n \in Nat /\ G = nt + n /\ EndsAt(nt, G) BY <1>17 DEF Placing
  <1>19. nt = e.tbase + 2
    <2>1. PICK b : b = e.tbase OBVIOUS
    <2>2. NewTop(b) = b + 2 BY <1>14, <2>1, Layout
    <2> QED BY <1>15, <1>16, <2>1, <2>2
  <1>20. PICK p, m : p = h.top /\ m = h.topsize OBVIOUS
  <1>21. pages \in Nat /\ pages <= MaxPages BY MemoryAssumption DEF MemoryInv
  <1>22. Placing(h, p, m, F) BY <1>1, <1>5, <1>6, <1>20, <1>21, PlacingFacts
  <1>23. /\ p \in Nat /\ p + 4 <= F /\ F % 4 = 2 /\ h.seg.base + h.seg.size = F + 14
         /\ EndsAt(p, F)
    BY <1>22 DEF Placing, EndsAt
  <1>24. F + 14 < nt
    <2>1. Limit(q.seg) <= pages * PageWords /\ q.seg = h.seg
      <3>1. q.seg = h.seg BY <1>5, SystemFields
      <3>2. Initialized(q) BY <1>5, SystemReads
      <3> QED BY <1>6, <3>1, <3>2 DEF HeapInv, NewestSegment
    <2>2. F + 14 <= e.tbase BY <1>14, <1>23, <2>1 DEF Limit
    <2> QED BY <1>4, <1>14, <1>19, <2>2
  <1>25. SegmentLayout(h, F) BY <1>4, <1>20, <1>23, SegmentLayoutFacts
  <1>26. PICK s : s = F - p OBVIOUS
  <1>27. F - p \in BinSizes BY <1>23, EndFacts
  <1>28. PICK k, l : k = InitTop(k0) /\ l = SetSizeAndPinuseOfInuseChunk(k, F, 8) OBVIOUS
  <1>29. PICK f, z : f = FenceRow(l.tag, F + 8, F + 12) /\ z = [l EXCEPT !.tag = f] OBVIOUS
  <1>30. PICK g : g = SetFreeWithPinuse(z, p, s, F) OBVIOUS
  <1>31. AddSegmentTags(h, e) = InsertChunk(g, p, s)
    BY <1>4, <1>8, <1>20, <1>23, <1>25, <1>26, <1>28, <1>29, <1>30, AddSegmentSteps
  <1>32. LastChunk(h.tag, F, p) BY <1>1, <1>2, <1>20, TopIsLast
  <1>33. SameButTags(k0, g) /\ Tagged(g) /\ Segmented(h.tag, g.tag, F, p, nt, G)
    BY <1>4, <1>11, <1>16, <1>18, <1>20, <1>23, <1>24, <1>25, <1>26, <1>27, <1>28, <1>29,
       <1>30, <1>32, SegmentedFacts
  <1>34. PICK i : i = InsertChunk(g, p, s) OBVIOUS
  <1>35. Enlarged(g, i, G, S \cup {nt}, A) /\ Steady(h, i, A)
    BY <1>1, <1>2, <1>11, <1>16, <1>18, <1>20, <1>24, <1>26, <1>33, <1>34, SegmentWhole
  <1>36. SameButBins(g, i) /\ FakeAt(i) = G /\ Whole(i, G, S \cup {nt}, A) BY <1>35 DEF Enlarged
  <1>37. SameSystem(k0, i) BY <1>33, <1>36 DEF SameButTags, SameButBins, SameSystem
  <1>38. PICK T : T = S \cup {nt} OBVIOUS
  <1>39. T = FirstChunks(k0)
    <2>1. k0.older = h.older \cup {h.seg} BY <1>15 DEF Segments
    <2> QED BY <1>1, <1>15, <1>19, <1>38, <2>1 DEF FirstChunks
  <1>40. HeapOK(i, A, pg) /\ Initialized(i)
    BY <1>13, <1>16, <1>36, <1>37, <1>38, <1>39, HeapFromWhole
  <1> QED BY <1>9, <1>16, <1>31, <1>34, <1>35, <1>40 DEF Extends, Sustains

(* New memory, wherever it is, keeps the heap whole and everyone's chunks  *)
(* in place.                                                               *)
LEMMA ExtendSustains ==
    ASSUME MemoryInv, NEW h, NEW A, HeapOK(h, A, pages),
           NEW e, ExtensionOK(e), e.tbase # CMFAIL
    PROVE  Extends(h, Extend(h, e), A, e.newPages)
  BY ExtendFirst, ExtendAppend, ExtendSegment

-----------------------------------------------------------------------------
(* How a call of malloc for nb words may end, from the heap h.             *)
Granted(h, g, A, p, nb, pg) ==
    /\ HeapOK(g, A \cup {p}, pg) /\ p \notin A /\ p # NULL
    /\ g.tag[p].size \in Nat /\ g.tag[p].size >= nb
    /\ Steady(h, g, A)

Served(h, o, A, nb) ==
    /\ o.pages \in pages .. MaxPages
    /\ IF o.p = NULL THEN Sustains(h, o.h, A, o.pages)
       ELSE Granted(h, o.h, A, o.p, nb, o.pages)

(* A request served from the heap, in terms of the whole state.            *)
LEMMA GaveGrants ==
    ASSUME NEW x, NEW A, NEW pg \in Nat, pg <= MaxPages, HeapOK(x, A, pg), Initialized(x),
           NEW F, F = FakeAt(x), NEW S, S = FirstChunks(x), NEW g, NEW p, NEW nb,
           Gave(x, g, F, S, A, p, nb)
    PROVE  Granted(x, g, A, p, nb, pg)
  <1>1. PICK B : B = A \cup {p} OBVIOUS
  <1>2. SameHeap(x, g) /\ FakeAt(g) = F /\ Whole(g, F, S, B) BY <1>1 DEF Gave
  <1>3. HeapOK(g, B, pg) BY <1>2, WholeIsHeap
  <1>4. Whole(x, F, S, A) BY DEF HeapOK
  <1>5. Known(x, F, S, A) BY <1>4, WholeFacts
  <1>6. FreeAt(x.tag, F, p) BY DEF Gave
  <1>7. p \notin A BY <1>5, <1>6 DEF Known, UsedAt, FreeAt
  <1>8. p # NULL BY <1>5, <1>6 DEF Known, FreeAt
  <1>9. g.tag[p].size \in Nat /\ g.tag[p].size >= nb /\ Steady(x, g, A) BY DEF Gave
  <1> QED BY <1>1, <1>3, <1>7, <1>8, <1>9 DEF Granted

(* The contiguity flag keeps the heap.                                     *)
LEMMA FlagSustains ==
    ASSUME MemoryInv, NEW h, NEW A, HeapOK(h, A, pages), NEW c \in BOOLEAN,
           NEW pg \in pages .. MaxPages, NEW g, g = [h EXCEPT !.contiguous = c]
    PROVE  Sustains(h, g, A, pg)
  <1>1. PICK q : q = SystemPart(h) OBVIOUS
  <1>2. HeapInv(q, pages, foreign) BY <1>1 DEF HeapOK
  <1>3. pages \in Nat /\ pages <= MaxPages /\ pg \in Nat /\ pages <= pg /\ pg <= MaxPages
    BY MemoryAssumption DEF MemoryInv
  <1>4. HeapInv([q EXCEPT !.contiguous = c], pg, foreign) BY <1>2, <1>3, LargerMemoryKeeps
  <1>5. Tagged(h) BY DEF HeapOK, Whole, Loose, Blank
  <1>6. State(h) BY <1>5 DEF Tagged
  <1>7. Below(h, g, [q EXCEPT !.contiguous = c]) BY <1>1, <1>6, FlagBelow
  <1>8. SameChunks(h, g) /\ HeapInv(SystemPart(g), pg, foreign) BY <1>4, <1>7 DEF Below
  <1>9. /\ State(g) /\ g.tag = h.tag /\ g.bins = h.bins /\ g.smallmap = h.smallmap
        /\ g.dv = h.dv /\ g.dvsize = h.dvsize
    BY <1>8 DEF SameChunks
  <1>10. /\ g.top = h.top /\ g.topsize = h.topsize /\ g.seg = h.seg /\ g.older = h.older
    BY <1>6 DEF State, Fields
  <1>11. Tagged(g) BY <1>5, <1>9 DEF Tagged
  <1>12. Steady(h, g, A) BY <1>9 DEF Steady
  <1>13. CASE Initialized(h)
    <2>1. PICK F, S : F = FakeAt(h) /\ S = FirstChunks(h) OBVIOUS
    <2>2. Whole(h, F, S, A) BY <1>13, <2>1 DEF HeapOK
    <2>3. PICK X : X = {h.top, h.dv} OBVIOUS
    <2>4. Loose(h, F, S, A, X) /\ TopOK(h, F) /\ DvOK(h, F) BY <2>2, <2>3 DEF Whole
    <2>5. \A x : FreeAt(h.tag, F, x) => (x \in X <=> x \in X) OBVIOUS
    <2>6. Loose(g, F, S, A, X) BY <1>9, <2>4, <2>5, SameLoose
    <2>7. TopOK(g, F) /\ DvOK(g, F) BY <1>9, <1>10, <2>4 DEF TopOK, DvOK
    <2>8. Whole(g, F, S, A) BY <1>9, <1>10, <2>3, <2>6, <2>7 DEF Whole
    <2>9. Initialized(g) /\ FakeAt(g) = F /\ FirstChunks(g) = S
      BY <1>10, <1>13, <2>1 DEF Initialized, FakeAt, FirstChunks
    <2> QED BY <1>8, <1>12, <2>8, <2>9 DEF HeapOK, Sustains
  <1>14. CASE ~Initialized(h)
    <2>1. Blank(h, A) BY <1>14 DEF HeapOK
    <2>2. BinsOK(h) /\ \A x, s : ~Filed(h, x, s) BY <2>1 DEF Blank
    <2>3. BinsOK(g) /\ \A x, s : ~Filed(g, x, s) BY <1>9, <2>2, BinsKept
    <2>4. Blank(g, A) BY <1>9, <1>11, <2>1, <2>3 DEF Blank
    <2>5. ~Initialized(g) BY <1>10, <1>14 DEF Initialized
    <2> QED BY <1>8, <1>12, <2>4, <2>5 DEF HeapOK, Sustains
  <1> QED BY <1>13, <1>14

(* Chunks that two steps leave alone are left alone by both.               *)
LEMMA SteadyAgain ==
    ASSUME NEW h, NEW k, NEW g, NEW A, Steady(h, k, A), Steady(k, g, A)
    PROVE  Steady(h, g, A)
  BY DEF Steady

(* The system layer serves the request, or fails.                          *)
LEMMA SystemServes ==
    ASSUME MemoryInv, NEW h, NEW A, HeapOK(h, A, pages), NEW nb, AnySize(nb),
           NeedsSystem(h, nb), NEW g \in Grants
    PROVE  Served(h, FromSystem(h, nb, g), A, nb)
  <1>1. PICK q : q = SystemPart(h) OBVIOUS
  <1>2. HeapInv(q, pages, foreign) BY <1>1 DEF HeapOK
  <1>3. pages \in Nat /\ pages <= MaxPages BY MemoryAssumption DEF MemoryInv
  <1>4. nb \in 0 .. MaxSizeT BY AddrWordsFacts, PageAssumption DEF AnySize, Proper, MaxSizeT
  <1>5. PICK o : o = FromSystem(h, nb, g) OBVIOUS
  <1>6. CASE Oversized(nb)
    <2>1. o = Outcome(h, NULL, pages, Ended("null", FALSE)) BY <1>5, <1>6 DEF FromSystem
    <2>2. o.h = h /\ o.p = NULL /\ o.pages = pages BY <2>1 DEF Outcome
    <2>3. Sustains(h, h, A, pages) BY DEF Sustains, Steady
    <2> QED BY <1>3, <1>5, <2>2, <2>3 DEF Served
  <1>7. CASE ~Oversized(nb)
    <2>1. PICK e : e = Acquire(h, nb, g) OBVIOUS
    <2>2. e = Acquire(q, nb, g) BY <1>1, <2>1, AcquireReads
    <2>3. NeedsSystem(q, nb) BY <1>1, SystemReads
    <2>4. ExtensionOK(e) BY <1>2, <1>4, <1>7, <2>2, <2>3, AcquireFacts
    <2>5. e.newPages \in pages .. MaxPages /\ e.contiguous \in BOOLEAN BY <2>4 DEF ExtensionOK
    <2>6. CASE e.tbase = CMFAIL
      <3>1. PICK r : r = Ended(IF e.trap THEN "trap" ELSE "null", e.refused) OBVIOUS
      <3>2. PICK k : k = [h EXCEPT !.contiguous = e.contiguous] OBVIOUS
      <3>3. o = Outcome(k, NULL, e.newPages, r)
        BY <1>5, <1>7, <2>1, <2>6, <3>1, <3>2 DEF FromSystem
      <3>4. o.h = k /\ o.p = NULL /\ o.pages = e.newPages BY <3>3 DEF Outcome
      <3>5. PICK c, pg : c = e.contiguous /\ pg = e.newPages OBVIOUS
      <3>6. Sustains(h, k, A, pg) BY <2>5, <3>2, <3>5, FlagSustains
      <3> QED BY <1>5, <2>5, <3>4, <3>5, <3>6 DEF Served
    <2>7. CASE e.tbase # CMFAIL
      <3>1. PICK x, pg : x = Extend(h, e) /\ pg = e.newPages OBVIOUS
      <3>2. Extends(h, x, A, pg) BY <2>4, <2>7, <3>1, ExtendSustains
      <3>3. HeapOK(x, A, pg) /\ Steady(h, x, A) /\ Initialized(x)
        BY <3>2 DEF Extends, Sustains
      <3>4. pg \in Nat /\ pg <= MaxPages BY <1>3, <2>5, <3>1
      <3>5. CASE NeedsSystem(x, nb)
        <4>1. o = Outcome(x, NULL, e.newPages, Ended("null", e.refused))
          BY <1>5, <1>7, <2>1, <2>7, <3>1, <3>5 DEF FromSystem
        <4>2. o.h = x /\ o.p = NULL /\ o.pages = e.newPages BY <4>1 DEF Outcome
        <4> QED BY <1>5, <2>5, <3>1, <3>3, <4>2 DEF Served, Sustains
      <3>6. CASE ~NeedsSystem(x, nb)
        <4>1. o = Outcome(SplitTop(x, nb).h, x.top, e.newPages, Ended("mem", e.refused))
          BY <1>5, <1>7, <2>1, <2>7, <3>1, <3>6 DEF FromSystem
        <4>2. o.h = SplitTop(x, nb).h /\ o.p = x.top /\ o.pages = pg
          BY <3>1, <4>1 DEF Outcome
        <4>3. PICK F, S : F = FakeAt(x) /\ S = FirstChunks(x) OBVIOUS
        <4>4. Whole(x, F, S, A) BY <3>3, <4>3 DEF HeapOK
        <4>5. x.topsize \in Nat /\ x.topsize < AddrWords - 15 BY <4>3, <4>4, SizesBelow
        <4>6. nb < x.topsize BY <1>4, <3>6, <4>5 DEF NeedsSystem
        <4>7. Proper(nb)
          <5>1. nb # MaxSizeT BY <1>4, <4>5, <4>6, AddrWordsFacts DEF MaxSizeT
          <5> QED BY <5>1 DEF AnySize
        <4>8. nb \in Nat /\ nb > 0 /\ nb % 4 = 0 BY <4>7 DEF Proper
        <4>9. Gave(x, SplitTop(x, nb).h, F, S, A, x.top, nb)
          BY <4>3, <4>4, <4>6, <4>8, TopGave
        <4>10. PICK z, p : z = o.h /\ p = o.p OBVIOUS
        <4>11. Gave(x, z, F, S, A, p, nb) BY <4>2, <4>9, <4>10
        <4>12. Granted(x, z, A, p, nb, pg) BY <3>3, <3>4, <4>3, <4>11, GaveGrants
        <4>13. Steady(h, z, A) BY <3>3, <4>12, SteadyAgain DEF Granted
        <4>14. Granted(h, z, A, p, nb, pg) BY <4>12, <4>13 DEF Granted
        <4>15. p # NULL BY <4>12 DEF Granted
        <4> QED BY <1>5, <2>5, <3>1, <4>2, <4>10, <4>14, <4>15 DEF Served
      <3> QED BY <3>5, <3>6
    <2> QED BY <2>6, <2>7
  <1> QED BY <1>6, <1>7

(* Before the first memory nothing is found inside the heap.               *)
LEMMA BlankFinds ==
    ASSUME NEW h, NEW A, Blank(h, A), h.topsize = 0, NEW nb, AnySize(nb)
    PROVE  FromHeap(h, nb).p = NULL /\ NeedsSystem(h, nb)
  <1>1. BinsOK(h) /\ \A x, s : ~Filed(h, x, s) BY DEF Blank
  <1>2. h.dvsize = 0 BY DEF Blank
  <1>3. nb \in Nat /\ nb > 0
    BY AddrWordsFacts, PageAssumption DEF AnySize, Proper, MaxSizeT
  <1>4. \A s \in BinSizes : h.bins[s] = <<>>
    <2> SUFFICES ASSUME NEW s \in BinSizes, h.bins[s] # <<>> PROVE FALSE OBVIOUS
    <2>1. Filed(h, Head(h.bins[s]), s) BY <1>1, HeadFiled
    <2> QED BY <1>1, <2>1
  <1>5. h.smallmap = {}
    <2> SUFFICES ASSUME NEW i \in h.smallmap PROVE FALSE OBVIOUS
    <2>1. 2 * i \in BinSizes /\ h.bins[2 * i] # <<>> BY <1>1, MarkFacts
    <2> QED BY <1>4, <2>1
  <1>6. PICK exact, small, tree :
            /\ exact = h.smallmap \cap {SmallIndex(nb), SmallIndex(nb) + 1}
            /\ small = SmallFits(h, nb) /\ tree = TreeFits(h, nb)
    OBVIOUS
  <1>7. exact = {} /\ small = {} BY <1>5, <1>6 DEF SmallFits
  <1>8. tree = {} BY <1>4, <1>6 DEF TreeFits, LargeSizes
  <1>9. PICK r : r = FromHeap(h, nb) OBVIOUS
  <1>10. exact # {} => small # {} BY <1>7
  <1>11. Chooses(h, nb, exact, small, tree, r) BY <1>6, <1>9, <1>10, FromHeapCases
  <1>12. NeedsSystem(h, nb) BY <1>3 DEF NeedsSystem
  <1>13. ~(nb <= h.dvsize) BY <1>2, <1>3
  <1>14. r = NothingFits BY <1>7, <1>8, <1>11, <1>12, <1>13 DEF Chooses
  <1> QED BY <1>9, <1>12, <1>14 DEF NothingFits, Got

(* A call of malloc, whichever way it goes.                                *)
LEMMA MallocServes ==
    ASSUME MemoryInv, NEW A, HeapOK(gm, A, pages), NEW nb, AnySize(nb),
           NEW o \in MallocOutcomes(nb)
    PROVE  Served(gm, o, A, nb)
  <1>1. PICK h : h = InitAllocator(gm) OBVIOUS
  <1>2. Sustains(gm, h, A, pages) BY <1>1, InitSustains
  <1>3. HeapOK(h, A, pages) /\ Steady(gm, h, A) BY <1>2 DEF Sustains
  <1>4. PICK a : a = FromHeap(h, nb) OBVIOUS
  <1>5. pages \in Nat /\ pages <= MaxPages BY MemoryAssumption DEF MemoryInv
  <1>6. CASE a.p # NULL
    <2>1. PICK r : r = IF a.p = h.top THEN Ended("mem", FALSE) ELSE result OBVIOUS
    <2>2. o = Outcome(a.h, a.p, pages, r) BY <1>1, <1>4, <1>6, <2>1 DEF MallocOutcomes
    <2>3. o.h = a.h /\ o.p = a.p /\ o.pages = pages BY <2>2 DEF Outcome
    <2>4. Initialized(h)
      <3> SUFFICES ASSUME ~Initialized(h) PROVE FALSE OBVIOUS
      <3>1. Blank(h, A) /\ HeapInv(SystemPart(h), pages, foreign) BY <1>3 DEF HeapOK
      <3>2. ~Initialized(SystemPart(h)) /\ SystemPart(h).topsize = h.topsize
        BY SystemReads, SystemFields
      <3>3. h.topsize = 0 BY <3>1, <3>2 DEF HeapInv, Accounting
      <3> QED BY <1>4, <1>6, <3>1, <3>3, BlankFinds
    <2>5. PICK F, S : F = FakeAt(h) /\ S = FirstChunks(h) OBVIOUS
    <2>6. Whole(h, F, S, A) BY <1>3, <2>4, <2>5 DEF HeapOK
    <2>7. Found(h, a, F, S, A, nb) BY <1>4, <2>5, <2>6, HeapFound
    <2>8. PICK z, p : z = a.h /\ p = a.p OBVIOUS
    <2>9. Gave(h, z, F, S, A, p, nb) BY <1>6, <2>7, <2>8 DEF Found
    <2>10. PICK pg : pg = pages OBVIOUS
    <2>11. pg \in Nat /\ pg <= MaxPages /\ HeapOK(h, A, pg) BY <1>3, <1>5, <2>10
    <2>12. Granted(h, z, A, p, nb, pg) BY <2>4, <2>5, <2>9, <2>11, GaveGrants
    <2>13. Steady(gm, z, A) BY <1>3, <2>12, SteadyAgain DEF Granted
    <2>14. Granted(gm, z, A, p, nb, pg) BY <2>12, <2>13 DEF Granted
    <2> QED BY <1>5, <1>6, <2>3, <2>8, <2>10, <2>14 DEF Served
  <1>7. CASE a.p = NULL
    <2>1. NeedsSystem(h, nb)
      <3>1. CASE Initialized(h)
        <4>1. PICK F, S : F = FakeAt(h) /\ S = FirstChunks(h) OBVIOUS
        <4>2. Whole(h, F, S, A) BY <1>3, <3>1, <4>1 DEF HeapOK
        <4>3. Found(h, a, F, S, A, nb) BY <1>4, <4>1, <4>2, HeapFound
        <4> QED BY <1>7, <4>3 DEF Found
      <3>2. CASE ~Initialized(h)
        <4>1. Blank(h, A) /\ HeapInv(SystemPart(h), pages, foreign) BY <1>3, <3>2 DEF HeapOK
        <4>2. ~Initialized(SystemPart(h)) /\ SystemPart(h).topsize = h.topsize
          BY <3>2, SystemReads, SystemFields
        <4>3. h.topsize = 0 BY <4>1, <4>2 DEF HeapInv, Accounting
        <4> QED BY <4>1, <4>3, BlankFinds
      <3> QED BY <3>1, <3>2
    <2>2. PICK g \in Grants : o = FromSystem(h, nb, g)
      BY <1>1, <1>4, <1>7 DEF MallocOutcomes
    <2>3. Served(h, o, A, nb) BY <1>3, <2>1, <2>2, SystemServes
    <2>4. CASE o.p = NULL
      <3>1. Sustains(h, o.h, A, o.pages) BY <2>3, <2>4 DEF Served
      <3>2. PICK z : z = o.h OBVIOUS
      <3>3. Steady(gm, z, A) BY <1>3, <3>1, <3>2, SteadyAgain DEF Sustains
      <3>4. Sustains(gm, o.h, A, o.pages) BY <3>1, <3>2, <3>3 DEF Sustains
      <3> QED BY <2>3, <2>4, <3>4 DEF Served
    <2>5. CASE o.p # NULL
      <3>1. Granted(h, o.h, A, o.p, nb, o.pages) BY <2>3, <2>5 DEF Served
      <3>2. PICK z : z = o.h OBVIOUS
      <3>3. Steady(gm, z, A) BY <1>3, <3>1, <3>2, SteadyAgain DEF Granted
      <3>4. Granted(gm, o.h, A, o.p, nb, o.pages) BY <3>1, <3>2, <3>3 DEF Granted
      <3> QED BY <2>3, <2>5, <3>4 DEF Served
    <2> QED BY <2>4, <2>5
  <1> QED BY <1>6, <1>7

-----------------------------------------------------------------------------
(* The sizes the calls ask for.                                            *)

(* A request below the limit is a chunk size, and short of the wrap.       *)
LEMMA RequestProper ==
    ASSUME NEW w \in Nat, w < MaxRequest
    PROVE  Proper(Request2Size(w)) /\ Request2Size(w) >= w + 1
  <1>1. AddrWords \in Nat /\ AddrWords % 4 = 0 BY AddrWordsFacts
  <1>2. MaxRequest = AddrWords - 16 BY DEF MaxRequest, MinChunkSize
  <1>3. CASE w < 3
    <2>1. Request2Size(w) = 4 BY <1>3 DEF Request2Size, MinRequest, MinChunkSize, ChunkOverhead
    <2> QED BY <1>1, <1>2, <1>3, <2>1 DEF Proper, MaxSizeT
  <1>4. CASE w >= 3
    <2>1. Request2Size(w) = ((w + 4) \div 4) * 4
      BY <1>4 DEF Request2Size, MinRequest, MinChunkSize, ChunkOverhead, PadRequest,
                  MallocAlignment
    <2>2. PICK q : q = ((w + 4) \div 4) * 4 OBVIOUS
    <2>3. q \in Nat /\ q % 4 = 0 /\ q >= 4 /\ q <= w + 4 /\ q >= w + 1 BY <1>4, <2>2, SMT
    <2>4. q <= MaxSizeT BY <1>1, <1>2, <2>3 DEF MaxSizeT
    <2> QED BY <2>1, <2>2, <2>3, <2>4 DEF Proper
  <1> QED BY <1>3, <1>4

(* Every request is a chunk size, or the one that always fails.            *)
LEMMA RequestAnySize ==
    ASSUME NEW w \in Nat
    PROVE  /\ AnySize(ChunkSizeFor(w))
           /\ ChunkSizeFor(w) # MaxSizeT => w < MaxRequest /\ ChunkSizeFor(w) = Request2Size(w)
  <1>0. AddrWords \in Nat /\ MaxRequest \in Int
    BY AddrWordsFacts DEF MaxRequest, MinChunkSize
  <1>1. CASE w >= MaxRequest
    <2>1. ChunkSizeFor(w) = MaxSizeT BY <1>1 DEF ChunkSizeFor
    <2> QED BY <2>1 DEF AnySize
  <1>2. CASE w < MaxRequest
    <2>1. ChunkSizeFor(w) = Request2Size(w) BY <1>0, <1>2 DEF ChunkSizeFor
    <2>2. Proper(Request2Size(w)) BY <1>2, RequestProper
    <2> QED BY <1>2, <2>1, <2>2 DEF AnySize
  <1> QED BY <1>0, <1>1, <1>2

(* A set of numbers that has a bound has a greatest element.               *)
LEMMA GreatestElement ==
    ASSUME NEW T \in SUBSET Nat, T # {}, NEW b \in Nat, \A x \in T : x <= b
    PROVE  Max(T) \in T /\ \A x \in T : x <= Max(T)
  <1>1. PICK D : D = {b - x : x \in T} OBVIOUS
  <1>2. D \in SUBSET Nat /\ D # {}
    <2>1. \A x \in T : x \in Nat /\ x <= b OBVIOUS
    <2>2. \A d \in D : d \in Nat BY <1>1, <2>1
    <2> QED BY <1>1, <2>2
  <1>3. PICK d \in D : \A e \in D : d <= e BY <1>2, LeastElement
  <1>4. PICK m \in T : d = b - m BY <1>1, <1>3
  <1>5. \A x \in T : x <= m
    <2> TAKE x \in T
    <2>1. b - x \in D BY <1>1
    <2>2. d <= b - x BY <1>3, <2>1
    <2> QED BY <1>4, <2>2
  <1>6. \E y \in T : \A x \in T : x <= y BY <1>4, <1>5
  <1>7. Max(T) \in T /\ \A x \in T : x <= Max(T) BY <1>6 DEF Max
  <1> QED BY <1>7

(* Factors below the square root of the range have a product within it.    *)
LEMMA SmallFactors ==
    ASSUME NEW k \in Nat, NEW e \in Nat, k < HalfSize, 4 * e < HalfSize
    PROVE  k * e < AddrWords
  <1>1. AddrWords \in Nat /\ AddrWords >= 32 BY AddrWordsFacts, PageAssumption
  <1>2. PICK T : T = {x \in 1 .. AddrWords : x * x <= 4 * AddrWords} OBVIOUS
  <1>3. T \in SUBSET Nat BY <1>1, <1>2
  <1>4. T # {}
    <2>1. 1 \in 1 .. AddrWords /\ 1 * 1 <= 4 * AddrWords BY <1>1
    <2> QED BY <1>2, <2>1
  <1>5. \A x \in T : x <= AddrWords BY <1>1, <1>2
  <1>6. Max(T) \in T BY <1>1, <1>3, <1>4, <1>5, GreatestElement
  <1>7. HalfSize = Max(T) BY <1>2 DEF HalfSize
  <1>8. PICK H : H = HalfSize OBVIOUS
  <1>9. H \in Nat /\ H >= 1 /\ H * H <= 4 * AddrWords BY <1>1, <1>2, <1>6, <1>7, <1>8
  <1>10. PICK f : f = 4 * e OBVIOUS
  <1>11. f \in Nat /\ k < H /\ f < H BY <1>8, <1>10
  <1>12. k * f <= k * H BY <1>9, <1>11, SMT
  <1>13. k * H < H * H BY <1>9, <1>11, SMT
  <1>14. k * f = 4 * (k * e) BY <1>10, SMT
  <1>15. k * e \in Nat BY SMT
  <1>16. k * f \in Nat /\ k * H \in Nat /\ H * H \in Nat BY <1>9, <1>11, SMT
  <1>17. PICK x, y, z, n : x = k * f /\ y = k * H /\ z = H * H /\ n = k * e OBVIOUS
  <1>18. x <= y /\ y < z /\ z <= 4 * AddrWords /\ x = 4 * n /\ n \in Nat /\ y \in Nat /\ z \in Nat
    BY <1>9, <1>12, <1>13, <1>14, <1>15, <1>16, <1>17
  <1>19. n < AddrWords BY <1>1, <1>18
  <1> QED BY <1>17, <1>19

(* calloc asks for the product, unless it asks for too much.               *)
LEMMA CallocAsks ==
    ASSUME NEW k \in 0 .. MaxSizeT, NEW e \in 0 .. MaxSizeT,
           NEW r, r = CallocRequest(k, e)
    PROVE  r \in Nat /\ (r = MaxSizeT \/ r = k * e)
  <1>1. AddrWords \in Nat /\ AddrWords >= 32 /\ MaxSizeT = AddrWords - 1 /\ MaxSizeT \in Nat
    BY AddrWordsFacts, PageAssumption DEF MaxSizeT
  <1>2. k \in Nat /\ e \in Nat BY <1>1
  <1>3. PICK n : n = k * e OBVIOUS
  <1>4. n \in Nat BY <1>2, <1>3, SMT
  <1>5. PICK m : m = n % AddrWords OBVIOUS
  <1>6. m \in Nat /\ m <= n /\ (n < AddrWords => m = n) BY <1>1, <1>4, <1>5, SMT
  <1>7. r = IF k # 0 /\ (k >= HalfSize \/ 4 * e >= HalfSize) /\ m \div k # e THEN MaxSizeT ELSE m
    BY <1>3, <1>5 DEF CallocRequest
  <1>8. CASE r = MaxSizeT BY <1>1, <1>8
  <1>9. CASE r # MaxSizeT
    <2>1. r = m BY <1>7, <1>9
    <2>2. CASE k = 0
      <3>1. n = 0 BY <1>2, <1>3, <2>2, SMT
      <3> QED BY <1>3, <1>4, <1>6, <2>1, <3>1
    <2>3. CASE k # 0 /\ m \div k = e
      <3>1. PICK d : d = m \div k OBVIOUS
      <3>2. d * k <= m BY <1>2, <1>6, <2>3, <3>1, SMT
      <3>3. d = e BY <2>3, <3>1
      <3>4. e * k = n BY <1>2, <1>3, SMT
      <3>5. n <= m BY <3>2, <3>3, <3>4
      <3>6. n = m BY <1>4, <1>6, <3>5
      <3> QED BY <1>3, <1>4, <2>1, <3>6
    <2>4. CASE ~(k >= HalfSize \/ 4 * e >= HalfSize)
      <3>1. HalfSize \in Nat
        <4>2. PICK T : T = {x \in 1 .. AddrWords : x * x <= 4 * AddrWords} OBVIOUS
        <4>3. T \in SUBSET Nat BY <1>1, <4>2
        <4>4. T # {}
          <5>1. 1 \in 1 .. AddrWords /\ 1 * 1 <= 4 * AddrWords BY <1>1
          <5> QED BY <4>2, <5>1
        <4>5. \A x \in T : x <= AddrWords BY <1>1, <4>2
        <4>6. Max(T) \in T BY <1>1, <4>3, <4>4, <4>5, GreatestElement
        <4>7. HalfSize = Max(T) BY <4>2 DEF HalfSize
        <4> QED BY <4>3, <4>6, <4>7
      <3>2. k < HalfSize /\ 4 * e < HalfSize BY <1>2, <2>4, <3>1
      <3>3. k * e < AddrWords BY <1>2, <3>2, SmallFactors
      <3>4. m = n BY <1>3, <1>6, <3>3
      <3> QED BY <1>3, <1>4, <2>1, <3>4
    <2> QED BY <1>7, <1>9, <2>1, <2>2, <2>3, <2>4
  <1> QED BY <1>8, <1>9

-----------------------------------------------------------------------------
(* What the callers hold.                                                  *)

(* g is f with v at x; g is f without x.                                   *)
Gains(f, g, x, v) ==
    /\ DOMAIN g = {x} \cup DOMAIN f /\ g[x] = v
    /\ \A y \in DOMAIN f : y # x => g[y] = f[y]

Drops(f, g, x) == DOMAIN g = DOMAIN f \ {x} /\ \A y \in DOMAIN g : g[y] = f[y]

(* Adding an entry to a function.                                          *)
LEMMA WithFacts ==
    ASSUME NEW f, NEW x, NEW v, NEW g, g = With(f, x, v)
    PROVE  Gains(f, g, x, v)
  BY DEF With, Gains

(* Taking an entry out of a function.                                      *)
LEMMA WithoutFacts ==
    ASSUME NEW f, NEW x, NEW g, g = Without(f, x)
    PROVE  Drops(f, g, x)
  BY DEF Without, Drops

(* HeapOK, without the variables.                                          *)
Sound(h, A, pg, fr) ==
    /\ HeapInv(SystemPart(h), pg, fr)
    /\ IF Initialized(h) THEN Whole(h, FakeAt(h), FirstChunks(h), A) ELSE Blank(h, A)

(* The block b at p is as long and as aligned as promised.                 *)
BlockOK(h, p, b) ==
    /\ Proper(b.nb) /\ h.tag[p].size \in Nat /\ h.tag[p].size >= b.nb
    /\ b.align \in Nat /\ b.align >= 4 /\ Chunk2Mem(p) % b.align = 0

Blocks(h, lv) == \A p \in DOMAIN lv : BlockOK(h, p, lv[p])

(* The new chunk of a call under way is nobody's block yet, and it is long *)
(* enough for what the call will do with it.                               *)
Moving(h, lv, c) ==
    /\ c.op = "realloc" /\ c.old \in DOMAIN lv /\ c.p \notin DOMAIN lv
    /\ Proper(c.nb) /\ h.tag[c.p].size \in Nat /\ h.tag[c.p].size >= c.nb

Aligning(h, lv, c) ==
    /\ c.op = "memalign" /\ c.p \notin DOMAIN lv
    /\ Proper(c.nb) /\ c.align \in Nat /\ c.align > 4 /\ c.align % 4 = 0
    /\ h.tag[c.p].size \in Nat /\ h.tag[c.p].size >= c.nb + c.align

Pending(h, lv, c) == c = NoCall \/ Moving(h, lv, c) \/ Aligning(h, lv, c)

Owners(lv, c) == DOMAIN lv \cup (IF c = NoCall THEN {} ELSE {c.p})

Callers(h, lv, c) == Blocks(h, lv) /\ Pending(h, lv, c)

ResultOK(r) == r \in [kind : {"none", "mem", "null", "trap"}, refused : BOOLEAN]

HeapIInv ==
    /\ MemoryInv
    /\ Sound(gm, Owners(live, call), pages, foreign)
    /\ Callers(gm, live, call)
    /\ ResultOK(result)

(* Sound is HeapOK with the foreign pages of the state.                    *)
LEMMA SoundIsHeap ==
    ASSUME NEW h, NEW A, NEW pg
    PROVE  Sound(h, A, pg, foreign) <=> HeapOK(h, A, pg)
  BY DEF Sound, HeapOK

(* Blocks whose chunks keep their length stay what they are.               *)
LEMMA BlockStays ==
    ASSUME NEW h, NEW g, NEW p, NEW b, BlockOK(h, p, b), g.tag[p].size = h.tag[p].size
    PROVE  BlockOK(g, p, b)
  BY DEF BlockOK

(* Steps that leave the callers' chunks alone honour their blocks.         *)
LEMMA BlocksStay ==
    ASSUME NEW h, NEW g, NEW A, Steady(h, g, A), NEW lv, Blocks(h, lv), DOMAIN lv \subseteq A
    PROVE  Blocks(g, lv)
  <1> SUFFICES ASSUME NEW p \in DOMAIN lv PROVE BlockOK(g, p, lv[p]) BY DEF Blocks
  <1>1. PICK b : b = lv[p] OBVIOUS
  <1>2. BlockOK(h, p, b) BY <1>1 DEF Blocks
  <1>3. g.tag[p].size = h.tag[p].size BY DEF Steady
  <1>4. BlockOK(g, p, b) BY <1>2, <1>3, BlockStays
  <1> QED BY <1>1, <1>4

(* A block more among the callers'.                                        *)
LEMMA BlocksWith ==
    ASSUME NEW h, NEW lv, NEW p, NEW b, BlockOK(h, p, b),
           \A q \in DOMAIN lv : q # p => BlockOK(h, q, lv[q]),
           NEW l2, l2 = With(lv, p, b)
    PROVE  Blocks(h, l2)
  <1>1. /\ DOMAIN l2 = {p} \cup DOMAIN lv /\ l2[p] = b
        /\ \A y \in DOMAIN lv : y # p => l2[y] = lv[y]
    <2>1. Gains(lv, l2, p, b) BY WithFacts
    <2> QED BY <2>1 DEF Gains
  <1>2. \A q \in DOMAIN l2 : BlockOK(h, q, l2[q])
    <2> TAKE q \in DOMAIN l2
    <2>1. CASE q = p BY <1>1, <2>1
    <2>2. CASE q # p
      <3>1. q \in DOMAIN lv /\ l2[q] = lv[q] BY <1>1, <2>2
      <3> QED BY <2>2, <3>1
    <2> QED BY <2>1, <2>2
  <1> QED BY <1>2 DEF Blocks

(* A block aligned to four words is aligned because every chunk is.        *)
LEMMA OwnedFacts ==
    ASSUME NEW h, NEW F, NEW S, NEW A, Whole(h, F, S, A), F = FakeAt(h), NEW p \in A
    PROVE  /\ p \in Nat /\ p % 4 = 2 /\ Chunk2Mem(p) % 4 = 0
           /\ h.tag[p].size \in Nat /\ h.tag[p].size < AddrWords - 15 /\ h.tag[p].size >= 4
           /\ p # NULL
  <1>1. Known(h, F, S, A) BY WholeFacts
  <1>2. IsChunk(h.tag, F, p) BY <1>1 DEF Known, UsedAt
  <1>3. p \in Nat /\ p # NULL BY <1>1, <1>2 DEF Known
  <1>4. p % 4 = 2 /\ h.tag[p].size >= 4 BY <1>1, <1>2 DEF Known, Shape, Tiles
  <1>5. Chunk2Mem(p) % 4 = 0 BY <1>3, <1>4, SMT DEF Chunk2Mem
  <1>6. h.tag[p].size \in Nat /\ h.tag[p].size < AddrWords - 15 BY <1>2, SizesBelow
  <1> QED BY <1>3, <1>4, <1>5, <1>6

(* Somebody holds a block only of a heap that has memory.                  *)
LEMMA OwnedHeap ==
    ASSUME NEW h, NEW A, NEW pg, HeapOK(h, A, pg), A # {}
    PROVE  Initialized(h) /\ Whole(h, FakeAt(h), FirstChunks(h), A)
  BY DEF HeapOK, Blank

-----------------------------------------------------------------------------
(* How a call ends is one of the four ways.                                *)
LEMMA MorecoreRefused ==
    ASSUME NEW h, NEW nb, NEW g, NEW e, e = ContiguousMorecore(h, nb, g)
    PROVE  e.refused \in BOOLEAN
  <1>1. PICK br, ssize, pg, r : r = CopeWithPartialFailure(nb, br, ssize, pg, g[2]) OBVIOUS
  <1>2. \A b, s, q : CopeWithPartialFailure(nb, b, s, q, g[2]).refused \in BOOLEAN
    BY DEF CopeWithPartialFailure, Extension
  <1> QED BY <1>2 DEF ContiguousMorecore, Extension

(* Whether morecore was refused is a Boolean.                              *)
LEMMA AcquireRefused ==
    ASSUME NEW h, NEW nb, NEW g, NEW e, e = Acquire(h, nb, g)
    PROVE  e.refused \in BOOLEAN
  <1>1. PICK c : c = IF h.contiguous THEN ContiguousMorecore(h, nb, g)
                     ELSE Extension(CMFAIL, 0, pages, FALSE, FALSE, FALSE)
    OBVIOUS
  <1>2. c.refused \in BOOLEAN
    <2>1. PICK x : x = ContiguousMorecore(h, nb, g) OBVIOUS
    <2>2. x.refused \in BOOLEAN BY <2>1, MorecoreRefused
    <2> QED BY <1>1, <2>1, <2>2 DEF Extension
  <1>3. PICK n : n = NoncontiguousMorecore(nb, c, g[3]) OBVIOUS
  <1>4. n.refused \in BOOLEAN BY <1>2, <1>3 DEF NoncontiguousMorecore, Extension
  <1>5. e = IF c.tbase = CMFAIL /\ ~c.trap THEN n ELSE c BY <1>1, <1>3 DEF Acquire
  <1> QED BY <1>2, <1>4, <1>5

(* The result of a call that ends.                                         *)
LEMMA EndedOK ==
    ASSUME NEW k \in {"none", "mem", "null", "trap"}, NEW r \in BOOLEAN
    PROVE  ResultOK(Ended(k, r))
  BY DEF ResultOK, Ended

(* sys_alloc ends with a proper result.                                    *)
LEMMA SystemEnds ==
    ASSUME NEW h, NEW nb, NEW g, NEW o, o = FromSystem(h, nb, g)
    PROVE  ResultOK(o.result)
  <1>1. PICK e : e = Acquire(h, nb, g) OBVIOUS
  <1>2. PICK r : r = e.refused OBVIOUS
  <1>3. r \in BOOLEAN BY <1>1, <1>2, AcquireRefused
  <1>4. PICK x : x = Extend(h, e) OBVIOUS
  <1>5. \/ o.result = Ended("null", FALSE) \/ o.result = Ended("trap", r)
        \/ o.result = Ended("null", r) \/ o.result = Ended("mem", r)
    BY <1>1, <1>2, <1>4 DEF FromSystem, Outcome
  <1>6. /\ ResultOK(Ended("null", FALSE)) /\ ResultOK(Ended("trap", r))
        /\ ResultOK(Ended("null", r)) /\ ResultOK(Ended("mem", r))
    <2>1. ResultOK(Ended("null", FALSE)) BY EndedOK
    <2>2. ResultOK(Ended("trap", r)) BY <1>3, EndedOK
    <2>3. ResultOK(Ended("null", r)) BY <1>3, EndedOK
    <2>4. ResultOK(Ended("mem", r)) BY <1>3, EndedOK
    <2> QED BY <2>1, <2>2, <2>3, <2>4
  <1> QED BY <1>5, <1>6

(* malloc ends with a proper result.                                       *)
LEMMA MallocEnds ==
    ASSUME ResultOK(result), NEW nb, NEW o \in MallocOutcomes(nb)
    PROVE  ResultOK(o.result)
  <1>1. PICK h : h = InitAllocator(gm) OBVIOUS
  <1>2. PICK a : a = FromHeap(h, nb) OBVIOUS
  <1>3. CASE a.p # NULL
    <2>1. PICK r : r = IF a.p = h.top THEN Ended("mem", FALSE) ELSE result OBVIOUS
    <2>2. o = Outcome(a.h, a.p, pages, r) BY <1>1, <1>2, <1>3, <2>1 DEF MallocOutcomes
    <2>3. o.result = r BY <2>2 DEF Outcome
    <2>4. ResultOK(Ended("mem", FALSE)) BY EndedOK
    <2> QED BY <2>1, <2>3, <2>4
  <1>4. CASE a.p = NULL
    <2>1. PICK g \in Grants : o = FromSystem(h, nb, g) BY <1>1, <1>2, <1>4 DEF MallocOutcomes
    <2> QED BY <2>1, SystemEnds
  <1> QED BY <1>3, <1>4

(* A call that asks the system for nothing ends with a proper result.      *)
LEMMA QuietEnds ==
    ASSUME ResultOK(result), NEW h, Quiet(h)
    PROVE  ResultOK(result')
  <1>1. ResultOK(Ended("none", FALSE)) BY EndedOK
  <1> QED BY <1>1 DEF Quiet

-----------------------------------------------------------------------------
(* How a step preserves the invariant.                                     *)

(* The memory may have grown.                                              *)
LEMMA Arrives ==
    ASSUME MemoryInv, NEW g, NEW lv, NEW c, NEW pg \in pages .. MaxPages,
           gm' = g, live' = lv, call' = c, pages' = pg, foreign' = foreign,
           NEW A, A = Owners(lv, c), HeapOK(g, A, pg), Callers(g, lv, c), ResultOK(result')
    PROVE  HeapIInv'
  <1>1. MemoryInv'
    <2>1. pages \in Nat /\ MaxPages \in Nat /\ InitialPages \in Nat
      BY MemoryAssumption DEF MemoryInv
    <2>2. pages' \in InitialPages .. MaxPages BY <2>1 DEF MemoryInv
    <2>3. foreign' \subseteq InitialPages .. pages' - 1 BY <2>1 DEF MemoryInv
    <2> QED BY <2>2, <2>3 DEF MemoryInv
  <1>2. Sound(g, A, pg, foreign) BY SoundIsHeap
  <1>3. Sound(gm, Owners(live, call), pages, foreign)' BY <1>2
  <1>4. Callers(gm, live, call)' OBVIOUS
  <1> QED BY <1>1, <1>3, <1>4 DEF HeapIInv

(* The invariant, for a step that starts when no call is under way.        *)
Idle(A) ==
    /\ MemoryInv /\ HeapOK(gm, A, pages) /\ A = DOMAIN live /\ Blocks(gm, live)
    /\ ResultOK(result) /\ pages \in Nat /\ pages <= MaxPages /\ pages \in pages .. MaxPages

(* What the invariant says between calls.                                  *)
LEMMA IdleFacts ==
    ASSUME HeapIInv, call = NoCall, NEW A, A = DOMAIN live
    PROVE  Idle(A)
  <1>1. MemoryInv /\ Sound(gm, Owners(live, call), pages, foreign) /\ Callers(gm, live, call)
        /\ ResultOK(result)
    BY DEF HeapIInv
  <1>2. Owners(live, call) = A BY DEF Owners
  <1>3. HeapOK(gm, A, pages) BY <1>1, <1>2, SoundIsHeap
  <1>4. pages \in Nat /\ pages <= MaxPages /\ pages \in pages .. MaxPages
    BY <1>1, MemoryAssumption DEF MemoryInv
  <1> QED BY <1>1, <1>3, <1>4 DEF Idle, Callers

(* A block has been granted.                                               *)
LEMMA BlockGranted ==
    ASSUME NEW g, NEW A, NEW p, NEW pg, HeapOK(g, A, pg), p \in A, NEW w \in Nat,
           NEW c, c = ChunkSizeFor(w), g.tag[p].size >= c
    PROVE  /\ w < MaxRequest /\ c = Request2Size(w) /\ Proper(c) /\ c >= w + 1
           /\ g.tag[p].size \in Nat /\ Chunk2Mem(p) % 4 = 0
  <1>1. A # {} OBVIOUS
  <1>2. PICK F, S : F = FakeAt(g) /\ S = FirstChunks(g) OBVIOUS
  <1>3. Whole(g, F, S, A) BY <1>1, <1>2, OwnedHeap
  <1>4. g.tag[p].size \in Nat /\ g.tag[p].size < AddrWords - 15 /\ Chunk2Mem(p) % 4 = 0
    BY <1>2, <1>3, OwnedFacts
  <1>5. c # MaxSizeT BY <1>4, AddrWordsFacts DEF MaxSizeT
  <1>6. w < MaxRequest /\ c = Request2Size(w) BY <1>5, RequestAnySize
  <1>7. Proper(c) /\ c >= w + 1 BY <1>6, RequestProper
  <1> QED BY <1>4, <1>6, <1>7

-----------------------------------------------------------------------------
(* malloc and calloc.                                                      *)
LEMMA ObtainKeeps ==
    ASSUME HeapIInv, NEW w \in Nat, NEW nb, Obtain(w, nb),
           w < MaxRequest => nb = Request2Size(w)
    PROVE  HeapIInv'
  <1>1. PICK A, c : A = DOMAIN live /\ c = ChunkSizeFor(w) OBVIOUS
  <1>2. call = NoCall /\ call' = NoCall BY DEF Obtain
  <1>3. Idle(A) BY <1>1, <1>2, IdleFacts
  <1>4. PICK o \in MallocOutcomes(c) :
           /\ Leave(o)
           /\ live' = IF o.p = NULL THEN live ELSE With(live, o.p, Block(nb, MallocAlignment))
    BY <1>1 DEF Obtain
  <1>5. AnySize(c) BY <1>1, RequestAnySize
  <1>6. MemoryInv /\ HeapOK(gm, A, pages) /\ Blocks(gm, live) BY <1>3 DEF Idle
  <1>7. Served(gm, o, A, c) BY <1>5, <1>6, MallocServes
  <1>8. PICK g, p, pg : g = o.h /\ p = o.p /\ pg = o.pages OBVIOUS
  <1>9. gm' = g /\ pages' = pg /\ foreign' = foreign /\ result' = o.result
    BY <1>4, <1>8 DEF Leave
  <1>10. ResultOK(result') BY <1>3, <1>9, MallocEnds DEF Idle
  <1>11. pg \in pages .. MaxPages BY <1>7, <1>8 DEF Served
  <1>12. CASE p = NULL
    <2>1. HeapOK(g, A, pg) /\ Steady(gm, g, A) BY <1>7, <1>8, <1>12 DEF Served, Sustains
    <2>2. live' = live BY <1>4, <1>8, <1>12
    <2>3. Blocks(g, live) BY <1>1, <1>6, <2>1, BlocksStay
    <2>4. Callers(g, live, NoCall) BY <2>3 DEF Callers, Pending
    <2>5. A = Owners(live, NoCall) BY <1>1 DEF Owners
    <2> QED BY <1>2, <1>6, <1>9, <1>10, <1>11, <2>1, <2>2, <2>4, <2>5, Arrives
  <1>13. CASE p # NULL
    <2>1. Granted(gm, g, A, p, c, pg) BY <1>7, <1>8, <1>13 DEF Served
    <2>2. PICK B : B = A \cup {p} OBVIOUS
    <2>3. HeapOK(g, B, pg) /\ p \in B /\ p \notin A /\ g.tag[p].size >= c /\ Steady(gm, g, A)
      BY <2>1, <2>2 DEF Granted
    <2>4. /\ w < MaxRequest /\ c = Request2Size(w) /\ Proper(c)
          /\ g.tag[p].size \in Nat /\ Chunk2Mem(p) % 4 = 0
      BY <1>1, <2>3, BlockGranted
    <2>5. PICK b, lv : b = Block(nb, MallocAlignment) /\ lv = With(live, p, b) OBVIOUS
    <2>6. live' = lv BY <1>4, <1>8, <1>13, <2>5
    <2>7. nb = c BY <2>4
    <2>8. b.nb = c /\ b.align = 4 BY <2>5, <2>7 DEF Block, MallocAlignment
    <2>9. BlockOK(g, p, b) BY <2>3, <2>4, <2>8 DEF BlockOK
    <2>10. Blocks(g, live) BY <1>1, <1>6, <2>3, BlocksStay
    <2>11. \A q \in DOMAIN live : q # p => BlockOK(g, q, live[q]) BY <2>10 DEF Blocks
    <2>12. Blocks(g, lv) BY <2>5, <2>9, <2>11, BlocksWith
    <2>13. Callers(g, lv, NoCall) BY <2>12 DEF Callers, Pending
    <2>14. DOMAIN lv = B
      <3>1. Gains(live, lv, p, b) BY <2>5, WithFacts
      <3> QED BY <1>1, <2>2, <3>1 DEF Gains
    <2>15. B = Owners(lv, NoCall) BY <2>14 DEF Owners
    <2> QED BY <1>2, <1>6, <1>9, <1>10, <1>11, <2>3, <2>6, <2>13, <2>15, Arrives
  <1> QED BY <1>12, <1>13

(* malloc preserves the invariant.                                         *)
LEMMA MallocKeeps ==
    ASSUME HeapIInv, NEW w \in 0 .. MaxSizeT, Malloc(w)
    PROVE  HeapIInv'
  <1>1. w \in Nat BY AddrWordsFacts DEF MaxSizeT
  <1>2. MaxRequest \in Int BY AddrWordsFacts DEF MaxRequest, MinChunkSize
  <1>3. PICK c : c = ChunkSizeFor(w) OBVIOUS
  <1>4. Obtain(w, c) BY <1>3 DEF Malloc
  <1>5. w < MaxRequest => c = Request2Size(w) BY <1>1, <1>2, <1>3 DEF ChunkSizeFor
  <1> QED BY <1>1, <1>4, <1>5, ObtainKeeps

(* calloc preserves the invariant, wrapped product included.               *)
LEMMA CallocKeeps ==
    ASSUME HeapIInv, NEW k \in 0 .. MaxSizeT, NEW e \in 0 .. MaxSizeT, Calloc(k, e)
    PROVE  HeapIInv'
  <1>1. PICK r, c : r = CallocRequest(k, e) /\ c = Request2Size(k * e) OBVIOUS
  <1>2. r \in Nat /\ (r = MaxSizeT \/ r = k * e) BY <1>1, CallocAsks
  <1>3. Obtain(r, c) BY <1>1 DEF Calloc
  <1>4. r < MaxRequest => r # MaxSizeT
    BY <1>2, AddrWordsFacts DEF MaxRequest, MaxSizeT, MinChunkSize
  <1>5. r < MaxRequest => c = Request2Size(r) BY <1>1, <1>2, <1>4
  <1> QED BY <1>2, <1>3, <1>5, ObtainKeeps

-----------------------------------------------------------------------------
(* free and realloc.                                                       *)
Standing(A, F, S) == Whole(gm, F, S, A) /\ F = FakeAt(gm) /\ S = FirstChunks(gm) /\ Initialized(gm)

(* A heap with a chunk that somebody owns has memory.                      *)
LEMMA Stands ==
    ASSUME NEW A, HeapOK(gm, A, pages), A # {}, NEW F, F = FakeAt(gm), NEW S, S = FirstChunks(gm)
    PROVE  Standing(A, F, S)
  BY OwnedHeap DEF Standing

(* The chunks have been rearranged inside the heap.                        *)
LEMMA Rearranged ==
    ASSUME MemoryInv, NEW A, HeapOK(gm, A, pages), NEW F, NEW S, Standing(A, F, S),
           NEW g, NEW B, SameHeap(gm, g), FakeAt(g) = F, Whole(g, F, S, B)
    PROVE  HeapOK(g, B, pages)
  <1>1. PICK h, pg : h = gm /\ pg = pages OBVIOUS
  <1>2. pg \in Nat /\ pg <= MaxPages BY <1>1, MemoryAssumption DEF MemoryInv
  <1>3. HeapOK(h, A, pg) /\ Initialized(h) /\ F = FakeAt(h) /\ S = FirstChunks(h) /\ SameHeap(h, g)
    BY <1>1 DEF Standing
  <1>4. HeapOK(g, B, pg) BY <1>2, <1>3, WholeIsHeap
  <1> QED BY <1>1, <1>4

(* A step that leaves memory and foreign pages alone preserves the         *)
(* invariant with the heap.                                                *)
LEMMA QuietArrives ==
    ASSUME MemoryInv, ResultOK(result), NEW g, Quiet(g), NEW lv, NEW c,
           live' = lv, call' = c, NEW A, A = Owners(lv, c), HeapOK(g, A, pages), Callers(g, lv, c)
    PROVE  HeapIInv'
  <1>1. ResultOK(result') BY QuietEnds
  <1>2. gm' = g /\ pages' = pages /\ foreign' = foreign BY DEF Quiet, memoryVars
  <1>3. PICK pg : pg = pages OBVIOUS
  <1>4. pg \in pages .. MaxPages BY <1>3, MemoryAssumption DEF MemoryInv
  <1>5. HeapOK(g, A, pg) /\ pages' = pg BY <1>2, <1>3
  <1> QED BY <1>1, <1>2, <1>4, <1>5, Arrives

(* free preserves the invariant.                                           *)
LEMMA FreeKeeps ==
    ASSUME HeapIInv, NEW p \in DOMAIN live, Free(p)
    PROVE  HeapIInv'
  <1>1. PICK A, F, S : A = DOMAIN live /\ F = FakeAt(gm) /\ S = FirstChunks(gm) OBVIOUS
  <1>2. call = NoCall /\ call' = NoCall BY DEF Free
  <1>3. Idle(A) BY <1>1, <1>2, IdleFacts
  <1>4. /\ MemoryInv /\ HeapOK(gm, A, pages) /\ Blocks(gm, live) /\ ResultOK(result)
        /\ p \in A /\ A # {}
    BY <1>1, <1>3 DEF Idle
  <1>5. Standing(A, F, S) BY <1>1, <1>4, Stands
  <1>6. PICK h, s, g : h = gm /\ s = h.tag[p].size /\ g = Dispose(h, p, s) OBVIOUS
  <1>7. Quiet(g) BY <1>6 DEF Free, ChunkSize
  <1>8. Whole(h, F, S, A) /\ F = FakeAt(h) BY <1>5, <1>6 DEF Standing
  <1>9. Disposed(h, g, F, S, A, p) BY <1>4, <1>6, <1>8, DisposeWhole
  <1>10. PICK B, lv : B = A \ {p} /\ lv = Without(live, p) OBVIOUS
  <1>11. SameHeap(gm, g) /\ FakeAt(g) = F /\ Whole(g, F, S, B) /\ Steady(gm, g, B)
    BY <1>6, <1>9, <1>10 DEF Disposed
  <1>12. HeapOK(g, B, pages) BY <1>4, <1>5, <1>11, Rearranged
  <1>13. Drops(live, lv, p) BY <1>10, WithoutFacts
  <1>14. DOMAIN lv = B /\ \A q \in DOMAIN lv : lv[q] = live[q] /\ q \in DOMAIN live
    BY <1>1, <1>10, <1>13 DEF Drops
  <1>15. Blocks(gm, lv) BY <1>4, <1>14 DEF Blocks
  <1>16. Blocks(g, lv) BY <1>11, <1>14, <1>15, BlocksStay
  <1>17. Callers(g, lv, NoCall) BY <1>16 DEF Callers, Pending
  <1>18. B = Owners(lv, NoCall) BY <1>14 DEF Owners
  <1>19. live' = lv BY <1>10 DEF Free
  <1> QED BY <1>2, <1>4, <1>7, <1>12, <1>17, <1>18, <1>19, QuietArrives

(* The block p has been resized where it is.                               *)
LEMMA ResizedArrives ==
    ASSUME NEW A, A = DOMAIN live, Idle(A), NEW F, NEW S, Standing(A, F, S),
           NEW p \in A, NEW nb, Proper(nb), NEW g, Resized(gm, g, F, S, A, p, nb),
           gm' = g, live' = With(live, p, Block(nb, MallocAlignment)), call' = NoCall,
           pages' = pages, foreign' = foreign, ResultOK(result')
    PROVE  HeapIInv'
  <1>1. MemoryInv /\ HeapOK(gm, A, pages) /\ Blocks(gm, live) BY DEF Idle
  <1>2. /\ SameHeap(gm, g) /\ FakeAt(g) = F /\ Whole(g, F, S, A)
        /\ g.tag[p].size \in Nat /\ g.tag[p].size >= nb
    BY DEF Resized
  <1>3. Steady(gm, g, A \ {p}) BY DEF Resized
  <1>4. HeapOK(g, A, pages) BY <1>1, <1>2, Rearranged
  <1>5. PICK b, lv : b = Block(nb, MallocAlignment) /\ lv = With(live, p, b) OBVIOUS
  <1>6. Chunk2Mem(p) % 4 = 0 BY <1>2, OwnedFacts
  <1>7. b.nb = nb /\ b.align = 4 BY <1>5 DEF Block, MallocAlignment
  <1>8. BlockOK(g, p, b) BY <1>2, <1>6, <1>7 DEF BlockOK
  <1>9. \A q \in DOMAIN live : q # p => BlockOK(g, q, live[q])
    <2> TAKE q \in DOMAIN live
    <2> HAVE q # p
    <2>1. PICK x : x = live[q] OBVIOUS
    <2>2. BlockOK(gm, q, x) BY <1>1, <2>1 DEF Blocks
    <2>3. g.tag[q].size = gm.tag[q].size BY <1>3 DEF Steady
    <2>4. BlockOK(g, q, x) BY <2>2, <2>3, BlockStays
    <2> QED BY <2>1, <2>4
  <1>10. Blocks(g, lv) BY <1>5, <1>8, <1>9, BlocksWith
  <1>11. Callers(g, lv, NoCall) BY <1>10 DEF Callers, Pending
  <1>12. Gains(live, lv, p, b) BY <1>5, WithFacts
  <1>13. DOMAIN lv = A BY <1>12 DEF Gains
  <1>14. A = Owners(lv, NoCall) BY <1>13 DEF Owners
  <1>15. PICK pg : pg = pages OBVIOUS
  <1>16. pg \in pages .. MaxPages BY <1>15 DEF Idle
  <1>17. HeapOK(g, A, pg) /\ pages' = pg /\ live' = lv BY <1>4, <1>5, <1>15
  <1> QED BY <1>1, <1>11, <1>14, <1>16, <1>17, Arrives

(* realloc in place preserves the invariant.                               *)
LEMMA StaysPutKeeps ==
    ASSUME NEW A, A = DOMAIN live, Idle(A), NEW F, NEW S, Standing(A, F, S),
           NEW p \in A, NEW nb, Proper(nb), NEW g, Resized(gm, g, F, S, A, p, nb),
           StaysPut(p, nb, g)
    PROVE  HeapIInv'
  <1>1. Quiet(g) /\ live' = With(live, p, Block(nb, MallocAlignment)) /\ call' = NoCall
    BY DEF StaysPut
  <1>2. ResultOK(result') BY <1>1, QuietEnds DEF Idle
  <1>3. gm' = g /\ pages' = pages /\ foreign' = foreign BY <1>1 DEF Quiet, memoryVars
  <1> QED BY <1>1, <1>2, <1>3, ResizedArrives

(* What realloc starts from.                                               *)
Resizing(A, F, S, h, p, s, e, nb) ==
    /\ A = DOMAIN live /\ Idle(A) /\ Standing(A, F, S) /\ p \in A /\ Proper(nb)
    /\ h = gm /\ Whole(h, F, S, A) /\ F = FakeAt(h)
    /\ s = h.tag[p].size /\ s \in Nat /\ e = p + s
    /\ nb \in Nat /\ nb > 0 /\ nb % 4 = 0

(* realloc to a shorter block preserves the invariant.                     *)
LEMMA ShrinkKeeps ==
    ASSUME NEW A, NEW F, NEW S, NEW h, NEW p, NEW s, NEW e, NEW nb, Resizing(A, F, S, h, p, s, e, nb),
           ReallocShrink(p, nb)
    PROVE  HeapIInv'
  <1>1. /\ A = DOMAIN live /\ Idle(A) /\ Standing(A, F, S) /\ p \in A /\ Proper(nb)
        /\ h = gm /\ Whole(h, F, S, A) /\ F = FakeAt(h) /\ s = h.tag[p].size /\ s \in Nat
        /\ nb \in Nat /\ nb > 0 /\ nb % 4 = 0
    BY DEF Resizing
  <1>2. PICK g : g = TrimTo(h, p, s, nb) OBVIOUS
  <1>3. nb <= s /\ StaysPut(p, nb, g) BY <1>1, <1>2 DEF ReallocShrink, ChunkSize
  <1>4. Resized(h, g, F, S, A, p, nb) BY <1>1, <1>2, <1>3, ShrinkResizes
  <1> QED BY <1>1, <1>3, <1>4, StaysPutKeeps

(* realloc into the free chunk behind preserves the invariant.             *)
LEMMA NextKeeps ==
    ASSUME NEW A, NEW F, NEW S, NEW h, NEW p, NEW s, NEW e, NEW nb, Resizing(A, F, S, h, p, s, e, nb),
           ReallocIntoNext(p, nb)
    PROVE  HeapIInv'
  <1>1. /\ A = DOMAIN live /\ Idle(A) /\ Standing(A, F, S) /\ p \in A /\ Proper(nb)
        /\ h = gm /\ Whole(h, F, S, A) /\ F = FakeAt(h) /\ s = h.tag[p].size /\ s \in Nat
        /\ e = p + h.tag[p].size /\ nb \in Nat /\ nb > 0 /\ nb % 4 = 0
    BY DEF Resizing
  <1>2. PICK n : n = h.tag[e].size OBVIOUS
  <1>3. PICK t : t = h.tag[p].size + n OBVIOUS
  <1>4. PICK g : g = TrimTo(UnlinkChunk(h, e, n), p, t, nb) BY Zenon
  <1>5. /\ e # h.top /\ e # h.dv /\ ~h.tag[e].cinuse /\ t >= nb /\ StaysPut(p, nb, g)
    BY <1>1, <1>2, <1>3, <1>4 DEF ReallocIntoNext, GrowsIntoNext, ChunkSize, NextChunk
  <1>6. h.tag[e].cinuse \in BOOLEAN /\ (h.tag[e].cinuse = FALSE => FreeAt(h.tag, F, e))
    BY <1>1, BehindUsed
  <1>7. h.tag[e].cinuse = FALSE BY <1>5, <1>6
  <1>8. n \in Nat BY <1>1, <1>2, <1>6, <1>7, SizesBelow DEF FreeAt
  <1>9. nb <= t BY <1>1, <1>3, <1>5, <1>8, SMTT(60)
  <1>10. Resized(h, g, F, S, A, p, nb)
    BY <1>1, <1>2, <1>3, <1>4, <1>5, <1>7, <1>9, NextResizes
  <1> QED BY <1>1, <1>5, <1>10, StaysPutKeeps

(* realloc into dv preserves the invariant.                                *)
LEMMA DvKeeps ==
    ASSUME NEW A, NEW F, NEW S, NEW h, NEW p, NEW s, NEW e, NEW nb, Resizing(A, F, S, h, p, s, e, nb),
           ReallocIntoDv(p, nb)
    PROVE  HeapIInv'
  <1>1. /\ A = DOMAIN live /\ Idle(A) /\ Standing(A, F, S) /\ p \in A /\ Proper(nb)
        /\ h = gm /\ Whole(h, F, S, A) /\ F = FakeAt(h) /\ s = h.tag[p].size /\ s \in Nat
        /\ e = p + h.tag[p].size /\ nb \in Nat /\ nb > 0 /\ nb % 4 = 0
    BY DEF Resizing
  <1>2. PICK t : t = h.tag[p].size + h.dvsize OBVIOUS
  <1>3. PICK mid, r, e2 : mid = p + nb /\ r = t - nb /\ e2 = p + t OBVIOUS
  <1>4. PICK g : g = IF Splits(t, nb) THEN
                  [ClearPinuse(SetSizeAndPinuseOfFreeChunk(SetInuse(h, p, nb), mid, r), e2)
                      EXCEPT !.dv = mid, !.dvsize = r]
              ELSE [SetInuse(h, p, t) EXCEPT !.dv = NULL, !.dvsize = 0]
    OBVIOUS
  <1>5. StaysPut(p, nb, g) /\ e = h.dv /\ t >= nb
    BY <1>1, <1>2, <1>3, <1>4 DEF ReallocIntoDv, GrowsIntoDv, ChunkSize, NextChunk
  <1>6. h.dvsize \in Nat BY <1>1, SizesBelow
  <1>7. nb <= t BY <1>1, <1>2, <1>5, <1>6, SMTT(60)
  <1>8. Resized(h, g, F, S, A, p, nb)
    BY <1>1, <1>2, <1>3, <1>4, <1>5, <1>7, DvResizes, ZenonT(60)
  <1> QED BY <1>1, <1>5, <1>8, StaysPutKeeps

(* realloc into top preserves the invariant.                               *)
LEMMA TopKeeps ==
    ASSUME NEW A, NEW F, NEW S, NEW h, NEW p, NEW s, NEW e, NEW nb, Resizing(A, F, S, h, p, s, e, nb),
           ReallocIntoTop(p, nb)
    PROVE  HeapIInv'
  <1>1. /\ A = DOMAIN live /\ Idle(A) /\ Standing(A, F, S) /\ p \in A /\ Proper(nb)
        /\ h = gm /\ Whole(h, F, S, A) /\ F = FakeAt(h) /\ s = h.tag[p].size /\ s \in Nat
        /\ e = p + h.tag[p].size /\ nb \in Nat /\ nb > 0 /\ nb % 4 = 0
    BY DEF Resizing
  <1>2. PICK t : t = h.tag[p].size + h.topsize OBVIOUS
  <1>3. PICK mid, r : mid = p + nb /\ r = t - nb OBVIOUS
  <1>4. PICK g : g = Lay([SetInuse(h, p, nb) EXCEPT !.top = mid, !.topsize = r], mid, r, TRUE, FALSE)
    OBVIOUS
  <1>5. /\ gm' = g /\ e = h.top /\ t > nb /\ result' = Ended("mem", FALSE)
        /\ live' = With(live, p, Block(nb, MallocAlignment)) /\ call' = NoCall
        /\ pages' = pages /\ foreign' = foreign
    <2>1. /\ result' = Ended("mem", FALSE) /\ live' = With(live, p, Block(nb, MallocAlignment))
          /\ call' = NoCall /\ pages' = pages /\ foreign' = foreign
      BY DEF ReallocIntoTop
    <2>2. e = h.top /\ t > nb
      BY <1>1, <1>2 DEF ReallocIntoTop, GrowsIntoTop, ChunkSize, NextChunk
    <2>3. gm' = Lay([SetInuse(gm, p, nb) EXCEPT !.top = p + nb,
                        !.topsize = gm.tag[p].size + gm.topsize - nb],
                    p + nb, gm.tag[p].size + gm.topsize - nb, TRUE, FALSE)
      BY DEF ReallocIntoTop, ChunkSize
    <2>4. gm' = g
      <3>0. gm = h BY <1>1
      <3>3. PICK x, y : x = gm.tag[p].size /\ y = gm.topsize OBVIOUS
      <3>4. h.topsize \in Nat BY <1>1, SizesBelow
      <3>5. x \in Nat /\ y \in Nat /\ nb \in Nat /\ t = x + y /\ r = t - nb /\ mid = p + nb
        BY <1>1, <1>2, <1>3, <3>0, <3>3, <3>4
      <3>6. x + y - nb = r BY <3>5
      <3>1. p + nb = mid /\ gm.tag[p].size + gm.topsize - nb = r /\ gm = h
        BY <3>0, <3>3, <3>5, <3>6, Zenon
      <3>2. gm' = Lay([SetInuse(gm, p, nb) EXCEPT !.top = mid, !.topsize = r], mid, r, TRUE, FALSE)
        BY <2>3, <3>1, Zenon
      <3> QED BY <1>4, <3>1, <3>2, Zenon
    <2> QED BY <2>1, <2>2, <2>4
  <1>6. h.topsize \in Nat BY <1>1, SizesBelow
  <1>7. nb < t BY <1>1, <1>2, <1>5, <1>6
  <1>8. Resized(h, g, F, S, A, p, nb)
    BY <1>1, <1>2, <1>3, <1>4, <1>5, <1>7, TopResizes
  <1>9. ResultOK(result') BY <1>5, EndedOK
  <1> QED BY <1>1, <1>5, <1>8, <1>9, ResizedArrives

(* realloc that needs another chunk.                                       *)
LEMMA MoveKeeps ==
    ASSUME NEW A, NEW F, NEW S, NEW h, NEW p, NEW s, NEW e, NEW nb, Resizing(A, F, S, h, p, s, e, nb),
           ReallocMove(p, nb)
    PROVE  HeapIInv'
  <1>1. A = DOMAIN live /\ Idle(A) /\ p \in A /\ Proper(nb) BY DEF Resizing
  <1>2. PICK o \in MallocOutcomes(nb) :
           /\ Leave(o)
           /\ call' = IF o.p = NULL THEN NoCall
                      ELSE [op |-> "realloc", old |-> p, p |-> o.p, nb |-> nb]
    BY DEF ReallocMove
  <1>3. live' = live BY DEF ReallocMove
  <1>4. AnySize(nb) BY <1>1 DEF AnySize
  <1>5. MemoryInv /\ HeapOK(gm, A, pages) /\ Blocks(gm, live) BY <1>1 DEF Idle
  <1>6. Served(gm, o, A, nb) BY <1>4, <1>5, MallocServes
  <1>7. PICK g, q, pg : g = o.h /\ q = o.p /\ pg = o.pages OBVIOUS
  <1>8. gm' = g /\ pages' = pg /\ foreign' = foreign /\ result' = o.result
    BY <1>2, <1>7 DEF Leave
  <1>9. ResultOK(result') BY <1>1, <1>8, MallocEnds DEF Idle
  <1>10. pg \in pages .. MaxPages BY <1>6, <1>7 DEF Served
  <1>11. CASE q = NULL
    <2>1. HeapOK(g, A, pg) /\ Steady(gm, g, A) BY <1>6, <1>7, <1>11 DEF Served, Sustains
    <2>2. call' = NoCall BY <1>2, <1>7, <1>11
    <2>3. Blocks(g, live) BY <1>1, <1>5, <2>1, BlocksStay
    <2>4. Callers(g, live, NoCall) BY <2>3 DEF Callers, Pending
    <2>5. A = Owners(live, NoCall) BY <1>1 DEF Owners
    <2> QED BY <1>3, <1>5, <1>8, <1>9, <1>10, <2>1, <2>2, <2>4, <2>5, Arrives
  <1>12. CASE q # NULL
    <2>1. Granted(gm, g, A, q, nb, pg) BY <1>6, <1>7, <1>12 DEF Served
    <2>2. PICK B : B = A \cup {q} OBVIOUS
    <2>3. /\ HeapOK(g, B, pg) /\ q \notin A /\ g.tag[q].size \in Nat /\ g.tag[q].size >= nb
          /\ Steady(gm, g, A)
      BY <2>1, <2>2 DEF Granted
    <2>4. PICK c : c = [op |-> "realloc", old |-> p, p |-> q, nb |-> nb] OBVIOUS
    <2>5. call' = c BY <1>2, <1>7, <1>12, <2>4
    <2>6. c.op = "realloc" /\ c.old = p /\ c.p = q /\ c.nb = nb BY <2>4
    <2>7. c # NoCall BY <2>6 DEF NoCall
    <2>8. B = Owners(live, c) BY <1>1, <2>2, <2>6, <2>7 DEF Owners
    <2>9. Moving(g, live, c) BY <1>1, <2>3, <2>6 DEF Moving
    <2>10. Blocks(g, live) BY <1>1, <1>5, <2>3, BlocksStay
    <2>11. Callers(g, live, c) BY <2>9, <2>10 DEF Callers, Pending
    <2> QED BY <1>3, <1>5, <1>8, <1>9, <1>10, <2>3, <2>5, <2>8, <2>11, Arrives
  <1> QED BY <1>11, <1>12

(* realloc preserves the invariant, in place or with a new block to move   *)
(* to.                                                                     *)
LEMMA ReallocKeeps ==
    ASSUME HeapIInv, NEW p \in DOMAIN live, NEW w \in 0 .. MaxSizeT, Realloc(p, w)
    PROVE  HeapIInv'
  <1>1. PICK A, F, S : A = DOMAIN live /\ F = FakeAt(gm) /\ S = FirstChunks(gm) OBVIOUS
  <1>2. PICK nb : nb = Request2Size(w) OBVIOUS
  <1>3. w < MaxRequest /\ w \in Nat BY AddrWordsFacts DEF Realloc, MaxSizeT
  <1>4. Proper(nb) BY <1>2, <1>3, RequestProper
  <1>5. \/ ReallocShrink(p, nb) \/ ReallocIntoTop(p, nb) \/ ReallocIntoDv(p, nb)
        \/ ReallocIntoNext(p, nb) \/ ReallocMove(p, nb)
    BY <1>2 DEF Realloc
  <1>6. call = NoCall
    BY <1>5 DEF ReallocShrink, ReallocIntoTop, ReallocIntoDv, ReallocIntoNext, ReallocMove, StaysPut
  <1>7. Idle(A) BY <1>1, <1>6, IdleFacts
  <1>8. HeapOK(gm, A, pages) /\ p \in A /\ A # {} BY <1>1, <1>7 DEF Idle
  <1>9. Standing(A, F, S) BY <1>1, <1>8, Stands
  <1>10. PICK h : h = gm OBVIOUS
  <1>11. PICK s : s = h.tag[p].size OBVIOUS
  <1>12. PICK e : e = p + s OBVIOUS
  <1>13. Whole(h, F, S, A) /\ F = FakeAt(h) BY <1>9, <1>10 DEF Standing
  <1>14. s \in Nat BY <1>8, <1>11, <1>13, OwnedFacts
  <1>15. nb \in Nat /\ nb > 0 /\ nb % 4 = 0 BY <1>4 DEF Proper
  <1>16. Resizing(A, F, S, h, p, s, e, nb)
    BY <1>1, <1>4, <1>7, <1>8, <1>9, <1>10, <1>11, <1>12, <1>13, <1>14, <1>15, Zenon DEF Resizing
  <1>17. CASE ReallocShrink(p, nb) BY <1>16, <1>17, ShrinkKeeps
  <1>18. CASE ReallocIntoTop(p, nb) BY <1>16, <1>18, TopKeeps
  <1>19. CASE ReallocIntoDv(p, nb) BY <1>16, <1>19, DvKeeps
  <1>20. CASE ReallocIntoNext(p, nb) BY <1>16, <1>20, NextKeeps
  <1>21. CASE ReallocMove(p, nb) BY <1>16, <1>21, MoveKeeps
  <1> QED BY <1>5, <1>17, <1>18, <1>19, <1>20, <1>21

(* A call under way: what its new chunk and the callers' blocks make up.   *)
Busy(A, c) ==
    /\ MemoryInv /\ HeapOK(gm, A, pages) /\ A = DOMAIN live \cup {c.p} /\ A # {}
    /\ Blocks(gm, live) /\ ResultOK(result) /\ Pending(gm, live, c) /\ c = call /\ c # NoCall

(* What the invariant says while a call is between its steps.              *)
LEMMA BusyFacts ==
    ASSUME HeapIInv, call.op # "none", NEW A, A = Owners(live, call), NEW c, c = call
    PROVE  Busy(A, c)
  <1>1. MemoryInv /\ Sound(gm, Owners(live, call), pages, foreign) /\ Callers(gm, live, call)
        /\ ResultOK(result)
    BY DEF HeapIInv
  <1>2. c # NoCall BY DEF NoCall
  <1>3. A = DOMAIN live \cup {c.p} /\ A # {} BY <1>2 DEF Owners
  <1>4. HeapOK(gm, A, pages) BY <1>1, SoundIsHeap
  <1> QED BY <1>1, <1>2, <1>3, <1>4 DEF Busy, Callers

(* The copy is made: the old block is given back.                          *)
LEMMA ReallocFreeKeeps ==
    ASSUME HeapIInv, ReallocFree
    PROVE  HeapIInv'
  <1>1. PICK c, A, F, S : c = call /\ A = Owners(live, c) /\ F = FakeAt(gm) /\ S = FirstChunks(gm)
    OBVIOUS
  <1>2. call.op = "realloc" /\ call' = NoCall BY DEF ReallocFree
  <1>3. Busy(A, c) BY <1>1, <1>2, BusyFacts
  <1>4. /\ MemoryInv /\ HeapOK(gm, A, pages) /\ A = DOMAIN live \cup {c.p} /\ A # {}
        /\ Blocks(gm, live) /\ ResultOK(result) /\ Pending(gm, live, c) /\ c = call /\ c # NoCall
    BY <1>3 DEF Busy
  <1>5. Moving(gm, live, c) BY <1>2, <1>4 DEF Pending, Aligning
  <1>6. PICK o, q, nb : o = c.old /\ q = c.p /\ nb = c.nb OBVIOUS
  <1>7. /\ o \in DOMAIN live /\ q \notin DOMAIN live /\ Proper(nb) /\ gm.tag[q].size \in Nat
        /\ gm.tag[q].size >= nb
    BY <1>5, <1>6 DEF Moving
  <1>8. Standing(A, F, S) BY <1>1, <1>4, Stands
  <1>9. PICK h, s, g : h = gm /\ s = h.tag[o].size /\ g = Dispose(h, o, s) OBVIOUS
  <1>10. Quiet(g) BY <1>4, <1>6, <1>9 DEF ReallocFree, ChunkSize
  <1>11. Whole(h, F, S, A) /\ F = FakeAt(h) BY <1>8, <1>9 DEF Standing
  <1>12. o \in A /\ q \in A /\ q # o BY <1>4, <1>6, <1>7
  <1>13. Disposed(h, g, F, S, A, o) BY <1>9, <1>11, <1>12, DisposeWhole
  <1>14. PICK B, lo : B = A \ {o} /\ lo = Without(live, o) OBVIOUS
  <1>15. SameHeap(gm, g) /\ FakeAt(g) = F /\ Whole(g, F, S, B) /\ Steady(gm, g, B)
    BY <1>9, <1>13, <1>14 DEF Disposed
  <1>16. HeapOK(g, B, pages) BY <1>4, <1>8, <1>15, Rearranged
  <1>17. Drops(live, lo, o) BY <1>14, WithoutFacts
  <1>18. DOMAIN lo = DOMAIN live \ {o} /\ \A x \in DOMAIN lo : lo[x] = live[x] /\ x \in DOMAIN live
    BY <1>17 DEF Drops
  <1>19. Blocks(gm, lo) BY <1>4, <1>18 DEF Blocks
  <1>20. DOMAIN lo \subseteq B BY <1>4, <1>14, <1>18
  <1>21. Blocks(g, lo) BY <1>15, <1>19, <1>20, BlocksStay
  <1>22. PICK b, lv : b = Block(nb, MallocAlignment) /\ lv = With(lo, q, b) OBVIOUS
  <1>23. b.nb = nb /\ b.align = 4 BY <1>22 DEF Block, MallocAlignment
  <1>24. q \in B BY <1>12, <1>14
  <1>25. g.tag[q].size = gm.tag[q].size BY <1>15, <1>24 DEF Steady
  <1>26. Chunk2Mem(q) % 4 = 0 BY <1>11, <1>12, OwnedFacts
  <1>27. BlockOK(g, q, b) BY <1>7, <1>23, <1>25, <1>26 DEF BlockOK
  <1>28. \A x \in DOMAIN lo : x # q => BlockOK(g, x, lo[x]) BY <1>21 DEF Blocks
  <1>29. Blocks(g, lv) BY <1>22, <1>27, <1>28, BlocksWith
  <1>30. Gains(lo, lv, q, b) BY <1>22, WithFacts
  <1>31. DOMAIN lv = B BY <1>4, <1>6, <1>7, <1>14, <1>18, <1>30 DEF Gains
  <1>32. Callers(g, lv, NoCall) BY <1>29 DEF Callers, Pending
  <1>33. B = Owners(lv, NoCall) BY <1>31 DEF Owners
  <1>34. live' = lv BY <1>4, <1>6, <1>14, <1>22 DEF ReallocFree
  <1> QED BY <1>2, <1>4, <1>10, <1>16, <1>32, <1>33, <1>34, QuietArrives

-----------------------------------------------------------------------------
(* aligned_alloc.                                                          *)
LEMMA MemalignKeeps ==
    ASSUME HeapIInv, NEW a \in 1 .. MaxSizeT, NEW w \in 0 .. MaxSizeT, Memalign(a, w)
    PROVE  HeapIInv'
  <1>1. PICK al, nb : al = RoundedAlignment(a) /\ nb = Request2Size(w) OBVIOUS
  <1>2. PICK req : req = nb + al + MinChunkSize - ChunkOverhead OBVIOUS
  <1>3. PICK c : c = ChunkSizeFor(req) OBVIOUS
  <1>4. a \in Nat /\ w \in Nat /\ MaxRequest \in Int /\ AddrWords \in Nat
    BY AddrWordsFacts DEF MaxSizeT, MaxRequest, MinChunkSize
  <1>5. /\ call = NoCall /\ a > MallocAlignment /\ w < MaxRequest - al /\ live' = live
        /\ \E o \in MallocOutcomes(c) :
              /\ Leave(o)
              /\ call' = IF o.p = NULL THEN NoCall
                         ELSE [op |-> "memalign", p |-> o.p, nb |-> nb, align |-> al]
    BY <1>1, <1>2, <1>3 DEF Memalign
  <1>6. al \in Nat /\ al > 4 /\ al % 4 = 0 BY <1>1, <1>4, <1>5, AlignmentFacts
  <1>7. w < MaxRequest BY <1>4, <1>5, <1>6
  <1>8. Proper(nb) BY <1>1, <1>4, <1>7, RequestProper
  <1>9. nb \in Nat BY <1>8 DEF Proper
  <1>10. req \in Nat /\ req = nb + al + 3 BY <1>2, <1>6, <1>9 DEF MinChunkSize, ChunkOverhead
  <1>11. PICK A : A = DOMAIN live OBVIOUS
  <1>12. Idle(A) BY <1>5, <1>11, IdleFacts
  <1>13. PICK o \in MallocOutcomes(c) :
           /\ Leave(o)
           /\ call' = IF o.p = NULL THEN NoCall
                      ELSE [op |-> "memalign", p |-> o.p, nb |-> nb, align |-> al]
    BY <1>5
  <1>14. AnySize(c) BY <1>3, <1>10, RequestAnySize
  <1>15. MemoryInv /\ HeapOK(gm, A, pages) /\ Blocks(gm, live) BY <1>12 DEF Idle
  <1>16. Served(gm, o, A, c) BY <1>14, <1>15, MallocServes
  <1>17. PICK g, q, pg : g = o.h /\ q = o.p /\ pg = o.pages OBVIOUS
  <1>18. gm' = g /\ pages' = pg /\ foreign' = foreign /\ result' = o.result
    BY <1>13, <1>17 DEF Leave
  <1>19. ResultOK(result') BY <1>12, <1>18, MallocEnds DEF Idle
  <1>20. pg \in pages .. MaxPages BY <1>16, <1>17 DEF Served
  <1>21. CASE q = NULL
    <2>1. HeapOK(g, A, pg) /\ Steady(gm, g, A) BY <1>16, <1>17, <1>21 DEF Served, Sustains
    <2>2. call' = NoCall BY <1>13, <1>17, <1>21
    <2>3. Blocks(g, live) BY <1>11, <1>15, <2>1, BlocksStay
    <2>4. Callers(g, live, NoCall) BY <2>3 DEF Callers, Pending
    <2>5. A = Owners(live, NoCall) BY <1>11 DEF Owners
    <2> QED BY <1>5, <1>15, <1>18, <1>19, <1>20, <2>1, <2>2, <2>4, <2>5, Arrives
  <1>22. CASE q # NULL
    <2>1. Granted(gm, g, A, q, c, pg) BY <1>16, <1>17, <1>22 DEF Served
    <2>2. PICK B : B = A \cup {q} OBVIOUS
    <2>3. HeapOK(g, B, pg) /\ q \in B /\ q \notin A /\ g.tag[q].size >= c /\ Steady(gm, g, A)
      BY <2>1, <2>2 DEF Granted
    <2>4. Proper(c) /\ c >= req + 1 /\ g.tag[q].size \in Nat
      BY <1>3, <1>10, <2>3, BlockGranted
    <2>5. c \in Nat BY <2>4 DEF Proper
    <2>6. g.tag[q].size >= nb + al BY <1>6, <1>9, <1>10, <2>3, <2>4, <2>5
    <2>7. PICK b : b = [op |-> "memalign", p |-> q, nb |-> nb, align |-> al] OBVIOUS
    <2>8. call' = b BY <1>13, <1>17, <1>22, <2>7
    <2>9. b.op = "memalign" /\ b.p = q /\ b.nb = nb /\ b.align = al BY <2>7
    <2>10. b # NoCall BY <2>9 DEF NoCall
    <2>11. B = Owners(live, b) BY <1>11, <2>2, <2>9, <2>10 DEF Owners
    <2>12. Aligning(g, live, b) BY <1>6, <1>8, <1>11, <2>3, <2>4, <2>6, <2>9 DEF Aligning
    <2>13. Blocks(g, live) BY <1>11, <1>15, <2>3, BlocksStay
    <2>14. Callers(g, live, b) BY <2>12, <2>13 DEF Callers, Pending
    <2> QED BY <1>5, <1>15, <1>18, <1>19, <1>20, <2>3, <2>8, <2>11, <2>14, Arrives
  <1> QED BY <1>21, <1>22

(* The leader and the spare room are given back.                           *)
LEMMA MemalignTrimKeeps ==
    ASSUME HeapIInv, MemalignTrim
    PROVE  HeapIInv'
  <1>1. PICK c, A, F, S : c = call /\ A = Owners(live, c) /\ F = FakeAt(gm) /\ S = FirstChunks(gm)
    OBVIOUS
  <1>2. call.op = "memalign" /\ call' = NoCall BY DEF MemalignTrim
  <1>3. Busy(A, c) BY <1>1, <1>2, BusyFacts
  <1>4. /\ MemoryInv /\ HeapOK(gm, A, pages) /\ A = DOMAIN live \cup {c.p} /\ A # {}
        /\ Blocks(gm, live) /\ ResultOK(result) /\ Pending(gm, live, c) /\ c = call /\ c # NoCall
    BY <1>3 DEF Busy
  <1>5. Aligning(gm, live, c) BY <1>2, <1>4 DEF Pending, Moving
  <1>6. PICK p, nb, al : p = c.p /\ nb = c.nb /\ al = c.align OBVIOUS
  <1>7. /\ p \notin DOMAIN live /\ Proper(nb) /\ al \in Nat /\ al > 4 /\ al % 4 = 0
        /\ gm.tag[p].size \in Nat /\ gm.tag[p].size >= nb + al
    BY <1>5, <1>6 DEF Aligning
  <1>8. Standing(A, F, S) BY <1>1, <1>4, Stands
  <1>9. PICK h : h = gm OBVIOUS
  <1>10. Whole(h, F, S, A) /\ F = FakeAt(h) BY <1>8, <1>9 DEF Standing
  <1>11. p \in A BY <1>4, <1>6
  <1>12. p \in Nat /\ p % 4 = 2 BY <1>10, <1>11, OwnedFacts
  <1>13. PICK pos : pos = AlignedPosition(p, al) OBVIOUS
  <1>14. pos \in Nat /\ p <= pos /\ pos < p + al /\ pos % 4 = 2 /\ Chunk2Mem(pos) % al = 0
    BY <1>7, <1>12, <1>13, MemalignPlace
  <1>15. PICK lead, s : lead = pos - p /\ s = h.tag[p].size - lead OBVIOUS
  <1>16. PICK based : based = IF lead = 0 THEN h
                              ELSE Dispose(SetInuse(SetInuse(h, pos, s), p, lead), p, lead)
    OBVIOUS
  <1>17. PICK g : g = IF s > nb + MinChunkSize THEN TrimTo(based, pos, s, nb) ELSE based OBVIOUS
  <1>18. Quiet(g) /\ live' = With(live, pos, Block(nb, al))
    <2>1. c.p = p /\ c.nb = nb /\ c.align = al /\ call = c /\ gm = h BY <1>4, <1>6, <1>9
    <2>2. AlignedPosition(call.p, call.align) = pos BY <1>13, <2>1
    <2> QED BY <1>15, <1>16, <1>17, <2>1, <2>2 DEF MemalignTrim, ChunkSize
  <1>19. nb \in Nat /\ nb > 0 /\ nb % 4 = 0 BY <1>7 DEF Proper
  <1>20. PICK z : z = h.tag[p].size OBVIOUS
  <1>21. z \in Nat /\ z >= nb + al /\ s = z - lead BY <1>7, <1>9, <1>15, <1>20
  <1>22. nb <= s /\ s \in Nat
    <2>1. pos \in Nat /\ p <= pos /\ pos < p + al BY <1>14
    <2>2. al \in Nat BY <1>7
    <2>3. lead \in Nat /\ lead < al BY <1>12, <1>15, <2>1, <2>2
    <2>4. nb \in Nat BY <1>19
    <2> QED BY <1>21, <2>2, <2>3, <2>4
  <1>23. Placed(h, g, F, S, A, p, pos, nb)
    BY <1>10, <1>11, <1>14, <1>15, <1>16, <1>17, <1>19, <1>22, MemalignEnds
  <1>24. PICK D : D = DOMAIN live OBVIOUS
  <1>25. A \ {p} = D /\ A = D \cup {p} BY <1>4, <1>6, <1>7, <1>24
  <1>26. PICK B : B = D \cup {pos} OBVIOUS
  <1>27. SameHeap(gm, g) /\ FakeAt(g) = F /\ Whole(g, F, S, B) /\ Steady(gm, g, D)
    BY <1>9, <1>23, <1>25, <1>26 DEF Placed
  <1>28. /\ g.tag[pos].size \in Nat /\ g.tag[pos].size >= nb /\ pos \notin D
    BY <1>7, <1>23, <1>24, <1>25 DEF Placed
  <1>29. HeapOK(g, B, pages) BY <1>4, <1>8, <1>27, Rearranged
  <1>30. PICK b, lv : b = Block(nb, al) /\ lv = With(live, pos, b) OBVIOUS
  <1>31. b.nb = nb /\ b.align = al BY <1>30 DEF Block
  <1>32. al >= 4 BY <1>7
  <1>33. BlockOK(g, pos, b) BY <1>7, <1>14, <1>28, <1>31, <1>32 DEF BlockOK
  <1>34. Blocks(g, live) BY <1>4, <1>24, <1>27, BlocksStay
  <1>35. \A x \in DOMAIN live : x # pos => BlockOK(g, x, live[x]) BY <1>34 DEF Blocks
  <1>36. Blocks(g, lv) BY <1>30, <1>33, <1>35, BlocksWith
  <1>37. Gains(live, lv, pos, b) BY <1>30, WithFacts
  <1>38. DOMAIN lv = B BY <1>24, <1>26, <1>37 DEF Gains
  <1>39. Callers(g, lv, NoCall) BY <1>36 DEF Callers, Pending
  <1>40. B = Owners(lv, NoCall) BY <1>38 DEF Owners
  <1>41. live' = lv BY <1>18, <1>30
  <1> QED BY <1>2, <1>4, <1>18, <1>29, <1>39, <1>40, <1>41, QuietArrives

-----------------------------------------------------------------------------
(* The invariant holds at the start and is preserved.                      *)
LEMMA SystemInit ==
    ASSUME Init, NEW q, q = SystemPart(gm)
    PROVE  HeapInv(q, pages, foreign)
  <1>1. /\ q = [seg |-> [base |-> 0, size |-> 0], older |-> {}, top |-> 0, topsize |-> 0,
               contiguous |-> TRUE, footprint |-> 0, maxFootprint |-> 0, leastAddr |-> 0]
    BY DEF Init, NULL, SystemPart
  <1>2. HeapType(q)
    <2>1. 0 \in 0 .. AddrWords /\ 0 \in 0 .. AddrWords - 1 BY AddrWordsFacts, PageAssumption
    <2> QED BY <1>1, <2>1 DEF HeapType, SegmentRecord
  <1>3. ~Initialized(q) BY <1>1 DEF Initialized, NULL
  <1>4. Accounting(q, pages)
    <2>1. pages * PageWords \in Nat
      BY MemoryAssumption, PageAssumption, SMT DEF Init, MemoryInit
    <2> QED BY <1>1, <1>3, <2>1 DEF Accounting
  <1> QED BY <1>2, <1>3, <1>4 DEF HeapInv

(* The heap starts blank.                                                  *)
LEMMA BlankInit ==
    ASSUME Init
    PROVE  Blank(gm, {}) /\ ~Initialized(gm)
  <1>1. gm = [seg |-> [base |-> NULL, size |-> 0], older |-> {}, top |-> NULL, topsize |-> 0,
             contiguous |-> TRUE, footprint |-> 0, maxFootprint |-> 0, leastAddr |-> NULL,
             tag |-> [x \in {} |-> 0],
             bins |-> [s \in BinSizes |-> <<>>], smallmap |-> {}, dv |-> NULL, dvsize |-> 0]
    BY DEF Init
  <1>2. State(gm) BY <1>1 DEF State, Fields
  <1>3. /\ gm.tag = [x \in {} |-> 0] /\ gm.bins = [s \in BinSizes |-> <<>>] /\ gm.smallmap = {}
        /\ gm.dv = NULL /\ gm.dvsize = 0 /\ gm.top = NULL
    BY <1>1
  <1>4. DOMAIN gm.tag = {} BY <1>3
  <1>5. Tagged(gm) BY <1>2, <1>3, <1>4 DEF Tagged
  <1>6. BinsOK(gm)
    <2>1. <<>> \in Seq(Nat) /\ NoRepeat(<<>>) BY DEF NoRepeat
    <2>2. gm.bins \in [BinSizes -> Seq(Nat)] BY <1>3, <2>1
    <2>3. \A s \in BinSizes : NoRepeat(gm.bins[s]) BY <1>3, <2>1
    <2>4. \A s \in BinSizes : IsSmall(s) => (SmallIndex(s) \in gm.smallmap <=> gm.bins[s] # <<>>)
      BY <1>3
    <2>5. gm.smallmap \subseteq SmallIndexes BY <1>3
    <2> QED BY <1>2, <2>2, <2>3, <2>4, <2>5 DEF BinsOK
  <1>7. \A x, s : ~Filed(gm, x, s) BY <1>3 DEF Filed, Among
  <1>8. Blank(gm, {}) BY <1>3, <1>4, <1>5, <1>6, <1>7 DEF Blank
  <1> QED BY <1>3, <1>8 DEF Initialized

(* The invariant holds at the start.                                       *)
LEMMA Initially == Init => HeapIInv
  <1> SUFFICES ASSUME Init PROVE HeapIInv OBVIOUS
  <1>1. MemoryInv BY MemoryAssumption DEF Init, MemoryInit, MemoryInv
  <1>2. live = [x \in {} |-> 0] /\ call = NoCall /\ result = Ended("none", FALSE) BY DEF Init
  <1>3. DOMAIN live = {} BY <1>2
  <1>4. Owners(live, call) = {} BY <1>2, <1>3 DEF Owners
  <1>5. Blank(gm, {}) /\ ~Initialized(gm) BY BlankInit
  <1>6. PICK q : q = SystemPart(gm) OBVIOUS
  <1>7. HeapInv(q, pages, foreign) BY <1>6, SystemInit
  <1>8. Sound(gm, {}, pages, foreign) BY <1>5, <1>6, <1>7 DEF Sound
  <1>9. Callers(gm, live, call) BY <1>2, <1>3 DEF Callers, Blocks, Pending
  <1>10. ResultOK(result) BY <1>2, EndedOK
  <1> QED BY <1>1, <1>4, <1>8, <1>9, <1>10 DEF HeapIInv

(* memory.grow by someone else preserves the invariant.                    *)
LEMMA HostKeeps ==
    ASSUME HeapIInv, NEW n \in 1 .. MaxPages, Host(n)
    PROVE  HeapIInv'
  <1>1. MemoryInv /\ Sound(gm, Owners(live, call), pages, foreign) /\ Callers(gm, live, call)
    BY DEF HeapIInv
  <1>2. ForeignGrow(n) /\ gm' = gm /\ live' = live /\ call' = call /\ result' = Ended("none", FALSE)
    BY DEF Host
  <1>3. PICK A, q : A = Owners(live, call) /\ q = SystemPart(gm) OBVIOUS
  <1>4. HeapInv(q, pages, foreign)
        /\ IF Initialized(gm) THEN Whole(gm, FakeAt(gm), FirstChunks(gm), A) ELSE Blank(gm, A)
    BY <1>1, <1>3 DEF Sound
  <1>5. MemoryInv' /\ HeapInv(q, pages', foreign') BY <1>1, <1>2, <1>4, HostGrowth
  <1>6. PICK pg, fr : pg = pages' /\ fr = foreign' OBVIOUS
  <1>7. Sound(gm, A, pg, fr) BY <1>3, <1>4, <1>5, <1>6 DEF Sound
  <1>8. Sound(gm, Owners(live, call), pages, foreign)' BY <1>2, <1>3, <1>6, <1>7
  <1>9. Callers(gm, live, call)' BY <1>1, <1>2
  <1>10. ResultOK(result') BY <1>2, EndedOK
  <1> QED BY <1>5, <1>8, <1>9, <1>10 DEF HeapIInv

(* Every step preserves the invariant.                                     *)
LEMMA Steps == HeapIInv /\ [Next]_vars => HeapIInv'
  <1> SUFFICES ASSUME HeapIInv, [Next]_vars PROVE HeapIInv' OBVIOUS
  <1>1. CASE UNCHANGED vars BY <1>1 DEF vars, HeapIInv, MemoryInv
  <1>2. ASSUME NEW w \in Requests, Malloc(w) PROVE HeapIInv'
    <2>1. w \in 0 .. MaxSizeT BY <1>2, ChunkAssumption
    <2> QED BY <1>2, <2>1, MallocKeeps
  <1>3. ASSUME NEW w \in Requests, NEW p \in DOMAIN live, Realloc(p, w) PROVE HeapIInv'
    <2>1. w \in 0 .. MaxSizeT BY <1>3, ChunkAssumption
    <2> QED BY <1>3, <2>1, ReallocKeeps
  <1>4. ASSUME NEW w \in Requests, NEW a \in Alignments, Memalign(a, w) PROVE HeapIInv'
    <2>1. w \in 0 .. MaxSizeT /\ a \in 1 .. MaxSizeT BY <1>4, ChunkAssumption
    <2> QED BY <1>4, <2>1, MemalignKeeps
  <1>5. ASSUME NEW x \in Arrays, Calloc(x[1], x[2]) PROVE HeapIInv'
    <2>1. PICK k, e : k = x[1] /\ e = x[2] OBVIOUS
    <2>2. k \in 0 .. MaxSizeT /\ e \in 0 .. MaxSizeT BY <1>5, <2>1, ChunkAssumption
    <2>3. Calloc(k, e) BY <1>5, <2>1
    <2> QED BY <2>2, <2>3, CallocKeeps
  <1>6. ASSUME NEW p \in DOMAIN live, Free(p) PROVE HeapIInv' BY <1>6, FreeKeeps
  <1>7. CASE ReallocFree BY <1>7, ReallocFreeKeeps
  <1>8. CASE MemalignTrim BY <1>8, MemalignTrimKeeps
  <1>9. ASSUME NEW n \in 1 .. MaxPages, Host(n) PROVE HeapIInv' BY <1>9, HostKeeps
  <1> QED BY <1>1, <1>2, <1>3, <1>4, <1>5, <1>6, <1>7, <1>8, <1>9 DEF Next

(* The inductive invariant holds of every behaviour: between two steps the *)
(* headers tile the segments, the bins hold the free chunks but top and    *)
(* dv, and every chunk in use has one owner.                               *)
THEOREM HeapInvariant == Spec => []HeapIInv
  BY Initially, Steps, PTL DEF Spec

-----------------------------------------------------------------------------
(* What the invariant says of the chunks.                                  *)

(* The heap has memory: its headers have a shape, its bins hold the free   *)
(* chunks but top and dv, and its chunks in use are owned.                 *)
InMemory(h, F, S, A) ==
    /\ F = FakeAt(h) /\ S = FirstChunks(h) /\ Whole(h, F, S, A) /\ Known(h, F, S, A)
    /\ Shape(h.tag, F, S) /\ BinsOK(h) /\ Owned(h.tag, F, A)
    /\ \A x, s : Filed(h, x, s) <=> FreeAt(h.tag, F, x) /\ x \notin {h.top, h.dv} /\ h.tag[x].size = s
    /\ DvOK(h, F) /\ OneChunk(h.tag, F, h.top, F)
    /\ \A p : p \in Chunks <=> IsChunk(h.tag, F, p)
    /\ \A p : p \in FreeSet <=> FreeAt(h.tag, F, p)

(* The invariant of a heap with memory, in one piece.                      *)
LEMMA InvariantInMemory ==
    ASSUME HeapIInv, Initialized(gm), NEW h, h = gm, NEW A, A = Owners(live, call),
           NEW F, F = FakeAt(gm), NEW S, S = FirstChunks(gm)
    PROVE  InMemory(h, F, S, A)
  <1>1. Whole(h, F, S, A) BY DEF HeapIInv, Sound
  <1>2. Known(h, F, S, A) BY <1>1, WholeFacts
  <1>3. Shape(h.tag, F, S) /\ BinsOK(h) /\ OneChunk(h.tag, F, h.top, F) BY <1>2 DEF Known
  <1>4. Owned(h.tag, F, A) BY <1>1 DEF Whole, Loose
  <1>5. \A x, s : Filed(h, x, s) <=>
            FreeAt(h.tag, F, x) /\ x \notin {h.top, h.dv} /\ h.tag[x].size = s
    BY <1>1 DEF Whole, Loose, Holds
  <1>6. DvOK(h, F) BY <1>1 DEF Whole
  <1>7. \A p : p \in Chunks <=> IsChunk(h.tag, F, p) BY DEF Chunks, Fence, IsChunk, FakeAt
  <1>8. \A p : IsChunk(h.tag, F, p) => h.tag[p].cinuse \in BOOLEAN
    BY <1>3 DEF Shape, Heads, IsChunk, TagType
  <1>9. \A p : p \in FreeSet <=> FreeAt(h.tag, F, p) BY <1>7, <1>8 DEF FreeSet, FreeAt
  <1> QED BY <1>1, <1>2, <1>3, <1>4, <1>5, <1>6, <1>7, <1>9, Zenon DEF InMemory

(* The invariant of a heap without memory: nothing is there.               *)
LEMMA NoMemory ==
    ASSUME HeapIInv, ~Initialized(gm)
    PROVE  /\ Blank(gm, {}) /\ DOMAIN gm.tag = {} /\ Chunks = {} /\ FreeSet = {}
           /\ DOMAIN live = {} /\ call = NoCall
  <1>1. Blank(gm, Owners(live, call)) BY DEF HeapIInv, Sound
  <1>2. DOMAIN gm.tag = {} /\ Owners(live, call) = {} BY <1>1 DEF Blank
  <1>3. DOMAIN live = {} /\ call = NoCall BY <1>2 DEF Owners
  <1> QED BY <1>1, <1>2, <1>3 DEF Chunks, FreeSet

-----------------------------------------------------------------------------
(* The invariant implies that the chunks tile the segments.                *)
LEMMA ImpliesTiled == HeapIInv => Tiled
  <1> SUFFICES ASSUME HeapIInv PROVE Tiled OBVIOUS
  <1>1. CASE ~Initialized(gm)
    <2>1. Chunks = {} BY <1>1, NoMemory
    <2>2. Segments(gm) = {} BY <1>1 DEF Segments
    <2> QED BY <2>1, <2>2 DEF Tiled
  <1>2. CASE Initialized(gm)
    <2>1. PICK h, F, S, A : /\ h = gm /\ F = FakeAt(gm) /\ S = FirstChunks(gm)
                            /\ A = Owners(live, call)
      OBVIOUS
    <2>2. InMemory(h, F, S, A) BY <1>2, <2>1, InvariantInMemory
    <2>3. Shape(h.tag, F, S) /\ \A p : p \in Chunks <=> IsChunk(h.tag, F, p)
      BY <2>2 DEF InMemory
    <2>4. \A p \in Chunks :
            /\ gm.tag[p].size % MallocAlignment = 0 /\ NextChunk(gm, p) \in DOMAIN gm.tag
            /\ \A q \in DOMAIN gm.tag : p < q => NextChunk(gm, p) <= q
      BY <2>1, <2>3 DEF Shape, Tiles, NextChunk, MallocAlignment
    <2>5. \A s \in Segments(gm) : NewTop(s.base) \in Chunks
      <3> TAKE s \in Segments(gm)
      <3>1. PICK b : b = s.base OBVIOUS
      <3>2. b + 2 \in S BY <1>2, <2>1, <3>1 DEF Segments, FirstChunks
      <3>3. IsChunk(h.tag, F, b + 2) BY <2>3, <3>2 DEF Shape, Starts
      <3>4. (b + 2) % 4 = 2 BY <2>3, <3>3 DEF Shape, Tiles
      <3>5. NewTop(b) = b + 2
        <4>1. PICK r : r = (b + 2) % 4 OBVIOUS
        <4>2. AlignOffset(b + 2) = (4 - r) % 4 BY <4>1 DEF AlignOffset, MallocAlignment
        <4>3. (4 - 2) % 4 = 2 BY SMT
        <4>4. AlignOffset(b + 2) = 2 BY <3>4, <4>1, <4>2, <4>3
        <4> QED BY <4>4 DEF NewTop, Chunk2Mem
      <3> QED BY <2>3, <3>1, <3>3, <3>5
    <2> QED BY <2>4, <2>5 DEF Tiled
  <1> QED BY <1>1, <1>2

(* The invariant implies that no two free chunks are neighbours.           *)
LEMMA ImpliesNoFreeNeighbours == HeapIInv => NoFreeNeighbours
  <1> SUFFICES ASSUME HeapIInv PROVE NoFreeNeighbours OBVIOUS
  <1>1. CASE ~Initialized(gm)
    <2>1. FreeSet = {} BY <1>1, NoMemory
    <2> QED BY <2>1 DEF NoFreeNeighbours
  <1>2. CASE Initialized(gm)
    <2>1. PICK h, F, S, A : /\ h = gm /\ F = FakeAt(gm) /\ S = FirstChunks(gm)
                            /\ A = Owners(live, call)
      OBVIOUS
    <2>2. InMemory(h, F, S, A) BY <1>2, <2>1, InvariantInMemory
    <2>3. Agree(h.tag, F) /\ \A p : p \in FreeSet <=> FreeAt(h.tag, F, p)
      BY <2>2 DEF InMemory, Shape
    <2> QED BY <2>1, <2>3 DEF NoFreeNeighbours, Agree, FreeAt
  <1> QED BY <1>1, <1>2

(* The invariant implies that every chunk in use is held.                  *)
LEMMA ImpliesNoChunkLeaked == HeapIInv => NoChunkLeaked
  <1> SUFFICES ASSUME HeapIInv PROVE NoChunkLeaked OBVIOUS
  <1>1. CASE ~Initialized(gm)
    <2>1. Chunks = {} /\ DOMAIN live = {} /\ call = NoCall BY <1>1, NoMemory
    <2>2. Held = {} BY <2>1 DEF Held
    <2> QED BY <2>1, <2>2 DEF NoChunkLeaked
  <1>2. CASE Initialized(gm)
    <2>1. PICK h, F, S, A : /\ h = gm /\ F = FakeAt(gm) /\ S = FirstChunks(gm)
                            /\ A = Owners(live, call)
      OBVIOUS
    <2>2. InMemory(h, F, S, A) BY <1>2, <2>1, InvariantInMemory
    <2>3. Owned(h.tag, F, A) /\ Shape(h.tag, F, S)
      BY <2>2 DEF InMemory
    <2>4. /\ \A p : p \in Chunks <=> IsChunk(h.tag, F, p)
          /\ \A p : p \in FreeSet <=> FreeAt(h.tag, F, p)
      BY <2>2 DEF InMemory
    <2>5. \A p : IsChunk(h.tag, F, p) => h.tag[p].cinuse \in BOOLEAN
      BY <2>3 DEF Shape, Heads, IsChunk, TagType
    <2>6. \A p : p \in Chunks \ FreeSet <=> UsedAt(h.tag, F, p)
      BY <2>4, <2>5 DEF FreeAt, UsedAt
    <2>7. PICK R : R = {p \in Chunks : Fence(NextChunk(gm, p)) /\ gm.tag[p].cinuse} OBVIOUS
    <2>8. Held = A \cup R BY <2>1, <2>7 DEF Held, Owners
    <2>9. \A p : p \in R <=> UsedAt(h.tag, F, p) /\ h.tag[p + h.tag[p].size].size = 1
      BY <2>1, <2>4, <2>5, <2>7 DEF UsedAt, Fence, NextChunk
    <2>10. \A p : UsedAt(h.tag, F, p) <=> p \in A \/ p \in R BY <2>3, <2>9 DEF Owned
    <2>11. Chunks \ FreeSet = Held BY <2>6, <2>8, <2>10
    <2> QED BY <2>11 DEF NoChunkLeaked
  <1> QED BY <1>1, <1>2

(* The invariant implies that every block is a chunk in use of the size    *)
(* asked for.                                                              *)
LEMMA ImpliesBlocksHonoured == HeapIInv => BlocksHonoured
  <1> SUFFICES ASSUME HeapIInv PROVE BlocksHonoured OBVIOUS
  <1>1. CASE ~Initialized(gm)
    <2>1. DOMAIN live = {} BY <1>1, NoMemory
    <2> QED BY <2>1 DEF BlocksHonoured
  <1>2. CASE Initialized(gm)
    <2>1. PICK h, F, S, A : /\ h = gm /\ F = FakeAt(gm) /\ S = FirstChunks(gm)
                            /\ A = Owners(live, call)
      OBVIOUS
    <2>2. InMemory(h, F, S, A) BY <1>2, <2>1, InvariantInMemory
    <2>3. Owned(h.tag, F, A) /\ \A p : p \in Chunks <=> IsChunk(h.tag, F, p)
      BY <2>2 DEF InMemory
    <2>4. Blocks(gm, live) BY DEF HeapIInv, Callers
    <2>5. SUFFICES ASSUME NEW p \in DOMAIN live
                   PROVE  /\ p \in Chunks /\ gm.tag[p].cinuse
                          /\ gm.tag[p].size >= live[p].nb /\ Chunk2Mem(p) % live[p].align = 0
      BY DEF BlocksHonoured
    <2>6. p \in A BY <2>1 DEF Owners
    <2>7. UsedAt(h.tag, F, p) BY <2>3, <2>6 DEF Owned
    <2>8. BlockOK(gm, p, live[p]) BY <2>4 DEF Blocks
    <2> QED BY <2>1, <2>3, <2>7, <2>8 DEF UsedAt, BlockOK
  <1> QED BY <1>1, <1>2

-----------------------------------------------------------------------------
(* The invariant implies the system layer's type invariant.                *)
LEMMA SystemTypes == HeapIInv => Sys!TypeOK
  <1> SUFFICES ASSUME HeapIInv PROVE Sys!TypeOK OBVIOUS
  <1>1. PICK q : q = SystemPart(gm) OBVIOUS
  <1>2. MemoryInv /\ ResultOK(result) /\ HeapInv(q, pages, foreign)
    BY <1>1 DEF HeapIInv, Sound
  <1>3. HeapType(q) BY <1>2 DEF HeapInv
  <1>4. pages \in InitialPages .. MaxPages /\ foreign \subseteq InitialPages .. pages - 1
    BY <1>2 DEF MemoryInv
  <1>5. SystemPart(gm) \in [seg : SegmentRecord, older : SUBSET SegmentRecord,
              top : 0 .. AddrWords - 1, topsize : 0 .. AddrWords,
              contiguous : BOOLEAN, footprint : 0 .. AddrWords,
              maxFootprint : 0 .. AddrWords, leastAddr : 0 .. AddrWords - 1]
    BY <1>1, <1>3 DEF HeapType
  <1>6. result \in [kind : {"none", "mem", "null", "trap"}, refused : BOOLEAN]
    BY <1>2 DEF ResultOK
  <1>7. Sys!SegmentRecord = SegmentRecord /\ Sys!AddrWords = AddrWords
    BY DEF SegmentRecord, Sys!SegmentRecord, AddrWords, Sys!AddrWords
  <1> QED BY <1>4, <1>5, <1>6, <1>7 DEF Sys!TypeOK

(* A sequence of numbers that all are addresses.                           *)
LEMMA Narrower ==
    ASSUME NEW q \in Seq(Nat), NEW D, \A i \in 1 .. Len(q) : q[i] \in D
    PROVE  q \in Seq(D)
  OBVIOUS

(* The invariant implies the type invariant.                               *)
LEMMA ImpliesTypeOK == HeapIInv => TypeOK
  <1> SUFFICES ASSUME HeapIInv PROVE TypeOK OBVIOUS
  <1>1. Sys!TypeOK BY SystemTypes
  <1>2. call.op \in {"none", "realloc", "memalign"}
    BY DEF HeapIInv, Callers, Pending, Moving, Aligning, NoCall
  <1>3. AddrWords \in Nat /\ AddrWords >= 32 BY AddrWordsFacts, PageAssumption
  <1>4. 0 \in Address BY <1>3 DEF Address
  <1>5. CASE ~Initialized(gm)
    <2>1. Blank(gm, {}) /\ DOMAIN live = {} BY <1>5, NoMemory
    <2>2. /\ DOMAIN gm.tag = {} /\ BinsOK(gm) /\ \A x, s : ~Filed(gm, x, s)
          /\ gm.dv = NULL /\ gm.dvsize = 0
      BY <2>1 DEF Blank
    <2>3. \A s \in BinSizes : gm.bins[s] \in Seq(Address)
      <3> TAKE s \in BinSizes
      <3>1. PICK q : q = gm.bins[s] OBVIOUS
      <3>2. q \in Seq(Nat) BY <2>2, <3>1 DEF BinsOK
      <3>3. \A i \in 1 .. Len(q) : q[i] \in Address BY <2>2, <3>1 DEF Filed, Among
      <3>4. q \in Seq(Address) BY <3>2, <3>3, Narrower
      <3> QED BY <3>1, <3>4
    <2>4. gm.smallmap \subseteq {SmallIndex(s) : s \in BinSizes \ LargeSizes}
      BY <2>2 DEF BinsOK, SmallIndexes, LargeSizes
    <2> QED BY <1>1, <1>2, <1>4, <2>1, <2>2, <2>3, <2>4 DEF TypeOK, NULL
  <1>6. CASE Initialized(gm)
    <2>1. PICK h, F, S, A : /\ h = gm /\ F = FakeAt(gm) /\ S = FirstChunks(gm)
                            /\ A = Owners(live, call)
      OBVIOUS
    <2>2. InMemory(h, F, S, A) BY <1>6, <2>1, InvariantInMemory
    <2>3. /\ Shape(h.tag, F, S) /\ BinsOK(h) /\ Owned(h.tag, F, A) /\ Whole(h, F, S, A)
          /\ F = FakeAt(h) /\ DvOK(h, F) /\ Known(h, F, S, A)
      BY <2>2 DEF InMemory
    <2>4. \A x, s : Filed(h, x, s) <=>
              FreeAt(h.tag, F, x) /\ x \notin {h.top, h.dv} /\ h.tag[x].size = s
      BY <2>2 DEF InMemory
    <2>5. /\ F + 14 <= MaxPages * PageWords /\ F \in Nat
          /\ \A q \in DOMAIN h.tag : q \in Nat /\ q <= F /\ h.tag[q] \in TagType
      BY <2>3 DEF Shape, Heads, Known
    <2>6. F < AddrWords
      <3>1. MaxPages * PageWords \in Nat BY MemoryAssumption, PageAssumption, SMT
      <3> QED BY <1>3, <2>5, <3>1, AddrWordsFacts
    <2>7. DOMAIN h.tag \subseteq Address BY <1>3, <2>5, <2>6 DEF Address
    <2>8. \A q \in DOMAIN h.tag :
             h.tag[q] \in [prevFoot : {NoFoot} \cup BinSizes, size : 1 .. AddrWords,
                           pinuse : BOOLEAN, cinuse : BOOLEAN]
      BY <2>5 DEF TagType
    <2>9. \A s \in BinSizes : h.bins[s] \in Seq(Address)
      <3> TAKE s \in BinSizes
      <3>1. PICK q : q = h.bins[s] OBVIOUS
      <3>2. q \in Seq(Nat) BY <2>3, <3>1 DEF BinsOK
      <3>3. \A i \in 1 .. Len(q) : q[i] \in Address
        <4> TAKE i \in 1 .. Len(q)
        <4>1. Filed(h, q[i], s) BY <3>1 DEF Filed, Among
        <4>2. FreeAt(h.tag, F, q[i]) BY <2>4, <4>1
        <4> QED BY <2>7, <4>2 DEF FreeAt, IsChunk
      <3>4. q \in Seq(Address) BY <3>2, <3>3, Narrower
      <3> QED BY <3>1, <3>4
    <2>10. h.smallmap \subseteq {SmallIndex(s) : s \in BinSizes \ LargeSizes}
      BY <2>3 DEF BinsOK, SmallIndexes, LargeSizes
    <2>11. \A x : IsChunk(h.tag, F, x) => h.tag[x].size \in BinSizes
      <3> SUFFICES ASSUME NEW x, IsChunk(h.tag, F, x) PROVE h.tag[x].size \in BinSizes OBVIOUS
      <3>1. PICK t, e : t = h.tag /\ e = x + t[x].size OBVIOUS
      <3>2. OneChunk(t, F, x, e) BY <2>3, <3>1, ChunkStretch
      <3> QED BY <3>1, <3>2 DEF OneChunk
    <2>12. h.dv \in Address /\ h.dvsize \in {0} \cup BinSizes
      <3>1. CASE h.dvsize = 0 BY <1>4, <2>3, <3>1 DEF DvOK, NULL
      <3>2. CASE h.dvsize # 0
        <4>1. FreeAt(h.tag, F, h.dv) /\ h.tag[h.dv].size = h.dvsize BY <2>3, <3>2 DEF DvOK
        <4> QED BY <2>7, <2>11, <4>1 DEF FreeAt, IsChunk
      <3> QED BY <3>1, <3>2
    <2>13. \A p \in DOMAIN live : live[p].nb \in BinSizes /\ live[p].align >= MallocAlignment
                                  /\ p \in Address
      <3> TAKE p \in DOMAIN live
      <3>1. p \in A BY <2>1 DEF Owners
      <3>2. IsChunk(h.tag, F, p) BY <2>3, <3>1 DEF Owned, UsedAt
      <3>3. p \in Address BY <2>7, <3>2 DEF IsChunk
      <3>4. BlockOK(gm, p, live[p]) BY DEF HeapIInv, Callers, Blocks
      <3>5. PICK nb, z : nb = live[p].nb /\ z = h.tag[p].size OBVIOUS
      <3>6. Proper(nb) /\ z >= nb /\ z \in BinSizes /\ z \in Nat
        BY <2>1, <2>11, <3>2, <3>4, <3>5 DEF BlockOK
      <3>7. nb \in Nat /\ nb > 0 /\ nb % 4 = 0 BY <3>6 DEF Proper
      <3>8. z <= MaxPages * PageWords /\ MaxPages * PageWords \in Nat
        <4>1. MaxPages * PageWords \in Nat BY MemoryAssumption, PageAssumption, SMT
        <4> QED BY <3>6, <4>1 DEF BinSizes, MinChunkSize
      <3>9. nb <= MaxPages * PageWords BY <3>6, <3>7, <3>8
      <3>10. nb \in BinSizes BY <3>7, <3>9, SizeFacts
      <3>11. live[p].align >= MallocAlignment BY <3>4 DEF BlockOK, MallocAlignment
      <3> QED BY <3>3, <3>5, <3>10, <3>11
    <2>14. DOMAIN live \subseteq Address BY <2>13
    <2>15. \A p \in DOMAIN live : live[p].nb \in BinSizes /\ live[p].align >= MallocAlignment
      BY <2>13
    <2> QED BY <1>1, <1>2, <2>1, <2>7, <2>8, <2>9, <2>10, <2>12, <2>14, <2>15, Zenon DEF TypeOK
  <1> QED BY <1>5, <1>6

-----------------------------------------------------------------------------
(* Only top ends at the fake chunk.                                        *)
LEMMA OnlyTopEnds ==
    ASSUME NEW t, NEW F, NEW S, Shape(t, F, S), NEW top, OneChunk(t, F, top, F),
           NEW p, IsChunk(t, F, p), p # top
    PROVE  p + t[p].size # F
  <1>1. Tiles(t, F) /\ Heads(t, F) BY DEF Shape
  <1>2. p \in DOMAIN t /\ p \in Nat /\ p <= F /\ p # F BY <1>1 DEF Heads, IsChunk
  <1>3. top \in Nat /\ top \in DOMAIN t /\ t[top].size = F - top /\ F \in Nat /\ top < F
    BY DEF OneChunk
  <1>4. t[p].size \in Nat
    <2>1. PICK e : e = p + t[p].size OBVIOUS
    <2>2. OneChunk(t, F, p, e) BY <2>1, ChunkStretch
    <2> QED BY <2>2 DEF OneChunk
  <1>5. IsChunk(t, F, top) BY DEF OneChunk, Stretch
  <1>6. p < top => p + t[p].size <= top BY <1>1, <1>3 DEF Tiles
  <1>7. top < p => top + t[top].size <= p BY <1>1, <1>2, <1>5 DEF Tiles
  <1>8. CASE p < top BY <1>2, <1>3, <1>4, <1>6, <1>8
  <1>9. CASE top < p BY <1>2, <1>3, <1>4, <1>7, <1>9
  <1> QED BY <1>2, <1>3, <1>8, <1>9

(* One chunk ends where another begins, and only one.                      *)
LEMMA OneEndsThere ==
    ASSUME NEW t, NEW F, NEW S, Shape(t, F, S), NEW p, IsChunk(t, F, p), NEW q, IsChunk(t, F, q),
           p + t[p].size = q + t[q].size
    PROVE  p = q
  <1>1. Tiles(t, F) /\ Heads(t, F) BY DEF Shape
  <1>2. p \in Nat /\ q \in Nat /\ p \in DOMAIN t /\ q \in DOMAIN t BY <1>1 DEF Heads, IsChunk
  <1>3. t[p].size \in Nat /\ t[q].size \in Nat /\ t[p].size >= 4 /\ t[q].size >= 4
    <2>1. PICK e : e = p + t[p].size OBVIOUS
    <2>2. OneChunk(t, F, p, e) BY <2>1, ChunkStretch
    <2>3. OneChunk(t, F, q, e) BY <2>1, ChunkStretch
    <2> QED BY <2>2, <2>3 DEF OneChunk
  <1>4. p < q => p + t[p].size <= q BY <1>1, <1>2 DEF Tiles
  <1>5. q < p => q + t[q].size <= p BY <1>1, <1>2 DEF Tiles
  <1> QED BY <1>2, <1>3, <1>4, <1>5

(* The invariant implies that neighbouring headers agree.                  *)
LEMMA ImpliesTagsAgree == HeapIInv => TagsAgree
  <1> SUFFICES ASSUME HeapIInv PROVE TagsAgree OBVIOUS
  <1>1. TypeOK BY ImpliesTypeOK
  <1>2. CASE ~Initialized(gm)
    <2>1. Chunks = {} /\ FreeSet = {} BY <1>2, NoMemory
    <2> QED BY <1>1, <2>1 DEF TagsAgree
  <1>3. CASE Initialized(gm)
    <2>1. PICK h, F, S, A : /\ h = gm /\ F = FakeAt(gm) /\ S = FirstChunks(gm)
                            /\ A = Owners(live, call)
      OBVIOUS
    <2>2. InMemory(h, F, S, A) BY <1>3, <2>1, InvariantInMemory
    <2>3. /\ Shape(h.tag, F, S) /\ OneChunk(h.tag, F, h.top, F)
          /\ \A p : p \in Chunks <=> IsChunk(h.tag, F, p)
          /\ \A p : p \in FreeSet <=> FreeAt(h.tag, F, p)
      BY <2>2 DEF InMemory
    <2>4. Agree(h.tag, F) /\ Backs(h.tag, F) /\ Tiles(h.tag, F) BY <2>3 DEF Shape
    <2>5. \A p \in Chunks : gm.tag[NextChunk(gm, p)].pinuse = gm.tag[p].cinuse
      BY <2>1, <2>3, <2>4 DEF Agree, NextChunk
    <2>6. \A p \in FreeSet \ {gm.top} : gm.tag[NextChunk(gm, p)].prevFoot = gm.tag[p].size
      <3> TAKE p \in FreeSet \ {gm.top}
      <3>1. PICK t, top, n : t = h.tag /\ top = h.top /\ n = p + t[p].size OBVIOUS
      <3>2. IsChunk(t, F, p) /\ t[p].cinuse = FALSE /\ p # top BY <2>1, <2>3, <3>1 DEF FreeAt
      <3>3. n # F BY <2>3, <3>1, <3>2, OnlyTopEnds
      <3>4. n \in DOMAIN t /\ t[n].pinuse = FALSE BY <2>4, <3>1, <3>2 DEF Tiles, Agree
      <3>5. PICK q : IsChunk(t, F, q) /\ q + t[q].size = n /\ t[n].prevFoot = t[q].size
        BY <2>4, <3>1, <3>3, <3>4 DEF Backs
      <3>6. p = q BY <2>3, <3>1, <3>2, <3>5, OneEndsThere
      <3> QED BY <2>1, <3>1, <3>5, <3>6 DEF NextChunk
    <2> QED BY <1>1, <2>5, <2>6 DEF TagsAgree
  <1> QED BY <1>2, <1>3

-----------------------------------------------------------------------------
(* What the chunks say of a bin.                                           *)
LEMMA BinRange ==
    ASSUME NEW h, BinsOK(h), NEW s \in BinSizes, NEW T, \A x : Filed(h, x, s) <=> x \in T,
           NEW q, q = h.bins[s]
    PROVE  /\ Range(q) = T /\ IsInjective(q)
           /\ ~IsSmall(s) \/ (SmallIndex(s) \in h.smallmap <=> q # <<>>)
  <1>1. q \in Seq(Nat) /\ NoRepeat(q) BY DEF BinsOK
  <1>3. DOMAIN q = 1 .. Len(q) BY <1>1
  <1>2. IsInjective(q) BY <1>1, <1>3 DEF IsInjective, NoRepeat
  <1>4. Range(q) = {q[i] : i \in 1 .. Len(q)} BY <1>3 DEF Range
  <1>5. \A x : x \in T <=> \E i \in 1 .. Len(q) : q[i] = x BY DEF Filed, Among
  <1>6. Range(q) = T BY <1>4, <1>5
  <1>7. ~IsSmall(s) \/ (SmallIndex(s) \in h.smallmap <=> q # <<>>) BY DEF BinsOK
  <1> QED BY <1>2, <1>6, <1>7

(* The invariant implies that bins and free chunks match.                  *)
LEMMA ImpliesBinsMatch == HeapIInv => BinsMatch
  <1> SUFFICES ASSUME HeapIInv PROVE BinsMatch OBVIOUS
  <1>1. CASE ~Initialized(gm)
    <2>1. Blank(gm, {}) /\ FreeSet = {} BY <1>1, NoMemory
    <2>2. BinsOK(gm) /\ (\A x, s : ~Filed(gm, x, s)) /\ gm.dv = NULL /\ gm.dvsize = 0
      BY <2>1 DEF Blank
    <2>3. \A s \in BinSizes :
            /\ Range(gm.bins[s]) = {p \in FreeSet \ {gm.top, gm.dv} : gm.tag[p].size = s}
            /\ IsInjective(gm.bins[s])
            /\ ~IsSmall(s) \/ (SmallIndex(s) \in gm.smallmap <=> gm.bins[s] # <<>>)
      <3> TAKE s \in BinSizes
      <3>1. PICK T, q : /\ T = {p \in FreeSet \ {gm.top, gm.dv} : gm.tag[p].size = s}
                        /\ q = gm.bins[s]
        OBVIOUS
      <3>2. \A x : Filed(gm, x, s) <=> x \in T BY <2>1, <2>2, <3>1
      <3>4. BinsOK(gm) /\ s \in BinSizes BY <2>2
      <3>5. q = gm.bins[s] BY <3>1
      <3>3. /\ Range(q) = T /\ IsInjective(q)
            /\ ~IsSmall(s) \/ (SmallIndex(s) \in gm.smallmap <=> q # <<>>)
        BY <3>2, <3>4, <3>5, BinRange, Zenon
      <3> QED BY <3>1, <3>3
    <2> QED BY <2>2, <2>3 DEF BinsMatch
  <1>2. CASE Initialized(gm)
    <2>1. PICK h, F, S, A : /\ h = gm /\ F = FakeAt(gm) /\ S = FirstChunks(gm)
                            /\ A = Owners(live, call)
      OBVIOUS
    <2>2. InMemory(h, F, S, A) BY <1>2, <2>1, InvariantInMemory
    <2>3. /\ BinsOK(h) /\ DvOK(h, F)
          /\ \A x, s : Filed(h, x, s) <=>
                 FreeAt(h.tag, F, x) /\ x \notin {h.top, h.dv} /\ h.tag[x].size = s
          /\ \A p : p \in FreeSet <=> FreeAt(h.tag, F, p)
      BY <2>2 DEF InMemory
    <2>4. \A s \in BinSizes :
            /\ Range(gm.bins[s]) = {p \in FreeSet \ {gm.top, gm.dv} : gm.tag[p].size = s}
            /\ IsInjective(gm.bins[s])
            /\ ~IsSmall(s) \/ (SmallIndex(s) \in gm.smallmap <=> gm.bins[s] # <<>>)
      <3> TAKE s \in BinSizes
      <3>1. PICK T, q : /\ T = {p \in FreeSet \ {gm.top, gm.dv} : gm.tag[p].size = s}
                        /\ q = h.bins[s]
        OBVIOUS
      <3>2. \A x : Filed(h, x, s) <=> x \in T BY <2>1, <2>3, <3>1
      <3>3. /\ Range(q) = T /\ IsInjective(q)
            /\ ~IsSmall(s) \/ (SmallIndex(s) \in h.smallmap <=> q # <<>>)
        <4>1. BinsOK(h) BY <2>3
        <4>2. q = h.bins[s] BY <3>1
        <4>3. s \in BinSizes OBVIOUS
        <4> QED BY <4>1, <4>2, <4>3, <3>2, BinRange, ZenonT(60)
      <3> QED BY <2>1, <3>1, <3>3
    <2>5. IF gm.dvsize = 0 THEN gm.dv = NULL
          ELSE gm.dv \in FreeSet \ {gm.top} /\ gm.dvsize = gm.tag[gm.dv].size
      BY <2>1, <2>3 DEF DvOK
    <2> QED BY <2>4, <2>5 DEF BinsMatch
  <1> QED BY <1>1, <1>2

(* Neighbouring headers agree on what is in use and on the size of a free  *)
(* chunk (pinuse, cinuse, prev_foot), after every malloc, calloc, free,    *)
(* realloc and memalign.                                                   *)
THEOREM HeapTagsAgree == Spec => []TagsAgree
  BY HeapInvariant, ImpliesTagsAgree, PTL

(* The chunks of every segment follow one another without a gap up to the  *)
(* fencepost or the fake chunk.                                            *)
THEOREM HeapTiled == Spec => []Tiled
  BY HeapInvariant, ImpliesTiled, PTL

(* free, dispose_chunk and realloc leave no two free chunks side by side.  *)
THEOREM HeapNoFreeNeighbours == Spec => []NoFreeNeighbours
  BY HeapInvariant, ImpliesNoFreeNeighbours, PTL

(* Every free chunk but top and dv is in the bin of its size, once, and    *)
(* nothing else is; smallmap says which small bins are not empty.          *)
THEOREM HeapBinsMatch == Spec => []BinsMatch
  BY HeapInvariant, ImpliesBinsMatch, PTL

(* No chunk stays in use when neither a caller nor a call under way holds  *)
(* it.                                                                     *)
THEOREM HeapNoChunkLeaked == Spec => []NoChunkLeaked
  BY HeapInvariant, ImpliesNoChunkLeaked, PTL

(* A block handed to a caller stays a chunk in use, aligned and as long as *)
(* it was asked for, whatever other calls do.                              *)
THEOREM HeapBlocksHonoured == Spec => []BlocksHonoured
  BY HeapInvariant, ImpliesBlocksHonoured, PTL
=============================================================================
