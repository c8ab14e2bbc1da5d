------------------------- MODULE RefinementProofs --------------------------
(***************************************************************************)
(* The chunk layer implements the specifications above and below it: what  *)
(* its callers see is AllocSpec, what it asks of the system is SysAlloc.   *)
(* The steps are those of DlMallocProofs' invariant, read through the      *)
(* refinement mappings of DlMalloc.                                        *)
(***************************************************************************)
EXTENDS DlMallocProofs

LOCAL INSTANCE FiniteSetsExt
LOCAL INSTANCE SequencesExt

-----------------------------------------------------------------------------
(* The callers' view of the blocks lv.                                     *)
UserBlocks(lv) ==
    [a \in {Chunk2Mem(p) : p \in DOMAIN lv} |-> lv[Mem2Chunk(a)].nb - ChunkOverhead]

(* The end of the memory.                                                  *)
MemoryLimit(pg) == pg * PageWords

(* The block at a lies where it may, apart from all others.                *)
Fits(b, l, a) ==
    /\ a % MallocAlignment = 0 /\ HeapBase <= a /\ a + b[a] <= l
    /\ \A x \in DOMAIN b \ {a} : a + b[a] <= x \/ x + b[x] <= a

AllFit(b, l) == \A a \in DOMAIN b : Fits(b, l, a)

UserView(lv, b) ==
    /\ b = [a \in DOMAIN b |-> b[a]]
    /\ DOMAIN b = {p + 2 : p \in DOMAIN lv}
    /\ \A p \in DOMAIN lv : p \in Nat /\ b[p + 2] = lv[p].nb - 1

(* What the callers see of the blocks lv: each 2 words (chunk2mem) into    *)
(* its chunk, 1 word (the header) shorter.                                 *)
LEMMA ViewFacts ==
    ASSUME NEW lv, \A p \in DOMAIN lv : p \in Nat, NEW b, b = UserBlocks(lv)
    PROVE  UserView(lv, b)
  <1>1. DOMAIN b = {p + 2 : p \in DOMAIN lv} BY DEF UserBlocks, Chunk2Mem
  <1>2. ASSUME NEW p \in DOMAIN lv PROVE p \in Nat /\ b[p + 2] = lv[p].nb - 1
    <2>1. p \in Nat /\ (p + 2) - 2 = p OBVIOUS
    <2>2. p + 2 \in {Chunk2Mem(x) : x \in DOMAIN lv} BY DEF Chunk2Mem
    <2> QED BY <2>1, <2>2 DEF UserBlocks, Mem2Chunk, ChunkOverhead
  <1>3. b = [a \in DOMAIN b |-> b[a]] BY DEF UserBlocks
  <1> QED BY <1>1, <1>2, <1>3 DEF UserView

(* A block among the chunks.                                               *)
Lies(p, n, F, pg) ==
    /\ p \in Nat /\ n \in Nat /\ (p + 2) % 4 = 0 /\ HeapBase <= p /\ p + n <= F
    /\ F \in Nat /\ MemoryLimit(pg) \in Nat /\ F + 14 <= MemoryLimit(pg)

(* A caller's chunk is aligned and lies between the heap's base and the    *)
(* fake chunk behind top, inside the memory.                               *)
LEMMA BlockLies ==
    ASSUME HeapIInv, NEW p \in DOMAIN live, NEW n, n = live[p].nb, NEW F, F = FakeAt(gm),
           NEW pg, pg = pages
    PROVE  Lies(p, n, F, pg)
  <1>1. Initialized(gm) BY NoMemory
  <1>2. PICK h, S, A, t : /\ h = gm /\ S = FirstChunks(gm) /\ A = Owners(live, call) /\ t = h.tag
    OBVIOUS
  <1>3. InMemory(h, F, S, A) BY <1>1, <1>2, InvariantInMemory
  <1>4. Whole(h, F, S, A) /\ Owned(t, F, A) /\ Shape(t, F, S) BY <1>2, <1>3 DEF InMemory
  <1>5. p \in A BY <1>2 DEF Owners
  <1>6. F = FakeAt(h) BY <1>2
  <1>7. p \in Nat /\ p % 4 = 2 /\ t[p].size \in Nat BY <1>2, <1>4, <1>5, <1>6, OwnedFacts
  <1>8. IsChunk(t, F, p) BY <1>4, <1>5 DEF Owned, UsedAt
  <1>9. p \in DOMAIN t /\ p # F BY <1>8 DEF IsChunk
  <1>10. HeapBase + 2 <= p /\ p <= F /\ F \in Nat /\ F \in DOMAIN t BY <1>4, <1>9 DEF Shape, Heads
  <1>11. p < F BY <1>7, <1>9, <1>10
  <1>12. p + t[p].size <= F BY <1>4, <1>8, <1>10, <1>11 DEF Shape, Tiles
  <1>13. n \in Nat /\ n <= t[p].size
    <2>1. PICK b : b = live[p] OBVIOUS
    <2>2. BlockOK(gm, p, b) BY <2>1 DEF HeapIInv, Callers, Blocks
    <2> QED BY <1>2, <2>1, <2>2 DEF BlockOK, Proper
  <1>14. MemoryLimit(pg) \in Nat /\ F + 14 <= MemoryLimit(pg)
    <2>1. HeapInv(SystemPart(h), pg, foreign) /\ Initialized(h) /\ MemoryInv
      BY <1>1, <1>2 DEF HeapIInv, Sound
    <2>2. pg \in Nat /\ pg <= MaxPages BY <2>1, MemoryAssumption DEF MemoryInv
    <2>3. PICK top, m : top = h.top /\ m = h.topsize OBVIOUS
    <2>4. Placing(h, top, m, F) BY <1>6, <2>1, <2>2, <2>3, PlacingFacts
    <2>5. h.seg.base + h.seg.size = F + 14 BY <2>4 DEF Placing
    <2>6. PICK q : q = SystemPart(h) OBVIOUS
    <2>7. q.seg = h.seg BY <2>6, SystemFields
    <2>8. Initialized(q) BY <2>1, <2>6, SystemReads
    <2>9. NewestSegment(q, pg) BY <2>1, <2>6, <2>8 DEF HeapInv
    <2>10. F + 14 <= pg * PageWords BY <2>5, <2>7, <2>9 DEF NewestSegment, Limit
    <2>11. pg * PageWords \in Nat BY <2>2, PageAssumption, SMT
    <2> QED BY <2>10, <2>11 DEF MemoryLimit
  <1>15. (p + 2) % 4 = 0 BY <1>7, SMT
  <1>16. HeapBase <= p BY <1>7, <1>10, HeapAssumption
  <1>17. p + n <= F BY <1>7, <1>10, <1>12, <1>13
  <1> QED BY <1>7, <1>10, <1>13, <1>14, <1>15, <1>16, <1>17 DEF Lies

(* Of two blocks, the lower one's chunk ends where the higher one's        *)
(* starts, or before.                                                      *)
LEMMA BlocksApart ==
    ASSUME HeapIInv, NEW p \in DOMAIN live, NEW q \in DOMAIN live, p # q, NEW n, n = live[p].nb,
           p \in Nat, q \in Nat, n \in Nat, p < q
    PROVE  p + n <= q
  <1>1. Initialized(gm) BY NoMemory
  <1>2. PICK h, F, S, A, t : /\ h = gm /\ F = FakeAt(gm) /\ S = FirstChunks(gm)
                             /\ A = Owners(live, call) /\ t = h.tag
    OBVIOUS
  <1>3. InMemory(h, F, S, A) BY <1>1, <1>2, InvariantInMemory
  <1>4. Owned(t, F, A) /\ Tiles(t, F) BY <1>2, <1>3 DEF InMemory, Shape
  <1>5. p \in A /\ q \in A BY <1>2 DEF Owners
  <1>6. IsChunk(t, F, p) /\ q \in DOMAIN t BY <1>4, <1>5 DEF Owned, UsedAt, IsChunk
  <1>7. p + t[p].size <= q BY <1>4, <1>6 DEF Tiles
  <1>8. t[p].size \in Nat /\ n <= t[p].size
    <2>1. PICK b : b = live[p] OBVIOUS
    <2>2. BlockOK(gm, p, b) BY <2>1 DEF HeapIInv, Callers, Blocks
    <2> QED BY <1>2, <2>1, <2>2 DEF BlockOK
  <1> QED BY <1>7, <1>8

(* Every block of the callers is where it may be.                          *)
BlocksFit ==
    /\ \A p \in DOMAIN live : p \in Nat
    /\ AllFit(UserBlocks(live), MemoryLimit(pages))

(* The inductive invariant says that the callers' blocks are aligned, in   *)
(* the memory and apart.                                                   *)
LEMMA ImpliesBlocksFit == HeapIInv => BlocksFit
  <1> SUFFICES ASSUME HeapIInv PROVE BlocksFit OBVIOUS
  <1>1. PICK b, F, pg, l : b = UserBlocks(live) /\ F = FakeAt(gm) /\ pg = pages /\ l = MemoryLimit(pg)
    OBVIOUS
  <1>2. ASSUME NEW p \in DOMAIN live, NEW n, n = live[p].nb PROVE Lies(p, n, F, pg)
    BY <1>1, <1>2, BlockLies
  <1>3. \A p \in DOMAIN live :
           /\ p \in Nat /\ live[p].nb \in Nat /\ (p + 2) % 4 = 0 /\ HeapBase <= p
           /\ p + live[p].nb <= F /\ F \in Nat /\ l \in Nat /\ F + 14 <= l
    BY <1>1, <1>2 DEF Lies
  <1>4. UserView(live, b) BY <1>1, <1>3, ViewFacts
  <1>5. /\ DOMAIN b = {p + 2 : p \in DOMAIN live}
        /\ \A p \in DOMAIN live : b[p + 2] = live[p].nb - 1
    BY <1>4 DEF UserView
  <1>6. ASSUME NEW p \in DOMAIN live PROVE Fits(b, l, p + 2)
    <2>1. PICK n : n = live[p].nb OBVIOUS
    <2>2. /\ p \in Nat /\ n \in Nat /\ (p + 2) % 4 = 0 /\ HeapBase <= p /\ p + n <= F /\ F \in Nat
          /\ l \in Nat /\ F + 14 <= l
      BY <1>3, <2>1
    <2>3. b[p + 2] = n - 1 BY <1>5, <2>1
    <2>4. (p + 2) + b[p + 2] = p + n + 1 BY <2>2, <2>3
    <2>5. HeapBase <= p + 2 /\ (p + 2) + b[p + 2] <= l BY <2>2, <2>4, HeapAssumption
    <2>6. ASSUME NEW x \in DOMAIN b \ {p + 2}
          PROVE  (p + 2) + b[p + 2] <= x \/ x + b[x] <= p + 2
      <3>1. PICK q \in DOMAIN live : x = q + 2 BY <1>5
      <3>2. PICK m : m = live[q].nb OBVIOUS
      <3>3. q \in Nat /\ m \in Nat /\ b[x] = m - 1 /\ q # p BY <1>3, <1>5, <3>1, <3>2
      <3>4. p < q => p + n <= q BY <2>1, <2>2, <3>3, BlocksApart
      <3>5. q < p => q + m <= p BY <2>2, <3>2, <3>3, BlocksApart
      <3> QED BY <2>2, <2>4, <3>1, <3>3, <3>4, <3>5
    <2> QED BY <2>2, <2>5, <2>6 DEF Fits, MallocAlignment
  <1>7. AllFit(b, l) BY <1>5, <1>6 DEF AllFit
  <1> QED BY <1>1, <1>3, <1>7 DEF BlocksFit

-----------------------------------------------------------------------------
(* One step of the abstract allocator, from the blocks b to the blocks c.  *)
OneMoreBlock(b, c, l) == \E a \in DOMAIN c \ DOMAIN b : Without(c, a) = b /\ Fits(c, l, a)

OneBlock(b, c, l) ==
    \/ OneMoreBlock(b, c, l)
    \/ \E a \in DOMAIN b \ DOMAIN c : Without(b, a) = c
    \/ \E a \in DOMAIN b, x \in DOMAIN c : Without(b, a) = Without(c, x) /\ Fits(c, l, x)
    \/ b = c

(* The block q takes the place of the block p.                             *)
Swaps(f, g, p, q) ==
    /\ p \in DOMAIN f /\ q \in DOMAIN g
    /\ DOMAIN f \ {p} = DOMAIN g \ {q}
    /\ \A y \in DOMAIN f \ {p} : g[y] = f[y]

(* What a step does to the callers' blocks.                                *)
CallersStep(f, g) ==
    \/ f = g
    \/ \E p, v : Gains(f, g, p, v)
    \/ \E p \in DOMAIN f : Drops(f, g, p)
    \/ \E p, q : Swaps(f, g, p, q)

(* A block more for the callers is a block more for the abstract           *)
(* allocator.                                                              *)
LEMMA ViewOfGain ==
    ASSUME NEW f, NEW g, NEW b, NEW c, UserView(f, b), UserView(g, c), NEW l, AllFit(c, l),
           NEW p, NEW v, Gains(f, g, p, v), p \notin DOMAIN f
    PROVE  OneMoreBlock(b, c, l)
  <1>1. /\ b = [a \in DOMAIN b |-> b[a]] /\ DOMAIN b = {x + 2 : x \in DOMAIN f}
        /\ \A x \in DOMAIN f : x \in Nat /\ b[x + 2] = f[x].nb - 1
    BY DEF UserView
  <1>2. /\ DOMAIN c = {x + 2 : x \in DOMAIN g}
        /\ \A x \in DOMAIN g : x \in Nat /\ c[x + 2] = g[x].nb - 1
    BY DEF UserView
  <1>3. DOMAIN g = {p} \cup DOMAIN f /\ \A x \in DOMAIN f : x # p /\ g[x] = f[x] BY DEF Gains
  <1>4. PICK a : a = p + 2 OBVIOUS
  <1>5. a \in DOMAIN c /\ a \notin DOMAIN b BY <1>1, <1>2, <1>3, <1>4
  <1>6. DOMAIN c \ {a} = DOMAIN b BY <1>1, <1>2, <1>3, <1>4, <1>5
  <1>7. \A x \in DOMAIN b : c[x] = b[x] BY <1>1, <1>2, <1>3
  <1>8. Without(c, a) = b BY <1>1, <1>6, <1>7 DEF Without
  <1>9. Fits(c, l, a) BY <1>5 DEF AllFit
  <1> QED BY <1>5, <1>8, <1>9 DEF OneMoreBlock

(* A block less for the callers is a block less for the abstract           *)
(* allocator.                                                              *)
LEMMA ViewOfDrop ==
    ASSUME NEW f, NEW g, NEW b, NEW c, UserView(f, b), UserView(g, c), NEW l,
           NEW p \in DOMAIN f, Drops(f, g, p)
    PROVE  OneBlock(b, c, l)
  <1>1. /\ DOMAIN b = {x + 2 : x \in DOMAIN f}
        /\ \A x \in DOMAIN f : x \in Nat /\ b[x + 2] = f[x].nb - 1
    BY DEF UserView
  <1>2. /\ c = [a \in DOMAIN c |-> c[a]] /\ DOMAIN c = {x + 2 : x \in DOMAIN g}
        /\ \A x \in DOMAIN g : x \in Nat /\ c[x + 2] = g[x].nb - 1
    BY DEF UserView
  <1>3. DOMAIN g = DOMAIN f \ {p} /\ \A x \in DOMAIN g : g[x] = f[x] BY DEF Drops
  <1>4. PICK a : a = p + 2 OBVIOUS
  <1>5. a \in DOMAIN b /\ a \notin DOMAIN c BY <1>1, <1>2, <1>3, <1>4
  <1>6. DOMAIN b \ {a} = DOMAIN c BY <1>1, <1>2, <1>3, <1>4, <1>5
  <1>7. \A x \in DOMAIN c : c[x] = b[x] BY <1>1, <1>2, <1>3
  <1>8. Without(b, a) = c BY <1>2, <1>6, <1>7 DEF Without
  <1> QED BY <1>5, <1>8 DEF OneBlock

(* A block in another's place (realloc) is one in the abstract allocator   *)
(* too.                                                                    *)
LEMMA ViewOfSwap ==
    ASSUME NEW f, NEW g, NEW b, NEW c, UserView(f, b), UserView(g, c), NEW l, AllFit(c, l),
           NEW p, NEW q, Swaps(f, g, p, q)
    PROVE  OneBlock(b, c, l)
  <1>1. /\ DOMAIN b = {x + 2 : x \in DOMAIN f}
        /\ \A x \in DOMAIN f : x \in Nat /\ b[x + 2] = f[x].nb - 1
    BY DEF UserView
  <1>2. /\ DOMAIN c = {x + 2 : x \in DOMAIN g}
        /\ \A x \in DOMAIN g : x \in Nat /\ c[x + 2] = g[x].nb - 1
    BY DEF UserView
  <1>3. /\ p \in DOMAIN f /\ q \in DOMAIN g /\ DOMAIN f \ {p} = DOMAIN g \ {q}
        /\ \A x \in DOMAIN f \ {p} : g[x] = f[x]
    BY DEF Swaps
  <1>4. PICK a, z : a = p + 2 /\ z = q + 2 OBVIOUS
  <1>5. a \in DOMAIN b /\ z \in DOMAIN c BY <1>1, <1>2, <1>3, <1>4
  <1>6. DOMAIN b \ {a} = {x + 2 : x \in DOMAIN f \ {p}} BY <1>1, <1>3, <1>4
  <1>7. DOMAIN c \ {z} = {x + 2 : x \in DOMAIN g \ {q}} BY <1>2, <1>3, <1>4
  <1>8. DOMAIN b \ {a} = DOMAIN c \ {z} BY <1>3, <1>6, <1>7
  <1>9. ASSUME NEW y \in DOMAIN b \ {a} PROVE c[y] = b[y]
    <2>1. PICK x \in DOMAIN f \ {p} : y = x + 2 BY <1>6
    <2>2. g[x] = f[x] /\ x \in DOMAIN g BY <1>3, <2>1
    <2> QED BY <1>1, <1>2, <2>1, <2>2
  <1>10. Without(b, a) = Without(c, z) BY <1>8, <1>9 DEF Without
  <1>11. Fits(c, l, z) BY <1>5 DEF AllFit
  <1> QED BY <1>5, <1>10, <1>11 DEF OneBlock

(* Whatever a step does to the callers' blocks is one abstract step, or    *)
(* none.                                                                   *)
LEMMA ViewSteps ==
    ASSUME NEW f, NEW g, NEW b, NEW c, UserView(f, b), UserView(g, c), NEW l, AllFit(c, l),
           CallersStep(f, g), f = g => b = c
    PROVE  OneBlock(b, c, l)
  <1>1. CASE f = g BY <1>1 DEF OneBlock
  <1>2. ASSUME NEW p, NEW v, Gains(f, g, p, v) PROVE OneBlock(b, c, l)
    <2>1. CASE p \notin DOMAIN f BY <1>2, <2>1, ViewOfGain DEF OneBlock
    <2>2. CASE p \in DOMAIN f
      <3>1. Swaps(f, g, p, p) BY <1>2, <2>2 DEF Gains, Swaps
      <3> QED BY <3>1, ViewOfSwap
    <2> QED BY <2>1, <2>2
  <1>3. ASSUME NEW p \in DOMAIN f, Drops(f, g, p) PROVE OneBlock(b, c, l)
    BY <1>3, ViewOfDrop
  <1>4. ASSUME NEW p, NEW q, Swaps(f, g, p, q) PROVE OneBlock(b, c, l)
    BY <1>4, ViewOfSwap
  <1> QED BY <1>1, <1>2, <1>3, <1>4 DEF CallersStep

(* An abstract step, written with the variables of the code.               *)
LEMMA AbstractStep ==
    ASSUME NEW b, NEW c, b = UserBlocks(live), c = UserBlocks(live'),
           NEW k, NEW l, k = MemoryLimit(pages), l = MemoryLimit(pages'), l >= k
    PROVE  /\ OneMoreBlock(b, c, l) => Abs!Obtain
           /\ OneBlock(b, c, l) => Abs!Next
  <1>1. b = [a \in {Chunk2Mem(p) : p \in DOMAIN live} |-> live[Mem2Chunk(a)].nb - ChunkOverhead]
    BY DEF UserBlocks
  <1>2. c = [a \in {Chunk2Mem(p) : p \in DOMAIN live'} |-> live'[Mem2Chunk(a)].nb - ChunkOverhead]
    BY DEF UserBlocks
  <1>3. k = pages * PageWords /\ l = pages' * PageWords BY DEF MemoryLimit
  <1>4. \A a : Abs!Placed(a) <=> Fits(c, l, a)
    BY <1>2, <1>3, Zenon DEF Abs!Placed, Fits
  <1>5. \A a, f : Abs!Without(a, f) = Without(f, a) BY DEF Abs!Without, Without
  <1>6. ASSUME NEW a \in DOMAIN c \ DOMAIN b, Without(c, a) = b, Fits(c, l, a) PROVE Abs!Obtain
    BY <1>1, <1>2, <1>4, <1>5, <1>6, Zenon DEF Abs!Obtain
  <1>7. ASSUME NEW a \in DOMAIN b \ DOMAIN c, Without(b, a) = c PROVE Abs!Release
    BY <1>1, <1>2, <1>5, <1>7, Zenon DEF Abs!Release
  <1>8. ASSUME NEW a \in DOMAIN b, NEW x \in DOMAIN c, Without(b, a) = Without(c, x), Fits(c, l, x)
        PROVE  Abs!Replace
    BY <1>1, <1>2, <1>4, <1>5, <1>8, Zenon DEF Abs!Replace
  <1>9. ASSUME b = c PROVE Abs!Next
    BY <1>1, <1>2, <1>3, <1>9, Zenon DEF Abs!Next
  <1>10. pages' * PageWords >= pages * PageWords BY <1>3
  <1>11. OneMoreBlock(b, c, l) => Abs!Obtain BY <1>6 DEF OneMoreBlock
  <1> QED BY <1>7, <1>8, <1>9, <1>10, <1>11 DEF OneBlock, Abs!Next

-----------------------------------------------------------------------------
(* What a step does to the callers' blocks and to the memory.              *)
Step == CallersStep(live, live') /\ pages \in Nat /\ pages' \in Nat /\ pages <= pages'

(* The memory has at most MaxPages pages.                                  *)
LEMMA PagesFacts ==
    ASSUME HeapIInv
    PROVE  /\ pages \in Nat /\ pages <= MaxPages /\ MaxPages \in Nat
           /\ \A p \in pages .. MaxPages : p \in Nat /\ pages <= p
  BY MemoryAssumption DEF HeapIInv, MemoryInv

(* A step that asks the system for nothing leaves the memory as it is.     *)
LEMMA QuietSteps ==
    ASSUME HeapIInv, NEW h, Quiet(h), CallersStep(live, live')
    PROVE  Step
  <1>1. pages' = pages BY DEF Quiet, memoryVars
  <1> QED BY <1>1, PagesFacts DEF Step

(* malloc may grow the memory and never shrinks it.                        *)
LEMMA ServedPages ==
    ASSUME HeapIInv, call = NoCall, NEW nb, AnySize(nb), NEW o \in MallocOutcomes(nb), Leave(o)
    PROVE  pages' \in Nat /\ pages <= pages'
  <1>1. PICK A : A = DOMAIN live OBVIOUS
  <1>2. Idle(A) BY <1>1, IdleFacts
  <1>3. MemoryInv /\ HeapOK(gm, A, pages) BY <1>2 DEF Idle
  <1>4. Served(gm, o, A, nb) BY <1>3, MallocServes
  <1>5. pages' \in pages .. MaxPages BY <1>4 DEF Served, Leave
  <1> QED BY <1>5, PagesFacts

(* malloc and calloc: a block more, or none.                               *)
LEMMA ObtainSteps ==
    ASSUME HeapIInv, NEW w \in Nat, NEW nb, Obtain(w, nb)
    PROVE  Step
  <1>1. PICK c : c = ChunkSizeFor(w) OBVIOUS
  <1>2. call = NoCall BY DEF Obtain
  <1>3. PICK o \in MallocOutcomes(c) :
           /\ Leave(o)
           /\ live' = IF o.p = NULL THEN live ELSE With(live, o.p, Block(nb, MallocAlignment))
    BY <1>1 DEF Obtain
  <1>4. AnySize(c) BY <1>1, RequestAnySize
  <1>5. pages' \in Nat /\ pages <= pages' BY <1>2, <1>3, <1>4, ServedPages
  <1>6. CallersStep(live, live')
    <2>1. CASE o.p = NULL BY <1>3, <2>1 DEF CallersStep
    <2>2. CASE o.p # NULL
      <3>1. PICK p, v : p = o.p /\ v = Block(nb, MallocAlignment) OBVIOUS
      <3>2. live' = With(live, p, v) BY <1>3, <2>2, <3>1
      <3>3. Gains(live, live', p, v) BY <3>2, WithFacts
      <3> QED BY <3>3 DEF CallersStep
    <2> QED BY <2>1, <2>2
  <1> QED BY <1>5, <1>6, PagesFacts DEF Step

(* realloc: the block gets its new length where it is, or stays as it was  *)
(* while a new one is sought.                                              *)
LEMMA ReallocSteps ==
    ASSUME HeapIInv, NEW p \in DOMAIN live, NEW w \in 0 .. MaxSizeT, Realloc(p, w)
    PROVE  Step
  <1>1. PICK nb : nb = Request2Size(w) OBVIOUS
  <1>2. w < MaxRequest /\ w \in Nat BY AddrWordsFacts DEF Realloc, MaxSizeT
  <1>3. Proper(nb) BY <1>1, <1>2, RequestProper
  <1>4. \/ ReallocShrink(p, nb) \/ ReallocIntoTop(p, nb) \/ ReallocIntoDv(p, nb)
        \/ ReallocIntoNext(p, nb) \/ ReallocMove(p, nb)
    BY <1>1 DEF Realloc
  <1>5. PICK v : v = Block(nb, MallocAlignment) OBVIOUS
  <1>6. live' = With(live, p, v) => CallersStep(live, live')
    <2> HAVE live' = With(live, p, v)
    <2>1. Gains(live, live', p, v) BY WithFacts
    <2> QED BY <2>1 DEF CallersStep
  <1>7. ASSUME NEW h, StaysPut(p, nb, h) PROVE Step
    <2>1. Quiet(h) /\ live' = With(live, p, v) BY <1>5, <1>7 DEF StaysPut
    <2> QED BY <1>6, <2>1, QuietSteps
  <1>8. CASE ReallocShrink(p, nb) BY <1>7, <1>8 DEF ReallocShrink
  <1>9. CASE ReallocIntoDv(p, nb) BY <1>7, <1>9 DEF ReallocIntoDv
  <1>10. CASE ReallocIntoNext(p, nb) BY <1>7, <1>10 DEF ReallocIntoNext
  <1>11. CASE ReallocIntoTop(p, nb)
    <2>1. live' = With(live, p, v) /\ pages' = pages BY <1>5, <1>11 DEF ReallocIntoTop
    <2> QED BY <1>6, <2>1, PagesFacts DEF Step
  <1>12. CASE ReallocMove(p, nb)
    <2>1. call = NoCall /\ live' = live BY <1>12 DEF ReallocMove
    <2>2. PICK o \in MallocOutcomes(nb) : Leave(o) BY <1>12 DEF ReallocMove
    <2>3. AnySize(nb) BY <1>3 DEF AnySize
    <2>4. pages' \in Nat /\ pages <= pages' BY <2>1, <2>2, <2>3, ServedPages
    <2> QED BY <2>1, <2>4, PagesFacts DEF Step, CallersStep
  <1> QED BY <1>4, <1>8, <1>9, <1>10, <1>11, <1>12

(* aligned_alloc's malloc: no block of a caller yet.                       *)
LEMMA MemalignSteps ==
    ASSUME HeapIInv, NEW a \in 1 .. MaxSizeT, NEW w \in 0 .. MaxSizeT, Memalign(a, w)
    PROVE  Step
  <1>1. PICK al, nb : al = RoundedAlignment(a) /\ nb = Request2Size(w) OBVIOUS
  <1>2. PICK req : req = nb + al + MinChunkSize - ChunkOverhead OBVIOUS
  <1>3. PICK c : c = ChunkSizeFor(req) OBVIOUS
  <1>4. a \in Nat /\ w \in Nat /\ MaxRequest \in Int
    BY AddrWordsFacts DEF MaxSizeT, MaxRequest, MinChunkSize
  <1>5. /\ call = NoCall /\ a > MallocAlignment /\ w < MaxRequest - al /\ live' = live
        /\ \E o \in MallocOutcomes(c) : Leave(o)
    BY <1>1, <1>2, <1>3 DEF Memalign
  <1>6. al \in Nat /\ al > 4 BY <1>1, <1>4, <1>5, AlignmentFacts
  <1>7. w < MaxRequest BY <1>4, <1>5, <1>6
  <1>8. Proper(nb) BY <1>1, <1>4, <1>7, RequestProper
  <1>9. nb \in Nat BY <1>8 DEF Proper
  <1>10. req \in Nat BY <1>2, <1>6, <1>9 DEF MinChunkSize, ChunkOverhead
  <1>11. AnySize(c) BY <1>3, <1>10, RequestAnySize
  <1>12. pages' \in Nat /\ pages <= pages' BY <1>5, <1>11, ServedPages
  <1> QED BY <1>5, <1>12, PagesFacts DEF Step, CallersStep

(* free: a block less.                                                     *)
LEMMA FreeSteps ==
    ASSUME HeapIInv, NEW p \in DOMAIN live, Free(p)
    PROVE  Step
  <1>1. live' = Without(live, p) /\ Quiet(Dispose(gm, p, ChunkSize(gm, p))) BY DEF Free
  <1>2. Drops(live, live', p) BY <1>1, WithoutFacts
  <1>3. CallersStep(live, live') BY <1>2 DEF CallersStep
  <1> QED BY <1>1, <1>3, QuietSteps

(* The second half of a moving realloc: the new block takes the old one's  *)
(* place.                                                                  *)
LEMMA ReallocFreeSteps ==
    ASSUME HeapIInv, ReallocFree
    PROVE  Step
  <1>1. Moving(gm, live, call)
    BY DEF ReallocFree, HeapIInv, Callers, Pending, NoCall, Aligning
  <1>2. PICK o, q, v, lo : /\ o = call.old /\ q = call.p /\ v = Block(call.nb, MallocAlignment)
                           /\ lo = Without(live, o)
    OBVIOUS
  <1>3. o \in DOMAIN live /\ q \notin DOMAIN live BY <1>1, <1>2 DEF Moving
  <1>4. live' = With(lo, q, v) BY <1>2 DEF ReallocFree
  <1>5. Drops(live, lo, o) BY <1>2, WithoutFacts
  <1>6. Gains(lo, live', q, v) BY <1>4, WithFacts
  <1>7. Swaps(live, live', o, q) BY <1>3, <1>5, <1>6 DEF Drops, Gains, Swaps
  <1>8. CallersStep(live, live') BY <1>7 DEF CallersStep
  <1>9. Quiet(Dispose(gm, call.old, ChunkSize(gm, call.old))) BY DEF ReallocFree
  <1> QED BY <1>8, <1>9, QuietSteps

(* The second half of aligned_alloc: a block more.                         *)
LEMMA MemalignTrimSteps ==
    ASSUME HeapIInv, MemalignTrim
    PROVE  Step
  <1>1. \E h : Quiet(h) BY DEF MemalignTrim
  <1>2. \E p, v : live' = With(live, p, v) BY DEF MemalignTrim
  <1>3. \E p, v : Gains(live, live', p, v) BY <1>2, WithFacts
  <1>4. CallersStep(live, live') BY <1>3 DEF CallersStep
  <1> QED BY <1>1, <1>4, QuietSteps

(* The host grows the memory; the callers' blocks stay.                    *)
LEMMA HostSteps ==
    ASSUME HeapIInv, NEW n \in 1 .. MaxPages, Host(n)
    PROVE  Step
  <1>1. pages' = pages + n /\ live' = live BY DEF Host, ForeignGrow
  <1>2. n \in Nat BY MemoryAssumption
  <1> QED BY <1>1, <1>2, PagesFacts DEF Step, CallersStep

(* Each step gives one block, takes one, replaces one or leaves all, and   *)
(* never shrinks the memory.                                               *)
LEMMA EveryStep ==
    ASSUME HeapIInv, [Next]_vars
    PROVE  Step
  <1>1. CASE UNCHANGED vars BY <1>1, PagesFacts DEF vars, Step, CallersStep
  <1>2. ASSUME NEW w \in Requests, Malloc(w) PROVE Step
    <2>1. w \in Nat BY <1>2, ChunkAssumption, AddrWordsFacts DEF MaxSizeT
    <2> QED BY <1>2, <2>1, ObtainSteps DEF Malloc
  <1>3. ASSUME NEW w \in Requests, NEW p \in DOMAIN live, Realloc(p, w) PROVE Step
    <2>1. w \in 0 .. MaxSizeT BY <1>3, ChunkAssumption
    <2> QED BY <1>3, <2>1, ReallocSteps
  <1>4. ASSUME NEW w \in Requests, NEW a \in Alignments, Memalign(a, w) PROVE Step
    <2>1. w \in 0 .. MaxSizeT /\ a \in 1 .. MaxSizeT BY <1>4, ChunkAssumption
    <2> QED BY <1>4, <2>1, MemalignSteps
  <1>5. ASSUME NEW x \in Arrays, Calloc(x[1], x[2]) PROVE Step
    <2>1. PICK k, e : k = x[1] /\ e = x[2] OBVIOUS
    <2>2. k \in 0 .. MaxSizeT /\ e \in 0 .. MaxSizeT BY <1>5, <2>1, ChunkAssumption
    <2>3. PICK r, c : r = CallocRequest(k, e) /\ c = Request2Size(k * e) OBVIOUS
    <2>4. r \in Nat BY <2>2, <2>3, CallocAsks
    <2>5. Obtain(r, c) BY <1>5, <2>1, <2>3 DEF Calloc
    <2> QED BY <2>4, <2>5, ObtainSteps
  <1>6. ASSUME NEW p \in DOMAIN live, Free(p) PROVE Step BY <1>6, FreeSteps
  <1>7. CASE ReallocFree BY <1>7, ReallocFreeSteps
  <1>8. CASE MemalignTrim BY <1>8, MemalignTrimSteps
  <1>9. ASSUME NEW n \in 1 .. MaxPages, Host(n) PROVE Step BY <1>9, HostSteps
  <1> QED BY <1>1, <1>2, <1>3, <1>4, <1>5, <1>6, <1>7, <1>8, <1>9 DEF Next

(* malloc and calloc hand out a block that nobody has.                     *)
LEMMA ObtainFresh ==
    ASSUME HeapIInv, NEW w \in Nat, NEW nb, Obtain(w, nb)
    PROVE  live' = live \/ \E p, v : Gains(live, live', p, v) /\ p \notin DOMAIN live
  <1>1. PICK c, A : c = ChunkSizeFor(w) /\ A = DOMAIN live OBVIOUS
  <1>2. call = NoCall BY DEF Obtain
  <1>3. PICK o \in MallocOutcomes(c) :
           /\ Leave(o)
           /\ live' = IF o.p = NULL THEN live ELSE With(live, o.p, Block(nb, MallocAlignment))
    BY <1>1 DEF Obtain
  <1>4. AnySize(c) BY <1>1, RequestAnySize
  <1>5. Idle(A) BY <1>1, <1>2, IdleFacts
  <1>6. MemoryInv /\ HeapOK(gm, A, pages) BY <1>5 DEF Idle
  <1>7. Served(gm, o, A, c) BY <1>4, <1>6, MallocServes
  <1>8. CASE o.p # NULL
    <2>1. PICK p, v : p = o.p /\ v = Block(nb, MallocAlignment) OBVIOUS
    <2>2. live' = With(live, p, v) BY <1>3, <1>8, <2>1
    <2>3. Gains(live, live', p, v) BY <2>2, WithFacts
    <2>4. p \notin DOMAIN live BY <1>1, <1>7, <1>8, <2>1 DEF Served, Granted
    <2> QED BY <2>3, <2>4
  <1> QED BY <1>3, <1>8

(* So does aligned_alloc: the block lies inside the chunk that malloc gave *)
(* it.                                                                     *)
LEMMA MemalignFresh ==
    ASSUME HeapIInv, MemalignTrim
    PROVE  \E p, v : Gains(live, live', p, v) /\ p \notin DOMAIN live
  <1>1. PICK h, c, A, F, S : /\ h = gm /\ c = call /\ A = Owners(live, call) /\ F = FakeAt(gm)
                             /\ S = FirstChunks(gm)
    OBVIOUS
  <1>2. c.op = "memalign" BY <1>1 DEF MemalignTrim
  <1>3. Aligning(h, live, c) BY <1>1, <1>2 DEF HeapIInv, Callers, Pending, NoCall, Moving
  <1>4. PICK p, al, nb, s : p = c.p /\ al = c.align /\ nb = c.nb /\ s = h.tag[p].size OBVIOUS
  <1>5. /\ p \notin DOMAIN live /\ al \in Nat /\ al > 4 /\ al % 4 = 0 /\ s \in Nat /\ Proper(nb)
        /\ s >= nb + al
    BY <1>3, <1>4 DEF Aligning
  <1>6. p \in A /\ DOMAIN live \subseteq A BY <1>1, <1>2, <1>4 DEF Owners, NoCall
  <1>7. Initialized(gm) BY <1>1, <1>6, NoMemory DEF Owners
  <1>8. InMemory(h, F, S, A) BY <1>1, <1>7, InvariantInMemory
  <1>9. Whole(h, F, S, A) /\ F = FakeAt(h) /\ Owned(h.tag, F, A) /\ Tiles(h.tag, F)
    BY <1>1, <1>8 DEF InMemory, Shape
  <1>10. p \in Nat /\ p % 4 = 2 BY <1>6, <1>9, OwnedFacts
  <1>11. PICK pos : pos = AlignedPosition(p, al) OBVIOUS
  <1>12. pos \in Nat /\ p <= pos /\ pos < p + al BY <1>5, <1>10, <1>11, MemalignPlace
  <1>13. nb \in Nat BY <1>5 DEF Proper
  <1>14. pos \notin DOMAIN live
    <2> SUFFICES ASSUME pos \in DOMAIN live PROVE FALSE OBVIOUS
    <2>1. pos \in A /\ pos # p BY <1>5, <1>6
    <2>2. p < pos BY <1>10, <1>12, <2>1
    <2>3. IsChunk(h.tag, F, p) /\ pos \in DOMAIN h.tag BY <1>6, <1>9, <2>1 DEF Owned, UsedAt, IsChunk
    <2>4. p + s <= pos BY <1>4, <1>9, <2>2, <2>3 DEF Tiles
    <2> QED BY <1>5, <1>10, <1>12, <1>13, <2>4
  <1>15. PICK v : v = Block(nb, al) OBVIOUS
  <1>16. live' = With(live, pos, v) BY <1>1, <1>4, <1>11, <1>15 DEF MemalignTrim
  <1>17. Gains(live, live', pos, v) BY <1>16, WithFacts
  <1> QED BY <1>14, <1>17

(* A call that hands out a block hands out one that nobody has.            *)
LEMMA FreshBlock ==
    ASSUME HeapIInv, Obtains
    PROVE  live' = live \/ \E p, v : Gains(live, live', p, v) /\ p \notin DOMAIN live
  <1>1. ASSUME NEW w \in Requests, Malloc(w)
        PROVE  live' = live \/ \E p, v : Gains(live, live', p, v) /\ p \notin DOMAIN live
    <2>1. w \in Nat BY <1>1, ChunkAssumption, AddrWordsFacts DEF MaxSizeT
    <2> QED BY <1>1, <2>1, ObtainFresh DEF Malloc
  <1>2. ASSUME NEW x \in Arrays, Calloc(x[1], x[2])
        PROVE  live' = live \/ \E p, v : Gains(live, live', p, v) /\ p \notin DOMAIN live
    <2>1. PICK k, e : k = x[1] /\ e = x[2] OBVIOUS
    <2>2. k \in 0 .. MaxSizeT /\ e \in 0 .. MaxSizeT BY <1>2, <2>1, ChunkAssumption
    <2>3. PICK r, c : r = CallocRequest(k, e) /\ c = Request2Size(k * e) OBVIOUS
    <2>4. r \in Nat BY <2>2, <2>3, CallocAsks
    <2>5. Obtain(r, c) BY <1>2, <2>1, <2>3 DEF Calloc
    <2> QED BY <2>4, <2>5, ObtainFresh
  <1> QED BY <1>1, <1>2, MemalignFresh DEF Obtains

(* Every step of the code is a step of the abstract allocator, and a call  *)
(* that hands out a block obtains one.                                     *)
LEMMA AbstractSteps ==
    ASSUME HeapIInv, [Next]_vars, BlocksFit, BlocksFit'
    PROVE  Abs!Next /\ (Obtains => Abs!Obtain \/ UNCHANGED live)
  <1>1. /\ CallersStep(live, live') /\ pages \in Nat /\ pages' \in Nat /\ pages <= pages'
    BY EveryStep DEF Step
  <1>2. PICK f, g, b, c, k, l :
           /\ f = live /\ g = live' /\ b = UserBlocks(f) /\ c = UserBlocks(g)
           /\ k = MemoryLimit(pages) /\ l = MemoryLimit(pages')
    OBVIOUS
  <1>3. \A p \in DOMAIN f : p \in Nat BY <1>2 DEF BlocksFit
  <1>4. (\A p \in DOMAIN g : p \in Nat) /\ AllFit(c, l) BY <1>2 DEF BlocksFit
  <1>5. UserView(f, b) BY <1>2, <1>3, ViewFacts
  <1>6. UserView(g, c) BY <1>2, <1>4, ViewFacts
  <1>7. CallersStep(f, g) BY <1>1, <1>2
  <1>10. f = g => b = c BY <1>2
  <1>11. AllFit(c, l) BY <1>4
  <1>8. OneBlock(b, c, l) BY <1>5, <1>6, <1>7, <1>10, <1>11, ViewSteps
  <1>9. l >= k
    <2>1. CASE pages = pages'
      <3>1. PICK x : x = pages OBVIOUS
      <3>2. x * PageWords \in Nat BY <1>1, <3>1, PageAssumption, SMT
      <3>3. k = x * PageWords /\ l = x * PageWords BY <1>2, <2>1, <3>1 DEF MemoryLimit
      <3> QED BY <3>2, <3>3
    <2>2. CASE pages < pages'
      <3>1. PICK x, y : x = pages /\ y = pages' OBVIOUS
      <3>2. /\ x * PageWords \in Nat /\ y * PageWords \in Nat
            /\ (x + 1) * PageWords = x * PageWords + PageWords
            /\ (x + 1) * PageWords <= y * PageWords
        BY <1>1, <2>2, <3>1, PagesMonotone
      <3>3. x * PageWords <= y * PageWords BY <3>2, PageAssumption
      <3> QED BY <1>2, <3>1, <3>2, <3>3 DEF MemoryLimit
    <2> QED BY <1>1, <2>1, <2>2
  <1>12. Abs!Next BY <1>2, <1>8, <1>9, AbstractStep
  <1>13. ASSUME Obtains PROVE Abs!Obtain \/ UNCHANGED live
    <2>1. CASE live' = live BY <2>1
    <2>2. ASSUME NEW p, NEW v, Gains(live, live', p, v), p \notin DOMAIN live PROVE Abs!Obtain
      <3>1. Gains(f, g, p, v) /\ p \notin DOMAIN f BY <1>2, <2>2
      <3>2. OneMoreBlock(b, c, l) BY <1>5, <1>6, <1>11, <3>1, ViewOfGain
      <3> QED BY <1>2, <1>9, <3>2, AbstractStep
    <2> QED BY <1>13, <2>1, <2>2, FreshBlock
  <1> QED BY <1>12, <1>13

(* Before the first call there is no block.                                *)
LEMMA AbstractInit == Init => Abs!Init
  <1> SUFFICES ASSUME Init PROVE Abs!Init OBVIOUS
  <1>1. live = [x \in {} |-> 0] BY DEF Init
  <1>2. pages * PageWords \in Nat
    BY MemoryAssumption, PageAssumption, SMT DEF Init, MemoryInit
  <1>3. {Chunk2Mem(p) : p \in DOMAIN live} = {} BY <1>1
  <1>4. [a \in {Chunk2Mem(p) : p \in DOMAIN live} |-> live[Mem2Chunk(a)].nb - ChunkOverhead]
            = [x \in {} |-> 0]
    BY <1>3
  <1> QED BY <1>2, <1>4 DEF Abs!Init

(* The chunk layer implements the abstract allocator its callers see:      *)
(* blocks are aligned, in the memory and apart; a call gives one, takes    *)
(* one, replaces one or fails and leaves all alone; and malloc, calloc and *)
(* aligned_alloc hand out only memory that nobody has (dlmalloc, dlcalloc, *)
(* internal_memalign, dlfree, dlrealloc).                                  *)
THEOREM HeapRefinesAllocSpec == Spec => RefinesAllocSpec
  <1>1. HeapIInv /\ [Next]_vars /\ BlocksFit /\ BlocksFit'
            => Abs!Next /\ (Obtains => Abs!Obtain \/ UNCHANGED live)
    BY AbstractSteps
  <1> QED BY <1>1, AbstractInit, ImpliesBlocksFit, HeapInvariant, PTL
      DEF Spec, RefinesAllocSpec, Abs!Spec

-----------------------------------------------------------------------------
(* When malloc finds nothing in the heap.                                  *)

(* Nothing free, top and dv included, is long enough.                      *)
TooShort(h, nb) ==
    /\ nb > h.dvsize /\ nb >= h.topsize
    /\ \A s \in BinSizes : h.bins[s] # <<>> => s < nb

(* The last resort: no bin, and not dv, will do.                           *)
LastResort(h, nb, exact, small, tree) ==
    /\ IsSmall(nb) => exact = {} /\ small = {} /\ tree = {}
    /\ ~IsSmall(nb) => tree = {} \/ ~TreeBeatsDv(h, Min(tree), nb)
    /\ nb > h.dvsize /\ NeedsSystem(h, nb)

(* What malloc took from the bins, dv or top is a chunk.                   *)
LEMMA TakesChunk ==
    ASSUME NEW h, NEW F, NEW S, NEW A, Whole(h, F, S, A), F = FakeAt(h), NEW nb
    PROVE  /\ \A s \in BinSizes : h.bins[s] # <<>> =>
                  TakeForSmall(h, s, nb).p # NULL /\ TakeForLarge(h, s, nb).p # NULL
           /\ h.dvsize # 0 => TakeDv(h, nb).p # NULL
           /\ SplitTop(h, nb).p # NULL
  <1>1. Known(h, F, S, A) BY WholeFacts
  <1>2. BinsOK(h) /\ h.top # NULL /\ \A x : IsChunk(h.tag, F, x) => x # NULL
    BY <1>1 DEF Known, Initialized
  <1>3. ASSUME NEW s \in BinSizes, h.bins[s] # <<>> PROVE Head(h.bins[s]) # NULL
    <2>1. PICK x : x = Head(h.bins[s]) OBVIOUS
    <2>2. Filed(h, x, s) BY <1>2, <1>3, <2>1, HeadFiled
    <2>3. IsChunk(h.tag, F, x) BY <2>2 DEF Whole, Loose, Holds, FreeAt
    <2> QED BY <1>2, <2>1, <2>3
  <1>4. \A s \in BinSizes : h.bins[s] # <<>> =>
            TakeForSmall(h, s, nb).p # NULL /\ TakeForLarge(h, s, nb).p # NULL
    BY <1>3 DEF TakeForSmall, TakeForLarge, Got
  <1>5. h.dvsize # 0 => h.dv # NULL BY <1>2 DEF Whole, DvOK, FreeAt
  <1>6. TakeDv(h, nb).p = h.dv BY DEF TakeDv, Got
  <1>7. SplitTop(h, nb).p = h.top BY DEF SplitTop, Got
  <1> QED BY <1>2, <1>4, <1>5, <1>6, <1>7

(* FromHeap finds nothing only at its last resort.                         *)
LEMMA FindsNothing ==
    ASSUME NEW h, NEW F, NEW S, NEW A, Whole(h, F, S, A), F = FakeAt(h),
           NEW nb, AnySize(nb),
           NEW exact, exact = h.smallmap \cap {SmallIndex(nb), SmallIndex(nb) + 1},
           NEW small, small = SmallFits(h, nb),
           NEW tree, tree = TreeFits(h, nb),
           NEW r, r = FromHeap(h, nb), r.p = NULL
    PROVE  LastResort(h, nb, exact, small, tree)
  <1>1. r = CASE IsSmall(nb) /\ exact # {}      -> TakeForSmall(h, 2 * Min(exact), nb)
              [] IsSmall(nb) /\ nb > h.dvsize /\ exact = {} /\ small # {}
                                                -> TakeForSmall(h, 2 * Min(small), nb)
              [] IsSmall(nb) /\ nb > h.dvsize /\ small = {} /\ tree # {}
                                                -> TakeForSmall(h, Min(tree), nb)
              [] ~IsSmall(nb) /\ tree # {} /\ TreeBeatsDv(h, Min(tree), nb)
                                                -> TakeForLarge(h, Min(tree), nb)
              [] OTHER -> IF nb <= h.dvsize THEN TakeDv(h, nb)
                          ELSE IF NeedsSystem(h, nb) THEN NothingFits
                          ELSE SplitTop(h, nb)
    BY DEF FromHeap
  <1>2. /\ \A s \in BinSizes : h.bins[s] # <<>> =>
              TakeForSmall(h, s, nb).p # NULL /\ TakeForLarge(h, s, nb).p # NULL
        /\ h.dvsize # 0 => TakeDv(h, nb).p # NULL
        /\ SplitTop(h, nb).p # NULL
    BY TakesChunk
  <1>3. Known(h, F, S, A) BY WholeFacts
  <1>4. BinsOK(h) BY <1>3 DEF Known
  <1>5. nb \in Nat /\ nb > 0
    BY AddrWordsFacts, PageAssumption DEF AnySize, Proper, MaxSizeT
  <1>6. h.dvsize \in Nat BY SizesBelow
  <1>7. \A i \in h.smallmap : i \in Nat /\ 2 * i \in BinSizes /\ h.bins[2 * i] # <<>>
                              /\ SmallIndex(nb) \in Nat
    BY <1>4, <1>5, MarksFit
  <1>8. \A s \in BinSizes : s \in Nat
    <2>1. MaxPages * PageWords \in Nat BY MemoryAssumption, MemoryEnd
    <2> QED BY <2>1, Layout DEF BinSizes
  <1>9. \A i \in exact : i \in small BY <1>7 DEF SmallFits
  <1>10. exact \in SUBSET Nat /\ small \in SUBSET Nat /\ tree \in SUBSET Nat
    BY <1>7, <1>8 DEF SmallFits, TreeFits, LargeSizes
  <1>11. ASSUME NEW M \in SUBSET h.smallmap, M # {}, M \in SUBSET Nat
         PROVE  TakeForSmall(h, 2 * Min(M), nb).p # NULL
    <2>1. PICK i : i = Min(M) OBVIOUS
    <2>2. i \in M BY <1>11, <2>1, LeastElement
    <2> QED BY <1>2, <1>7, <2>1, <2>2
  <1>12. tree # {} =>
            TakeForSmall(h, Min(tree), nb).p # NULL /\ TakeForLarge(h, Min(tree), nb).p # NULL
    <2> HAVE tree # {}
    <2>1. PICK s : s = Min(tree) OBVIOUS
    <2>2. s \in tree BY <1>10, <2>1, LeastElement
    <2>3. s \in BinSizes /\ h.bins[s] # <<>> BY <2>2 DEF TreeFits, LargeSizes
    <2> QED BY <1>2, <2>1, <2>3
  <1>13. exact \in SUBSET h.smallmap /\ small \in SUBSET h.smallmap BY DEF SmallFits
  <1>14. ~(IsSmall(nb) /\ exact # {})
    <2> SUFFICES ASSUME IsSmall(nb) /\ exact # {} PROVE FALSE OBVIOUS
    <2>1. r = TakeForSmall(h, 2 * Min(exact), nb) BY <1>1, <1>9
    <2> QED BY <1>10, <1>11, <1>13, <2>1
  <1>15. ~(IsSmall(nb) /\ nb > h.dvsize /\ exact = {} /\ small # {})
    <2> SUFFICES ASSUME IsSmall(nb) /\ nb > h.dvsize /\ exact = {} /\ small # {} PROVE FALSE OBVIOUS
    <2>1. r = TakeForSmall(h, 2 * Min(small), nb) BY <1>1
    <2> QED BY <1>10, <1>11, <1>13, <2>1
  <1>16. ~(IsSmall(nb) /\ nb > h.dvsize /\ small = {} /\ tree # {})
    <2> SUFFICES ASSUME IsSmall(nb) /\ nb > h.dvsize /\ small = {} /\ tree # {} PROVE FALSE OBVIOUS
    <2>1. exact = {} BY <1>9
    <2>2. r = TakeForSmall(h, Min(tree), nb) BY <1>1, <2>1
    <2> QED BY <1>12, <2>2
  <1>17. ~(~IsSmall(nb) /\ tree # {} /\ TreeBeatsDv(h, Min(tree), nb))
    <2> SUFFICES ASSUME ~IsSmall(nb) /\ tree # {} /\ TreeBeatsDv(h, Min(tree), nb) PROVE FALSE
      OBVIOUS
    <2>1. r = TakeForLarge(h, Min(tree), nb) BY <1>1
    <2> QED BY <1>12, <2>1
  <1>18. r = IF nb <= h.dvsize THEN TakeDv(h, nb)
             ELSE IF NeedsSystem(h, nb) THEN NothingFits
             ELSE SplitTop(h, nb)
    BY <1>1, <1>14, <1>15, <1>16, <1>17
  <1>19. ~(nb <= h.dvsize) BY <1>2, <1>5, <1>6, <1>18
  <1>20. NeedsSystem(h, nb) BY <1>2, <1>18, <1>19
  <1>21. nb > h.dvsize BY <1>5, <1>6, <1>19
  <1> QED BY <1>14, <1>15, <1>16, <1>17, <1>20, <1>21 DEF LastResort

(* A tree bin that fits beats a dv that does not: the difference wraps.    *)
LEMMA WrapLoses ==
    ASSUME NEW h, NEW s \in Nat, NEW nb \in Nat, NEW d \in Nat, d = h.dvsize, nb > d,
           AddrWords \in Nat, s < AddrWords - 15, nb < AddrWords
    PROVE  TreeBeatsDv(h, s, nb)
  <1>1. PICK M : M = AddrWords OBVIOUS
  <1>2. M \in Nat /\ M > 0 /\ d - nb < 0 /\ d - nb >= 0 - M BY <1>1
  <1>3. (d - nb) % M = (d - nb) + M BY <1>2, SMT
  <1>4. s - nb < (d - nb) % M BY <1>1, <1>3
  <1> QED BY <1>1, <1>4 DEF TreeBeatsDv

(* At the last resort nothing is long enough.                              *)
LEMMA ResortShort ==
    ASSUME NEW h, NEW F, NEW S, NEW A, Whole(h, F, S, A), F = FakeAt(h),
           NEW nb, AnySize(nb), FromHeap(h, nb).p = NULL
    PROVE  TooShort(h, nb)
  <1>1. PICK exact, small, tree, r :
            /\ exact = h.smallmap \cap {SmallIndex(nb), SmallIndex(nb) + 1}
            /\ small = SmallFits(h, nb) /\ tree = TreeFits(h, nb) /\ r = FromHeap(h, nb)
    OBVIOUS
  <1>2. LastResort(h, nb, exact, small, tree) BY <1>1, FindsNothing
  <1>3. Known(h, F, S, A) BY WholeFacts
  <1>4. BinsOK(h) BY <1>3 DEF Known
  <1>5. /\ h.topsize \in Nat /\ h.dvsize \in Nat
        /\ \A s \in BinSizes : h.bins[s] # <<>> => s < AddrWords - 15
    BY SizesBelow
  <1>6. nb \in Nat /\ AddrWords \in Nat /\ nb < AddrWords
    BY AddrWordsFacts, PageAssumption DEF AnySize, Proper, MaxSizeT
  <1>7. \A s \in BinSizes : s \in Nat
    <2>1. MaxPages * PageWords \in Nat BY MemoryAssumption, MemoryEnd
    <2> QED BY <2>1, Layout DEF BinSizes
  <1>8. tree = {}
    <2> SUFFICES ASSUME tree # {} PROVE FALSE OBVIOUS
    <2>1. tree \in SUBSET Nat BY <1>1, <1>7 DEF TreeFits, LargeSizes
    <2>2. PICK s : s = Min(tree) OBVIOUS
    <2>3. s \in tree /\ s \in Nat BY <2>1, <2>2, LeastElement
    <2>4. s \in BinSizes /\ h.bins[s] # <<>> BY <1>1, <2>3 DEF TreeFits, LargeSizes
    <2>5. s < AddrWords - 15 BY <1>5, <2>4
    <2>6. PICK d : d = h.dvsize OBVIOUS
    <2>7. d \in Nat /\ nb > d BY <1>2, <1>5, <2>6 DEF LastResort
    <2>8. TreeBeatsDv(h, s, nb) BY <1>6, <2>3, <2>5, <2>6, <2>7, WrapLoses
    <2> QED BY <1>2, <2>2, <2>8 DEF LastResort
  <1>9. ASSUME NEW s \in BinSizes, h.bins[s] # <<>> PROVE s < nb
    <2>1. s \in Nat BY <1>7
    <2>2. CASE ~IsSmall(s) BY <1>1, <1>6, <1>8, <1>9, <2>1, <2>2 DEF TreeFits, LargeSizes
    <2>3. CASE IsSmall(s) /\ ~IsSmall(nb)
      BY <1>6, <2>1, <2>3, ChunkAssumption DEF IsSmall
    <2>4. CASE IsSmall(s) /\ IsSmall(nb)
      <3>1. small = {} BY <1>2, <2>4 DEF LastResort
      <3>2. SmallIndex(s) \in h.smallmap BY <1>4, <1>9, <2>4 DEF BinsOK
      <3>3. ~(SmallIndex(s) >= SmallIndex(nb)) BY <1>1, <3>1, <3>2 DEF SmallFits
      <3>4. ~(s \div 2 >= nb \div 2) BY <3>3 DEF SmallIndex
      <3> QED BY <1>6, <2>1, <3>4, SMT
    <2> QED BY <2>2, <2>3, <2>4
  <1>10. nb >= h.topsize BY <1>2, <1>5, <1>6 DEF LastResort, NeedsSystem
  <1>11. nb > h.dvsize BY <1>2 DEF LastResort
  <1> QED BY <1>9, <1>10, <1>11 DEF TooShort

(* No free chunk will do for nb words.                                     *)
FreeTooShort(nb) ==
    /\ \A p \in FreeSet \ {gm.top} : gm.tag[p].size < nb
    /\ gm.topsize <= nb

(* A chunk that is free is in a bin, or is top or dv, so it is too short   *)
(* when malloc finds nothing.                                              *)
LEMMA ShortEverywhere ==
    ASSUME HeapIInv, Initialized(gm), NEW nb, AnySize(nb), FromHeap(gm, nb).p = NULL
    PROVE  FreeTooShort(nb)
  <1>1. PICK h, F, S, A : /\ h = gm /\ F = FakeAt(gm) /\ S = FirstChunks(gm)
                          /\ A = Owners(live, call)
    OBVIOUS
  <1>2. InMemory(h, F, S, A) BY <1>1, InvariantInMemory
  <1>3. Whole(h, F, S, A) /\ F = FakeAt(h) /\ DvOK(h, F) /\ Known(h, F, S, A)
    BY <1>2 DEF InMemory
  <1>8. \A p : p \in FreeSet <=> FreeAt(h.tag, F, p) BY <1>2 DEF InMemory
  <1>9. \A x, s : Filed(h, x, s) <=>
            FreeAt(h.tag, F, x) /\ x \notin {h.top, h.dv} /\ h.tag[x].size = s
    BY <1>2 DEF InMemory
  <1>4. TooShort(h, nb) BY <1>1, <1>3, ResortShort
  <1>5. nb \in Nat /\ h.topsize \in Nat /\ h.dvsize \in Nat
    BY <1>3, SizesBelow, AddrWordsFacts, PageAssumption DEF AnySize, Proper, MaxSizeT
  <1>6. ASSUME NEW p \in FreeSet \ {h.top} PROVE h.tag[p].size < nb
    <2>1. FreeAt(h.tag, F, p) BY <1>8
    <2>2. CASE p = h.dv
      <3>1. p # NULL BY <1>3, <2>1 DEF Known, FreeAt
      <3>2. h.dvsize = h.tag[p].size BY <1>3, <2>2, <3>1 DEF DvOK
      <3> QED BY <1>4, <1>5, <3>2 DEF TooShort
    <2>3. CASE p # h.dv
      <3>1. PICK s : s = h.tag[p].size OBVIOUS
      <3>2. Filed(h, p, s) BY <1>9, <2>1, <2>3, <3>1
      <3>3. s \in BinSizes /\ h.bins[s] # <<>> BY <3>2 DEF Filed, Among
      <3> QED BY <1>4, <3>1, <3>3 DEF TooShort
    <2> QED BY <2>2, <2>3
  <1>7. h.topsize <= nb BY <1>4, <1>5 DEF TooShort
  <1> QED BY <1>1, <1>6, <1>7 DEF FreeTooShort

(* malloc from inside the heap gives a block and leaves the memory alone.  *)
LEMMA MallocGrows ==
    ASSUME HeapIInv, NEW w \in Nat, NEW nb, nb = ChunkSizeFor(w), Malloc(w),
           pages' # pages \/ live' = live
    PROVE  FreeTooShort(nb)
  <1>1. call = NoCall /\ Obtain(w, nb) BY DEF Malloc, Obtain
  <1>2. PICK o \in MallocOutcomes(nb) :
           /\ Leave(o)
           /\ live' = IF o.p = NULL THEN live ELSE With(live, o.p, Block(nb, MallocAlignment))
    BY <1>1 DEF Obtain
  <1>3. AnySize(nb) BY RequestAnySize
  <1>4. PICK A : A = DOMAIN live OBVIOUS
  <1>5. Idle(A) BY <1>1, <1>4, IdleFacts
  <1>6. MemoryInv /\ HeapOK(gm, A, pages) BY <1>5 DEF Idle
  <1>7. Served(gm, o, A, nb) BY <1>3, <1>6, MallocServes
  <1>8. PICK h : h = InitAllocator(gm) OBVIOUS
  <1>9. PICK a : a = FromHeap(h, nb) OBVIOUS
  <1>10. nb \in Nat BY <1>3, AddrWordsFacts, PageAssumption DEF AnySize, Proper, MaxSizeT
  <1>11. CASE ~Initialized(gm)
    <2>1. FreeSet = {} BY <1>11, NoMemory
    <2>2. HeapInv(SystemPart(gm), pages, foreign) BY <1>6 DEF HeapOK
    <2>3. ~Initialized(SystemPart(gm)) /\ SystemPart(gm).topsize = gm.topsize
      BY <1>11, SystemReads, SystemFields
    <2>4. gm.topsize = 0 BY <2>2, <2>3 DEF HeapInv, Accounting
    <2> QED BY <1>10, <2>1, <2>4 DEF FreeTooShort
  <1>12. CASE Initialized(gm)
    <2>1. h = gm
      <3>1. TryInitAllocator(gm) = gm BY <1>12 DEF TryInitAllocator
      <3> QED BY <1>8, <1>12 DEF InitAllocator
    <2>2. a.p = NULL
      <3> SUFFICES ASSUME a.p # NULL PROVE FALSE OBVIOUS
      <3>1. PICK r : r = IF a.p = h.top THEN Ended("mem", FALSE) ELSE result OBVIOUS
      <3>2. o = Outcome(a.h, a.p, pages, r) BY <1>8, <1>9, <3>1 DEF MallocOutcomes
      <3>3. o.p = a.p /\ o.pages = pages BY <3>2 DEF Outcome
      <3>4. pages' = pages /\ o.p # NULL BY <1>2, <3>3 DEF Leave
      <3>5. o.p \notin A BY <1>7, <3>4 DEF Served, Granted
      <3>6. PICK p, v : p = o.p /\ v = Block(nb, MallocAlignment) OBVIOUS
      <3>7. live' = With(live, p, v) BY <1>2, <3>4, <3>6
      <3>8. Gains(live, live', p, v) BY <3>7, WithFacts
      <3>9. live' # live BY <1>4, <3>5, <3>6, <3>8 DEF Gains
      <3> QED BY <3>4, <3>9
    <2> QED BY <1>3, <1>9, <1>12, <2>1, <2>2, ShortEverywhere
  <1> QED BY <1>11, <1>12

(* The memory grows, or malloc fails, only when no free chunk is large     *)
(* enough: malloc looks in every bin, at dv and at top first.              *)
THEOREM HeapGrowsOnlyWhenFull == Spec => GrowsOnlyWhenFull
  <1>1. ASSUME HeapIInv, [Next]_vars
        PROVE  \A w \in Requests :
                  (Malloc(w) /\ (pages' # pages \/ live' = live)) =>
                      /\ \A p \in FreeSet \ {gm.top} : gm.tag[p].size < ChunkSizeFor(w)
                      /\ gm.topsize <= ChunkSizeFor(w)
    <2> SUFFICES ASSUME NEW w \in Requests, Malloc(w), pages' # pages \/ live' = live
                 PROVE  /\ \A p \in FreeSet \ {gm.top} : gm.tag[p].size < ChunkSizeFor(w)
                        /\ gm.topsize <= ChunkSizeFor(w)
      BY <1>1
    <2>1. w \in Nat BY ChunkAssumption, AddrWordsFacts DEF MaxSizeT
    <2>2. PICK nb : nb = ChunkSizeFor(w) OBVIOUS
    <2>3. FreeTooShort(nb) BY <1>1, <2>1, <2>2, MallocGrows
    <2> QED BY <2>2, <2>3 DEF FreeTooShort
  <1> QED BY <1>1, HeapInvariant, PTL DEF Spec, GrowsOnlyWhenFull

-----------------------------------------------------------------------------
(* The chunk layer, seen from the system layer.                            *)

(* SysAlloc's operators are those of the system layer.                     *)
LEMMA SysSame ==
    /\ \A h : Sys!Initialized(h) <=> Initialized(h)
    /\ \A h : Sys!Segments(h) = Segments(h)
    /\ \A h : Sys!TryInitAllocator(h) = TryInitAllocator(h)
    /\ \A h, nb : Sys!NeedsSystem(h, nb) <=> NeedsSystem(h, nb)
    /\ \A h, nb : Sys!CutTop(h, nb) = CutTop(h, nb)
    /\ \A nb : Sys!Oversized(nb) <=> Oversized(nb)
    /\ Sys!Grants = Grants
  <1>1. \A h : Sys!Initialized(h) <=> Initialized(h) BY DEF Sys!Initialized, Initialized, Sys!NULL, NULL
  <1>2. \A h : Sys!Segments(h) = Segments(h) BY <1>1 DEF Sys!Segments, Segments
  <1>3. Sys!MallocAlignment = MallocAlignment /\ Sys!MinChunkSize = MinChunkSize
        /\ Sys!TopFootSize = TopFootSize /\ Sys!InitialHeapSize = InitialHeapSize
    BY DEF Sys!MallocAlignment, MallocAlignment, Sys!MinChunkSize, MinChunkSize, Sys!TopFootSize,
           TopFootSize, Sys!InitialHeapSize, InitialHeapSize, Sys!HeapEnd, HeapEnd,
           Sys!AlignOffset, AlignOffset, Sys!Chunk2Mem, Chunk2Mem, Sys!PadRequest, PadRequest,
           Sys!SegmentRecordWords, SegmentRecordWords, Sys!ChunkOverhead, ChunkOverhead
  <1>4. Sys!InitialHeapUsable = InitialHeapUsable
    BY <1>3 DEF Sys!InitialHeapUsable, InitialHeapUsable
  <1>5. \A b : Sys!NewTop(b) = NewTop(b)
    BY <1>3 DEF Sys!NewTop, NewTop, Sys!AlignOffset, AlignOffset, Sys!Chunk2Mem, Chunk2Mem
  <1>6. \A b, s : Sys!NewTopSize(b, s) = NewTopSize(b, s)
    BY <1>3 DEF Sys!NewTopSize, NewTopSize, Sys!AlignOffset, AlignOffset, Sys!Chunk2Mem, Chunk2Mem
  <1>7. \A h : Sys!TryInitAllocator(h) = TryInitAllocator(h)
    BY <1>1, <1>3, <1>4, <1>5, <1>6 DEF Sys!TryInitAllocator, TryInitAllocator
  <1>8. \A h, nb : Sys!NeedsSystem(h, nb) <=> NeedsSystem(h, nb)
    BY DEF Sys!NeedsSystem, NeedsSystem
  <1>9. \A h, nb : Sys!CutTop(h, nb) = CutTop(h, nb) BY DEF Sys!CutTop, CutTop
  <1>10. \A nb : Sys!Oversized(nb) <=> Oversized(nb)
    BY <1>3 DEF Sys!Oversized, Oversized, Sys!SysAllocPadding, SysAllocPadding,
       Sys!GranularityAlign, GranularityAlign, Sys!AddrWords, AddrWords
  <1>11. Sys!Grants = Grants BY DEF Sys!Grants, Grants
  <1> QED BY <1>1, <1>2, <1>7, <1>8, <1>9, <1>10, <1>11
-----------------------------------------------------------------------------
(* What leaves the system layer's fields alone.                            *)

(* g is a malloc_state with the system layer's fields of h.                *)
Carries(h, g) == State(g) /\ SameSystem(h, g)

(* Two steps that leave them alone, one after the other.                   *)
LEMMA CarriesAgain ==
    ASSUME NEW h, NEW k, NEW g, Carries(h, k), Carries(k, g)
    PROVE  Carries(h, g)
  BY DEF Carries, SameSystem

(* A heap has its own fields.                                              *)
LEMMA CarriesItself ==
    ASSUME NEW h, State(h)
    PROVE  Carries(h, h)
  BY DEF Carries, SameSystem

(* Writing headers leaves them alone.                                      *)
LEMMA TagsCarry ==
    ASSUME NEW h, State(h), NEW t
    PROVE  Carries(h, [h EXCEPT !.tag = t])
  BY DEF Carries, SameSystem, State, Fields

(* So does every macro that writes one.                                    *)
LEMMA HeadersCarry ==
    ASSUME NEW h, State(h), NEW p, NEW s, NEW pin, NEW cin
    PROVE  /\ Carries(h, Lay(h, p, s, pin, cin)) /\ Carries(h, SetFoot(h, p, s))
           /\ Carries(h, SetPinuse(h, p)) /\ Carries(h, ClearPinuse(h, p))
  <1>1. Lay(h, p, s, pin, cin) = [h EXCEPT !.tag = Laid(h.tag, p, s, pin, cin)]
    BY DEF Lay, State, Fields
  <1>2. Carries(h, Lay(h, p, s, pin, cin)) BY <1>1, TagsCarry
  <1>3. Carries(h, SetFoot(h, p, s)) BY DEF SetFoot, Carries, SameSystem, State, Fields
  <1>4. Carries(h, ClearPinuse(h, p)) BY DEF ClearPinuse, Carries, SameSystem, State, Fields
  <1>5. Carries(h, SetPinuse(h, p))
    <2>1. CASE p \in DOMAIN h.tag
      BY <2>1 DEF SetPinuse, Carries, SameSystem, State, Fields
    <2>2. CASE p \notin DOMAIN h.tag
      <3>1. SetPinuse(h, p) = [h EXCEPT !.tag = Laid(h.tag, p, 0, TRUE, FALSE)]
        BY <2>2 DEF SetPinuse, Lay, State, Fields
      <3> QED BY <3>1, TagsCarry
    <2> QED BY <2>1, <2>2
  <1> QED BY <1>2, <1>3, <1>4, <1>5

(* And every macro that lays a chunk.                                      *)
LEMMA ChunksCarry ==
    ASSUME NEW h, State(h), NEW p, NEW s
    PROVE  /\ Carries(h, SetInuse(h, p, s)) /\ Carries(h, SetInuseAndPinuse(h, p, s))
           /\ Carries(h, SetSizeAndPinuseOfInuseChunk(h, p, s))
           /\ Carries(h, SetSizeAndPinuseOfFreeChunk(h, p, s))
  <1>1. PICK b : b = PinuseFound(h, p) OBVIOUS
  <1>2. PICK k : k = Lay(h, p, s, b, TRUE) OBVIOUS
  <1>3. PICK l : l = Lay(h, p, s, TRUE, TRUE) OBVIOUS
  <1>4. PICK f : f = Lay(h, p, s, TRUE, FALSE) OBVIOUS
  <1>5. Carries(h, k) BY <1>2, HeadersCarry
  <1>6. Carries(h, l) BY <1>3, HeadersCarry
  <1>7. Carries(h, f) BY <1>4, HeadersCarry
  <1>8. PICK n : n = p + s OBVIOUS
  <1>9. Carries(k, SetPinuse(k, n)) BY <1>5, HeadersCarry DEF Carries
  <1>10. Carries(l, SetPinuse(l, n)) BY <1>6, HeadersCarry DEF Carries
  <1>11. Carries(f, SetFoot(f, p, s)) BY <1>7, HeadersCarry DEF Carries
  <1>12. SetInuse(h, p, s) = SetPinuse(k, n) BY <1>1, <1>2, <1>8 DEF SetInuse
  <1>13. SetInuseAndPinuse(h, p, s) = SetPinuse(l, n) BY <1>3, <1>8 DEF SetInuseAndPinuse
  <1>14. SetSizeAndPinuseOfFreeChunk(h, p, s) = SetFoot(f, p, s)
    BY <1>4 DEF SetSizeAndPinuseOfFreeChunk
  <1>15. SetSizeAndPinuseOfInuseChunk(h, p, s) = l BY <1>3 DEF SetSizeAndPinuseOfInuseChunk
  <1>16. Carries(h, SetPinuse(k, n)) BY <1>5, <1>9, CarriesAgain
  <1>17. Carries(h, SetPinuse(l, n)) BY <1>6, <1>10, CarriesAgain
  <1>18. Carries(h, SetFoot(f, p, s)) BY <1>7, <1>11, CarriesAgain
  <1> QED BY <1>6, <1>12, <1>13, <1>14, <1>15, <1>16, <1>17, <1>18

(* set_free_with_pinuse leaves them alone.                                 *)
LEMMA FreeCarries ==
    ASSUME NEW h, State(h), NEW p, NEW s, NEW n
    PROVE  Carries(h, SetFreeWithPinuse(h, p, s, n))
  <1>1. PICK k : k = ClearPinuse(h, n) OBVIOUS
  <1>2. Carries(h, k) BY <1>1, HeadersCarry
  <1>3. Carries(k, SetSizeAndPinuseOfFreeChunk(k, p, s)) BY <1>2, ChunksCarry DEF Carries
  <1>4. SetFreeWithPinuse(h, p, s, n) = SetSizeAndPinuseOfFreeChunk(k, p, s)
    BY <1>1 DEF SetFreeWithPinuse
  <1> QED BY <1>2, <1>3, <1>4, CarriesAgain

(* The bins are not the system layer's.                                    *)
LEMMA BinsCarry ==
    ASSUME NEW h, State(h), NEW p, NEW s
    PROVE  Carries(h, InsertChunk(h, p, s)) /\ Carries(h, UnlinkChunk(h, p, s))
  <1>1. Carries(h, InsertSmallChunk(h, p, s))
    BY DEF InsertSmallChunk, Carries, SameSystem, State, Fields
  <1>2. Carries(h, InsertLargeChunk(h, p, s))
    BY DEF InsertLargeChunk, Carries, SameSystem, State, Fields
  <1>3. Carries(h, UnlinkChunk(h, p, s))
    <2>1. PICK b : b = [h.bins EXCEPT ![s] = RemoveAt(@, CHOOSE i \in DOMAIN @ : @[i] = p)] OBVIOUS
    <2>2. PICK m : m = IF IsSmall(s) /\ h.bins[s] = <<p>> THEN h.smallmap \ {SmallIndex(s)}
                       ELSE h.smallmap
      OBVIOUS
    <2>3. UnlinkChunk(h, p, s) = [h EXCEPT !.bins = b, !.smallmap = m]
      BY <2>1, <2>2 DEF UnlinkChunk, State, Fields
    <2> QED BY <2>3 DEF Carries, SameSystem, State, Fields
  <1> QED BY <1>1, <1>2, <1>3 DEF InsertChunk

(* Nor is dv.                                                              *)
LEMMA DvCarries ==
    ASSUME NEW h, State(h), NEW p, NEW s
    PROVE  /\ Carries(h, [h EXCEPT !.dv = p, !.dvsize = s])
           /\ Carries(h, [h EXCEPT !.dvsize = s])
  BY DEF Carries, SameSystem, State, Fields

-----------------------------------------------------------------------------
(* Giving chunks back moves top down, if at all.                           *)
Sinks(h, g) == State(g) /\ g.top <= h.top

(* What carries top carries it no higher.                                  *)
LEMMA CarriesSinks ==
    ASSUME NEW h, h.top \in Nat, NEW g, Carries(h, g)
    PROVE  Sinks(h, g)
  BY DEF Carries, SameSystem, Sinks

(* dispose_chunk joins its chunk, with a free one before it, to top if it  *)
(* ends there, and leaves top where it is otherwise.                       *)
LEMMA DisposeSinks ==
    ASSUME NEW h0, Tagged(h0), h0.top \in Nat, NEW p0 \in DOMAIN h0.tag, NEW s0 \in Nat
    PROVE  Sinks(h0, Dispose(h0, p0, s0))
  <1>1. PICK e : e = p0 + s0 OBVIOUS
  <1>2. PICK f : f = h0.tag[p0].prevFoot OBVIOUS
  <1>3. PICK back : back = ~h0.tag[p0].pinuse OBVIOUS
  <1>4. PICK p : p = IF back THEN p0 - f ELSE p0 OBVIOUS
  <1>5. PICK s : s = IF back THEN s0 + f ELSE s0 OBVIOUS
  <1>6. PICK h : h = IF back /\ p # h0.dv THEN UnlinkChunk(h0, p, f) ELSE h0 OBVIOUS
  <1>7. p0 \in Nat /\ f \in Nat
    <2>1. h0.tag[p0] \in AnyTag /\ p0 \in Nat BY DEF Tagged
    <2>2. BinSizes \subseteq Nat BY DEF BinSizes, MinChunkSize
    <2>3. h0.tag[p0].prevFoot \in {0} \cup BinSizes BY <2>1 DEF AnyTag, NoFoot
    <2>4. f \in {0} \cup BinSizes BY <1>2, <2>3, Zenon
    <2> QED BY <2>1, <2>2, <2>4
  <1>8. p \in Int /\ p <= e /\ e \in Nat BY <1>1, <1>4, <1>7
  <1>9. State(h0) BY DEF Tagged
  <1>10. Carries(h0, h) BY <1>6, <1>9, BinsCarry, CarriesItself
  <1>11. State(h) /\ h.top = h0.top BY <1>10 DEF Carries, SameSystem
  <1>12. PICK g : g = Dispose(h0, p0, s0) BY SMTT(60)
  <1>13. \/ g = SetFreeWithPinuse([h EXCEPT !.dvsize = s], p, s, e)
         \/ g = InsertChunk(SetFreeWithPinuse(h, p, s, e), p, s)
         \/ e = h.top /\ g = FreeIntoTop(h, p, s)
         \/ g = FreeIntoDv(h, p, s)
         \/ g = FreeWithNext(h, p, s, e)
    BY <1>1, <1>2, <1>3, <1>4, <1>5, <1>6, <1>12, ZenonT(60) DEF Dispose
  <1>14. ASSUME Carries(h, g) PROVE Sinks(h0, g)
    BY <1>10, <1>14, CarriesAgain, CarriesSinks
  <1>15. CASE g = SetFreeWithPinuse([h EXCEPT !.dvsize = s], p, s, e)
    <2>1. PICK k : k = [h EXCEPT !.dvsize = s] OBVIOUS
    <2>2. Carries(h, k) BY <1>11, <2>1, DvCarries
    <2>3. Carries(k, g) BY <1>15, <2>1, <2>2, FreeCarries DEF Carries
    <2> QED BY <1>12, <1>14, <2>2, <2>3, CarriesAgain
  <1>16. CASE g = InsertChunk(SetFreeWithPinuse(h, p, s, e), p, s)
    <2>1. PICK k : k = SetFreeWithPinuse(h, p, s, e) OBVIOUS
    <2>2. Carries(h, k) BY <1>11, <2>1, FreeCarries
    <2>3. Carries(k, g) BY <1>16, <2>1, <2>2, BinsCarry DEF Carries
    <2> QED BY <1>12, <1>14, <2>2, <2>3, CarriesAgain
  <1>17. CASE e = h.top /\ g = FreeIntoTop(h, p, s)
    <2>1. PICK k : k = Lay(h, p, h.topsize + s, TRUE, FALSE) OBVIOUS
    <2>2. Carries(h, k) BY <1>11, <2>1, HeadersCarry
    <2>3. State(g) /\ g.top = p
      BY <1>17, <2>1, <2>2 DEF FreeIntoTop, Carries, State, Fields
    <2> QED BY <1>8, <1>11, <1>12, <1>17, <2>3 DEF Sinks
  <1>18. CASE g = FreeIntoDv(h, p, s)
    <2>1. PICK d, k : d = h.dvsize + s /\ k = [h EXCEPT !.dv = p, !.dvsize = d] OBVIOUS
    <2>2. Carries(h, k) BY <1>11, <2>1, DvCarries
    <2>3. g = SetSizeAndPinuseOfFreeChunk(k, p, d)
      BY <1>11, <1>18, <2>1 DEF FreeIntoDv, State, Fields
    <2>4. Carries(k, g) BY <2>2, <2>3, ChunksCarry DEF Carries
    <2> QED BY <1>12, <1>14, <2>2, <2>4, CarriesAgain
  <1>19. CASE g = FreeWithNext(h, p, s, e)
    <2>1. PICK n, d, u : n = ChunkSize(h, e) /\ d = s + n /\ u = UnlinkChunk(h, e, n) OBVIOUS
    <2>2. PICK k : k = SetSizeAndPinuseOfFreeChunk(u, p, d) OBVIOUS
    <2>3. Carries(h, u) BY <1>11, <2>1, BinsCarry
    <2>4. Carries(u, k) BY <2>2, <2>3, ChunksCarry DEF Carries
    <2>5. g = [k EXCEPT !.dvsize = d] \/ g = InsertChunk(k, p, d)
      BY <1>19, <2>1, <2>2 DEF FreeWithNext
    <2>6. State(k) BY <2>4 DEF Carries
    <2>7. Carries(k, [k EXCEPT !.dvsize = d]) BY <2>6, DvCarries
    <2>8. Carries(k, InsertChunk(k, p, d)) BY <2>6, BinsCarry
    <2>9. Carries(k, g) BY <2>5, <2>7, <2>8, Zenon
    <2> QED BY <1>12, <1>14, <2>3, <2>4, <2>9, CarriesAgain
  <1> QED BY <1>12, <1>13, <1>15, <1>16, <1>17, <1>18, <1>19

(* set_inuse keeps the heap's fields and types, and its chunk has a header.*)
Lays(h, g, p) == Tagged(g) /\ Carries(h, g) /\ p \in DOMAIN g.tag

(* set_inuse, of a chunk whose header may be yet to be written.            *)
LEMMA InuseLays ==
    ASSUME NEW h, Tagged(h), NEW p \in Nat, NEW s \in Nat
    PROVE  Lays(h, SetInuse(h, p, s), p)
  <1>1. PICK b, e : b = PinuseFound(h, p) /\ e = p + s OBVIOUS
  <1>2. b \in BOOLEAN /\ e \in Nat
    <2>1. CASE p \in DOMAIN h.tag
      <3>1. h.tag[p] \in AnyTag BY <2>1 DEF Tagged
      <3>2. h.tag[p].pinuse \in BOOLEAN BY <3>1 DEF AnyTag
      <3> QED BY <1>1, <2>1, <3>2 DEF PinuseFound
    <2>2. CASE p \notin DOMAIN h.tag BY <1>1, <2>2 DEF PinuseFound
    <2> QED BY <2>1, <2>2
  <1>3. PICK k : k = Lay(h, p, s, b, TRUE) OBVIOUS
  <1>4. LaidAt(h, k, p, s, b, TRUE)
    <2>1. s \in Int /\ TRUE \in BOOLEAN OBVIOUS
    <2>2. LaidAt(h, Lay(h, p, s, b, TRUE), p, s, b, TRUE) BY <1>2, <2>1, LayFacts
    <2> QED BY <1>3, <2>2, Zenon
  <1>5. Tagged(k) /\ p \in DOMAIN k.tag BY <1>4 DEF LaidAt
  <1>6. PICK g : g = SetPinuse(k, e) OBVIOUS
  <1>7. g = SetInuse(h, p, s) BY <1>1, <1>3, <1>6 DEF SetInuse
  <1>8. Tagged(g) /\ p \in DOMAIN g.tag
    <2>1. CASE e \in DOMAIN k.tag
      <3>1. Touches(k, SetPinuse(k, e), e) BY <1>5, <2>1, PinuseFacts
      <3> QED BY <1>5, <1>6, <3>1 DEF Touches
    <2>2. CASE e \notin DOMAIN k.tag
      <3>1. Plants(k, SetPinuse(k, e), e) BY <1>2, <1>5, <2>2, NewPinuseFacts
      <3> QED BY <1>5, <1>6, <3>1 DEF Plants
    <2> QED BY <2>1, <2>2
  <1>9. Carries(h, g) BY <1>7, ChunksCarry DEF Tagged
  <1> QED BY <1>7, <1>8, <1>9 DEF Lays

(* A block trimmed: the rest may join top.                                 *)
LEMMA TrimSinks ==
    ASSUME NEW h, Tagged(h), h.top \in Nat, NEW p \in Nat, NEW s \in Nat, NEW nb \in Nat
    PROVE  Sinks(h, TrimTo(h, p, s, nb))
  <1>1. CASE Splits(s, nb)
    <2>1. PICK m, r : m = p + nb /\ r = s - nb OBVIOUS
    <2>2. m \in Nat /\ r \in Nat BY <1>1, <2>1 DEF Splits, MinChunkSize
    <2>3. PICK k : k = SetInuse(h, p, nb) OBVIOUS
    <2>4. Tagged(k) /\ Carries(h, k) BY <2>3, InuseLays DEF Lays
    <2>5. PICK l : l = SetInuse(k, m, r) OBVIOUS
    <2>6. Tagged(l) /\ Carries(k, l) /\ m \in DOMAIN l.tag BY <2>2, <2>4, <2>5, InuseLays DEF Lays
    <2>7. l.top = h.top BY <2>4, <2>6 DEF Carries, SameSystem
    <2>8. TrimTo(h, p, s, nb) = Dispose(l, m, r) BY <1>1, <2>1, <2>3, <2>5 DEF TrimTo
    <2>9. Sinks(l, Dispose(l, m, r)) BY <2>2, <2>6, <2>7, DisposeSinks
    <2> QED BY <2>7, <2>8, <2>9 DEF Sinks
  <1>2. CASE ~Splits(s, nb)
    <2>1. TrimTo(h, p, s, nb) = SetInuse(h, p, s) BY <1>2 DEF TrimTo
    <2>2. Carries(h, SetInuse(h, p, s)) BY InuseLays DEF Lays
    <2> QED BY <2>1, <2>2, CarriesSinks
  <1> QED BY <1>1, <1>2

-----------------------------------------------------------------------------
(* SysAlloc's ways to obtain memory are those of the system layer.         *)
LEMMA SysAcquires ==
    /\ \A h, nb, g : Sys!Acquire(h, nb, g) = Acquire(h, nb, g)
    /\ Sys!CMFAIL = CMFAIL
  <1>1. Sys!AddrWords = AddrWords /\ Sys!CMFAIL = CMFAIL /\ Sys!HalfMaxSizeT = HalfMaxSizeT
    BY DEF Sys!AddrWords, AddrWords, Sys!CMFAIL, CMFAIL, Sys!MaxSizeT, MaxSizeT,
           Sys!HalfMaxSizeT, HalfMaxSizeT
  <1>2. Sys!TopFootSize = TopFootSize /\ Sys!SysAllocPadding = SysAllocPadding
    BY DEF Sys!MallocAlignment, MallocAlignment, Sys!MinChunkSize, MinChunkSize,
           Sys!TopFootSize, TopFootSize, Sys!SysAllocPadding, SysAllocPadding,
           Sys!AlignOffset, AlignOffset, Sys!Chunk2Mem, Chunk2Mem, Sys!PadRequest, PadRequest,
           Sys!SegmentRecordWords, SegmentRecordWords, Sys!ChunkOverhead, ChunkOverhead
  <1>3. \A n : Sys!GranularityAlign(n) = GranularityAlign(n)
    BY <1>1 DEF Sys!GranularityAlign, GranularityAlign
  <1>4. \A a, b, c : Sys!Sbrk(a, b, c) = Sbrk(a, b, c)
    BY <1>1 DEF Sys!Sbrk, Sbrk
  <1>5. \A a, b, c, d, e, f : Sys!Extension(a, b, c, d, e, f) = Extension(a, b, c, d, e, f)
    BY DEF Sys!Extension, Extension
  <1>6. \A h : Sys!Segments(h) = Segments(h) BY SysSame
  <1>7. \A s : Sys!SegmentEnd(s) = SegmentEnd(s) BY <1>1 DEF Sys!SegmentEnd, SegmentEnd
  <1>8. \A s, a : Sys!SegmentHolds(s, a) <=> SegmentHolds(s, a)
    BY <1>7 DEF Sys!SegmentHolds, SegmentHolds
  <1>9. ASSUME NEW nb, NEW br, NEW ssize, NEW pg, NEW g
        PROVE  Sys!CopeWithPartialFailure(nb, br, ssize, pg, g)
                 = CopeWithPartialFailure(nb, br, ssize, pg, g)
    <2>1. PICK n, c : n = nb + SysAllocPadding - ssize /\ c = nb + SysAllocPadding OBVIOUS
    <2>2. PICK esize : esize = GranularityAlign(n) OBVIOUS
    <2>3. PICK more : more = Sbrk(pg, esize, g) BY Zenon
    <2>4. PICK back : back = Sbrk(pg, -ssize, FALSE) BY Zenon
    <2>5. PICK r : r = IF ssize < c /\ esize < HalfMaxSizeT THEN
                          IF more.ret # CMFAIL
                          THEN Extension(br, ssize + esize, more.newPages, TRUE, FALSE, FALSE)
                          ELSE Extension(CMFAIL, 0, back.newPages, back.trap, back.trap, TRUE)
                       ELSE Extension(br, ssize, pg, TRUE, FALSE, FALSE)
      BY Zenon
    <2>6. CopeWithPartialFailure(nb, br, ssize, pg, g) = r
      BY <2>1, <2>2, <2>3, <2>4, <2>5 DEF CopeWithPartialFailure
    <2>7. Sys!GranularityAlign(n) = esize /\ nb + Sys!SysAllocPadding - ssize = n
          /\ nb + Sys!SysAllocPadding = c
      BY <1>2, <1>3, <2>1, <2>2
    <2>8. Sys!Sbrk(pg, esize, g) = more /\ Sys!Sbrk(pg, -ssize, FALSE) = back
      BY <1>4, <2>3, <2>4, Zenon
    <2>9. Sys!CopeWithPartialFailure(nb, br, ssize, pg, g) = r
      BY <1>1, <1>5, <2>5, <2>7, <2>8 DEF Sys!CopeWithPartialFailure
    <2> QED BY <2>6, <2>9
  <1>10. ASSUME NEW h, NEW nb, NEW g
         PROVE  Sys!ContiguousMorecore(h, nb, g) = ContiguousMorecore(h, nb, g)
    <2>1. PICK holding : holding = {s \in Segments(h) : SegmentHolds(s, h.top)} OBVIOUS
    <2>2. holding = {s \in Sys!Segments(h) : Sys!SegmentHolds(s, h.top)} BY <1>6, <1>8, <2>1
    <2>3. PICK ssize : ssize = IF holding = {} THEN GranularityAlign(nb + SysAllocPadding)
                               ELSE GranularityAlign(nb - h.topsize + SysAllocPadding)
      BY Zenon
    <2>4. PICK zero : zero = Sbrk(pages, 0, TRUE) BY Zenon
    <2>5. PICK ends : ends = {SegmentEnd(s) : s \in holding} BY Zenon
    <2>6. ends = {Sys!SegmentEnd(s) : s \in holding} BY <1>7, <2>5
    <2>7. PICK wanted : wanted = IF holding = {} THEN {zero.ret} ELSE ends OBVIOUS
    <2>8. PICK got : got = Sbrk(pages, ssize, g[1]) BY Zenon
    <2>9. PICK cope : cope = CopeWithPartialFailure(nb, got.ret, ssize, got.newPages, g[2])
      BY Zenon
    <2>10. PICK r : r = IF ssize >= HalfMaxSizeT
                        THEN Extension(CMFAIL, 0, pages, FALSE, FALSE, FALSE)
                        ELSE IF got.ret = CMFAIL
                        THEN Extension(CMFAIL, 0, pages, FALSE, FALSE, TRUE)
                        ELSE IF got.ret \in wanted
                        THEN Extension(got.ret, ssize, got.newPages, TRUE, FALSE, FALSE)
                        ELSE cope
      BY Zenon
    <2>11. ContiguousMorecore(h, nb, g) = r
      BY <2>1, <2>3, <2>4, <2>5, <2>7, <2>8, <2>9, <2>10 DEF ContiguousMorecore
    <2>12. Sys!Sbrk(pages, 0, TRUE) = zero /\ Sys!Sbrk(pages, ssize, g[1]) = got
      BY <1>4, <2>4, <2>8, Zenon
    <2>13. Sys!CopeWithPartialFailure(nb, got.ret, ssize, got.newPages, g[2]) = cope
      BY <1>9, <2>9, Zenon
    <2>14. ssize = IF holding = {} THEN Sys!GranularityAlign(nb + Sys!SysAllocPadding)
                   ELSE Sys!GranularityAlign(nb - h.topsize + Sys!SysAllocPadding)
      BY <1>2, <1>3, <2>3
    <2>15. Sys!ContiguousMorecore(h, nb, g) = r
      BY <1>1, <1>5, <2>2, <2>6, <2>7, <2>10, <2>12, <2>13, <2>14 DEF Sys!ContiguousMorecore
    <2> QED BY <2>11, <2>15
  <1>11. ASSUME NEW nb, NEW e, NEW g
         PROVE  Sys!NoncontiguousMorecore(nb, e, g) = NoncontiguousMorecore(nb, e, g)
    BY <1>1, <1>2 DEF Sys!NoncontiguousMorecore, NoncontiguousMorecore, Sys!Extension, Extension,
       Sys!Sbrk, Sbrk, Sys!GranularityAlign, GranularityAlign
  <1>12. ASSUME NEW h, NEW nb, NEW g
         PROVE  Sys!Acquire(h, nb, g) = Acquire(h, nb, g)
    <2>1. PICK z : z = Extension(CMFAIL, 0, pages, FALSE, FALSE, FALSE) BY Zenon
    <2>2. PICK k : k = ContiguousMorecore(h, nb, g) OBVIOUS
    <2>3. PICK e : e = IF h.contiguous THEN k ELSE z OBVIOUS
    <2>4. PICK n : n = NoncontiguousMorecore(nb, e, g[3]) BY Zenon
    <2>5. Acquire(h, nb, g) = IF e.tbase = CMFAIL /\ ~e.trap THEN n ELSE e
      BY <2>1, <2>2, <2>3, <2>4 DEF Acquire
    <2>6. Sys!Extension(CMFAIL, 0, pages, FALSE, FALSE, FALSE) = z BY <1>5, <2>1, Zenon
    <2>7. Sys!ContiguousMorecore(h, nb, g) = k BY <1>10, <2>2
    <2>8. Sys!NoncontiguousMorecore(nb, e, g[3]) = n BY <1>11, <2>4, Zenon
    <2>9. Sys!Acquire(h, nb, g) = IF e.tbase = CMFAIL /\ ~e.trap THEN n ELSE e
      BY <1>1, <2>3, <2>6, <2>7, <2>8 DEF Sys!Acquire
    <2> QED BY <2>5, <2>9
  <1> QED BY <1>1, <1>12

(* So are the ways to use it.                                              *)
LEMMA SysExtends ==
    /\ \A h, e : Sys!Appends(h, e) <=> Appends(h, e)
    /\ \A h, e : Sys!AppendToSegment(h, e) = AppendToSegment(h, e)
    /\ \A h, e : Sys!AddSegment(h, e) = AddSegment(h, e)
    /\ \A b : Sys!NewTop(b) = NewTop(b)
    /\ Sys!MinChunkSize = MinChunkSize /\ Sys!MallocAlignment = MallocAlignment
    /\ Sys!AddrWords = AddrWords
  <1>1. Sys!AddrWords = AddrWords /\ Sys!NULL = NULL
    BY DEF Sys!AddrWords, AddrWords, Sys!NULL, NULL
  <1>2. Sys!TopFootSize = TopFootSize /\ Sys!MinChunkSize = MinChunkSize
        /\ Sys!MallocAlignment = MallocAlignment
    BY DEF Sys!MallocAlignment, MallocAlignment, Sys!MinChunkSize, MinChunkSize,
           Sys!TopFootSize, TopFootSize,
           Sys!AlignOffset, AlignOffset, Sys!Chunk2Mem, Chunk2Mem, Sys!PadRequest, PadRequest,
           Sys!SegmentRecordWords, SegmentRecordWords, Sys!ChunkOverhead, ChunkOverhead
  <1>3. \A h : Sys!Segments(h) = Segments(h) BY SysSame
  <1>4. \A s : Sys!SegmentEnd(s) = SegmentEnd(s) BY <1>1 DEF Sys!SegmentEnd, SegmentEnd
  <1>5. \A s, a : Sys!SegmentHolds(s, a) <=> SegmentHolds(s, a)
    BY <1>4 DEF Sys!SegmentHolds, SegmentHolds
  <1>6. \A h, e : Sys!Appends(h, e) <=> Appends(h, e)
    BY <1>3, <1>4, <1>5 DEF Sys!Appends, Appends
  <1>7. \A h, e : Sys!Grown(h, e) = Grown(h, e) BY DEF Sys!Grown, Grown
  <1>8. \A h, e : Sys!AppendToSegment(h, e) = AppendToSegment(h, e)
    BY <1>7 DEF Sys!AppendToSegment, AppendToSegment
  <1>9. \A b : Sys!NewTop(b) = NewTop(b)
    BY <1>2 DEF Sys!NewTop, NewTop, Sys!AlignOffset, AlignOffset, Sys!Chunk2Mem, Chunk2Mem
  <1>10. \A b, s : Sys!NewTopSize(b, s) = NewTopSize(b, s)
    BY <1>2 DEF Sys!NewTopSize, NewTopSize, Sys!AlignOffset, AlignOffset, Sys!Chunk2Mem, Chunk2Mem
  <1>11. \A h, e : Sys!AddSegment(h, e) = AddSegment(h, e)
    BY <1>1, <1>3, <1>7, <1>9, <1>10 DEF Sys!AddSegment, AddSegment
  <1> QED BY <1>1, <1>2, <1>6, <1>8, <1>9, <1>11

(* The sizes that SysAlloc is asked for are those of any chunk, and the    *)
(* one that always fails.                                                  *)
LEMMA SysSizes ==
    ASSUME NEW nb, nb = MaxSizeT \/ (Proper(nb) /\ nb <= MaxSizeT - 15)
    PROVE  nb \in Sys!ChunkSizes
  <1>1. AddrWords \in Nat /\ AddrWords % 4 = 0 /\ AddrWords >= 64
    BY AddrWordsFacts, PageAssumption
  <1>2. \A w : Sys!ChunkSizeFor(w) = ChunkSizeFor(w)
    BY DEF Sys!ChunkSizeFor, ChunkSizeFor, Sys!MaxRequest, MaxRequest, Sys!MaxSizeT, MaxSizeT,
           Sys!AddrWords, AddrWords, Sys!MinChunkSize, MinChunkSize, Sys!Request2Size, Request2Size,
           Sys!MinRequest, MinRequest, Sys!PadRequest, PadRequest, Sys!ChunkOverhead, ChunkOverhead,
           Sys!MallocAlignment, MallocAlignment
  <1>3. CASE nb = MaxSizeT
    <2>1. MaxSizeT \in AllRequests BY DEF AllRequests
    <2>2. MaxSizeT >= MaxRequest BY <1>1 DEF MaxSizeT, MaxRequest, MinChunkSize
    <2>3. ChunkSizeFor(MaxSizeT) = MaxSizeT BY <2>2 DEF ChunkSizeFor
    <2> QED BY <1>2, <1>3, <2>1, <2>3 DEF Sys!ChunkSizes
  <1>4. CASE Proper(nb) /\ nb <= MaxSizeT - 15
    <2>1. PICK w : w = nb - 1 OBVIOUS
    <2>2. nb \in Nat /\ nb >= 4 /\ nb % 4 = 0 /\ w \in Nat /\ nb <= MaxSizeT
      BY <1>4, <2>1 DEF Proper
    <2>3. w \in AllRequests
      BY <1>1, <2>1, <2>2 DEF AllRequests, MinChunkSize, MallocAlignment, ChunkOverhead, MaxSizeT
    <2>4. w < MaxRequest BY <1>1, <1>4, <2>1, <2>2 DEF MaxRequest, MaxSizeT, MinChunkSize
    <2>5. w >= MinRequest BY <2>1, <2>2 DEF MinRequest, MinChunkSize, ChunkOverhead
    <2>6. PadRequest(w) = nb
      BY <2>1, <2>2 DEF PadRequest, ChunkOverhead, MallocAlignment
    <2>7. Request2Size(w) = nb
      BY <2>2, <2>5, <2>6 DEF Request2Size, MinRequest, MinChunkSize, ChunkOverhead
    <2>8. ~(w >= MaxRequest) BY <1>1, <2>2, <2>4 DEF MaxRequest, MinChunkSize
    <2>9. ChunkSizeFor(w) = nb BY <2>7, <2>8 DEF ChunkSizeFor
    <2> QED BY <1>2, <2>3, <2>9 DEF Sys!ChunkSizes
  <1> QED BY <1>3, <1>4

-----------------------------------------------------------------------------
(* Steps of SysAlloc, written with the variables of the code.              *)

(* A step of the system layer, or none.                                    *)
SysStep == Sys!Next \/ UNCHANGED <<pages, foreign, SystemPart(gm), result>>

(* Memory and foreign pages stay.                                          *)
SameMemory == pages' = pages /\ foreign' = foreign

(* A step that the system layer does not see.                              *)
LEMMA SysStutters ==
    ASSUME SystemPart(gm') = SystemPart(gm), result' = result, SameMemory
    PROVE  SysStep
  BY DEF SysStep, SameMemory

(* Top serves a request.                                                   *)
LEMMA SysTakes ==
    ASSUME NEW h, h = TryInitAllocator(SystemPart(gm)), NEW nb \in Sys!ChunkSizes, nb < h.topsize,
           SystemPart(gm') = CutTop(h, nb), result' = Ended("mem", FALSE), SameMemory
    PROVE  SysStep
  <1>1. h = Sys!TryInitAllocator(SystemPart(gm)) BY SysSame
  <1>2. SystemPart(gm') = Sys!CutTop(h, nb) BY SysSame
  <1>3. Sys!ServeFromTop(h, nb, FALSE)
    BY <1>2 DEF Sys!ServeFromTop, Sys!Finish, Ended
  <1>4. Sys!TakeFromTop(nb) BY <1>1, <1>3 DEF Sys!TakeFromTop, Sys!memoryVars, SameMemory
  <1> QED BY <1>4 DEF SysStep, Sys!Next

(* A request that would wrap is turned down.                               *)
LEMMA SysRejects ==
    ASSUME NEW h, h = TryInitAllocator(SystemPart(gm)), NEW nb \in Sys!ChunkSizes,
           NeedsSystem(h, nb), Oversized(nb),
           SystemPart(gm') = h, result' = Ended("null", FALSE), SameMemory
    PROVE  SysStep
  <1>1. h = Sys!TryInitAllocator(SystemPart(gm)) BY SysSame
  <1>2. Sys!NeedsSystem(h, nb) /\ Sys!Oversized(nb) BY SysSame
  <1>3. Sys!RejectOversized(nb)
    BY <1>1, <1>2 DEF Sys!RejectOversized, Sys!memoryVars, SameMemory, Sys!Finish, Ended
  <1> QED BY <1>3 DEF SysStep, Sys!Next, Sys!SysAlloc

(* The system has nothing to give.                                         *)
LEMMA SysGetsNothing ==
    ASSUME NEW h, h = TryInitAllocator(SystemPart(gm)), NEW nb \in Sys!ChunkSizes,
           NeedsSystem(h, nb), ~Oversized(nb), NEW g \in Grants, NEW e, e = Acquire(h, nb, g),
           e.tbase = CMFAIL, pages' = e.newPages, foreign' = foreign,
           SystemPart(gm') = [h EXCEPT !.contiguous = e.contiguous],
           result' = Ended(IF e.trap THEN "trap" ELSE "null", e.refused)
    PROVE  SysStep
  <1>1. h = Sys!TryInitAllocator(SystemPart(gm)) BY SysSame
  <1>2. Sys!NeedsSystem(h, nb) /\ ~Sys!Oversized(nb) BY SysSame
  <1>3. e = Sys!Acquire(h, nb, g) /\ e.tbase = Sys!CMFAIL BY SysAcquires
  <1>4. result' = [kind |-> IF e.trap THEN "trap" ELSE "null", refused |-> e.refused]
    BY DEF Ended
  <1>5. Sys!AcquireNothing(nb, g)
    BY <1>1, <1>2, <1>3, <1>4 DEF Sys!AcquireNothing, Sys!Finish
  <1>6. g \in Sys!Grants BY SysSame
  <1> QED BY <1>5, <1>6 DEF SysStep, Sys!Next, Sys!SysAlloc

(* The heap x has got new memory, and serves nb words from top if it can.  *)
Serves(x, nb, refused) ==
    IF nb < x.topsize THEN SystemPart(gm') = CutTop(x, nb) /\ result' = Ended("mem", refused)
    ELSE SystemPart(gm') = x /\ result' = Ended("null", refused)

(* New memory, behind the segment of top or elsewhere.                     *)
LEMMA SysGetsMemory ==
    ASSUME NEW h, h = TryInitAllocator(SystemPart(gm)), NEW nb \in Sys!ChunkSizes,
           NeedsSystem(h, nb), ~Oversized(nb), NEW g \in Grants, NEW e, e = Acquire(h, nb, g),
           e.tbase # CMFAIL, pages' = e.newPages, foreign' = foreign,
           NEW x, x = IF Appends(h, e) THEN AppendToSegment(h, e) ELSE AddSegment(h, e),
           Serves(x, nb, e.refused)
    PROVE  SysStep
  <1>1. h = Sys!TryInitAllocator(SystemPart(gm)) BY SysSame
  <1>2. Sys!NeedsSystem(h, nb) /\ ~Sys!Oversized(nb) BY SysSame
  <1>3. e = Sys!Acquire(h, nb, g) /\ e.tbase # Sys!CMFAIL BY SysAcquires
  <1>4. g \in Sys!Grants BY SysSame
  <1>5. Sys!ServeFromTop(x, nb, e.refused)
    <2>1. Sys!CutTop(x, nb) = CutTop(x, nb) BY SysSame
    <2> QED BY <2>1 DEF Serves, Ended, Sys!ServeFromTop, Sys!Finish
  <1>6. CASE Appends(h, e)
    <2>1. Sys!Appends(h, e) /\ x = Sys!AppendToSegment(h, e) BY <1>6, SysExtends
    <2>2. Sys!AcquireAppend(nb, g)
      BY <1>1, <1>2, <1>3, <1>5, <2>1 DEF Sys!AcquireAppend
    <2> QED BY <1>4, <2>2 DEF SysStep, Sys!Next, Sys!SysAlloc
  <1>7. CASE ~Appends(h, e)
    <2>1. ~Sys!Appends(h, e) /\ x = Sys!AddSegment(h, e) BY <1>7, SysExtends
    <2>2. Sys!AcquireSegment(nb, g)
      BY <1>1, <1>2, <1>3, <1>5, <2>1 DEF Sys!AcquireSegment
    <2> QED BY <1>4, <2>2 DEF SysStep, Sys!Next, Sys!SysAlloc
  <1> QED BY <1>6, <1>7

(* A freed chunk joins top.                                                *)
LEMMA SysGives ==
    ASSUME NEW q, q = SystemPart(gm), Initialized(q), NEW n \in Nat, n >= 4, n % 4 = 0,
           n <= AddrWords, q.top - n >= NewTop(q.seg.base),
           SystemPart(gm') = [q EXCEPT !.top = @ - n, !.topsize = @ + n],
           result' = Ended("none", FALSE), SameMemory
    PROVE  SysStep
  <1>1. Sys!Initialized(q) BY SysSame
  <1>2. Sys!MinChunkSize = 4 /\ Sys!MallocAlignment = 4 /\ Sys!AddrWords = AddrWords
    BY SysExtends, Layout
  <1>3. q.top - n >= Sys!NewTop(q.seg.base) BY SysExtends
  <1>4. Sys!GiveToTop(n)
    BY <1>1, <1>2, <1>3 DEF Sys!GiveToTop, Sys!Finish, Ended, Sys!memoryVars, SameMemory
  <1>5. n \in 1 .. Sys!AddrWords BY <1>2, AddrWordsFacts
  <1> QED BY <1>2, <1>4, <1>5 DEF SysStep, Sys!Next

(* Someone else grows the memory.                                          *)
LEMMA SysHost ==
    ASSUME NEW n \in 1 .. MaxPages, Host(n)
    PROVE  SysStep
  <1>1. Sys!ForeignGrow(n) BY DEF Host, ForeignGrow, Sys!ForeignGrow
  <1>2. Sys!Host(n) BY <1>1 DEF Host, Sys!Host, Sys!Finish, Ended
  <1> QED BY <1>2 DEF SysStep, Sys!Next

(* SysAlloc starts where the heap starts.                                  *)
LEMMA SysInit == Init => Sys!Init
  <1> SUFFICES ASSUME Init PROVE Sys!Init OBVIOUS
  <1>1. Sys!MemoryInit BY DEF Init, MemoryInit, Sys!MemoryInit
  <1>2. SystemPart(gm) = [seg |-> [base |-> NULL, size |-> 0], older |-> {}, top |-> NULL,
            topsize |-> 0, contiguous |-> TRUE, footprint |-> 0, maxFootprint |-> 0,
            leastAddr |-> NULL]
    <2>1. PICK r : r = [seg |-> [base |-> NULL, size |-> 0], older |-> {}, top |-> NULL,
            topsize |-> 0, contiguous |-> TRUE, footprint |-> 0, maxFootprint |-> 0,
            leastAddr |-> NULL]
      OBVIOUS
    <2>2. r = [f \in SystemFieldNames |-> r[f]] BY <2>1 DEF SystemFieldNames
    <2>3. SameSystem(gm, r) BY <2>1 DEF Init, SameSystem
    <2> QED BY <2>1, <2>2, <2>3, SystemEqual
  <1>3. result = [kind |-> "none", refused |-> FALSE] BY DEF Init, Ended
  <1> QED BY <1>1, <1>2, <1>3 DEF Sys!Init, Sys!NULL, NULL

-----------------------------------------------------------------------------
(* New memory under the chunks.                                            *)

(* What carries the system layer's fields carries its part of the heap.    *)
LEMMA CarriesPart ==
    ASSUME NEW h, NEW g, Carries(h, g)
    PROVE  SystemPart(g) = SystemPart(h)
  BY SystemSame DEF Carries

(* init_top only writes headers.                                           *)
LEMMA InitTopCarries ==
    ASSUME NEW h, State(h)
    PROVE  Carries(h, InitTop(h))
  <1>1. PICK p, n, G : p = h.top /\ n = h.topsize /\ G = h.top + h.topsize OBVIOUS
  <1>2. PICK k : k = Lay(h, p, n, TRUE, FALSE) OBVIOUS
  <1>3. Carries(h, k) BY <1>2, HeadersCarry
  <1>4. Carries(k, Lay(k, G, TopFootSize, FALSE, FALSE)) BY <1>3, HeadersCarry DEF Carries
  <1>5. InitTop(h) = Lay(k, G, TopFootSize, FALSE, FALSE) BY <1>1, <1>2 DEF InitTop
  <1> QED BY <1>3, <1>4, <1>5, CarriesAgain, ZenonT(60)

(* add_segment's record and fenceposts, too.                               *)
LEMMA SegmentTagsCarry ==
    ASSUME NEW h, State(h), NEW e
    PROVE  Carries(AddSegment(h, e), AddSegmentTags(h, e))
  <1>1. PICK a : a = AddSegment(h, e) OBVIOUS
  <1>2. State(a) BY <1>1, SegmentBelow DEF Below, SameChunks
  <1>3. PICK k : k = InitTop(a) OBVIOUS
  <1>4. Carries(a, k) BY <1>2, <1>3, InitTopCarries
  <1>5. PICK oldEnd, ssize : oldEnd = h.seg.base + h.seg.size /\ ssize = PadRequest(SegmentRecordWords)
    OBVIOUS
  <1>6. PICK rawsp : rawsp = oldEnd - (ssize + 4 + (MallocAlignment - 1)) OBVIOUS
  <1>7. PICK asp : asp = rawsp + AlignOffset(Chunk2Mem(rawsp)) OBVIOUS
  <1>8. PICK sp : sp = IF asp < h.top + MinChunkSize THEN h.top ELSE asp OBVIOUS
  <1>9. PICK p, s : p = h.top /\ s = sp - h.top OBVIOUS
  <1>10. PICK l : l = SetSizeAndPinuseOfInuseChunk(k, sp, ssize) OBVIOUS
  <1>11. Carries(k, l) BY <1>4, <1>10, ChunksCarry DEF Carries
  <1>12. PICK t : t = [x \in (sp + ssize .. oldEnd - 2) \cup DOMAIN l.tag |->
                          IF x \in sp + ssize .. oldEnd - 2 THEN FencePost ELSE l.tag[x]]
    OBVIOUS
  <1>13. PICK f : f = [l EXCEPT !.tag = t] OBVIOUS
  <1>14. Carries(l, f) BY <1>11, <1>13, TagsCarry DEF Carries
  <1>15. PICK d : d = SetFreeWithPinuse(f, p, s, sp) OBVIOUS
  <1>16. Carries(f, d) BY <1>14, <1>15, FreeCarries DEF Carries
  <1>17. Carries(d, InsertChunk(d, p, s)) BY <1>16, BinsCarry DEF Carries
  <1>18. f = [l EXCEPT !.tag = [x \in (sp + ssize .. oldEnd - 2) \cup DOMAIN @ |->
                  IF x \in sp + ssize .. oldEnd - 2 THEN FencePost ELSE @[x]]]
    BY <1>11, <1>12, <1>13, SMTT(60) DEF Carries, State, Fields
  <1>19. AddSegmentTags(h, e) = IF s = 0 THEN f ELSE InsertChunk(d, p, s)
    BY <1>1, <1>3, <1>5, <1>6, <1>7, <1>8, <1>9, <1>10, <1>15, <1>18, ZenonT(60) DEF AddSegmentTags
  <1>20. Carries(a, l) BY <1>4, <1>11, CarriesAgain
  <1>21. Carries(a, f) BY <1>14, <1>20, CarriesAgain
  <1>22. Carries(a, d) BY <1>16, <1>21, CarriesAgain
  <1>23. Carries(a, InsertChunk(d, p, s)) BY <1>17, <1>22, CarriesAgain
  <1> QED BY <1>1, <1>19, <1>21, <1>23

(* g's system part is q.                                                   *)
Over(g, q) == State(g) /\ SystemPart(g) = q

(* sys_alloc's use of new memory, seen from the system layer.              *)
LEMMA ExtendOver ==
    ASSUME NEW h, State(h), NEW e, NEW q, q = SystemPart(h)
    PROVE  Over(Extend(h, e),
                IF Appends(q, e) THEN AppendToSegment(q, e) ELSE AddSegment(q, e))
  <1>1. Appends(q, e) <=> Appends(h, e) BY SystemReads
  <1>2. CASE Appends(h, e)
    <2>1. PICK k : k = AppendToSegment(h, e) OBVIOUS
    <2>2. State(k) /\ SystemPart(k) = AppendToSegment(q, e)
      BY <2>1, AppendBelow DEF Below, SameChunks
    <2>3. Carries(k, InitTop(k)) BY <2>2, InitTopCarries
    <2>4. SystemPart(InitTop(k)) = SystemPart(k) /\ State(InitTop(k))
      BY <2>3, CarriesPart DEF Carries
    <2>5. Extend(h, e) = InitTop(k) BY <1>2, <2>1 DEF Extend
    <2> QED BY <1>1, <1>2, <2>2, <2>4, <2>5 DEF Over
  <1>3. CASE ~Appends(h, e)
    <2>1. PICK k : k = AddSegment(h, e) OBVIOUS
    <2>2. State(k) /\ SystemPart(k) = AddSegment(q, e)
      BY <2>1, SegmentBelow DEF Below, SameChunks
    <2>3. Carries(k, InitTop(k)) BY <2>2, InitTopCarries
    <2>4. Carries(k, AddSegmentTags(h, e)) BY <2>1, SegmentTagsCarry
    <2>5. Extend(h, e) = InitTop(k) \/ Extend(h, e) = AddSegmentTags(h, e)
      BY <1>3, <2>1 DEF Extend
    <2>6. Carries(k, Extend(h, e)) BY <2>3, <2>4, <2>5
    <2>7. SystemPart(Extend(h, e)) = SystemPart(k) /\ State(Extend(h, e))
      BY <2>6, CarriesPart DEF Carries
    <2> QED BY <1>1, <1>3, <2>2, <2>7 DEF Over
  <1> QED BY <1>2, <1>3

(* A chunk split off top, seen from the system layer.                      *)
LEMMA SplitOver ==
    ASSUME NEW h, State(h), NEW nb
    PROVE  Over(SplitTop(h, nb).h, CutTop(SystemPart(h), nb))
  <1>1. PICK r : r = CutTop(h, nb) OBVIOUS
  <1>2. State(r) /\ SystemPart(r) = CutTop(SystemPart(h), nb)
    BY <1>1, CutBelow DEF Below, SameChunks
  <1>3. PICK p, t, n : p = h.top /\ t = r.top /\ n = r.topsize OBVIOUS
  <1>4. PICK k : k = SetSizeAndPinuseOfInuseChunk(r, p, nb) OBVIOUS
  <1>5. Carries(r, k) BY <1>2, <1>4, ChunksCarry
  <1>6. PICK g : g = Lay(k, t, n, TRUE, FALSE) OBVIOUS
  <1>7. Carries(k, g) BY <1>5, <1>6, HeadersCarry DEF Carries
  <1>8. SplitTop(h, nb).h = g BY <1>1, <1>3, <1>4, <1>6 DEF SplitTop, Got
  <1>9. Carries(r, g) BY <1>5, <1>7, CarriesAgain
  <1>10. SystemPart(g) = SystemPart(r) /\ State(g) BY <1>9, CarriesPart DEF Carries
  <1> QED BY <1>2, <1>8, <1>10 DEF Over

(* The first thing a call of malloc does, seen from the system layer.      *)
LEMMA InitOver ==
    ASSUME NEW h, State(h)
    PROVE  Over(InitAllocator(h), TryInitAllocator(SystemPart(h)))
  <1>1. PICK i : i = TryInitAllocator(h) OBVIOUS
  <1>2. State(i) /\ SystemPart(i) = TryInitAllocator(SystemPart(h))
    BY <1>1, TryInitBelow DEF Below, SameChunks
  <1>3. CASE Initialized(h) \/ ~InitialHeapUsable
    <2>1. i = h BY <1>1, <1>3 DEF TryInitAllocator
    <2>2. InitAllocator(h) = h BY <1>1, <2>1 DEF InitAllocator
    <2> QED BY <1>2, <2>1, <2>2 DEF Over
  <1>4. CASE ~(Initialized(h) \/ ~InitialHeapUsable)
    <2>1. i.top = NewTop(HeapBase) BY <1>1, <1>4 DEF TryInitAllocator, State, Fields
    <2>2. NewTop(HeapBase) = HeapBase + 2 /\ HeapBase \in Nat BY Layout, InitialHeapFacts
    <2>3. Initialized(i) BY <2>1, <2>2 DEF Initialized, NULL
    <2>4. InitAllocator(h) = InitTop(i) BY <1>1, <1>4, <2>3 DEF InitAllocator
    <2>5. Carries(i, InitTop(i)) BY <1>2, InitTopCarries
    <2>6. SystemPart(InitTop(i)) = SystemPart(i) /\ State(InitTop(i))
      BY <2>5, CarriesPart DEF Carries
    <2> QED BY <1>2, <2>4, <2>6 DEF Over
  <1> QED BY <1>3, <1>4

-----------------------------------------------------------------------------
(* Steps that leave the memory alone.                                      *)

(* r is q with its top n words lower.                                      *)
Sunk(q, r, n) ==
    /\ n \in Nat /\ n % 4 = 0 /\ n <= AddrWords /\ q.top - n >= NewTop(q.seg.base)
    /\ r.top = q.top - n /\ r.topsize = q.topsize + n

(* Top can only move by whole chunks, and stays in its segment.            *)
LEMMA TopSinks ==
    ASSUME NEW q, NEW r, NEW pg, NEW fr, NEW fr2, HeapInv(q, pg, fr), HeapInv(r, pg, fr2),
           Initialized(q), r.seg = q.seg, r.top + r.topsize = q.top + q.topsize, r.top <= q.top,
           NEW n, n = q.top - r.top
    PROVE  Sunk(q, r, n)
  <1>1. /\ q.top \in Nat /\ q.topsize \in Nat /\ r.top \in Nat /\ r.topsize \in Nat
        /\ q.top < AddrWords /\ AddrWords \in Nat /\ r.topsize <= AddrWords
    BY AddrWordsFacts DEF HeapInv, HeapType
  <1>2. q.seg.base \in Nat /\ q.seg.base % 4 = 0 /\ q.top % 4 = 2
    BY AddrWordsFacts DEF HeapInv, HeapType, SegmentRecord, NewestSegment, TopShape
  <1>3. r.top > 0
    <2>1. q.top > 0 /\ q.topsize >= 0 BY <1>1, <1>2
    <2>2. CASE ~Initialized(r)
      <3>1. r.topsize = 0 BY <2>2 DEF HeapInv, Accounting
      <3>2. r.top = q.top + q.topsize BY <1>1, <3>1
      <3> QED BY <1>1, <2>1, <3>2
    <2>3. CASE Initialized(r)
      <3>1. r.top # 0 BY <2>3 DEF Initialized, NULL
      <3> QED BY <1>1, <3>1
    <2> QED BY <2>2, <2>3
  <1>4. Initialized(r) BY <1>3 DEF Initialized, NULL
  <1>5. r.top % 4 = 2 /\ r.top >= q.seg.base + 2 BY <1>4 DEF HeapInv, TopShape
  <1>6. n \in Nat /\ n <= AddrWords /\ r.top = q.top - n /\ r.topsize = q.topsize + n BY <1>1
  <1>7. n % 4 = 0 BY <1>1, <1>2, <1>5, SMT
  <1>8. NewTop(q.seg.base) = q.seg.base + 2 BY <1>2, Layout
  <1> QED BY <1>5, <1>6, <1>7, <1>8 DEF Sunk

(* A step inside the heap lets top sink, if it moves at all.               *)
LEMMA QuietSys ==
    ASSUME HeapIInv, HeapIInv', Initialized(gm), NEW g, Quiet(g), SameHeap(gm, g),
           FakeAt(g) = FakeAt(gm), Sinks(gm, g)
    PROVE  SysStep
  <1>1. PICK q, r : q = SystemPart(gm) /\ r = SystemPart(g) OBVIOUS
  <1>2. gm' = g /\ pages' = pages /\ foreign' = foreign BY DEF Quiet, memoryVars
  <1>3. HeapInv(q, pages, foreign) BY <1>1 DEF HeapIInv, Sound
  <1>4. HeapInv(r, pages, foreign) BY <1>1, <1>2 DEF HeapIInv, Sound
  <1>5. SameSystem(gm, q) /\ SameSystem(g, r) BY <1>1, SystemCopy
  <1>6. Initialized(q) BY <1>1, SystemReads
  <1>7. r.seg = q.seg /\ r.top + r.topsize = q.top + q.topsize /\ r.top <= q.top
    BY <1>5 DEF SameSystem, SameHeap, FakeAt, Sinks
  <1>8. PICK n : n = q.top - r.top OBVIOUS
  <1>9. Sunk(q, r, n) BY <1>3, <1>4, <1>6, <1>7, <1>8, TopSinks
  <1>10. /\ n \in Nat /\ n % 4 = 0 /\ n <= AddrWords /\ q.top - n >= NewTop(q.seg.base)
         /\ r.top = q.top - n /\ r.topsize = q.topsize + n
    BY <1>9 DEF Sunk
  <1>11. q.top \in Nat /\ q.topsize \in Nat BY <1>3, AddrWordsFacts DEF HeapInv, HeapType
  <1>12. q.top = gm.top /\ r.top = g.top BY <1>5 DEF SameSystem
  <1>13. SameMemory BY <1>2 DEF SameMemory
  <1>14. CASE n = 0
    <2>1. r.top = q.top /\ r.topsize = q.topsize BY <1>10, <1>11, <1>14
    <2>2. SameSystem(gm, g) BY <1>5, <2>1 DEF SameSystem, SameHeap
    <2>3. SystemPart(g) = SystemPart(gm) BY <2>2, SystemSame
    <2>4. result' = result BY <1>12, <2>1 DEF Quiet
    <2> QED BY <1>2, <1>13, <2>3, <2>4, SysStutters
  <1>15. CASE n # 0
    <2>1. n >= 4 BY <1>10, <1>15
    <2>2. g.top # gm.top BY <1>10, <1>11, <1>12, <1>15
    <2>3. result' = Ended("none", FALSE) BY <2>2 DEF Quiet
    <2>4. PICK x : x = [q EXCEPT !.top = @ - n, !.topsize = @ + n] OBVIOUS
    <2>5. x = [f \in SystemFieldNames |-> x[f]] BY <1>1, <2>4 DEF SystemPart, SystemFieldNames
    <2>6. SameSystem(g, x)
      <3>1. x.top = q.top - n /\ x.topsize = q.topsize + n BY <1>1, <2>4 DEF SystemPart
      <3>2. /\ x.seg = q.seg /\ x.older = q.older /\ x.contiguous = q.contiguous
            /\ x.footprint = q.footprint /\ x.maxFootprint = q.maxFootprint
            /\ x.leastAddr = q.leastAddr
        BY <1>1, <2>4 DEF SystemPart
      <3> QED BY <1>5, <1>10, <3>1, <3>2 DEF SameSystem, SameHeap
    <2>7. SystemPart(g) = x BY <2>5, <2>6, SystemEqual
    <2>8. SystemPart(gm') = [q EXCEPT !.top = @ - n, !.topsize = @ + n] BY <1>2, <2>4, <2>7
    <2> QED BY <1>1, <1>6, <1>10, <1>13, <2>1, <2>3, <2>8, SysGives
  <1> QED BY <1>14, <1>15

(* A heap with its chunks has a top, and headers.                          *)
LEMMA StandsTagged ==
    ASSUME NEW h, NEW F, NEW S, NEW A, Whole(h, F, S, A), F = FakeAt(h)
    PROVE  Tagged(h) /\ State(h) /\ h.top \in Nat
  <1>1. Known(h, F, S, A) BY WholeFacts
  <1> QED BY <1>1 DEF Known

(* A block that goes back to the heap.                                     *)
LEMMA DisposeSys ==
    ASSUME HeapIInv, HeapIInv', NEW A, NEW F, NEW S, Standing(A, F, S), NEW p \in A,
           NEW s, s = gm.tag[p].size, NEW g, g = Dispose(gm, p, s), Quiet(g)
    PROVE  SysStep
  <1>1. PICK h : h = gm OBVIOUS
  <1>2. Whole(h, F, S, A) /\ F = FakeAt(h) /\ Initialized(gm) BY <1>1 DEF Standing
  <1>3. s = h.tag[p].size /\ g = Dispose(h, p, s) BY <1>1
  <1>4. Disposed(h, g, F, S, A, p) BY <1>2, <1>3, DisposeWhole
  <1>5. SameHeap(gm, g) /\ FakeAt(g) = FakeAt(gm) BY <1>1, <1>2, <1>4 DEF Disposed
  <1>6. Tagged(h) /\ h.top \in Nat BY <1>2, StandsTagged
  <1>7. p \in DOMAIN h.tag BY <1>2 DEF Whole, Loose, Owned, UsedAt, IsChunk
  <1>8. s \in Nat BY <1>2, <1>3, OwnedFacts
  <1>9. Sinks(h, g) BY <1>3, <1>6, <1>7, <1>8, DisposeSinks
  <1>10. Sinks(gm, g) BY <1>1, <1>9
  <1> QED BY <1>2, <1>5, <1>10, QuietSys

(* free.                                                                   *)
LEMMA FreeSys ==
    ASSUME HeapIInv, NEW p \in DOMAIN live, Free(p)
    PROVE  SysStep
  <1>1. PICK A, F, S : A = DOMAIN live /\ F = FakeAt(gm) /\ S = FirstChunks(gm) OBVIOUS
  <1>2. call = NoCall BY DEF Free
  <1>3. Idle(A) BY <1>1, <1>2, IdleFacts
  <1>4. HeapOK(gm, A, pages) /\ p \in A /\ A # {} BY <1>1, <1>3 DEF Idle
  <1>5. Standing(A, F, S) BY <1>1, <1>4, Stands
  <1>6. PICK s, g : s = gm.tag[p].size /\ g = Dispose(gm, p, s) OBVIOUS
  <1>7. Quiet(g) BY <1>6 DEF Free, ChunkSize
  <1>8. HeapIInv' BY FreeKeeps
  <1> QED BY <1>4, <1>5, <1>6, <1>7, <1>8, DisposeSys

(* realloc's second step.                                                  *)
LEMMA ReallocFreeSys ==
    ASSUME HeapIInv, ReallocFree
    PROVE  SysStep
  <1>1. PICK c, A, F, S : c = call /\ A = Owners(live, c) /\ F = FakeAt(gm) /\ S = FirstChunks(gm)
    OBVIOUS
  <1>2. call.op = "realloc" BY DEF ReallocFree
  <1>3. Busy(A, c) BY <1>1, <1>2, BusyFacts
  <1>4. /\ HeapOK(gm, A, pages) /\ A = DOMAIN live \cup {c.p} /\ A # {}
        /\ Pending(gm, live, c) /\ c = call /\ c # NoCall
    BY <1>3 DEF Busy
  <1>5. Moving(gm, live, c) BY <1>2, <1>4 DEF Pending, Aligning
  <1>6. PICK o : o = c.old OBVIOUS
  <1>7. o \in A BY <1>4, <1>5, <1>6 DEF Moving
  <1>8. Standing(A, F, S) BY <1>1, <1>4, Stands
  <1>9. PICK s, g : s = gm.tag[o].size /\ g = Dispose(gm, o, s) OBVIOUS
  <1>10. Quiet(g) BY <1>4, <1>6, <1>9 DEF ReallocFree, ChunkSize
  <1>11. HeapIInv' BY ReallocFreeKeeps
  <1> QED BY <1>7, <1>8, <1>9, <1>10, <1>11, DisposeSys

(* A block resized where it is: top does not rise.                         *)
LEMMA ResizedSys ==
    ASSUME HeapIInv, HeapIInv', NEW A, NEW F, NEW S, Standing(A, F, S), NEW p, NEW nb,
           NEW g, Resized(gm, g, F, S, A, p, nb), Quiet(g), Sinks(gm, g)
    PROVE  SysStep
  <1>1. Initialized(gm) /\ F = FakeAt(gm) BY DEF Standing
  <1>2. SameHeap(gm, g) /\ FakeAt(g) = FakeAt(gm) BY <1>1 DEF Resized
  <1> QED BY <1>1, <1>2, QuietSys

(* realloc to a shorter block.                                             *)
LEMMA ShrinkSys ==
    ASSUME HeapIInv, NEW A, NEW F, NEW S, NEW h, NEW p, NEW s, NEW e, NEW nb,
           Resizing(A, F, S, h, p, s, e, nb), ReallocShrink(p, nb)
    PROVE  SysStep
  <1>1. /\ Standing(A, F, S) /\ p \in A /\ h = gm /\ Whole(h, F, S, A) /\ F = FakeAt(h)
        /\ s = h.tag[p].size /\ s \in Nat /\ nb \in Nat /\ nb > 0 /\ nb % 4 = 0
    BY DEF Resizing
  <1>2. PICK g : g = TrimTo(h, p, s, nb) OBVIOUS
  <1>3. nb <= s /\ Quiet(g) BY <1>1, <1>2 DEF ReallocShrink, StaysPut, ChunkSize
  <1>4. Resized(h, g, F, S, A, p, nb) BY <1>1, <1>2, <1>3, ShrinkResizes
  <1>5. Tagged(h) /\ h.top \in Nat BY <1>1, StandsTagged
  <1>6. p \in Nat BY <1>1, OwnedFacts
  <1>7. Sinks(h, g) BY <1>1, <1>2, <1>5, <1>6, TrimSinks
  <1>8. Sinks(gm, g) /\ Resized(gm, g, F, S, A, p, nb) BY <1>1, <1>4, <1>7
  <1>9. HeapIInv' BY ShrinkKeeps
  <1> QED BY <1>1, <1>3, <1>8, <1>9, ResizedSys

(* realloc into the free chunk behind.                                     *)
LEMMA NextSys ==
    ASSUME HeapIInv, NEW A, NEW F, NEW S, NEW h, NEW p, NEW s, NEW e, NEW nb,
           Resizing(A, F, S, h, p, s, e, nb), ReallocIntoNext(p, nb)
    PROVE  SysStep
  <1>1. /\ Standing(A, F, S) /\ p \in A /\ h = gm /\ Whole(h, F, S, A) /\ F = FakeAt(h)
        /\ s = h.tag[p].size /\ s \in Nat /\ nb \in Nat /\ nb > 0 /\ nb % 4 = 0
        /\ e = p + h.tag[p].size
    BY DEF Resizing
  <1>2. PICK n : n = h.tag[e].size OBVIOUS
  <1>3. PICK t : t = h.tag[p].size + n OBVIOUS
  <1>4. PICK k : k = UnlinkChunk(h, e, n) OBVIOUS
  <1>5. PICK g : g = TrimTo(k, p, t, nb) OBVIOUS
  <1>6. g = TrimTo(UnlinkChunk(h, e, n), p, t, nb) BY <1>4, <1>5, ZenonT(60)
  <1>7. /\ e # h.top /\ e # h.dv /\ ~h.tag[e].cinuse /\ t >= nb /\ Quiet(g)
    BY <1>1, <1>2, <1>3, <1>6 DEF ReallocIntoNext, StaysPut, GrowsIntoNext, ChunkSize, NextChunk
  <1>8. h.tag[e].cinuse \in BOOLEAN /\ (h.tag[e].cinuse = FALSE => FreeAt(h.tag, F, e))
    BY <1>1, BehindUsed
  <1>9. h.tag[e].cinuse = FALSE BY <1>7, <1>8
  <1>10. n \in Nat BY <1>1, <1>2, <1>8, <1>9, SizesBelow DEF FreeAt
  <1>11. t \in Nat /\ nb <= t BY <1>1, <1>3, <1>7, <1>10, SMTT(60)
  <1>12. Resized(h, g, F, S, A, p, nb)
    BY <1>1, <1>2, <1>3, <1>6, <1>7, <1>9, <1>11, NextResizes
  <1>13. Tagged(h) /\ State(h) /\ h.top \in Nat BY <1>1, StandsTagged
  <1>14. Carries(h, k) BY <1>4, <1>13, BinsCarry
  <1>15. k.top = h.top /\ k.tag = h.tag /\ Tagged(k)
    <2>1. k.top = h.top /\ State(k) BY <1>14 DEF Carries, SameSystem
    <2>2. k.tag = h.tag BY <1>4, <1>13 DEF UnlinkChunk, State, Fields
    <2> QED BY <1>13, <2>1, <2>2 DEF Tagged
  <1>16. p \in Nat BY <1>1, OwnedFacts
  <1>17. Sinks(k, g) BY <1>1, <1>5, <1>11, <1>13, <1>15, <1>16, TrimSinks
  <1>18. Sinks(gm, g) /\ Resized(gm, g, F, S, A, p, nb)
    BY <1>1, <1>12, <1>15, <1>17 DEF Sinks
  <1>19. HeapIInv' BY NextKeeps
  <1> QED BY <1>1, <1>7, <1>18, <1>19, ResizedSys

(* realloc into dv.                                                        *)
LEMMA DvSys ==
    ASSUME HeapIInv, NEW A, NEW F, NEW S, NEW h, NEW p, NEW s, NEW e, NEW nb,
           Resizing(A, F, S, h, p, s, e, nb), ReallocIntoDv(p, nb)
    PROVE  SysStep
  <1>1. /\ Standing(A, F, S) /\ p \in A /\ h = gm /\ Whole(h, F, S, A) /\ F = FakeAt(h)
        /\ s = h.tag[p].size /\ s \in Nat /\ nb \in Nat /\ nb > 0 /\ nb % 4 = 0
        /\ e = p + h.tag[p].size
    BY DEF Resizing
  <1>2. PICK t : t = h.tag[p].size + h.dvsize OBVIOUS
  <1>3. PICK mid, r, e2 : mid = p + nb /\ r = t - nb /\ e2 = p + t OBVIOUS
  <1>4. PICK g : g = IF Splits(t, nb) THEN
                  [ClearPinuse(SetSizeAndPinuseOfFreeChunk(SetInuse(h, p, nb), mid, r), e2)
                      EXCEPT !.dv = mid, !.dvsize = r]
              ELSE [SetInuse(h, p, t) EXCEPT !.dv = NULL, !.dvsize = 0]
    OBVIOUS
  <1>5. Quiet(g) /\ e = h.dv /\ t >= nb
    BY <1>1, <1>2, <1>3, <1>4 DEF ReallocIntoDv, StaysPut, GrowsIntoDv, ChunkSize, NextChunk
  <1>6. h.dvsize \in Nat BY <1>1, SizesBelow
  <1>7. nb <= t BY <1>1, <1>2, <1>5, <1>6, SMTT(60)
  <1>8. Resized(h, g, F, S, A, p, nb)
    BY <1>1, <1>2, <1>3, <1>4, <1>5, <1>7, DvResizes, ZenonT(60)
  <1>9. State(h) /\ h.top \in Nat BY <1>1, StandsTagged
  <1>10. Carries(h, g)
    <2>1. CASE Splits(t, nb)
      <3>1. PICK a : a = SetInuse(h, p, nb) OBVIOUS
      <3>2. PICK b : b = SetSizeAndPinuseOfFreeChunk(a, mid, r) OBVIOUS
      <3>3. PICK c : c = ClearPinuse(b, e2) OBVIOUS
      <3>4. g = [c EXCEPT !.dv = mid, !.dvsize = r] BY <1>4, <2>1, <3>1, <3>2, <3>3, Zenon
      <3>5. Carries(h, a) BY <1>9, <3>1, ChunksCarry
      <3>6. State(a) BY <3>5 DEF Carries
      <3>7. Carries(a, b) BY <3>2, <3>6, ChunksCarry
      <3>8. State(b) BY <3>7 DEF Carries
      <3>9. Carries(b, c) BY <3>3, <3>8, HeadersCarry
      <3>10. State(c) BY <3>9 DEF Carries
      <3>11. Carries(c, g) BY <3>4, <3>10, DvCarries
      <3>12. Carries(h, b) BY <3>5, <3>7, CarriesAgain
      <3>13. Carries(h, c) BY <3>9, <3>12, CarriesAgain
      <3> QED BY <3>11, <3>13, CarriesAgain
    <2>2. CASE ~Splits(t, nb)
      <3>1. PICK a : a = SetInuse(h, p, t) OBVIOUS
      <3>2. g = [a EXCEPT !.dv = NULL, !.dvsize = 0] BY <1>4, <2>2, <3>1, Zenon
      <3>3. Carries(h, a) BY <1>9, <3>1, ChunksCarry
      <3>4. State(a) BY <3>3 DEF Carries
      <3>5. Carries(a, g) BY <3>2, <3>4, DvCarries
      <3> QED BY <3>3, <3>5, CarriesAgain
    <2> QED BY <2>1, <2>2
  <1>11. Sinks(h, g) BY <1>9, <1>10, CarriesSinks
  <1>12. Sinks(gm, g) /\ Resized(gm, g, F, S, A, p, nb) BY <1>1, <1>8, <1>11
  <1>13. HeapIInv' BY DvKeeps
  <1> QED BY <1>1, <1>5, <1>12, <1>13, ResizedSys

(* realloc into top takes the rest of the block from it.                   *)
LEMMA TopSys ==
    ASSUME NEW A, NEW F, NEW S, NEW h, NEW p, NEW s, NEW e, NEW nb,
           Resizing(A, F, S, h, p, s, e, nb), ReallocIntoTop(p, nb)
    PROVE  SysStep
  <1>1. /\ Standing(A, F, S) /\ p \in A /\ h = gm /\ Whole(h, F, S, A) /\ F = FakeAt(h)
        /\ s = h.tag[p].size /\ s \in Nat /\ nb \in Nat /\ nb > 0 /\ nb % 4 = 0
    BY DEF Resizing
  <1>2. PICK z : z = h.topsize OBVIOUS
  <1>3. PICK mid, r : mid = p + nb /\ r = s + z - nb OBVIOUS
  <1>4. /\ s < nb /\ p + s = h.top /\ s + z > nb /\ result' = Ended("mem", FALSE)
        /\ pages' = pages /\ foreign' = foreign
    BY <1>1, <1>2 DEF ReallocIntoTop, GrowsIntoTop, ChunkSize, NextChunk
  <1>5. PICK a : a = SetInuse(h, p, nb) OBVIOUS
  <1>6. PICK b : b = [a EXCEPT !.top = mid, !.topsize = r] OBVIOUS
  <1>7. PICK g : g = Lay(b, mid, r, TRUE, FALSE) OBVIOUS
  <1>8. gm' = g
    <2>1. gm' = Lay([SetInuse(gm, p, nb) EXCEPT !.top = p + nb,
                        !.topsize = gm.tag[p].size + gm.topsize - nb],
                    p + nb, gm.tag[p].size + gm.topsize - nb, TRUE, FALSE)
      BY DEF ReallocIntoTop, ChunkSize
    <2>2. gm = h BY <1>1
    <2>3. PICK x, y : x = gm.tag[p].size /\ y = gm.topsize OBVIOUS
    <2>4. x = s /\ y = z BY <1>1, <1>2, <2>2, <2>3
    <2>5. gm' = Lay([SetInuse(gm, p, nb) EXCEPT !.top = p + nb, !.topsize = x + y - nb],
                    p + nb, x + y - nb, TRUE, FALSE)
      BY <2>1, <2>3
    <2> QED BY <1>3, <1>5, <1>6, <1>7, <2>2, <2>4, <2>5
  <1>9. State(h) /\ h.top \in Nat /\ p \in Nat
    <2>1. p \in Nat BY <1>1, OwnedFacts
    <2> QED BY <1>1, <2>1, StandsTagged
  <1>10. Carries(h, a) BY <1>5, <1>9, ChunksCarry
  <1>11. State(a) BY <1>10 DEF Carries
  <1>12. /\ State(b) /\ b.top = mid /\ b.topsize = r /\ b.seg = a.seg /\ b.older = a.older
         /\ b.contiguous = a.contiguous /\ b.footprint = a.footprint
         /\ b.maxFootprint = a.maxFootprint /\ b.leastAddr = a.leastAddr
    BY <1>6, <1>11 DEF State, Fields
  <1>13. Carries(b, g) BY <1>7, <1>12, HeadersCarry
  <1>14. PICK d : d = nb - s OBVIOUS
  <1>15. z \in Nat /\ z < AddrWords - 15 /\ AddrWords \in Nat
    BY <1>1, <1>2, SizesBelow, AddrWordsFacts
  <1>16. d \in Nat /\ d > 0 /\ d < z BY <1>1, <1>4, <1>14, <1>15
  <1>17. s % 4 = 0
    <2>1. IsChunk(h.tag, F, p) /\ Tiles(h.tag, F)
      BY <1>1 DEF Whole, Loose, Owned, UsedAt, Shape
    <2> QED BY <1>1, <2>1 DEF Tiles
  <1>18. d % 4 = 0 BY <1>1, <1>4, <1>14, <1>16, <1>17, SMT
  <1>19. d \in Sys!ChunkSizes
    <2>1. d >= 4 BY <1>16, <1>18
    <2>2. d <= MaxSizeT - 15 /\ d <= MaxSizeT BY <1>15, <1>16 DEF MaxSizeT
    <2>3. Proper(d) BY <1>16, <1>18, <2>1, <2>2 DEF Proper
    <2> QED BY <2>2, <2>3, SysSizes
  <1>20. PICK q : q = SystemPart(gm) OBVIOUS
  <1>21. Initialized(q) /\ SameSystem(h, q)
    <2>1. SameSystem(gm, q) BY <1>20, SystemCopy
    <2>2. Initialized(gm) BY <1>1 DEF Standing
    <2>3. Initialized(q) BY <1>20, <2>2, SystemReads
    <2> QED BY <1>1, <2>1, <2>3
  <1>22. q = TryInitAllocator(SystemPart(gm)) BY <1>20, <1>21 DEF TryInitAllocator
  <1>23. PICK x : x = CutTop(q, d) OBVIOUS
  <1>24. x = [f \in SystemFieldNames |-> x[f]]
    BY <1>20, <1>23 DEF CutTop, SystemPart, SystemFieldNames
  <1>25. /\ x.top = q.top + d /\ x.topsize = q.topsize - d /\ x.seg = q.seg /\ x.older = q.older
         /\ x.contiguous = q.contiguous /\ x.footprint = q.footprint
         /\ x.maxFootprint = q.maxFootprint /\ x.leastAddr = q.leastAddr
    BY <1>20, <1>23 DEF CutTop, SystemPart
  <1>26. q.top = h.top /\ q.topsize = z BY <1>2, <1>21 DEF SameSystem
  <1>27. x.top = mid /\ x.topsize = r
    BY <1>1, <1>3, <1>4, <1>9, <1>14, <1>15, <1>16, <1>25, <1>26
  <1>28. SameSystem(b, x)
    <2>1. SameSystem(h, a) /\ SameSystem(h, q) BY <1>10, <1>21 DEF Carries
    <2> QED BY <1>12, <1>25, <1>27, <2>1 DEF SameSystem
  <1>29. SameSystem(g, x) BY <1>13, <1>28 DEF Carries, SameSystem
  <1>30. SystemPart(g) = x BY <1>24, <1>29, SystemEqual
  <1>31. SystemPart(gm') = CutTop(q, d) BY <1>8, <1>23, <1>30
  <1>32. d < q.topsize BY <1>16, <1>26
  <1>33. SameMemory BY <1>4 DEF SameMemory
  <1> QED BY <1>4, <1>19, <1>22, <1>31, <1>32, <1>33, SysTakes

(* One move after another.                                                 *)
LEMMA SinksAgain ==
    ASSUME NEW h, NEW k, NEW g, h.top \in Nat, k.top \in Nat, g.top \in Nat,
           Sinks(h, k), Sinks(k, g)
    PROVE  Sinks(h, g)
  BY DEF Sinks

(* aligned_alloc's leader given back.                                      *)
LEMMA LeaderSinks ==
    ASSUME NEW h, Tagged(h), h.top \in Nat, NEW p \in Nat, NEW pos \in Nat, NEW s \in Nat,
           NEW lead \in Nat, NEW g, g = Dispose(SetInuse(SetInuse(h, pos, s), p, lead), p, lead)
    PROVE  Sinks(h, g)
  <1>1. PICK a : a = SetInuse(h, pos, s) OBVIOUS
  <1>2. PICK b : b = SetInuse(a, p, lead) OBVIOUS
  <1>3. Lays(h, a, pos) BY <1>1, InuseLays
  <1>4. Tagged(a) /\ a.top = h.top BY <1>3 DEF Lays, Carries, SameSystem
  <1>5. Lays(a, b, p) BY <1>2, <1>4, InuseLays
  <1>6. Tagged(b) /\ b.top = h.top /\ p \in DOMAIN b.tag
    BY <1>4, <1>5 DEF Lays, Carries, SameSystem
  <1>7. g = Dispose(b, p, lead) BY <1>1, <1>2, Zenon
  <1>8. Sinks(b, g) BY <1>6, <1>7, DisposeSinks
  <1> QED BY <1>6, <1>8 DEF Sinks

(* aligned_alloc's second step.                                            *)
LEMMA MemalignTrimSys ==
    ASSUME HeapIInv, MemalignTrim
    PROVE  SysStep
  <1>1. PICK c, A, F, S : c = call /\ A = Owners(live, c) /\ F = FakeAt(gm) /\ S = FirstChunks(gm)
    OBVIOUS
  <1>2. call.op = "memalign" BY DEF MemalignTrim
  <1>3. Busy(A, c) BY <1>1, <1>2, BusyFacts
  <1>4. /\ HeapOK(gm, A, pages) /\ A = DOMAIN live \cup {c.p} /\ A # {}
        /\ Pending(gm, live, c) /\ c = call /\ c # NoCall
    BY <1>3 DEF Busy
  <1>5. Aligning(gm, live, c) BY <1>2, <1>4 DEF Pending, Moving
  <1>6. PICK p, nb, al : p = c.p /\ nb = c.nb /\ al = c.align OBVIOUS
  <1>7. /\ Proper(nb) /\ al \in Nat /\ al > 4 /\ al % 4 = 0
        /\ gm.tag[p].size \in Nat /\ gm.tag[p].size >= nb + al
    BY <1>5, <1>6 DEF Aligning
  <1>8. Standing(A, F, S) BY <1>1, <1>4, Stands
  <1>9. PICK h : h = gm OBVIOUS
  <1>10. Whole(h, F, S, A) /\ F = FakeAt(h) /\ Initialized(gm) BY <1>8, <1>9 DEF Standing
  <1>11. p \in A BY <1>4, <1>6
  <1>12. p \in Nat /\ p % 4 = 2 BY <1>10, <1>11, OwnedFacts
  <1>13. PICK pos : pos = AlignedPosition(p, al) OBVIOUS
  <1>14. pos \in Nat /\ p <= pos /\ pos < p + al /\ pos % 4 = 2
    BY <1>7, <1>12, <1>13, MemalignPlace
  <1>15. PICK lead, s : lead = pos - p /\ s = h.tag[p].size - lead OBVIOUS
  <1>16. PICK based : based = IF lead = 0 THEN h
                              ELSE Dispose(SetInuse(SetInuse(h, pos, s), p, lead), p, lead)
    OBVIOUS
  <1>17. PICK g : g = IF s > nb + MinChunkSize THEN TrimTo(based, pos, s, nb) ELSE based OBVIOUS
  <1>18. Quiet(g)
    <2>1. c.p = p /\ c.nb = nb /\ c.align = al /\ call = c /\ gm = h BY <1>4, <1>6, <1>9
    <2>2. AlignedPosition(call.p, call.align) = pos BY <1>13, <2>1
    <2> QED BY <1>15, <1>16, <1>17, <2>1, <2>2 DEF MemalignTrim, ChunkSize
  <1>19. nb \in Nat /\ nb > 0 /\ nb % 4 = 0 BY <1>7 DEF Proper
  <1>20. PICK z : z = h.tag[p].size OBVIOUS
  <1>21. z \in Nat /\ z >= nb + al /\ s = z - lead BY <1>7, <1>9, <1>15, <1>20
  <1>22. nb <= s /\ s \in Nat /\ lead \in Nat /\ pos < p + z
    <2>1. pos \in Nat /\ p <= pos /\ pos < p + al BY <1>14
    <2>2. al \in Nat BY <1>7
    <2>3. lead \in Nat /\ lead < al BY <1>12, <1>15, <2>1, <2>2
    <2>4. nb \in Nat BY <1>19
    <2> QED BY <1>12, <1>21, <2>1, <2>2, <2>3, <2>4
  <1>23. Placed(h, g, F, S, A, p, pos, nb)
    BY <1>10, <1>11, <1>14, <1>15, <1>16, <1>17, <1>19, <1>22, MemalignEnds
  <1>24. PICK B : B = (A \ {p}) \cup {pos} OBVIOUS
  <1>25. SameHeap(gm, g) /\ FakeAt(g) = F /\ Whole(g, F, S, B)
    BY <1>9, <1>23, <1>24 DEF Placed
  <1>26. Tagged(h) /\ h.top \in Nat BY <1>10, StandsTagged
  <1>27. g.top \in Nat BY <1>25, StandsTagged
  <1>28. Tagged(based) /\ based.top \in Nat /\ Sinks(h, based)
    <2>1. CASE lead = 0
      <3>1. based = h BY <1>16, <2>1
      <3> QED BY <1>26, <3>1 DEF Sinks, Tagged
    <2>2. CASE lead # 0
      <3>1. based = Dispose(SetInuse(SetInuse(h, pos, s), p, lead), p, lead) BY <1>16, <2>2
      <3>2. p < pos BY <1>12, <1>14, <1>15, <2>2
      <3>3. Led(h, based, F, S, A, p, pos, s)
        BY <1>10, <1>11, <1>14, <1>15, <1>20, <1>21, <1>22, <3>1, <3>2, LeaderGiven
      <3>4. FakeAt(based) = F /\ Whole(based, F, S, B) BY <1>24, <3>3 DEF Led
      <3>5. Tagged(based) /\ based.top \in Nat BY <3>4, StandsTagged
      <3>6. Sinks(h, based) BY <1>12, <1>14, <1>22, <1>26, <3>1, LeaderSinks
      <3> QED BY <3>5, <3>6
    <2> QED BY <2>1, <2>2
  <1>29. Sinks(h, g)
    <2>1. CASE s > nb + MinChunkSize
      <3>1. g = TrimTo(based, pos, s, nb) BY <1>17, <2>1
      <3>2. Sinks(based, g) BY <1>14, <1>19, <1>22, <1>28, <3>1, TrimSinks
      <3> QED BY <1>26, <1>27, <1>28, <3>2, SinksAgain
    <2>2. CASE ~(s > nb + MinChunkSize)
      <3>1. g = based BY <1>17, <2>2
      <3> QED BY <1>28, <3>1
    <2> QED BY <2>1, <2>2
  <1>30. Sinks(gm, g) BY <1>9, <1>29
  <1>31. FakeAt(g) = FakeAt(gm) BY <1>1, <1>25
  <1>32. HeapIInv' BY MemalignTrimKeeps
  <1> QED BY <1>10, <1>18, <1>25, <1>30, <1>31, <1>32, QuietSys

-----------------------------------------------------------------------------
(* Calls of malloc.                                                        *)

(* The first heap has top and the fake chunk behind it, and nothing else.  *)
LEMMA FirstHeaders ==
    ASSUME NEW h, State(h), DOMAIN h.tag = {}, ~Initialized(h),
           NEW k, k = InitAllocator(h), Initialized(k)
    PROVE  \A x \in DOMAIN k.tag : x = k.top \/ x = FakeAt(k)
  <1>1. PICK i : i = TryInitAllocator(h) OBVIOUS
  <1>2. SameChunks(h, i) BY <1>1, TryInitBelow DEF Below
  <1>3. State(i) /\ DOMAIN i.tag = {} BY <1>2 DEF SameChunks
  <1>4. k = InitTop(i) BY <1>1 DEF InitAllocator
  <1>5. PICK p, n, G : p = i.top /\ n = i.topsize /\ G = p + n OBVIOUS
  <1>6. PICK a : a = Lay(i, p, n, TRUE, FALSE) OBVIOUS
  <1>7. k = Lay(a, G, TopFootSize, FALSE, FALSE) BY <1>4, <1>5, <1>6, Zenon DEF InitTop
  <1>8. State(a) /\ a.tag = Laid(i.tag, p, n, TRUE, FALSE)
    BY <1>3, <1>6 DEF Lay, State, Fields
  <1>9. \A x \in DOMAIN a.tag : x = p BY <1>3, <1>8 DEF Laid
  <1>10. k.tag = Laid(a.tag, G, TopFootSize, FALSE, FALSE) BY <1>7, <1>8 DEF Lay, State, Fields
  <1>11. \A x \in DOMAIN k.tag : x = G \/ x \in DOMAIN a.tag BY <1>10 DEF Laid
  <1>12. Carries(i, k) BY <1>3, <1>4, InitTopCarries
  <1>13. k.top = p /\ FakeAt(k) = G BY <1>5, <1>12 DEF Carries, SameSystem, FakeAt
  <1> QED BY <1>9, <1>11, <1>13

(* A chunk cut from top, seen from the system layer.                       *)
LEMMA TopCut ==
    ASSUME NEW h, NEW q, Over(h, q), NEW g, NEW nb, SameHeap(h, g),
           g.top = h.top + nb, g.topsize = h.topsize - nb
    PROVE  SystemPart(g) = CutTop(q, nb)
  <1>1. q = SystemPart(h) BY DEF Over
  <1>2. SameSystem(h, q) BY <1>1, SystemCopy
  <1>3. PICK x : x = CutTop(q, nb) OBVIOUS
  <1>4. x = [f \in SystemFieldNames |-> x[f]]
    BY <1>1, <1>3 DEF CutTop, SystemPart, SystemFieldNames
  <1>5. /\ x.top = q.top + nb /\ x.topsize = q.topsize - nb /\ x.seg = q.seg
        /\ x.older = q.older /\ x.contiguous = q.contiguous /\ x.footprint = q.footprint
        /\ x.maxFootprint = q.maxFootprint /\ x.leastAddr = q.leastAddr
    BY <1>1, <1>3 DEF CutTop, SystemPart
  <1>6. SameSystem(g, x) BY <1>2, <1>5 DEF SameSystem, SameHeap
  <1> QED BY <1>3, <1>4, <1>6, SystemEqual

(* malloc finds a chunk: it is in top, or the system layer sees nothing.   *)
LEMMA FoundSys ==
    ASSUME NEW h, NEW q, Over(h, q), q = TryInitAllocator(SystemPart(gm)),
           NEW F, F = FakeAt(h), NEW S, NEW A, NEW nb \in Sys!ChunkSizes, NEW g, NEW p,
           Gave(h, g, F, S, A, p, nb), gm' = g, SameMemory,
           result' = IF p = h.top THEN Ended("mem", FALSE) ELSE result,
           Initialized(gm) \/ \A x \in DOMAIN h.tag : x = h.top \/ x = F
    PROVE  SysStep
  <1>1. SameHeap(h, g) /\ FreeAt(h.tag, F, p) BY DEF Gave
  <1>2. SystemPart(h) = q /\ SameSystem(h, q) BY SystemCopy DEF Over
  <1>3. CASE p = h.top
    <2>1. nb < h.topsize /\ g.top = h.top + nb /\ g.topsize = h.topsize - nb BY <1>3 DEF Gave
    <2>2. SystemPart(g) = CutTop(q, nb) BY <1>1, <2>1, TopCut
    <2>3. nb < q.topsize BY <1>2, <2>1 DEF SameSystem
    <2>4. SystemPart(gm') = CutTop(q, nb) /\ result' = Ended("mem", FALSE) BY <1>3, <2>2
    <2> QED BY <2>3, <2>4, SysTakes
  <1>4. CASE p # h.top
    <2>1. g.top = h.top /\ g.topsize = h.topsize BY <1>4 DEF Gave
    <2>2. Initialized(gm)
      <3>1. p \in DOMAIN h.tag /\ p # F BY <1>1 DEF FreeAt, IsChunk
      <3> QED BY <1>4, <3>1
    <2>3. PICK r : r = SystemPart(gm) OBVIOUS
    <2>4. Initialized(r) BY <2>2, <2>3, SystemReads
    <2>5. q = SystemPart(gm) BY <2>3, <2>4 DEF TryInitAllocator
    <2>6. SameSystem(h, g) BY <1>1, <2>1 DEF SameSystem, SameHeap
    <2>7. SystemPart(g) = SystemPart(h) BY <2>6, SystemSame
    <2>8. SystemPart(gm') = SystemPart(gm) /\ result' = result BY <1>2, <1>4, <2>5, <2>7
    <2> QED BY <2>8, SysStutters
  <1> QED BY <1>3, <1>4

(* New memory serves the call, or not.                                     *)
LEMMA ExtendedSys ==
    ASSUME NEW q, q = TryInitAllocator(SystemPart(gm)), NEW h, Over(h, q),
           NEW nb \in Sys!ChunkSizes, nb \in Int, NeedsSystem(q, nb), ~Oversized(nb),
           NEW g \in Grants, NEW e, e = Acquire(q, nb, g), e.tbase # CMFAIL,
           NEW x, x = Extend(h, e), x.topsize \in Int,
           pages' = e.newPages, foreign' = foreign,
           IF NeedsSystem(x, nb) THEN gm' = x /\ result' = Ended("null", e.refused)
           ELSE gm' = SplitTop(x, nb).h /\ result' = Ended("mem", e.refused)
    PROVE  SysStep
  <1>1. PICK y : y = IF Appends(q, e) THEN AppendToSegment(q, e) ELSE AddSegment(q, e) OBVIOUS
  <1>2. State(h) /\ q = SystemPart(h) BY DEF Over
  <1>3. Over(Extend(h, e), IF Appends(q, e) THEN AppendToSegment(q, e) ELSE AddSegment(q, e))
    BY <1>2, ExtendOver
  <1>4. State(x) /\ SystemPart(x) = y BY <1>1, <1>3, Zenon DEF Over
  <1>5. SameSystem(x, y) BY <1>4, SystemCopy
  <1>6. y.topsize = x.topsize BY <1>5 DEF SameSystem
  <1>7. Serves(y, nb, e.refused)
    <2>1. CASE NeedsSystem(x, nb)
      <3>1. ~(nb < y.topsize) BY <1>6, <2>1 DEF NeedsSystem
      <3>2. SystemPart(gm') = y /\ result' = Ended("null", e.refused) BY <1>4, <2>1
      <3> QED BY <3>1, <3>2 DEF Serves
    <2>2. CASE ~NeedsSystem(x, nb)
      <3>1. nb < y.topsize BY <1>6, <2>2 DEF NeedsSystem
      <3>2. PICK z : z = SplitTop(x, nb).h OBVIOUS
      <3>3. Over(z, CutTop(SystemPart(x), nb)) BY <1>4, <3>2, SplitOver
      <3>4. SystemPart(z) = CutTop(y, nb) BY <1>4, <3>3 DEF Over
      <3>5. gm' = z /\ result' = Ended("mem", e.refused) BY <2>2, <3>2
      <3>6. SystemPart(gm') = CutTop(y, nb) BY <3>4, <3>5
      <3> QED BY <3>1, <3>5, <3>6 DEF Serves
    <2> QED BY <2>1, <2>2
  <1> QED BY <1>1, <1>7, SysGetsMemory

(* malloc asks the system.                                                 *)
LEMMA SystemSys ==
    ASSUME MemoryInv, NEW q, q = TryInitAllocator(SystemPart(gm)), NEW h, Over(h, q),
           NEW A, HeapOK(h, A, pages), NEW nb \in Sys!ChunkSizes, AnySize(nb),
           NeedsSystem(h, nb), NEW g \in Grants, NEW o, o = FromSystem(h, nb, g), Leave(o)
    PROVE  SysStep
  <1>1. State(h) /\ q = SystemPart(h) BY DEF Over
  <1>2. gm' = o.h /\ pages' = o.pages /\ result' = o.result /\ foreign' = foreign BY DEF Leave
  <1>3. nb \in 0 .. MaxSizeT /\ nb \in Int
    BY AddrWordsFacts, PageAssumption DEF AnySize, Proper, MaxSizeT
  <1>4. NeedsSystem(q, nb) BY <1>1, SystemReads
  <1>5. CASE Oversized(nb)
    <2>1. o = Outcome(h, NULL, pages, Ended("null", FALSE)) BY <1>5 DEF FromSystem
    <2>2. gm' = h /\ pages' = pages /\ result' = Ended("null", FALSE) BY <1>2, <2>1 DEF Outcome
    <2>3. SystemPart(gm') = q BY <1>1, <2>2
    <2>4. SameMemory BY <1>2, <2>2 DEF SameMemory
    <2> QED BY <1>4, <1>5, <2>2, <2>3, <2>4, SysRejects
  <1>6. CASE ~Oversized(nb)
    <2>1. PICK e : e = Acquire(h, nb, g) OBVIOUS
    <2>2. e = Acquire(q, nb, g) BY <1>1, <2>1, AcquireReads
    <2>3. CASE e.tbase = CMFAIL
      <3>1. PICK r : r = Ended(IF e.trap THEN "trap" ELSE "null", e.refused) OBVIOUS
      <3>2. PICK k, c : k = [h EXCEPT !.contiguous = c] /\ c = e.contiguous OBVIOUS
      <3>3. o = Outcome(k, NULL, e.newPages, r)
        BY <1>6, <2>1, <2>3, <3>1, <3>2 DEF FromSystem
      <3>4. gm' = k /\ pages' = e.newPages /\ result' = r BY <1>2, <3>3 DEF Outcome
      <3>5. Below(h, k, [SystemPart(h) EXCEPT !.contiguous = c]) BY <1>1, <3>2, FlagBelow
      <3>6. SystemPart(k) = [q EXCEPT !.contiguous = c] BY <1>1, <3>5 DEF Below
      <3>7. SystemPart(gm') = [q EXCEPT !.contiguous = e.contiguous] BY <3>2, <3>4, <3>6
      <3>8. result' = Ended(IF e.trap THEN "trap" ELSE "null", e.refused) BY <3>1, <3>4
      <3> QED BY <1>2, <1>4, <1>6, <2>2, <2>3, <3>4, <3>7, <3>8, SysGetsNothing
    <2>4. CASE e.tbase # CMFAIL
      <3>1. PICK x, pg : x = Extend(h, e) /\ pg = e.newPages OBVIOUS
      <3>2. HeapInv(q, pages, foreign) BY <1>1 DEF HeapOK
      <3>3. ExtensionOK(e)
        <4>1. pages \in Nat /\ pages <= MaxPages BY MemoryAssumption DEF MemoryInv
        <4> QED BY <1>3, <1>4, <1>6, <2>2, <3>2, <4>1, AcquireFacts
      <3>4. Extends(h, x, A, pg) BY <2>4, <3>1, <3>3, ExtendSustains
      <3>5. HeapOK(x, A, pg) /\ Initialized(x) BY <3>4 DEF Extends, Sustains
      <3>6. PICK F, S : F = FakeAt(x) /\ S = FirstChunks(x) OBVIOUS
      <3>7. Whole(x, F, S, A) BY <3>5, <3>6 DEF HeapOK
      <3>8. x.topsize \in Int BY <3>6, <3>7, SizesBelow
      <3>9. IF NeedsSystem(x, nb) THEN gm' = x /\ result' = Ended("null", e.refused)
            ELSE gm' = SplitTop(x, nb).h /\ result' = Ended("mem", e.refused)
        <4>1. CASE NeedsSystem(x, nb)
          <5>1. o = Outcome(x, NULL, e.newPages, Ended("null", e.refused))
            BY <1>6, <2>1, <2>4, <3>1, <4>1 DEF FromSystem
          <5> QED BY <1>2, <4>1, <5>1 DEF Outcome
        <4>2. CASE ~NeedsSystem(x, nb)
          <5>1. o = Outcome(SplitTop(x, nb).h, x.top, e.newPages, Ended("mem", e.refused))
            BY <1>6, <2>1, <2>4, <3>1, <4>2 DEF FromSystem
          <5> QED BY <1>2, <4>2, <5>1 DEF Outcome
        <4> QED BY <4>1, <4>2
      <3>10. pages' = e.newPages
        <4>1. o.pages = e.newPages BY <1>6, <2>1, <2>4 DEF FromSystem, Outcome
        <4> QED BY <1>2, <4>1
      <3> QED BY <1>2, <1>3, <1>4, <1>6, <2>2, <2>4, <3>1, <3>8, <3>9, <3>10, ExtendedSys
    <2> QED BY <2>3, <2>4
  <1> QED BY <1>5, <1>6

(* The sizes malloc's callers ask for.                                     *)
Asked(nb) == nb = MaxSizeT \/ (Proper(nb) /\ nb <= MaxSizeT - 15)

(* A request below the limit is far from the wrap.                         *)
LEMMA RequestAsked ==
    ASSUME NEW w \in Nat, w < MaxRequest, NEW nb, nb = Request2Size(w)
    PROVE  Asked(nb)
  <1>1. AddrWords \in Nat /\ AddrWords % 4 = 0 /\ AddrWords >= 32
    BY AddrWordsFacts, PageAssumption
  <1>2. MaxRequest = AddrWords - 16 /\ MaxSizeT - 15 = AddrWords - 16
    BY <1>1 DEF MaxRequest, MinChunkSize, MaxSizeT
  <1>3. Proper(nb) BY RequestProper
  <1>4. CASE w < 3
    <2>1. nb = 4 BY <1>4 DEF Request2Size, MinRequest, MinChunkSize, ChunkOverhead
    <2>2. nb <= MaxSizeT - 15 BY <1>1, <1>2, <2>1
    <2> QED BY <1>3, <2>2 DEF Asked
  <1>5. CASE w >= 3
    <2>1. nb = ((w + 4) \div 4) * 4
      BY <1>5 DEF Request2Size, MinRequest, MinChunkSize, ChunkOverhead, PadRequest,
                  MallocAlignment
    <2>2. nb \in Nat /\ nb <= w + 4 /\ nb % 4 = 0 BY <2>1, SMT
    <2>3. nb < AddrWords - 12 BY <1>1, <1>2, <2>2
    <2>4. nb <= AddrWords - 16 BY <1>1, <2>2, <2>3, SMT
    <2> QED BY <1>2, <1>3, <2>4 DEF Asked
  <1> QED BY <1>4, <1>5

(* So is every request, or it is the one that always fails.                *)
LEMMA AnyRequestAsked ==
    ASSUME NEW w \in Nat, NEW nb, nb = ChunkSizeFor(w)
    PROVE  Asked(nb)
  <1>1. CASE nb = MaxSizeT BY <1>1 DEF Asked
  <1>2. CASE nb # MaxSizeT
    <2>1. w < MaxRequest /\ nb = Request2Size(w) BY <1>2, RequestAnySize
    <2> QED BY <2>1, RequestAsked
  <1> QED BY <1>1, <1>2

(* A call of malloc is a step of the system layer, or none.                *)
LEMMA MallocSys ==
    ASSUME MemoryInv, NEW A, HeapOK(gm, A, pages), NEW nb, Asked(nb),
           NEW o \in MallocOutcomes(nb), Leave(o)
    PROVE  SysStep
  <1>1. PICK h : h = InitAllocator(gm) OBVIOUS
  <1>2. PICK q : q = TryInitAllocator(SystemPart(gm)) OBVIOUS
  <1>3. AnySize(nb) /\ nb \in Sys!ChunkSizes BY SysSizes DEF Asked, AnySize
  <1>4. State(gm) BY DEF HeapOK, Whole, Loose, Blank, Tagged
  <1>5. Over(h, q)
    <2>1. Over(InitAllocator(gm), TryInitAllocator(SystemPart(gm))) BY <1>4, InitOver
    <2> QED BY <1>1, <1>2, <2>1
  <1>6. HeapOK(h, A, pages) BY <1>1, InitSustains DEF Sustains
  <1>7. PICK a : a = FromHeap(h, nb) OBVIOUS
  <1>8. CASE a.p # NULL
    <2>1. PICK r : r = IF a.p = h.top THEN Ended("mem", FALSE) ELSE result OBVIOUS
    <2>2. o = Outcome(a.h, a.p, pages, r) BY <1>1, <1>7, <1>8, <2>1 DEF MallocOutcomes
    <2>3. o.h = a.h /\ o.p = a.p /\ o.pages = pages /\ o.result = r BY <2>2 DEF Outcome
    <2>4. Initialized(h)
      <3> SUFFICES ASSUME ~Initialized(h) PROVE FALSE OBVIOUS
      <3>1. Blank(h, A) /\ HeapInv(SystemPart(h), pages, foreign) BY <1>6 DEF HeapOK
      <3>2. ~Initialized(SystemPart(h)) /\ SystemPart(h).topsize = h.topsize
        BY SystemReads, SystemFields
      <3>3. h.topsize = 0 BY <3>1, <3>2 DEF HeapInv, Accounting
      <3> QED BY <1>3, <1>7, <1>8, <3>1, <3>3, BlankFinds
    <2>5. PICK F, S : F = FakeAt(h) /\ S = FirstChunks(h) OBVIOUS
    <2>6. Whole(h, F, S, A) BY <1>6, <2>4, <2>5 DEF HeapOK
    <2>7. Found(h, a, F, S, A, nb) BY <1>3, <1>7, <2>5, <2>6, HeapFound
    <2>8. PICK z, p : z = a.h /\ p = a.p OBVIOUS
    <2>9. Gave(h, z, F, S, A, p, nb) BY <1>8, <2>7, <2>8 DEF Found
    <2>10. gm' = z /\ SameMemory /\ result' = IF p = h.top THEN Ended("mem", FALSE) ELSE result
      BY <2>1, <2>3, <2>8 DEF Leave, SameMemory
    <2>11. Initialized(gm) \/ \A x \in DOMAIN h.tag : x = h.top \/ x = F
      <3>1. CASE Initialized(gm) BY <3>1
      <3>2. CASE ~Initialized(gm)
        <4>1. DOMAIN gm.tag = {} BY <3>2 DEF HeapOK, Blank
        <4> QED BY <1>1, <1>4, <2>4, <2>5, <3>2, <4>1, FirstHeaders
      <3> QED BY <3>1, <3>2
    <2> QED BY <1>2, <1>3, <1>5, <2>5, <2>9, <2>10, <2>11, FoundSys
  <1>9. CASE a.p = NULL
    <2>1. NeedsSystem(h, nb)
      <3>1. CASE Initialized(h)
        <4>1. PICK F, S : F = FakeAt(h) /\ S = FirstChunks(h) OBVIOUS
        <4>2. Whole(h, F, S, A) BY <1>6, <3>1, <4>1 DEF HeapOK
        <4>3. Found(h, a, F, S, A, nb) BY <1>3, <1>7, <4>1, <4>2, HeapFound
        <4> QED BY <1>9, <4>3 DEF Found
      <3>2. CASE ~Initialized(h)
        <4>1. Blank(h, A) /\ HeapInv(SystemPart(h), pages, foreign) BY <1>6, <3>2 DEF HeapOK
        <4>2. ~Initialized(SystemPart(h)) /\ SystemPart(h).topsize = h.topsize
          BY <3>2, SystemReads, SystemFields
        <4>3. h.topsize = 0 BY <4>1, <4>2 DEF HeapInv, Accounting
        <4> QED BY <1>3, <4>1, <4>3, BlankFinds
      <3> QED BY <3>1, <3>2
    <2>2. PICK g \in Grants : o = FromSystem(h, nb, g)
      BY <1>1, <1>7, <1>9 DEF MallocOutcomes
    <2> QED BY <1>2, <1>3, <1>5, <1>6, <2>1, <2>2, SystemSys
  <1> QED BY <1>8, <1>9

(* malloc and calloc.                                                      *)
LEMMA ObtainSys ==
    ASSUME HeapIInv, NEW w \in Nat, NEW nb, Obtain(w, nb)
    PROVE  SysStep
  <1>1. call = NoCall BY DEF Obtain
  <1>2. PICK c : c = ChunkSizeFor(w) OBVIOUS
  <1>3. PICK o \in MallocOutcomes(c) : Leave(o) BY <1>2 DEF Obtain
  <1>4. PICK A : A = DOMAIN live OBVIOUS
  <1>5. Idle(A) BY <1>1, <1>4, IdleFacts
  <1>6. MemoryInv /\ HeapOK(gm, A, pages) BY <1>5 DEF Idle
  <1>7. Asked(c) BY <1>2, AnyRequestAsked
  <1> QED BY <1>3, <1>6, <1>7, MallocSys

(* realloc that needs another chunk.                                       *)
LEMMA MoveSys ==
    ASSUME HeapIInv, NEW p, NEW nb, Asked(nb), ReallocMove(p, nb)
    PROVE  SysStep
  <1>1. call = NoCall BY DEF ReallocMove
  <1>2. PICK o \in MallocOutcomes(nb) : Leave(o) BY DEF ReallocMove
  <1>3. PICK A : A = DOMAIN live OBVIOUS
  <1>4. Idle(A) BY <1>1, <1>3, IdleFacts
  <1>5. MemoryInv /\ HeapOK(gm, A, pages) BY <1>4 DEF Idle
  <1> QED BY <1>2, <1>5, MallocSys

(* aligned_alloc's first step.                                             *)
LEMMA MemalignSys ==
    ASSUME HeapIInv, NEW a \in 1 .. MaxSizeT, NEW w \in 0 .. MaxSizeT, Memalign(a, w)
    PROVE  SysStep
  <1>1. PICK al, nb : al = RoundedAlignment(a) /\ nb = Request2Size(w) OBVIOUS
  <1>2. PICK req : req = nb + al + MinChunkSize - ChunkOverhead OBVIOUS
  <1>3. PICK c : c = ChunkSizeFor(req) OBVIOUS
  <1>4. a \in Nat /\ w \in Nat /\ MaxRequest \in Int /\ AddrWords \in Nat
    BY AddrWordsFacts DEF MaxSizeT, MaxRequest, MinChunkSize
  <1>5. /\ call = NoCall /\ a > MallocAlignment /\ w < MaxRequest - al
        /\ \E o \in MallocOutcomes(c) : Leave(o)
    BY <1>1, <1>2, <1>3 DEF Memalign
  <1>6. al \in Nat /\ al > 4 /\ al % 4 = 0 BY <1>1, <1>4, <1>5, AlignmentFacts
  <1>7. w < MaxRequest BY <1>4, <1>5, <1>6
  <1>8. Proper(nb) BY <1>1, <1>4, <1>7, RequestProper
  <1>9. nb \in Nat BY <1>8 DEF Proper
  <1>10. req \in Nat BY <1>2, <1>6, <1>9 DEF MinChunkSize, ChunkOverhead
  <1>11. Asked(c) BY <1>3, <1>10, AnyRequestAsked
  <1>12. PICK A : A = DOMAIN live OBVIOUS
  <1>13. Idle(A) BY <1>5, <1>12, IdleFacts
  <1>14. MemoryInv /\ HeapOK(gm, A, pages) BY <1>13 DEF Idle
  <1>15. PICK o \in MallocOutcomes(c) : Leave(o) BY <1>5
  <1> QED BY <1>11, <1>14, <1>15, MallocSys

(* realloc, whichever way it goes.                                         *)
LEMMA ReallocSys ==
    ASSUME HeapIInv, NEW p \in DOMAIN live, NEW w \in 0 .. MaxSizeT, Realloc(p, w)
    PROVE  SysStep
  <1>1. PICK A, F, S : A = DOMAIN live /\ F = FakeAt(gm) /\ S = FirstChunks(gm) OBVIOUS
  <1>2. PICK nb : nb = Request2Size(w) OBVIOUS
  <1>3. w < MaxRequest /\ w \in Nat BY AddrWordsFacts DEF Realloc, MaxSizeT
  <1>4. Proper(nb) BY <1>2, <1>3, RequestProper
  <1>5. \/ ReallocShrink(p, nb) \/ ReallocIntoTop(p, nb) \/ ReallocIntoDv(p, nb)
        \/ ReallocIntoNext(p, nb) \/ ReallocMove(p, nb)
    BY <1>2 DEF Realloc
  <1>6. call = NoCall
    BY <1>5 DEF ReallocShrink, ReallocIntoTop, ReallocIntoDv, ReallocIntoNext, ReallocMove, StaysPut
  <1>7. Idle(A) BY <1>1, <1>6, IdleFacts
  <1>8. HeapOK(gm, A, pages) /\ p \in A /\ A # {} BY <1>1, <1>7 DEF Idle
  <1>9. Standing(A, F, S) BY <1>1, <1>8, Stands
  <1>10. PICK h : h = gm OBVIOUS
  <1>11. PICK s : s = h.tag[p].size OBVIOUS
  <1>12. PICK e : e = p + s OBVIOUS
  <1>13. Whole(h, F, S, A) /\ F = FakeAt(h) BY <1>9, <1>10 DEF Standing
  <1>14. s \in Nat BY <1>8, <1>11, <1>13, OwnedFacts
  <1>15. nb \in Nat /\ nb > 0 /\ nb % 4 = 0 BY <1>4 DEF Proper
  <1>16. Resizing(A, F, S, h, p, s, e, nb)
    BY <1>1, <1>4, <1>7, <1>8, <1>9, <1>10, <1>11, <1>12, <1>13, <1>14, <1>15, Zenon DEF Resizing
  <1>17. CASE ReallocShrink(p, nb) BY <1>16, <1>17, ShrinkSys
  <1>18. CASE ReallocIntoTop(p, nb) BY <1>16, <1>18, TopSys
  <1>19. CASE ReallocIntoDv(p, nb) BY <1>16, <1>19, DvSys
  <1>20. CASE ReallocIntoNext(p, nb) BY <1>16, <1>20, NextSys
  <1>21. CASE ReallocMove(p, nb)
    <2>1. Asked(nb) BY <1>2, <1>3, RequestAsked
    <2> QED BY <1>21, <2>1, MoveSys
  <1> QED BY <1>5, <1>17, <1>18, <1>19, <1>20, <1>21

(* Every step of the heap is a step of the system layer, or none.          *)
LEMMA EverySysStep ==
    ASSUME HeapIInv, [Next]_vars
    PROVE  SysStep
  <1>1. CASE UNCHANGED vars BY <1>1 DEF vars, SysStep
  <1>2. ASSUME NEW w \in Requests, Malloc(w) PROVE SysStep
    <2>1. w \in Nat BY <1>2, ChunkAssumption, AddrWordsFacts DEF MaxSizeT
    <2>2. Obtain(w, ChunkSizeFor(w)) BY <1>2 DEF Malloc
    <2>3. PICK nb : nb = ChunkSizeFor(w) OBVIOUS
    <2>4. Obtain(w, nb) BY <2>2, <2>3
    <2> QED BY <2>1, <2>4, ObtainSys
  <1>3. ASSUME NEW w \in Requests, NEW p \in DOMAIN live, Realloc(p, w) PROVE SysStep
    <2>1. w \in 0 .. MaxSizeT BY <1>3, ChunkAssumption
    <2> QED BY <1>3, <2>1, ReallocSys
  <1>4. ASSUME NEW w \in Requests, NEW a \in Alignments, Memalign(a, w) PROVE SysStep
    <2>1. w \in 0 .. MaxSizeT /\ a \in 1 .. MaxSizeT BY <1>4, ChunkAssumption
    <2> QED BY <1>4, <2>1, MemalignSys
  <1>5. ASSUME NEW x \in Arrays, Calloc(x[1], x[2]) PROVE SysStep
    <2>1. PICK k, e : k = x[1] /\ e = x[2] OBVIOUS
    <2>2. k \in 0 .. MaxSizeT /\ e \in 0 .. MaxSizeT BY <1>5, <2>1, ChunkAssumption
    <2>3. PICK r, nb : r = CallocRequest(k, e) /\ nb = Request2Size(k * e) OBVIOUS
    <2>4. Obtain(r, nb) BY <1>5, <2>1, <2>3 DEF Calloc
    <2>5. r \in Nat BY <2>2, <2>3, CallocAsks
    <2> QED BY <2>4, <2>5, ObtainSys
  <1>6. ASSUME NEW p \in DOMAIN live, Free(p) PROVE SysStep BY <1>6, FreeSys
  <1>7. CASE ReallocFree BY <1>7, ReallocFreeSys
  <1>8. CASE MemalignTrim BY <1>8, MemalignTrimSys
  <1>9. ASSUME NEW n \in 1 .. MaxPages, Host(n) PROVE SysStep BY <1>9, SysHost
  <1> QED BY <1>1, <1>2, <1>3, <1>4, <1>5, <1>6, <1>7, <1>8, <1>9 DEF Next

(* Every behaviour of the heap is one of the system layer: the chunk layer *)
(* takes top, grows the memory and gives back to top only as SysAlloc may. *)
THEOREM HeapRefinesSysAlloc == Spec => RefinesSysAlloc
  <1>1. HeapIInv /\ [Next]_vars => [Sys!Next]_(Sys!vars)
    BY EverySysStep DEF SysStep, Sys!vars
  <1> QED BY <1>1, HeapInvariant, SysInit, PTL DEF Spec, RefinesSysAlloc, Sys!Spec
============================================================================
