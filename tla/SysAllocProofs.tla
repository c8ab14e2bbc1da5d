--------------------------- MODULE SysAllocProofs ---------------------------
(***************************************************************************)
(* Proofs about SysAlloc for every page size, memory limit, heap base and  *)
(* set of requests.                                                        *)
(***************************************************************************)
EXTENDS SysAlloc, SystemLayerProofs

ResultType == result \in [kind : {"none", "mem", "null", "trap"}, refused : BOOLEAN]

IInv == MemoryInv /\ HeapInv(m, pages, foreign) /\ ResultType

-----------------------------------------------------------------------------
(* The steps.                                                              *)

(* Chunk sizes are aligned, or the largest size_t.                         *)
LEMMA ChunkFacts ==
    ASSUME NEW nb \in ChunkSizes
    PROVE  nb \in 0 .. MaxSizeT /\ nb \in Nat /\ (nb % 4 = 0 \/ nb = MaxSizeT)
  <1>1. PICK w \in 0 .. MaxSizeT : nb = ChunkSizeFor(w)
    BY RequestAssumption DEF ChunkSizes
  <1>2. MaxSizeT \in Nat /\ MaxSizeT = AddrWords - 1 /\ AddrWords >= 64
    BY AddrWordsFacts, PageAssumption DEF MaxSizeT
  <1>3. CASE w >= MaxRequest
    <2>1. nb = MaxSizeT BY <1>1, <1>3 DEF ChunkSizeFor
    <2> QED BY <2>1, <1>2
  <1>4. CASE ~(w >= MaxRequest)
    <2>1. w \in Nat /\ w < AddrWords - 16
      <3>1. MaxRequest = AddrWords - 16 BY Layout, AddrWordsFacts DEF MaxRequest
      <3> QED BY <1>1, <1>2, <1>4, <3>1
    <2>2. nb = IF w < 3 THEN 4 ELSE ((w + 4) \div 4) * 4
      <3>1. nb = IF w < MinRequest THEN MinChunkSize ELSE PadRequest(w)
        BY <1>1, <1>4 DEF ChunkSizeFor, Request2Size
      <3>2. PadRequest(w) = ((w + 1 + 4 - 1) \div 4) * 4
        BY Layout DEF PadRequest, ChunkOverhead
      <3>3. w + 1 + 4 - 1 = w + 4 BY <2>1
      <3>4. MinRequest = 3 BY Layout DEF MinRequest, ChunkOverhead
      <3> QED BY <3>1, <3>2, <3>3, <3>4, Layout
    <2>3. nb \in Nat /\ nb % 4 = 0 /\ nb <= w + 4
      <3>1. CASE w < 3 BY <2>1, <2>2, <3>1
      <3>2. CASE ~(w < 3)
        <4> DEFINE q == (w + 4) \div 4
        <4>1. q \in Nat /\ q * 4 <= w + 4 BY <2>1, SMT
        <4>2. nb = q * 4 BY <2>2, <3>2
        <4> HIDE DEF q
        <4> QED BY <4>1, <4>2, SMT
      <3> QED BY <3>1, <3>2
    <2>4. nb <= MaxSizeT BY <1>2, <2>1, <2>3, AddrWordsFacts
    <2> QED BY <1>2, <2>3, <2>4
  <1> QED BY <1>3, <1>4

(* Cutting a chunk off top, or leaving it.                                 *)
LEMMA ServeKeeps ==
    ASSUME NEW h, NEW pg \in Nat, pg <= MaxPages, NEW fr, HeapInv(h, pg, fr), Initialized(h),
           NEW nb \in ChunkSizes, NEW r \in BOOLEAN, ServeFromTop(h, nb, r)
    PROVE  HeapInv(m', pg, fr) /\ ResultType'
  <1>1. ResultType' BY DEF ServeFromTop, Finish, ResultType
  <1>2. CASE ~(nb < h.topsize) BY <1>1, <1>2 DEF ServeFromTop
  <1>3. CASE nb < h.topsize
    <2>1. m' = CutTop(h, nb) BY <1>3 DEF ServeFromTop
    <2>2. h.topsize \in Nat /\ h.topsize < MaxSizeT
      <3>1. HeapType(h) /\ TopShape(h) /\ NewestSegment(h, pg) BY DEF HeapInv
      <3>2. /\ h.topsize \in Nat /\ h.top \in Nat /\ h.seg.base \in Nat /\ h.seg.size \in Nat
            /\ h.top + h.topsize + 14 = h.seg.base + h.seg.size
            /\ h.seg.base + h.seg.size <= pg * PageWords
        BY <3>1, AddrWordsFacts DEF HeapType, SegmentRecord, TopShape, NewestSegment, Limit
      <3>3. pg * PageWords \in Nat /\ pg * PageWords <= AddrWords BY MemoryEnd
      <3> QED BY <3>2, <3>3, AddrWordsFacts DEF MaxSizeT
    <2>3. nb \in Nat /\ nb % 4 = 0 BY <1>3, <2>2, ChunkFacts
    <2> QED BY <1>1, <1>3, <2>1, <2>3, CutKeeps
  <1> QED BY <1>2, <1>3

(* Freed chunks next to top move it down, within the newest segment.       *)
LEMMA GiveKeeps ==
    ASSUME IInv, NEW n \in 1 .. AddrWords, n % MallocAlignment = 0, GiveToTop(n)
    PROVE  IInv'
  <1> DEFINE t  == m.top - n
             ts == m.topsize + n
  <1>1. /\ Initialized(m) /\ HeapType(m) /\ NewestSegment(m, pages) /\ TopShape(m)
        /\ HeapInv(m, pages, foreign) /\ MemoryInv
    BY DEF IInv, HeapInv, GiveToTop
  <1>2. /\ n \in Nat /\ n >= 4 /\ n % 4 = 0 /\ m.top - n >= NewTop(m.seg.base)
        /\ m' = [m EXCEPT !.top = t, !.topsize = ts]
        /\ pages' = pages /\ foreign' = foreign
    BY Layout, AddrWordsFacts DEF GiveToTop, memoryVars
  <1>3. /\ m.seg.base \in Nat /\ m.top \in Nat /\ m.topsize \in Nat /\ m.seg.base % 4 = 0
        /\ m.top % 4 = 2 /\ m.topsize >= 4 /\ m.topsize % 4 = 0
    BY <1>1, AddrWordsFacts DEF HeapType, SegmentRecord, NewestSegment, TopShape
  <1>4. NewTop(m.seg.base) = m.seg.base + 2 BY <1>3, Layout
  <1>5. /\ t \in Nat /\ ts \in Nat /\ t + ts = m.top + m.topsize /\ t >= m.seg.base + 2
        /\ ts >= 4
    BY <1>2, <1>3, <1>4
  <1>6. t % 4 = 2 /\ ts % 4 = 0 BY <1>2, <1>3, <1>5, SMT
  <1>7. pages \in Nat /\ pages <= MaxPages BY <1>1, MemoryAssumption DEF MemoryInv
  <1> HIDE DEF t, ts
  <1>8. HeapInv(m', pages, foreign) BY <1>1, <1>2, <1>5, <1>6, <1>7, TopMoves
  <1>9. MemoryInv' /\ HeapInv(m', pages', foreign') BY <1>1, <1>2, <1>8 DEF MemoryInv
  <1>10. ResultType' BY DEF GiveToTop, Finish, ResultType
  <1> QED BY <1>9, <1>10 DEF IInv

(* Pages that someone else grows.                                          *)
LEMMA HostKeeps ==
    ASSUME IInv, NEW n \in 1 .. MaxPages, Host(n)
    PROVE  IInv'
  <1>1. ForeignGrow(n) /\ m' = m BY DEF Host
  <1>2. MemoryInv /\ HeapInv(m, pages, foreign) BY DEF IInv
  <1>3. MemoryInv' /\ HeapInv(m, pages', foreign') BY <1>1, <1>2, HostGrowth
  <1>4. ResultType' BY DEF Host, Finish, ResultType
  <1> QED BY <1>1, <1>3, <1>4 DEF IInv

(* sys_alloc, whatever it obtains.                                         *)
LEMMA SysAllocKeeps ==
    ASSUME IInv, NEW nb \in ChunkSizes, SysAlloc(nb)
    PROVE  IInv'
  <1> DEFINE h == TryInitAllocator(m)
  <1>1. MemoryInv /\ HeapInv(h, pages, foreign) BY TryInitKeeps DEF IInv
  <1>2. nb \in 0 .. MaxSizeT BY ChunkFacts
  <1>3. pages \in Nat /\ pages <= MaxPages /\ MaxPages \in Nat
        /\ InitialPages \in Nat /\ InitialPages <= pages
    BY <1>1, MemoryAssumption DEF MemoryInv
  <1>4. CASE RejectOversized(nb)
    <2>1. m' = h /\ pages' = pages /\ foreign' = foreign /\ ResultType'
      BY <1>4 DEF RejectOversized, Finish, ResultType, memoryVars
    <2> HIDE DEF h
    <2>2. MemoryInv' /\ HeapInv(m', pages', foreign') BY <1>1, <2>1 DEF MemoryInv
    <2> QED BY <2>1, <2>2 DEF IInv
  <1>5. ASSUME NEW g \in Grants,
               AcquireNothing(nb, g) \/ AcquireAppend(nb, g) \/ AcquireSegment(nb, g)
        PROVE  IInv'
    <2> DEFINE e == Acquire(h, nb, g)
    <2>1. NeedsSystem(h, nb) /\ ~Oversized(nb) /\ pages' = e.newPages /\ foreign' = foreign
      BY <1>5 DEF AcquireNothing, AcquireAppend, AcquireSegment
    <2>2. ExtensionOK(e) BY <1>1, <1>2, <2>1, AcquireFacts
    <2>3. \/ /\ m' = [h EXCEPT !.contiguous = e.contiguous]
             /\ Finish(IF e.trap THEN "trap" ELSE "null", e.refused)
          \/ /\ e.tbase # CMFAIL /\ Initialized(h) /\ Appends(h, e)
             /\ ServeFromTop(AppendToSegment(h, e), nb, e.refused)
          \/ /\ e.tbase # CMFAIL /\ ~Appends(h, e)
             /\ ServeFromTop(AddSegment(h, e), nb, e.refused)
      BY <1>5 DEF AcquireNothing, AcquireAppend, AcquireSegment, Appends, Segments
    <2> HIDE DEF h, e
    <2>4. /\ pages' \in Nat /\ pages <= pages' /\ pages' <= MaxPages
          /\ e.newPages \in Nat /\ e.newPages <= MaxPages /\ pages <= e.newPages
          /\ e.contiguous \in BOOLEAN /\ e.refused \in BOOLEAN /\ e.trap \in BOOLEAN
      BY <1>3, <2>1, <2>2 DEF ExtensionOK
    <2>5. MemoryInv'
      BY <1>1, <1>3, <2>1, <2>4 DEF MemoryInv
    <2>6. HeapInv(m', e.newPages, foreign) /\ ResultType'
      <3>1. CASE /\ m' = [h EXCEPT !.contiguous = e.contiguous]
                 /\ Finish(IF e.trap THEN "trap" ELSE "null", e.refused)
        <4>1. ResultType' BY <2>4, <3>1 DEF Finish, ResultType
        <4>2. HeapInv([h EXCEPT !.contiguous = e.contiguous], e.newPages, foreign)
          BY <1>1, <1>3, <2>4, LargerMemoryKeeps
        <4> QED BY <3>1, <4>1, <4>2
      <3>2. CASE /\ e.tbase # CMFAIL /\ Initialized(h) /\ Appends(h, e)
                 /\ ServeFromTop(AppendToSegment(h, e), nb, e.refused)
        <4>1. /\ HeapInv(AppendToSegment(h, e), e.newPages, foreign)
              /\ Initialized(AppendToSegment(h, e))
          BY <1>1, <2>2, <3>2, AppendKeeps
        <4> QED BY <2>4, <3>2, <4>1, ServeKeeps
      <3>3. CASE /\ e.tbase # CMFAIL /\ ~Appends(h, e)
                 /\ ServeFromTop(AddSegment(h, e), nb, e.refused)
        <4>1. /\ HeapInv(AddSegment(h, e), e.newPages, foreign)
              /\ Initialized(AddSegment(h, e))
          BY <1>1, <2>2, <3>3, SegmentKeeps
        <4> QED BY <2>4, <3>3, <4>1, ServeKeeps
      <3> QED BY <2>3, <3>1, <3>2, <3>3
    <2> QED BY <2>1, <2>5, <2>6 DEF IInv
  <1> QED BY <1>4, <1>5 DEF SysAlloc

LEMMA TakeKeeps ==
    ASSUME IInv, NEW nb \in ChunkSizes, TakeFromTop(nb)
    PROVE  IInv'
  <1> DEFINE h == TryInitAllocator(m)
  <1>1. MemoryInv /\ HeapInv(h, pages, foreign) BY TryInitKeeps DEF IInv
  <1>2. nb < h.topsize /\ ServeFromTop(h, nb, FALSE) /\ pages' = pages /\ foreign' = foreign
    BY DEF TakeFromTop, memoryVars
  <1> HIDE DEF h
  <1>3. Initialized(h)
    <2>1. ~Initialized(h) => h.topsize = 0 BY <1>1 DEF HeapInv, Accounting
    <2> QED BY <1>2, <2>1, ChunkFacts
  <1>4. pages \in Nat /\ pages <= MaxPages BY <1>1, MemoryAssumption DEF MemoryInv
  <1>5. FALSE \in BOOLEAN OBVIOUS
  <1>6. HeapInv(m', pages, foreign) /\ ResultType' BY <1>1, <1>2, <1>3, <1>4, <1>5, ServeKeeps
  <1> QED BY <1>1, <1>2, <1>6 DEF IInv, MemoryInv

-----------------------------------------------------------------------------
(* The invariant and what it gives.                                        *)

LEMMA Initially == Init => IInv
  <1> SUFFICES ASSUME Init PROVE IInv OBVIOUS
  <1>1. MemoryInv BY MemoryAssumption DEF Init, MemoryInit, MemoryInv
  <1>2. ResultType BY DEF Init, ResultType
  <1>3. /\ m = [seg |-> [base |-> 0, size |-> 0], older |-> {}, top |-> 0, topsize |-> 0,
               contiguous |-> TRUE, footprint |-> 0, maxFootprint |-> 0, leastAddr |-> 0]
    BY DEF Init, NULL
  <1>4. HeapType(m)
    <2>1. 0 \in 0 .. AddrWords /\ 0 \in 0 .. AddrWords - 1 BY AddrWordsFacts, PageAssumption
    <2> QED BY <1>3, <2>1 DEF HeapType, SegmentRecord
  <1>5. ~Initialized(m) BY <1>3 DEF Initialized, NULL
  <1>6. Accounting(m, pages)
    <2>1. pages * PageWords \in Nat
      BY <1>1, MemoryAssumption, PageAssumption, SMT DEF MemoryInv
    <2> QED BY <1>3, <2>1 DEF Accounting
  <1> QED BY <1>1, <1>2, <1>4, <1>5, <1>6 DEF IInv, HeapInv

LEMMA Inductive == IInv /\ [Next]_vars => IInv'
  <1> SUFFICES ASSUME IInv, [Next]_vars PROVE IInv' OBVIOUS
  <1>1. ASSUME NEW nb \in ChunkSizes, TakeFromTop(nb) PROVE IInv' BY <1>1, TakeKeeps
  <1>2. ASSUME NEW nb \in ChunkSizes, SysAlloc(nb) PROVE IInv' BY <1>2, SysAllocKeeps
  <1>3. ASSUME NEW n \in 1 .. AddrWords, n % MallocAlignment = 0, GiveToTop(n) PROVE IInv'
    BY <1>3, GiveKeeps
  <1>4. ASSUME NEW n \in 1 .. MaxPages, Host(n) PROVE IInv' BY <1>4, HostKeeps
  <1>5. CASE UNCHANGED vars
    BY <1>5 DEF vars, IInv, MemoryInv, HeapInv, HeapType, Accounting, Initialized,
                NewestSegment, TopShape, OlderApart, ForeignApart, ResultType
  <1> QED BY <1>1, <1>2, <1>3, <1>4, <1>5 DEF Next

LEMMA Invariance == Spec => []IInv
  BY Initially, Inductive, PTL DEF Spec

(* Every address and size stays one: in particular footprint never exceeds *)
(* the memory, and no size computation of sys_alloc wraps unnoticed.       *)
THEOREM TypeCorrect == Spec => []TypeOK
  <1>1. IInv => TypeOK BY DEF IInv, MemoryInv, HeapInv, HeapType, ResultType, TypeOK
  <1> QED BY <1>1, Invariance, PTL

(* The heap lies between __heap_base and the break, the newest segment     *)
(* highest; the code that prepends to a segment is therefore unreachable.  *)
THEOREM HeapBelowBreak == Spec => []BelowBreak
  <1>1. IInv => BelowBreak
    <2> SUFFICES ASSUME IInv, NEW s \in Segments(m)
                 PROVE  /\ HeapBase <= s.base /\ Limit(s) <= pages * PageWords
                        /\ s # m.seg => Limit(s) < m.seg.base
      BY DEF BelowBreak
    <2>1. /\ Initialized(m) /\ s \in m.older \cup {m.seg}
          /\ NewestSegment(m, pages) /\ HeapType(m)
      BY DEF IInv, HeapInv, Segments
    <2>2. /\ s.base \in Nat /\ s.size \in Nat /\ m.seg.base \in Nat /\ m.seg.size \in Nat
      BY <2>1, AddrWordsFacts DEF HeapType, SegmentRecord
    <2>3. pages * PageWords \in Nat
      BY MemoryAssumption, PageAssumption, SMT DEF IInv, MemoryInv
    <2> QED BY <2>1, <2>2, <2>3 DEF NewestSegment, Limit
  <1> QED BY <1>1, Invariance, PTL

(* Segments never touch: contiguous memory is always merged.               *)
THEOREM SegmentsApart == Spec => []SegmentsNeverAbut
  <1>1. IInv => SegmentsNeverAbut
    BY DEF IInv, HeapInv, SegmentsNeverAbut, Segments, NewestSegment, OlderApart
  <1> QED BY <1>1, Invariance, PTL

(* No page that someone else grew is part of the heap, for every           *)
(* interleaving of foreign growth with the allocator's calls.              *)
THEOREM ForeignPagesSafe == Spec => []ForeignPagesUntouched
  <1>1. IInv => ForeignPagesUntouched
    BY DEF IInv, HeapInv, ForeignPagesUntouched, Segments, ForeignApart
  <1> QED BY <1>1, Invariance, PTL

(* What do_check_top_chunk asserts of top.                                 *)
THEOREM TopChunkChecked == Spec => []TopAtSegmentEnd
  <1>1. IInv => TopAtSegmentEnd
    <2> SUFFICES ASSUME IInv, Initialized(m)
                 PROVE  /\ m.top >= NewTop(m.seg.base) /\ AlignOffset(Chunk2Mem(m.top)) = 0
                        /\ m.topsize >= MinChunkSize /\ m.topsize % MallocAlignment = 0
                        /\ m.top + m.topsize + TopFootSize = Limit(m.seg)
      BY DEF TopAtSegmentEnd
    <2>1. NewestSegment(m, pages) /\ TopShape(m) /\ HeapType(m) BY DEF IInv, HeapInv
    <2>2. m.seg.base \in Nat /\ m.top \in Nat
      BY <2>1, AddrWordsFacts DEF HeapType, SegmentRecord
    <2>3. NewTop(m.seg.base) = m.seg.base + 2 BY <2>1, <2>2, Layout DEF NewestSegment
    <2>4. AlignOffset(Chunk2Mem(m.top)) = 0 BY <2>1, <2>2, Layout DEF TopShape
    <2> QED BY <2>1, <2>3, <2>4, Layout DEF TopShape
  <1> QED BY <1>1, Invariance, PTL

-----------------------------------------------------------------------------
(* What an extension is good for.                                          *)

(* An extension that was obtained is the whole of what the memory grew by, *)
(* and makes top large enough, unless top is huge; one that was not left   *)
(* the memory alone, and the engine refused to grow it or the request is   *)
(* huge.                                                                   *)
Enough(h, nb, e) ==
    \/ Appends(h, e) /\ nb < h.topsize + e.tsize
    \/ nb + SysAllocPadding <= e.tsize
    \/ NearHalf(h.topsize)

Serves(h, nb, e) ==
    IF e.tbase # CMFAIL
    THEN e.tbase + e.tsize = e.newPages * PageWords /\ Enough(h, nb, e)
    ELSE \/ e.trap
         \/ e.newPages = pages /\ (e.refused \/ NearHalf(nb + SysAllocPadding))

(* granularity_align adds less than a page.                                *)
LEMMA GranularityAdds ==
    ASSUME NEW n \in Nat, n >= 1, n + PageWords - 1 < AddrWords
    PROVE  GranularityAlign(n) \in Nat /\ GranularityAlign(n) < n + PageWords
  <1> DEFINE x == n + PageWords - 1
             k == x \div PageWords
  <1>1. x \in Nat /\ x >= PageWords BY PageAssumption
  <1>2. x % AddrWords = x BY <1>1, AddrWordsFacts, SMT
  <1>3. GranularityAlign(n) = k * PageWords BY <1>2, Zenon DEF GranularityAlign
  <1>4. k \in Nat /\ k * PageWords <= x BY <1>1, PageFloor
  <1>5. k * PageWords \in Nat BY <1>4, PageAssumption, SMT
  <1> HIDE DEF k
  <1> QED BY <1>3, <1>4, <1>5, PageAssumption

(* A size that the half-of-the-address-space checks turn away.             *)
LEMMA HalfIsNear ==
    ASSUME NEW n \in Nat, n >= 1, n + PageWords - 1 < AddrWords,
           GranularityAlign(n) >= HalfMaxSizeT
    PROVE  NearHalf(n)
  <1>1. GranularityAlign(n) \in Nat /\ GranularityAlign(n) < n + PageWords
    BY GranularityAdds
  <1> QED BY <1>1, AddrWordsFacts, PageAssumption DEF NearHalf

(* The end of a memory that does not fill the address space.               *)
LEMMA EndIsAddress ==
    ASSUME MaxPages < AddrPages, NEW pg \in Nat, pg <= MaxPages
    PROVE  /\ (pg * PageWords) % AddrWords = pg * PageWords
           /\ pg * PageWords \in Nat
  <1>1. pg * PageWords \in Nat /\ pg < AddrPages
    BY MemoryEnd, MemoryAssumption, AddrAssumption
  <1>2. pg * PageWords + PageWords <= AddrPages * PageWords /\ AddrPages * PageWords \in Nat
    BY <1>1, PagesMonotone, AddrAssumption
  <1>3. AddrWords = AddrPages * PageWords
    BY PageAssumption, AddrAssumption, SMT DEF AddrWords
  <1>4. pg * PageWords < AddrWords BY <1>1, <1>2, <1>3, PageAssumption
  <1> QED BY <1>1, <1>4, AddrWordsFacts, SMT

(* The noncontiguous branch measures what it got with sbrk(0): right as    *)
(* long as the end of the memory is an address.                            *)
LEMMA NoncontiguousServes ==
    ASSUME MaxPages < AddrPages, MemoryInv, NEW h,
           NEW nb \in 0 .. MaxSizeT, ~Oversized(nb), NEW g \in BOOLEAN,
           NEW e, ExtensionOK(e), ObtainedNothing(e)
    PROVE  Serves(h, nb, NoncontiguousMorecore(nb, e, g))
  <1> DEFINE asize == GranularityAlign(nb + SysAllocPadding)
             got   == Sbrk(pages, asize, g)
             end   == Sbrk(got.newPages, 0, TRUE).ret
             new   == Extension(got.ret, end - got.ret, got.newPages, e.contiguous, FALSE, e.refused)
             old   == Extension(CMFAIL, 0, got.newPages, e.contiguous, FALSE,
                                e.refused \/ got.ret = CMFAIL)
             N     == NoncontiguousMorecore(nb, e, g)
  <1> SUFFICES Serves(h, nb, N) OBVIOUS
  <1>1. pages \in Nat /\ pages <= MaxPages /\ MaxPages \in Nat
    BY MemoryAssumption DEF MemoryInv
  <1>2. PICK k \in Nat : k >= 1 /\ asize = k * PageWords /\ asize >= nb + SysAllocPadding
    <2>1. nb - 0 + SysAllocPadding = nb + SysAllocPadding /\ 0 \in 0 .. nb
      BY Layout, AddrWordsFacts DEF MaxSizeT
    <2> HIDE DEF asize
    <2> QED BY <2>1, RequestPages DEF asize
  <1>3. \/ got.ret = CMFAIL /\ got.newPages = pages
        \/ /\ got.ret = pages * PageWords /\ got.newPages = pages + k /\ pages + k <= MaxPages
           /\ got.ret # CMFAIL
    <2> HIDE DEF asize
    <2> QED BY <1>1, <1>2, SbrkGrow, ZenonT(60)
  <1>4. end = (got.newPages * PageWords) % AddrWords
    <2> HIDE DEF got
    <2> QED BY DEF Sbrk
  <1> DEFINE fits == got.ret # CMFAIL /\ got.ret < end /\ end - got.ret > nb + TopFootSize
             half == asize >= HalfMaxSizeT
  <1>0. N = IF half THEN e ELSE IF fits THEN new ELSE old
    BY DEF NoncontiguousMorecore, ObtainedNothing
  <1>5. \/ N = e /\ asize >= HalfMaxSizeT
        \/ N = old /\ ~(got.ret # CMFAIL /\ got.ret < end /\ end - got.ret > nb + TopFootSize)
        \/ N = new /\ got.ret # CMFAIL
    <2> HIDE DEF N, new, old, asize, got, end
    <2> QED BY <1>0
  <1>6. nb \in Nat /\ SysAllocPadding = 18 /\ TopFootSize = 14
    BY Layout, AddrWordsFacts DEF MaxSizeT
  <1>7. ASSUME asize >= HalfMaxSizeT PROVE NearHalf(nb + SysAllocPadding)
    <2> DEFINE n == nb + SysAllocPadding
    <2>1. n \in Nat /\ n >= 1 /\ n + PageWords - 1 < AddrWords BY <1>6, NoWrap
    <2>2. GranularityAlign(n) >= HalfMaxSizeT BY <1>7
    <2> HIDE DEF n
    <2>3. NearHalf(n) BY <2>1, <2>2, HalfIsNear
    <2> QED BY <2>3 DEF n
  <1> HIDE DEF N, got, end, asize
  <1>8. ASSUME got.ret # CMFAIL
        PROVE  /\ end - got.ret = asize /\ got.ret < end
               /\ got.ret + asize = got.newPages * PageWords /\ asize > nb + 14
    <2>1. /\ got.ret = pages * PageWords /\ got.newPages = pages + k /\ pages + k <= MaxPages
      BY <1>3, <1>8
    <2>2. /\ pages * PageWords \in Nat /\ k * PageWords \in Nat
          /\ pages * PageWords + k * PageWords = (pages + k) * PageWords
      BY <1>1, PageAssumption, SMT
    <2>3. end = (pages + k) * PageWords
      <3>1. pages + k \in Nat BY <1>1
      <3> QED BY <1>4, <2>1, <3>1, EndIsAddress
    <2> QED BY <1>2, <1>6, <2>1, <2>2, <2>3
  <1>9. CASE N = e /\ asize >= HalfMaxSizeT
    BY <1>7, <1>9 DEF ObtainedNothing, Serves
  <1>10. CASE N = old /\ ~(got.ret # CMFAIL /\ got.ret < end /\ end - got.ret > nb + TopFootSize)
    <2>1. got.ret = CMFAIL /\ got.newPages = pages BY <1>3, <1>6, <1>8, <1>10
    <2>2. N.tbase = CMFAIL /\ N.newPages = pages /\ N.refused = TRUE
      BY <1>10, <2>1 DEF Extension
    <2> QED BY <2>2 DEF Serves
  <1>11. CASE N = new /\ got.ret # CMFAIL
    <2>1. N.tbase = got.ret /\ N.tsize = asize /\ N.newPages = got.newPages
      BY <1>8, <1>11 DEF Extension
    <2> QED BY <1>2, <1>8, <1>11, <2>1 DEF Serves, Enough
  <1> QED BY <1>5, <1>9, <1>10, <1>11

(* What a granted growth adds to the memory.                               *)
LEMMA SbrkGets ==
    ASSUME NEW pg \in Nat, pg <= MaxPages, NEW k \in Nat, k >= 1,
           NEW inc, inc = k * PageWords, NEW g \in BOOLEAN
    PROVE  \/ Sbrk(pg, inc, g).ret = CMFAIL
           \/ Sbrk(pg, inc, g).newPages = pg + k /\ pg + k <= MaxPages
  BY SbrkGrow, Zenon

(* A partial failure that is not the last word.                            *)
LEMMA CopeServes ==
    ASSUME MemoryInv, NEW h, NEW nb \in 0 .. MaxSizeT, ~Oversized(nb), NEW g \in BOOLEAN,
           NEW k \in Nat, k >= 1, pages + k <= MaxPages,
           NEW ssize, ssize = k * PageWords, pages * PageWords # CMFAIL,
           h.topsize \in Nat, ssize >= nb - h.topsize + SysAllocPadding
    PROVE  Serves(h, nb, CopeWithPartialFailure(nb, pages * PageWords, ssize, pages + k, g))
  <1> DEFINE br    == pages * PageWords
             pg    == pages + k
             esize == GranularityAlign(nb + SysAllocPadding - ssize)
             more  == Sbrk(pg, esize, g)
             back  == Sbrk(pg, -ssize, FALSE)
             all   == Extension(br, ssize + esize, more.newPages, TRUE, FALSE, FALSE)
             part  == Extension(br, ssize, pg, TRUE, FALSE, FALSE)
             trap  == Extension(CMFAIL, 0, back.newPages, back.trap, back.trap, TRUE)
             e     == CopeWithPartialFailure(nb, br, ssize, pg, g)
  <1> SUFFICES Serves(h, nb, e) OBVIOUS
  <1>1. pages \in Nat /\ pages <= MaxPages /\ MaxPages \in Nat /\ pg \in Nat /\ pg <= MaxPages
        /\ nb \in Nat /\ SysAllocPadding = 18
    BY MemoryAssumption, Layout, AddrWordsFacts DEF MemoryInv, MaxSizeT
  <1>2. ssize \in Nat /\ ssize >= PageWords
    <2>1. 0 * PageWords = 0 BY PageAssumption, SMT
    <2>2. /\ (0 + 1) * PageWords <= k * PageWords
          /\ (0 + 1) * PageWords = 0 * PageWords + PageWords /\ k * PageWords \in Nat
      BY PagesMonotone
    <2> QED BY <2>1, <2>2, PageAssumption
  <1>3. \/ e = part /\ ~(ssize < nb + SysAllocPadding /\ esize < HalfMaxSizeT)
        \/ e = all /\ ssize < nb + SysAllocPadding /\ more.ret # CMFAIL
        \/ e = trap
    BY DEF CopeWithPartialFailure
  <1> HIDE DEF e
  <1>4. br + ssize = pg * PageWords /\ br \in Nat
    BY <1>1, PageAssumption, SMT
  <1>5. ASSUME ssize < nb + SysAllocPadding
        PROVE  /\ \E j \in Nat : j >= 1 /\ esize = j * PageWords
               /\ esize \in Nat /\ esize >= nb + SysAllocPadding - ssize
               /\ esize >= HalfMaxSizeT => NearHalf(h.topsize)
    <2> DEFINE n == nb + SysAllocPadding - ssize
    <2>1. nb + 18 + PageWords - 1 < AddrWords BY NoWrap, <1>1
    <2>2. n \in Nat /\ n >= 1 /\ n + PageWords - 1 < AddrWords /\ n <= h.topsize
      BY <1>1, <1>2, <1>5, <2>1, AddrWordsFacts, PageAssumption
    <2> HIDE DEF n
    <2>3. /\ \E j \in Nat : j >= 1 /\ GranularityAlign(n) = j * PageWords /\ GranularityAlign(n) >= n
          /\ GranularityAlign(n) \in Nat
      BY <2>2, GranularityFacts, GranularityAdds
    <2>4. GranularityAlign(n) >= HalfMaxSizeT => NearHalf(h.topsize)
      <3>1. NearHalf(n) => NearHalf(h.topsize)
        BY <2>2, AddrWordsFacts, PageAssumption DEF NearHalf
      <3> QED BY <2>2, <3>1, HalfIsNear
    <2> QED BY <2>3, <2>4 DEF n
  <1>6. CASE e = part /\ ~(ssize < nb + SysAllocPadding /\ esize < HalfMaxSizeT)
    <2>1. e.tbase = br /\ e.tsize = ssize /\ e.newPages = pg BY <1>6 DEF Extension
    <2>2. nb + SysAllocPadding <= ssize \/ NearHalf(h.topsize)
      <3> HIDE DEF esize
      <3> QED BY <1>1, <1>2, <1>5, <1>6, AddrWordsFacts
    <2> QED BY <1>4, <2>1, <2>2 DEF Serves, Enough
  <1>7. CASE e = all /\ ssize < nb + SysAllocPadding /\ more.ret # CMFAIL
    <2> HIDE DEF esize
    <2>1. PICK j \in Nat : j >= 1 /\ esize = j * PageWords BY <1>5, <1>7
    <2>2. more.newPages = pg + j /\ pg + j <= MaxPages
      <3>1. \/ more.ret = CMFAIL
            \/ more.newPages = pg + j /\ pg + j <= MaxPages
        <4> HIDE DEF pg, esize
        <4>1. pg \in Nat /\ pg <= MaxPages BY <1>1
        <4> QED BY <2>1, <4>1, SbrkGets, Zenon
      <3> QED BY <1>7, <3>1
    <2>3. br + (ssize + esize) = (pg + j) * PageWords
      <3>1. (pg + j) * PageWords = pg * PageWords + j * PageWords
        BY <1>1, PageAssumption, SMT
      <3>2. esize \in Nat BY <1>5, <1>7
      <3> QED BY <1>2, <1>4, <2>1, <3>1, <3>2
    <2>4. nb + SysAllocPadding <= ssize + esize BY <1>1, <1>2, <1>5, <1>7
    <2> HIDE DEF more, pg, br
    <2>5. e.tbase = br /\ e.tsize = ssize + esize /\ e.newPages = pg + j
      BY <1>7, <2>2 DEF Extension
    <2>6. br # CMFAIL BY DEF br
    <2> QED BY <2>3, <2>4, <2>5, <2>6 DEF Serves, Enough
  <1>8. CASE e = trap
    <2>1. -ssize < 0 /\ -ssize # 0 BY <1>2, PageAssumption
    <2>2. back = [ret |-> CMFAIL, newPages |-> pg, trap |-> TRUE] BY <2>1, Zenon DEF Sbrk
    <2> HIDE DEF back
    <2>3. back.trap = TRUE BY <2>2
    <2>4. e = Extension(CMFAIL, 0, back.newPages, TRUE, TRUE, TRUE) BY <1>8, <2>3
    <2>5. e.trap = TRUE BY <2>4 DEF Extension
    <2>6. e.tbase = CMFAIL BY <2>4 DEF Extension
    <2> QED BY <2>5, <2>6 DEF Serves
  <1> QED BY <1>3, <1>6, <1>7, <1>8

(* Either branch.                                                          *)
LEMMA AcquireServes ==
    ASSUME MaxPages < AddrPages, MemoryInv, NEW h, HeapInv(h, pages, foreign),
           NEW nb \in 0 .. MaxSizeT, ~Oversized(nb), NeedsSystem(h, nb), NEW g \in Grants
    PROVE  Serves(h, nb, Acquire(h, nb, g))
  <1> DEFINE none == Extension(CMFAIL, 0, pages, FALSE, FALSE, FALSE)
             cont == ContiguousMorecore(h, nb, g)
             e    == IF h.contiguous THEN cont ELSE none
  <1>1. pages \in Nat /\ pages <= MaxPages /\ MaxPages \in Nat
        /\ pages \in pages .. MaxPages
    BY MemoryAssumption DEF MemoryInv
  <1>2. g[1] \in BOOLEAN /\ g[2] \in BOOLEAN /\ g[3] \in BOOLEAN
    BY DEF Grants
  <1>3. ExtensionOK(none) /\ ObtainedNothing(none)
    BY <1>1, NothingIsExtension DEF ObtainedNothing, Extension
  <1>4. \/ Serves(h, nb, cont) /\ (cont.tbase # CMFAIL \/ cont.trap)
        \/ ExtensionOK(cont) /\ ObtainedNothing(cont)
    <2> DEFINE holding == {s \in Segments(h) : SegmentHolds(s, h.top)}
               ssize == IF holding = {} THEN GranularityAlign(nb + SysAllocPadding)
                        ELSE GranularityAlign(nb - h.topsize + SysAllocPadding)
               wanted == IF holding = {} THEN {Sbrk(pages, 0, TRUE).ret}
                         ELSE {SegmentEnd(s) : s \in holding}
               got  == Sbrk(pages, ssize, g[1])
               lost == Extension(CMFAIL, 0, pages, FALSE, FALSE, TRUE)
               good == Extension(got.ret, ssize, got.newPages, TRUE, FALSE, FALSE)
               cope == CopeWithPartialFailure(nb, got.ret, ssize, got.newPages, g[2])
    <2>1. \/ cont = none
          \/ cont = lost
          \/ cont = good /\ got.ret # CMFAIL /\ got.ret \in wanted
          \/ cont = cope /\ got.ret # CMFAIL
      BY Zenon DEF ContiguousMorecore
    <2>2. /\ \E k \in Nat : k >= 1 /\ ssize = k * PageWords
          /\ IF holding = {} THEN ssize >= nb + SysAllocPadding
             ELSE ssize >= nb - h.topsize + SysAllocPadding
      <3>1. nb \in Nat BY AddrWordsFacts DEF MaxSizeT
      <3>2. h.topsize \in 0 .. nb /\ 0 \in 0 .. nb /\ nb - 0 + SysAllocPadding = nb + SysAllocPadding
        BY <3>1, AddrWordsFacts, Layout DEF HeapInv, HeapType, NeedsSystem
      <3>3. /\ \E k \in Nat : /\ k >= 1
                              /\ GranularityAlign(nb - h.topsize + SysAllocPadding) = k * PageWords
                              /\ GranularityAlign(nb - h.topsize + SysAllocPadding)
                                   >= nb - h.topsize + SysAllocPadding
            /\ \E k \in Nat : /\ k >= 1
                              /\ GranularityAlign(nb + SysAllocPadding) = k * PageWords
                              /\ GranularityAlign(nb + SysAllocPadding) >= nb + SysAllocPadding
        BY <3>2, RequestPages
      <3> HIDE DEF holding
      <3> QED BY <3>3
    <2>3. PICK k \in Nat : k >= 1 /\ ssize = k * PageWords BY <2>2
    <2>4. ssize \in Nat BY <2>3, PageAssumption, SMT
    <2>5. nb \in Nat /\ h.topsize \in Nat /\ h.topsize <= nb /\ SysAllocPadding = 18
      BY AddrWordsFacts, Layout DEF HeapInv, HeapType, NeedsSystem, MaxSizeT
    <2>6. got.ret \in wanted => IF holding = {} THEN TRUE
                                ELSE \E s \in Segments(h) : /\ got.ret = SegmentEnd(s)
                                                            /\ SegmentHolds(s, h.top)
      <3> HIDE DEF got
      <3> QED OBVIOUS
    <2>7. (holding = {} => ssize >= nb + 18) /\ (holding # {} => nb < h.topsize + ssize)
          /\ ssize >= nb - h.topsize + SysAllocPadding
      <3> HIDE DEF holding, ssize
      <3> QED BY <2>2, <2>4, <2>5
    <2> HIDE DEF ssize, cont, none, wanted, holding
    <2>8. \/ got.ret = CMFAIL
          \/ /\ got.ret = pages * PageWords /\ got.newPages = pages + k
             /\ pages + k <= MaxPages /\ pages * PageWords # CMFAIL
      BY <1>1, <1>2, <2>3, SbrkGrow, ZenonT(60)
    <2> HIDE DEF got
    <2>9. CASE cont = none BY <2>9, <1>3
    <2>10. CASE cont = lost
      BY <2>10, <1>1, NothingIsExtension DEF ObtainedNothing, Extension
    <2>11. CASE cont = good /\ got.ret # CMFAIL /\ got.ret \in wanted
      <3>1. /\ got.ret = pages * PageWords /\ got.newPages = pages + k
            /\ pages + k <= MaxPages /\ pages * PageWords # CMFAIL
        BY <2>8, <2>11
      <3>2. /\ cont.tbase = pages * PageWords /\ cont.tsize = ssize
            /\ cont.newPages = pages + k
        BY <2>11, <3>1 DEF Extension
      <3>3. pages * PageWords + ssize = (pages + k) * PageWords
        BY <1>1, <2>3, PageAssumption, SMT
      <3>4. Enough(h, nb, cont)
        <4>1. CASE holding = {} BY <2>5, <2>7, <3>2, <4>1 DEF Enough
        <4>2. CASE holding # {}
          <5>1. Appends(h, cont) BY <2>6, <2>11, <3>1, <3>2, <4>2 DEF Appends
          <5> QED BY <2>7, <3>2, <4>2, <5>1 DEF Enough
        <4> QED BY <4>1, <4>2
      <3>5. Serves(h, nb, cont) BY <3>1, <3>2, <3>3, <3>4 DEF Serves
      <3> QED BY <3>1, <3>2, <3>5
    <2>12. CASE cont = cope /\ got.ret # CMFAIL
      <3>1. /\ got.ret = pages * PageWords /\ got.newPages = pages + k
            /\ pages + k <= MaxPages /\ pages * PageWords # CMFAIL
        BY <2>8, <2>12
      <3>2. cope = CopeWithPartialFailure(nb, pages * PageWords, ssize, pages + k, g[2])
        BY <3>1
      <3> HIDE DEF cope
      <3>3. Serves(h, nb, cope) BY <1>2, <2>3, <2>5, <2>7, <3>1, <3>2, CopeServes
      <3>4. cope.tbase # CMFAIL \/ cope.trap BY <1>2, <2>3, <3>1, <3>2, CopeFacts
      <3> QED BY <2>12, <3>3, <3>4
    <2> QED BY <2>1, <2>9, <2>10, <2>11, <2>12
  <1> HIDE DEF none, cont
  <1>5. Acquire(h, nb, g) = IF e.tbase = CMFAIL /\ ~e.trap
                            THEN NoncontiguousMorecore(nb, e, g[3]) ELSE e
    BY Zenon DEF Acquire, none, cont
  <1>6. \/ Serves(h, nb, e) /\ (e.tbase # CMFAIL \/ e.trap)
        \/ ExtensionOK(e) /\ ObtainedNothing(e)
    BY <1>3, <1>4
  <1>7. none.tbase = CMFAIL /\ none.trap = FALSE BY DEF none, Extension
  <1> HIDE DEF e
  <1>8. CASE e.tbase = CMFAIL /\ ~e.trap
    <2>1. ExtensionOK(e) /\ ObtainedNothing(e) BY <1>6, <1>8
    <2> QED BY <1>2, <1>5, <1>8, <2>1, NoncontiguousServes
  <1>9. CASE ~(e.tbase = CMFAIL /\ ~e.trap)
    <2>1. CASE Serves(h, nb, e) BY <1>5, <1>9, <2>1
    <2>2. CASE ExtensionOK(e) /\ ObtainedNothing(e)
      <3>1. e.tbase = CMFAIL /\ e.trap BY <1>9, <2>2 DEF ObtainedNothing
      <3> QED BY <1>5, <3>1 DEF Serves
    <2> QED BY <1>6, <2>1, <2>2
  <1> QED BY <1>8, <1>9

(* sys_alloc serves the request from an extension, unless top was near     *)
(* half the address space.                                                 *)
LEMMA ServedFromTop ==
    ASSUME MemoryInv, NEW h, HeapInv(h, pages, foreign), NEW nb \in ChunkSizes,
           NEW e, ExtensionOK(e), e.tbase # CMFAIL, Serves(h, nb, e)
    PROVE  /\ Initialized(h) /\ Appends(h, e) /\ ServeFromTop(AppendToSegment(h, e), nb, e.refused)
                 => result'.kind = "mem" \/ NearHalf(h.topsize)
           /\ ~Appends(h, e) /\ ServeFromTop(AddSegment(h, e), nb, e.refused)
                 => result'.kind = "mem" \/ NearHalf(h.topsize)
  <1>1. /\ e.tsize \in Nat /\ e.tbase \in Nat /\ e.tbase % 4 = 0 BY RegionFacts
  <1>2. Enough(h, nb, e) BY DEF Serves
  <1>3. nb \in Nat BY ChunkFacts
  <1>4. HeapType(Grown(h, e)) /\ HeapType(h) /\ Grown(h, e).topsize = h.topsize
    BY GrownFacts DEF HeapInv
  <1>5. h.topsize \in Nat BY <1>4, AddrWordsFacts DEF HeapType
  <1>6. ASSUME Appends(h, e), ServeFromTop(AppendToSegment(h, e), nb, e.refused)
        PROVE  result'.kind = "mem" \/ NearHalf(h.topsize)
    <2> DEFINE G == Grown(h, e)
               n == AppendToSegment(h, e)
    <2>1. n.topsize = h.topsize + e.tsize
      <3>1. n = [G EXCEPT !.seg.size = G.seg.size + e.tsize, !.topsize = G.topsize + e.tsize]
        BY DEF AppendToSegment
      <3> HIDE DEF G, n
      <3> QED BY <1>4, <3>1 DEF HeapType, G
    <2> HIDE DEF n
    <2>2. nb < n.topsize \/ NearHalf(h.topsize)
      BY <1>1, <1>2, <1>3, <1>5, <2>1, Layout DEF Enough
    <2>3. nb < n.topsize => result' = [kind |-> "mem", refused |-> e.refused]
      BY <1>6 DEF ServeFromTop, Finish, n
    <2> QED BY <2>2, <2>3
  <1>7. ASSUME ~Appends(h, e), ServeFromTop(AddSegment(h, e), nb, e.refused)
        PROVE  result'.kind = "mem" \/ NearHalf(h.topsize)
    <2> DEFINE G == Grown(h, e)
               n == AddSegment(h, e)
    <2>1. n.topsize = e.tsize - 16
      <3>1. NewTopSize(e.tbase, e.tsize) = e.tsize - 16 BY <1>1, Layout
      <3> DEFINE leastAddr == IF G.leastAddr = NULL \/ e.tbase < G.leastAddr
                              THEN e.tbase ELSE G.leastAddr
                 seg       == [base |-> e.tbase, size |-> e.tsize]
                 older     == Segments(h)
                 top       == NewTop(e.tbase)
      <3>2. n = [G EXCEPT !.older = older, !.seg = seg, !.top = top,
                          !.topsize = NewTopSize(e.tbase, e.tsize), !.leastAddr = leastAddr]
        BY DEF AddSegment
      <3> HIDE DEF G, n, leastAddr, seg, older, top
      <3> QED BY <1>4, <3>1, <3>2 DEF HeapType, G
    <2> HIDE DEF n
    <2>2. nb < n.topsize \/ NearHalf(h.topsize)
      BY <1>1, <1>2, <1>3, <1>7, <2>1, Layout DEF Enough
    <2>3. nb < n.topsize => result' = [kind |-> "mem", refused |-> e.refused]
      BY <1>7 DEF ServeFromTop, Finish, n
    <2> QED BY <2>2, <2>3
  <1> QED BY <1>6, <1>7

(* An oversized request is near the top of the address space.              *)
LEMMA OversizedIsNear ==
    ASSUME NEW nb \in 0 .. MaxSizeT, Oversized(nb)
    PROVE  NearHalf(nb + SysAllocPadding)
  <1> DEFINE n == nb + SysAllocPadding
  <1>1. nb \in Nat /\ SysAllocPadding = 18 BY Layout, AddrWordsFacts DEF MaxSizeT
  <1>2. n \in Nat /\ n >= 1 /\ n > nb BY <1>1
  <1>3. GranularityAlign(n) <= nb BY DEF Oversized
  <1> HIDE DEF n
  <1>4. ~(n + PageWords - 1 < AddrWords)
    <2> SUFFICES ASSUME n + PageWords - 1 < AddrWords PROVE FALSE OBVIOUS
    <2>1. GranularityAlign(n) >= n /\ GranularityAlign(n) \in Nat
      BY <1>2, GranularityFacts, GranularityAdds
    <2> QED BY <1>1, <1>2, <1>3, <2>1
  <1>5. HalfMaxSizeT < AddrWords
    BY AddrWordsFacts, PageAssumption, SMT DEF HalfMaxSizeT
  <1>6. n > HalfMaxSizeT - PageWords
    BY <1>2, <1>4, <1>5, AddrWordsFacts, PageAssumption
  <1> QED BY <1>6 DEF NearHalf, n

(* A request whose padded size wraps is rejected before any growth.        *)
LEMMA WrapIsRejected ==
    ASSUME NEW nb \in ChunkSizes, SysAlloc(nb), SizeWraps(nb + SysAllocPadding)
    PROVE  UNCHANGED pages
  <1>1. nb \in 0 .. MaxSizeT /\ nb \in Nat /\ SysAllocPadding = 18 BY ChunkFacts, Layout
  <1>2. Oversized(nb) BY <1>1, NoWrap, AddrWordsFacts, PageAssumption DEF SizeWraps
  <1>3. RejectOversized(nb)
    BY <1>2, Zenon DEF SysAlloc, AcquireNothing, AcquireAppend, AcquireSegment
  <1> QED BY <1>3 DEF RejectOversized, memoryVars

(* A malloc that the system layer cannot serve.                            *)
LEMMA NullIsRefused ==
    ASSUME MaxPages < AddrPages, IInv, NEW nb \in ChunkSizes, SysAlloc(nb),
           result'.kind = "null"
    PROVE  \/ result'.refused
           \/ NearHalf(nb + SysAllocPadding) /\ UNCHANGED pages
           \/ NearHalf(TryInitAllocator(m).topsize)
  <1> DEFINE h == TryInitAllocator(m)
             near == NearHalf(nb + SysAllocPadding)
             huge == NearHalf(h.topsize)
  <1> SUFFICES result'.refused \/ (near /\ UNCHANGED pages) \/ huge OBVIOUS
  <1>1. MemoryInv /\ HeapInv(h, pages, foreign) BY TryInitKeeps DEF IInv
  <1>2. nb \in 0 .. MaxSizeT BY ChunkFacts
  <1>3. CASE RejectOversized(nb)
    BY <1>2, <1>3, OversizedIsNear DEF RejectOversized, memoryVars
  <1>4. ASSUME NEW g \in Grants,
               AcquireNothing(nb, g) \/ AcquireAppend(nb, g) \/ AcquireSegment(nb, g)
        PROVE  result'.refused \/ (near /\ UNCHANGED pages) \/ huge
    <2> DEFINE e == Acquire(h, nb, g)
    <2>1. NeedsSystem(h, nb) /\ ~Oversized(nb) /\ pages' = e.newPages
      BY <1>4 DEF AcquireNothing, AcquireAppend, AcquireSegment
    <2>2. ExtensionOK(e) BY <1>1, <1>2, <2>1, AcquireFacts
    <2>3. Serves(h, nb, e) BY <1>1, <1>2, <2>1, AcquireServes
    <2>4. \/ /\ e.tbase = CMFAIL
             /\ Finish(IF e.trap THEN "trap" ELSE "null", e.refused)
          \/ /\ e.tbase # CMFAIL /\ Initialized(h) /\ Appends(h, e)
             /\ ServeFromTop(AppendToSegment(h, e), nb, e.refused)
          \/ /\ e.tbase # CMFAIL /\ ~Appends(h, e)
             /\ ServeFromTop(AddSegment(h, e), nb, e.refused)
      BY <1>4 DEF AcquireNothing, AcquireAppend, AcquireSegment, Appends, Segments
    <2> HIDE DEF h, e
    <2>5. CASE e.tbase = CMFAIL /\ Finish(IF e.trap THEN "trap" ELSE "null", e.refused)
      <3>1. result' = [kind |-> IF e.trap THEN "trap" ELSE "null", refused |-> e.refused]
        BY <2>5 DEF Finish
      <3>2. ~e.trap /\ result'.refused = e.refused BY <3>1
      <3> QED BY <2>1, <2>3, <2>5, <3>2 DEF Serves
    <2>6. CASE e.tbase # CMFAIL
      <3>1. result'.kind = "mem" \/ NearHalf(h.topsize)
        BY <1>1, <2>2, <2>3, <2>4, <2>6, ServedFromTop
      <3> QED BY <3>1
    <2> QED BY <2>4, <2>5, <2>6
  <1> QED BY <1>3, <1>4 DEF SysAlloc

(* malloc answers NULL only if the engine refused to grow the memory, or   *)
(* the request is near half the address space and the memory has not       *)
(* grown, or top itself is near half the address space; and a request      *)
(* whose padded size wraps is rejected before anything is grown.  For      *)
(* every memory whose maximum is short of the whole address space: one     *)
(* that fills it has its break at address 0, which the noncontiguous       *)
(* branch takes for a failure.                                             *)
THEOREM FailureNeedsRefusal ==
    ASSUME MaxPages < AddrPages PROVE Spec => FailureIsRefusal
  <1>1. ASSUME IInv, [Next]_vars
        PROVE  [\A nb \in ChunkSizes :
                   SysAlloc(nb) =>
                       /\ result'.kind = "null" =>
                             \/ result'.refused
                             \/ NearHalf(nb + SysAllocPadding) /\ UNCHANGED pages
                             \/ NearHalf(TryInitAllocator(m).topsize)
                       /\ SizeWraps(nb + SysAllocPadding) => UNCHANGED pages]_vars
    BY <1>1, NullIsRefused, WrapIsRejected
  <1> QED BY <1>1, Invariance, PTL DEF Spec, FailureIsRefusal

(* The pages between the old and the new end of the memory lie in a        *)
(* segment that reaches from at most the one to exactly the other.         *)
LEMMA ReachesCovers ==
    ASSUME MemoryInv, NEW s, s.base \in Nat, s.base <= pages * PageWords,
           NEW pg \in Nat, pg <= MaxPages, Limit(s) = pg * PageWords,
           NEW f \in pages .. pg - 1
    PROVE  Covers(s, f)
  <1>1. pages \in Nat /\ f \in Nat /\ pages <= f /\ f < pg BY MemoryAssumption DEF MemoryInv
  <1>2. (f + 1) * PageWords <= pg * PageWords BY <1>1, PagesMonotone
  <1>3. pages * PageWords \in Nat /\ f * PageWords \in Nat BY <1>1, PageAssumption, SMT
  <1>4. pages * PageWords <= f * PageWords
    <2>1. CASE pages = f BY <2>1, <1>3
    <2>2. CASE pages < f
      <3>1. pages * PageWords + PageWords <= f * PageWords BY <1>1, <2>2, PagesMonotone
      <3> QED BY <1>3, <3>1, PageAssumption
    <2> QED BY <1>1, <2>1, <2>2
  <1> QED BY <1>2, <1>3, <1>4 DEF Covers

(* The newest segment after a call that obtained an extension.             *)
LEMMA ExtensionCovered ==
    ASSUME MemoryInv, NEW h, HeapInv(h, pages, foreign), NEW nb \in ChunkSizes,
           NEW e, ExtensionOK(e), e.tbase # CMFAIL, e.tbase + e.tsize = e.newPages * PageWords,
           \/ /\ Initialized(h) /\ Appends(h, e)
              /\ ServeFromTop(AppendToSegment(h, e), nb, e.refused)
           \/ ~Appends(h, e) /\ ServeFromTop(AddSegment(h, e), nb, e.refused),
           NEW f \in pages .. e.newPages - 1
    PROVE  \E s \in Segments(m') : Covers(s, f)
  <1>1. /\ e.newPages \in Nat /\ e.newPages <= MaxPages /\ pages \in Nat
        /\ e.tbase = pages * PageWords /\ e.tbase \in Nat /\ e.tsize \in Nat
    BY RegionFacts
  <1>2. nb \in Nat BY ChunkFacts
  <1>3. ASSUME NEW n, HeapType(n), Initialized(n), ServeFromTop(n, nb, e.refused)
        PROVE  m'.seg = n.seg /\ n.seg \in Segments(m')
    <2>1. m'.seg = n.seg /\ m'.top \in {n.top, n.top + nb}
      BY <1>3 DEF ServeFromTop, CutTop, HeapType
    <2>2. n.top \in Nat BY <1>3, AddrWordsFacts DEF HeapType
    <2>3. Initialized(m') BY <1>2, <1>3, <2>1, <2>2 DEF Initialized, NULL
    <2> QED BY <2>1, <2>3 DEF Segments
  <1>4. HeapType(Grown(h, e)) /\ HeapType(h) /\ Grown(h, e).seg = h.seg
    BY GrownFacts DEF HeapInv
  <1>5. CASE /\ Initialized(h) /\ Appends(h, e)
             /\ ServeFromTop(AppendToSegment(h, e), nb, e.refused)
    <2> DEFINE G == Grown(h, e)
               n == AppendToSegment(h, e)
    <2>1. HeapType(n) /\ Initialized(n) BY <1>5, AppendKeeps DEF HeapInv
    <2>2. n.seg.base = h.seg.base /\ n.seg.size = h.seg.size + e.tsize
      <3>1. n = [G EXCEPT !.seg.size = G.seg.size + e.tsize, !.topsize = G.topsize + e.tsize]
        BY DEF AppendToSegment
      <3> HIDE DEF G, n
      <3> QED BY <1>4, <3>1 DEF HeapType, SegmentRecord, G
    <2>3. ServeFromTop(n, nb, e.refused) BY <1>5
    <2> HIDE DEF n
    <2>4. n.seg \in Segments(m') BY <1>3, <2>1, <2>3
    <2>5. e.tbase = Limit(h.seg) BY <1>5, AppendsFacts
    <2>6. h.seg.base \in Nat /\ h.seg.size \in Nat
      BY <1>4, AddrWordsFacts DEF HeapType, SegmentRecord
    <2>7. n.seg.base <= pages * PageWords /\ Limit(n.seg) = e.newPages * PageWords
          /\ n.seg.base \in Nat
      BY <1>1, <2>2, <2>5, <2>6 DEF Limit
    <2>8. Covers(n.seg, f) BY <1>1, <2>7, ReachesCovers
    <2> QED BY <2>4, <2>8
  <1>6. CASE ~Appends(h, e) /\ ServeFromTop(AddSegment(h, e), nb, e.refused)
    <2> DEFINE G == Grown(h, e)
               n == AddSegment(h, e)
    <2>1. HeapType(n) /\ Initialized(n) BY <1>6, SegmentKeeps DEF HeapInv
    <2>2. n.seg.base = e.tbase /\ n.seg.size = e.tsize
      <3> DEFINE leastAddr == IF G.leastAddr = NULL \/ e.tbase < G.leastAddr
                              THEN e.tbase ELSE G.leastAddr
                 seg     == [base |-> e.tbase, size |-> e.tsize]
                 older   == Segments(h)
                 top     == NewTop(e.tbase)
                 topsize == NewTopSize(e.tbase, e.tsize)
      <3>1. n = [G EXCEPT !.older = older, !.seg = seg, !.top = top,
                          !.topsize = topsize, !.leastAddr = leastAddr]
        BY DEF AddSegment
      <3>2. seg.base = e.tbase /\ seg.size = e.tsize OBVIOUS
      <3> HIDE DEF G, n, leastAddr, seg, older, top, topsize
      <3>3. n.seg = seg BY <1>4, <3>1 DEF HeapType, G
      <3> QED BY <3>2, <3>3
    <2>3. ServeFromTop(n, nb, e.refused) BY <1>6
    <2> HIDE DEF n
    <2>4. n.seg \in Segments(m') BY <1>3, <2>1, <2>3
    <2>5. n.seg.base <= pages * PageWords /\ Limit(n.seg) = e.newPages * PageWords
          /\ n.seg.base \in Nat
      BY <1>1, <2>2 DEF Limit
    <2>6. Covers(n.seg, f) BY <1>1, <2>5, ReachesCovers
    <2> QED BY <2>4, <2>6
  <1> QED BY <1>5, <1>6

LEMMA GrownIsOwned ==
    ASSUME MaxPages < AddrPages, IInv, [Next]_vars, NEW f \in pages .. pages' - 1
    PROVE  f \in foreign' \/ result'.kind = "trap" \/ \E s \in Segments(m') : Covers(s, f)
  <1>1. pages \in Nat /\ pages' # pages BY MemoryAssumption DEF IInv, MemoryInv
  <1>2. CASE UNCHANGED vars BY <1>1, <1>2 DEF vars
  <1>3. ASSUME NEW nb \in ChunkSizes, TakeFromTop(nb) PROVE FALSE
    BY <1>1, <1>3 DEF TakeFromTop, memoryVars
  <1>4. ASSUME NEW n \in 1 .. AddrWords, GiveToTop(n) PROVE FALSE
    BY <1>1, <1>4 DEF GiveToTop, memoryVars
  <1>5. ASSUME NEW n \in 1 .. MaxPages, Host(n) PROVE f \in foreign'
    <2>1. pages' = pages + n /\ foreign' = foreign \cup (pages .. pages + n - 1)
      BY <1>5 DEF Host, ForeignGrow
    <2>2. f \in pages .. pages + n - 1 BY <1>1, <2>1, MemoryAssumption
    <2> QED BY <2>1, <2>2, Zenon
  <1>6. ASSUME NEW nb \in ChunkSizes, SysAlloc(nb)
        PROVE  result'.kind = "trap" \/ \E s \in Segments(m') : Covers(s, f)
    <2> DEFINE h == TryInitAllocator(m)
    <2>1. MemoryInv /\ HeapInv(h, pages, foreign) BY TryInitKeeps DEF IInv
    <2>2. nb \in 0 .. MaxSizeT BY ChunkFacts
    <2>3. CASE RejectOversized(nb) BY <1>1, <2>3 DEF RejectOversized, memoryVars
    <2>4. ASSUME NEW g \in Grants,
                 AcquireNothing(nb, g) \/ AcquireAppend(nb, g) \/ AcquireSegment(nb, g)
          PROVE  result'.kind = "trap" \/ \E s \in Segments(m') : Covers(s, f)
      <3> DEFINE e == Acquire(h, nb, g)
      <3>1. NeedsSystem(h, nb) /\ ~Oversized(nb) /\ pages' = e.newPages
        BY <2>4 DEF AcquireNothing, AcquireAppend, AcquireSegment
      <3>2. ExtensionOK(e) BY <2>1, <2>2, <3>1, AcquireFacts
      <3>3. Serves(h, nb, e) BY <2>1, <2>2, <3>1, AcquireServes
      <3>4. \/ /\ e.tbase = CMFAIL
               /\ Finish(IF e.trap THEN "trap" ELSE "null", e.refused)
            \/ /\ e.tbase # CMFAIL /\ Initialized(h) /\ Appends(h, e)
               /\ ServeFromTop(AppendToSegment(h, e), nb, e.refused)
            \/ /\ e.tbase # CMFAIL /\ ~Appends(h, e)
               /\ ServeFromTop(AddSegment(h, e), nb, e.refused)
        BY <2>4 DEF AcquireNothing, AcquireAppend, AcquireSegment, Appends, Segments
      <3> HIDE DEF h, e
      <3>5. CASE e.tbase = CMFAIL /\ Finish(IF e.trap THEN "trap" ELSE "null", e.refused)
        <4>1. e.trap BY <1>1, <3>1, <3>3, <3>5 DEF Serves
        <4> QED BY <3>5, <4>1 DEF Finish
      <3>6. CASE e.tbase # CMFAIL
        <4>1. e.tbase + e.tsize = e.newPages * PageWords BY <3>3, <3>6 DEF Serves
        <4>2. f \in pages .. e.newPages - 1 BY <3>1
        <4> QED BY <2>1, <3>2, <3>4, <3>6, <4>1, <4>2, ExtensionCovered
      <3> QED BY <3>4, <3>5, <3>6
    <2> QED BY <1>6, <2>3, <2>4 DEF SysAlloc
  <1> QED BY <1>2, <1>3, <1>4, <1>5, <1>6 DEF Next

(* No page is lost: whatever a call of the allocator made the engine grow  *)
(* is in a segment when the call returns, whether or not it could serve    *)
(* the request, unless the call trapped.  The memory's maximum is short of *)
(* the whole address space, as above.                                      *)
THEOREM NoPageLost ==
    ASSUME MaxPages < AddrPages PROVE Spec => GrownPagesAreOwned
  <1>1. ASSUME IInv, [Next]_vars
        PROVE  [\A f \in pages .. pages' - 1 :
                   f \in foreign' \/ result'.kind = "trap"
                       \/ \E s \in Segments(m') : Covers(s, f)]_vars
    BY <1>1, GrownIsOwned
  <1> QED BY <1>1, Invariance, PTL DEF Spec, GrownPagesAreOwned
=============================================================================
