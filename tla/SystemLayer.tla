---------------------------- MODULE SystemLayer ----------------------------
(***************************************************************************)
(* What dlmalloc's system layer computes: how an extension of the heap is  *)
(* obtained from sbrk, and what it does to the malloc_state.  SysAlloc is  *)
(* a state machine over these operators, DlMalloc uses them below its      *)
(* chunks.  A malloc_state h has the fields                                *)
(*   seg, older   the newest segment; the records its next field leads to  *)
(*   top          NULL before initialisation                               *)
(*   topsize      the size of the chunk at top                             *)
(*   contiguous   the negation of the USE_NONCONTIGUOUS_BIT of mflags      *)
(*   footprint, maxFootprint, leastAddr                                    *)
(***************************************************************************)
EXTENDS WasmMemory

CONSTANT HeapBase  \* address of the linker's __heap_base

ASSUME HeapAssumption ==
    /\ HeapBase \in Nat
    /\ HeapBase >= 4 /\ HeapBase % MallocAlignment = 0
    /\ HeapBase <= InitialPages * PageWords

SegmentRecord == [base : 0 .. AddrWords - 1, size : 0 .. AddrWords]

(* Where a segment really ends, without the wrap of SegmentEnd.            *)
Limit(s) == s.base + s.size

(* The linker places __heap_end at the end of the initial memory.  If that *)
(* were the whole address space, __heap_end would wrap to 0, below         *)
(* __heap_base, and the first call of the allocator would trap.            *)
HeapEnd == InitialPages * PageWords

ASSUME HeapEndAssumption == HeapEnd < AddrWords

Initialized(h) == h.top # NULL
Segments(h)    == IF Initialized(h) THEN h.older \cup {h.seg} ELSE {}

SegmentEnd(s)      == (s.base + s.size) % AddrWords  \* a pointer: it wraps
SegmentHolds(s, a) == a >= s.base /\ a < SegmentEnd(s)

(* init_top: the top chunk of a region of size words at base starts at the *)
(* first aligned chunk, and ends before the words kept for the next        *)
(* segment record.                                                         *)
NewTop(base)           == base + AlignOffset(Chunk2Mem(base))
NewTopSize(base, size) == size - TopFootSize - AlignOffset(Chunk2Mem(base))

(* try_init_allocator, which malloc calls first: the heap begins in the    *)
(* space the linker leaves between __heap_base and __heap_end, if that can *)
(* hold a chunk.                                                           *)
InitialHeapSize   == HeapEnd - HeapBase
InitialHeapUsable_Always_Mutant == TRUE
InitialHeapUsable == InitialHeapSize > MinChunkSize + TopFootSize + MallocAlignment

TryInitAllocator(h) ==
    IF Initialized(h) \/ ~InitialHeapUsable THEN h
    ELSE [h EXCEPT !.seg = [base |-> HeapBase, size |-> InitialHeapSize],
                   !.top = NewTop(HeapBase),
                   !.topsize = NewTopSize(HeapBase, InitialHeapSize),
                   !.footprint = InitialHeapSize,
                   !.maxFootprint = InitialHeapSize,
                   !.leastAddr = HeapBase]

-----------------------------------------------------------------------------
(* Obtaining memory for a chunk of nb words.  g[i] says whether the engine *)
(* would grant the i-th memory.grow of the call.                           *)

Grants == [1 .. 3 -> BOOLEAN]

(* An extension of the heap: where the new region starts (CMFAIL: none),   *)
(* its size, the memory's size afterwards, the contiguous flag, and        *)
(* whether the call trapped or a growth was refused.                       *)
Extension(tbase, tsize, pg, cont, trap, refused) ==
    [tbase |-> tbase, tsize |-> tsize, newPages |-> pg, contiguous |-> cont,
     trap |-> trap, refused |-> refused]

(* The definitions named ..._Mutant are faults that SysAlloc's properties  *)
(* must be able to see; no specification uses them.                        *)
CopeWithPartialFailure_Keep_Mutant(nb, br, ssize, pg, g) ==
    LET esize == GranularityAlign(nb + SysAllocPadding - ssize)
        more  == Sbrk(pg, esize, g)
    IN  IF ssize < nb + SysAllocPadding /\ esize < HalfMaxSizeT
        THEN Extension(br, ssize + esize, more.newPages, TRUE, FALSE, FALSE)
        ELSE Extension(br, ssize, pg, TRUE, FALSE, FALSE)

CopeWithPartialFailure_Drop_Mutant(nb, br, ssize, pg, g) ==
    LET esize == GranularityAlign(nb + SysAllocPadding - ssize)
        more  == Sbrk(pg, esize, g)
    IN  IF ssize < nb + SysAllocPadding /\ esize < HalfMaxSizeT THEN
            IF more.ret # CMFAIL
            THEN Extension(br, ssize + esize, more.newPages, TRUE, FALSE, FALSE)
            ELSE Extension(CMFAIL, 0, pg, FALSE, FALSE, TRUE)
        ELSE Extension(br, ssize, pg, TRUE, FALSE, FALSE)

(* "Cope with partial failure": MORECORE gave ssize words at br, but not   *)
(* where the heap ends.  Ask for the rest; if that is refused, give the    *)
(* first part back with a negative increment.                              *)
CopeWithPartialFailure(nb, br, ssize, pg, g) ==
    LET esize == GranularityAlign(nb + SysAllocPadding - ssize)
        more  == Sbrk(pg, esize, g)
        back  == Sbrk(pg, -ssize, FALSE)
    IN  IF ssize < nb + SysAllocPadding /\ esize < HalfMaxSizeT THEN
            IF more.ret # CMFAIL
            THEN Extension(br, ssize + esize, more.newPages, TRUE, FALSE, FALSE)
            ELSE Extension(CMFAIL, 0, back.newPages, back.trap, back.trap, TRUE)
        ELSE Extension(br, ssize, pg, TRUE, FALSE, FALSE)

ContiguousMorecore_Unchecked_Mutant(h, nb, g) ==
    LET ssize == IF ~Initialized(h) THEN GranularityAlign(nb + SysAllocPadding)
                 ELSE GranularityAlign(nb - h.topsize + SysAllocPadding)
        got == Sbrk(pages, ssize, g[1])
    IN  IF ssize >= HalfMaxSizeT
        THEN Extension(CMFAIL, 0, pages, FALSE, FALSE, FALSE)
        ELSE IF got.ret = CMFAIL
        THEN Extension(CMFAIL, 0, pages, FALSE, FALSE, TRUE)
        ELSE Extension(IF Initialized(h) THEN SegmentEnd(h.seg) ELSE got.ret,
                       ssize, got.newPages, TRUE, FALSE, FALSE)

(* The contiguous branch: extend the segment that holds top by what top    *)
(* lacks; the first time through, take the current break.                  *)
ContiguousMorecore(h, nb, g) ==
    LET holding == {s \in Segments(h) : SegmentHolds(s, h.top)}
        ssize == IF holding = {} THEN GranularityAlign(nb + SysAllocPadding)
                 ELSE GranularityAlign(nb - h.topsize + SysAllocPadding)
        wanted == IF holding = {} THEN {Sbrk(pages, 0, TRUE).ret}
                  ELSE {SegmentEnd(s) : s \in holding}
        got == Sbrk(pages, ssize, g[1])
    IN  IF ssize >= HalfMaxSizeT
        THEN Extension(CMFAIL, 0, pages, FALSE, FALSE, FALSE)
        ELSE IF got.ret = CMFAIL
        THEN Extension(CMFAIL, 0, pages, FALSE, FALSE, TRUE)
        ELSE IF got.ret \in wanted
        THEN Extension(got.ret, ssize, got.newPages, TRUE, FALSE, FALSE)
        ELSE CopeWithPartialFailure(nb, got.ret, ssize, got.newPages, g[2])

(* The noncontiguous branch, after the contiguous one left extension e:    *)
(* grow by the whole padded request and measure it with sbrk(0).           *)
NoncontiguousMorecore(nb, e, g) ==
    LET asize == GranularityAlign(nb + SysAllocPadding)
        got == Sbrk(e.newPages, asize, g)
        end == Sbrk(got.newPages, 0, TRUE).ret
    IN  IF asize >= HalfMaxSizeT THEN e
        ELSE IF got.ret # CMFAIL /\ got.ret < end /\ end - got.ret > nb + TopFootSize
        THEN Extension(got.ret, end - got.ret, got.newPages, e.contiguous, FALSE, e.refused)
        ELSE Extension(CMFAIL, 0, got.newPages, e.contiguous, FALSE,
                       e.refused \/ got.ret = CMFAIL)

(* The two ways, in the order sys_alloc tries them.                        *)
Acquire(h, nb, g) ==
    LET e == IF h.contiguous THEN ContiguousMorecore(h, nb, g)
             ELSE Extension(CMFAIL, 0, pages, FALSE, FALSE, FALSE)
    IN  IF e.tbase = CMFAIL /\ ~e.trap THEN NoncontiguousMorecore(nb, e, g[3]) ELSE e

Oversized_Never_Mutant(nb) == FALSE

(* asize wraps for an oversized request.                                   *)
Oversized(nb) == GranularityAlign(nb + SysAllocPadding) <= nb

(* Top never gives away its last chunk.                                    *)
NeedsSystem(h, nb) == nb >= h.topsize

-----------------------------------------------------------------------------
(* What the calls do to the malloc_state; e is an extension.               *)

(* A chunk of nb words is cut off the front of top.                        *)
CutTop(h, nb) == [h EXCEPT !.top = @ + nb, !.topsize = @ - nb]

Grown_Assign_Mutant(h, e) ==
    [h EXCEPT !.contiguous = e.contiguous, !.footprint = e.tsize, !.maxFootprint = e.tsize]

(* The bookkeeping common to every extension.                              *)
Grown(h, e) ==
    [h EXCEPT !.contiguous = e.contiguous,
              !.footprint = @ + e.tsize,
              !.maxFootprint = IF h.footprint + e.tsize > @ THEN h.footprint + e.tsize ELSE @]

Appends_AtBase_Mutant(h, e) == \E s \in Segments(h) : e.tbase = s.base /\ SegmentHolds(s, h.top)

(* The new region starts where the segment that holds top ends.            *)
Appends(h, e) == \E s \in Segments(h) : e.tbase = SegmentEnd(s) /\ SegmentHolds(s, h.top)

AppendToSegment_NoInitTop_Mutant(h, e) == [Grown(h, e) EXCEPT !.seg.size = @ + e.tsize]

AppendToSegment(h, e) ==
    [Grown(h, e) EXCEPT !.seg.size = @ + e.tsize, !.topsize = @ + e.tsize]

(* add_segment, or the first memory of a heap whose initial space was too  *)
(* small: the region gets a record of its own and the whole of it becomes  *)
(* top.  (A region that ended where a segment starts would be prepended to *)
(* it; memory only grows upward, so no region does: see BelowBreak.)       *)
AddSegment(h, e) ==
    [Grown(h, e) EXCEPT !.older = Segments(h),
                        !.seg = [base |-> e.tbase, size |-> e.tsize],
                        !.top = NewTop(e.tbase),
                        !.topsize = NewTopSize(e.tbase, e.tsize),
                        !.leastAddr = IF @ = NULL \/ e.tbase < @ THEN e.tbase ELSE @]
=============================================================================
