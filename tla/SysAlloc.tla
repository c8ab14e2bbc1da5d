------------------------------ MODULE SysAlloc ------------------------------
(***************************************************************************)
(* dlmalloc's system layer: how the heap obtains linear memory, which      *)
(* segments it owns, and the top chunk that borders the newest of them.    *)
(* What happens inside the segments is left to the callers: an allocation  *)
(* that a bin or dv serves is no step here, one that top serves moves top  *)
(* up, and freeing chunks next to top moves it down.                       *)
(*                                                                         *)
(* A call of the allocator is one step: the runtime is single-threaded and *)
(* built without locks.  Foreign growth happens between calls.             *)
(***************************************************************************)
EXTENDS SystemLayer

LOCAL INSTANCE FiniteSetsExt

CONSTANT Requests  \* the request sizes, in words, that callers use

ASSUME RequestAssumption == Requests \subseteq 0 .. MaxSizeT

VARIABLES m,      \* the malloc_state
          result  \* how the last call ended, and whether the engine refused
                  \* a memory.grow during it

vars == <<pages, foreign, m, result>>

-----------------------------------------------------------------------------
(* The calls that reach this layer.  nb is the chunk size of the request.  *)

Finish(kind, refused) == result' = [kind |-> kind, refused |-> refused]

ServeFromTop_Unchecked_Mutant(h, nb, refused) ==
    /\ m' = CutTop(h, nb)
    /\ Finish("mem", refused)

(* A chunk of nb words is cut off the front of h's top, if top is larger.  *)
ServeFromTop(h, nb, refused) ==
    IF nb < h.topsize
    THEN m' = CutTop(h, nb) /\ Finish("mem", refused)
    ELSE m' = h /\ Finish("null", refused)

(* malloc splits top; realloc extends a chunk into it (h is then m).       *)
TakeFromTop(nb) ==
    LET h == TryInitAllocator(m)
    IN  /\ nb < h.topsize
        /\ ServeFromTop(h, nb, FALSE)
        /\ UNCHANGED memoryVars

(* Otherwise sys_alloc: e is the extension it obtained.                    *)
RejectOversized(nb) ==
    LET h == TryInitAllocator(m)
    IN  /\ NeedsSystem(h, nb)
        /\ Oversized(nb)
        /\ m' = h
        /\ Finish("null", FALSE)
        /\ UNCHANGED memoryVars

(* No memory, or the call traps while it gives memory back: the pages the  *)
(* engine did grow stay grown.                                             *)
AcquireNothing(nb, g) ==
    LET h == TryInitAllocator(m)
        e == Acquire(h, nb, g)
    IN  /\ NeedsSystem(h, nb) /\ ~Oversized(nb)
        /\ e.tbase = CMFAIL
        /\ pages' = e.newPages
        /\ m' = [h EXCEPT !.contiguous = e.contiguous]
        /\ Finish(IF e.trap THEN "trap" ELSE "null", e.refused)
        /\ UNCHANGED foreign

AcquireAppend(nb, g) ==
    LET h == TryInitAllocator(m)
        e == Acquire(h, nb, g)
    IN  /\ NeedsSystem(h, nb) /\ ~Oversized(nb)
        /\ e.tbase # CMFAIL
        /\ Appends(h, e)
        /\ pages' = e.newPages
        /\ ServeFromTop(AppendToSegment(h, e), nb, e.refused)
        /\ UNCHANGED foreign

AcquireSegment(nb, g) ==
    LET h == TryInitAllocator(m)
        e == Acquire(h, nb, g)
    IN  /\ NeedsSystem(h, nb) /\ ~Oversized(nb)
        /\ e.tbase # CMFAIL
        /\ ~Appends(h, e)
        /\ pages' = e.newPages
        /\ ServeFromTop(AddSegment(h, e), nb, e.refused)
        /\ UNCHANGED foreign

(* A chunk that ends at top is freed: it, with the free chunk before it if *)
(* there is one, becomes part of top.                                      *)
GiveToTop(n) ==
    /\ Initialized(m)
    /\ n >= MinChunkSize
    /\ m.top - n >= NewTop(m.seg.base)
    /\ m' = [m EXCEPT !.top = @ - n, !.topsize = @ + n]
    /\ Finish("none", FALSE)
    /\ UNCHANGED memoryVars

Host(n) == ForeignGrow(n) /\ Finish("none", FALSE) /\ UNCHANGED m

-----------------------------------------------------------------------------
Init ==
    /\ MemoryInit
    /\ m = [seg |-> [base |-> NULL, size |-> 0], older |-> {}, top |-> NULL, topsize |-> 0,
            contiguous |-> TRUE, footprint |-> 0, maxFootprint |-> 0, leastAddr |-> NULL]
    /\ result = [kind |-> "none", refused |-> FALSE]

ChunkSizes == {ChunkSizeFor(w) : w \in Requests}

SysAlloc(nb) ==
    \/ RejectOversized(nb)
    \/ \E g \in Grants : AcquireNothing(nb, g) \/ AcquireAppend(nb, g) \/ AcquireSegment(nb, g)

Next ==
    \/ \E nb \in ChunkSizes : TakeFromTop(nb) \/ SysAlloc(nb)
    \/ \E n \in 1 .. AddrWords : n % MallocAlignment = 0 /\ GiveToTop(n)
    \/ \E n \in 1 .. MaxPages : Host(n)

Spec == Init /\ [][Next]_vars

-----------------------------------------------------------------------------
(* Every address and size is one, and the heap starts with a segment.      *)
TypeOK ==
    /\ pages \in InitialPages .. MaxPages
    /\ foreign \subseteq InitialPages .. pages - 1
    /\ m \in [seg : SegmentRecord, older : SUBSET SegmentRecord,
              top : 0 .. AddrWords - 1, topsize : 0 .. AddrWords,
              contiguous : BOOLEAN, footprint : 0 .. AddrWords,
              maxFootprint : 0 .. AddrWords, leastAddr : 0 .. AddrWords - 1]
    /\ result \in [kind : {"none", "mem", "null", "trap"}, refused : BOOLEAN]

(* Everything the heap owns lies below the break and above the linker's    *)
(* data, and the newest segment is the highest.  Hence no growth ever      *)
(* yields a region that ends where a segment starts: the branch of         *)
(* sys_alloc that prepends to a segment is dead on wasm.                   *)
BelowBreak ==
    \A s \in Segments(m) :
        /\ HeapBase <= s.base
        /\ Limit(s) <= pages * PageWords
        /\ s # m.seg => Limit(s) < m.seg.base

(* Two segments never touch: sys_alloc extended the older one when the new *)
(* region started at its end.  In particular they are disjoint.            *)
SegmentsNeverAbut ==
    \A s, t \in Segments(m) : s # t => Limit(s) < t.base \/ Limit(t) < s.base

(* No word of a page that somebody else grew is ever in a segment, however *)
(* foreign growth falls between the calls: what MORECORE returned is only  *)
(* used to extend a segment that really ends there.                        *)
ForeignPagesUntouched ==
    \A s \in Segments(m), f \in foreign :
        Limit(s) <= f * PageWords \/ (f + 1) * PageWords <= s.base

(* do_check_top_chunk: top is an aligned chunk of the newest segment and,  *)
(* with the words kept for a segment record, fills it to its end.          *)
TopAtSegmentEnd ==
    Initialized(m) =>
        /\ m.top >= NewTop(m.seg.base)
        /\ AlignOffset(Chunk2Mem(m.top)) = 0
        /\ m.topsize >= MinChunkSize /\ m.topsize % MallocAlignment = 0
        /\ m.top + m.topsize + TopFootSize = Limit(m.seg)

TotalSize(S) == MapThenSumSet(LAMBDA s : s.size, S)

(* footprint accounts for every word the heap owns and max_footprint for   *)
(* its peak; ok_address's least_addr is the lowest of them.                *)
FootprintIsSegments ==
    /\ m.footprint = TotalSize(Segments(m))
    /\ m.maxFootprint = m.footprint
    /\ \A s \in Segments(m) : m.leastAddr <= s.base
    /\ Initialized(m) => \E s \in Segments(m) : m.leastAddr = s.base

NearHalf(n)  == n > HalfMaxSizeT - PageWords
SizeWraps(n) == n + PageWords - 1 >= AddrWords

(* sys_alloc returns NULL only when the engine refused to grow the memory  *)
(* or when the request is near half the address space or above; and then   *)
(* it has not grown the memory, except by a first part that it could not   *)
(* complete because top alone is that large.  A request so large that its  *)
(* padded size wraps never grows anything.                                 *)
FailureIsRefusal ==
    [][\A nb \in ChunkSizes :
          SysAlloc(nb) =>
              /\ result'.kind = "null" =>
                    \/ result'.refused
                    \/ NearHalf(nb + SysAllocPadding) /\ UNCHANGED pages
                    \/ NearHalf(TryInitAllocator(m).topsize)
              /\ SizeWraps(nb + SysAllocPadding) => UNCHANGED pages]_vars

(* Whatever a call makes the engine grow is owned by the heap when the     *)
(* call returns, with memory or with NULL: a failing malloc keeps the part *)
(* it did obtain.                                                          *)
Covers(s, f) == s.base <= f * PageWords /\ (f + 1) * PageWords <= Limit(s)

GrownPagesAreOwned ==
    [][\A f \in pages .. pages' - 1 :
          f \in foreign' \/ result'.kind = "trap" \/ \E s \in Segments(m') : Covers(s, f)]_vars

(* sbrk.c: "sbrk(n<0) -> never called".                                    *)
NeverTrims == result.kind # "trap"

(* sbrk.c: "sbrk(0) -> current break (top of valid linear memory)".        *)
BreakIsTopOfMemory == Sbrk(pages, 0, TRUE).ret = pages * PageWords
=============================================================================
