------------------------------ MODULE DlMalloc ------------------------------
(***************************************************************************)
(* dlmalloc's chunk layer over its system layer: boundary tags, the        *)
(* bins, the designated victim dv, and malloc, calloc, free, realloc and   *)
(* aligned_alloc.  "gm" is the malloc_state: SystemLayer's fields plus     *)
(*   tag       prev_foot and head of every chunk, keyed by chunk address   *)
(*   bins      free chunks of each size in the order malloc takes them:    *)
(*             small bins are stacks, equal chunks of a tree queues        *)
(*   smallmap  indices of the small bins marked non-empty                  *)
(* Headers that a chunk has swallowed are forgotten, and a prev_foot word  *)
(* that belongs to a user's block is NoFoot.  A tree is what its lookups   *)
(* promise: the oldest chunk of the smallest size that fits.               *)
(*                                                                         *)
(* The callers are part of the model: they hold the blocks of "live".      *)
(***************************************************************************)
EXTENDS SystemLayer, Sequences, FiniteSets

LOCAL INSTANCE SequencesExt
LOCAL INSTANCE FiniteSetsExt

CONSTANTS Requests,      \* the request sizes, in words, that callers use
          Arrays,        \* counts and sizes of elements that calloc is asked for
          Alignments,    \* the alignments, in words, of aligned_alloc
          MinLargeSize,  \* the smallest size kept in a tree (64 words)
          MaxLive        \* bound: blocks that callers hold at once

ASSUME ChunkAssumption ==
    /\ Requests \subseteq 0 .. MaxSizeT
    /\ Arrays \subseteq (0 .. MaxSizeT) \X (0 .. MaxSizeT)
    /\ Alignments \subseteq 1 .. MaxSizeT
    /\ MinLargeSize \in Nat /\ MinLargeSize % MallocAlignment = 0
    /\ MinLargeSize > MinChunkSize
    /\ MaxLive \in Nat

VARIABLES gm,      \* the malloc_state
          live,    \* the callers' blocks, keyed by chunk address
          call,    \* a realloc or aligned_alloc that has got its new chunk
          result   \* as in SysAlloc: how the system layer's last call ended

vars == <<pages, foreign, gm, live, call, result>>

SystemPart(h) ==
    [f \in {"seg", "older", "top", "topsize", "contiguous", "footprint",
            "maxFootprint", "leastAddr"} |-> h[f]]

(* The system layer is asked for chunks of any size.                       *)
AllRequests ==
    {s - ChunkOverhead : s \in {c \in MinChunkSize .. MaxSizeT : c % MallocAlignment = 0}}
        \cup {MaxSizeT}

Sys == INSTANCE SysAlloc WITH m <- SystemPart(gm), Requests <- AllRequests

With(f, x, v) == [y \in {x} \cup DOMAIN f |-> IF y = x THEN v ELSE f[y]]
Without(f, x) == [y \in DOMAIN f \ {x} |-> f[y]]

NoFoot == 0

-----------------------------------------------------------------------------
(* Boundary tags.                                                          *)

(* The header of a chunk of s words is written at p.  Its prev_foot counts *)
(* only while the chunk before it is free.                                 *)
Laid(t, p, s, pin, cin) ==
    [q \in {p} \cup {x \in DOMAIN t : x < p \/ x >= p + s} |->
        IF q # p THEN t[q]
        ELSE [prevFoot |-> IF pin \/ p \notin DOMAIN t THEN NoFoot ELSE t[p].prevFoot,
              size |-> s, pinuse |-> pin, cinuse |-> cin]]

Lay(h, p, s, pin, cin) == [h EXCEPT !.tag = Laid(@, p, s, pin, cin)]

SetFoot(h, p, s) == [h EXCEPT !.tag[p + s].prevFoot = s]

(* |= PINUSE_BIT: the prev_foot now belongs to the user of the chunk       *)
(* before.  Setting the bit in a header yet to be written leaves it there  *)
(* for set_inuse to find.                                                  *)
SetPinuse(h, p) ==
    IF p \in DOMAIN h.tag
    THEN [h EXCEPT !.tag[p].pinuse = TRUE, !.tag[p].prevFoot = NoFoot]
    ELSE Lay(h, p, 0, TRUE, FALSE)

ClearPinuse(h, p) == [h EXCEPT !.tag[p].pinuse = FALSE]

(* Before its header is written a chunk cut out of a user's block has      *)
(* whatever the user left there; FALSE is the harmful outcome.             *)
PinuseFound(h, p) == p \in DOMAIN h.tag /\ h.tag[p].pinuse

SetInuse(h, p, s)          == SetPinuse(Lay(h, p, s, PinuseFound(h, p), TRUE), p + s)
SetInuseAndPinuse(h, p, s) == SetPinuse(Lay(h, p, s, TRUE, TRUE), p + s)

SetSizeAndPinuseOfInuseChunk(h, p, s) == Lay(h, p, s, TRUE, TRUE)
SetSizeAndPinuseOfFreeChunk(h, p, s)  == SetFoot(Lay(h, p, s, TRUE, FALSE), p, s)

SetFreeWithPinuse(h, p, s, n) == SetSizeAndPinuseOfFreeChunk(ClearPinuse(h, n), p, s)

ChunkSize(h, p) == h.tag[p].size
NextChunk(h, p) == p + h.tag[p].size

-----------------------------------------------------------------------------
(* Bins.                                                                   *)

IsSmall(s)    == s < MinLargeSize
SmallIndex(s) == s \div 2

BinSizes   == {s \in MinChunkSize .. MaxPages * PageWords : s % MallocAlignment = 0}
LargeSizes == {s \in BinSizes : ~IsSmall(s)}

InsertSmallChunk(h, p, s) ==
    [h EXCEPT !.smallmap = @ \cup {SmallIndex(s)},
              !.bins[s] = IF SmallIndex(s) \in h.smallmap THEN Cons(p, @) ELSE <<p>>]

InsertLargeChunk(h, p, s) == [h EXCEPT !.bins[s] = Append(@, p)]

InsertChunk(h, p, s) ==
    IF IsSmall(s) THEN InsertSmallChunk(h, p, s) ELSE InsertLargeChunk(h, p, s)

(* The mark of a small bin goes with its last chunk.                       *)
UnlinkChunk(h, p, s) ==
    [h EXCEPT !.bins[s] = RemoveAt(@, CHOOSE i \in DOMAIN @ : @[i] = p),
              !.smallmap = IF IsSmall(s) /\ h.bins[s] = <<p>> THEN @ \ {SmallIndex(s)} ELSE @]

(* The old dv is small here.                                               *)
ReplaceDv_Lose_Mutant(h, p, s) == [h EXCEPT !.dv = p, !.dvsize = s]

ReplaceDv(h, p, s) ==
    LET binned == IF h.dvsize # 0 THEN InsertSmallChunk(h, h.dv, h.dvsize) ELSE h
    IN  [binned EXCEPT !.dv = p, !.dvsize = s]

-----------------------------------------------------------------------------
(* Allocation from inside the heap.                                        *)

(* The free chunk p of s words is given to the user up to nb words; what   *)
(* is left gets a header of its own if it can be a chunk.                  *)
Splits(s, nb) == s - nb >= MinChunkSize

Cut(h, p, s, nb) ==
    IF Splits(s, nb)
    THEN SetSizeAndPinuseOfFreeChunk(SetSizeAndPinuseOfInuseChunk(h, p, nb), p + nb, s - nb)
    ELSE SetInuseAndPinuse(h, p, s)

Got(h, p) == [h |-> h, p |-> p]

SmallFits(h, nb) == {i \in h.smallmap : i >= SmallIndex(nb)}
TreeFits(h, nb)  == {s \in LargeSizes : s >= nb /\ h.bins[s] # <<>>}

(* From the bins of size s: the remainder becomes dv, or goes into a bin.  *)
TakeForSmall(h, s, nb) ==
    LET p == Head(h.bins[s])
        c == Cut(UnlinkChunk(h, p, s), p, s, nb)
    IN  Got(IF Splits(s, nb) THEN ReplaceDv(c, p + nb, s - nb) ELSE c, p)

TakeForLarge(h, s, nb) ==
    LET p == Head(h.bins[s])
        c == Cut(UnlinkChunk(h, p, s), p, s, nb)
    IN  Got(IF Splits(s, nb) THEN InsertChunk(c, p + nb, s - nb) ELSE c, p)

TakeDv(h, nb) ==
    LET c == Cut(h, h.dv, h.dvsize, nb)
    IN  Got(IF Splits(h.dvsize, nb)
            THEN [c EXCEPT !.dv = @ + nb, !.dvsize = @ - nb]
            ELSE [c EXCEPT !.dv = NULL, !.dvsize = 0], h.dv)

SplitTop(h, nb) ==
    LET r == CutTop(h, nb)
    IN  Got(Lay(SetSizeAndPinuseOfInuseChunk(r, h.top, nb), r.top, r.topsize, TRUE, FALSE), h.top)

(* dv fits better: the subtraction wraps when dv is too small.             *)
TreeBeatsDv_NoWrap_Mutant(h, s, nb) == s - nb < h.dvsize - nb
TreeBeatsDv(h, s, nb) == s - nb < (h.dvsize - nb) % AddrWords

NothingFits == Got([p |-> NULL], NULL)

(* The order in which malloc looks for a chunk of nb words.                *)
FromHeap(h, nb) ==
    LET exact == h.smallmap \cap {SmallIndex(nb), SmallIndex(nb) + 1}
        small == SmallFits(h, nb)
        tree  == TreeFits(h, nb)
    IN  CASE IsSmall(nb) /\ exact # {}                        -> TakeForSmall(h, 2 * Min(exact), nb)
          [] IsSmall(nb) /\ nb > h.dvsize /\ exact = {} /\ small # {}
                                                              -> TakeForSmall(h, 2 * Min(small), nb)
          [] IsSmall(nb) /\ nb > h.dvsize /\ small = {} /\ tree # {}
                                                              -> TakeForSmall(h, Min(tree), nb)
          [] ~IsSmall(nb) /\ tree # {} /\ TreeBeatsDv(h, Min(tree), nb)
                                                              -> TakeForLarge(h, Min(tree), nb)
          [] OTHER -> IF nb <= h.dvsize THEN TakeDv(h, nb)
                      ELSE IF NeedsSystem(h, nb) THEN NothingFits
                      ELSE SplitTop(h, nb)

-----------------------------------------------------------------------------
(* Allocation from new memory.                                             *)

InitTop(h) ==
    Lay(Lay(h, h.top, h.topsize, TRUE, FALSE), h.top + h.topsize, TopFootSize, FALSE, FALSE)

InitAllocator(h) ==
    LET i == TryInitAllocator(h) IN IF Initialized(i) /\ ~Initialized(h) THEN InitTop(i) ELSE h

(* add_segment: the record of the old segment, and a row of fenceposts,    *)
(* take the words kept behind its top; the old top becomes a free chunk.   *)
FencePost == [prevFoot |-> NoFoot, size |-> 1, pinuse |-> TRUE, cinuse |-> TRUE]

AddSegmentTags_NoFence_Mutant(h, e) ==
    LET oldEnd == h.seg.base + h.seg.size
        sp     == h.top + h.topsize
    IN  SetSizeAndPinuseOfInuseChunk(InitTop(AddSegment(h, e)), sp,
                                     PadRequest(SegmentRecordWords))

AddSegmentTags(h, e) ==
    LET oldEnd  == h.seg.base + h.seg.size
        ssize   == PadRequest(SegmentRecordWords)
        rawsp   == oldEnd - (ssize + 4 + (MallocAlignment - 1))
        asp     == rawsp + AlignOffset(Chunk2Mem(rawsp))
        sp      == IF asp < h.top + MinChunkSize THEN h.top ELSE asp
        oldsize == sp - h.top
        pushed  == SetSizeAndPinuseOfInuseChunk(InitTop(AddSegment(h, e)), sp, ssize)
        fenced  == [pushed EXCEPT !.tag = [x \in (sp + ssize .. oldEnd - 2) \cup DOMAIN @ |->
                        IF x \in sp + ssize .. oldEnd - 2 THEN FencePost ELSE @[x]]]
    IN  IF oldsize = 0 THEN fenced
        ELSE InsertChunk(SetFreeWithPinuse(fenced, h.top, oldsize, sp), h.top, oldsize)

Extend(h, e) ==
    IF Appends(h, e) THEN InitTop(AppendToSegment(h, e))
    ELSE IF Initialized(h) THEN AddSegmentTags(h, e)
    ELSE InitTop(AddSegment(h, e))

(* How a call of malloc ends.                                              *)
Outcome(h, p, pg, res) == [h |-> h, p |-> p, pages |-> pg, result |-> res]
Ended(kind, refused)   == [kind |-> kind, refused |-> refused]

FromSystem(h, nb, g) ==
    LET e == Acquire(h, nb, g)
        x == Extend(h, e)
    IN  IF Oversized(nb) THEN Outcome(h, NULL, pages, Ended("null", FALSE))
        ELSE IF e.tbase = CMFAIL THEN
            Outcome([h EXCEPT !.contiguous = e.contiguous], NULL, e.newPages,
                    Ended(IF e.trap THEN "trap" ELSE "null", e.refused))
        ELSE IF NeedsSystem(x, nb) THEN Outcome(x, NULL, e.newPages, Ended("null", e.refused))
        ELSE Outcome(SplitTop(x, nb).h, x.top, e.newPages, Ended("mem", e.refused))

(* dlmalloc, for a chunk of nb words: how it can end.                      *)
MallocOutcomes(nb) ==
    LET h == InitAllocator(gm)
        a == FromHeap(h, nb)
    IN  IF a.p # NULL
        THEN {Outcome(a.h, a.p, pages, IF a.p = h.top THEN Ended("mem", FALSE) ELSE result)}
        ELSE {FromSystem(h, nb, g) : g \in Grants}

-----------------------------------------------------------------------------
(* Giving a chunk back (dlfree and dispose_chunk): it is merged with its   *)
(* free neighbours, into top or dv if one of them is that.                 *)

FreeIntoTop_KeepSize_Mutant(h, p, s) == [Lay(h, p, h.topsize + s, TRUE, FALSE) EXCEPT !.top = p]

FreeIntoTop(h, p, s) ==
    LET t == [Lay(h, p, h.topsize + s, TRUE, FALSE) EXCEPT !.top = p, !.topsize = @ + s]
    IN  IF p = h.dv THEN [t EXCEPT !.dv = NULL, !.dvsize = 0] ELSE t

FreeIntoDv(h, p, s) ==
    SetSizeAndPinuseOfFreeChunk([h EXCEPT !.dv = p, !.dvsize = @ + s], p, h.dvsize + s)

FreeWithNext(h, p, s, next) ==
    LET nsize  == ChunkSize(h, next)
        merged == SetSizeAndPinuseOfFreeChunk(UnlinkChunk(h, next, nsize), p, s + nsize)
    IN  IF p = h.dv THEN [merged EXCEPT !.dvsize = s + nsize]
        ELSE InsertChunk(merged, p, s + nsize)

Dispose_NoBackward_Mutant(h, p, s) ==
    LET next == p + s IN
    CASE h.tag[next].cinuse -> InsertChunk(SetFreeWithPinuse(h, p, s, next), p, s)
      [] next = h.top        -> FreeIntoTop(h, p, s)
      [] next = h.dv         -> FreeIntoDv(h, p, s)
      [] OTHER               -> FreeWithNext(h, p, s, next)

Dispose(h0, p0, s0) ==
    LET next == p0 + s0
        back == ~h0.tag[p0].pinuse
        p    == IF back THEN p0 - h0.tag[p0].prevFoot ELSE p0
        s    == IF back THEN s0 + h0.tag[p0].prevFoot ELSE s0
        h    == IF back /\ p # h0.dv THEN UnlinkChunk(h0, p, h0.tag[p0].prevFoot) ELSE h0
        growsDv == back /\ p = h.dv /\ h.tag[next].pinuse /\ h.tag[next].cinuse
    IN  CASE growsDv -> SetFreeWithPinuse([h EXCEPT !.dvsize = s], p, s, next)
          [] ~growsDv /\ h.tag[next].cinuse -> InsertChunk(SetFreeWithPinuse(h, p, s, next), p, s)
          [] ~h.tag[next].cinuse /\ next = h.top -> FreeIntoTop(h, p, s)
          [] ~h.tag[next].cinuse /\ next = h.dv /\ next # h.top -> FreeIntoDv(h, p, s)
          [] ~h.tag[next].cinuse /\ next \notin {h.top, h.dv} -> FreeWithNext(h, p, s, next)

-----------------------------------------------------------------------------
(* The calls.                                                              *)

NoCall == [op |-> "none"]

(* A caller's block: the chunk size and the alignment it was promised.     *)
Block(nb, align) == [nb |-> nb, align |-> align]

(* What a call of malloc leaves in the allocator and in the system layer.  *)
Leave(o) == gm' = o.h /\ pages' = o.pages /\ result' = o.result /\ UNCHANGED foreign

(* A step that may only move top down.                                     *)
Quiet(h) ==
    /\ gm' = h
    /\ result' = IF h.top # gm.top THEN Ended("none", FALSE) ELSE result
    /\ UNCHANGED memoryVars

(* dlmalloc is asked for w words, and its caller counts on a chunk of nb.  *)
Obtain(w, nb) ==
    /\ call = NoCall /\ Cardinality(DOMAIN live) < MaxLive
    /\ \E o \in MallocOutcomes(ChunkSizeFor(w)) :
          /\ Leave(o)
          /\ live' = IF o.p = NULL THEN live ELSE With(live, o.p, Block(nb, MallocAlignment))
    /\ UNCHANGED call

Malloc(w) == Obtain(w, ChunkSizeFor(w))

(* The square root of size_t's range: 0xffff + 1.                          *)
HalfSize == Max({h \in 1 .. AddrWords : h * h <= 4 * AddrWords})

CallocRequest_Wraps_Mutant(k, e) == (k * e) % AddrWords

(* k elements of e words.  A product that wraps becomes the largest        *)
(* size_t; factors below the square root are not divided to find out.      *)
CallocRequest(k, e) ==
    LET req == (k * e) % AddrWords
    IN  IF /\ k # 0
           /\ k >= HalfSize \/ 4 * e >= HalfSize
           /\ req \div k # e
        THEN MaxSizeT ELSE req

(* The block is cleared, which changes no header.                          *)
Calloc(k, e) == Obtain(CallocRequest(k, e), Request2Size(k * e))

Free(p) ==
    /\ call = NoCall
    /\ Quiet(Dispose(gm, p, ChunkSize(gm, p)))
    /\ live' = Without(live, p)
    /\ UNCHANGED call

(* try_realloc_chunk, for a block that stays where it is.                  *)
StaysPut(p, nb, h) ==
    /\ call = NoCall
    /\ Quiet(h)
    /\ live' = With(live, p, Block(nb, MallocAlignment))
    /\ UNCHANGED call

(* The chunk p of s words keeps nb of them; the rest is disposed of if it  *)
(* can be a chunk.                                                         *)
TrimTo(h, p, s, nb) ==
    IF Splits(s, nb)
    THEN Dispose(SetInuse(SetInuse(h, p, nb), p + nb, s - nb), p + nb, s - nb)
    ELSE SetInuse(h, p, s)

ReallocShrink(p, nb) ==
    LET oldsize == ChunkSize(gm, p)
    IN  /\ oldsize >= nb
        /\ StaysPut(p, nb, TrimTo(gm, p, oldsize, nb))

GrowsIntoTop(p, nb)  == NextChunk(gm, p) = gm.top /\ ChunkSize(gm, p) + gm.topsize > nb
GrowsIntoDv(p, nb)   == NextChunk(gm, p) = gm.dv /\ ChunkSize(gm, p) + gm.dvsize >= nb
GrowsIntoNext(p, nb) ==
    LET next == NextChunk(gm, p)
    IN  /\ next \notin {gm.top, gm.dv} /\ ~gm.tag[next].cinuse
        /\ ChunkSize(gm, p) + ChunkSize(gm, next) >= nb

ReallocIntoTop(p, nb) ==
    LET newtop  == p + nb
        newsize == ChunkSize(gm, p) + gm.topsize - nb
    IN  /\ call = NoCall
        /\ ChunkSize(gm, p) < nb /\ GrowsIntoTop(p, nb)
        /\ gm' = Lay([SetInuse(gm, p, nb) EXCEPT !.top = newtop, !.topsize = newsize],
                     newtop, newsize, TRUE, FALSE)
        /\ result' = Ended("mem", FALSE)
        /\ live' = With(live, p, Block(nb, MallocAlignment))
        /\ UNCHANGED <<pages, foreign, call>>

ReallocIntoDv_NoClear_Mutant(p, nb) ==
    LET sum == ChunkSize(gm, p) + gm.dvsize
    IN  /\ ChunkSize(gm, p) < nb /\ GrowsIntoDv(p, nb)
        /\ StaysPut(p, nb,
              IF Splits(sum, nb) THEN
                  [SetSizeAndPinuseOfFreeChunk(SetInuse(gm, p, nb), p + nb, sum - nb)
                      EXCEPT !.dv = p + nb, !.dvsize = sum - nb]
              ELSE SetInuse(gm, p, sum))

ReallocIntoDv(p, nb) ==
    LET sum == ChunkSize(gm, p) + gm.dvsize
    IN  /\ ChunkSize(gm, p) < nb /\ GrowsIntoDv(p, nb)
        /\ StaysPut(p, nb,
              IF Splits(sum, nb) THEN
                  [ClearPinuse(SetSizeAndPinuseOfFreeChunk(SetInuse(gm, p, nb), p + nb, sum - nb),
                               p + sum)
                      EXCEPT !.dv = p + nb, !.dvsize = sum - nb]
              ELSE [SetInuse(gm, p, sum) EXCEPT !.dv = NULL, !.dvsize = 0])

ReallocIntoNext(p, nb) ==
    LET next == NextChunk(gm, p)
        sum  == ChunkSize(gm, p) + ChunkSize(gm, next)
    IN  /\ ChunkSize(gm, p) < nb /\ GrowsIntoNext(p, nb)
        /\ StaysPut(p, nb, TrimTo(UnlinkChunk(gm, next, ChunkSize(gm, next)), p, sum, nb))

(* Otherwise realloc allocates, copies and frees: the old block stays if   *)
(* there is no new one.                                                    *)
ReallocMove(p, nb) ==
    /\ call = NoCall
    /\ ChunkSize(gm, p) < nb
    /\ ~GrowsIntoTop(p, nb) /\ ~GrowsIntoDv(p, nb) /\ ~GrowsIntoNext(p, nb)
    /\ \E o \in MallocOutcomes(nb) :
          /\ Leave(o)
          /\ call' = IF o.p = NULL THEN NoCall
                     ELSE [op |-> "realloc", old |-> p, p |-> o.p, nb |-> nb]
    /\ UNCHANGED live

ReallocFree_Leak_Mutant ==
    /\ call.op = "realloc"
    /\ Quiet(gm)
    /\ live' = With(Without(live, call.old), call.p, Block(call.nb, MallocAlignment))
    /\ call' = NoCall

ReallocFree ==
    /\ call.op = "realloc"
    /\ Quiet(Dispose(gm, call.old, ChunkSize(gm, call.old)))
    /\ live' = With(Without(live, call.old), call.p, Block(call.nb, MallocAlignment))
    /\ call' = NoCall

Realloc(p, w) ==
    LET nb == Request2Size(w)
    IN  /\ w < MaxRequest
        /\ \/ ReallocShrink(p, nb)
           \/ ReallocIntoTop(p, nb)
           \/ ReallocIntoDv(p, nb)
           \/ ReallocIntoNext(p, nb)
           \/ ReallocMove(p, nb)

(* internal_memalign: a power of two, and enough room to move the block to *)
(* an aligned address behind a leader that can be a chunk.  For an         *)
(* alignment that is none, above half the address space, the doubling      *)
(* wraps to 0 and never stops: the call does not return and is no step.    *)
PowerOfTwo(x) == \A d \in 1 .. x : x % d = 0 => d = 1 \/ d % 2 = 0

RoundedAlignment(a) == Min({x \in a .. 2 * a : PowerOfTwo(x)})

Memalign(a, w) ==
    LET al  == RoundedAlignment(a)
        nb  == Request2Size(w)
        req == nb + al + MinChunkSize - ChunkOverhead
    IN  /\ call = NoCall /\ Cardinality(DOMAIN live) < MaxLive
        /\ a > MallocAlignment /\ al < AddrWords /\ w < MaxRequest - al
        /\ \E o \in MallocOutcomes(ChunkSizeFor(req)) :
              /\ Leave(o)
              /\ call' = IF o.p = NULL THEN NoCall
                         ELSE [op |-> "memalign", p |-> o.p, nb |-> nb, align |-> al]
        /\ UNCHANGED live

AlignUp(x, al) == ((x + al - 1) \div al) * al

AlignedPosition(p, al) ==
    LET br == Mem2Chunk(AlignUp(Chunk2Mem(p), al))
    IN  IF br = p \/ br - p >= MinChunkSize THEN br ELSE br + al

(* The leader is given back, then the spare room at the end.               *)
MemalignTrim ==
    LET p     == call.p
        pos   == AlignedPosition(p, call.align)
        lead  == pos - p
        size  == ChunkSize(gm, p) - lead
        based == IF lead = 0 THEN gm
                 ELSE Dispose(SetInuse(SetInuse(gm, pos, size), p, lead), p, lead)
    IN  /\ call.op = "memalign"
        /\ Quiet(IF size > call.nb + MinChunkSize THEN TrimTo(based, pos, size, call.nb) ELSE based)
        /\ live' = With(live, pos, Block(call.nb, call.align))
        /\ call' = NoCall

Host(n) == ForeignGrow(n) /\ result' = Ended("none", FALSE) /\ UNCHANGED <<gm, live, call>>

-----------------------------------------------------------------------------
Init ==
    /\ MemoryInit
    /\ gm = [seg |-> [base |-> NULL, size |-> 0], older |-> {}, top |-> NULL, topsize |-> 0,
             contiguous |-> TRUE, footprint |-> 0, maxFootprint |-> 0, leastAddr |-> NULL,
             tag |-> [x \in {} |-> 0],
             bins |-> [s \in BinSizes |-> <<>>], smallmap |-> {}, dv |-> NULL, dvsize |-> 0]
    /\ live = [x \in {} |-> 0]
    /\ call = NoCall
    /\ result = Ended("none", FALSE)

Next ==
    \/ \E w \in Requests :
          \/ Malloc(w)
          \/ \E p \in DOMAIN live : Realloc(p, w)
          \/ \E a \in Alignments : Memalign(a, w)
    \/ \E x \in Arrays : Calloc(x[1], x[2])
    \/ \E p \in DOMAIN live : Free(p)
    \/ ReallocFree
    \/ MemalignTrim
    \/ \E n \in 1 .. MaxPages : call = NoCall /\ Host(n)

Spec == Init /\ [][Next]_vars

-----------------------------------------------------------------------------
(* Headers that are not chunks: the fenceposts at the end of an old        *)
(* segment and the fake chunk behind top.                                  *)
Fence(p)  == gm.tag[p].size = 1
Chunks    == {p \in DOMAIN gm.tag : ~Fence(p) /\ p # gm.top + gm.topsize}
FreeSet   == {p \in Chunks : ~gm.tag[p].cinuse}

Address == 0 .. AddrWords - 1

TypeOK ==
    /\ Sys!TypeOK
    /\ DOMAIN gm.tag \subseteq Address
    /\ \A p \in DOMAIN gm.tag :
          gm.tag[p] \in [prevFoot : {NoFoot} \cup BinSizes, size : 1 .. AddrWords,
                          pinuse : BOOLEAN, cinuse : BOOLEAN]
    /\ \A s \in BinSizes : gm.bins[s] \in Seq(Address)
    /\ gm.smallmap \subseteq {SmallIndex(s) : s \in BinSizes \ LargeSizes}
    /\ gm.dv \in Address /\ gm.dvsize \in {0} \cup BinSizes
    /\ DOMAIN live \subseteq Address
    /\ \A p \in DOMAIN live : live[p].nb \in BinSizes /\ live[p].align >= MallocAlignment
    /\ call.op \in {"none", "realloc", "memalign"}

(* traverse_and_check: the chunks of a segment, from its first aligned     *)
(* address to its fenceposts or to top, lie end to end, so every word of   *)
(* the heap belongs to exactly one chunk.                                  *)
Tiled ==
    /\ \A s \in Segments(gm) : NewTop(s.base) \in Chunks
    /\ \A p \in Chunks : gm.tag[p].size % MallocAlignment = 0 /\ NextChunk(gm, p) \in DOMAIN gm.tag
    /\ \A p \in Chunks : \A q \in DOMAIN gm.tag : p < q => NextChunk(gm, p) <= q

(* do_check_inuse_chunk and do_check_free_chunk: the chunk after each one  *)
(* knows whether it is in use, and how long it is if it is not.            *)
TagsAgree ==
    /\ TypeOK
    /\ \A p \in Chunks : gm.tag[NextChunk(gm, p)].pinuse = gm.tag[p].cinuse
    /\ \A p \in FreeSet \ {gm.top} :
          gm.tag[NextChunk(gm, p)].prevFoot = gm.tag[p].size

(* No two consecutive free chunks, top and dv included.                    *)
NoFreeNeighbours == \A p \in FreeSet : gm.tag[p].pinuse

(* A free chunk is top, or dv, or in the bin of its size once; nothing     *)
(* else is in a bin; the mark of a small bin says whether it is empty.     *)
BinsMatch ==
    /\ \A s \in BinSizes :
          /\ Range(gm.bins[s]) = {p \in FreeSet \ {gm.top, gm.dv} : gm.tag[p].size = s}
          /\ IsInjective(gm.bins[s])
          /\ ~IsSmall(s) \/ (SmallIndex(s) \in gm.smallmap <=> gm.bins[s] # <<>>)
    /\ IF gm.dvsize = 0 THEN gm.dv = NULL
       ELSE gm.dv \in FreeSet \ {gm.top} /\ gm.dvsize = gm.tag[gm.dv].size

(* Every chunk in use is held by someone: a caller, a call under way, or   *)
(* the list of segments.  A chunk nobody holds would be leaked for good.   *)
Held ==
    DOMAIN live \cup (IF call = NoCall THEN {} ELSE {call.p})
                \cup {p \in Chunks : Fence(NextChunk(gm, p)) /\ gm.tag[p].cinuse}

NoChunkLeaked == Chunks \ FreeSet = Held

(* A caller's block is a chunk in use, as long and as aligned as promised. *)
BlocksHonoured ==
    \A p \in DOMAIN live :
        /\ p \in Chunks /\ gm.tag[p].cinuse
        /\ gm.tag[p].size >= live[p].nb
        /\ Chunk2Mem(p) % live[p].align = 0

(* The memory grows, or malloc fails, only when no free chunk is large     *)
(* enough: not one in any bin, not dv, not top.                            *)
GrowsOnlyWhenFull ==
    [][\A w \in Requests :
          (Malloc(w) /\ (pages' # pages \/ live' = live)) =>
              /\ \A p \in FreeSet \ {gm.top} : gm.tag[p].size < ChunkSizeFor(w)
              /\ gm.topsize <= ChunkSizeFor(w)]_vars

(* Every step is a step of the system layer, or leaves it alone.           *)
RefinesSysAlloc == Sys!Spec

(* The callers see the abstract allocator: the user's words of a chunk are *)
(* those from its mem to the prev_foot of the next chunk.                  *)
Abs == INSTANCE AllocSpec
         WITH Start     <- HeapBase,
              Alignment <- MallocAlignment,
              blocks    <- [a \in {Chunk2Mem(p) : p \in DOMAIN live} |->
                               live[Mem2Chunk(a)].nb - ChunkOverhead],
              limit     <- pages * PageWords

(* A block that malloc, calloc or aligned_alloc hands out is nobody's yet. *)
Obtains ==
    \/ \E w \in Requests : Malloc(w)
    \/ \E x \in Arrays : Calloc(x[1], x[2])
    \/ MemalignTrim

RefinesAllocSpec == Abs!Spec /\ [][Obtains => Abs!Obtain \/ UNCHANGED live]_vars
=============================================================================
