--------------------------- MODULE SystemLayerProofs ------------------------
(***************************************************************************)
(* Lemmas about SystemLayer for every page size, memory limit and heap     *)
(* base: the invariant of a malloc_state, and what keeps it.               *)
(***************************************************************************)
EXTENDS SystemLayer, WellFoundedInduction, TLAPS

(* A set of numbers has a least one.                                       *)
LEMMA LeastNatural ==
    ASSUME NEW T \in SUBSET Nat, T # {}
    PROVE  \E x \in T : \A y \in T : x <= y
  <1>1. PICK R : R = OpToRel(<, Nat) OBVIOUS
  <1>2. IsWellFoundedOn(R, Nat) BY <1>1, NatLessThanWellFounded
  <1>3. PICK x \in T : \A y \in T : ~(<<y, x>> \in R) BY <1>2, WFMin
  <1>4. \A a \in Nat, b \in Nat : b < a => <<b, a>> \in R BY <1>1 DEF OpToRel
  <1>5. \A y \in T : ~(y < x) BY <1>3, <1>4
  <1> QED BY <1>5

-----------------------------------------------------------------------------
(* Arithmetic of pages.                                                    *)

(* A product is monotone: b pages hold at least one page more than fewer.  *)
LEMMA PagesMonotone ==
    ASSUME NEW a \in Nat, NEW b \in Nat, a < b
    PROVE  /\ a * PageWords \in Nat /\ b * PageWords \in Nat
           /\ (a + 1) * PageWords = a * PageWords + PageWords
           /\ (a + 1) * PageWords <= b * PageWords
  <1>1. PageWords \in Nat BY PageAssumption
  <1>2. PICK d \in Nat : b = a + 1 + d
    <2>1. b - a - 1 \in Nat OBVIOUS
    <2>2. b = a + 1 + (b - a - 1) OBVIOUS
    <2> QED BY <2>1, <2>2
  <1>3. b * PageWords = a * PageWords + PageWords + d * PageWords BY <1>1, <1>2, SMT
  <1>4. d * PageWords \in Nat /\ a * PageWords \in Nat BY <1>1, SMT
  <1>5. (a + 1) * PageWords = a * PageWords + PageWords BY <1>1, SMT
  <1> QED BY <1>1, <1>3, <1>4, <1>5

(* Multiples of the page size are aligned.                                 *)
LEMMA PagesAligned ==
    ASSUME NEW a \in Nat
    PROVE  (a * PageWords) % 4 = 0
  <1>1. PICK k \in Nat : PageWords = 4 * k
    <2>1. PageWords \in Nat /\ PageWords % 4 = 0 BY PageAssumption
    <2>2. PageWords \div 4 \in Nat /\ PageWords = 4 * (PageWords \div 4) BY <2>1, SMT
    <2> QED BY <2>2
  <1>2. a * PageWords = 4 * (a * k) /\ a * k \in Nat BY <1>1, SMT
  <1> QED BY <1>2, SMT

(* Rounding down to a multiple of the page size.                           *)
LEMMA PageFloor ==
    ASSUME NEW x \in Nat
    PROVE  /\ x \div PageWords \in Nat
           /\ (x \div PageWords) * PageWords <= x
           /\ x < (x \div PageWords) * PageWords + PageWords
  <1>1. PageWords \in Nat /\ PageWords > 0 BY PageAssumption
  <1>2. x = (x \div PageWords) * PageWords + (x % PageWords) /\ x % PageWords \in 0 .. PageWords - 1 /\ x \div PageWords \in Nat
    BY <1>1, SMT
  <1>3. (x \div PageWords) * PageWords \in Nat BY <1>1, <1>2, SMT
  <1> QED BY <1>1, <1>2, <1>3

(* A multiple of the page size is the product of its quotient.             *)
LEMMA PageMultiple ==
    ASSUME NEW a \in Nat
    PROVE  (a * PageWords) \div PageWords = a /\ (a * PageWords) % PageWords = 0
  <1>1. PageWords \in Nat /\ PageWords > 0 BY PageAssumption
  <1> QED BY <1>1, SMT

(* The address space holds the memory.                                     *)
LEMMA AddrWordsFacts ==
    /\ AddrWords \in Nat /\ AddrWords >= 2 * PageWords
    /\ AddrWords % 4 = 0
    /\ MaxPages * PageWords <= AddrWords
    /\ HalfMaxSizeT \in Nat
  <1>1. AddrWords = AddrPages * PageWords
    BY PageAssumption, AddrAssumption, SMT DEF AddrWords
  <1>2. AddrWords \in Nat /\ AddrWords >= 2 * PageWords
    <2>1. PICK d \in Nat : AddrPages = 2 + d
      <3>1. AddrPages - 2 \in Nat /\ AddrPages = 2 + (AddrPages - 2) BY AddrAssumption
      <3> QED BY <3>1
    <2>2. d * PageWords \in Nat BY PageAssumption, SMT
    <2>3. AddrPages * PageWords = 2 * PageWords + d * PageWords
      BY <2>1, PageAssumption, SMT
    <2> QED BY <1>1, <2>2, <2>3, PageAssumption
  <1>3. AddrWords % 4 = 0 BY <1>1, PagesAligned, AddrAssumption
  <1>4. MaxPages * PageWords <= AddrWords
    <2>1. CASE MaxPages = AddrPages BY <2>1, <1>1, <1>2
    <2>2. CASE MaxPages < AddrPages
      <3>1. /\ MaxPages * PageWords \in Nat
            /\ (MaxPages + 1) * PageWords = MaxPages * PageWords + PageWords
            /\ (MaxPages + 1) * PageWords <= AddrPages * PageWords
        BY <2>2, PagesMonotone, MemoryAssumption, AddrAssumption
      <3> QED BY <3>1, <1>1, <1>2, PageAssumption
    <2> QED BY <2>1, <2>2, MemoryAssumption, AddrAssumption
  <1>5. HalfMaxSizeT \in Nat BY <1>2, SMT DEF HalfMaxSizeT
  <1> QED BY <1>2, <1>3, <1>4, <1>5

(* granularity_align, when its addition does not wrap: the least multiple  *)
(* of the page size that is not below its argument.                        *)
LEMMA GranularityFacts ==
    ASSUME NEW n \in Nat, n >= 1, n + PageWords - 1 < AddrWords
    PROVE  \E k \in Nat : /\ k >= 1
                          /\ GranularityAlign(n) = k * PageWords
                          /\ GranularityAlign(n) >= n
  <1> DEFINE x == n + PageWords - 1
             k == x \div PageWords
  <1>1. x \in Nat /\ x >= PageWords BY PageAssumption
  <1>2. x % AddrWords = x BY <1>1, AddrWordsFacts, SMT
  <1>3. GranularityAlign(n) = k * PageWords BY <1>2, Zenon DEF GranularityAlign
  <1>4. k \in Nat /\ k * PageWords <= x /\ x < k * PageWords + PageWords
    BY <1>1, PageFloor
  <1>5. k >= 1
    <2>1. SUFFICES ASSUME k = 0 PROVE FALSE BY <1>4
    <2>2. k * PageWords = 0 BY <2>1, PageAssumption, SMT
    <2> HIDE DEF k, x
    <2> QED BY <1>1, <1>4, <2>2, PageAssumption
  <1>6. k * PageWords \in Nat BY <1>4, PageAssumption, SMT
  <1>7. k * PageWords >= n
    <2> HIDE DEF k
    <2> QED BY <1>4, <1>6, PageAssumption
  <1> HIDE DEF k
  <1> QED BY <1>3, <1>4, <1>5, <1>7

(* The size of sys_alloc's request wraps for no nb that passes its check.  *)
LEMMA NoWrap ==
    ASSUME NEW nb \in 0 .. MaxSizeT, ~Oversized(nb)
    PROVE  nb + SysAllocPadding + PageWords - 1 < AddrWords
  <1> DEFINE x == nb + SysAllocPadding + PageWords - 1
             y == x - AddrWords
  <1>1. SysAllocPadding = 18
    BY SMT DEF SysAllocPadding, TopFootSize, AlignOffset, Chunk2Mem, PadRequest,
               SegmentRecordWords, ChunkOverhead, MallocAlignment, MinChunkSize
  <1>2. SUFFICES ASSUME x >= AddrWords PROVE FALSE
    BY <1>1, AddrWordsFacts, PageAssumption DEF MaxSizeT
  <1>3. x \in Nat /\ y \in Nat /\ y < AddrWords /\ y <= nb
    BY <1>1, <1>2, AddrWordsFacts, PageAssumption DEF MaxSizeT
  <1>4. x % AddrWords = y BY <1>3, AddrWordsFacts, SMT
  <1>5. (y \div PageWords) * PageWords <= y /\ y \div PageWords \in Nat BY <1>3, PageFloor
  <1>6. GranularityAlign(nb + SysAllocPadding) = (y \div PageWords) * PageWords
    BY <1>4, Zenon DEF GranularityAlign
  <1>7. (y \div PageWords) * PageWords \in Nat BY <1>5, PageAssumption, SMT
  <1>8. GranularityAlign(nb + SysAllocPadding) <= nb
    <2> HIDE DEF y
    <2> QED BY <1>3, <1>5, <1>6, <1>7
  <1> QED BY <1>8 DEF Oversized

(* sbrk of k >= 1 pages: refused, or the memory's old end.                 *)
LEMMA SbrkGrow ==
    ASSUME NEW pg \in Nat, pg <= MaxPages, NEW k \in Nat, k >= 1,
           NEW inc, inc = k * PageWords, NEW g \in BOOLEAN
    PROVE  /\ Sbrk(pg, inc, g).trap = FALSE
           /\ \/ /\ Sbrk(pg, inc, g).ret = CMFAIL
                 /\ Sbrk(pg, inc, g).newPages = pg
              \/ /\ Sbrk(pg, inc, g).ret = pg * PageWords
                 /\ Sbrk(pg, inc, g).newPages = pg + k
                 /\ pg + k <= MaxPages
                 /\ pg * PageWords # CMFAIL
  <1>1. inc \in Nat /\ inc > 0
    <2>1. 0 * PageWords = 0 BY PageAssumption, SMT
    <2>2. (0 + 1) * PageWords <= k * PageWords /\ (0 + 1) * PageWords = 0 * PageWords + PageWords
          /\ k * PageWords \in Nat
      BY PagesMonotone
    <2> QED BY <2>1, <2>2, PageAssumption
  <1>2. inc \div PageWords = k /\ inc % PageWords = 0 BY PageMultiple
  <1>3. Sbrk(pg, inc, g) =
          IF g /\ pg + k <= MaxPages
          THEN [ret |-> pg * PageWords, newPages |-> pg + k, trap |-> FALSE]
          ELSE [ret |-> CMFAIL, newPages |-> pg, trap |-> FALSE]
    <2>1. inc # 0 /\ ~(inc < 0) /\ ~(inc % PageWords # 0) BY <1>1, <1>2
    <2> QED BY <1>2, <2>1, Zenon DEF Sbrk
  <1>4. ASSUME pg + k <= MaxPages PROVE pg * PageWords # CMFAIL
    <2>1. pg < MaxPages BY <1>4, MemoryAssumption
    <2>2. /\ pg * PageWords \in Nat
          /\ pg * PageWords + PageWords <= MaxPages * PageWords
          /\ MaxPages * PageWords \in Nat
      BY <2>1, PagesMonotone, MemoryAssumption
    <2> QED BY <2>2, AddrWordsFacts, PageAssumption DEF CMFAIL, MaxSizeT
  <1> QED BY <1>3, <1>4

-----------------------------------------------------------------------------
(* The inductive invariant, for a malloc_state h, a memory of pg pages and *)
(* the set fr of foreign pages.                                            *)

HeapType(h) ==
    h \in [seg : SegmentRecord, older : SUBSET SegmentRecord,
           top : 0 .. AddrWords - 1, topsize : 0 .. AddrWords,
           contiguous : BOOLEAN, footprint : 0 .. AddrWords,
           maxFootprint : 0 .. AddrWords, leastAddr : 0 .. AddrWords - 1]

(* The newest segment, with top at its end; the older ones lie below it.   *)
NewestSegment(h, pg) ==
    /\ HeapBase <= h.seg.base
    /\ h.seg.base % 4 = 0
    /\ Limit(h.seg) <= pg * PageWords
    /\ \A s \in h.older : HeapBase <= s.base /\ Limit(s) < h.seg.base

TopShape(h) ==
    /\ h.top >= h.seg.base + 2
    /\ h.top % 4 = 2
    /\ h.topsize >= 4 /\ h.topsize % 4 = 0
    /\ h.top + h.topsize + 14 = Limit(h.seg)

OlderApart(h) ==
    \A s, t \in h.older : s # t => Limit(s) < t.base \/ Limit(t) < s.base

ForeignApart(h, fr) ==
    \A s \in h.older \cup {h.seg}, f \in fr :
        Limit(s) <= f * PageWords \/ (f + 1) * PageWords <= s.base

(* Before the first segment nothing is counted; afterwards no more than    *)
(* the memory's size, so that footprint cannot leave its range.            *)
Accounting(h, pg) ==
    /\ h.footprint <= pg * PageWords
    /\ h.maxFootprint = h.footprint
    /\ ~Initialized(h) => h.topsize = 0 /\ h.footprint = 0 /\ h.older = {}

HeapInv(h, pg, fr) ==
    /\ HeapType(h)
    /\ Accounting(h, pg)
    /\ Initialized(h) => /\ NewestSegment(h, pg)
                         /\ TopShape(h)
                         /\ OlderApart(h)
                         /\ ForeignApart(h, fr)

MemoryInv ==
    /\ pages \in InitialPages .. MaxPages
    /\ foreign \subseteq InitialPages .. pages - 1

-----------------------------------------------------------------------------
(* The constants of the layout, evaluated.                                 *)
LEMMA Layout ==
    /\ SysAllocPadding = 18 /\ TopFootSize = 14
    /\ MallocAlignment = 4 /\ MinChunkSize = 4
    /\ \A b \in Nat : b % 4 = 0 => NewTop(b) = b + 2
    /\ \A b \in Nat, size \in Int : b % 4 = 0 => NewTopSize(b, size) = size - 16
    /\ \A a \in Nat : AlignOffset(Chunk2Mem(a)) = 0 <=> a % 4 = 2
  <1>1. SysAllocPadding = 18 /\ TopFootSize = 14 /\ MallocAlignment = 4 /\ MinChunkSize = 4
    BY SMT DEF SysAllocPadding, TopFootSize, AlignOffset, Chunk2Mem, PadRequest,
               SegmentRecordWords, ChunkOverhead, MallocAlignment, MinChunkSize
  <1>2. \A a \in Nat : AlignOffset(Chunk2Mem(a)) = (4 - ((a + 2) % 4)) % 4
    BY <1>1 DEF AlignOffset, Chunk2Mem
  <1>3. \A b \in Nat : b % 4 = 0 => AlignOffset(Chunk2Mem(b)) = 2
    BY <1>2, SMT
  <1>4. \A a \in Nat : AlignOffset(Chunk2Mem(a)) = 0 <=> a % 4 = 2
    BY <1>2, SMT
  <1>5. \A b \in Nat : b % 4 = 0 => NewTop(b) = b + 2 BY <1>3 DEF NewTop
  <1>6. \A b \in Nat, size \in Int : b % 4 = 0 => NewTopSize(b, size) = size - 16
    BY <1>1, <1>3 DEF NewTopSize
  <1> QED BY <1>1, <1>4, <1>5, <1>6

(* The linker's space lies within the initial memory.                      *)
LEMMA InitialHeapFacts ==
    /\ HeapEnd \in Nat /\ HeapEnd < AddrWords + 1
    /\ InitialHeapSize \in Nat /\ InitialHeapSize % 4 = 0
    /\ HeapBase + InitialHeapSize = HeapEnd
    /\ HeapBase \in Nat /\ HeapBase >= 4 /\ HeapBase % 4 = 0
    /\ InitialHeapUsable => InitialHeapSize >= 24
    /\ \A pg \in Nat : InitialPages <= pg => HeapEnd <= pg * PageWords
  <1>1. HeapEnd \in Nat /\ HeapEnd % 4 = 0
    BY PagesAligned, MemoryAssumption, PageAssumption, SMT DEF HeapEnd
  <1>2. HeapBase \in Nat /\ HeapBase >= 4 /\ HeapBase % 4 = 0 /\ HeapBase <= HeapEnd
    BY HeapAssumption, Layout DEF HeapEnd
  <1>3. InitialHeapSize \in Nat /\ InitialHeapSize % 4 = 0
    BY <1>1, <1>2, SMT DEF InitialHeapSize
  <1>4. InitialHeapUsable => InitialHeapSize >= 24
    BY <1>3, Layout, SMT DEF InitialHeapUsable
  <1>5. ASSUME NEW pg \in Nat, InitialPages <= pg PROVE HeapEnd <= pg * PageWords
    <2>1. CASE InitialPages = pg BY <2>1, <1>1 DEF HeapEnd
    <2>2. CASE InitialPages < pg
      <3>1. /\ InitialPages * PageWords + PageWords <= pg * PageWords
            /\ pg * PageWords \in Nat
        BY <2>2, PagesMonotone, MemoryAssumption
      <3> QED BY <3>1, <1>1, PageAssumption DEF HeapEnd
    <2> QED BY <2>1, <2>2, <1>5, MemoryAssumption
  <1>6. HeapEnd < AddrWords + 1
    <2>1. HeapEnd <= MaxPages * PageWords /\ MaxPages * PageWords \in Nat
      BY <1>5, MemoryAssumption, PageAssumption, SMT
    <2> QED BY <2>1, <1>1, AddrWordsFacts
  <1> QED BY <1>1, <1>2, <1>3, <1>4, <1>5, <1>6 DEF InitialHeapSize

(* try_init_allocator keeps the invariant: the linker's space becomes the  *)
(* first segment.                                                          *)
LEMMA TryInitKeeps ==
    ASSUME MemoryInv, NEW b, HeapInv(b, pages, foreign)
    PROVE  HeapInv(TryInitAllocator(b), pages, foreign)
  <1> DEFINE h == TryInitAllocator(b)
             n == InitialHeapSize
  <1>1. CASE Initialized(b) \/ ~InitialHeapUsable
    BY <1>1 DEF TryInitAllocator
  <1>2. CASE ~(Initialized(b) \/ ~InitialHeapUsable)
    <2>1. /\ n \in Nat /\ n >= 24 /\ n % 4 = 0
          /\ HeapBase \in Nat /\ HeapBase >= 4 /\ HeapBase % 4 = 0
          /\ HeapBase + n = HeapEnd /\ HeapBase + n <= AddrWords
          /\ HeapBase + n <= InitialPages * PageWords
          /\ HeapBase + n <= pages * PageWords
          /\ AddrWords \in Nat
      BY <1>2, InitialHeapFacts, AddrWordsFacts, MemoryAssumption DEF MemoryInv, HeapEnd
    <2>2. NewTop(HeapBase) = HeapBase + 2 /\ NewTopSize(HeapBase, n) = n - 16
      BY <2>1, Layout
    <2>3. h = [b EXCEPT !.seg = [base |-> HeapBase, size |-> n],
                        !.top = HeapBase + 2, !.topsize = n - 16,
                        !.footprint = n, !.maxFootprint = n, !.leastAddr = HeapBase]
      BY <1>2, <2>2 DEF TryInitAllocator
    <2>4. HeapType(b) /\ b.older = {} BY <1>2 DEF HeapInv, Accounting
    <2>5. /\ h.seg = [base |-> HeapBase, size |-> n] /\ h.older = {}
          /\ h.top = HeapBase + 2 /\ h.topsize = n - 16
          /\ h.footprint = n /\ h.maxFootprint = n /\ h.leastAddr = HeapBase
      BY <2>3, <2>4 DEF HeapType
    <2>6. HeapType(h)
      <3>1. [base |-> HeapBase, size |-> n] \in SegmentRecord
        BY <2>1 DEF SegmentRecord
      <3>2. /\ HeapBase + 2 \in 0 .. AddrWords - 1 /\ n - 16 \in 0 .. AddrWords
            /\ n \in 0 .. AddrWords /\ HeapBase \in 0 .. AddrWords - 1
        BY <2>1
      <3> HIDE DEF h, n
      <3> QED BY <2>3, <2>4, <3>1, <3>2 DEF HeapType
    <2> HIDE DEF h, n
    <2>7. Accounting(h, pages)
      <3>1. pages * PageWords \in Nat BY MemoryAssumption, PageAssumption, SMT DEF MemoryInv
      <3>2. Initialized(h) BY <2>1, <2>5 DEF Initialized, NULL
      <3> QED BY <2>1, <2>5, <3>1, <3>2 DEF Accounting
    <2>8. NewestSegment(h, pages) BY <2>1, <2>5 DEF NewestSegment, Limit
    <2>9. TopShape(h)
      <3>1. (HeapBase + 2) % 4 = 2 /\ (n - 16) % 4 = 0 /\ n - 16 >= 4 BY <2>1, SMT
      <3> QED BY <2>1, <2>5, <3>1 DEF TopShape, Limit
    <2>10. OlderApart(h) BY <2>5 DEF OlderApart
    <2>11. ForeignApart(h, foreign)
      <3> SUFFICES ASSUME NEW f \in foreign
                   PROVE  HeapBase + n <= f * PageWords
        BY <2>5 DEF ForeignApart, Limit
      <3>1. f \in Nat /\ InitialPages <= f BY MemoryAssumption DEF MemoryInv
      <3>2. HeapEnd <= f * PageWords BY <3>1, InitialHeapFacts
      <3> QED BY <3>2, <2>1
    <2>12. HeapInv(h, pages, foreign) BY <2>6, <2>7, <2>8, <2>9, <2>10, <2>11 DEF HeapInv
    <2> QED BY <2>12 DEF h
  <1> QED BY <1>1, <1>2

-----------------------------------------------------------------------------
(* What an extension may be.                                               *)
ExtensionOK(e) ==
    /\ e.newPages \in pages .. MaxPages
    /\ e.trap \in BOOLEAN /\ e.contiguous \in BOOLEAN /\ e.refused \in BOOLEAN
    /\ e.tbase # CMFAIL =>
         /\ e.tbase = pages * PageWords
         /\ e.newPages > pages
         /\ e.tsize \in Nat /\ e.tsize >= PageWords /\ e.tsize % 4 = 0
         /\ e.tbase + e.tsize <= e.newPages * PageWords

(* A region of k pages at the old end of the memory is an extension.       *)
LEMMA RegionIsExtension ==
    ASSUME MemoryInv, NEW k \in Nat, k >= 1, pages + k <= MaxPages,
           NEW e, e.tbase = pages * PageWords, e.tsize = k * PageWords,
           NEW pg \in pages + k .. MaxPages, e.newPages = pg,
           e.trap \in BOOLEAN, e.contiguous \in BOOLEAN, e.refused \in BOOLEAN
    PROVE  ExtensionOK(e)
  <1>1. pages \in Nat BY MemoryAssumption DEF MemoryInv
  <1>2. (pages + k) * PageWords = pages * PageWords + k * PageWords
    BY <1>1, PageAssumption, SMT
  <1>3. (pages + k) * PageWords <= pg * PageWords
    <2>1. CASE pg = pages + k BY <2>1, <1>1, PageAssumption, SMT
    <2>2. CASE pages + k < pg
      <3>1. /\ (pages + k) * PageWords \in Nat /\ pg * PageWords \in Nat
            /\ (pages + k) * PageWords + PageWords <= pg * PageWords
        BY <2>2, <1>1, PagesMonotone, MemoryAssumption
      <3> QED BY <3>1, PageAssumption
    <2> QED BY <2>1, <2>2, <1>1, MemoryAssumption
  <1>4. k * PageWords \in Nat /\ k * PageWords >= PageWords /\ (k * PageWords) % 4 = 0
    <2>1. 0 * PageWords = 0 BY PageAssumption, SMT
    <2>2. /\ (0 + 1) * PageWords <= k * PageWords
          /\ (0 + 1) * PageWords = 0 * PageWords + PageWords /\ k * PageWords \in Nat
      BY PagesMonotone
    <2> QED BY <2>1, <2>2, PagesAligned, PageAssumption
  <1> QED BY <1>1, <1>2, <1>3, <1>4, MemoryAssumption DEF ExtensionOK

(* Nothing obtained is an extension as well.                               *)
LEMMA NothingIsExtension ==
    ASSUME MemoryInv, NEW c \in BOOLEAN, NEW t \in BOOLEAN, NEW r \in BOOLEAN,
           NEW pg \in pages .. MaxPages
    PROVE  ExtensionOK(Extension(CMFAIL, 0, pg, c, t, r))
  BY MemoryAssumption DEF ExtensionOK, Extension, MemoryInv

(* The padded request is a positive number of pages.                       *)
LEMMA RequestPages ==
    ASSUME NEW nb \in 0 .. MaxSizeT, ~Oversized(nb), NEW less \in 0 .. nb
    PROVE  /\ nb - less + SysAllocPadding \in Nat
           /\ \E k \in Nat : /\ k >= 1
                             /\ GranularityAlign(nb - less + SysAllocPadding) = k * PageWords
                             /\ GranularityAlign(nb - less + SysAllocPadding)
                                  >= nb - less + SysAllocPadding
  <1>1. nb + 18 + PageWords - 1 < AddrWords /\ nb \in Nat
    BY NoWrap, Layout, AddrWordsFacts DEF MaxSizeT
  <1>2. nb - less + 18 \in Nat /\ nb - less + 18 >= 1
        /\ nb - less + 18 + PageWords - 1 < AddrWords
    BY <1>1, AddrWordsFacts, PageAssumption
  <1> DEFINE n == nb - less + SysAllocPadding
  <1>3. n \in Nat /\ n >= 1 /\ n + PageWords - 1 < AddrWords BY <1>2, Layout
  <1> HIDE DEF n
  <1>4. \E k \in Nat : k >= 1 /\ GranularityAlign(n) = k * PageWords /\ GranularityAlign(n) >= n
    BY <1>3, GranularityFacts
  <1> QED BY <1>3, <1>4 DEF n

ObtainedNothing(e) == e.newPages = pages /\ e.tbase = CMFAIL

(* The noncontiguous branch, when the other one obtained nothing.          *)
LEMMA NoncontiguousFacts ==
    ASSUME MemoryInv, NEW nb \in 0 .. MaxSizeT, ~Oversized(nb), NEW g \in BOOLEAN,
           NEW e, ExtensionOK(e), ObtainedNothing(e)
    PROVE  ExtensionOK(NoncontiguousMorecore(nb, e, g))
  <1> DEFINE asize == GranularityAlign(nb + SysAllocPadding)
             got   == Sbrk(pages, asize, g)
             end   == Sbrk(got.newPages, 0, TRUE).ret
             new   == Extension(got.ret, end - got.ret, got.newPages, e.contiguous, FALSE, e.refused)
             old   == Extension(CMFAIL, 0, got.newPages, e.contiguous, FALSE,
                                e.refused \/ got.ret = CMFAIL)
             N     == NoncontiguousMorecore(nb, e, g)
  <1> SUFFICES ExtensionOK(N) OBVIOUS
  <1>1. pages \in Nat /\ pages <= MaxPages /\ MaxPages \in Nat
    BY MemoryAssumption DEF MemoryInv
  <1>2. PICK k \in Nat : k >= 1 /\ asize = k * PageWords
    <2>1. nb - 0 + SysAllocPadding = nb + SysAllocPadding /\ 0 \in 0 .. nb
      BY Layout, AddrWordsFacts DEF MaxSizeT
    <2> HIDE DEF asize
    <2> QED BY <2>1, RequestPages DEF asize
  <1>3. \/ got.ret = CMFAIL /\ got.newPages = pages
        \/ /\ got.ret = pages * PageWords /\ got.newPages = pages + k /\ pages + k <= MaxPages
    <2> HIDE DEF asize
    <2> QED BY <1>1, <1>2, SbrkGrow, ZenonT(60)
  <1>4. end = (got.newPages * PageWords) % AddrWords
    <2> HIDE DEF got
    <2> QED BY DEF Sbrk
  <1>5. \/ N = e
        \/ N = old
        \/ N = new /\ got.ret # CMFAIL /\ got.ret < end
    BY DEF NoncontiguousMorecore, ObtainedNothing
  <1> HIDE DEF N, got, end, asize
  <1>6. CASE N = e BY <1>6
  <1>7. CASE N = old
    <2>1. got.newPages \in pages .. MaxPages BY <1>1, <1>3
    <2>2. (e.refused \/ got.ret = CMFAIL) \in BOOLEAN OBVIOUS
    <2>3. e.contiguous \in BOOLEAN BY DEF ExtensionOK
    <2>4. ExtensionOK(old) BY <2>1, <2>2, <2>3, NothingIsExtension
    <2> QED BY <1>7, <2>4
  <1>8. CASE N = new /\ got.ret # CMFAIL /\ got.ret < end
    <2>1. /\ got.ret = pages * PageWords /\ got.newPages = pages + k /\ pages + k <= MaxPages
          /\ got.ret + asize = (pages + k) * PageWords
      <3>1. got.ret = pages * PageWords /\ got.newPages = pages + k /\ pages + k <= MaxPages
        BY <1>3, <1>8
      <3>2. pages * PageWords + k * PageWords = (pages + k) * PageWords
        BY <1>1, PageAssumption, SMT
      <3> QED BY <1>2, <3>1, <3>2
    <2>2. end = got.ret + asize
      <3> DEFINE x == (pages + k) * PageWords
                 y == MaxPages * PageWords
      <3>1. x \in Nat /\ x <= AddrWords
        <4>1. x \in Nat /\ y \in Nat BY <1>1, MemoryAssumption, PageAssumption, SMT
        <4>2. x <= y
          <5>1. CASE pages + k = MaxPages BY <5>1, <4>1
          <5>2. CASE pages + k < MaxPages
            <6>1. x + PageWords <= y
              BY <5>2, <1>1, PagesMonotone, MemoryAssumption
            <6> HIDE DEF x, y
            <6> QED BY <6>1, <4>1, PageAssumption
          <5> QED BY <5>1, <5>2, <2>1, <1>1, MemoryAssumption
        <4> HIDE DEF x
        <4> QED BY <4>1, <4>2, AddrWordsFacts
      <3>2. end = x % AddrWords BY <1>4, <2>1
      <3>3. got.ret \in Nat BY <2>1, <1>1, PageAssumption, SMT
      <3> HIDE DEF x
      <3>4. CASE x = AddrWords
        <4>1. end = 0 BY <3>2, <3>4, AddrWordsFacts, PageAssumption, SMT
        <4> QED BY <4>1, <3>3, <1>8
      <3>5. CASE x < AddrWords
        <4>1. end = x BY <3>1, <3>2, <3>5, AddrWordsFacts, SMT
        <4> QED BY <4>1, <2>1 DEF x
      <3> QED BY <3>1, <3>4, <3>5, AddrWordsFacts
    <2>3. asize \in Nat /\ got.ret \in Nat BY <1>1, <1>2, <2>1, PageAssumption, SMT
    <2>4. end - got.ret = k * PageWords BY <1>2, <2>2, <2>3
    <2>5. /\ new.tbase = pages * PageWords /\ new.tsize = k * PageWords
          /\ new.newPages = pages + k /\ new.trap = FALSE
          /\ new.contiguous = e.contiguous /\ new.refused = e.refused
      BY <2>1, <2>4 DEF Extension
    <2>6. e.contiguous \in BOOLEAN /\ e.refused \in BOOLEAN BY DEF ExtensionOK
    <2>7. pages + k \in pages + k .. MaxPages BY <1>1, <2>1
    <2> HIDE DEF new
    <2>8. ExtensionOK(new) BY <1>2, <2>1, <2>5, <2>6, <2>7, RegionIsExtension
    <2> QED BY <1>8, <2>8
  <1> QED BY <1>5, <1>6, <1>7, <1>8

(* The second half of a partial failure: br is where k pages were grown.   *)
LEMMA CopeFacts ==
    ASSUME MemoryInv, NEW nb \in 0 .. MaxSizeT, ~Oversized(nb), NEW g \in BOOLEAN,
           NEW k \in Nat, k >= 1, pages + k <= MaxPages,
           NEW ssize, ssize = k * PageWords, pages * PageWords # CMFAIL
    PROVE  LET e == CopeWithPartialFailure(nb, pages * PageWords, ssize, pages + k, g)
           IN  ExtensionOK(e) /\ (e.tbase # CMFAIL \/ e.trap)
  <1> DEFINE br    == pages * PageWords
             pg    == pages + k
             esize == GranularityAlign(nb + SysAllocPadding - ssize)
             more  == Sbrk(pg, esize, g)
             back  == Sbrk(pg, -ssize, FALSE)
             all   == Extension(br, ssize + esize, more.newPages, TRUE, FALSE, FALSE)
             part  == Extension(br, ssize, pg, TRUE, FALSE, FALSE)
             trap  == Extension(CMFAIL, 0, back.newPages, back.trap, back.trap, TRUE)
             e     == CopeWithPartialFailure(nb, br, ssize, pg, g)
  <1> SUFFICES ExtensionOK(e) /\ (e.tbase # CMFAIL \/ e.trap) OBVIOUS
  <1>1. pages \in Nat /\ pages <= MaxPages /\ MaxPages \in Nat /\ pg \in Nat /\ pg <= MaxPages
    BY MemoryAssumption DEF MemoryInv
  <1>2. ssize \in Nat /\ ssize >= PageWords
    <2>1. 0 * PageWords = 0 BY PageAssumption, SMT
    <2>2. /\ (0 + 1) * PageWords <= k * PageWords
          /\ (0 + 1) * PageWords = 0 * PageWords + PageWords /\ k * PageWords \in Nat
      BY PagesMonotone
    <2> QED BY <2>1, <2>2, PageAssumption
  <1>3. \/ e = part
        \/ e = all /\ ssize < nb + SysAllocPadding /\ more.ret # CMFAIL
        \/ e = trap
    BY DEF CopeWithPartialFailure
  <1> HIDE DEF e
  <1>4. CASE e = part
    <2>1. /\ part.tbase = pages * PageWords /\ part.tsize = k * PageWords
          /\ part.newPages = pages + k
          /\ part.trap = FALSE /\ part.contiguous = TRUE /\ part.refused = FALSE
      BY DEF Extension
    <2>2. pg \in pages + k .. MaxPages BY <1>1
    <2> HIDE DEF part
    <2>3. ExtensionOK(part) BY <2>1, <2>2, RegionIsExtension
    <2> QED BY <1>4, <2>1, <2>3
  <1>5. CASE e = all /\ ssize < nb + SysAllocPadding /\ more.ret # CMFAIL
    <2>1. PICK j \in Nat : j >= 1 /\ esize = j * PageWords
      <3> DEFINE n == nb + SysAllocPadding - ssize
      <3>1. nb + 18 + PageWords - 1 < AddrWords /\ nb \in Nat
        BY NoWrap, Layout, AddrWordsFacts DEF MaxSizeT
      <3>2. n \in Nat /\ n >= 1 /\ n + PageWords - 1 < AddrWords
        BY <1>2, <1>5, <3>1, Layout, AddrWordsFacts, PageAssumption
      <3> HIDE DEF n
      <3>3. \E j \in Nat : j >= 1 /\ GranularityAlign(n) = j * PageWords
        BY <3>2, GranularityFacts
      <3> QED BY <3>3 DEF n
    <2> HIDE DEF esize
    <2>2. more.newPages = pg + j /\ pg + j <= MaxPages
      <3>1. \/ more.ret = CMFAIL
            \/ more.newPages = pg + j /\ pg + j <= MaxPages
        <4> HIDE DEF pg
        <4> QED BY <1>1, <2>1, SbrkGrow, ZenonT(60)
      <3> QED BY <1>5, <3>1
    <2>3. ssize + esize = (k + j) * PageWords BY <2>1, PageAssumption, SMT
    <2>4. /\ all.tbase = pages * PageWords /\ all.tsize = (k + j) * PageWords
          /\ all.newPages = pages + (k + j)
          /\ all.trap = FALSE /\ all.contiguous = TRUE /\ all.refused = FALSE
      <3> HIDE DEF more
      <3> QED BY <2>2, <2>3, <1>1, <2>1 DEF Extension
    <2>5. k + j \in Nat /\ k + j >= 1 /\ pages + (k + j) <= MaxPages
          /\ pages + (k + j) \in pages + (k + j) .. MaxPages
      BY <1>1, <2>1, <2>2
    <2> HIDE DEF all
    <2>6. ExtensionOK(all)
      <3> DEFINE i == k + j
      <3>1. /\ all.tbase = pages * PageWords /\ all.tsize = i * PageWords
            /\ all.newPages = pages + i
            /\ i \in Nat /\ i >= 1 /\ pages + i <= MaxPages
            /\ pages + i \in pages + i .. MaxPages
        BY <2>4, <2>5
      <3> HIDE DEF i
      <3> QED BY <2>4, <3>1, RegionIsExtension
    <2> QED BY <1>5, <2>4, <2>6
  <1>6. CASE e = trap
    <2>1. -ssize < 0 /\ -ssize # 0 BY <1>2, PageAssumption
    <2>2. back = [ret |-> CMFAIL, newPages |-> pg, trap |-> TRUE] BY <2>1, Zenon DEF Sbrk
    <2>3. trap = Extension(CMFAIL, 0, pg, TRUE, TRUE, TRUE)
      <3> HIDE DEF back
      <3>1. back.newPages = pg /\ back.trap = TRUE BY <2>2
      <3> QED BY <3>1
    <2>4. pg \in pages .. MaxPages BY <1>1
    <2>5. ExtensionOK(trap) BY <2>3, <2>4, NothingIsExtension
    <2>6. trap.trap = TRUE BY <2>3 DEF Extension
    <2> QED BY <1>6, <2>5, <2>6
  <1> QED BY <1>3, <1>4, <1>5, <1>6

(* Either way, what sys_alloc obtains is an extension.                     *)
LEMMA AcquireFacts ==
    ASSUME MemoryInv, NEW h, HeapInv(h, pages, foreign),
           NEW nb \in 0 .. MaxSizeT, ~Oversized(nb), NeedsSystem(h, nb), NEW g \in Grants
    PROVE  ExtensionOK(Acquire(h, nb, g))
  <1> DEFINE none == Extension(CMFAIL, 0, pages, FALSE, FALSE, FALSE)
             cont == ContiguousMorecore(h, nb, g)
             e    == IF h.contiguous THEN cont ELSE none
  <1>1. pages \in Nat /\ pages <= MaxPages /\ MaxPages \in Nat
        /\ pages \in pages .. MaxPages
    BY MemoryAssumption DEF MemoryInv
  <1>2. g[1] \in BOOLEAN /\ g[2] \in BOOLEAN /\ g[3] \in BOOLEAN
    BY DEF Grants
  <1>3. ExtensionOK(none) /\ ObtainedNothing(none)
    BY <1>1, NothingIsExtension DEF ObtainedNothing, Extension
  <1>4. ExtensionOK(cont) /\ (cont.tbase # CMFAIL \/ cont.trap \/ ObtainedNothing(cont))
    <2> DEFINE holding == {s \in Segments(h) : SegmentHolds(s, h.top)}
               ssize == IF holding = {} THEN GranularityAlign(nb + SysAllocPadding)
                        ELSE GranularityAlign(nb - h.topsize + SysAllocPadding)
               wanted == IF holding = {} THEN {Sbrk(pages, 0, TRUE).ret}
                         ELSE {SegmentEnd(s) : s \in holding}
               got  == Sbrk(pages, ssize, g[1])
               lost == Extension(CMFAIL, 0, pages, FALSE, FALSE, TRUE)
               good == Extension(got.ret, ssize, got.newPages, TRUE, FALSE, FALSE)
               cope == CopeWithPartialFailure(nb, got.ret, ssize, got.newPages, g[2])
    <2>1. \/ cont = none
          \/ cont = lost
          \/ cont = good /\ got.ret # CMFAIL
          \/ cont = cope /\ got.ret # CMFAIL
      BY Zenon DEF ContiguousMorecore
    <2>2. PICK k \in Nat : k >= 1 /\ ssize = k * PageWords
      <3>1. nb \in Nat BY AddrWordsFacts DEF MaxSizeT
      <3>2. h.topsize \in 0 .. nb /\ 0 \in 0 .. nb /\ nb - 0 + SysAllocPadding = nb + SysAllocPadding
        BY <3>1, AddrWordsFacts, Layout DEF HeapInv, HeapType, NeedsSystem
      <3>3. /\ \E k \in Nat : k >= 1 /\ GranularityAlign(nb - h.topsize + SysAllocPadding) = k * PageWords
            /\ \E k \in Nat : k >= 1 /\ GranularityAlign(nb + SysAllocPadding) = k * PageWords
        BY <3>2, RequestPages
      <3> HIDE DEF holding
      <3> QED BY <3>3
    <2> HIDE DEF ssize, cont, none
    <2>3. \/ got.ret = CMFAIL
          \/ /\ got.ret = pages * PageWords /\ got.newPages = pages + k
             /\ pages + k <= MaxPages /\ pages * PageWords # CMFAIL
      BY <1>1, <1>2, <2>2, SbrkGrow, ZenonT(60)
    <2> HIDE DEF got
    <2>4. CASE cont = none BY <2>4, <1>3
    <2>5. CASE cont = lost
      BY <2>5, <1>1, NothingIsExtension DEF ObtainedNothing, Extension
    <2>6. CASE cont = good /\ got.ret # CMFAIL
      <3>1. /\ got.ret = pages * PageWords /\ got.newPages = pages + k
            /\ pages + k <= MaxPages /\ pages * PageWords # CMFAIL
        BY <2>3, <2>6
      <3>2. /\ good.tbase = pages * PageWords /\ good.tsize = k * PageWords
            /\ good.newPages = pages + k
            /\ good.trap = FALSE /\ good.contiguous = TRUE /\ good.refused = FALSE
        BY <3>1, <2>2 DEF Extension
      <3>3. pages + k \in pages + k .. MaxPages BY <1>1, <3>1
      <3> HIDE DEF good
      <3>4. ExtensionOK(good) BY <2>2, <3>1, <3>2, <3>3, RegionIsExtension
      <3> QED BY <2>6, <3>1, <3>2, <3>4
    <2>7. CASE cont = cope /\ got.ret # CMFAIL
      <3>1. /\ got.ret = pages * PageWords /\ got.newPages = pages + k
            /\ pages + k <= MaxPages /\ pages * PageWords # CMFAIL
        BY <2>3, <2>7
      <3>2. cope = CopeWithPartialFailure(nb, pages * PageWords, ssize, pages + k, g[2])
        BY <3>1
      <3> HIDE DEF cope
      <3> QED BY <2>7, <1>2, <2>2, <3>1, <3>2, CopeFacts
    <2> QED BY <2>1, <2>4, <2>5, <2>6, <2>7
  <1> HIDE DEF none, cont
  <1>5. ExtensionOK(e) /\ (e.tbase # CMFAIL \/ e.trap \/ ObtainedNothing(e))
    BY <1>3, <1>4
  <1>6. Acquire(h, nb, g) = IF e.tbase = CMFAIL /\ ~e.trap
                            THEN NoncontiguousMorecore(nb, e, g[3]) ELSE e
    BY Zenon DEF Acquire, none, cont
  <1> HIDE DEF e
  <1>7. CASE e.tbase = CMFAIL /\ ~e.trap
    <2>1. ObtainedNothing(e) BY <1>5, <1>7
    <2> QED BY <1>2, <1>5, <1>6, <1>7, <2>1, NoncontiguousFacts
  <1>8. CASE ~(e.tbase = CMFAIL /\ ~e.trap) BY <1>5, <1>6, <1>8
  <1> QED BY <1>7, <1>8

-----------------------------------------------------------------------------
(* What the calls do to the malloc_state.                                  *)

(* The memory's end is an address, or the end of the address space.        *)
LEMMA MemoryEnd ==
    ASSUME NEW pg \in Nat, pg <= MaxPages
    PROVE  pg * PageWords \in Nat /\ pg * PageWords <= AddrWords
  <1>1. pg * PageWords \in Nat /\ MaxPages * PageWords \in Nat
    BY MemoryAssumption, PageAssumption, SMT
  <1>2. CASE pg = MaxPages BY <1>1, <1>2, AddrWordsFacts
  <1>3. CASE pg < MaxPages
    <2>1. pg * PageWords + PageWords <= MaxPages * PageWords
      BY <1>3, PagesMonotone, MemoryAssumption
    <2> QED BY <1>1, <2>1, AddrWordsFacts, PageAssumption
  <1> QED BY <1>2, <1>3, MemoryAssumption

(* Top moves within the newest segment: a chunk is cut off its front, or   *)
(* freed chunks next to it join it.                                        *)
LEMMA TopMoves ==
    ASSUME NEW h, NEW pg \in Nat, pg <= MaxPages, NEW fr, HeapInv(h, pg, fr), Initialized(h),
           NEW t \in Nat, NEW n \in Nat, t + n = h.top + h.topsize,
           t >= h.seg.base + 2, t % 4 = 2, n >= 4, n % 4 = 0
    PROVE  /\ HeapInv([h EXCEPT !.top = t, !.topsize = n], pg, fr)
           /\ Initialized([h EXCEPT !.top = t, !.topsize = n])
  <1> DEFINE k == [h EXCEPT !.top = t, !.topsize = n]
  <1>1. /\ HeapType(h) /\ TopShape(h) /\ NewestSegment(h, pg) /\ OlderApart(h)
        /\ ForeignApart(h, fr) /\ Accounting(h, pg)
    BY DEF HeapInv
  <1>2. /\ h.top \in Nat /\ h.topsize \in Nat
        /\ h.seg.base \in Nat /\ h.seg.size \in Nat /\ h.seg.size <= AddrWords
    BY <1>1, AddrWordsFacts DEF HeapType, SegmentRecord
  <1>3. /\ k.top = t /\ k.topsize = n /\ k.seg = h.seg /\ k.older = h.older
        /\ k.footprint = h.footprint /\ k.maxFootprint = h.maxFootprint
    BY <1>1 DEF HeapType
  <1>4. h.top + h.topsize + 14 = h.seg.base + h.seg.size BY <1>1 DEF TopShape, Limit
  <1>5. h.seg.base + h.seg.size <= AddrWords
    <2>1. pg * PageWords \in Nat /\ pg * PageWords <= AddrWords BY MemoryEnd
    <2>2. h.seg.base + h.seg.size <= pg * PageWords BY <1>1 DEF NewestSegment, Limit
    <2> QED BY <1>2, <2>1, <2>2, AddrWordsFacts
  <1>6. t \in 0 .. AddrWords - 1 /\ n \in 0 .. AddrWords
    BY <1>2, <1>4, <1>5, AddrWordsFacts
  <1>7. HeapType(k) BY <1>1, <1>6 DEF HeapType
  <1> HIDE DEF k
  <1>8. TopShape(k) BY <1>2, <1>3, <1>4 DEF TopShape, Limit
  <1>9. NewestSegment(k, pg) /\ OlderApart(k) /\ ForeignApart(k, fr)
    BY <1>1, <1>3 DEF NewestSegment, OlderApart, ForeignApart
  <1>10. Initialized(k) BY <1>2, <1>3 DEF Initialized, NULL
  <1>11. Accounting(k, pg) BY <1>1, <1>3, <1>10 DEF Accounting
  <1>12. HeapInv(k, pg, fr) BY <1>7, <1>8, <1>9, <1>10, <1>11 DEF HeapInv
  <1> QED BY <1>10, <1>12 DEF k

LEMMA CutKeeps ==
    ASSUME NEW h, NEW pg \in Nat, pg <= MaxPages, NEW fr, HeapInv(h, pg, fr), Initialized(h),
           NEW nb \in Nat, nb % 4 = 0, nb < h.topsize
    PROVE  HeapInv(CutTop(h, nb), pg, fr) /\ Initialized(CutTop(h, nb))
  <1> DEFINE t == h.top + nb
             n == h.topsize - nb
  <1>1. HeapType(h) /\ TopShape(h) BY DEF HeapInv
  <1>2. /\ h.top \in Nat /\ h.topsize \in Nat /\ h.seg.base \in Nat
        /\ h.top >= h.seg.base + 2 /\ h.top % 4 = 2 /\ h.topsize % 4 = 0
    BY <1>1, AddrWordsFacts DEF HeapType, SegmentRecord, TopShape
  <1>3. /\ t \in Nat /\ n \in Nat /\ t + n = h.top + h.topsize /\ t >= h.seg.base + 2
    BY <1>2
  <1>4. t % 4 = 2 /\ n >= 4 /\ n % 4 = 0 BY <1>2, SMT
  <1>5. CutTop(h, nb) = [h EXCEPT !.top = t, !.topsize = n] BY DEF CutTop
  <1> HIDE DEF t, n
  <1>6. /\ HeapInv([h EXCEPT !.top = t, !.topsize = n], pg, fr)
        /\ Initialized([h EXCEPT !.top = t, !.topsize = n])
    BY <1>3, <1>4, TopMoves
  <1> QED BY <1>5, <1>6

(* Shared by the two ways an extension is used: the new region starts      *)
(* above everything the heap owns, at an address, and ends within memory.  *)
LEMMA RegionFacts ==
    ASSUME MemoryInv, NEW h, HeapInv(h, pages, foreign),
           NEW e, ExtensionOK(e), e.tbase # CMFAIL
    PROVE  /\ pages \in Nat /\ e.newPages \in Nat /\ e.newPages <= MaxPages
           /\ e.tbase = pages * PageWords
           /\ e.tbase \in Nat /\ e.tbase % 4 = 0 /\ e.tbase >= PageWords /\ e.tbase < AddrWords
           /\ e.tsize \in Nat /\ e.tsize % 4 = 0 /\ e.tsize >= PageWords
           /\ e.tbase + e.tsize <= e.newPages * PageWords
           /\ e.newPages * PageWords \in Nat
           /\ e.newPages * PageWords <= AddrWords
           /\ e.contiguous \in BOOLEAN /\ e.refused \in BOOLEAN
           /\ HeapBase <= e.tbase
  <1>1. /\ pages \in Nat /\ InitialPages <= pages /\ InitialPages >= 1
        /\ e.newPages \in Nat /\ e.newPages <= MaxPages /\ pages < e.newPages
    BY MemoryAssumption DEF MemoryInv, ExtensionOK
  <1>2. /\ e.tbase = pages * PageWords
        /\ e.tsize \in Nat /\ e.tsize % 4 = 0 /\ e.tsize >= PageWords
        /\ e.tbase + e.tsize <= e.newPages * PageWords
        /\ e.contiguous \in BOOLEAN /\ e.refused \in BOOLEAN
    BY DEF ExtensionOK
  <1>3. e.newPages * PageWords \in Nat /\ e.newPages * PageWords <= AddrWords
    BY <1>1, MemoryEnd
  <1>4. e.tbase \in Nat /\ e.tbase % 4 = 0 BY <1>1, <1>2, PagesAligned, PagesMonotone
  <1>5. HeapBase <= e.tbase /\ HeapEnd <= e.tbase
    BY <1>1, <1>2, <1>4, InitialHeapFacts
  <1>6. e.tbase >= PageWords
    <2>1. 0 * PageWords = 0 BY PageAssumption, SMT
    <2>2. 0 < pages BY <1>1, MemoryAssumption
    <2>3. (0 + 1) * PageWords <= pages * PageWords
          /\ (0 + 1) * PageWords = 0 * PageWords + PageWords
      BY <1>1, <2>2, PagesMonotone
    <2> QED BY <1>2, <1>4, <2>1, <2>3, PageAssumption
  <1> QED BY <1>1, <1>2, <1>3, <1>4, <1>5, <1>6, AddrWordsFacts, PageAssumption

(* Only the newest segment can hold top, and it ends where its last word   *)
(* is followed, not at a wrapped address.                                  *)
LEMMA AppendsFacts ==
    ASSUME MemoryInv, NEW h, HeapInv(h, pages, foreign), Initialized(h),
           NEW e, ExtensionOK(e), e.tbase # CMFAIL
    PROVE  Appends(h, e) <=> e.tbase = Limit(h.seg)
  <1> DEFINE lim == Limit(h.seg)
  <1>1. /\ e.tbase = pages * PageWords /\ e.tbase \in Nat /\ e.tbase < AddrWords
    BY RegionFacts
  <1>2. /\ NewestSegment(h, pages) /\ TopShape(h) /\ HeapType(h)
    BY DEF HeapInv
  <1>3. /\ h.top \in Nat /\ h.topsize \in Nat /\ h.seg.base \in Nat /\ h.seg.size \in Nat
        /\ h.seg.base < AddrWords
        /\ \A s \in h.older : s.base \in Nat /\ s.size \in Nat
    BY <1>2, AddrWordsFacts DEF HeapType, SegmentRecord
  <1>4. /\ lim \in Nat /\ h.top + h.topsize + 14 = lim /\ h.top >= h.seg.base + 2
        /\ lim <= e.tbase
    BY <1>1, <1>2, <1>3 DEF TopShape, NewestSegment, Limit
  <1>5. SegmentEnd(h.seg) = lim
    <2>1. SegmentEnd(h.seg) = lim % AddrWords BY DEF SegmentEnd, Limit
    <2> HIDE DEF lim
    <2> QED BY <1>1, <1>4, <2>1, AddrWordsFacts, SMT
  <1>6. SegmentHolds(h.seg, h.top)
    <2> HIDE DEF lim
    <2> QED BY <1>3, <1>4, <1>5 DEF SegmentHolds
  <1>7. ASSUME NEW s \in h.older PROVE ~SegmentHolds(s, h.top)
    <2>1. Limit(s) < h.seg.base /\ Limit(s) \in Nat
      BY <1>2, <1>3 DEF NewestSegment, Limit
    <2>2. SegmentEnd(s) = Limit(s) % AddrWords BY DEF SegmentEnd, Limit
    <2>3. SegmentEnd(s) = Limit(s)
      BY <2>1, <2>2, <1>3, AddrWordsFacts, SMT
    <2> HIDE DEF lim
    <2> QED BY <1>3, <1>4, <2>1, <2>3 DEF SegmentHolds
  <1>8. Segments(h) = h.older \cup {h.seg} BY DEF Segments
  <1> HIDE DEF lim
  <1>9. Appends(h, e) <=> e.tbase = lim
    BY <1>5, <1>6, <1>7, <1>8 DEF Appends
  <1> QED BY <1>9 DEF lim

(* A larger memory keeps the invariant, whatever sys_alloc's flag becomes. *)
LEMMA LargerMemoryKeeps ==
    ASSUME NEW h, NEW fr, NEW p \in Nat, NEW q \in Nat, p <= q, q <= MaxPages,
           HeapInv(h, p, fr), NEW c \in BOOLEAN
    PROVE  HeapInv([h EXCEPT !.contiguous = c], q, fr)
  <1> DEFINE n == [h EXCEPT !.contiguous = c]
  <1>1. HeapType(h) /\ Accounting(h, p) BY DEF HeapInv
  <1>2. /\ n.seg = h.seg /\ n.older = h.older /\ n.top = h.top /\ n.topsize = h.topsize
        /\ n.footprint = h.footprint /\ n.maxFootprint = h.maxFootprint
        /\ Initialized(n) = Initialized(h)
    BY <1>1 DEF HeapType, Initialized
  <1>3. HeapType(n) BY <1>1 DEF HeapType
  <1>4. p * PageWords \in Nat /\ q * PageWords \in Nat /\ p * PageWords <= q * PageWords
    <2>1. p <= MaxPages BY MemoryAssumption
    <2>2. p * PageWords \in Nat /\ q * PageWords \in Nat BY <2>1, MemoryEnd
    <2>3. CASE p = q BY <2>2, <2>3
    <2>4. CASE p < q
      <3>1. p * PageWords + PageWords <= q * PageWords BY <2>4, PagesMonotone
      <3> QED BY <2>2, <3>1, PageAssumption
    <2> QED BY <2>3, <2>4
  <1>5. h.footprint \in Nat /\ h.seg.base \in Nat /\ h.seg.size \in Nat
    BY <1>1, AddrWordsFacts DEF HeapType, SegmentRecord
  <1> HIDE DEF n
  <1>6. Accounting(n, q) BY <1>1, <1>2, <1>4, <1>5 DEF Accounting
  <1>7. ASSUME Initialized(n)
        PROVE  NewestSegment(n, q) /\ TopShape(n) /\ OlderApart(n) /\ ForeignApart(n, fr)
    <2>1. NewestSegment(h, p) /\ TopShape(h) /\ OlderApart(h) /\ ForeignApart(h, fr)
      BY <1>2, <1>7 DEF HeapInv
    <2>2. NewestSegment(n, q)
      BY <1>2, <1>4, <1>5, <2>1 DEF NewestSegment, Limit
    <2> QED BY <1>2, <2>1, <2>2 DEF TopShape, OlderApart, ForeignApart
  <1>8. HeapInv(n, q, fr) BY <1>3, <1>6, <1>7 DEF HeapInv
  <1> QED BY <1>8 DEF n

(* Foreign pages lie below a region that starts at the old break.          *)
LEMMA ForeignBelow ==
    ASSUME MemoryInv, NEW f \in foreign
    PROVE  /\ f \in Nat /\ f * PageWords \in Nat /\ (f + 1) * PageWords \in Nat
           /\ (f + 1) * PageWords <= pages * PageWords
           /\ f * PageWords < pages * PageWords
           /\ pages * PageWords \in Nat
  <1>1. f \in Nat /\ pages \in Nat /\ f < pages BY MemoryAssumption DEF MemoryInv
  <1>2. /\ f * PageWords \in Nat /\ pages * PageWords \in Nat
        /\ (f + 1) * PageWords = f * PageWords + PageWords
        /\ (f + 1) * PageWords <= pages * PageWords
    BY <1>1, PagesMonotone
  <1> QED BY <1>1, <1>2, PageAssumption

(* The accounting of an extension.                                         *)
LEMMA GrownFacts ==
    ASSUME MemoryInv, NEW h, HeapInv(h, pages, foreign),
           NEW e, ExtensionOK(e), e.tbase # CMFAIL
    PROVE  /\ HeapType(Grown(h, e))
           /\ Grown(h, e).footprint = h.footprint + e.tsize
           /\ Grown(h, e).maxFootprint = Grown(h, e).footprint
           /\ Grown(h, e).footprint <= e.newPages * PageWords
           /\ Grown(h, e).seg = h.seg /\ Grown(h, e).older = h.older
           /\ Grown(h, e).top = h.top /\ Grown(h, e).topsize = h.topsize
           /\ Grown(h, e).leastAddr = h.leastAddr
  <1> DEFINE fp == h.footprint + e.tsize
             mx == IF fp > h.maxFootprint THEN fp ELSE h.maxFootprint
             n  == [h EXCEPT !.contiguous = e.contiguous, !.footprint = fp, !.maxFootprint = mx]
  <1>1. /\ e.tbase \in Nat /\ e.tsize \in Nat /\ e.contiguous \in BOOLEAN
        /\ e.tbase = pages * PageWords
        /\ e.tbase + e.tsize <= e.newPages * PageWords
        /\ e.newPages * PageWords \in Nat /\ e.newPages * PageWords <= AddrWords
        /\ e.tsize >= PageWords
    BY RegionFacts
  <1>2. HeapType(h) /\ h.footprint <= pages * PageWords /\ h.maxFootprint = h.footprint
        /\ h.footprint \in Nat
    BY AddrWordsFacts DEF HeapInv, HeapType, Accounting
  <1>3. fp \in 0 .. AddrWords /\ mx = fp /\ fp <= e.newPages * PageWords
    BY <1>1, <1>2, AddrWordsFacts, PageAssumption
  <1>4. Grown(h, e) = n BY DEF Grown
  <1> HIDE DEF fp, mx
  <1>5. HeapType(n) BY <1>1, <1>2, <1>3 DEF HeapType
  <1>6. /\ n.footprint = fp /\ n.maxFootprint = mx
        /\ n.seg = h.seg /\ n.older = h.older /\ n.top = h.top /\ n.topsize = h.topsize
        /\ n.leastAddr = h.leastAddr
    BY <1>2 DEF HeapType
  <1> HIDE DEF n
  <1> QED BY <1>3, <1>4, <1>5, <1>6 DEF fp

(* Appending to the newest segment.                                        *)
LEMMA AppendKeeps ==
    ASSUME MemoryInv, NEW h, HeapInv(h, pages, foreign), Initialized(h),
           NEW e, ExtensionOK(e), e.tbase # CMFAIL, Appends(h, e)
    PROVE  /\ HeapInv(AppendToSegment(h, e), e.newPages, foreign)
           /\ Initialized(AppendToSegment(h, e))
  <1> DEFINE G == Grown(h, e)
             n == AppendToSegment(h, e)
  <1>1. /\ HeapType(G) /\ G.maxFootprint = G.footprint /\ G.footprint <= e.newPages * PageWords
        /\ G.seg = h.seg /\ G.older = h.older /\ G.top = h.top /\ G.topsize = h.topsize
    BY GrownFacts
  <1>2. /\ e.tbase \in Nat /\ e.tbase = pages * PageWords /\ e.tbase < AddrWords
        /\ e.tsize \in Nat /\ e.tsize % 4 = 0 /\ e.tsize >= PageWords
        /\ e.tbase + e.tsize <= e.newPages * PageWords
        /\ e.newPages * PageWords \in Nat /\ e.newPages * PageWords <= AddrWords
    BY RegionFacts
  <1>3. e.tbase = Limit(h.seg) BY AppendsFacts
  <1>4. /\ NewestSegment(h, pages) /\ TopShape(h) /\ OlderApart(h) /\ ForeignApart(h, foreign)
        /\ HeapType(h)
    BY DEF HeapInv
  <1>5. /\ h.seg \in SegmentRecord /\ h.seg.base \in Nat /\ h.seg.size \in Nat
        /\ h.seg.base < AddrWords /\ h.top \in Nat /\ h.topsize \in Nat
    BY <1>4, AddrWordsFacts DEF HeapType, SegmentRecord
  <1> DEFINE sg == [h.seg EXCEPT !.size = @ + e.tsize]
             ts == h.topsize + e.tsize
  <1>6. /\ sg.base = h.seg.base /\ sg.size = h.seg.size + e.tsize
    BY <1>5 DEF SegmentRecord
  <1>7. Limit(sg) = e.tbase + e.tsize /\ Limit(h.seg) = h.seg.base + h.seg.size
    BY <1>2, <1>3, <1>5, <1>6 DEF Limit
  <1>8. /\ h.top + h.topsize + 14 = e.tbase /\ h.top >= h.seg.base + 2 /\ h.top % 4 = 2
        /\ h.topsize >= 4 /\ h.topsize % 4 = 0
    BY <1>3, <1>4 DEF TopShape
  <1>9. /\ sg \in SegmentRecord
        /\ ts \in 0 .. AddrWords /\ ts >= 4 /\ ts % 4 = 0
        /\ h.top + ts + 14 = Limit(sg)
    <2>1. sg \in SegmentRecord
      <3>1. h.seg.size + e.tsize \in 0 .. AddrWords
        BY <1>2, <1>3, <1>5, <1>7, AddrWordsFacts
      <3> QED BY <1>5, <3>1 DEF SegmentRecord
    <2>2. ts \in 0 .. AddrWords /\ ts >= 4 /\ h.top + ts + 14 = Limit(sg)
      BY <1>2, <1>5, <1>7, <1>8, AddrWordsFacts
    <2>3. ts % 4 = 0 BY <1>2, <1>5, <1>8, SMT
    <2> QED BY <2>1, <2>2, <2>3
  <1>10. n = [G EXCEPT !.seg = sg, !.topsize = ts]
    <2>1. n = [G EXCEPT !.seg.size = G.seg.size + e.tsize, !.topsize = G.topsize + e.tsize]
      BY DEF AppendToSegment
    <2>2. [G EXCEPT !.seg.size = G.seg.size + e.tsize, !.topsize = G.topsize + e.tsize]
            = [G EXCEPT !.seg = [G.seg EXCEPT !.size = G.seg.size + e.tsize],
                        !.topsize = G.topsize + e.tsize]
      <3> HIDE DEF G
      <3> QED BY <1>1 DEF HeapType
    <2> HIDE DEF G
    <2> QED BY <1>1, <2>1, <2>2
  <1> HIDE DEF G, n, sg, ts
  <1>11. /\ n.seg = sg /\ n.older = h.older /\ n.top = h.top /\ n.topsize = ts
         /\ n.footprint = G.footprint /\ n.maxFootprint = G.maxFootprint
    BY <1>1, <1>10 DEF HeapType
  <1>12. HeapType(n) BY <1>1, <1>9, <1>10 DEF HeapType
  <1>13. Initialized(n) BY <1>5, <1>8, <1>11 DEF Initialized, NULL
  <1>14. Accounting(n, e.newPages) BY <1>1, <1>11, <1>13 DEF Accounting
  <1>15. NewestSegment(n, e.newPages)
    BY <1>2, <1>4, <1>6, <1>7, <1>11 DEF NewestSegment
  <1>16. TopShape(n) BY <1>6, <1>8, <1>9, <1>11 DEF TopShape
  <1>17. OlderApart(n) BY <1>4, <1>11 DEF OlderApart
  <1>18. ForeignApart(n, foreign)
    <2> SUFFICES ASSUME NEW s \in h.older \cup {sg}, NEW f \in foreign
                 PROVE  Limit(s) <= f * PageWords \/ (f + 1) * PageWords <= s.base
      BY <1>11 DEF ForeignApart
    <2>1. CASE s \in h.older BY <1>4, <2>1 DEF ForeignApart
    <2>2. CASE s = sg
      <3>1. Limit(h.seg) <= f * PageWords \/ (f + 1) * PageWords <= h.seg.base
        BY <1>4 DEF ForeignApart
      <3>2. ~(e.tbase <= f * PageWords) BY <1>2, ForeignBelow
      <3> QED BY <1>3, <1>6, <2>2, <3>1, <3>2
    <2> QED BY <2>1, <2>2
  <1>19. HeapInv(n, e.newPages, foreign)
    BY <1>12, <1>14, <1>15, <1>16, <1>17, <1>18 DEF HeapInv
  <1> QED BY <1>13, <1>19 DEF n

(* A segment of its own, the first one or a further one.                   *)
LEMMA SegmentKeeps ==
    ASSUME MemoryInv, NEW h, HeapInv(h, pages, foreign),
           NEW e, ExtensionOK(e), e.tbase # CMFAIL, ~Appends(h, e)
    PROVE  /\ HeapInv(AddSegment(h, e), e.newPages, foreign)
           /\ Initialized(AddSegment(h, e))
  <1> DEFINE G == Grown(h, e)
             n == AddSegment(h, e)
             sg == [base |-> e.tbase, size |-> e.tsize]
             la == IF G.leastAddr = NULL \/ e.tbase < G.leastAddr THEN e.tbase ELSE G.leastAddr
  <1>1. /\ HeapType(G) /\ G.maxFootprint = G.footprint /\ G.footprint <= e.newPages * PageWords
    BY GrownFacts
  <1>2. /\ e.tbase \in Nat /\ e.tbase = pages * PageWords /\ e.tbase < AddrWords
        /\ e.tbase % 4 = 0
        /\ e.tsize \in Nat /\ e.tsize % 4 = 0 /\ e.tsize >= PageWords
        /\ e.tbase + e.tsize <= e.newPages * PageWords
        /\ e.newPages * PageWords \in Nat /\ e.newPages * PageWords <= AddrWords
        /\ HeapBase <= e.tbase
    BY RegionFacts
  <1>3. NewTop(e.tbase) = e.tbase + 2 /\ NewTopSize(e.tbase, e.tsize) = e.tsize - 16
    BY <1>2, Layout
  <1>4. n = [G EXCEPT !.older = Segments(h), !.seg = sg, !.top = e.tbase + 2,
                      !.topsize = e.tsize - 16, !.leastAddr = la]
    BY <1>3 DEF AddSegment
  <1>5. /\ e.tsize - 16 \in 0 .. AddrWords /\ e.tsize - 16 >= 4
        /\ e.tbase + 2 \in 0 .. AddrWords - 1
        /\ Limit(sg) = e.tbase + e.tsize
    BY <1>2, AddrWordsFacts, PageAssumption DEF Limit
  <1>6. (e.tsize - 16) % 4 = 0 /\ (e.tbase + 2) % 4 = 2 BY <1>2, SMT
  <1>7. sg \in SegmentRecord BY <1>2, <1>5, AddrWordsFacts DEF SegmentRecord
  <1>8. HeapType(h) BY DEF HeapInv
  <1>9. Segments(h) \subseteq SegmentRecord
    BY <1>8 DEF Segments, HeapType
  <1>10. la \in 0 .. AddrWords - 1
    <2> HIDE DEF G
    <2>1. G.leastAddr \in 0 .. AddrWords - 1 BY <1>1 DEF HeapType
    <2>2. e.tbase \in 0 .. AddrWords - 1 BY <1>2, AddrWordsFacts
    <2> QED BY <2>1, <2>2
  <1> HIDE DEF G, n, la
  <1>11. HeapType(n)
    <2> HIDE DEF sg
    <2> QED BY <1>1, <1>4, <1>5, <1>7, <1>9, <1>10 DEF HeapType
  <1>12. /\ n.seg = sg /\ n.older = Segments(h) /\ n.top = e.tbase + 2
         /\ n.topsize = e.tsize - 16
         /\ n.footprint = G.footprint /\ n.maxFootprint = G.maxFootprint
    BY <1>1, <1>4 DEF HeapType
  <1>13. Initialized(n) BY <1>2, <1>12 DEF Initialized, NULL
  <1>14. Accounting(n, e.newPages) BY <1>1, <1>12, <1>13 DEF Accounting
  <1>15. ASSUME NEW s \in Segments(h)
         PROVE  /\ Initialized(h) /\ s \in h.older \cup {h.seg}
                /\ NewestSegment(h, pages) /\ OlderApart(h) /\ ForeignApart(h, foreign)
                /\ s.base \in Nat /\ s.size \in Nat
                /\ h.seg.base \in Nat /\ h.seg.size \in Nat
    <2>1. Initialized(h) /\ s \in h.older \cup {h.seg} BY <1>15 DEF Segments
    <2> QED BY <1>8, <2>1, AddrWordsFacts DEF HeapInv, HeapType, SegmentRecord
  <1>16. ASSUME NEW s \in Segments(h) PROVE HeapBase <= s.base /\ Limit(s) < e.tbase
    <2>1. HeapBase <= h.seg.base /\ Limit(h.seg) <= e.tbase
          /\ \A t \in h.older : HeapBase <= t.base /\ Limit(t) < h.seg.base
      BY <1>2, <1>15 DEF NewestSegment
    <2>2. Limit(h.seg) < e.tbase
      <3>1. Limit(h.seg) # e.tbase BY <1>15, AppendsFacts
      <3>2. Limit(h.seg) \in Nat BY <1>15 DEF Limit
      <3> QED BY <1>2, <2>1, <3>1, <3>2
    <2> QED BY <1>2, <1>15, <2>1, <2>2 DEF Limit
  <1>17. NewestSegment(n, e.newPages)
    <2>1. sg.base = e.tbase OBVIOUS
    <2> HIDE DEF sg
    <2> QED BY <1>2, <1>5, <1>12, <1>16, <2>1 DEF NewestSegment
  <1>18. TopShape(n)
    <2>1. sg.base = e.tbase OBVIOUS
    <2>2. e.tbase + 2 + (e.tsize - 16) + 14 = Limit(sg) BY <1>2, <1>5
    <2> HIDE DEF sg
    <2> QED BY <1>2, <1>5, <1>6, <1>12, <2>1, <2>2 DEF TopShape
  <1>19. OlderApart(n)
    <2> SUFFICES ASSUME NEW s \in Segments(h), NEW t \in Segments(h), s # t
                 PROVE  Limit(s) < t.base \/ Limit(t) < s.base
      BY <1>12 DEF OlderApart
    <2>1. /\ s \in h.older \cup {h.seg} /\ t \in h.older \cup {h.seg}
          /\ NewestSegment(h, pages) /\ OlderApart(h)
      BY <1>15
    <2> QED BY <2>1 DEF NewestSegment, OlderApart
  <1>20. ForeignApart(n, foreign)
    <2> SUFFICES ASSUME NEW s \in Segments(h) \cup {sg}, NEW f \in foreign
                 PROVE  Limit(s) <= f * PageWords \/ (f + 1) * PageWords <= s.base
      BY <1>12 DEF ForeignApart
    <2>1. CASE s \in Segments(h) BY <2>1, <1>15 DEF ForeignApart
    <2>2. CASE s = sg
      <3>1. s.base = e.tbase BY <2>2
      <3> QED BY <1>2, <3>1, ForeignBelow
    <2> QED BY <2>1, <2>2
  <1>21. HeapInv(n, e.newPages, foreign)
    BY <1>11, <1>14, <1>17, <1>18, <1>19, <1>20 DEF HeapInv
  <1> QED BY <1>13, <1>21 DEF n

(* Pages that someone else grows start at the break: no segment has them.  *)
LEMMA HostGrowth ==
    ASSUME MemoryInv, NEW b, HeapInv(b, pages, foreign), NEW n \in 1 .. MaxPages, ForeignGrow(n)
    PROVE  MemoryInv' /\ HeapInv(b, pages', foreign')
  <1>1. /\ pages' = pages + n /\ pages + n <= MaxPages
        /\ foreign' = foreign \cup (pages .. pages + n - 1)
    BY DEF ForeignGrow
  <1>2. /\ pages \in Nat /\ n \in Nat /\ n >= 1 /\ pages <= MaxPages /\ MaxPages \in Nat
        /\ InitialPages \in Nat /\ InitialPages <= pages
    BY MemoryAssumption DEF MemoryInv
  <1>3. MemoryInv'
    <2>1. pages' \in InitialPages .. MaxPages BY <1>1, <1>2
    <2>2. foreign' \subseteq InitialPages .. pages' - 1
      BY <1>1, <1>2 DEF MemoryInv
    <2> QED BY <2>1, <2>2 DEF MemoryInv
  <1>5. /\ HeapType(b) /\ Accounting(b, pages) /\ HeapInv(b, pages, foreign)
    BY DEF HeapInv
  <1>6. HeapInv(b, pages', foreign)
    <2>1. b.contiguous \in BOOLEAN /\ b = [b EXCEPT !.contiguous = b.contiguous]
      BY <1>5 DEF HeapType
    <2>2. HeapInv([b EXCEPT !.contiguous = b.contiguous], pages + n, foreign)
      BY <1>1, <1>2, <1>5, <2>1, LargerMemoryKeeps
    <2> QED BY <1>1, <2>1, <2>2
  <1>7. ASSUME Initialized(b) PROVE ForeignApart(b, foreign')
    <2> SUFFICES ASSUME NEW s \in b.older \cup {b.seg}, NEW f \in pages .. pages + n - 1
                 PROVE  Limit(s) <= f * PageWords
      BY <1>1, <1>5, <1>7 DEF ForeignApart, HeapInv
    <2>1. /\ NewestSegment(b, pages)
          /\ s.base \in Nat /\ s.size \in Nat /\ b.seg.base \in Nat /\ b.seg.size \in Nat
      BY <1>5, <1>7, AddrWordsFacts DEF HeapInv, HeapType, SegmentRecord
    <2>2. f \in Nat /\ pages <= f BY <1>2
    <2>3. pages * PageWords \in Nat /\ f * PageWords \in Nat /\ pages * PageWords <= f * PageWords
      <3>1. pages * PageWords \in Nat /\ f * PageWords \in Nat
        BY <1>2, <2>2, PageAssumption, SMT
      <3>2. CASE pages = f BY <3>1, <3>2
      <3>3. CASE pages < f
        <4>1. pages * PageWords + PageWords <= f * PageWords
          BY <1>2, <2>2, <3>3, PagesMonotone
        <4> QED BY <3>1, <4>1, PageAssumption
      <3> QED BY <1>2, <2>2, <3>1, <3>2, <3>3
    <2>4. Limit(s) <= pages * PageWords
      BY <2>1, <2>3 DEF NewestSegment, Limit
    <2> QED BY <2>1, <2>3, <2>4 DEF Limit
  <1>8. HeapInv(b, pages', foreign') BY <1>1, <1>6, <1>7 DEF HeapInv
  <1> QED BY <1>3, <1>8
=============================================================================
