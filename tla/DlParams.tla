------------------------------ MODULE DlParams ------------------------------
(***************************************************************************)
(* Layout of dlmalloc on wasm32, in machine words: one unit is one size_t  *)
(* (four bytes).  Every size and offset the allocator computes is a whole  *)
(* number of words, and pad_request gives the same chunk size to a byte    *)
(* count and to the number of words that hold it, so nothing is lost.      *)
(* Addresses wrap at AddrWords, as 32-bit pointers do.                     *)
(***************************************************************************)
EXTENDS Integers

CONSTANTS PageWords,  \* words in a wasm page (16384)
          AddrPages   \* pages in the address space (65536)

ASSUME PageAssumption ==
    /\ PageWords \in Nat
    /\ PageWords >= 32
    /\ PageWords % 4 = 0

ASSUME AddrAssumption == AddrPages \in Nat /\ AddrPages >= 2

AddrWords == PageWords * AddrPages

(* The largest size_t; also the pointer -1 that sbrk fails with.   *)
MaxSizeT == AddrWords - 1
CMFAIL   == MaxSizeT
NULL     == 0

HalfMaxSizeT == AddrWords \div 2

-----------------------------------------------------------------------------
(* Chunks: a chunk address is that of its prev_foot word, the user's       *)
(* memory starts two words later and must be MALLOC_ALIGNMENT-aligned.     *)

MallocAlignment == 4
MinChunkSize    == 4
ChunkOverhead   == 1
MinRequest      == MinChunkSize - ChunkOverhead
MaxRequest      == AddrWords - 4 * MinChunkSize

AlignOffset(a) == (MallocAlignment - (a % MallocAlignment)) % MallocAlignment

Chunk2Mem(p) == p + 2
Mem2Chunk(m) == m - 2

PadRequest(w) ==
    ((w + ChunkOverhead + MallocAlignment - 1) \div MallocAlignment) * MallocAlignment

Request2Size(w) ==
    IF w < MinRequest THEN MinChunkSize ELSE PadRequest(w)

(* The chunk size malloc works with: an oversized request becomes the      *)
(* largest size_t, which no later step can satisfy.                        *)
ChunkSizeFor(w) == IF w >= MaxRequest THEN MaxSizeT ELSE Request2Size(w)

(* What init_top leaves behind the top chunk: alignment, a segment record  *)
(* and a fencepost.                                                        *)
SegmentRecordWords == 4
TopFootSize        == AlignOffset(Chunk2Mem(0)) + PadRequest(SegmentRecordWords) + MinChunkSize
SysAllocPadding    == TopFootSize + MallocAlignment

(* Granularity is the page size; the addition wraps.                       *)
GranularityAlign(n) == (((n + PageWords - 1) % AddrWords) \div PageWords) * PageWords
=============================================================================
