----------------------------- MODULE MCSysAlloc -----------------------------
(* Small instances of SysAlloc: pages of 32 words; requests from the       *)
(* smallest chunk to those the size checks reject.                         *)
EXTENDS SysAlloc

(* A small chunk, one that fills a page, one that needs more than a page, *)
(* two around the size where half the address space is needed, and two     *)
(* that are oversized: malloc rejects one, sys_alloc the other.            *)
MCRequests == {1, 23, 39, HalfMaxSizeT - 49, HalfMaxSizeT - 13, MaxRequest - 1, MaxRequest}
=============================================================================
