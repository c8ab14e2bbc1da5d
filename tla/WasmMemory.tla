----------------------------- MODULE WasmMemory -----------------------------
(***************************************************************************)
(* The linear memory and the sbrk built over memory.size and memory.grow.  *)
(* memory.grow belongs to the engine: it may refuse any request, and never *)
(* goes beyond MaxPages.  The instance's memory is also grown by others    *)
(* (the host, a second allocator linked into the module): "foreign" holds  *)
(* the pages they obtained.                                                *)
(***************************************************************************)
EXTENDS DlParams

CONSTANTS MaxPages,     \* the memory's declared maximum
          InitialPages  \* its size when the instance starts

ASSUME MemoryAssumption ==
    /\ MaxPages \in Nat /\ MaxPages <= AddrPages
    /\ InitialPages \in Nat /\ 1 <= InitialPages /\ InitialPages <= MaxPages

VARIABLES pages,   \* current size of the memory in pages
          foreign  \* indices of the pages grown by someone else

memoryVars == <<pages, foreign>>

(* sbrk(increment) when the memory has pg pages and the engine is willing  *)
(* to grow it (granted) or not: the value returned, the memory's size      *)
(* after the call, and whether the call trapped.                           *)
Sbrk(pg, increment, granted) ==
    IF increment = 0 THEN
        [ret |-> (pg * PageWords) % AddrWords, newPages |-> pg, trap |-> FALSE]
    ELSE IF increment < 0 \/ increment % PageWords # 0 THEN
        [ret |-> CMFAIL, newPages |-> pg, trap |-> TRUE]
    ELSE IF granted /\ pg + increment \div PageWords <= MaxPages THEN
        [ret |-> pg * PageWords, newPages |-> pg + increment \div PageWords, trap |-> FALSE]
    ELSE
        [ret |-> CMFAIL, newPages |-> pg, trap |-> FALSE]

MemoryInit == pages = InitialPages /\ foreign = {}

(* Someone else calls memory.grow.                                         *)
ForeignGrow(n) ==
    /\ n >= 1
    /\ pages + n <= MaxPages
    /\ pages' = pages + n
    /\ foreign' = foreign \cup (pages .. pages + n - 1)
=============================================================================
