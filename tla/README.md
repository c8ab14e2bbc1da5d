# TLA+ verification of wasm-cxx-shim

wasm-cxx-shim is a freestanding C/C++ runtime for `wasm32-unknown-unknown`:
a small libc (dlmalloc over `memory.grow`, musl's `mem*`/`strlen`), the C++
runtime stubs that libc++ headers need, musl's libm, and a test harness that
runs a consumer's tests inside a wasm instance.  This directory holds TLA+
models of the parts with interesting logic, TLC configurations that check them
on small instances, and TLAPS proofs for every instance.

## 1. Inventory

| component | source | state | operations | talks to |
|---|---|---|---|---|
| linear memory, sbrk | `libc/src/dlmalloc/sbrk.c` | the memory's size | `sbrk` | the engine (`memory.grow`, may refuse); other users of the same memory |
| dlmalloc, system layer | `libc/src/dlmalloc/malloc.c` | segments, top, footprint, flags | `try_init_allocator`, `sys_alloc`, `add_segment`, `init_top` | sbrk; the linker's `__heap_base`/`__heap_end` |
| dlmalloc, chunk layer | same, `dlmalloc.c` (configuration) | boundary tags, small bins, tree bins, dv | `malloc`, `free`, `calloc`, `realloc`, `aligned_alloc` | the system layer, `memcpy`, `memset` |
| tree bins | same | 32 bitwise tries of free chunks with chains of equals | `insert_large_chunk`, `unlink_large_chunk`, best fit | the chunk layer |
| mem/str functions | `libc/src/musl/*.c` | none | `memcpy`, `memmove`, `memset`, `memcmp`, `strlen` | called by everything |
| C++ runtime | `libcxx/src/*.cpp` | none | operator new/delete, `__next_prime`, traps | malloc, free, aligned_alloc |
| test harness | `tools/wasm-test-harness` | registry (4096), log buffer (256 KB), failure counter | `wcs_register_test`, `wcs_log_printf`, `wcs_record_failure`, `wcs_run_tests`, `run.mjs` | static initialisers, test bodies, the host |
| libm | `libm/src/musl/*.c`, `libm/src/internal/libm.h` | none | `floor` `ceil` `trunc` `round` `ilogb` `scalbn` `ldexp` `remquo` `fmin` `fmax` `fma` `sqrt` `hypot` `log` `log2` `log10` `exp` `pow` `atan` `atan2` `asin` `acos` `sin` `cos` `tan`, and `__rem_pio2` | C++ consumers |
| headers, CMake, scripts, CI, integration tests | `libc/include`, `libm/include`, `cmake`, `scripts`, `.github`, `test` | none | build-time only | - |

Concurrency and failure.  The runtime is single-threaded and dlmalloc is built
without locks, so a call of the allocator is one step as far as its callers
are concerned.  What makes it hard is the environment: the engine may refuse
any `memory.grow`; the host or another allocator in the same instance may grow
the memory between two calls, so the heap is no longer contiguous; addresses
are 32 bits and the memory may fill them; and a long sequence of legal calls
must keep three redundant descriptions of the heap (boundary tags, bins,
dv/top) in step.

What makes each component correct:

* sbrk and the system layer: the heap owns what it obtained and nothing else,
  segments never touch or overlap, top ends where its segment does, a failed
  growth loses nothing, NULL is returned only for a reason.
* chunk layer: chunks tile the segments, tags agree with the neighbours, no two
  free neighbours, a free chunk is dv or in exactly the bin of its size,
  live blocks are disjoint and aligned, malloc asks the system only if no free
  chunk fits, no chunk is lost (so freeing everything gives one free chunk per
  segment).
* tree bins: the trie always finds the smallest chunk that fits, oldest first.
* mem functions: exact result on every alignment and overlap, no access outside
  the operands (word-sized reads of `strlen` aside).
* C++ runtime: new never returns NULL; `__next_prime` returns the least prime from
  its argument on, as long as one is left.
* harness: every registered test runs once in order, counts agree with what the
  tests reported, log and size agree, a failing run is never reported as passed.
* libm: the functions that C defines exactly are exact, `fma` and `sqrt` are
  rounded once, the others agree with the true value as far as a short format can
  tell (section 3) and have the signs and
  special values of C's annex F, on every path: each function changes its formula
  at thresholds in the argument's bits, and a path that is rarely taken (a
  subnormal, a near-multiple of pi/2, a wrapped exponent) is where it may be wrong.

## 2. Modules

| module | models | extends / uses |
|---|---|---|
| `DlParams` | sizes, alignment and padding of dlmalloc on wasm32, in words of four bytes | - |
| `WasmMemory` | `sbrk.c` over `memory.size`/`memory.grow`; the engine and foreign growth | `DlParams` |
| `SystemLayer` | what `try_init_allocator`, `sys_alloc` and `add_segment` compute, as operators on a `malloc_state` | `WasmMemory` |
| `SystemLayerProofs` | lemmas about them: sizes, extensions, the invariant of the segments | `SystemLayer` |
| `SysAlloc` | the system layer as a state machine: segments and top | `SystemLayer` |
| `SysAllocProofs` | theorems about `SysAlloc` | `SysAlloc`, `SystemLayerProofs` |
| `DlMalloc` | boundary tags, bins, dv; `malloc`, `calloc`, `free`, `realloc`, `aligned_alloc` | `SystemLayer`; `SysAlloc` and `AllocSpec` as instances |
| `ChunkProofs` | lemmas about headers, bins, `malloc` from the heap, `dispose_chunk`, `realloc` in place, `memalign` | `DlMalloc`, `SystemLayerProofs` |
| `DlMallocProofs` | new memory, the callers, and the theorems about `DlMalloc`'s invariants | `ChunkProofs` |
| `RefinementProofs` | `DlMalloc` implements `AllocSpec` and `SysAlloc`, and grows only when full | `DlMallocProofs` |
| `AllocSpec` | abstract: what an allocator promises its callers | - |
| `TreeBin` | the bitwise tries of large chunks on their pointers | `FifoBins` as instance |
| `FifoBins` | abstract: one FIFO queue of free chunks per size | - |
| `NextPrime`, `NextPrimeProofs` | `std::__next_prime` on wrapping counters, and its theorems | - |
| `MemFunctions`, `MemFunctionsProofs` | `memcpy`, `memmove`, `memset`, `memcmp`, `strlen` in their word accesses, and its theorems | - |
| `Harness`, `HarnessProofs` | registry, runner, log, Node host, any short test body, and its theorems | - |
| `Floats` | a binary format like IEEE 754's with any widths; its arithmetic, rounded to nearest | - |
| `IntegerFunctions` | the functions with exact results | `Floats` |
| `Fma` | `fma` on two words | `IntegerFunctions` |
| `Roots` | `sqrt`, `hypot` | `Floats` |
| `FixedPoint`, `LogTables` | arithmetic with 20 bits after the point; the tables of `log`, `log2`, `pow`, `exp` | `Floats` |
| `ExpLog` | `log`, `log2`, `log10`, `exp`, `pow` | `FixedPoint`, `LogTables` |
| `InverseTrig` | `atan`, `atan2`, `asin`, `acos` | `FixedPoint` |
| `RemPio2` | `__rem_pio2`, `__rem_pio2_large` | `Floats` |
| `Trig` | `sin`, `cos`, `tan` and their kernels | `RemPio2`, `FixedPoint` |
| `Libm` | a client that calls the library | the five above as instances, each with its format |
| `MC...` | constants for TLC | the module named |

### Correspondence

**Units.** dlmalloc's models count machine words: `pad_request` gives a byte
count and the number of words that hold it the same chunk, so no behaviour is
lost. Addresses and sizes wrap at `AddrWords`, as 32-bit ones do.

**WasmMemory.** `pages` is the size of the memory, `foreign` a history variable:
the pages that somebody other than the heap obtained. `Sbrk` is the function of
`sbrk.c`, with the engine's answer as an argument. `memory.grow`, the host and
the linker's symbols are external. `HeapEndAssumption`: the initial memory is not
the whole address space, for then `__heap_end` would wrap to 0.

**SystemLayer, SysAlloc.** The operators on a `malloc_state` that both layers of
the allocator use are in `SystemLayer`. In `SysAlloc`, `m` is the part of `malloc_state` the layer uses: the newest
segment `seg`, the records `older` that its `next` leads to, `top`, `topsize`,
the footprint fields, `leastAddr`, and the contiguous flag. A call that top can
serve is `TakeFromTop`; one that it cannot is `RejectOversized`,
`AcquireNothing`, `AcquireAppend` or `AcquireSegment`, by how `sys_alloc` ends.
The branch that prepends to a segment has no action because no state reaches it,
which is theorem `HeapBelowBreak`. `GiveToTop` is a free next to top.

**DlMalloc.** `gm` adds to those fields `tag` (prev_foot and head of each
chunk), `bins`, `smallmap`, `dv`, `dvsize`. Every macro that writes a header is
an operator on `gm` (`SetInuse`, `SetFreeWithPinuse`, ...), and `Malloc`, `Free`,
`Realloc...`, `Memalign` compose them in the code's order. A realloc that moves and an
aligned_alloc are two steps each (`call` remembers the first), because the heap
between them is a state of its own: an allocation and a free that must each
leave it well formed. `live` is the callers: which blocks they hold and what
they were promised; a `calloc` promises the product of its arguments as a number,
and asks for what is left of it in a `size_t`. A tree is represented by what its
lookups return. Left out: mmap, locks, trimming and
`release_unused_segments` (compiled out or never triggered in this build:
`MORECORE_CANNOT_TRIM`, no mmap), footers, and the corruption checks, which
only fire on a caller's error. An `aligned_alloc` whose alignment is no power of two and
lies above half the address space never returns (the loop that rounds it up shifts it
to 0 and goes on) and is no step of the model.

**TreeBin.** `tree.node` has the fields of `malloc_tree_chunk`, `root` is
`treebins`, `map` is `treemap`. Sizes count 16-byte granules. `Free` inserts,
`Coalesce` unlinks any chunk, `MallocLarge` and `MallocSmall` look up, unlink,
and put back a large remainder.

**MemFunctions.** `pc` names the loop or the stretch the function is in, `d`, `s`,
`n`, `w` are its variables; `memset`'s pointer is `d`. One iteration is one step,
and so is a run of stores between two conditions (`memset`'s three stages of bytes
and three of words). A word is the sequence of its bytes. `HASZERO` is computed as
the source does, on bytes of `Base` values. `access` records what the last step
read and wrote, at which width. The simd128 variants are not built; above
`BULK_MEMORY_THRESHOLD` clang emits the bulk-memory instruction, which is
external and exact. `memmove`'s test for disjoint operands is right for lengths up
to half the address space, which an assumption on `Calls` states: C has no larger
objects.

**NextPrime.** One division is one step; `Words` is 2^32 in the program.

**Floats and the formats.** A float is its bit pattern, a natural number, of `M`
bits of significand and an exponent field of bias `Bias`; `Plus`, `Times` and
`Over` stand for wasm's f64 instructions (external: the engine), which round to
nearest only, as `libm.h` says. Pattern tests, shifts and masks of the code are
arithmetic on that number. Three formats serve, since TLC's integers have 32 bits:

* `M = 2, Bias = 12`, all of whose values can be tried, for the exact functions
  and `fma`; the constants 52, 0x3ff, 54, 62, 64 of the code become the same
  expressions of `M` and `Bias`.
* `M = 5, Bias = 31` for `sqrt` and `hypot`. Their word and their thresholds are
  constants, related as in the code (`RootAssumption`).
* `M = 12, Bias = 1023` for everything with tables or polynomials: a double's
  first 24 bits. Signs, exponents and the thresholds and indices the code takes
  from the high word are those of the code, unscaled.

Sums that the code forms in two doubles, or in one with bits to spare, are fixed
point with 20 bits after the point (`FixedPoint`); the polynomial terms, tails and
`lo` parts that are below its last bit are left out. `FixedPoint`, `InverseTrig` and
`Trig` define the true logarithm, angle, sine and cosine by shift-and-add, with
28 and 26 bits. `sqrt`'s Goldschmidt iterations are represented by the bound the code
states for what they return: `Estimates` is every value within it, and `sqrt` the
set of possible results. Some operators take the value of a common
subexpression as a parameter, so that TLC evaluates it once.

**RemPio2.** Here the widths are scaled: 13 bits of significand instead of 53,
10 instead of 33 for a piece of pi/2, digits of 5 bits instead of 24. `jk`
digits cover 13 bits and the 11 of the exponents' range, with less to spare than in
the code, so that its recomputation is needed more often and the loop runs
several times. The bits of 2/pi are the code's, cut into digits of 5; its first 66 words,
which are all that a double can reach (the rest is compiled for larger formats).
`Recompute` is one round of the loop; `work` is its state.

**Libm.** A call is a step of its function (`Compute`, `Root`, `Power`, ...), but
`sin`, `cos` and `tan` are reduction, its recomputations, and kernel.
`specialcase`, which `exp` and `pow` share, is also called by itself, to reach
every scale and residue. `ldexp` is `scalbn`.

**Harness.** `tests` and `log` are the arrays up to their counters. A byte of
the log is a pair of its message's kind and its position, so truncation is exact.
Test bodies are arbitrary: each executes up to `MaxSteps` statements that change
state. Constructors run when the first export is called; wasm-ld's wrappers run
them again with the later exports, so `CallBuffer` and `CallSize` allow for both
(external: the linker).

## 3. What the runs check

| run | bounds | shows |
|---|---|---|
| `sys_alloc` | 32-word pages, 6 of 8 | the heap lies below the break, owns no foreign page, merges what touches, loses no page it grew, fails only for a reason, and before it grows anything if the size wraps |
| `dl_malloc` | 3 pages of 32 words, foreign growth, 3 blocks | tags, bins and dv agree; blocks are honoured; tiling across segments, no leaked chunk |
| `dl_malloc_refines` | 4 pages of 32 words, which fill the address space; 8 words for an initial heap, too few; 2 blocks | the first segment comes from `sys_alloc` and is tiled; implements `SysAlloc` and `AllocSpec`, where `malloc`, `calloc` and `aligned_alloc` may only take words that no caller holds (`Obtains`); grows only when no free chunk fits |
| `tree_bin` | 5 chunks, 5-bit sizes, 4 bins, the last from 12 on and open-ended; 5 sizes freed and asked for, and what splits leave of them | links, order, best fit for every request; implements `FifoBins` |
| `libm` | the formats above: all values of the first (`remquo`, `fmin`, `fmax` and `fma` every second to ninth), all arguments of `sqrt`, some 120 000 calls in the third format, dense at thresholds and where reduction cancels most | exact functions exact, `fma` and `sqrt` rounded once, `hypot` within one ulp, logarithms, powers, angles, sines within the tolerances below; reduction accurate and inside its arrays |
| `mem_functions` | all alignments; lengths 0-53 (copy), 0-14 at distances -19 to 16 (move), 0-101 (set), texts of 8 bytes | exact result, accesses inside the operands and aligned, termination |
| `next_prime` | all 1024 arguments of a 10-bit `size_t` | least prime, 1 if none is recognised, no trap, termination |
| `harness` | 3 registry entries, 0-4 linked tests, 2 statements each, 11 bytes of log | summary, exit code, log, termination |

Why the bounds are enough. The heap's layout depends on sizes only through
comparisons with the minimum chunk, the large-bin limit, top's foot and the
page: each instance has requests below, at and above each of them, and pages
just large enough that one request fits and the next does not. Six pages admit
foreign growth before, between and after two growths of one call, the longest
interleaving `sys_alloc` reacts to. Three blocks give a chunk with free
neighbours on both sides, and a second segment appears with the third page.
Five chunks make a trie three levels deep with a ring beside it, which is what
an unlink can disturb. Sizes 16 to 31 take `compute_tree_index`'s case for what is above
the regular bins, size 12 shares their bin, and its trie tests the highest bit first; the
remainders of splits fill the other bins. The lengths of the mem functions exceed each limit in the
code: the loops over blocks run at least twice and leave every remainder. In `NextPrime` the wrap happens at 2^10 as at 2^32. The
harness's log can fill up inside, at the end of, or just before any kind of
message.

In libm's small formats every relation between the positions of two significands
occurs (apart, overlapping, cancelled to one bit, subnormal), and each value
takes each branch. In the third, arguments lie on both sides of every threshold
the code tests and in every row of its tables, and `HardToReduce` are those of all
its floats whose reduction cancels most. What is compared with a reference has these
tolerances:

| what | tolerance | what it leaves open |
|---|---|---|
| `log`; `log2`, `log10` | 3; 5 units of 2^-20 | a wrong octave or a row that does not belong to the exponent shows; entries of the tables that are wrong together, or an index off by one whose row suits the argument nearly as well, need not |
| `exp` | the neighbours of the result, and 2 units of 2^-20 in the argument | nothing of that size |
| `pow` | the neighbours of the result, and 3 + 2 abs(y) units in its logarithm | for large y, all but sign, special values and order of magnitude |
| `atan`; `asin`, `acos`; `atan2` | 3; 10; 72 units of 2^-20 | the relative error of small angles |
| reduction | 2^-18 of the remainder and 8 units, at least 2^-17 together | - |
| `sin`, `cos`; `tan` | 2^-12 of the result and 8 units of 2^-26; of 2^-20, for numerator and denominator | - |
| the same where the angle left is below 2^-6 | one unit in the last place | - |

A quadrant, a sign or a breakpoint that is wrong shows as 2^-8 or more.

The type invariants are conjuncts of `TagsAgree`, `LinksMatch`, `LogFaithful` and
`InBounds` in those modules; `SysAlloc` and `NextPrime` check theirs as `TypeOK`, which
is also a theorem.

Bounds that are not the program's: `MaxLive`, `Requests`, `Arrays`, `Alignments`
(DlMalloc), `Calls`, `Contents` (MemFunctions), `M`, `Bias` and the widths derived
from them, and `Calls` (Libm), `Sizes` and `Chunk` (TreeBin), `MaxLinked`, `MaxSteps`, `NoteSizes`
(Harness). `MaxPages`, `MaxTests`, `LogCap`, `Root` are the program's own
limits, made small.

Deadlock is checked except in `MemFunctions`, `NextPrime` and `Harness`, which end.

### Disagreements found

Each of these runs checks one statement of a comment and TLC refutes it.

| run | statement | what the code does |
|---|---|---|
| `never_trims` | `sbrk.c`: a negative increment is never passed | `sys_alloc` gives memory back when a second growth is refused after foreign growth; `sbrk` traps |
| `break_is_top` | `sbrk.c`: `sbrk(0)` is the top of memory | 65536 pages wrap to 0 |
| `next_prime_returns_no_less` | `stubs.cpp`: overflow traps | the odd candidate wraps to 1, which is returned |
| `harness_idempotent` | `wcs-test.h`: registration is idempotent | a second entry, which runs again |

### Fairness

`MemFunctions`, `NextPrime` and `Harness` assume weak fairness of their next-state relation and
nothing else: a call into the wasm runs until it returns or traps, since there
is no other thread and the engine does not preempt it for good. In `Harness`
this supposes that each test body ends, which `MaxSteps` states; what the
property is about is the loop around the bodies, which a test can extend by
registering tests. The allocator's and the library's models need no fairness: they have only
safety properties, one call being one or a few steps. That the recomputation loop
of the argument reduction ends is `ReductionInBounds`: each round finds a digit
to add, and the digits never exceed the arrays.

## 4. What is proved

**SysAllocProofs**, for every page size, memory size, heap base and set of
requests that satisfies the named assumptions: `TypeCorrect`, `HeapBelowBreak`,
`SegmentsApart`, `ForeignPagesSafe`, `TopChunkChecked`. All follow from one
inductive invariant `IInv`: the memory's bounds, the heap's (`HeapInv`: every
segment is page-aligned at its end, lies between the heap base and the break,
ends below the start of the next, holds no foreign page, and top ends
`TopFootSize` before its segment does) and the range of `result`. None of the
properties is inductive alone: that an appended region is contiguous needs the
alignment of segment ends, that it is not foreign needs the break to be above
the newest segment, and that top can be served needs the size computations not
to wrap, which lemma `NoWrap` and `RequestPages` give. The proof has a lemma
for each way of obtaining memory (`CopeFacts`, `NoncontiguousFacts`,
`AcquireFacts`) and one for each action (`AppendKeeps`, `SegmentKeeps`, ...).

Two action properties follow from it: `FailureNeedsRefusal` (malloc returns NULL
only if the engine refused to grow, or for a request near half the address
space, and then without having grown the memory, or when top alone is so large that
the rest of a growth was not asked for; and a request whose padded size wraps is
rejected before any growth: `WrapIsRejected`) and `NoPageLost` (what a call made the engine grow is in a segment when
it returns). What every extension is good for is lemma `AcquireServes`: if it
is there at all, it ends at the break and top can serve the request from it
(`NoncontiguousServes`, `CopeServes`). Both theorems assume
`MaxPages < AddrPages`. The hypothesis is needed: in a memory that fills the
whole address space the break is at address 0, the noncontiguous branch takes
its `sbrk(0)` for a failure, and the page is neither used nor returned, with no
refusal (TLC shows it for `MaxPages = AddrPages`; same cause as the disagreement
of `SysAlloc_BreakIsTopOfMemory`).

**DlMallocProofs**, for every page, memory and address-space size, heap base, sets of
requests, arrays and alignments, large-bin limit and number of blocks that
satisfies the named assumptions: `HeapTagsAgree`, `HeapTiled`,
`HeapNoFreeNeighbours`, `HeapBinsMatch`, `HeapNoChunkLeaked` and
`HeapBlocksHonoured`, all six invariants of run `dl_malloc`. None is inductive, nor is
their conjunction: `free` merges by `prev_foot`, so it needs the tags; the tags are
right only if the stretch relaid is a run of whole chunks; the chunk a bin hands out
is one only if the bins match; and top is where the system layer thinks it is only
if the segments end where the fenceposts are. The inductive invariant `HeapIInv`
(theorem `HeapInvariant`) is

* `Sound`: the system layer's invariant of `SysAllocProofs` for `SystemPart(gm)`, and
  the heap is either blank or `Whole`: its headers have a `Shape` (from the
  first chunk of every segment on, each header leads to the next one and the last to
  the fake chunk; pinuse, cinuse and prev_foot agree; no two free neighbours), the
  bins hold exactly the free chunks other than top and dv, each once, with the
  marks right, and the chunks in use are the callers' and those of segment records;
* `Callers`: the blocks of `live` are as long and as aligned as promised, and a
  `realloc` or `aligned_alloc` between its two steps owns the chunk it has got,
  which is long enough for what the second step does to it;
* `MemoryInv` and the range of `result`.

The argument goes from the headers up. `ChunkProofs`: every macro lays a stretch of
chunks anew as one chunk or two (`Retags`), which keeps the shape (`Relay`);
an operation is a sequence of such relayings during which some free
chunks are in no bin (`Loose`); it ends with the heap whole again (`HeapFound`,
`DisposeWhole`, the `Resized` lemmas, `MemalignEnds`), and leaves everyone else's
chunks as they were (`Steady`). `DlMallocProofs`: `init_top` and `add_segment` with its
fenceposts keep it whole (`LongerShape`, `SegmentShape`, `ExtendSustains`); then
each action preserves `HeapIInv` (`MallocKeeps`, `CallocKeeps`, `FreeKeeps`,
`ReallocKeeps`, `ReallocFreeKeeps`, `MemalignKeeps`, `MemalignTrimKeeps`, `HostKeeps`),
and each of the six properties follows from it (`Implies...`). `calloc`'s product
needs lemma `CallocAsks`: if the wrapped product passes the test of the code,
it is the product.

**RefinementProofs**, from the same assumptions and the same `HeapIInv`: the two
refinements and the action property of run `dl_malloc_refines`.

* `HeapRefinesAllocSpec`. The callers' view of a block is two words into its chunk and
  one word shorter (`UserView`). That blocks are aligned, inside the memory and apart
  (`BlocksFit`) follows from `Shape`: chunks of different addresses do not overlap.
  Each action changes the blocks as one step of `AllocSpec` may (`CallersStep`,
  `OneBlock`). That one step hands out *fresh* words is the second half of the
  property: a chunk that `malloc` returns was in use for nobody before, so it
  is none of the callers' (`HeapIInv`'s one owner per chunk).
* `HeapRefinesSysAlloc`. Both layers compute an extension with the operators of
  `SystemLayer`, so this is about what the chunk layer does to top and with a new segment;
  the operators themselves answer to the properties of `sys_alloc` and to `Tiled`. Most of what an operation writes are headers, bins and dv,
  which the system layer does not see (`Carries`, with one lemma per macro and
  operation). What it does to top is one of three things. It is cut, as in `SysAlloc`'s
  `CutTop`; it grows downwards by whole free chunks of its segment, which is
  `GiveToTop` (`Sinks`; `TopSinks` obtains where top lies from `HeapIInv` before
  and after the step); or the system layer extends or replaces it, and what is written
  into the new memory stays out of its sight (`Over`). Both
  start blank (`SysInit`), and the call that sets the first heap up has nothing but
  top to take from (`FirstHeaders`). `EverySysStep` puts them together.
* `HeapGrowsOnlyWhenFull`. `malloc` reaches `sys_alloc` only past the searches of the
  bins, dv and top (`LastResort`); `BinsMatch` turns "no bin" into "no free chunk". The
  comparison of line 4502 is with a difference that wraps: `WrapLoses` shows that for a
  dv too small for the request it wraps to more than what is left of any chunk, so that such
  a dv never hides a chunk of the tree bins that fits.

**NextPrimeProofs**, for every `Root` divisible by four: `NeverTraps` (the
candidate is odd and so never 0; `IInv`) and `LeastPrimeBelowSquare` (what is returned
is a prime not below the argument, or 1, and no prime below `(Root-1)^2` was passed
by, not even when the search wraps). The second uses `EInv`: no odd number below the
divisor divides the candidate, whether or not a square has wrapped; no number below
the square that the search has left behind is prime; and the candidate only goes up
until it wraps to 1. A candidate is taken for prime either at a divisor whose square is
exact, or after all odd numbers below `Root` were tried. The arithmetic core is
`OddTrial`: an odd number that no odd number up to its root divides is prime.

**HarnessProofs**, for every size of registry and log, number of linked tests,
length of test bodies and of messages: `SummaryHolds`, `ExitTruthful` and
`LogTruthful`. The first two use `RunInv`: `i - 1` tests are over, each with one
verdict, and they are the first `i - 1` of the registry (`Progress`, which
needs that registrations only append: `ConstructedFacts`, `RegisterFacts`); the
failure counter speaks for the test in progress and `failed` counts the other
tests of `broken` (`Verdicts`); and what was reported agrees with them
(`Reports`). `SummaryTrue` alone is not inductive: it says nothing until the
summary is written. The third uses `LogInv`, which `WriteFacts` shows for both
ways of writing to the buffer.

**MemFunctionsProofs**, for every memory size, number of values of a byte,
threshold, set of calls and contents of the memory: `ResultsExact` and
`AccessesInBounds`. The invariant says for each label what the code there may
rely on: in the upward copies, the bytes before `d` are the copied ones and
those not yet read are intact (`UpInv`, `SourceIntact`); in the downward ones the
same from the other end; in the shifted loops, the word carried over holds the
bytes of the source that the next store needs (`ShiftBlocksKeeps`); in the tail,
the bits of `n` not yet tested are the bytes that remain; in `memset`, which
stretches the overlapping stores have covered. `memmove` is
exact because the direction it picks never overwrites a byte it has yet to read.
The word test of `strlen` finds a zero byte and nothing else (`ZeroByte`). The
assumptions are `MemAssumption`, with the sizes the code's constants need, and
`StringAssumption`: a string given to `strlen` has its terminator in memory.

**Only model-checked.** Liveness (`Terminates`, three times) and the refinement of the
queues by the tries, whose definitions are recursive, are beyond TLAPS, and so
are the invariants of `TreeBin`, which reach those definitions.
`FootprintIsSegments` is a sum over a set, a fold that only induction over data
unfolds. `ReturnsLeastPrime` needs more than `LeastPrimeBelowSquare`: that above the square
every prime short of the last eight numbers is recognised holds because `Words` is a power
of two, modulo which every number that is 1 modulo 8 is a square, `Words - 7` too; that
takes an induction.
Those of `Libm` compare recursive computations with each other and stay with TLC.
Of `DlMalloc` and `SysAlloc`, everything else a run checks is proved.
The invariant `HeapIInv` is not run through TLC, as its quantifiers range over all
addresses and sizes; its parts are the run's invariants and what connects them.

## 5. What is not modelled, and the plan

Not modelled: the accuracy of libm's results to a fraction of an ulp at 53 bits
(that needs real arithmetic; what is checked is that each path computes its
function); the `float` and `long double` functions, of which only declarations exist here;
operator new and delete, each of which is one call of `malloc`, `free` or
`aligned_alloc` and a trap if it fails, with no state of its own; the stubs that
only trap or do nothing (`cxa.cpp`, `exception.cpp`, `verbose_abort.cpp`); the functions of
`malloc.c` that this libc does not export (`dlposix_memalign`,
`dlrealloc_in_place`, mspaces, statistics); headers, build scripts, CI and
integration tests.

Next: lemmas about `Floats` that need no induction (`Round` is monotone and exact
on floats, sums of neighbours are exact).
