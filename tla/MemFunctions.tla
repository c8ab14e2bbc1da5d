---------------------------- MODULE MemFunctions ----------------------------
(***************************************************************************)
(* The mem and str functions of the libc: memcpy, memmove, memset, memcmp  *)
(* and strlen on a memory of bytes, with their word-sized accesses.  One   *)
(* iteration of a loop is a step; a straight-line run of accesses up to    *)
(* the next condition is a step.                                           *)
(***************************************************************************)
EXTENDS Integers, Sequences

CONSTANTS MemSize,    \* bytes of memory, and the modulus of uintptr_t
          Base,       \* values of a byte (256)
          Threshold,  \* BULK_MEMORY_THRESHOLD (200)
          Calls,      \* the calls considered
          Contents    \* the memory's contents when a function is called

Addr == 0 .. MemSize - 1
Byte == 0 .. Base - 1

(* dest and src are the pointers of the call (vl and vr of memcmp; strlen  *)
(* has only src), n its length, c the byte memset stores.                  *)
Call == [op : {"memcpy", "memmove", "memset", "memcmp", "strlen"},
         dest : Addr, src : Addr, n : 0 .. MemSize, c : Byte]

ASSUME MemAssumption ==
    /\ MemSize \in Nat /\ MemSize % 8 = 0
    /\ Base \in Nat /\ Base % 2 = 0 /\ Base >= 4 /\ Base <= MemSize
    /\ Threshold \in Nat /\ Threshold >= 8
    /\ Calls \subseteq Call
    /\ \A f \in Calls :
          /\ f.dest + f.n <= MemSize /\ f.src + f.n <= MemSize
          /\ f.op = "memcpy" => f.dest + f.n <= f.src \/ f.src + f.n <= f.dest
          /\ 2 * f.n <= MemSize
    /\ Contents \in [{f.op : f \in Calls} -> SUBSET [Addr -> Byte]]

(* strlen is called with a string: it ends before the memory does.         *)
ASSUME StringAssumption ==
    \A f \in Calls : f.op = "strlen" =>
        \A bytes \in Contents["strlen"] : \E a \in f.src .. MemSize - 1 : bytes[a] = 0

VARIABLES mem,     \* the bytes
          was,     \* history: the bytes when the function was called
          call,    \* the call
          pc,      \* where it is
          d, s, n, \* the function's own copies of its arguments
          w,       \* memcpy's word w
          stage,   \* the bit of n that memcpy's tail tests; memset's stage
          ret,     \* what the function returned
          access   \* history: the accesses of the last step

vars == <<mem, was, call, pc, d, s, n, w, stage, ret, access>>

NoReturn == MemSize
WordSize == 4

-----------------------------------------------------------------------------
(* Accesses.                                                               *)

(* k bytes at a, accessed in units of a width.                             *)
Units(kind, a, k, width) ==
    {[kind |-> kind, addr |-> a + width * i, width |-> width] : i \in 0 .. (k \div width) - 1}

CopyUnits(to, from, k, width) == Units("read", from, k, width) \cup Units("write", to, k, width)

Word(a) == [i \in 1 .. WordSize |-> mem[a + i - 1]]

Copied(bytes, to, from, k) ==
    [a \in Addr |-> IF a \in to .. to + k - 1 THEN bytes[from + a - to] ELSE bytes[a]]

Filled(bytes, S, c) == [a \in Addr |-> IF a \in S THEN c ELSE bytes[a]]

Goto(label) == pc' = label /\ UNCHANGED ret

Return(v) == pc' = "done" /\ ret' = v

(* *d++ = *s++ for k bytes, in units of a width.                           *)
CopyForward(k, width) ==
    /\ mem' = Copied(mem, d, s, k)
    /\ d' = d + k /\ s' = s + k
    /\ access' = CopyUnits(d, s, k, width)

Quiet == access' = {} /\ UNCHANGED <<mem, d, s, n>>

-----------------------------------------------------------------------------
(* Above the threshold the work is one instruction: memory.copy, which     *)
(* minds overlap, or memory.fill.                                          *)

Bulk ==
    /\ pc = "start" /\ call.op \in {"memcpy", "memmove", "memset"} /\ n > Threshold
    /\ mem' = IF call.op = "memset" THEN Filled(mem, d .. d + n - 1, call.c)
              ELSE Copied(mem, d, s, n)
    /\ access' = {}
    /\ Return(call.dest)
    /\ UNCHANGED <<d, s, n, w, stage>>

-----------------------------------------------------------------------------
(* memcpy.                                                                 *)

StartCopy ==
    /\ pc = "start" /\ call.op = "memcpy" /\ n <= Threshold
    /\ Goto("head") /\ Quiet /\ UNCHANGED <<w, stage>>

AlignSource ==
    /\ pc = "head" /\ s % WordSize # 0 /\ n # 0
    /\ CopyForward(1, 1) /\ n' = n - 1
    /\ UNCHANGED <<pc, ret, w, stage>>

SourceAligned == pc = "head" /\ (s % WordSize = 0 \/ n = 0)

(* The destination is aligned too, or there is too little to do for the    *)
(* loop that shifts words.                                                 *)
ChoosePlain ==
    /\ SourceAligned
    /\ \/ d % WordSize = 0 /\ Goto("blocks") /\ UNCHANGED stage
       \/ d % WordSize # 0 /\ n < 32 /\ Goto("tail") /\ stage' = 16
    /\ Quiet /\ UNCHANGED w

(* Otherwise the first word is kept, and copied by bytes as far as the     *)
(* destination's next word.                                                *)
ChooseShift ==
    /\ SourceAligned /\ d % WordSize # 0 /\ n >= 32
    /\ w' = Word(s)
    /\ LET k == WordSize - (d % WordSize)
       IN  /\ mem' = Copied(mem, d, s, k)
           /\ d' = d + k /\ s' = s + k /\ n' = n - k
           /\ access' = Units("read", s, WordSize, WordSize) \cup CopyUnits(d, s, k, 1)
    /\ Goto("shift") /\ UNCHANGED stage

CopyBlocks ==
    /\ pc = "blocks"
    /\ \/ n >= 16 /\ CopyForward(16, WordSize) /\ n' = n - 16 /\ UNCHANGED <<pc, ret, stage>>
       \/ n < 16 /\ Quiet /\ Goto("tail") /\ stage' = 8
    /\ UNCHANGED w

(* A word of the destination: the last k bytes of one word of the source   *)
(* and the first bytes of the next (on a little-endian machine).           *)
Merge(this, next, k) == SubSeq(this, WordSize - k + 1, WordSize) \o SubSeq(next, 1, WordSize - k)

ShiftLimit_NoOffset_Mutant(k) == 16

(* What the loop for k leftover bytes needs: its last word is read k bytes *)
(* ahead.                                                                  *)
ShiftLimit(k) == 16 + k

ShiftBlocks ==
    /\ pc = "shift"
    /\ LET k       == WordSize - (s % WordSize)
           word(i) == IF i = 0 THEN w ELSE Word(s + k + WordSize * (i - 1))
           out     == Merge(word(0), word(1), k) \o Merge(word(1), word(2), k)
                         \o Merge(word(2), word(3), k) \o Merge(word(3), word(4), k)
       IN  \/ /\ n >= ShiftLimit(k)
              /\ mem' = [a \in Addr |-> IF a \in d .. d + 15 THEN out[a - d + 1] ELSE mem[a]]
              /\ w' = word(4)
              /\ d' = d + 16 /\ s' = s + 16 /\ n' = n - 16
              /\ access' = CopyUnits(d, s + k, 16, WordSize)
              /\ UNCHANGED <<pc, ret, stage>>
           \/ /\ n < ShiftLimit(k)
              /\ Quiet /\ Goto("tail") /\ stage' = 16 /\ UNCHANGED w

(* The rest, by the bits of n; the aligned case copies words as long as    *)
(* there are four bytes.                                                   *)
CopyTail ==
    /\ pc = "tail"
    /\ IF ((n \div stage) % 2) = 1
       THEN CopyForward(stage, IF s % WordSize = 0 /\ d % WordSize = 0 /\ stage >= WordSize
                               THEN WordSize ELSE 1)
       ELSE access' = {} /\ UNCHANGED <<mem, d, s>>
    /\ stage' = stage \div 2
    /\ IF stage = 1 THEN Return(call.dest) ELSE UNCHANGED <<pc, ret>>
    /\ UNCHANGED <<n, w>>

Memcpy == StartCopy \/ AlignSource \/ ChoosePlain \/ ChooseShift \/ CopyBlocks \/ ShiftBlocks \/ CopyTail

-----------------------------------------------------------------------------
(* memmove.                                                                *)

Disjoint_OneSided_Mutant == (s - d - n) % MemSize <= (-n) % MemSize

(* "(uintptr_t)s-(uintptr_t)d-n <= -2*n".                                  *)
Disjoint == (s - d - n) % MemSize <= (-2 * n) % MemSize

SameOffset == s % WordSize = d % WordSize

StartMove ==
    /\ pc = "start" /\ call.op = "memmove" /\ n <= Threshold
    /\ \/ d = s /\ Return(call.dest)
       \/ d # s /\ Disjoint /\ Goto("head")
       \/ d < s /\ ~Disjoint /\ Goto(IF SameOffset THEN "alignUp" ELSE "bytesUp")
       \/ d > s /\ ~Disjoint /\ Goto(IF SameOffset THEN "alignDown" ELSE "bytesDown")
    /\ Quiet /\ UNCHANGED <<w, stage>>

AlignUp ==
    /\ pc = "alignUp"
    /\ \/ d % WordSize = 0 /\ Goto("wordsUp") /\ Quiet
       \/ d % WordSize # 0 /\ n = 0 /\ Return(call.dest) /\ Quiet
       \/ d % WordSize # 0 /\ n # 0 /\ CopyForward(1, 1) /\ n' = n - 1 /\ UNCHANGED <<pc, ret>>
    /\ UNCHANGED <<w, stage>>

WordsUp ==
    /\ pc = "wordsUp"
    /\ \/ n >= WordSize /\ CopyForward(WordSize, WordSize) /\ n' = n - WordSize /\ UNCHANGED <<pc, ret>>
       \/ n < WordSize /\ Goto("bytesUp") /\ Quiet
    /\ UNCHANGED <<w, stage>>

BytesUp ==
    /\ pc = "bytesUp"
    /\ \/ n # 0 /\ CopyForward(1, 1) /\ n' = n - 1 /\ UNCHANGED <<pc, ret>>
       \/ n = 0 /\ Return(call.dest) /\ Quiet
    /\ UNCHANGED <<w, stage>>

(* The last k of the n bytes.                                              *)
CopyBackward(k) ==
    /\ mem' = Copied(mem, d + n - k, s + n - k, k)
    /\ n' = n - k
    /\ access' = CopyUnits(d + n - k, s + n - k, k, k)
    /\ UNCHANGED <<pc, ret, d, s>>

AlignDown ==
    /\ pc = "alignDown"
    /\ \/ (d + n) % WordSize = 0 /\ Goto("wordsDown") /\ Quiet
       \/ (d + n) % WordSize # 0 /\ n = 0 /\ Return(call.dest) /\ Quiet
       \/ (d + n) % WordSize # 0 /\ n # 0 /\ CopyBackward(1)
    /\ UNCHANGED <<w, stage>>

WordsDown ==
    /\ pc = "wordsDown"
    /\ \/ n >= WordSize /\ CopyBackward(WordSize)
       \/ n < WordSize /\ Goto("bytesDown") /\ Quiet
    /\ UNCHANGED <<w, stage>>

BytesDown ==
    /\ pc = "bytesDown"
    /\ \/ n # 0 /\ CopyBackward(1)
       \/ n = 0 /\ Return(call.dest) /\ Quiet
    /\ UNCHANGED <<w, stage>>

Memmove == StartMove \/ AlignUp \/ WordsUp \/ BytesUp \/ AlignDown \/ WordsDown \/ BytesDown

-----------------------------------------------------------------------------
(* memset: stores from both ends that may overlap, first of bytes, then of *)
(* words, each stage enough for lengths up to a limit.                     *)

ByteStages ==
    << [at |-> {0, n - 1}, limit |-> 2],
       [at |-> {1, 2, n - 2, n - 3}, limit |-> 6],
       [at |-> {3, n - 4}, limit |-> 8] >>

WordStages ==
    << [at |-> {0, n - 4}, limit |-> 8],
       [at |-> {4, 8, n - 12, n - 8}, limit |-> 24],
       [at |-> {12, 16, 20, 24, n - 28, n - 24, n - 20, n - 16}, limit |-> 0] >>

Fill(offsets, width) ==
    /\ mem' = Filled(mem, UNION {d + o .. d + o + width - 1 : o \in offsets}, call.c)
    /\ access' = UNION {Units("write", d + o, width, width) : o \in offsets}

StartSet ==
    /\ pc = "start" /\ call.op = "memset" /\ n <= Threshold
    /\ \/ n = 0 /\ Return(call.dest) /\ UNCHANGED stage
       \/ n # 0 /\ Goto("setBytes") /\ stage' = 1
    /\ Quiet /\ UNCHANGED w

SetBytes ==
    /\ pc = "setBytes"
    /\ Fill(ByteStages[stage].at, 1)
    /\ \/ n <= ByteStages[stage].limit /\ Return(call.dest) /\ UNCHANGED <<d, n, stage>>
       \/ n > ByteStages[stage].limit /\ stage < 3 /\ stage' = stage + 1 /\ UNCHANGED <<pc, ret, d, n>>
       \/ /\ n > ByteStages[stage].limit /\ stage = 3
          /\ LET k == (-d) % WordSize
             IN  d' = d + k /\ n' = ((n - k) \div WordSize) * WordSize
          /\ Goto("setWords") /\ stage' = 1
    /\ UNCHANGED <<s, w>>


(* How far the words stored at the head allow to skip, for the next store  *)
(* to be aligned to eight bytes.                                           *)
Skip == 24 + (IF (d \div 4) % 2 = 1 THEN 4 ELSE 0)

SetWords ==
    /\ pc = "setWords"
    /\ Fill(WordStages[stage].at, WordSize)
    /\ \/ stage < 3 /\ n <= WordStages[stage].limit /\ Return(call.dest) /\ UNCHANGED <<d, n, stage>>
       \/ stage < 3 /\ n > WordStages[stage].limit /\ stage' = stage + 1 /\ UNCHANGED <<pc, ret, d, n>>
       \/ stage = 3 /\ d' = d + Skip /\ n' = n - Skip /\ Goto("setBlocks") /\ UNCHANGED stage
    /\ UNCHANGED <<s, w>>

SetBlocks ==
    /\ pc = "setBlocks"
    /\ \/ n >= 32 /\ Fill({0, 8, 16, 24}, 8) /\ d' = d + 32 /\ n' = n - 32 /\ UNCHANGED <<pc, ret, s>>
       \/ n < 32 /\ Return(call.dest) /\ Quiet
    /\ UNCHANGED <<w, stage>>

Memset == StartSet \/ SetBytes \/ SetWords \/ SetBlocks

-----------------------------------------------------------------------------
Memcmp ==
    /\ call.op = "memcmp" /\ pc = "start"
    /\ \/ /\ n # 0 /\ mem[d] = mem[s]
          /\ d' = d + 1 /\ s' = s + 1 /\ n' = n - 1 /\ UNCHANGED <<pc, ret>>
       \/ n # 0 /\ mem[d] # mem[s] /\ Return(mem[d] - mem[s]) /\ UNCHANGED <<d, s, n>>
       \/ n = 0 /\ Return(0) /\ UNCHANGED <<d, s, n>>
    /\ access' = IF n = 0 THEN {} ELSE Units("read", d, 1, 1) \cup Units("read", s, 1, 1)
    /\ UNCHANGED <<mem, w, stage>>

-----------------------------------------------------------------------------
(* strlen.  HASZERO is "(x)-ONES & ~(x) & HIGHS": some byte has its high   *)
(* bit set in x - ONES and clear in x.                                     *)

Value(x)      == x[1] + Base * (x[2] + Base * (x[3] + Base * x[4]))
Ones          == Value(<<1, 1, 1, 1>>)
Top           == Value(<<Base - 1, Base - 1, Base - 1, Base - 1>>)
HighBit(v, i) == (v \div (<<1, Base, Base * Base, Base * Base * Base>>[i] * (Base \div 2))) % 2

HasZero(x) ==
    LET less == (Value(x) - Ones) % (Top + 1)
    IN  \E i \in 1 .. WordSize : HighBit(less, i) = 1 /\ HighBit(Value(x), i) = 0

ReadByte == access' = Units("read", s, 1, 1)

AlignString ==
    /\ pc = "start" /\ call.op = "strlen"
    /\ \/ s % WordSize # 0 /\ mem[s] = 0 /\ ReadByte /\ Return(s - call.src) /\ UNCHANGED s
       \/ s % WordSize # 0 /\ mem[s] # 0 /\ ReadByte /\ s' = s + 1 /\ UNCHANGED <<pc, ret>>
       \/ s % WordSize = 0 /\ access' = {} /\ Goto("words") /\ UNCHANGED s
    /\ UNCHANGED <<mem, d, n, w, stage>>

SkipWords_Stuck_Mutant ==
    /\ pc = "words"
    /\ access' = Units("read", s, WordSize, WordSize)
    /\ \/ ~HasZero(Word(s)) /\ UNCHANGED <<pc, ret, s>>
       \/ HasZero(Word(s)) /\ Goto("string") /\ UNCHANGED s
    /\ UNCHANGED <<mem, d, n, w, stage>>

SkipWords ==
    /\ pc = "words"
    /\ access' = Units("read", s, WordSize, WordSize)
    /\ \/ ~HasZero(Word(s)) /\ s' = s + WordSize /\ UNCHANGED <<pc, ret>>
       \/ HasZero(Word(s)) /\ Goto("string") /\ UNCHANGED s
    /\ UNCHANGED <<mem, d, n, w, stage>>

FindEnd ==
    /\ pc = "string"
    /\ ReadByte
    /\ \/ mem[s] # 0 /\ s' = s + 1 /\ UNCHANGED <<pc, ret>>
       \/ mem[s] = 0 /\ Return(s - call.src) /\ UNCHANGED s
    /\ UNCHANGED <<mem, d, n, w, stage>>

Strlen == AlignString \/ SkipWords \/ FindEnd

-----------------------------------------------------------------------------
Init ==
    /\ call \in Calls
    /\ mem \in Contents[call.op] /\ was = mem
    /\ pc = "start" /\ d = call.dest /\ s = call.src /\ n = call.n
    /\ w = Word(0) /\ stage = 0 /\ ret = NoReturn /\ access = {}

Next ==
    /\ Bulk \/ Memcpy \/ Memmove \/ Memset \/ Memcmp \/ Strlen
    /\ UNCHANGED <<was, call>>

Spec == Init /\ [][Next]_vars /\ WF_vars(Next)

-----------------------------------------------------------------------------
TypeOK ==
    /\ mem \in [Addr -> Byte]
    /\ d \in 0 .. MemSize /\ s \in 0 .. MemSize /\ n \in 0 .. call.n
    /\ ret \in -Base .. NoReturn
    /\ pc = "done" <=> ret # NoReturn

(* What the C standard promises of the returned call: memory is changed    *)
(* where the call says and nowhere else, even if the operands of memmove   *)
(* overlap and whatever their alignment.                                   *)
PromisedMemory ==
    CASE call.op \in {"memcpy", "memmove"} -> Copied(was, call.dest, call.src, call.n)
      [] call.op = "memset" -> Filled(was, call.dest .. call.dest + call.n - 1, call.c)
      [] OTHER -> was

IsLength(k) == was[call.src + k] = 0 /\ \A i \in 0 .. k - 1 : was[call.src + i] # 0

IsComparison(v) ==
    LET differ == {i \in 0 .. call.n - 1 : was[call.dest + i] # was[call.src + i]}
    IN  IF differ = {} THEN v = 0
        ELSE \E i \in differ : /\ \A j \in differ : i <= j
                               /\ v = was[call.dest + i] - was[call.src + i]

PromisedReturn(v) ==
    CASE call.op = "strlen" -> IsLength(v)
      [] call.op = "memcmp" -> IsComparison(v)
      [] OTHER -> v = call.dest

ExactResult == pc = "done" => mem = PromisedMemory /\ PromisedReturn(ret)

Within(x, a, k) == a <= x.addr /\ x.addr + x.width <= a + k

WithinOperands ==
    \A x \in access :
        IF x.kind = "write" THEN Within(x, call.dest, call.n)
        ELSE IF call.op = "strlen"
        THEN /\ call.src <= x.addr
             /\ \A a \in call.src .. x.addr + x.width - 1 :
                   a < x.addr - (x.addr % WordSize) => was[a] # 0
        ELSE \/ Within(x, call.src, call.n)
             \/ call.op = "memcmp" /\ Within(x, call.dest, call.n)

(* No access leaves the operands, though they are made in words, from both *)
(* ends, and ahead of the bytes being stored; strlen alone may read        *)
(* beyond, to the end of the aligned word that holds the terminator. And   *)
(* words of four and eight bytes are only accessed at their multiples.     *)
InBounds ==
    /\ TypeOK
    /\ WithinOperands
    /\ \A x \in access : x.addr % x.width = 0

(* Every call returns.                                                     *)
Terminates == <>(pc = "done")
=============================================================================
