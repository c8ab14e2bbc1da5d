------------------------- MODULE MemFunctionsProofs -------------------------
(***************************************************************************)
(* Proofs about MemFunctions for every memory size, byte size, threshold,  *)
(* set of calls and contents of the memory.                                *)
(***************************************************************************)
EXTENDS MemFunctions, SequenceTheorems, TLAPS

-----------------------------------------------------------------------------
(* The inductive invariant: what each label of the code may rely on.       *)

IsCopy == call.op \in {"memcpy", "memmove"}

(* The operands do not overlap.                                            *)
Apart == call.dest + call.n <= call.src \/ call.src + call.n <= call.dest

Typed ==
    /\ call \in Calls
    /\ was \in [Addr -> Byte] /\ mem \in [Addr -> Byte]
    /\ d \in 0 .. MemSize /\ s \in 0 .. MemSize /\ n \in 0 .. call.n
    /\ ret \in -Base .. NoReturn
    /\ pc = "done" <=> ret # NoReturn
    /\ call.op = "memcpy" => Apart

(* Before a call has done anything.                                        *)
AtStart ==
    (pc = "start" /\ call.op \in {"memcpy", "memmove", "memset"}) =>
        d = call.dest /\ s = call.src /\ n = call.n /\ mem = was

(* The first k bytes are where they belong.                                *)
Moved(k) ==
    /\ d = call.dest + k /\ s = call.src + k
    /\ mem = Copied(was, call.dest, call.src, k)

(* Upward: what was copied never covers what is still to be read.          *)
UpInv ==
    /\ pc \in {"head", "blocks", "shift", "alignUp", "wordsUp", "bytesUp"} =>
          IsCopy /\ Moved(call.n - n) /\ (Apart \/ call.dest <= call.src)
    /\ pc \in {"head", "blocks", "shift"} => Apart
    /\ pc = "blocks" => n = 0 \/ (d % WordSize = 0 /\ s % WordSize = 0)
    /\ pc = "alignUp" => SameOffset
    /\ pc = "wordsUp" => d % WordSize = 0 /\ s % WordSize = 0

(* w is the aligned word of the source that s points into.                 *)
ShiftInv ==
    pc = "shift" =>
        /\ d % WordSize = 0 /\ s % WordSize # 0
        /\ call.src <= s - (s % WordSize)
        /\ w = [j \in 1 .. WordSize |-> was[s - (s % WordSize) + j - 1]]

(* The bits of n below stage count what is left.                           *)
TailInv ==
    pc = "tail" =>
        /\ IsCopy /\ Apart /\ stage \in {1, 2, 4, 8, 16}
        /\ n % (2 * stage) <= call.n /\ Moved(call.n - (n % (2 * stage)))

(* Downward: the last bytes are where they belong.                         *)
DownInv ==
    /\ pc \in {"alignDown", "wordsDown", "bytesDown"} =>
          /\ call.op = "memmove" /\ d = call.dest /\ s = call.src /\ s < d
          /\ mem = Copied(was, d + n, s + n, call.n - n)
    /\ pc = "alignDown" => SameOffset
    /\ pc = "wordsDown" => SameOffset /\ (d + n) % WordSize = 0

End == call.dest + call.n

(* memset has stored c from dest up to lo and from hi to the end.          *)
Stored(lo, hi) ==
    \A a \in call.dest .. End - 1 : (a < lo \/ a >= hi) => mem[a] = call.c

SetInv ==
    call.op = "memset" =>
        /\ pc \in {"start", "setBytes", "setWords", "setBlocks", "done"}
        /\ \A a \in Addr : mem[a] = was[a] \/ (a \in call.dest .. End - 1 /\ mem[a] = call.c)

BytesInv ==
    pc = "setBytes" =>
        /\ call.op = "memset" /\ d = call.dest /\ n = call.n
        /\ \/ stage = 1 /\ n >= 1
           \/ stage = 2 /\ n > 2 /\ Stored(d + 1, End - 1)
           \/ stage = 3 /\ n > 6 /\ Stored(d + 3, End - 3)

WordsInv ==
    pc = "setWords" =>
        /\ call.op = "memset" /\ d % WordSize = 0 /\ n % WordSize = 0
        /\ call.dest <= d /\ d + n <= End
        /\ \/ stage = 1 /\ n >= 4 /\ d - call.dest <= 3 /\ End - (d + n) <= 3
                 /\ Stored(call.dest + 4, End - 4)
           \/ stage = 2 /\ n >= 12 /\ Stored(d + 4, d + n - 4)
           \/ stage = 3 /\ n >= 28 /\ Stored(d + 12, d + n - 12)

BlocksInv ==
    pc = "setBlocks" =>
        /\ call.op = "memset" /\ d % 8 = 0 /\ n % WordSize = 0
        /\ call.dest <= d /\ d + n <= End /\ Stored(d, d + n - 28)

CmpInv ==
    call.op = "memcmp" =>
        /\ pc \in {"start", "done"} /\ mem = was
        /\ pc = "start" =>
              /\ d = call.dest + (call.n - n) /\ s = call.src + (call.n - n)
              /\ \A j \in 0 .. call.n - n - 1 : was[call.dest + j] = was[call.src + j]

(* The terminator is still ahead.                                          *)
LenInv ==
    call.op = "strlen" =>
        /\ pc \in {"start", "words", "string", "done"} /\ mem = was
        /\ \E a \in call.src .. MemSize - 1 : was[a] = 0
        /\ call.src <= s /\ s < MemSize
        /\ \A a \in call.src .. s - 1 : was[a] # 0
        /\ pc = "words" => s % WordSize = 0

Labels ==
    /\ pc \in {"start", "head", "blocks", "shift", "tail", "alignUp", "wordsUp", "bytesUp",
               "alignDown", "wordsDown", "bytesDown", "setBytes", "setWords", "setBlocks",
               "words", "string", "done"}
    /\ pc \in {"words", "string"} => call.op = "strlen"

Accesses == WithinOperands /\ \A x \in access : x.addr % x.width = 0

IInv ==
    /\ Typed /\ Labels /\ AtStart
    /\ UpInv /\ ShiftInv /\ TailInv /\ DownInv
    /\ SetInv /\ BytesInv /\ WordsInv /\ BlocksInv
    /\ CmpInv /\ LenInv
    /\ Accesses /\ ExactResult

-----------------------------------------------------------------------------
(* Arithmetic of the operands.                                             *)

LEMMA Basics ==
    /\ MemSize \in Nat /\ MemSize % 8 = 0
    /\ Base \in Nat /\ Base >= 4 /\ Base <= MemSize /\ Threshold \in Nat
  BY MemAssumption

(* What the callers promise.                                               *)
LEMMA CallFacts ==
    ASSUME call \in Calls
    PROVE  /\ call.op \in {"memcpy", "memmove", "memset", "memcmp", "strlen"}
           /\ call.dest \in Nat /\ call.dest < MemSize
           /\ call.src \in Nat /\ call.src < MemSize
           /\ call.n \in Nat /\ call.c \in Byte
           /\ call.dest + call.n <= MemSize /\ call.src + call.n <= MemSize
           /\ 2 * call.n <= MemSize
           /\ call.op = "memcpy" => Apart
  <1>1. call \in Call BY MemAssumption
  <1>2. /\ call.dest + call.n <= MemSize /\ call.src + call.n <= MemSize
        /\ 2 * call.n <= MemSize
        /\ call.op = "memcpy" => Apart
    BY MemAssumption DEF Apart
  <1> QED BY <1>1, <1>2, Basics DEF Call, Addr

(* An access of some width, aligned, to some of k bytes at a.              *)
Among(x, kind, a, k) ==
    /\ x.kind = kind /\ x.addr \in Nat /\ x.width \in Nat /\ x.addr % x.width = 0
    /\ a <= x.addr /\ x.addr + x.width <= a + k

(* What is accessed in units of a width stays inside, and aligned.         *)
LEMMA UnitsFacts ==
    ASSUME NEW kind, NEW a \in Nat, NEW k \in Nat, NEW width \in {1, 4, 8},
           a % width = 0
    PROVE  \A x \in Units(kind, a, k, width) : Among(x, kind, a, k)
  <1> TAKE x \in Units(kind, a, k, width)
  <1>1. PICK j \in 0 .. (k \div width) - 1 :
            x = [kind |-> kind, addr |-> a + width * j, width |-> width]
    BY DEF Units
  <1>2. x.kind = kind /\ x.width = width /\ x.addr = a + width * j BY <1>1
  <1>3. CASE width = 1 BY <1>1, <1>2, <1>3 DEF Among
  <1>4. CASE width = 4 BY <1>1, <1>2, <1>4 DEF Among
  <1>5. CASE width = 8 BY <1>1, <1>2, <1>5 DEF Among
  <1> QED BY <1>3, <1>4, <1>5

-----------------------------------------------------------------------------
(* Copying.                                                                *)

LEMMA CopiedType ==
    ASSUME NEW old \in [Addr -> Byte], NEW to \in Nat, NEW from \in Nat, NEW k \in Nat,
           from + k <= MemSize
    PROVE  Copied(old, to, from, k) \in [Addr -> Byte]
  <1>1. \A a \in Addr : a \in to .. to + k - 1 => old[from + a - to] \in Byte
    <2> TAKE a \in Addr
    <2> HAVE a \in to .. to + k - 1
    <2>1. from + a - to \in Addr BY Basics DEF Addr
    <2> QED BY <2>1
  <1> QED BY <1>1 DEF Copied

LEMMA CopiedNothing ==
    ASSUME NEW old \in [Addr -> Byte], NEW to \in Nat, NEW from \in Nat
    PROVE  Copied(old, to, from, 0) = old
  BY DEF Copied

(* Bytes copied upward behind those copied before.                         *)
LEMMA CopyUp ==
    ASSUME NEW old \in [Addr -> Byte], NEW to \in Nat, NEW from \in Nat,
           NEW j \in Nat, NEW k \in Nat, from + j + k <= MemSize,
           to <= from \/ from + j + k <= to,
           NEW to2, to2 = to + j, NEW from2, from2 = from + j
    PROVE  Copied(Copied(old, to, from, j), to2, from2, k) = Copied(old, to, from, j + k)
  <1> DEFINE mid == Copied(old, to, from, j)
  <1>1. \A a \in Addr : mid[a] = IF a \in to .. to + j - 1 THEN old[from + a - to] ELSE old[a]
    BY DEF Copied
  <1>2. \A a \in Addr : a \in to + j .. to + j + k - 1 =>
            mid[from + j + a - (to + j)] = old[from + a - to]
    <2> TAKE a \in Addr
    <2> HAVE a \in to + j .. to + j + k - 1
    <2>1. from + j + a - (to + j) = from + a - to /\ from + a - to \in Addr
      BY Basics DEF Addr
    <2>2. from + a - to \notin to .. to + j - 1 OBVIOUS
    <2> QED BY <1>1, <2>1, <2>2
  <1> HIDE DEF mid
  <1>3. \A a \in Addr : Copied(mid, to + j, from + j, k)[a] = Copied(old, to, from, j + k)[a]
    <2> TAKE a \in Addr
    <2>1. /\ Copied(mid, to + j, from + j, k)[a] =
                IF a \in to + j .. to + j + k - 1 THEN mid[from + j + a - (to + j)] ELSE mid[a]
          /\ Copied(old, to, from, j + k)[a] =
                IF a \in to .. to + (j + k) - 1 THEN old[from + a - to] ELSE old[a]
      BY DEF Copied
    <2>2. CASE a \in to + j .. to + j + k - 1 BY <1>2, <2>1, <2>2
    <2>3. CASE a \notin to + j .. to + j + k - 1
      <3>1. a \in to .. to + j - 1 <=> a \in to .. to + (j + k) - 1 BY <2>3 DEF Addr
      <3> QED BY <1>1, <2>1, <2>3, <3>1
    <2> QED BY <2>2, <2>3
  <1>4. /\ Copied(mid, to + j, from + j, k) = [a \in Addr |-> Copied(mid, to + j, from + j, k)[a]]
        /\ Copied(old, to, from, j + k) = [a \in Addr |-> Copied(old, to, from, j + k)[a]]
    BY DEF Copied
  <1> QED BY <1>3, <1>4 DEF mid

(* Bytes copied downward in front of those copied before.                  *)
LEMMA CopyDown ==
    ASSUME NEW old \in [Addr -> Byte], NEW to \in Nat, NEW from \in Nat,
           NEW j \in Nat, NEW k \in Nat, from + k + j <= MemSize, from <= to,
           NEW to2, to2 = to + k, NEW from2, from2 = from + k
    PROVE  Copied(Copied(old, to2, from2, j), to, from, k) = Copied(old, to, from, k + j)
  <1> DEFINE mid == Copied(old, to2, from2, j)
  <1>1. \A a \in Addr : mid[a] = IF a \in to + k .. to + k + j - 1
                                 THEN old[from + k + a - (to + k)] ELSE old[a]
    BY DEF Copied
  <1>2. \A a \in Addr : a \in to .. to + k - 1 => mid[from + a - to] = old[from + a - to]
    <2> TAKE a \in Addr
    <2> HAVE a \in to .. to + k - 1
    <2>1. from + a - to \in Addr BY Basics DEF Addr
    <2>2. from + a - to \notin to + k .. to + k + j - 1 OBVIOUS
    <2> QED BY <1>1, <2>1, <2>2
  <1> HIDE DEF mid
  <1>3. \A a \in Addr : Copied(mid, to, from, k)[a] = Copied(old, to, from, k + j)[a]
    <2> TAKE a \in Addr
    <2>1. /\ Copied(mid, to, from, k)[a] =
                IF a \in to .. to + k - 1 THEN mid[from + a - to] ELSE mid[a]
          /\ Copied(old, to, from, k + j)[a] =
                IF a \in to .. to + (k + j) - 1 THEN old[from + a - to] ELSE old[a]
      BY DEF Copied
    <2>2. CASE a \in to .. to + k - 1 BY <1>2, <2>1, <2>2
    <2>3. CASE a \notin to .. to + k - 1
      <3>1. from + k + a - (to + k) = from + a - to BY DEF Addr
      <3> QED BY <1>1, <2>1, <2>3, <3>1 DEF Addr
    <2> QED BY <2>2, <2>3
  <1>4. /\ Copied(mid, to, from, k) = [a \in Addr |-> Copied(mid, to, from, k)[a]]
        /\ Copied(old, to, from, k + j) = [a \in Addr |-> Copied(old, to, from, k + j)[a]]
    BY DEF Copied
  <1> QED BY <1>3, <1>4 DEF mid

-----------------------------------------------------------------------------
(* memcpy and memmove.                                                     *)

CopyLabels == {"head", "blocks", "shift", "tail", "alignUp", "wordsUp", "bytesUp",
               "alignDown", "wordsDown", "bytesDown", "done"}

(* What a step of the two has to show; the rest is about other functions.  *)
LEMMA CopyState ==
    ASSUME Typed, IsCopy, UNCHANGED <<was, call>>, Typed', Accesses', pc' \in CopyLabels,
           UpInv', ShiftInv', TailInv', DownInv',
           pc' = "done" => /\ mem' = Copied(was, call.dest, call.src, call.n)
                           /\ ret' = call.dest
    PROVE  IInv'
  <1>1. call'.op \notin {"memset", "memcmp", "strlen"} /\ IsCopy' BY DEF IsCopy
  <1>2. /\ Labels' /\ AtStart' /\ SetInv' /\ BytesInv' /\ WordsInv' /\ BlocksInv'
        /\ CmpInv' /\ LenInv'
    BY <1>1 DEF Labels, AtStart, SetInv, BytesInv, WordsInv, BlocksInv, CmpInv, LenInv, CopyLabels
  <1>3. ExactResult'
    BY <1>1 DEF ExactResult, PromisedMemory, PromisedReturn, IsCopy
  <1> QED BY <1>2, <1>3 DEF IInv

(* A read of the source or a write of the destination.                     *)
OperandAccess(x) ==
    Among(x, "read", call.src, call.n) \/ Among(x, "write", call.dest, call.n)

LEMMA OperandAccesses ==
    ASSUME call \in Calls, IsCopy, UNCHANGED <<was, call>>, \A x \in access' : OperandAccess(x)
    PROVE  Accesses'
  <1>1. ASSUME NEW x \in access'
        PROVE  /\ x.addr % x.width = 0
               /\ x.kind = "write" => Within(x, call.dest, call.n)
               /\ x.kind # "write" => Within(x, call.src, call.n)
    <2>1. OperandAccess(x) BY <1>1, Zenon
    <2> QED BY <2>1 DEF Within, Among, OperandAccess
  <1>2. call'.op # "strlen" BY DEF IsCopy
  <1> QED BY <1>1, <1>2 DEF Accesses, WithinOperands, Within

(* Accesses of one loop iteration.                                         *)
LEMMA CopyAccesses ==
    ASSUME call \in Calls, IsCopy, UNCHANGED <<was, call>>,
           NEW to \in Nat, NEW from \in Nat, NEW k \in Nat, NEW width \in {1, 4, 8},
           to % width = 0, from % width = 0,
           call.dest <= to, to + k <= call.dest + call.n,
           call.src <= from, from + k <= call.src + call.n,
           access' = CopyUnits(to, from, k, width)
    PROVE  Accesses'
  <1>1. ASSUME NEW x \in access'
        PROVE  OperandAccess(x)
    <2>0. call.dest \in Nat /\ call.src \in Nat /\ call.n \in Nat BY CallFacts
    <2>1. CASE x \in Units("read", from, k, width)
      <3>1. Among(x, "read", from, k) BY <2>1, UnitsFacts, Zenon
      <3> QED BY <2>0, <3>1 DEF OperandAccess, Among
    <2>2. CASE x \in Units("write", to, k, width)
      <3>1. Among(x, "write", to, k) BY <2>2, UnitsFacts, Zenon
      <3> QED BY <2>0, <3>1 DEF OperandAccess, Among
    <2> QED BY <1>1, <2>1, <2>2 DEF CopyUnits
  <1> QED BY <1>1, OperandAccesses

LEMMA NoAccess == ASSUME access' = {} PROVE Accesses'
  BY DEF Accesses, WithinOperands

(* k more bytes, upward.                                                   *)
LEMMA ForwardBytes ==
    ASSUME Typed, IsCopy, Apart \/ call.dest <= call.src,
           NEW j \in Nat, NEW k \in Nat, j + k <= call.n, Moved(j),
           mem' = Copied(mem, d, s, k), d' = d + k, s' = s + k
    PROVE  /\ d' = call.dest + (j + k) /\ s' = call.src + (j + k)
           /\ mem' = Copied(was, call.dest, call.src, j + k)
           /\ mem' \in [Addr -> Byte] /\ d' \in 0 .. MemSize /\ s' \in 0 .. MemSize
           /\ call.dest <= d /\ d + k <= call.dest + call.n
           /\ call.src <= s /\ s + k <= call.src + call.n
           /\ d \in Nat /\ s \in Nat
  <1>0. /\ call \in Calls /\ was \in [Addr -> Byte]
        /\ call.dest \in Nat /\ call.src \in Nat /\ call.n \in Nat
        /\ call.dest + call.n <= MemSize /\ call.src + call.n <= MemSize /\ MemSize \in Nat
    BY CallFacts, Basics DEF Typed
  <1>1. /\ d = call.dest + j /\ s = call.src + j
        /\ mem = Copied(was, call.dest, call.src, j)
    BY DEF Moved
  <1>2. call.src + j + k <= MemSize /\ call.dest + j + k <= MemSize BY <1>0
  <1>3. call.dest <= call.src \/ call.src + j + k <= call.dest
    BY <1>0 DEF Apart
  <1>4. mem' = Copied(was, call.dest, call.src, j + k) /\ mem' \in [Addr -> Byte]
    <2> DEFINE to   == call.dest
               from == call.src
    <2>1. mem' = Copied(Copied(was, to, from, j), d, s, k)
      BY <1>1
    <2>2. /\ to \in Nat /\ from \in Nat /\ d = to + j /\ s = from + j
          /\ from + j + k <= MemSize /\ from + (j + k) <= MemSize /\ j + k \in Nat
          /\ to <= from \/ from + j + k <= to
      BY <1>0, <1>1, <1>2, <1>3
    <2> HIDE DEF to, from
    <2>3. Copied(Copied(was, to, from, j), d, s, k) = Copied(was, to, from, j + k)
      BY <1>0, <2>2, CopyUp
    <2>4. Copied(was, to, from, j + k) \in [Addr -> Byte]
      BY <1>0, <2>2, CopiedType
    <2> QED BY <2>1, <2>3, <2>4 DEF to, from
  <1>6. d' = call.dest + (j + k) /\ s' = call.src + (j + k) BY <1>0, <1>1
  <1> QED BY <1>0, <1>1, <1>2, <1>4, <1>6

LEMMA ForwardStep ==
    ASSUME Typed, IsCopy, UNCHANGED <<was, call>>, Apart \/ call.dest <= call.src,
           NEW j \in Nat, NEW k \in Nat, j + k <= call.n, Moved(j),
           NEW width \in {1, 4, 8}, d % width = 0, s % width = 0,
           CopyForward(k, width)
    PROVE  /\ d' = call.dest + (j + k) /\ s' = call.src + (j + k)
           /\ mem' = Copied(was, call.dest, call.src, j + k)
           /\ mem' \in [Addr -> Byte] /\ d' \in 0 .. MemSize /\ s' \in 0 .. MemSize
           /\ Accesses'
  <1>1. /\ mem' = Copied(mem, d, s, k) /\ d' = d + k /\ s' = s + k
        /\ access' = CopyUnits(d, s, k, width)
    BY DEF CopyForward
  <1>2. call \in Calls BY DEF Typed
  <1>3. /\ d' = call.dest + (j + k) /\ s' = call.src + (j + k)
        /\ mem' = Copied(was, call.dest, call.src, j + k)
        /\ mem' \in [Addr -> Byte] /\ d' \in 0 .. MemSize /\ s' \in 0 .. MemSize
        /\ call.dest <= d /\ d + k <= call.dest + call.n
        /\ call.src <= s /\ s + k <= call.src + call.n
        /\ d \in Nat /\ s \in Nat
    BY <1>1, ForwardBytes
  <1> QED BY <1>1, <1>2, <1>3, CopyAccesses

(* A loop that copies upward, k bytes at a time.                           *)
LEMMA UpKeeps ==
    ASSUME IInv, UNCHANGED <<was, call>>,
           NEW label \in {"head", "blocks", "alignUp", "wordsUp", "bytesUp"},
           pc = label, UNCHANGED <<pc, ret>>,
           NEW k \in {1, 4, 16}, NEW width \in {1, 4}, k % width = 0,
           d % width = 0, s % width = 0, n >= k,
           label = "blocks" => k = 16, label = "wordsUp" => k = 4,
           CopyForward(k, width), n' = n - k
    PROVE  IInv'
  <1>0. /\ Typed /\ IsCopy /\ Moved(call.n - n) /\ (Apart \/ call.dest <= call.src)
        /\ label \in {"head", "blocks"} => Apart
    BY DEF IInv, UpInv
  <1>1. n \in Nat /\ call.n \in Nat /\ n <= call.n /\ k \in Nat BY <1>0, CallFacts DEF Typed
  <1>2. PICK j \in Nat : j = call.n - n BY <1>1
  <1>3. j + k <= call.n /\ j + k = call.n - n' /\ n' \in 0 .. call.n /\ width \in {1, 4, 8}
    BY <1>1, <1>2
  <1>4. /\ d' = call.dest + (j + k) /\ s' = call.src + (j + k)
        /\ mem' = Copied(was, call.dest, call.src, j + k)
        /\ mem' \in [Addr -> Byte] /\ d' \in 0 .. MemSize /\ s' \in 0 .. MemSize
        /\ Accesses'
    <2>1. Moved(j) BY <1>0, <1>2
    <2> QED BY <1>0, <1>3, <2>1, ForwardStep
  <1>5. Typed' BY <1>0, <1>3, <1>4 DEF Typed, Apart
  <1>6. UpInv'
    <2>1. Moved(call.n - n)' BY <1>3, <1>4 DEF Moved
    <2>2. d' = d + k /\ s' = s + k BY DEF CopyForward
    <2>3. d \in Nat /\ s \in Nat BY <1>0, Basics DEF Typed
    <2>4. pc' = "blocks" => d' % 4 = 0 /\ s' % 4 = 0
      <3>1. pc' = "blocks" => k = 16 /\ d % 4 = 0 /\ s % 4 = 0
        BY <1>1 DEF IInv, UpInv, WordSize
      <3> QED BY <2>2, <2>3, <3>1
    <2>5. pc' = "wordsUp" => d' % 4 = 0 /\ s' % 4 = 0
      <3>1. pc' = "wordsUp" => k = 4 /\ d % 4 = 0 /\ s % 4 = 0 BY DEF IInv, UpInv, WordSize
      <3> QED BY <2>2, <2>3, <3>1
    <2>6. pc' = "alignUp" => s' % 4 = d' % 4
      <3>1. pc' = "alignUp" => s % 4 = d % 4 BY DEF IInv, UpInv, SameOffset, WordSize
      <3> QED BY <2>2, <2>3, <3>1
    <2>7. IsCopy' /\ (Apart \/ call.dest <= call.src)' /\ (label \in {"head", "blocks"} => Apart')
      BY <1>0 DEF IsCopy, Apart
    <2> QED BY <2>1, <2>4, <2>5, <2>6, <2>7 DEF UpInv, WordSize, SameOffset
  <1>7. ShiftInv' /\ TailInv' /\ DownInv' /\ pc' \in CopyLabels /\ pc' # "done"
    BY DEF ShiftInv, TailInv, DownInv, CopyLabels
  <1> QED BY <1>0, <1>4, <1>5, <1>6, <1>7, CopyState

(* Nothing is copied on the way to another label.                          *)
LEMMA QuietCopy ==
    ASSUME Typed, IsCopy, UNCHANGED <<was, call>>, Quiet,
           pc' # "done", UNCHANGED ret, pc # "done"
    PROVE  Typed' /\ Accesses' /\ IsCopy' /\ (Apart' <=> Apart)
  BY NoAccess DEF Typed, IsCopy, Quiet, Apart

(* The function returns when everything is where it belongs.               *)
LEMMA CopyReturns ==
    ASSUME Typed, IsCopy, UNCHANGED <<was, call>>, Return(call.dest), Accesses',
           mem' = Copied(was, call.dest, call.src, call.n),
           d' \in 0 .. MemSize, s' \in 0 .. MemSize, n' \in 0 .. call.n
    PROVE  IInv'
  <1>0. /\ call \in Calls /\ was \in [Addr -> Byte]
        /\ call.dest \in Nat /\ call.src \in Nat /\ call.n \in Nat
        /\ call.src + call.n <= MemSize /\ call.dest < MemSize /\ MemSize \in Nat /\ Base \in Nat
    BY CallFacts, Basics DEF Typed
  <1>1. mem' \in [Addr -> Byte]
    <2> DEFINE to   == call.dest
               from == call.src
               k    == call.n
    <2>1. to \in Nat /\ from \in Nat /\ k \in Nat /\ from + k <= MemSize BY <1>0
    <2> HIDE DEF to, from, k
    <2>2. Copied(was, to, from, k) \in [Addr -> Byte] BY <1>0, <2>1, CopiedType
    <2> QED BY <2>2 DEF to, from, k
  <1>2. pc' = "done" /\ ret' = call.dest BY DEF Return
  <1>3. Typed' BY <1>0, <1>1, <1>2 DEF Typed, NoReturn, Apart
  <1>4. UpInv' /\ ShiftInv' /\ TailInv' /\ DownInv' /\ pc' \in CopyLabels
    BY <1>2 DEF UpInv, ShiftInv, TailInv, DownInv, CopyLabels
  <1> QED BY <1>2, <1>3, <1>4, CopyState

LEMMA StartCopyKeeps == IInv /\ StartCopy /\ UNCHANGED <<was, call>> => IInv'
  <1> SUFFICES ASSUME IInv, StartCopy, UNCHANGED <<was, call>> PROVE IInv' OBVIOUS
  <1>1. /\ pc = "start" /\ pc' = "head" /\ ret' = ret /\ Quiet /\ IsCopy /\ Typed
        /\ d = call.dest /\ s = call.src /\ n = call.n /\ mem = was /\ Apart
    BY DEF IInv, StartCopy, Goto, IsCopy, AtStart, Typed
  <1>2. Typed' /\ Accesses' /\ IsCopy' /\ Apart' BY <1>1, QuietCopy
  <1>3. Moved(call.n - n)'
    <2>1. call.dest \in Nat /\ call.src \in Nat /\ call.n \in Nat /\ was \in [Addr -> Byte]
      BY <1>1, CallFacts DEF Typed
    <2>2. mem' = mem /\ d' = d /\ s' = s /\ n' = n BY <1>1 DEF Quiet
    <2>3. \A to, from \in Nat : Copied(was, to, from, 0) = was BY <2>1, CopiedNothing
    <2>4. call'.n - n' = 0 BY <1>1, <2>1, <2>2
    <2>5. Copied(was', call'.dest, call'.src, 0) = mem' BY <1>1, <2>1, <2>2, <2>3
    <2> QED BY <1>1, <2>1, <2>2, <2>4, <2>5 DEF Moved
  <1>4. UpInv' /\ ShiftInv' /\ TailInv' /\ DownInv' /\ pc' \in CopyLabels /\ pc' # "done"
    BY <1>1, <1>2, <1>3 DEF UpInv, ShiftInv, TailInv, DownInv, CopyLabels
  <1> QED BY <1>1, <1>2, <1>4, CopyState

LEMMA AlignSourceKeeps == IInv /\ AlignSource /\ UNCHANGED <<was, call>> => IInv'
  <1> SUFFICES ASSUME IInv, AlignSource, UNCHANGED <<was, call>> PROVE IInv' OBVIOUS
  <1>1. n \in Nat /\ d \in Nat /\ s \in Nat BY Basics, CallFacts DEF IInv, Typed
  <1>2. pc = "head" /\ CopyForward(1, 1) /\ n' = n - 1 /\ n # 0 /\ UNCHANGED <<pc, ret>>
    BY DEF AlignSource
  <1>3. n >= 1 /\ d % 1 = 0 /\ s % 1 = 0 /\ 1 % 1 = 0 BY <1>1, <1>2
  <1> QED BY <1>2, <1>3, UpKeeps

LEMMA ChoosePlainKeeps == IInv /\ ChoosePlain /\ UNCHANGED <<was, call>> => IInv'
  <1> SUFFICES ASSUME IInv, ChoosePlain, UNCHANGED <<was, call>> PROVE IInv' OBVIOUS
  <1>1. /\ pc = "head" /\ ret' = ret /\ Quiet /\ Typed /\ IsCopy /\ Apart /\ Moved(call.n - n)
        /\ s % WordSize = 0 \/ n = 0
        /\ \/ d % WordSize = 0 /\ pc' = "blocks"
           \/ n < 32 /\ pc' = "tail" /\ stage' = 16
    BY DEF IInv, ChoosePlain, SourceAligned, Goto, UpInv
  <1>2. Typed' /\ Accesses' /\ IsCopy' /\ Apart' BY <1>1, QuietCopy
  <1>3. Moved(call.n - n)' BY <1>1 DEF Moved, Quiet
  <1>4. n' = n /\ n \in Nat /\ call.n \in Nat /\ n <= call.n
    BY <1>1, CallFacts DEF Quiet, Typed
  <1>5. UpInv' BY <1>1, <1>2, <1>3 DEF UpInv, Quiet, WordSize
  <1>6. TailInv'
    <2>1. pc' = "tail" => stage' = 16 /\ n' % 32 = n' BY <1>1, <1>4
    <2> QED BY <1>2, <1>3, <1>4, <2>1 DEF TailInv
  <1>7. ShiftInv' /\ DownInv' /\ pc' \in CopyLabels /\ pc' # "done"
    BY <1>1 DEF ShiftInv, DownInv, CopyLabels
  <1> QED BY <1>1, <1>2, <1>5, <1>6, <1>7, CopyState

(* What is still to be read of the source is as it was.                    *)
LEMMA SourceIntact ==
    ASSUME Typed, Apart, NEW j \in Nat, j <= call.n, Moved(j),
           NEW a \in Nat, call.src <= a, a < call.src + call.n
    PROVE  a \in Addr /\ mem[a] = was[a] /\ was[a] \in Byte
  <1>0. /\ call \in Calls /\ was \in [Addr -> Byte]
        /\ call.dest \in Nat /\ call.src \in Nat /\ call.n \in Nat
        /\ call.dest + call.n <= MemSize /\ call.src + call.n <= MemSize /\ MemSize \in Nat
    BY CallFacts, Basics DEF Typed
  <1>1. a \in Addr BY <1>0 DEF Addr
  <1>2. a \notin call.dest .. call.dest + j - 1 BY <1>0 DEF Apart
  <1>3. mem = Copied(was, call.dest, call.src, j) BY DEF Moved
  <1>4. mem[a] = was[a] BY <1>1, <1>2, <1>3 DEF Copied
  <1> QED BY <1>0, <1>1, <1>4

(* A word of a few leftover bytes, copied as the words around them are     *)
(* read.                                                                   *)
LEMMA ChooseShiftKeeps == IInv /\ ChooseShift /\ UNCHANGED <<was, call>> => IInv'
  <1> SUFFICES ASSUME IInv, ChooseShift, UNCHANGED <<was, call>> PROVE IInv' OBVIOUS
  <1> DEFINE k == 4 - (d % 4)
             j == call.n - n
  <1>1. /\ pc = "head" /\ pc' = "shift" /\ ret' = ret /\ Typed /\ IsCopy /\ Apart /\ Moved(j)
        /\ s % 4 = 0 /\ d % 4 # 0 /\ n >= 32
        /\ w' = Word(s) /\ mem' = Copied(mem, d, s, k)
        /\ d' = d + k /\ s' = s + k /\ n' = n - k
        /\ access' = Units("read", s, 4, 4) \cup CopyUnits(d, s, k, 1)
    <2>1. n \in Nat BY CallFacts DEF IInv, Typed
    <2> QED BY <2>1 DEF IInv, ChooseShift, SourceAligned, Goto, UpInv, WordSize
  <1>2. /\ call \in Calls /\ was \in [Addr -> Byte] /\ mem \in [Addr -> Byte]
        /\ call.dest \in Nat /\ call.src \in Nat /\ call.n \in Nat
        /\ call.dest + call.n <= MemSize /\ call.src + call.n <= MemSize /\ MemSize \in Nat
        /\ n \in Nat /\ n <= call.n /\ d \in Nat /\ s \in Nat
        /\ d = call.dest + j /\ s = call.src + j
    BY <1>1, CallFacts, Basics DEF Typed, Moved
  <1>3. k \in 1 .. 3 /\ j \in Nat /\ j + k <= call.n /\ j + k = call.n - n'
    <2>1. n' = n - k /\ n >= 32 BY <1>1
    <2>2. d % 4 # 0 /\ d \in Nat BY <1>1, <1>2
    <2>3. k \in 1 .. 3 BY <2>2
    <2>4. j = call.n - n OBVIOUS
    <2> HIDE DEF k, j
    <2> QED BY <1>2, <2>1, <2>3, <2>4
  <1> HIDE DEF k, j
  <1>4. /\ d' = call.dest + (j + k) /\ s' = call.src + (j + k)
        /\ mem' = Copied(was, call.dest, call.src, j + k)
        /\ mem' \in [Addr -> Byte] /\ d' \in 0 .. MemSize /\ s' \in 0 .. MemSize
    <2>1. Apart \/ call.dest <= call.src BY <1>1
    <2>2. k \in Nat BY <1>3
    <2> QED BY <1>1, <1>2, <1>3, <2>1, <2>2, ForwardBytes
  <1>5. Accesses'
    <2>1. \A x \in Units("read", s, 4, 4) : Among(x, "read", s, 4)
      BY <1>1, <1>2, UnitsFacts
    <2>2. \A x \in Units("read", s, k, 1) : Among(x, "read", s, k)
      <3>1. s % 1 = 0 /\ k \in Nat BY <1>2, <1>3
      <3> QED BY <1>2, <3>1, UnitsFacts
    <2>3. \A x \in Units("write", d, k, 1) : Among(x, "write", d, k)
      <3>1. d % 1 = 0 /\ k \in Nat BY <1>2, <1>3
      <3> QED BY <1>2, <3>1, UnitsFacts
    <2>4. /\ call.src <= s /\ s + 4 <= call.src + call.n /\ s + k <= call.src + call.n
          /\ call.dest <= d /\ d + k <= call.dest + call.n
      BY <1>1, <1>2, <1>3
    <2>5. \A x \in access' : \/ Among(x, "read", s, 4) \/ Among(x, "read", s, k)
                             \/ Among(x, "write", d, k)
      BY <1>1, <2>1, <2>2, <2>3, Zenon DEF CopyUnits
    <2>6. k \in Nat BY <1>3
    <2>7. \A x \in access' : OperandAccess(x)
      <3> TAKE x \in access'
      <3>1. \/ Among(x, "read", s, 4) \/ Among(x, "read", s, k) \/ Among(x, "write", d, k)
        BY <2>5, Zenon
      <3> QED BY <1>2, <2>4, <2>6, <3>1 DEF Among, OperandAccess
    <2> QED BY <1>1, <1>2, <2>7, OperandAccesses
  <1>6. Typed' BY <1>1, <1>2, <1>3, <1>4 DEF Typed, Apart
  <1>7. UpInv'
    <2>1. Moved(call.n - n)' BY <1>1, <1>3, <1>4 DEF Moved
    <2>2. IsCopy' /\ Apart' BY <1>1 DEF IsCopy, Apart
    <2> QED BY <1>1, <2>1, <2>2 DEF UpInv
  <1>8. ShiftInv'
    <2>1. d' % 4 = 0
      <3>1. k = 4 - (d % 4) BY DEF k
      <3> QED BY <1>1, <1>2, <1>3, <3>1
    <2>2. s' % 4 = k /\ s' - (s' % 4) = s
      <3>1. s' = s + k /\ s % 4 = 0 /\ s \in Nat BY <1>1, <1>2
      <3> QED BY <1>3, <3>1
    <2>3. \A i \in 1 .. 4 : mem[s + i - 1] = was[s + i - 1]
      <3> TAKE i \in 1 .. 4
      <3> DEFINE a == s + i - 1
      <3>1. a \in Nat /\ call.src <= a /\ a < call.src + call.n /\ j <= call.n BY <1>1, <1>2, <1>3
      <3> HIDE DEF a
      <3>2. mem[a] = was[a] BY <1>1, <1>3, <3>1, SourceIntact
      <3> QED BY <3>2 DEF a
    <2>4. w' = [i \in 1 .. 4 |-> was[s + i - 1]] BY <1>1, <2>3 DEF Word, WordSize
    <2>5. call.src <= s BY <1>2, <1>3
    <2> QED BY <1>3, <2>1, <2>2, <2>4, <2>5 DEF ShiftInv, WordSize
  <1>9. TailInv' /\ DownInv' /\ pc' \in CopyLabels /\ pc' # "done"
    BY <1>1 DEF TailInv, DownInv, CopyLabels
  <1> QED BY <1>1, <1>5, <1>6, <1>7, <1>8, <1>9, CopyState

LEMMA CopyBlocksKeeps == IInv /\ CopyBlocks /\ UNCHANGED <<was, call>> => IInv'
  <1> SUFFICES ASSUME IInv, CopyBlocks, UNCHANGED <<was, call>> PROVE IInv' OBVIOUS
  <1>1. n \in Nat /\ d \in Nat /\ s \in Nat BY Basics, CallFacts DEF IInv, Typed
  <1>2. /\ pc = "blocks" /\ Typed /\ IsCopy /\ Apart /\ Moved(call.n - n)
        /\ n = 0 \/ (d % 4 = 0 /\ s % 4 = 0)
    BY DEF IInv, CopyBlocks, UpInv, WordSize
  <1>3. CASE n >= 16 /\ CopyForward(16, WordSize) /\ n' = n - 16 /\ UNCHANGED <<pc, ret, stage>>
    <2>1. d % 4 = 0 /\ s % 4 = 0 /\ 16 % 4 = 0 BY <1>1, <1>2, <1>3
    <2> QED BY <1>2, <1>3, <2>1, UpKeeps DEF WordSize
  <1>4. CASE n < 16 /\ Quiet /\ Goto("tail") /\ stage' = 8
    <2>1. pc' = "tail" /\ ret' = ret BY <1>4 DEF Goto
    <2>2. Typed' /\ Accesses' /\ IsCopy' /\ Apart' BY <1>2, <1>4, <2>1, QuietCopy
    <2>3. Moved(call.n - n)' BY <1>2, <1>4 DEF Moved, Quiet
    <2>4. n' = n /\ n \in Nat /\ call.n \in Nat /\ n <= call.n
      BY <1>2, <1>4, CallFacts DEF Quiet, Typed
    <2>5. n' % 16 = n' BY <1>4, <2>4
    <2>6. TailInv' BY <1>4, <2>2, <2>3, <2>4, <2>5 DEF TailInv
    <2>7. UpInv' /\ ShiftInv' /\ DownInv' /\ pc' \in CopyLabels /\ pc' # "done"
      BY <2>1 DEF UpInv, ShiftInv, DownInv, CopyLabels
    <2> QED BY <1>2, <2>2, <2>6, <2>7, CopyState
  <1> QED BY <1>3, <1>4 DEF CopyBlocks

-----------------------------------------------------------------------------
(* The words of the shifting loop.                                         *)

Four == [1 .. 4 -> Byte]

LEMMA MergeFacts ==
    ASSUME NEW this \in Four, NEW next \in Four, NEW k \in 1 .. 3
    PROVE  /\ Merge(this, next, k) \in Seq(Byte) /\ Len(Merge(this, next, k)) = 4
           /\ \A i \in 1 .. 4 : Merge(this, next, k)[i] =
                  IF i <= k THEN this[4 - k + i] ELSE next[i - k]
  <1> DEFINE a == SubSeq(this, 4 - k + 1, 4)
             b == SubSeq(next, 1, 4 - k)
  <1>1. \A i \in 1 .. 4 : this[i] \in Byte /\ next[i] \in Byte BY DEF Four
  <1>2. a \in Seq(Byte) /\ Len(a) = k /\ \A i \in 1 .. k : a[i] = this[4 - k + i]
    <2>1. \A i \in 4 - k + 1 .. 4 : this[i] \in Byte BY <1>1
    <2>2. /\ a \in Seq(Byte)
          /\ Len(a) = IF 4 - k + 1 <= 4 THEN 4 - (4 - k + 1) + 1 ELSE 0
          /\ \A i \in 1 .. 4 - (4 - k + 1) + 1 : a[i] = this[4 - k + 1 + i - 1]
      BY <2>1, SubSeqProperties
    <2>3. 4 - (4 - k + 1) + 1 = k OBVIOUS
    <2>4. \A i \in 1 .. k : a[i] = this[4 - k + i]
      <3> TAKE i \in 1 .. k
      <3>1. 4 - k + 1 + i - 1 = 4 - k + i OBVIOUS
      <3> HIDE DEF a
      <3> QED BY <2>2, <2>3, <3>1
    <2>5. Len(a) = k
      <3> HIDE DEF a
      <3> QED BY <2>2, <2>3
    <2> QED BY <2>2, <2>4, <2>5
  <1>3. b \in Seq(Byte) /\ Len(b) = 4 - k /\ \A i \in 1 .. 4 - k : b[i] = next[i]
    <2>1. \A i \in 1 .. 4 - k : next[i] \in Byte BY <1>1
    <2>2. /\ b \in Seq(Byte)
          /\ Len(b) = IF 1 <= 4 - k THEN (4 - k) - 1 + 1 ELSE 0
          /\ \A i \in 1 .. (4 - k) - 1 + 1 : b[i] = next[1 + i - 1]
      BY <2>1, SubSeqProperties
    <2> HIDE DEF b
    <2> QED BY <2>2
  <1> HIDE DEF a, b
  <1>4. a \o b \in Seq(Byte) /\ Len(a \o b) = 4
        /\ \A i \in 1 .. 4 : (a \o b)[i] = IF i <= k THEN a[i] ELSE b[i - k]
    BY <1>2, <1>3, ConcatProperties
  <1>5. \A i \in 1 .. 4 : (a \o b)[i] = IF i <= k THEN this[4 - k + i] ELSE next[i - k]
    BY <1>2, <1>3, <1>4
  <1> QED BY <1>4, <1>5 DEF Merge, WordSize, a, b

LEMMA Joined ==
    ASSUME NEW one \in Seq(Byte), NEW two \in Seq(Byte)
    PROVE  /\ one \o two \in Seq(Byte) /\ Len(one \o two) = Len(one) + Len(two)
           /\ Len(one) \in Nat /\ Len(two) \in Nat
           /\ \A i \in 1 .. Len(one) + Len(two) :
                  (one \o two)[i] = IF i <= Len(one) THEN one[i] ELSE two[i - Len(one)]
  BY ConcatProperties, LenProperties

IsJoin(o, w1, w2, w3, w4) ==
    \A i \in 1 .. 16 : o[i] = IF i <= 4 THEN w1[i] ELSE IF i <= 8 THEN w2[i - 4]
                            ELSE IF i <= 12 THEN w3[i - 8] ELSE w4[i - 12]

LEMMA JoinedFour ==
    ASSUME NEW w1 \in Seq(Byte), NEW w2 \in Seq(Byte), NEW w3 \in Seq(Byte),
           NEW w4 \in Seq(Byte), Len(w1) = 4, Len(w2) = 4, Len(w3) = 4, Len(w4) = 4
    PROVE  IsJoin(w1 \o w2 \o w3 \o w4, w1, w2, w3, w4)
  <1>1. PICK two : two = w1 \o w2 OBVIOUS
  <1>2. two \in Seq(Byte) /\ Len(two) = 8
        /\ \A i \in 1 .. 8 : two[i] = IF i <= 4 THEN w1[i] ELSE w2[i - 4]
    <2>1. /\ two \in Seq(Byte) /\ Len(two) = Len(w1) + Len(w2)
          /\ \A i \in 1 .. Len(w1) + Len(w2) :
                two[i] = IF i <= Len(w1) THEN w1[i] ELSE w2[i - Len(w1)]
      BY <1>1, Joined
    <2> QED BY <2>1
  <1>3. PICK three : three = two \o w3 OBVIOUS
  <1>4. three \in Seq(Byte) /\ Len(three) = 12
        /\ \A i \in 1 .. 12 : three[i] = IF i <= 8 THEN two[i] ELSE w3[i - 8]
    <2>1. /\ three \in Seq(Byte) /\ Len(three) = Len(two) + Len(w3)
          /\ \A i \in 1 .. Len(two) + Len(w3) :
                three[i] = IF i <= Len(two) THEN two[i] ELSE w3[i - Len(two)]
      BY <1>2, <1>3, Joined
    <2> QED BY <1>2, <2>1
  <1>5. PICK four : four = three \o w4 OBVIOUS
  <1>6. \A i \in 1 .. 16 : four[i] = IF i <= 12 THEN three[i] ELSE w4[i - 12]
    <2>1. \A i \in 1 .. Len(three) + Len(w4) :
                four[i] = IF i <= Len(three) THEN three[i] ELSE w4[i - Len(three)]
      BY <1>4, <1>5, Joined
    <2> QED BY <1>4, <2>1
  <1>7. w1 \o w2 \o w3 \o w4 = four BY <1>1, <1>3, <1>5
  <1>8. \A i \in 1 .. 16 : four[i] = IF i <= 4 THEN w1[i] ELSE IF i <= 8 THEN w2[i - 4]
                                  ELSE IF i <= 12 THEN w3[i - 8] ELSE w4[i - 12]
    BY <1>2, <1>4, <1>6, SMTT(60)
  <1> QED BY <1>7, <1>8 DEF IsJoin

LEMMA ShiftBlocksKeeps == IInv /\ ShiftBlocks /\ UNCHANGED <<was, call>> => IInv'
  <1> SUFFICES ASSUME IInv, ShiftBlocks, UNCHANGED <<was, call>> PROVE IInv' OBVIOUS
  <1>1. PICK k : k = 4 - (s % 4) OBVIOUS
  <1>2. PICK w0, w1, w2, w3, w4 : /\ w0 = w /\ w1 = Word(s + k) /\ w2 = Word(s + k + 4)
                                  /\ w3 = Word(s + k + 8) /\ w4 = Word(s + k + 12)
    OBVIOUS
  <1>3. PICK out : out = Merge(w0, w1, k) \o Merge(w1, w2, k)
                            \o Merge(w2, w3, k) \o Merge(w3, w4, k)
    OBVIOUS
  <1>4. PICK j : j = call.n - n OBVIOUS
  <1>5. /\ pc = "shift" /\ Typed /\ IsCopy /\ Apart /\ Moved(j)
        /\ d % 4 = 0 /\ s % 4 # 0 /\ call.src <= s - (s % 4)
        /\ w = [i \in 1 .. 4 |-> was[s - (s % 4) + i - 1]]
    BY <1>4 DEF IInv, ShiftBlocks, UpInv, ShiftInv, WordSize
  <1>6. /\ call \in Calls /\ was \in [Addr -> Byte] /\ mem \in [Addr -> Byte]
        /\ call.dest \in Nat /\ call.src \in Nat /\ call.n \in Nat
        /\ call.dest + call.n <= MemSize /\ call.src + call.n <= MemSize /\ MemSize \in Nat
        /\ n \in Nat /\ n <= call.n /\ d \in Nat /\ s \in Nat
        /\ d = call.dest + j /\ s = call.src + j
    BY <1>5, CallFacts, Basics DEF Typed, Moved
  <1>7. k \in 1 .. 3 /\ k \in Nat /\ s % 4 = 4 - k /\ j \in Nat /\ j <= call.n
    <2>0. s \in Nat /\ s % 4 # 0 BY <1>5, <1>6
    <2>1. s % 4 \in 1 .. 3 BY <2>0
    <2>2. k \in 1 .. 3 /\ k \in Nat /\ s % 4 = 4 - k BY <1>1, <2>1
    <2>3. j \in Nat /\ j <= call.n BY <1>4, <1>6
    <2> QED BY <2>2, <2>3
  <1>8. CASE /\ n >= 16 + k
             /\ mem' = [a \in Addr |-> IF a \in d .. d + 15 THEN out[a - d + 1] ELSE mem[a]]
             /\ w' = w4 /\ d' = d + 16 /\ s' = s + 16 /\ n' = n - 16
             /\ access' = CopyUnits(d, s + k, 16, 4) /\ UNCHANGED <<pc, ret, stage>>
    <2>1. \A a \in s .. s + k + 15 : a \in Addr /\ mem[a] = was[a] /\ was[a] \in Byte
      <3> TAKE a \in s .. s + k + 15
      <3>1. a \in Nat /\ call.src <= a /\ a < call.src + call.n BY <1>4, <1>6, <1>7, <1>8
      <3> QED BY <1>5, <1>7, <3>1, SourceIntact
    <2>2. /\ w0 \in Four /\ \A i \in 1 .. 4 : w0[i] = was[s + k - 5 + i]
      <3>1. s - (s % 4) = s + k - 4 BY <1>6, <1>7
      <3>2. w0 = [i \in 1 .. 4 |-> was[s + k - 4 + i - 1]] BY <1>2, <1>5, <3>1
      <3>3. \A i \in 1 .. 4 : s + k - 4 + i - 1 \in Addr /\ s + k - 4 + i - 1 = s + k - 5 + i
        <4>1. s + k - 4 >= 0 BY <1>5, <1>6, <3>1
        <4>2. s + n = call.src + call.n BY <1>4, <1>6
        <4>3. s + k - 1 < MemSize BY <1>6, <1>7, <1>8, <4>2
        <4> TAKE i \in 1 .. 4
        <4>4. s + k - 4 + i - 1 = s + k - 5 + i /\ s + k - 5 + i \in Nat BY <1>6, <1>7, <4>1
        <4>5. s + k - 5 + i <= MemSize - 1 BY <1>6, <1>7, <4>3, s + k - 5 + i <= s + k - 1
        <4> QED BY <1>6, <4>4, <4>5 DEF Addr
      <3> QED BY <1>6, <3>2, <3>3 DEF Four
    <2>3. /\ w1 \in Four /\ \A i \in 1 .. 4 : w1[i] = was[s + k - 1 + i]
          /\ w2 \in Four /\ \A i \in 1 .. 4 : w2[i] = was[s + k + 3 + i]
          /\ w3 \in Four /\ \A i \in 1 .. 4 : w3[i] = was[s + k + 7 + i]
          /\ w4 \in Four /\ \A i \in 1 .. 4 : w4[i] = was[s + k + 11 + i]
      <3>1. ASSUME NEW o \in {0, 4, 8, 12}
            PROVE  Word(s + k + o) \in Four
                   /\ \A i \in 1 .. 4 : Word(s + k + o)[i] = was[s + k + o - 1 + i]
        <4>1. Word(s + k + o) = [i \in 1 .. 4 |-> mem[s + k + o + i - 1]] BY DEF Word, WordSize
        <4>2. \A i \in 1 .. 4 : /\ s + k + o + i - 1 \in s .. s + k + 15
                                /\ s + k + o + i - 1 = s + k + o - 1 + i
          BY <1>6, <1>7
        <4>3. \A i \in 1 .. 4 : /\ mem[s + k + o + i - 1] = was[s + k + o + i - 1]
                                /\ was[s + k + o + i - 1] \in Byte
          BY <2>1, <4>2
        <4> QED BY <4>1, <4>2, <4>3 DEF Four
      <3>2. /\ Word(s + k + 0) \in Four
            /\ \A i \in 1 .. 4 : Word(s + k + 0)[i] = was[s + k + 0 - 1 + i]
            /\ Word(s + k + 4) \in Four
            /\ \A i \in 1 .. 4 : Word(s + k + 4)[i] = was[s + k + 4 - 1 + i]
            /\ Word(s + k + 8) \in Four
            /\ \A i \in 1 .. 4 : Word(s + k + 8)[i] = was[s + k + 8 - 1 + i]
            /\ Word(s + k + 12) \in Four
            /\ \A i \in 1 .. 4 : Word(s + k + 12)[i] = was[s + k + 12 - 1 + i]
        BY <3>1
      <3>3. s + k + 0 = s + k BY <1>6, <1>7
      <3> QED BY <1>2, <1>6, <1>7, <3>2, <3>3
    <2>4. \A i \in 1 .. 16 : out[i] = was[s + i - 1]
      <3>1. PICK m1, m2, m3, m4 : /\ m1 = Merge(w0, w1, k) /\ m2 = Merge(w1, w2, k)
                                  /\ m3 = Merge(w2, w3, k) /\ m4 = Merge(w3, w4, k)
        OBVIOUS
      <3>2. /\ m1 \in Seq(Byte) /\ Len(m1) = 4 /\ \A i \in 1 .. 4 : m1[i] = was[s - 1 + i]
        <4>1. /\ m1 \in Seq(Byte) /\ Len(m1) = 4
              /\ \A i \in 1 .. 4 : m1[i] = IF i <= k THEN w0[4 - k + i] ELSE w1[i - k]
          <5>1. /\ Merge(w0, w1, k) \in Seq(Byte) /\ Len(Merge(w0, w1, k)) = 4
                /\ \A i \in 1 .. 4 : Merge(w0, w1, k)[i] =
                       IF i <= k THEN w0[4 - k + i] ELSE w1[i - k]
            <6>1. w0 \in Four /\ w1 \in Four BY <2>2, <2>3
            <6>2. k \in 1 .. 3 BY <1>7
            <6> QED BY <6>1, <6>2, MergeFacts
          <5> QED BY <3>1, <5>1
        <4>2. \A i \in 1 .. 4 : (i <= k => w0[4 - k + i] = was[s - 1 + i])
                                /\ (i > k => w1[i - k] = was[s - 1 + i])
          <5> TAKE i \in 1 .. 4
          <5>1. CASE i <= k
            <6>1. 4 - k + i \in 1 .. 4 /\ s + k - 5 + (4 - k + i) = s - 1 + i BY <1>6, <1>7, <5>1
            <6> QED BY <1>7, <2>2, <5>1, <6>1
          <5>2. CASE i > k
            <6>1. i - k \in 1 .. 4 /\ s + k - 1 + (i - k) = s - 1 + i BY <1>6, <1>7, <5>2
            <6> QED BY <1>7, <2>3, <5>2, <6>1
          <5> QED BY <1>7, <5>1, <5>2
        <4> QED BY <1>7, <4>1, <4>2
      <3>3. ASSUME NEW x \in Four, NEW y \in Four, NEW o \in {3, 7, 11},
                   \A i \in 1 .. 4 : x[i] = was[s + k + o - 4 + i],
                   \A i \in 1 .. 4 : y[i] = was[s + k + o + i]
            PROVE  /\ Merge(x, y, k) \in Seq(Byte) /\ Len(Merge(x, y, k)) = 4
                   /\ \A i \in 1 .. 4 : Merge(x, y, k)[i] = was[s + o + i]
        <4>1. /\ Merge(x, y, k) \in Seq(Byte) /\ Len(Merge(x, y, k)) = 4
              /\ \A i \in 1 .. 4 : Merge(x, y, k)[i] = IF i <= k THEN x[4 - k + i] ELSE y[i - k]
          BY <1>7, MergeFacts
        <4>2. \A i \in 1 .. 4 : (i <= k => x[4 - k + i] = was[s + o + i])
                                /\ (i > k => y[i - k] = was[s + o + i])
          <5> TAKE i \in 1 .. 4
          <5>1. CASE i <= k
            <6>1. 4 - k + i \in 1 .. 4 /\ s + k + o - 4 + (4 - k + i) = s + o + i
              BY <1>6, <1>7, <5>1
            <6> QED BY <1>7, <3>3, <5>1, <6>1
          <5>2. CASE i > k
            <6>1. i - k \in 1 .. 4 /\ s + k + o + (i - k) = s + o + i BY <1>6, <1>7, <5>2
            <6> QED BY <1>7, <3>3, <5>2, <6>1
          <5> QED BY <1>7, <5>1, <5>2
        <4> QED BY <1>7, <4>1, <4>2
      <3>4. m2 \in Seq(Byte) /\ Len(m2) = 4 /\ \A i \in 1 .. 4 : m2[i] = was[s + 3 + i]
        <4>1. \A i \in 1 .. 4 : w1[i] = was[s + k + 3 - 4 + i]
          <5>1. \A i \in 1 .. 4 : s + k + 3 - 4 + i = s + k - 1 + i BY <1>6, <1>7
          <5> QED BY <2>3, <5>1
        <4> QED BY <2>3, <3>1, <3>3, <4>1
      <3>5. m3 \in Seq(Byte) /\ Len(m3) = 4 /\ \A i \in 1 .. 4 : m3[i] = was[s + 7 + i]
        <4>1. \A i \in 1 .. 4 : w2[i] = was[s + k + 7 - 4 + i]
          <5>1. \A i \in 1 .. 4 : s + k + 7 - 4 + i = s + k + 3 + i BY <1>6, <1>7
          <5> QED BY <2>3, <5>1
        <4> QED BY <2>3, <3>1, <3>3, <4>1
      <3>6. m4 \in Seq(Byte) /\ Len(m4) = 4 /\ \A i \in 1 .. 4 : m4[i] = was[s + 11 + i]
        <4>1. \A i \in 1 .. 4 : w3[i] = was[s + k + 11 - 4 + i]
          <5>1. \A i \in 1 .. 4 : s + k + 11 - 4 + i = s + k + 7 + i BY <1>6, <1>7
          <5> QED BY <2>3, <5>1
        <4> QED BY <2>3, <3>1, <3>3, <4>1
      <3>7. \A i \in 1 .. 16 : out[i] = IF i <= 4 THEN m1[i] ELSE IF i <= 8 THEN m2[i - 4]
                                        ELSE IF i <= 12 THEN m3[i - 8] ELSE m4[i - 12]
        <4>1. out = m1 \o m2 \o m3 \o m4 BY <1>3, <3>1
        <4>2. IsJoin(m1 \o m2 \o m3 \o m4, m1, m2, m3, m4)
          <5>1. /\ m1 \in Seq(Byte) /\ Len(m1) = 4 /\ m2 \in Seq(Byte) /\ Len(m2) = 4
                /\ m3 \in Seq(Byte) /\ Len(m3) = 4 /\ m4 \in Seq(Byte) /\ Len(m4) = 4
            BY <3>2, <3>4, <3>5, <3>6
          <5> QED BY <5>1, JoinedFour
        <4> QED BY <4>1, <4>2 DEF IsJoin
      <3> TAKE i \in 1 .. 16
      <3>8. CASE i \in 1 .. 4
        <4>1. s - 1 + i = s + i - 1 BY <1>6
        <4> QED BY <3>2, <3>7, <3>8, <4>1, SMTT(60)
      <3>9. CASE i \in 5 .. 8
        <4>1. i - 4 \in 1 .. 4 /\ s + 3 + (i - 4) = s + i - 1 BY <1>6, <3>9
        <4> QED BY <3>4, <3>7, <3>9, <4>1, SMTT(60)
      <3>10. CASE i \in 9 .. 12
        <4>1. i - 8 \in 1 .. 4 /\ s + 7 + (i - 8) = s + i - 1 BY <1>6, <3>10
        <4> QED BY <3>5, <3>7, <3>10, <4>1, SMTT(60)
      <3>11. CASE i \in 13 .. 16
        <4>1. i - 12 \in 1 .. 4 /\ s + 11 + (i - 12) = s + i - 1 BY <1>6, <3>11
        <4> QED BY <3>6, <3>7, <3>11, <4>1, SMTT(60)
      <3> QED BY <3>8, <3>9, <3>10, <3>11
    <2>5. mem' = Copied(mem, d, s, 16)
      <3>1. \A a \in d .. d + 15 : out[a - d + 1] = mem[s + a - d]
        <4> TAKE a \in d .. d + 15
        <4>1. /\ a - d + 1 \in 1 .. 16 /\ s + (a - d + 1) - 1 = s + a - d
              /\ s + a - d \in s .. s + k + 15
          <5>1. a \in Int /\ d <= a /\ a <= d + 15 BY <1>6
          <5> QED BY <1>6, <1>7, <5>1
        <4> QED BY <2>1, <2>4, <4>1
      <3>2. d + 16 - 1 = d + 15 BY <1>6
      <3> QED BY <1>8, <3>1, <3>2 DEF Copied
    <2>6. j + 16 <= call.n /\ j + 16 = call.n - n' /\ n' \in 0 .. call.n BY <1>4, <1>6, <1>7, <1>8
    <2>7. /\ d' = call.dest + (j + 16) /\ s' = call.src + (j + 16)
          /\ mem' = Copied(was, call.dest, call.src, j + 16)
          /\ mem' \in [Addr -> Byte] /\ d' \in 0 .. MemSize /\ s' \in 0 .. MemSize
      BY <1>5, <1>7, <1>8, <2>5, <2>6, ForwardBytes
    <2>8. Accesses'
      <3>1. /\ call.dest <= d /\ d + 16 <= call.dest + call.n
            /\ call.src <= s + k /\ s + k + 16 <= call.src + call.n
            /\ d % 4 = 0 /\ (s + k) % 4 = 0 /\ s + k \in Nat
        <4>1. s + n = call.src + call.n /\ d + n = call.dest + call.n BY <1>4, <1>6
        <4>2. n >= 16 + k /\ d % 4 = 0 BY <1>5, <1>8
        <4>3. (s + k) % 4 = 0
          <5>1. s % 4 = 4 - k BY <1>7
          <5> QED BY <1>6, <1>7, <5>1
        <4> QED BY <1>6, <1>7, <4>1, <4>2, <4>3
      <3>2. PICK from : from = s + k OBVIOUS
      <3> QED BY <1>5, <1>6, <1>8, <3>1, <3>2, CopyAccesses
    <2>9. Typed' BY <1>5, <1>6, <1>8, <2>6, <2>7 DEF Typed, Apart
    <2>10. UpInv'
      <3>1. Moved(call.n - n)' BY <2>6, <2>7 DEF Moved
      <3>2. IsCopy' /\ Apart' BY <1>5 DEF IsCopy, Apart
      <3> QED BY <1>5, <1>8, <3>1, <3>2 DEF UpInv
    <2>11. ShiftInv'
      <3>1. s' % 4 = s % 4 /\ d' % 4 = 0 BY <1>5, <1>6, <1>8
      <3>2. s' - (s' % 4) = s + k + 12 BY <1>6, <1>7, <1>8, <3>1
      <3>3. w' = [i \in 1 .. 4 |-> was[s + k + 12 + i - 1]]
        <4>1. \A i \in 1 .. 4 : s + k + 11 + i = s + k + 12 + i - 1 BY <1>6, <1>7
        <4>2. w4 = [i \in 1 .. 4 |-> w4[i]] BY <2>3 DEF Four
        <4> QED BY <1>8, <2>3, <4>1, <4>2
      <3>4. call.src <= s + k + 12 BY <1>6, <1>7
      <3> QED BY <1>5, <3>1, <3>2, <3>3, <3>4 DEF ShiftInv, WordSize
    <2>12. TailInv' /\ DownInv' /\ pc' \in CopyLabels /\ pc' # "done"
      BY <1>5, <1>8 DEF TailInv, DownInv, CopyLabels
    <2> QED BY <1>5, <2>8, <2>9, <2>10, <2>11, <2>12, CopyState
  <1>9. CASE n < 16 + k /\ Quiet /\ Goto("tail") /\ stage' = 16
    <2>1. pc' = "tail" /\ ret' = ret BY <1>9 DEF Goto
    <2>2. Typed' /\ Accesses' /\ IsCopy' /\ Apart' BY <1>5, <1>9, <2>1, QuietCopy
    <2>3. Moved(call.n - n)' BY <1>4, <1>5, <1>9 DEF Moved, Quiet
    <2>4. n' = n BY <1>9 DEF Quiet
    <2>5. n' % 32 = n' BY <1>6, <1>7, <1>9, <2>4
    <2>6. TailInv' BY <1>6, <1>9, <2>2, <2>3, <2>4, <2>5 DEF TailInv
    <2>7. UpInv' /\ ShiftInv' /\ DownInv' /\ pc' \in CopyLabels /\ pc' # "done"
      BY <2>1 DEF UpInv, ShiftInv, DownInv, CopyLabels
    <2> QED BY <1>5, <2>2, <2>6, <2>7, CopyState
  <1>10. /\ s + k + 4 * (1 - 1) = s + k /\ s + k + 4 * (2 - 1) = s + k + 4
         /\ s + k + 4 * (3 - 1) = s + k + 8 /\ s + k + 4 * (4 - 1) = s + k + 12
    BY <1>6, <1>7
  <1>11. \/ /\ n >= 16 + k
            /\ mem' = [a \in Addr |-> IF a \in d .. d + 15 THEN out[a - d + 1] ELSE mem[a]]
            /\ w' = w4 /\ d' = d + 16 /\ s' = s + 16 /\ n' = n - 16
            /\ access' = CopyUnits(d, s + k, 16, 4) /\ UNCHANGED <<pc, ret, stage>>
         \/ n < 16 + k /\ Quiet /\ Goto("tail") /\ stage' = 16
    <2> DEFINE word(i) == IF i = 0 THEN w ELSE Word(s + k + 4 * (i - 1))
               o == Merge(word(0), word(1), k) \o Merge(word(1), word(2), k)
                       \o Merge(word(2), word(3), k) \o Merge(word(3), word(4), k)
    <2>1. word(0) = w0 /\ word(1) = w1 /\ word(2) = w2 /\ word(3) = w3 /\ word(4) = w4
      BY <1>2, <1>10
    <2>2. o = out
      <3> HIDE DEF word
      <3> QED BY <1>3, <2>1
    <2>3. \/ /\ n >= 16 + k
             /\ mem' = [a \in Addr |-> IF a \in d .. d + 15 THEN o[a - d + 1] ELSE mem[a]]
             /\ w' = word(4) /\ d' = d + 16 /\ s' = s + 16 /\ n' = n - 16
             /\ access' = CopyUnits(d, s + k, 16, 4) /\ UNCHANGED <<pc, ret, stage>>
          \/ n < 16 + k /\ Quiet /\ Goto("tail") /\ stage' = 16
      BY <1>1, ZenonT(60) DEF ShiftBlocks, ShiftLimit, WordSize
    <2> HIDE DEF word, o
    <2> QED BY <2>1, <2>2, <2>3
  <1> QED BY <1>8, <1>9, <1>11

(* The bits of a length: what a tested bit leaves.                         *)
LEMMA TailBits ==
    ASSUME NEW m \in Nat, NEW b \in {1, 2, 4, 8, 16}
    PROVE  /\ m % (2 * b) \in Nat /\ m % b \in Nat /\ m % b <= m % (2 * b)
           /\ (m \div b) % 2 = 1 => m % (2 * b) = b + (m % b)
           /\ (m \div b) % 2 # 1 => m % (2 * b) = m % b
  <1>1. CASE b = 1 BY <1>1
  <1>2. CASE b = 2 BY <1>2
  <1>3. CASE b = 4 BY <1>3
  <1>4. CASE b = 8 BY <1>4
  <1>5. CASE b = 16 BY <1>5
  <1> QED BY <1>1, <1>2, <1>3, <1>4, <1>5

LEMMA CopyTailKeeps == IInv /\ CopyTail /\ UNCHANGED <<was, call>> => IInv'
  <1> SUFFICES ASSUME IInv, CopyTail, UNCHANGED <<was, call>> PROVE IInv' OBVIOUS
  <1>1. PICK b, j, r : b = stage /\ j = call.n - (n % (2 * b)) /\ r = call.n - (n % b) OBVIOUS
  <1>2. /\ pc = "tail" /\ Typed /\ IsCopy /\ Apart /\ b \in {1, 2, 4, 8, 16}
        /\ n % (2 * b) <= call.n /\ Moved(j)
    BY <1>1 DEF IInv, CopyTail, TailInv
  <1>3. /\ call \in Calls /\ was \in [Addr -> Byte] /\ mem \in [Addr -> Byte]
        /\ call.dest \in Nat /\ call.src \in Nat /\ call.n \in Nat
        /\ call.dest + call.n <= MemSize /\ call.src + call.n <= MemSize /\ MemSize \in Nat
        /\ n \in Nat /\ n <= call.n /\ d \in Nat /\ s \in Nat /\ b \in Nat
    BY <1>2, CallFacts, Basics DEF Typed
  <1>4. n % (2 * b) \in Nat /\ n % b \in Nat /\ n % b <= n % (2 * b) /\ n % b <= call.n
    <2>1. n % (2 * b) \in Nat /\ n % b \in Nat /\ n % b <= n % (2 * b)
      BY <1>2, <1>3, TailBits
    <2> QED BY <1>2, <1>3, <2>1
  <1>5. j \in Nat /\ r \in Nat /\ j <= r /\ r <= call.n BY <1>1, <1>3, <1>4
  <1>6. /\ d' = call.dest + r /\ s' = call.src + r
        /\ mem' = Copied(was, call.dest, call.src, r)
        /\ mem' \in [Addr -> Byte] /\ d' \in 0 .. MemSize /\ s' \in 0 .. MemSize
        /\ Accesses' /\ n' = n
    <2>1. CASE (n \div stage) % 2 = 1
      <3>1. r = j + b BY <1>1, <1>2, <1>3, <1>4, <2>1, TailBits
      <3>2. PICK width : width = IF s % WordSize = 0 /\ d % WordSize = 0 /\ b >= WordSize
                               THEN WordSize ELSE 1
        OBVIOUS
      <3>3. width \in {1, 4, 8} /\ d % width = 0 /\ s % width = 0
        <4>1. d % 1 = 0 /\ s % 1 = 0 BY <1>3
        <4> QED BY <3>2, <4>1 DEF WordSize
      <3>4. CopyForward(b, width) /\ n' = n BY <1>1, <2>1, <3>2 DEF CopyTail
      <3>5. j + b <= call.n BY <1>5, <3>1
      <3>6. Apart \/ call.dest <= call.src BY <1>2
      <3>7. /\ d' = call.dest + (j + b) /\ s' = call.src + (j + b)
            /\ mem' = Copied(was, call.dest, call.src, j + b)
            /\ mem' \in [Addr -> Byte] /\ d' \in 0 .. MemSize /\ s' \in 0 .. MemSize
            /\ Accesses'
        BY <1>2, <1>3, <1>5, <3>3, <3>4, <3>5, <3>6, ForwardStep
      <3> QED BY <3>1, <3>4, <3>7
    <2>2. CASE (n \div stage) % 2 # 1
      <3>1. r = j BY <1>1, <1>2, <1>3, <1>4, <2>2, TailBits
      <3>2. access' = {} /\ UNCHANGED <<mem, d, s, n>> BY <2>2 DEF CopyTail
      <3>3. d \in 0 .. MemSize /\ s \in 0 .. MemSize BY <1>2 DEF Typed
      <3> QED BY <1>2, <1>3, <3>1, <3>2, <3>3, NoAccess DEF Moved
    <2> QED BY <2>1, <2>2
  <1>7. CASE stage = 1
    <2>1. r = call.n BY <1>1, <1>3, <1>7
    <2>2. Return(call.dest) BY <1>7 DEF CopyTail
    <2>3. n' \in 0 .. call.n BY <1>3, <1>6
    <2> QED BY <1>2, <1>6, <2>1, <2>2, <2>3, CopyReturns
  <1>8. CASE stage # 1
    <2>1. pc' = pc /\ ret' = ret /\ stage' = stage \div 2 BY <1>8 DEF CopyTail
    <2>2. stage' \in {1, 2, 4, 8, 16} /\ 2 * stage' = b BY <1>1, <1>2, <1>8, <2>1
    <2>3. Typed' BY <1>2, <1>3, <1>6, <2>1 DEF Typed, Apart
    <2>4. IsCopy' /\ Apart' BY <1>2 DEF IsCopy, Apart
    <2>5. n' % (2 * stage') <= call'.n /\ call'.n - (n' % (2 * stage')) = r
      BY <1>1, <1>4, <1>6, <2>2
    <2>6. Moved(call.n - (n % (2 * stage)))' BY <1>6, <2>5 DEF Moved
    <2>7. TailInv' BY <2>2, <2>4, <2>5, <2>6 DEF TailInv
    <2>8. UpInv' /\ ShiftInv' /\ DownInv' /\ pc' \in CopyLabels /\ pc' # "done"
      BY <1>2, <2>1 DEF UpInv, ShiftInv, DownInv, CopyLabels
    <2> QED BY <1>2, <1>6, <2>3, <2>7, <2>8, CopyState
  <1> QED BY <1>7, <1>8

-----------------------------------------------------------------------------
(* The bulk instructions.                                                  *)

LEMMA BulkCopyKeeps ==
    IInv /\ Bulk /\ call.op # "memset" /\ UNCHANGED <<was, call>> => IInv'
  <1> SUFFICES ASSUME IInv, Bulk, call.op # "memset", UNCHANGED <<was, call>> PROVE IInv' OBVIOUS
  <1>1. /\ Typed /\ IsCopy /\ d = call.dest /\ s = call.src /\ n = call.n /\ mem = was
    BY DEF IInv, Bulk, AtStart, IsCopy
  <1>2. /\ mem' = Copied(was, call.dest, call.src, call.n) /\ access' = {} /\ Return(call.dest)
        /\ UNCHANGED <<d, s, n>>
    BY <1>1 DEF Bulk
  <1>3. Accesses' BY <1>2, NoAccess
  <1>4. d' \in 0 .. MemSize /\ s' \in 0 .. MemSize /\ n' \in 0 .. call.n BY <1>1, <1>2 DEF Typed
  <1> QED BY <1>1, <1>2, <1>3, <1>4, CopyReturns

(* memmove's test of overlap, in the arithmetic of pointers that wrap.     *)
LEMMA DisjointMeansApart ==
    ASSUME call \in Calls, d = call.dest, s = call.src, n = call.n, Disjoint
    PROVE  Apart
  <1>0. /\ call.dest \in Nat /\ call.src \in Nat /\ call.n \in Nat
        /\ call.dest < MemSize /\ call.src < MemSize /\ 2 * call.n <= MemSize
    BY CallFacts
  <1>1. PICK m : m = MemSize OBVIOUS
  <1>2. m \in Nat /\ m > 0 BY <1>0, <1>1, Basics
  <1>3. ASSUME NEW v \in Int, NEW r \in Nat, r < m, v = r \/ v = r - m \/ v = r - 2 * m
        PROVE  v % m = r
    <2>1. CASE v = r BY <1>2, <1>3, <2>1
    <2>2. CASE v = r - m BY <1>2, <1>3, <2>2
    <2>3. CASE v = r - 2 * m BY <1>2, <1>3, <2>3
    <2> QED BY <1>3, <2>1, <2>2, <2>3
  <1>4. CASE n = 0 BY <1>0, <1>4 DEF Apart
  <1>5. CASE n # 0 /\ s - d - n < 0
    <2>1. (-2 * n) % m = m - 2 * n
      <3>1. m - 2 * n \in Nat /\ m - 2 * n < m /\ -2 * n \in Int /\ -2 * n = (m - 2 * n) - m
        BY <1>0, <1>1, <1>2, <1>5
      <3> QED BY <1>3, <3>1
    <2>2. CASE s - d - n >= -m
      <3>1. (s - d - n) % m = s - d - n + m
        <4>1. s - d - n + m \in Nat /\ s - d - n + m < m /\ s - d - n \in Int
              /\ s - d - n = (s - d - n + m) - m
          BY <1>0, <1>1, <1>2, <1>5, <2>2
        <4> QED BY <1>3, <4>1
      <3>2. s - d - n + m <= m - 2 * n BY <1>1, <2>1, <3>1 DEF Disjoint
      <3> QED BY <1>0, <1>1, <1>2, <3>2 DEF Apart
    <2>3. CASE s - d - n < -m
      <3>1. (s - d - n) % m = s - d - n + 2 * m
        <4>1. s - d - n + 2 * m \in Nat /\ s - d - n + 2 * m < m /\ s - d - n \in Int
              /\ s - d - n = (s - d - n + 2 * m) - 2 * m
          BY <1>0, <1>1, <1>2, <1>5, <2>3
        <4> QED BY <1>3, <4>1
      <3>2. s - d - n + 2 * m <= m - 2 * n BY <1>1, <2>1, <3>1 DEF Disjoint
      <3> QED BY <1>0, <1>1, <1>2, <3>2
    <2> QED BY <1>0, <1>2, <2>2, <2>3
  <1>6. CASE s - d - n >= 0 BY <1>0, <1>6 DEF Apart
  <1> QED BY <1>0, <1>4, <1>5, <1>6

LEMMA CopiedOntoItself ==
    ASSUME NEW old \in [Addr -> Byte], NEW to \in Nat, NEW k \in Nat
    PROVE  Copied(old, to, to, k) = old
  <1>1. \A a \in Addr : a \in Int /\ to + a - to = a BY Basics DEF Addr
  <1> QED BY <1>1 DEF Copied

LEMMA StartMoveKeeps == IInv /\ StartMove /\ UNCHANGED <<was, call>> => IInv'
  <1> SUFFICES ASSUME IInv, StartMove, UNCHANGED <<was, call>> PROVE IInv' OBVIOUS
  <1>1. /\ pc = "start" /\ Quiet /\ IsCopy /\ Typed /\ call.op = "memmove"
        /\ d = call.dest /\ s = call.src /\ n = call.n /\ mem = was
    BY DEF IInv, StartMove, IsCopy, AtStart
  <1>2. /\ call \in Calls /\ call.dest \in Nat /\ call.src \in Nat /\ call.n \in Nat
        /\ was \in [Addr -> Byte]
    BY <1>1, CallFacts DEF Typed
  <1>3. mem' = mem /\ d' = d /\ s' = s /\ n' = n BY <1>1 DEF Quiet
  <1>4. Moved(call.n - n)'
    <2>1. call'.n - n' = 0 BY <1>1, <1>2, <1>3
    <2>2. \A to, from \in Nat : Copied(was, to, from, 0) = was BY <1>2, CopiedNothing
    <2>3. Copied(was', call'.dest, call'.src, 0) = mem' BY <1>1, <1>2, <1>3, <2>2
    <2> QED BY <1>1, <1>2, <1>3, <2>1, <2>3 DEF Moved
  <1>5. CASE d = s /\ Return(call.dest)
    <2>1. Copied(was, call.dest, call.src, call.n) = was
      <3>1. \A to, k \in Nat : Copied(was, to, to, k) = was BY <1>2, CopiedOntoItself
      <3> QED BY <1>1, <1>2, <1>5, <3>1
    <2>2. Accesses' BY <1>1, NoAccess DEF Quiet
    <2>3. d' \in 0 .. MemSize /\ s' \in 0 .. MemSize /\ n' \in 0 .. call.n
      BY <1>1, <1>3 DEF Typed
    <2> QED BY <1>1, <1>3, <1>5, <2>1, <2>2, <2>3, CopyReturns
  <1>6. CASE \/ Disjoint /\ Goto("head")
             \/ d < s /\ Goto(IF SameOffset THEN "alignUp" ELSE "bytesUp")
             \/ d > s /\ Goto(IF SameOffset THEN "alignDown" ELSE "bytesDown")
    <2>1. /\ pc' \in {"head", "alignUp", "bytesUp", "alignDown", "bytesDown"} /\ ret' = ret
          /\ pc' = "head" => Apart
          /\ pc' \in {"alignUp", "bytesUp"} => d < s
          /\ pc' \in {"alignDown", "bytesDown"} => s < d
          /\ pc' \in {"alignUp", "alignDown"} => SameOffset
      <3>1. Disjoint => Apart BY <1>1, <1>2, DisjointMeansApart
      <3> QED BY <1>1, <1>2, <1>6, <3>1 DEF Goto
    <2>2. Typed' /\ Accesses' /\ IsCopy' /\ (Apart' <=> Apart) BY <1>1, <2>1, QuietCopy
    <2>3. UpInv' BY <1>1, <1>2, <1>3, <1>4, <2>1, <2>2 DEF UpInv, SameOffset
    <2>4. DownInv'
      <3>1. \A to, from \in Nat : Copied(was, to, from, 0) = was BY <1>2, CopiedNothing
      <3>2. /\ d' + n' \in Nat /\ s' + n' \in Nat /\ call'.n - n' = 0
        BY <1>1, <1>2, <1>3
      <3>3. mem' = Copied(was', d' + n', s' + n', call'.n - n') BY <1>1, <1>2, <1>3, <3>1, <3>2
      <3> QED BY <1>1, <1>2, <1>3, <2>1, <3>3 DEF DownInv, SameOffset
    <2>5. ShiftInv' /\ TailInv' /\ pc' \in CopyLabels /\ pc' # "done"
      BY <2>1 DEF ShiftInv, TailInv, CopyLabels
    <2> QED BY <1>1, <2>2, <2>3, <2>4, <2>5, CopyState
  <1> QED BY <1>5, <1>6 DEF StartMove

(* Everything is where it belongs when nothing is left to copy upward.     *)
LEMMA UpReturns ==
    ASSUME IInv, UNCHANGED <<was, call>>, pc \in {"alignUp", "bytesUp"}, n = 0,
           Return(call.dest), Quiet
    PROVE  IInv'
  <1>1. Typed /\ IsCopy /\ Moved(call.n - n) BY DEF IInv, UpInv
  <1>2. call.n - n = call.n BY <1>1, CallFacts DEF Typed
  <1>3. mem' = Copied(was, call.dest, call.src, call.n) BY <1>1, <1>2 DEF Moved, Quiet
  <1>4. Accesses' BY NoAccess DEF Quiet
  <1>5. d' \in 0 .. MemSize /\ s' \in 0 .. MemSize /\ n' \in 0 .. call.n
    BY <1>1 DEF Typed, Quiet
  <1> QED BY <1>1, <1>3, <1>4, <1>5, CopyReturns

LEMMA AlignUpKeeps == IInv /\ AlignUp /\ UNCHANGED <<was, call>> => IInv'
  <1> SUFFICES ASSUME IInv, AlignUp, UNCHANGED <<was, call>> PROVE IInv' OBVIOUS
  <1>1. /\ pc = "alignUp" /\ Typed /\ IsCopy /\ Moved(call.n - n)
        /\ Apart \/ call.dest <= call.src
        /\ SameOffset /\ n \in Nat /\ d \in Nat /\ s \in Nat
    BY Basics, CallFacts DEF IInv, AlignUp, UpInv, Typed
  <1>2. CASE d % WordSize = 0 /\ Goto("wordsUp") /\ Quiet
    <2>1. pc' = "wordsUp" /\ ret' = ret BY <1>2 DEF Goto
    <2>2. Typed' /\ Accesses' /\ IsCopy' /\ (Apart' <=> Apart) BY <1>1, <1>2, <2>1, QuietCopy
    <2>3. UpInv' BY <1>1, <1>2, <2>1, <2>2 DEF UpInv, SameOffset, Moved, Quiet
    <2>4. ShiftInv' /\ TailInv' /\ DownInv' /\ pc' \in CopyLabels /\ pc' # "done"
      BY <2>1 DEF ShiftInv, TailInv, DownInv, CopyLabels
    <2> QED BY <1>1, <2>2, <2>3, <2>4, CopyState
  <1>3. CASE n = 0 /\ Return(call.dest) /\ Quiet BY <1>1, <1>3, UpReturns
  <1>4. CASE n # 0 /\ CopyForward(1, 1) /\ n' = n - 1 /\ UNCHANGED <<pc, ret>>
    <2>1. n >= 1 /\ d % 1 = 0 /\ s % 1 = 0 /\ 1 % 1 = 0 BY <1>1, <1>4
    <2> QED BY <1>1, <1>4, <2>1, UpKeeps
  <1> QED BY <1>2, <1>3, <1>4 DEF AlignUp

LEMMA WordsUpKeeps == IInv /\ WordsUp /\ UNCHANGED <<was, call>> => IInv'
  <1> SUFFICES ASSUME IInv, WordsUp, UNCHANGED <<was, call>> PROVE IInv' OBVIOUS
  <1>1. /\ pc = "wordsUp" /\ Typed /\ IsCopy /\ Moved(call.n - n)
        /\ Apart \/ call.dest <= call.src
        /\ d % 4 = 0 /\ s % 4 = 0 /\ n \in Nat
    BY Basics, CallFacts DEF IInv, WordsUp, UpInv, Typed, WordSize
  <1>2. CASE n >= WordSize /\ CopyForward(WordSize, WordSize) /\ n' = n - WordSize /\ UNCHANGED <<pc, ret>>
    <2>1. 4 % 4 = 0 OBVIOUS
    <2> QED BY <1>1, <1>2, <2>1, UpKeeps DEF WordSize
  <1>3. CASE Goto("bytesUp") /\ Quiet
    <2>1. pc' = "bytesUp" /\ ret' = ret BY <1>3 DEF Goto
    <2>2. Typed' /\ Accesses' /\ IsCopy' /\ (Apart' <=> Apart) BY <1>1, <1>3, <2>1, QuietCopy
    <2>3. UpInv' BY <1>1, <1>3, <2>1, <2>2 DEF UpInv, Moved, Quiet
    <2>4. ShiftInv' /\ TailInv' /\ DownInv' /\ pc' \in CopyLabels /\ pc' # "done"
      BY <2>1 DEF ShiftInv, TailInv, DownInv, CopyLabels
    <2> QED BY <1>1, <2>2, <2>3, <2>4, CopyState
  <1> QED BY <1>2, <1>3 DEF WordsUp

LEMMA BytesUpKeeps == IInv /\ BytesUp /\ UNCHANGED <<was, call>> => IInv'
  <1> SUFFICES ASSUME IInv, BytesUp, UNCHANGED <<was, call>> PROVE IInv' OBVIOUS
  <1>1. pc = "bytesUp" /\ n \in Nat /\ d \in Nat /\ s \in Nat
    BY Basics, CallFacts DEF IInv, BytesUp, Typed
  <1>2. CASE n # 0 /\ CopyForward(1, 1) /\ n' = n - 1 /\ UNCHANGED <<pc, ret>>
    <2>1. n >= 1 /\ d % 1 = 0 /\ s % 1 = 0 /\ 1 % 1 = 0 BY <1>1, <1>2
    <2> QED BY <1>1, <1>2, <2>1, UpKeeps
  <1>3. CASE n = 0 /\ Return(call.dest) /\ Quiet BY <1>1, <1>3, UpReturns
  <1> QED BY <1>2, <1>3 DEF BytesUp

(* A loop that copies downward, k bytes at a time.                         *)
LEMMA DownKeeps ==
    ASSUME IInv, UNCHANGED <<was, call>>,
           pc \in {"alignDown", "wordsDown", "bytesDown"},
           NEW k \in {1, 4}, n >= k, pc = "wordsDown" => k = 4,
           (d + n) % k = 0, (s + n) % k = 0, CopyBackward(k)
    PROVE  IInv'
  <1>0. /\ Typed /\ IsCopy /\ call.op = "memmove" /\ d = call.dest /\ s = call.src /\ s < d
        /\ mem = Copied(was, d + n, s + n, call.n - n)
        /\ pc = "alignDown" => SameOffset
        /\ pc = "wordsDown" => SameOffset /\ (d + n) % 4 = 0
    BY DEF IInv, DownInv, IsCopy, WordSize
  <1>1. /\ call \in Calls /\ was \in [Addr -> Byte]
        /\ call.dest \in Nat /\ call.src \in Nat /\ call.n \in Nat
        /\ call.dest + call.n <= MemSize /\ call.src + call.n <= MemSize /\ MemSize \in Nat
        /\ n \in Nat /\ n <= call.n /\ d \in Nat /\ s \in Nat /\ k \in Nat
    BY <1>0, CallFacts, Basics DEF Typed
  <1>2. PICK to, from, j : to = d + n - k /\ from = s + n - k /\ j = call.n - n OBVIOUS
  <1>3. /\ to \in Nat /\ from \in Nat /\ j \in Nat /\ d + n = to + k /\ s + n = from + k
        /\ from + k + j <= MemSize /\ from + (k + j) <= MemSize /\ from <= to /\ k + j \in Nat
    BY <1>0, <1>1, <1>2
  <1>4. /\ mem' = Copied(mem, to, from, k) /\ n' = n - k /\ access' = CopyUnits(to, from, k, k)
        /\ UNCHANGED <<pc, ret, d, s>>
    BY <1>2 DEF CopyBackward
  <1>5. mem' = Copied(was, to, from, k + j) /\ mem' \in [Addr -> Byte]
    <2>1. PICK to2, from2 : to2 = d + n /\ from2 = s + n OBVIOUS
    <2>2. mem' = Copied(Copied(was, to2, from2, j), to, from, k) BY <1>0, <1>2, <1>4, <2>1
    <2>3. Copied(Copied(was, to2, from2, j), to, from, k) = Copied(was, to, from, k + j)
      <3>1. to2 = to + k /\ from2 = from + k /\ was \in [Addr -> Byte] /\ k \in Nat
        BY <1>1, <1>3, <2>1
      <3>2. to \in Nat /\ from \in Nat /\ j \in Nat /\ from + k + j <= MemSize /\ from <= to
        BY <1>3
      <3> QED BY <3>1, <3>2, CopyDown
    <2>4. Copied(was, to, from, k + j) \in [Addr -> Byte] BY <1>1, <1>3, CopiedType
    <2> QED BY <2>2, <2>3, <2>4
  <1>6. /\ n' \in 0 .. call.n /\ d' + n' = to /\ s' + n' = from /\ call.n - n' = k + j
    BY <1>1, <1>2, <1>4
  <1>7. Accesses'
    <2>1. to % k = 0 /\ from % k = 0
      <3>1. (to + k) % k = 0 /\ (from + k) % k = 0 BY <1>3
      <3>2. CASE k = 1 BY <1>3, <3>2
      <3>3. CASE k = 4 BY <1>3, <3>1, <3>3
      <3> QED BY <3>2, <3>3
    <2>2. /\ call.dest <= to /\ to + k <= call.dest + call.n
          /\ call.src <= from /\ from + k <= call.src + call.n
      BY <1>0, <1>1, <1>2
    <2>3. k \in {1, 4, 8} OBVIOUS
    <2> QED BY <1>0, <1>1, <1>3, <1>4, <2>1, <2>2, <2>3, CopyAccesses
  <1>8. Typed' BY <1>0, <1>4, <1>5, <1>6 DEF Typed, Apart
  <1>9. DownInv'
    <2>1. pc = "wordsDown" => (d' + n') % 4 = 0
      <3>1. pc = "wordsDown" => to + k = d + n /\ k = 4 /\ (d + n) % 4 = 0 BY <1>0, <1>3
      <3> QED BY <1>3, <1>6, <3>1
    <2> QED BY <1>0, <1>4, <1>5, <1>6, <2>1 DEF DownInv, SameOffset, WordSize
  <1>10. UpInv' /\ ShiftInv' /\ TailInv' /\ pc' \in CopyLabels /\ pc' # "done"
    BY <1>4 DEF UpInv, ShiftInv, TailInv, CopyLabels
  <1> QED BY <1>0, <1>7, <1>8, <1>9, <1>10, CopyState

(* On the way down: nothing left to copy, or another loop to go to.        *)
LEMMA DownQuiet ==
    ASSUME IInv, UNCHANGED <<was, call>>, Quiet,
           pc \in {"alignDown", "wordsDown", "bytesDown"},
           \/ n = 0 /\ Return(call.dest)
           \/ pc = "alignDown" /\ (d + n) % WordSize = 0 /\ Goto("wordsDown")
           \/ Goto("bytesDown")
    PROVE  IInv'
  <1>0. /\ Typed /\ IsCopy /\ call.op = "memmove" /\ d = call.dest /\ s = call.src /\ s < d
        /\ mem = Copied(was, d + n, s + n, call.n - n)
        /\ pc = "alignDown" => SameOffset
    BY DEF IInv, DownInv, IsCopy
  <1>1. mem' = mem /\ d' = d /\ s' = s /\ n' = n BY DEF Quiet
  <1>2. CASE n = 0 /\ Return(call.dest)
    <2>1. call.dest \in Nat /\ call.src \in Nat /\ call.n \in Nat BY <1>0, CallFacts DEF Typed
    <2>2. d + n = call.dest /\ s + n = call.src /\ call.n - n = call.n BY <1>0, <1>2, <2>1
    <2>3. mem' = Copied(was, call.dest, call.src, call.n) BY <1>0, <1>1, <2>2
    <2>4. Accesses' BY NoAccess DEF Quiet
    <2>5. d' \in 0 .. MemSize /\ s' \in 0 .. MemSize /\ n' \in 0 .. call.n
      BY <1>0, <1>1 DEF Typed
    <2> QED BY <1>0, <1>2, <2>3, <2>4, <2>5, CopyReturns
  <1>3. CASE \/ pc = "alignDown" /\ (d + n) % WordSize = 0 /\ Goto("wordsDown")
             \/ Goto("bytesDown")
    <2>1. pc' \in {"wordsDown", "bytesDown"} /\ ret' = ret
          /\ (pc' = "wordsDown" => pc = "alignDown" /\ (d + n) % WordSize = 0)
      BY <1>3 DEF Goto
    <2>2. Typed' /\ Accesses' BY <1>0, <2>1, QuietCopy
    <2>3. DownInv' BY <1>0, <1>1, <2>1 DEF DownInv, SameOffset
    <2>4. UpInv' /\ ShiftInv' /\ TailInv' /\ pc' \in CopyLabels /\ pc' # "done"
      BY <2>1 DEF UpInv, ShiftInv, TailInv, CopyLabels
    <2> QED BY <1>0, <2>2, <2>3, <2>4, CopyState
  <1> QED BY <1>2, <1>3

LEMMA MoveDownKeeps ==
    IInv /\ (AlignDown \/ WordsDown \/ BytesDown) /\ UNCHANGED <<was, call>> => IInv'
  <1> SUFFICES ASSUME IInv, AlignDown \/ WordsDown \/ BytesDown, UNCHANGED <<was, call>>
               PROVE  IInv'
    OBVIOUS
  <1>1. n \in Nat /\ d \in Nat /\ s \in Nat BY Basics, CallFacts DEF IInv, Typed
  <1>2. (d + n) % 1 = 0 /\ (s + n) % 1 = 0 BY <1>1
  <1>3. CASE AlignDown
    <2>1. CASE n # 0 /\ CopyBackward(1)
      <3>1. n >= 1 /\ pc = "alignDown" BY <1>1, <1>3, <2>1 DEF AlignDown
      <3> QED BY <1>2, <2>1, <3>1, DownKeeps
    <2> QED BY <1>3, <2>1, DownQuiet DEF AlignDown
  <1>4. CASE WordsDown
    <2>1. CASE n >= WordSize /\ CopyBackward(WordSize)
      <3>1. pc = "wordsDown" /\ d % 4 = s % 4 /\ (d + n) % 4 = 0
        BY <1>4 DEF WordsDown, IInv, DownInv, SameOffset, WordSize
      <3>2. (s + n) % 4 = 0 BY <1>1, <3>1
      <3> QED BY <2>1, <3>1, <3>2, DownKeeps DEF WordSize
    <2> QED BY <1>4, <2>1, DownQuiet DEF WordsDown
  <1>5. CASE BytesDown
    <2>1. CASE n # 0 /\ CopyBackward(1)
      <3>1. n >= 1 /\ pc = "bytesDown" BY <1>1, <1>5, <2>1 DEF BytesDown
      <3> QED BY <1>2, <2>1, <3>1, DownKeeps
    <2> QED BY <1>5, <2>1, DownQuiet DEF BytesDown
  <1> QED BY <1>3, <1>4, <1>5

-----------------------------------------------------------------------------
(* memset.                                                                 *)

(* What a step of memset has to show.                                      *)
LEMMA SetState ==
    ASSUME Typed, call.op = "memset", UNCHANGED <<was, call>>, Typed', Accesses', SetInv',
           BytesInv', WordsInv', BlocksInv', pc' # "start",
           pc' = "done" => ret' = call.dest /\ \A a \in call.dest .. End - 1 : mem'[a] = call.c
    PROVE  IInv'
  <1>1. call'.op = "memset" /\ call' = call /\ was' = was OBVIOUS
  <1>2. pc' \in {"setBytes", "setWords", "setBlocks", "done"} BY <1>1 DEF SetInv
  <1>3. Labels' /\ AtStart' /\ UpInv' /\ ShiftInv' /\ TailInv' /\ DownInv' /\ CmpInv' /\ LenInv'
    BY <1>1, <1>2 DEF Labels, AtStart, UpInv, ShiftInv, TailInv, DownInv, CmpInv, LenInv
  <1>4. ExactResult'
    <2>1. SUFFICES ASSUME pc' = "done" PROVE mem' = PromisedMemory' /\ ret' = call.dest
      BY <1>1 DEF ExactResult, PromisedReturn
    <2>2. PromisedMemory' = Filled(was, call.dest .. End - 1, call.c)
      <3>1. call'.op = "memset" => PromisedMemory' =
                Filled(was', call'.dest .. call'.dest + call'.n - 1, call'.c)
        BY DEF PromisedMemory
      <3>2. PromisedMemory' = Filled(was', call'.dest .. call'.dest + call'.n - 1, call'.c)
        BY <1>1, <3>1
      <3>3. call'.dest .. call'.dest + call'.n - 1 = call.dest .. End - 1
        <4>1. call'.dest = call.dest /\ call'.n = call.n BY <1>1
        <4>2. call.dest \in Nat /\ call.n \in Nat BY CallFacts DEF Typed
        <4> QED BY <4>1, <4>2 DEF End
      <3> QED BY <1>1, <3>2, <3>3
    <2>3. mem' \in [Addr -> Byte] BY DEF Typed
    <2>4. \A a \in Addr : mem'[a] = IF a \in call.dest .. End - 1 THEN call.c ELSE was[a]
      BY <1>1, <2>1 DEF SetInv, End
    <2>5. mem' = [a \in Addr |-> IF a \in call.dest .. End - 1 THEN call.c ELSE was[a]]
      BY <2>3, <2>4
    <2> QED BY <2>1, <2>2, <2>5 DEF Filled
  <1> QED BY <1>3, <1>4 DEF IInv

(* Stores of the byte, inside the operand and aligned.                     *)
LEMMA FillFacts ==
    ASSUME Typed, call.op = "memset", SetInv, UNCHANGED <<was, call>>,
           NEW width \in {1, 4, 8}, NEW offsets, Fill(offsets, width), d \in Nat,
           \A o \in offsets : /\ o \in Nat /\ call.dest <= d + o /\ d + o + width <= End
                              /\ (d + o) % width = 0
    PROVE  /\ mem' \in [Addr -> Byte] /\ Accesses'
           /\ \A a \in Addr : mem'[a] = was[a] \/ (a \in call.dest .. End - 1 /\ mem'[a] = call.c)
           /\ \A a \in call.dest .. End - 1 : mem[a] = call.c => mem'[a] = call.c
           /\ \A a \in call.dest .. End - 1 :
                 (\E o \in offsets : d + o <= a /\ a < d + o + width) => mem'[a] = call.c
  <1>0. /\ call \in Calls /\ was \in [Addr -> Byte] /\ mem \in [Addr -> Byte]
        /\ call.dest \in Nat /\ call.n \in Nat /\ call.c \in Byte
        /\ call.dest + call.n <= MemSize /\ MemSize \in Nat /\ End \in Nat /\ End <= MemSize
    BY CallFacts, Basics DEF Typed, End
  <1> DEFINE S == UNION {d + o .. d + o + width - 1 : o \in offsets}
  <1>1. mem' = [a \in Addr |-> IF a \in S THEN call.c ELSE mem[a]] BY DEF Fill, Filled
  <1>2. \A a \in Int : a \in S <=> \E o \in offsets : d + o <= a /\ a < d + o + width
    <2> TAKE a \in Int
    <2>1. \A o \in offsets : a \in d + o .. d + o + width - 1 <=> d + o <= a /\ a < d + o + width
      <3> TAKE o \in offsets
      <3>1. o \in Nat /\ width \in Nat OBVIOUS
      <3> QED BY <3>1
    <2>2. a \in S <=> \E o \in offsets : a \in d + o .. d + o + width - 1 BY Zenon
    <2> HIDE DEF S
    <2> QED BY <2>1, <2>2
  <1> HIDE DEF S
  <1>3. \A a \in Addr : a \in Int BY <1>0 DEF Addr
  <1>4. \A a \in call.dest .. End - 1 : a \in Addr BY <1>0 DEF Addr
  <1>5. \A a \in Addr : a \in S => a \in call.dest .. End - 1
    <2> TAKE a \in Addr
    <2> HAVE a \in S
    <2>1. PICK o \in offsets : d + o <= a /\ a < d + o + width BY <1>2, <1>3
    <2>2. o \in Nat /\ call.dest <= d + o /\ d + o + width <= End /\ width \in Nat OBVIOUS
    <2> QED BY <1>0, <1>3, <2>1, <2>2
  <1>6. mem' \in [Addr -> Byte] BY <1>0, <1>1
  <1>7. \A a \in Addr : mem'[a] = was[a] \/ (a \in call.dest .. End - 1 /\ mem'[a] = call.c)
    BY <1>1, <1>5 DEF SetInv
  <1>8. \A a \in call.dest .. End - 1 : mem[a] = call.c => mem'[a] = call.c
    BY <1>1, <1>4
  <1>9. \A a \in call.dest .. End - 1 :
           (\E o \in offsets : d + o <= a /\ a < d + o + width) => mem'[a] = call.c
    BY <1>1, <1>2, <1>3, <1>4
  <1>10. Accesses'
    <2>1. ASSUME NEW x \in access'
          PROVE  x.addr % x.width = 0 /\ x.kind = "write" /\ Within(x, call.dest, call.n)
      <3>1. PICK o \in offsets : x \in Units("write", d + o, width, width)
        BY <2>1, Zenon DEF Fill
      <3>2. PICK to : to = d + o OBVIOUS
      <3>3. to \in Nat /\ to % width = 0 /\ width \in Nat BY <3>2
      <3>4. Among(x, "write", to, width) BY <3>1, <3>2, <3>3, UnitsFacts
      <3>5. call.dest <= to /\ to + width <= call.dest + call.n BY <3>2 DEF End
      <3> QED BY <1>0, <3>3, <3>4, <3>5 DEF Among, Within
    <2> QED BY <2>1 DEF Accesses, WithinOperands, Within
  <1> QED BY <1>6, <1>7, <1>8, <1>9, <1>10

LEMMA StartSetKeeps == IInv /\ StartSet /\ UNCHANGED <<was, call>> => IInv'
  <1> SUFFICES ASSUME IInv, StartSet, UNCHANGED <<was, call>> PROVE IInv' OBVIOUS
  <1>1. /\ call.op = "memset" /\ pc = "start" /\ Quiet /\ Typed /\ SetInv
        /\ d = call.dest /\ n = call.n
    BY DEF IInv, StartSet, AtStart
  <1>2. /\ call \in Calls /\ call.dest \in Nat /\ call.n \in Nat /\ End = call.dest + call.n
        /\ call.dest < MemSize
    BY <1>1, CallFacts DEF Typed, End
  <1>3. \/ n = 0 /\ pc' = "done" /\ ret' = call.dest
        \/ n # 0 /\ pc' = "setBytes" /\ stage' = 1 /\ ret' = ret
    BY DEF StartSet, Return, Goto
  <1>4. /\ Accesses' /\ mem' = mem /\ d' = d /\ n' = n /\ s' = s BY <1>1, NoAccess DEF Quiet
  <1>5. Typed' BY <1>1, <1>2, <1>3, <1>4, Basics DEF Typed, Apart, NoReturn
  <1>6. SetInv' BY <1>1, <1>3, <1>4 DEF SetInv, End
  <1>7. BytesInv' /\ WordsInv' /\ BlocksInv' /\ pc' # "start"
    BY <1>1, <1>2, <1>3, <1>4 DEF BytesInv, WordsInv, BlocksInv
  <1>8. pc' = "done" => ret' = call.dest /\ \A a \in call.dest .. End - 1 : mem'[a] = call.c
    BY <1>1, <1>2, <1>3
  <1> QED BY <1>1, <1>4, <1>5, <1>6, <1>7, <1>8, SetState

LEMMA BulkSetKeeps ==
    IInv /\ Bulk /\ call.op = "memset" /\ UNCHANGED <<was, call>> => IInv'
  <1> SUFFICES ASSUME IInv, Bulk, call.op = "memset", UNCHANGED <<was, call>> PROVE IInv' OBVIOUS
  <1>1. /\ pc = "start" /\ Typed /\ SetInv /\ d = call.dest /\ n = call.n /\ mem = was
    BY DEF IInv, Bulk, AtStart
  <1>2. /\ call \in Calls /\ call.dest \in Nat /\ call.n \in Nat /\ End = call.dest + call.n
        /\ call.dest < MemSize /\ End <= MemSize /\ MemSize \in Nat /\ call.c \in Byte
    BY <1>1, CallFacts, Basics DEF Typed, End
  <1>3. /\ mem' = [a \in Addr |-> IF a \in call.dest .. End - 1 THEN call.c ELSE was[a]]
        /\ access' = {} /\ pc' = "done" /\ ret' = call.dest /\ UNCHANGED <<d, s, n>>
    BY <1>1, <1>2 DEF Bulk, Filled, Return
  <1>4. Accesses' BY <1>3, NoAccess
  <1>5. was \in [Addr -> Byte] BY <1>1 DEF Typed
  <1>6. Typed' BY <1>1, <1>2, <1>3, <1>5, Basics DEF Typed, Apart, NoReturn
  <1>7. SetInv' BY <1>1, <1>3 DEF SetInv, End
  <1>8. BytesInv' /\ WordsInv' /\ BlocksInv' /\ pc' # "start"
    BY <1>3 DEF BytesInv, WordsInv, BlocksInv
  <1>9. \A a \in call.dest .. End - 1 : a \in Addr BY <1>2 DEF Addr
  <1>10. \A a \in call.dest .. End - 1 : mem'[a] = call.c BY <1>3, <1>9
  <1> QED BY <1>1, <1>3, <1>4, <1>6, <1>7, <1>8, <1>10, SetState

(* From the stores made so far to those made after a step that stores at   *)
(* some offsets.                                                           *)
LEMMA SetBytesKeeps == IInv /\ SetBytes /\ UNCHANGED <<was, call>> => IInv'
  <1> SUFFICES ASSUME IInv, SetBytes, UNCHANGED <<was, call>> PROVE IInv' OBVIOUS
  <1>1. /\ call.op = "memset" /\ pc = "setBytes" /\ Typed /\ SetInv
        /\ d = call.dest /\ n = call.n
        /\ \/ stage = 1 /\ n >= 1
           \/ stage = 2 /\ n > 2 /\ Stored(d + 1, End - 1)
           \/ stage = 3 /\ n > 6 /\ Stored(d + 3, End - 3)
    BY DEF IInv, SetBytes, BytesInv
  <1>2. /\ call \in Calls /\ call.dest \in Nat /\ call.n \in Nat /\ End = d + n
        /\ call.dest < MemSize /\ End <= MemSize /\ MemSize \in Nat /\ call.c \in Byte
        /\ d \in Nat /\ n \in Nat
    BY <1>1, CallFacts, Basics DEF Typed, End
  <1>3. PICK offsets, limit : offsets = ByteStages[stage].at /\ limit = ByteStages[stage].limit
    OBVIOUS
  <1>4. \/ stage = 1 /\ offsets = {0, n - 1} /\ limit = 2
        \/ stage = 2 /\ offsets = {1, 2, n - 2, n - 3} /\ limit = 6
        \/ stage = 3 /\ offsets = {3, n - 4} /\ limit = 8
    <2>1. ByteStages[1] = [at |-> {0, n - 1}, limit |-> 2] BY DEF ByteStages
    <2>2. ByteStages[2] = [at |-> {1, 2, n - 2, n - 3}, limit |-> 6] BY DEF ByteStages
    <2>3. ByteStages[3] = [at |-> {3, n - 4}, limit |-> 8] BY DEF ByteStages
    <2> QED BY <1>1, <1>3, <2>1, <2>2, <2>3
  <1>5. Fill(offsets, 1) BY <1>3 DEF SetBytes
  <1>6. \A o \in offsets : o \in Nat /\ call.dest <= d + o /\ d + o + 1 <= End /\ (d + o) % 1 = 0
    BY <1>1, <1>2, <1>4
  <1>7. /\ mem' \in [Addr -> Byte] /\ Accesses'
        /\ \A a \in Addr : mem'[a] = was[a] \/ (a \in call.dest .. End - 1 /\ mem'[a] = call.c)
        /\ \A a \in call.dest .. End - 1 : mem[a] = call.c => mem'[a] = call.c
        /\ \A a \in call.dest .. End - 1 :
              (\E o \in offsets : d + o <= a /\ a < d + o + 1) => mem'[a] = call.c
    BY <1>1, <1>2, <1>5, <1>6, FillFacts
  <1>8. \A a \in call.dest .. End - 1 : (a - d \in offsets) => mem'[a] = call.c
    <2> TAKE a \in call.dest .. End - 1
    <2>1. a - d \in offsets => d + (a - d) <= a /\ a < d + (a - d) + 1 BY <1>2
    <2> QED BY <1>7, <2>1
  <1>9. \A a \in call.dest .. End - 1 :
           /\ stage = 1 /\ (a < d + 1 \/ a >= End - 1) => mem'[a] = call.c
           /\ stage = 2 /\ (a < d + 3 \/ a >= End - 3) => mem'[a] = call.c
           /\ stage = 3 /\ (a < d + 4 \/ a >= End - 4) => mem'[a] = call.c
    <2> TAKE a \in call.dest .. End - 1
    <2>0. a \in Nat /\ d <= a /\ a < d + n BY <1>1, <1>2
    <2>1. stage = 1 /\ (a < d + 1 \/ a >= End - 1) => a - d \in offsets
      <3>1. a < d + 1 \/ a >= End - 1 => a - d = 0 \/ a - d = n - 1 BY <1>2, <2>0
      <3> QED BY <1>4, <3>1
    <2>2. stage = 2 /\ (a < d + 3 \/ a >= End - 3) =>
              a < d + 1 \/ a >= End - 1 \/ a - d \in offsets
      <3>1. a < d + 3 \/ a >= End - 3 => \/ a < d + 1 \/ a >= End - 1
                                        \/ a - d \in {1, 2, n - 2, n - 3}
        BY <1>2, <2>0
      <3> QED BY <1>4, <3>1
    <2>3. stage = 3 /\ (a < d + 4 \/ a >= End - 4) =>
              a < d + 3 \/ a >= End - 3 \/ a - d \in offsets
      <3>1. a < d + 4 \/ a >= End - 4 => a < d + 3 \/ a >= End - 3 \/ a - d \in {3, n - 4}
        BY <1>2, <2>0
      <3> QED BY <1>4, <3>1
    <2>4. /\ stage = 2 /\ (a < d + 1 \/ a >= End - 1) => mem[a] = call.c
          /\ stage = 3 /\ (a < d + 3 \/ a >= End - 3) => mem[a] = call.c
      BY <1>1 DEF Stored
    <2> QED BY <1>7, <1>8, <2>1, <2>2, <2>3, <2>4
  <1>10. \/ n <= limit /\ pc' = "done" /\ ret' = call.dest /\ UNCHANGED <<d, n, stage>>
         \/ n > limit /\ stage < 3 /\ stage' = stage + 1 /\ UNCHANGED <<pc, ret, d, n>>
         \/ /\ n > limit /\ stage = 3
            /\ d' = d + ((-d) % 4) /\ n' = ((n - ((-d) % 4)) \div 4) * 4
            /\ pc' = "setWords" /\ ret' = ret /\ stage' = 1
    BY <1>3 DEF SetBytes, Return, Goto, WordSize
  <1>11. s' = s BY DEF SetBytes
  <1>12. CASE n <= limit /\ pc' = "done" /\ ret' = call.dest /\ UNCHANGED <<d, n, stage>>
    <2>1. Typed' BY <1>1, <1>2, <1>7, <1>11, <1>12, Basics DEF Typed, Apart, NoReturn
    <2>2. SetInv' BY <1>1, <1>7, <1>12 DEF SetInv, End
    <2>3. BytesInv' /\ WordsInv' /\ BlocksInv' /\ pc' # "start"
      BY <1>12 DEF BytesInv, WordsInv, BlocksInv
    <2>4. \A a \in call.dest .. End - 1 : mem'[a] = call.c
      <3> TAKE a \in call.dest .. End - 1
      <3>1. /\ stage = 1 => a < d + 1 \/ a >= End - 1
            /\ stage = 2 => a < d + 3 \/ a >= End - 3
            /\ stage = 3 => a < d + 4 \/ a >= End - 4
        BY <1>2, <1>4, <1>12
      <3> QED BY <1>4, <1>9, <3>1
    <2> QED BY <1>1, <1>7, <1>12, <2>1, <2>2, <2>3, <2>4, SetState
  <1>13. CASE n > limit /\ stage < 3 /\ stage' = stage + 1 /\ UNCHANGED <<pc, ret, d, n>>
    <2>1. Typed' BY <1>1, <1>2, <1>7, <1>11, <1>13, Basics DEF Typed, Apart, NoReturn
    <2>2. SetInv' BY <1>1, <1>7, <1>13 DEF SetInv, End
    <2>3. BytesInv'
      <3>1. d' = d /\ End' = End /\ call' = call BY <1>13 DEF End
      <3>2. (stage = 1 => Stored(d + 1, End - 1)') /\ (stage = 2 => Stored(d + 3, End - 3)')
        BY <1>9, <3>1 DEF Stored
      <3> QED BY <1>1, <1>2, <1>4, <1>13, <3>1, <3>2 DEF BytesInv
    <2>4. WordsInv' /\ BlocksInv' /\ pc' # "start" /\ pc' # "done"
      BY <1>1, <1>13 DEF WordsInv, BlocksInv
    <2> QED BY <1>1, <1>7, <1>13, <2>1, <2>2, <2>3, <2>4, SetState
  <1>14. CASE /\ n > limit /\ stage = 3
              /\ d' = d + ((-d) % 4) /\ n' = ((n - ((-d) % 4)) \div 4) * 4
              /\ pc' = "setWords" /\ ret' = ret /\ stage' = 1
    <2>1. PICK k : k = (-d) % 4 OBVIOUS
    <2>2. k \in 0 .. 3 /\ (d + k) % 4 = 0 BY <1>2, <2>1
    <2>3. n > 8 BY <1>4, <1>14
    <2>4. /\ d' = d + k /\ d' \in Nat /\ d' % 4 = 0 /\ n' \in Nat /\ n' % 4 = 0 /\ n' >= 4
          /\ call.dest <= d' /\ d' + n' <= End /\ d' - call.dest <= 3 /\ End - (d' + n') <= 3
          /\ n' <= n
      <3>1. PICK m : m = n - k OBVIOUS
      <3>2. m \in Nat /\ m >= 6 BY <1>2, <2>2, <2>3, <3>1
      <3>3. (m \div 4) * 4 \in Nat /\ ((m \div 4) * 4) % 4 = 0 /\ (m \div 4) * 4 >= 4
            /\ (m \div 4) * 4 <= m /\ m <= (m \div 4) * 4 + 3
        BY <3>2
      <3>4. n' = (m \div 4) * 4 /\ d' = d + k BY <1>14, <2>1, <3>1
      <3>5. PICK q : q = (m \div 4) * 4 OBVIOUS
      <3>6. q \in Nat /\ q % 4 = 0 /\ q >= 4 /\ q <= m /\ m <= q + 3 BY <3>3, <3>5
      <3>7. d' = d + k /\ d' \in Nat /\ d' % 4 = 0 BY <1>2, <2>2, <3>4
      <3>8. End = d + n /\ call.dest = d /\ n' = q BY <1>1, <1>2, <3>4, <3>5
      <3> QED BY <1>2, <2>2, <3>1, <3>6, <3>7, <3>8
    <2>5. n' <= call.n BY <1>1, <2>4
    <2>6. Typed' BY <1>1, <1>2, <1>7, <1>11, <1>14, <2>4, <2>5, Basics, SMTT(60) DEF Typed, Apart, NoReturn
    <2>7. SetInv' BY <1>1, <1>7, <1>14 DEF SetInv, End
    <2>8. WordsInv'
      <3>2. End' = End /\ call' = call BY DEF End
      <3>1. Stored(call.dest + 4, End - 4)'
        BY <1>1, <1>9, <1>14, <3>2 DEF Stored
      <3> QED BY <1>1, <1>14, <2>4, <3>1, <3>2 DEF WordsInv, WordSize
    <2>9. BytesInv' /\ BlocksInv' /\ pc' # "start" /\ pc' # "done"
      BY <1>14 DEF BytesInv, BlocksInv
    <2> QED BY <1>1, <1>7, <2>6, <2>7, <2>8, <2>9, SetState
  <1> QED BY <1>10, <1>12, <1>13, <1>14

(* The words stored allow to skip to an address the next stores are        *)
(* aligned at.                                                             *)
LEMMA SkipFacts ==
    ASSUME d \in Nat, d % 4 = 0
    PROVE  /\ Skip \in {24, 28} /\ (d + Skip) % 8 = 0
  <1>1. CASE d % 8 = 0
    <2>1. (d \div 4) % 2 = 0 BY <1>1
    <2>2. Skip = 24 BY <2>1 DEF Skip
    <2> QED BY <1>1, <2>2
  <1>2. CASE d % 8 # 0
    <2>1. d % 8 = 4 BY <1>2
    <2>2. (d \div 4) % 2 = 1 BY <2>1
    <2>3. Skip = 28 BY <2>2 DEF Skip
    <2> QED BY <2>1, <2>3
  <1> QED BY <1>1, <1>2

LEMMA SetWordsKeeps == IInv /\ SetWords /\ UNCHANGED <<was, call>> => IInv'
  <1> SUFFICES ASSUME IInv, SetWords, UNCHANGED <<was, call>> PROVE IInv' OBVIOUS
  <1>1. /\ call.op = "memset" /\ pc = "setWords" /\ Typed /\ SetInv
        /\ d % 4 = 0 /\ n % 4 = 0 /\ call.dest <= d /\ d + n <= End
        /\ \/ stage = 1 /\ n >= 4 /\ d - call.dest <= 3 /\ End - (d + n) <= 3
                 /\ Stored(call.dest + 4, End - 4)
           \/ stage = 2 /\ n >= 12 /\ Stored(d + 4, d + n - 4)
           \/ stage = 3 /\ n >= 28 /\ Stored(d + 12, d + n - 12)
    BY DEF IInv, SetWords, WordsInv, WordSize
  <1>2. /\ call \in Calls /\ call.dest \in Nat /\ call.n \in Nat /\ End = call.dest + call.n
        /\ call.dest < MemSize /\ End <= MemSize /\ End \in Nat /\ MemSize \in Nat
        /\ call.c \in Byte /\ d \in Nat /\ n \in Nat
    BY <1>1, CallFacts, Basics DEF Typed, End
  <1>3. PICK offsets, limit : offsets = WordStages[stage].at /\ limit = WordStages[stage].limit
    OBVIOUS
  <1>4. \/ stage = 1 /\ offsets = {0, n - 4} /\ limit = 8
        \/ stage = 2 /\ offsets = {4, 8, n - 12, n - 8} /\ limit = 24
        \/ stage = 3 /\ offsets = {12, 16, 20, 24, n - 28, n - 24, n - 20, n - 16}
    <2>1. WordStages[1] = [at |-> {0, n - 4}, limit |-> 8] BY DEF WordStages
    <2>2. WordStages[2] = [at |-> {4, 8, n - 12, n - 8}, limit |-> 24] BY DEF WordStages
    <2>3. WordStages[3] = [at |-> {12, 16, 20, 24, n - 28, n - 24, n - 20, n - 16}, limit |-> 0]
      BY DEF WordStages
    <2> QED BY <1>1, <1>3, <2>1, <2>2, <2>3
  <1>5. Fill(offsets, 4) BY <1>3 DEF SetWords, WordSize
  <1>6. \A o \in offsets : o \in Nat /\ call.dest <= d + o /\ d + o + 4 <= End /\ (d + o) % 4 = 0
    <2> TAKE o \in offsets
    <2>1. o \in Nat /\ o + 4 <= n /\ (o % 4 = 0 \/ (n - o) % 4 = 0) BY <1>1, <1>2, <1>4
    <2>2. n % 4 = 0 /\ d % 4 = 0 BY <1>1
    <2>3. o % 4 = 0 BY <1>2, <2>1, <2>2
    <2>4. (d + o) % 4 = 0 BY <1>2, <2>1, <2>2, <2>3
    <2> QED BY <1>1, <1>2, <2>1, <2>4
  <1>7. /\ mem' \in [Addr -> Byte] /\ Accesses'
        /\ \A a \in Addr : mem'[a] = was[a] \/ (a \in call.dest .. End - 1 /\ mem'[a] = call.c)
        /\ \A a \in call.dest .. End - 1 : mem[a] = call.c => mem'[a] = call.c
        /\ \A a \in call.dest .. End - 1 :
              (\E o \in offsets : d + o <= a /\ a < d + o + 4) => mem'[a] = call.c
    BY <1>1, <1>2, <1>5, <1>6, FillFacts
  <1>8. \A a \in call.dest .. End - 1 :
           /\ stage = 1 /\ (a < d + 4 \/ a >= d + n - 4) => mem'[a] = call.c
           /\ stage = 2 /\ (a < d + 12 \/ a >= d + n - 12) => mem'[a] = call.c
           /\ stage = 3 /\ (a < d + 28 \/ a >= d + n - 28) => mem'[a] = call.c
    <2> TAKE a \in call.dest .. End - 1
    <2>0. a \in Nat /\ call.dest <= a /\ a < End BY <1>2
    <2>1. CASE stage = 1 /\ (a < d + 4 \/ a >= d + n - 4)
      <3>1. a < call.dest + 4 \/ a >= End - 4 => mem[a] = call.c BY <1>1, <2>1 DEF Stored
      <3>2. \/ a < call.dest + 4 \/ a >= End - 4
            \/ d + 0 <= a /\ a < d + 0 + 4
            \/ d + (n - 4) <= a /\ a < d + (n - 4) + 4
        <4>1. d - call.dest <= 3 /\ End - (d + n) <= 3 BY <1>1, <2>1
        <4> QED BY <1>2, <2>0, <2>1, <4>1
      <3>3. 0 \in offsets /\ n - 4 \in offsets BY <1>4, <2>1
      <3> QED BY <1>7, <2>1, <3>1, <3>2, <3>3
    <2>2. CASE stage = 2 /\ (a < d + 12 \/ a >= d + n - 12)
      <3>1. a < d + 4 \/ a >= d + n - 4 => mem[a] = call.c BY <1>1, <2>2 DEF Stored
      <3>2. \/ a < d + 4 \/ a >= d + n - 4
            \/ d + 4 <= a /\ a < d + 4 + 4
            \/ d + 8 <= a /\ a < d + 8 + 4
            \/ d + (n - 12) <= a /\ a < d + (n - 12) + 4
            \/ d + (n - 8) <= a /\ a < d + (n - 8) + 4
        BY <1>2, <2>0, <2>2
      <3>3. 4 \in offsets /\ 8 \in offsets /\ n - 12 \in offsets /\ n - 8 \in offsets
        BY <1>4, <2>2
      <3> QED BY <1>7, <2>2, <3>1, <3>2, <3>3
    <2>3. CASE stage = 3 /\ (a < d + 28 \/ a >= d + n - 28)
      <3>1. a < d + 12 \/ a >= d + n - 12 => mem[a] = call.c BY <1>1, <2>3 DEF Stored
      <3>2. \/ a < d + 12 \/ a >= d + n - 12
            \/ d + 12 <= a /\ a < d + 12 + 4
            \/ d + 16 <= a /\ a < d + 16 + 4
            \/ d + 20 <= a /\ a < d + 20 + 4
            \/ d + 24 <= a /\ a < d + 24 + 4
            \/ d + (n - 28) <= a /\ a < d + (n - 28) + 4
            \/ d + (n - 24) <= a /\ a < d + (n - 24) + 4
            \/ d + (n - 20) <= a /\ a < d + (n - 20) + 4
            \/ d + (n - 16) <= a /\ a < d + (n - 16) + 4
        BY <1>2, <2>0, <2>3
      <3>3. /\ 12 \in offsets /\ 16 \in offsets /\ 20 \in offsets /\ 24 \in offsets
            /\ n - 28 \in offsets /\ n - 24 \in offsets /\ n - 20 \in offsets /\ n - 16 \in offsets
        BY <1>4, <2>3
      <3> QED BY <1>7, <2>3, <3>1, <3>2, <3>3
    <2> QED BY <2>1, <2>2, <2>3
  <1>9. \/ stage < 3 /\ n <= limit /\ pc' = "done" /\ ret' = call.dest /\ UNCHANGED <<d, n, stage>>
        \/ stage < 3 /\ n > limit /\ stage' = stage + 1 /\ UNCHANGED <<pc, ret, d, n>>
        \/ stage = 3 /\ d' = d + Skip /\ n' = n - Skip /\ pc' = "setBlocks" /\ ret' = ret
    BY <1>3 DEF SetWords, Return, Goto
  <1>10. s' = s /\ End' = End /\ call' = call BY DEF SetWords, End
  <1>11. SetInv' /\ pc' # "start" BY <1>1, <1>7, <1>9, <1>10 DEF SetInv
  <1>12. CASE stage < 3 /\ n <= limit /\ pc' = "done" /\ ret' = call.dest /\ UNCHANGED <<d, n, stage>>
    <2>1. Typed' BY <1>1, <1>2, <1>7, <1>10, <1>12, Basics DEF Typed, Apart, NoReturn
    <2>2. BytesInv' /\ WordsInv' /\ BlocksInv' BY <1>12 DEF BytesInv, WordsInv, BlocksInv
    <2>3. \A a \in call.dest .. End - 1 : mem'[a] = call.c
      <3> TAKE a \in call.dest .. End - 1
      <3>1. /\ stage = 1 => a < d + 4 \/ a >= d + n - 4
            /\ stage = 2 => a < d + 12 \/ a >= d + n - 12
        BY <1>2, <1>4, <1>12
      <3> QED BY <1>4, <1>8, <1>12, <3>1
    <2> QED BY <1>1, <1>7, <1>11, <1>12, <2>1, <2>2, <2>3, SetState
  <1>13. CASE stage < 3 /\ n > limit /\ stage' = stage + 1 /\ UNCHANGED <<pc, ret, d, n>>
    <2>1. Typed' BY <1>1, <1>2, <1>7, <1>10, <1>13, Basics DEF Typed, Apart, NoReturn
    <2>2. WordsInv'
      <3>1. (stage = 1 => Stored(d + 4, d + n - 4)') /\ (stage = 2 => Stored(d + 12, d + n - 12)')
        BY <1>8, <1>10, <1>13 DEF Stored
      <3>2. (stage = 1 => n >= 12) /\ (stage = 2 => n >= 28)
        <4>1. n % 4 = 0 BY <1>1
        <4> QED BY <1>2, <1>4, <1>13, <4>1
      <3> QED BY <1>1, <1>4, <1>10, <1>13, <3>1, <3>2 DEF WordsInv, WordSize
    <2>3. BytesInv' /\ BlocksInv' /\ pc' # "done" BY <1>1, <1>13 DEF BytesInv, BlocksInv
    <2> QED BY <1>1, <1>7, <1>11, <2>1, <2>2, <2>3, SetState
  <1>14. CASE stage = 3 /\ d' = d + Skip /\ n' = n - Skip /\ pc' = "setBlocks" /\ ret' = ret
    <2>1. PICK k : k = Skip OBVIOUS
    <2>2. k \in {24, 28} /\ (d + k) % 8 = 0 BY <1>1, <1>2, <2>1, SkipFacts
    <2>3. n >= 28 BY <1>1, <1>14
    <2>4. /\ d' = d + k /\ n' = n - k /\ d' \in Nat /\ n' \in Nat /\ n' <= n /\ d' + n' = d + n
      BY <1>2, <1>14, <2>1, <2>2, <2>3
    <2>5. n' % 4 = 0
      <3>1. n % 4 = 0 BY <1>1
      <3> QED BY <1>2, <2>2, <2>3, <2>4, <3>1
    <2>6. d' \in 0 .. MemSize /\ n' \in 0 .. call.n BY <1>1, <1>2, <2>4
    <2>7. Typed' BY <1>1, <1>2, <1>7, <1>10, <1>14, <2>6 DEF Typed, Apart, NoReturn
    <2>8. Stored(d, d + n - 28)'
      <3>1. \A a \in call.dest .. End - 1 : (a < d' \/ a >= d' + n' - 28) => mem'[a] = call.c
        <4> TAKE a \in call.dest .. End - 1
        <4>1. a < d' => a < d + 28 BY <1>2, <2>2, <2>4
        <4>2. d' + n' - 28 = d + n - 28 BY <1>2, <2>4
        <4> QED BY <1>8, <1>14, <4>1, <4>2
      <3> QED BY <1>10, <3>1 DEF Stored
    <2>9. BlocksInv' BY <1>1, <1>2, <1>10, <2>2, <2>4, <2>5, <2>8 DEF BlocksInv, WordSize
    <2>10. BytesInv' /\ WordsInv' /\ pc' # "done" BY <1>14 DEF BytesInv, WordsInv
    <2> QED BY <1>1, <1>7, <1>11, <2>7, <2>9, <2>10, SetState
  <1> QED BY <1>9, <1>12, <1>13, <1>14

LEMMA SetBlocksKeeps == IInv /\ SetBlocks /\ UNCHANGED <<was, call>> => IInv'
  <1> SUFFICES ASSUME IInv, SetBlocks, UNCHANGED <<was, call>> PROVE IInv' OBVIOUS
  <1>1. /\ call.op = "memset" /\ pc = "setBlocks" /\ Typed /\ SetInv
        /\ d % 8 = 0 /\ n % 4 = 0 /\ call.dest <= d /\ d + n <= End /\ Stored(d, d + n - 28)
    BY DEF IInv, SetBlocks, BlocksInv, WordSize
  <1>2. /\ call \in Calls /\ call.dest \in Nat /\ call.n \in Nat /\ End = call.dest + call.n
        /\ call.dest < MemSize /\ End <= MemSize /\ End \in Nat /\ MemSize \in Nat
        /\ call.c \in Byte /\ d \in Nat /\ n \in Nat
    BY <1>1, CallFacts, Basics DEF Typed, End
  <1>3. End' = End /\ call' = call BY DEF End
  <1>4. CASE n >= 32 /\ Fill({0, 8, 16, 24}, 8) /\ d' = d + 32 /\ n' = n - 32 /\ UNCHANGED <<pc, ret, s>>
    <2>1. \A o \in {0, 8, 16, 24} : o \in Nat /\ call.dest <= d + o /\ d + o + 8 <= End
                                    /\ (d + o) % 8 = 0
      <3>1. d % 8 = 0 /\ call.dest <= d /\ d + n <= End /\ n >= 32 BY <1>1, <1>4
      <3> QED BY <1>2, <3>1
    <2>2. 8 \in {1, 4, 8} OBVIOUS
    <2>3. /\ mem' \in [Addr -> Byte] /\ Accesses'
          /\ \A a \in Addr : mem'[a] = was[a] \/ (a \in call.dest .. End - 1 /\ mem'[a] = call.c)
          /\ \A a \in call.dest .. End - 1 : mem[a] = call.c => mem'[a] = call.c
          /\ \A a \in call.dest .. End - 1 :
                (\E o \in {0, 8, 16, 24} : d + o <= a /\ a < d + o + 8) => mem'[a] = call.c
      BY <1>1, <1>2, <1>4, <2>1, <2>2, FillFacts
    <2>4. d' \in 0 .. MemSize /\ n' \in 0 .. call.n /\ d' + n' = d + n /\ call.dest <= d'
          /\ d' % 8 = 0 /\ n' % 4 = 0
      <3>1. d % 8 = 0 /\ n % 4 = 0 BY <1>1
      <3>2. d' % 8 = 0 /\ n' % 4 = 0 BY <1>2, <1>4, <3>1
      <3> QED BY <1>1, <1>2, <1>4, <3>2
    <2>5. Stored(d, d + n - 28)'
      <3>1. \A a \in call.dest .. End - 1 : (a < d' \/ a >= d' + n' - 28) => mem'[a] = call.c
        <4> TAKE a \in call.dest .. End - 1
        <4>1. a < d \/ a >= d + n - 28 => mem[a] = call.c BY <1>1 DEF Stored
        <4>2. a < d' \/ a >= d' + n' - 28 =>
                  \/ a < d \/ a >= d + n - 28
                  \/ \E o \in {0, 8, 16, 24} : d + o <= a /\ a < d + o + 8
          <5>1. d' = d + 32 /\ d' + n' - 28 = d + n - 28 BY <1>2, <1>4
          <5>2. a < d + 32 => \/ a < d
                              \/ d + 0 <= a /\ a < d + 0 + 8
                              \/ d + 8 <= a /\ a < d + 8 + 8
                              \/ d + 16 <= a /\ a < d + 16 + 8
                              \/ d + 24 <= a /\ a < d + 24 + 8
            BY <1>2
          <5> QED BY <5>1, <5>2
        <4> QED BY <2>3, <4>1, <4>2
      <3> QED BY <1>3, <3>1 DEF Stored
    <2>6. Typed' BY <1>1, <1>4, <2>3, <2>4 DEF Typed, Apart
    <2>7. SetInv' BY <1>1, <1>3, <1>4, <2>3 DEF SetInv
    <2>8. BlocksInv' BY <1>1, <1>3, <2>4, <2>5 DEF BlocksInv, WordSize
    <2>9. BytesInv' /\ WordsInv' /\ pc' # "done" /\ pc' # "start"
      BY <1>1, <1>4 DEF BytesInv, WordsInv
    <2> QED BY <1>1, <2>3, <2>6, <2>7, <2>8, <2>9, SetState
  <1>5. CASE n < 32 /\ Return(call.dest) /\ Quiet
    <2>1. mem' = mem /\ d' = d /\ n' = n /\ s' = s /\ pc' = "done" /\ ret' = call.dest
      BY <1>5 DEF Quiet, Return
    <2>2. Accesses' BY <1>5, NoAccess DEF Quiet
    <2>3. Typed' BY <1>1, <1>2, <2>1, Basics DEF Typed, Apart, NoReturn
    <2>4. SetInv' BY <1>1, <1>3, <2>1 DEF SetInv
    <2>5. \A a \in call.dest .. End - 1 : mem'[a] = call.c
      <3> TAKE a \in call.dest .. End - 1
      <3>1. n % 4 = 0 BY <1>1
      <3>2. n <= 28 BY <1>2, <1>5, <3>1
      <3>3. a < d \/ a >= d + n - 28 BY <1>2, <3>2
      <3> QED BY <1>1, <2>1, <3>3 DEF Stored
    <2>6. BytesInv' /\ WordsInv' /\ BlocksInv' /\ pc' # "start"
      BY <2>1 DEF BytesInv, WordsInv, BlocksInv
    <2> QED BY <1>1, <2>1, <2>2, <2>3, <2>4, <2>5, <2>6, SetState
  <1> QED BY <1>4, <1>5 DEF SetBlocks

-----------------------------------------------------------------------------
(* HASZERO finds the zero byte of a word.                                  *)

Divides(x, m, q, r) == x \div m = q /\ x % m = r

LEMMA DivUnique ==
    ASSUME NEW m \in Nat, m > 0, NEW q \in Int, NEW r \in Nat, r < m, NEW x, x = q * m + r
    PROVE  Divides(x, m, q, r)
  BY DEF Divides

LEMMA MulMono ==
    ASSUME NEW a \in Nat, NEW b \in Int, NEW c \in Int, b <= c
    PROVE  a * b \in Int /\ a * c \in Int /\ a * b <= a * c
  OBVIOUS

(* The digit of P is zero, in the base 2 * h: low is below it, rest above. *)
Splits(v, low, P, h, rest) == v = low + P * (2 * h) * rest

(* The high bit of that digit.                                             *)
IsHigh(v, P, h) == (v \div (P * h)) % 2 = 1

(* A digit borrows where the byte is zero and none below it is.            *)
LEMMA BorrowBit ==
    ASSUME NEW h \in Nat, h > 0, NEW P \in Nat, P > 0, NEW low \in Int, -P <= low, low < 0,
           NEW rest \in Int, NEW Q \in Nat, Q > 0,
           NEW v, Splits(v, low, P, h, rest),
           NEW mod, Splits(mod, 0, P, h, Q)
    PROVE  IsHigh(v % mod, P, h)
  <1>1. PICK m, bit : m = P * (2 * h) /\ bit = P * h OBVIOUS
  <1>2. PICK r, t : r = (rest - 1) % Q /\ t = (rest - 1) \div Q OBVIOUS
  <1>3. PICK a : a = low + m OBVIOUS
  <1>4. m \in Nat /\ m > 0 /\ bit \in Nat /\ bit > 0 /\ m = 2 * bit /\ P <= bit
    <2>1. bit \in Nat /\ bit >= P * 1 BY <1>1, MulMono
    <2>2. m = 2 * bit BY <1>1
    <2> QED BY <2>1, <2>2
  <1>5. r \in Nat /\ r < Q /\ t \in Int /\ rest - 1 = t * Q + r BY <1>2
  <1>6. a \in Nat /\ a < m BY <1>3, <1>4
  <1>7. mod = m * Q
    <2>1. mod = 0 + m * Q BY <1>1 DEF Splits
    <2> QED BY <1>4, <2>1
  <1>8. m * r \in Nat /\ m * (r + 1) <= m * Q /\ m * (r + 1) = m * r + m /\ mod \in Nat
    BY <1>4, <1>5, <1>7, MulMono
  <1>9. v = t * mod + (a + m * r)
    <2>1. v = low + m * rest BY <1>1 DEF Splits
    <2>2. m * rest = m * (rest - 1) + m BY <1>4
    <2>3. m * (rest - 1) = m * (t * Q + r) BY <1>5
    <2>4. m * (t * Q + r) = t * (m * Q) + m * r BY <1>4, <1>5
    <2>5. PICK u : u = t * mod OBVIOUS
    <2>6. u \in Int /\ u = t * (m * Q) BY <1>5, <1>7, <1>8, <2>5
    <2>7. m * (rest - 1) = u + m * r BY <2>3, <2>4, <2>6
    <2>8. m * (rest - 1) \in Int BY <1>4
    <2>9. v = low + (u + m * r) + m
      <3>1. PICK y : y = m * (rest - 1) OBVIOUS
      <3> QED BY <1>4, <2>1, <2>2, <2>7, <2>8, <3>1
    <2> QED BY <1>3, <1>4, <1>8, <2>5, <2>6, <2>9
  <1>10. v % mod = a + m * r
    <2>1. a + m * r \in Nat /\ a + m * r < mod /\ mod > 0 BY <1>4, <1>6, <1>7, <1>8
    <2>2. PICK y : y = a + m * r OBVIOUS
    <2>3. Divides(v, mod, t, y) BY <1>5, <1>8, <1>9, <2>1, <2>2, DivUnique
    <2> QED BY <2>2, <2>3 DEF Divides
  <1>11. a + m * r = (1 + 2 * r) * bit + (low + bit)
    <2>1. (1 + 2 * r) * bit = bit + (2 * bit) * r BY <1>4, <1>5
    <2>2. (2 * bit) * r = m * r BY <1>4
    <2> QED BY <1>3, <1>4, <1>8, <2>1, <2>2
  <1>12. (a + m * r) \div bit = 1 + 2 * r
    <2>1. low + bit \in Nat /\ low + bit < bit /\ 1 + 2 * r \in Int BY <1>4, <1>5
    <2>2. PICK y, z : y = low + bit /\ z = 1 + 2 * r OBVIOUS
    <2>3. Divides(a + m * r, bit, z, y) BY <1>4, <1>11, <2>1, <2>2, DivUnique
    <2> QED BY <2>2, <2>3 DEF Divides
  <1>13. (1 + 2 * r) % 2 = 1 BY <1>5
  <1> QED BY <1>1, <1>10, <1>12, <1>13 DEF IsHigh

(* The high bit of a byte of zero is clear.                                *)
LEMMA ClearBit ==
    ASSUME NEW h \in Nat, h > 0, NEW P \in Nat, P > 0, NEW low \in Nat, low < P,
           NEW rest \in Nat, NEW v, Splits(v, low, P, h, rest)
    PROVE  ~IsHigh(v, P, h)
  <1>0. PICK bit : bit = P * h OBVIOUS
  <1>1. bit \in Nat /\ bit >= P BY <1>0, MulMono
  <1>2. v = (2 * rest) * bit + low BY <1>0 DEF Splits
  <1>3. v \div bit = 2 * rest
    <2>1. PICK z : z = 2 * rest OBVIOUS
    <2>2. Divides(v, bit, z, low)
      <3>1. bit > 0 /\ low < bit /\ z \in Int /\ v = z * bit + low BY <1>1, <1>2, <2>1
      <3>2. bit \in Nat BY <1>1
      <3> QED BY <3>1, <3>2, DivUnique
    <2> QED BY <2>1, <2>2 DEF Divides
  <1>4. (2 * rest) % 2 = 0 OBVIOUS
  <1> QED BY <1>0, <1>3, <1>4 DEF IsHigh

LEMMA ZeroByte ==
    ASSUME NEW x \in Four, NEW i \in 1 .. 4, x[i] = 0, \A j \in 1 .. i - 1 : x[j] # 0
    PROVE  HasZero(x)
  <1>1. PICK h : h \in Nat /\ h > 0 /\ Base = 2 * h /\ Base \div 2 = h
    <2>1. Base \in Nat /\ Base % 2 = 0 /\ Base >= 4 BY MemAssumption
    <2>2. Base \div 2 \in Nat /\ Base \div 2 > 0 /\ Base = 2 * (Base \div 2) BY <2>1
    <2> QED BY <2>2
  <1>2. PICK x1, x2, x3, x4 : x1 = x[1] /\ x2 = x[2] /\ x3 = x[3] /\ x4 = x[4] OBVIOUS
  <1>3. /\ x1 \in Nat /\ x1 < Base /\ x2 \in Nat /\ x2 < Base
        /\ x3 \in Nat /\ x3 < Base /\ x4 \in Nat /\ x4 < Base
        /\ Base \in Nat /\ Base > 0
    <2>1. x[1] \in Byte /\ x[2] \in Byte /\ x[3] \in Byte /\ x[4] \in Byte BY DEF Four
    <2> QED BY <1>1, <1>2, <2>1 DEF Byte
  <1>4. PICK B2, B3, B4 : B2 = Base * Base /\ B3 = Base * Base * Base
                          /\ B4 = Base * Base * Base * Base
    OBVIOUS
  <1>5. /\ B2 \in Nat /\ B2 > 0 /\ B3 \in Nat /\ B3 > 0 /\ B4 \in Nat
        /\ B3 = B2 * Base /\ B4 = B2 * B2 /\ B4 = B3 * Base
    <2>1. B2 \in Nat /\ B2 > 0 BY <1>3, <1>4
    <2>2. B3 = B2 * Base BY <1>4
    <2>3. B3 \in Nat /\ B3 > 0 BY <1>3, <2>1, <2>2
    <2>4. B4 = B3 * Base BY <1>4
    <2>5. B4 \in Nat BY <1>3, <2>3, <2>4
    <2>6. B4 = B2 * B2 BY <1>3, <1>4
    <2> QED BY <2>1, <2>2, <2>3, <2>4, <2>5, <2>6
  <1>6. PICK v, less : v = Value(x) /\ less = v - Ones OBVIOUS
  <1>7. v = x1 + Base * x2 + B2 * x3 + B3 * x4
    <2>1. v = x1 + Base * (x2 + Base * (x3 + Base * x4)) BY <1>2, <1>6 DEF Value
    <2> QED BY <1>3, <1>4, <2>1
  <1>8. Ones = 1 + Base + B2 + B3 BY <1>3, <1>4 DEF Ones, Value
  <1>9. Top + 1 = B4
    <2>1. Top = (Base - 1) + Base * ((Base - 1) + Base * ((Base - 1) + Base * (Base - 1)))
      BY DEF Top, Value
    <2> QED BY <1>3, <1>4, <2>1
  <1>10. /\ (<<1, Base, Base * Base, Base * Base * Base>>)[1] = 1
         /\ (<<1, Base, Base * Base, Base * Base * Base>>)[2] = Base
         /\ (<<1, Base, Base * Base, Base * Base * Base>>)[3] = B2
         /\ (<<1, Base, Base * Base, Base * Base * Base>>)[4] = B3
    BY <1>4
  <1>11. Base * x2 \in Nat /\ Base * x2 <= Base * (Base - 1) /\ Base * (Base - 1) = B2 - Base
    BY <1>3, <1>4, MulMono
  <1>12. B2 * x3 \in Nat /\ B2 * x3 <= B2 * (Base - 1) /\ B2 * (Base - 1) = B3 - B2
    BY <1>3, <1>5, MulMono
  <1>13. B3 * x4 \in Nat BY <1>3, <1>5
  <1>14. ASSUME NEW P, P = (<<1, Base, Base * Base, Base * Base * Base>>)[i],
                IsHigh(less % B4, P, h), ~IsHigh(v, P, h)
         PROVE  HasZero(x)
    <2>1. HighBit(less % B4, i) = 1 BY <1>1, <1>14 DEF HighBit, IsHigh
    <2>2. HighBit(v, i) = 0
      <3>1. PICK q : q = v \div (P * h) OBVIOUS
      <3>2. q \in Int
        <4>1. PICK bit : bit = P * h OBVIOUS
        <4>2. P \in Nat /\ P > 0 BY <1>5, <1>3, <1>10, <1>14
        <4>3. bit \in Nat /\ bit > 0 BY <1>1, <4>1, <4>2
        <4>4. v \in Int BY <1>3, <1>5, <1>7, <1>11, <1>12, <1>13
        <4> QED BY <3>1, <4>1, <4>3, <4>4
      <3>3. q % 2 = 0 BY <1>14, <3>1, <3>2 DEF IsHigh
      <3> QED BY <1>1, <1>14, <3>1, <3>3 DEF HighBit
    <2> QED BY <1>6, <1>9, <2>1, <2>2 DEF HasZero, WordSize
  <1>15. less = (x1 - 1) + (Base * x2 - Base) + (B2 * x3 - B2) + (B3 * x4 - B3)
    BY <1>3, <1>5, <1>6, <1>7, <1>8, <1>11, <1>12, <1>13
  <1>16. CASE i = 1
    <2>1. x1 = 0 BY <1>2, <1>16
    <2>2. PICK rest, up : /\ rest = x2 + Base * x3 + B2 * x4
                          /\ up = (x2 - 1) + Base * (x3 - 1) + B2 * (x4 - 1)
      OBVIOUS
    <2>3. rest \in Nat /\ up \in Int BY <1>3, <1>5, <2>2
    <2>4. Splits(v, 0, 1, h, rest) BY <1>1, <1>3, <1>4, <1>7, <2>1, <2>2 DEF Splits
    <2>5. PICK one, low : one = 1 /\ low = -1 OBVIOUS
    <2>6. Splits(less, low, one, h, up) BY <1>1, <1>3, <1>4, <1>15, <2>1, <2>2, <2>5 DEF Splits
    <2>7. Splits(B4, 0, one, h, B3) BY <1>1, <1>3, <1>5, <2>5 DEF Splits
    <2>8. ~IsHigh(v, 1, h) BY <1>1, <2>3, <2>4, ClearBit
    <2>9. IsHigh(less % B4, one, h)
      <3>1. one \in Nat /\ one > 0 /\ low \in Int /\ -one <= low /\ low < 0 BY <2>5
      <3> QED BY <1>1, <1>5, <2>3, <2>6, <2>7, <3>1, BorrowBit
    <2> QED BY <1>10, <1>14, <1>16, <2>5, <2>8, <2>9
  <1>17. CASE i = 2
    <2>1. x2 = 0 /\ x1 # 0 BY <1>2, <1>17
    <2>2. PICK rest, up : rest = x3 + Base * x4 /\ up = (x3 - 1) + Base * (x4 - 1) OBVIOUS
    <2>3. rest \in Nat /\ up \in Int BY <1>3, <2>2
    <2>4. Splits(v, x1, Base, h, rest) BY <1>1, <1>3, <1>4, <1>7, <2>1, <2>2 DEF Splits
    <2>5. PICK low : low = x1 - 1 - Base OBVIOUS
    <2>6. low \in Int /\ -Base <= low /\ low < 0 BY <1>3, <2>1, <2>5
    <2>7. Splits(less, low, Base, h, up) BY <1>1, <1>3, <1>4, <1>15, <2>1, <2>2, <2>5 DEF Splits
    <2>8. Splits(B4, 0, Base, h, B2) BY <1>1, <1>3, <1>4, <1>5 DEF Splits
    <2>10. ~IsHigh(v, Base, h) BY <1>1, <1>3, <2>3, <2>4, ClearBit
    <2>11. IsHigh(less % B4, Base, h)
      BY <1>1, <1>3, <1>5, <2>3, <2>6, <2>7, <2>8, BorrowBit
    <2> QED BY <1>10, <1>14, <1>17, <2>10, <2>11
  <1>18. CASE i = 3
    <2>1. x3 = 0 /\ x1 # 0 /\ x2 # 0 BY <1>2, <1>18
    <2>2. PICK rest, up : rest = x4 /\ up = x4 - 1 OBVIOUS
    <2>3. rest \in Nat /\ up \in Int BY <1>3, <2>2
    <2>4. PICK base : base = x1 + Base * x2 OBVIOUS
    <2>5. base \in Nat /\ base < B2 BY <1>3, <1>5, <1>11, <2>4
    <2>6. Splits(v, base, B2, h, rest)
      <3>1. B3 * x4 = B2 * (2 * h) * rest BY <1>1, <1>3, <1>5, <2>2
      <3>2. B2 * x3 = 0 BY <1>5, <2>1
      <3> QED BY <1>3, <1>5, <1>7, <1>11, <1>13, <2>4, <3>1, <3>2 DEF Splits
    <2>7. PICK low : low = (x1 - 1) + (Base * x2 - Base) - B2 OBVIOUS
    <2>8. low \in Int /\ -B2 <= low /\ low < 0
      <3>1. Base * x2 >= Base * 1 /\ Base * 1 = Base BY <1>3, <2>1, MulMono
      <3> QED BY <1>3, <1>5, <1>11, <2>1, <2>7, <3>1
    <2>9. Splits(less, low, B2, h, up)
      <3>1. B3 * x4 - B3 = B2 * (2 * h) * up
        <4>1. B2 * (2 * h) = B3 BY <1>1, <1>3, <1>5
        <4>2. B3 * x4 - B3 = B3 * (x4 - 1) BY <1>3, <1>5
        <4> QED BY <2>2, <4>1, <4>2
      <3>2. B2 * x3 = 0 BY <1>5, <2>1
      <3> QED BY <1>3, <1>5, <1>11, <1>13, <1>15, <2>7, <3>1, <3>2 DEF Splits
    <2>10. Splits(B4, 0, B2, h, Base) BY <1>1, <1>3, <1>5 DEF Splits
    <2>12. ~IsHigh(v, B2, h) BY <1>1, <1>5, <2>3, <2>5, <2>6, ClearBit
    <2>13. IsHigh(less % B4, B2, h)
      BY <1>1, <1>3, <1>5, <2>3, <2>8, <2>9, <2>10, BorrowBit
    <2> QED BY <1>10, <1>14, <1>18, <2>12, <2>13
  <1>19. CASE i = 4
    <2>1. x4 = 0 /\ x1 # 0 /\ x2 # 0 /\ x3 # 0 BY <1>2, <1>19
    <2>2. PICK base : base = x1 + Base * x2 + B2 * x3 OBVIOUS
    <2>3. base \in Nat /\ base < B3 BY <1>3, <1>5, <1>11, <1>12, <2>2
    <2>4. Splits(v, base, B3, h, 0)
      <3>1. B3 * x4 = 0 /\ B3 * (2 * h) * 0 = 0 BY <1>1, <1>5, <2>1
      <3> QED BY <1>3, <1>5, <1>7, <1>11, <1>12, <2>2, <2>3, <3>1 DEF Splits
    <2>5. PICK low : low = (x1 - 1) + (Base * x2 - Base) + (B2 * x3 - B2) - B3 OBVIOUS
    <2>6. low \in Int /\ -B3 <= low /\ low < 0
      <3>1. Base * x2 >= Base * 1 /\ Base * 1 = Base BY <1>3, <2>1, MulMono
      <3>2. B2 * x3 >= B2 * 1 /\ B2 * 1 = B2 BY <1>3, <1>5, <2>1, MulMono
      <3> QED BY <1>3, <1>5, <1>11, <1>12, <2>1, <2>5, <3>1, <3>2
    <2>7. PICK zero, one : zero = 0 /\ one = 1 OBVIOUS
    <2>8. Splits(less, low, B3, h, zero)
      <3>1. B3 * x4 = 0 /\ B3 * (2 * h) * 0 = 0 BY <1>1, <1>5, <2>1
      <3> QED BY <1>3, <1>5, <1>11, <1>12, <1>15, <2>5, <2>6, <2>7, <3>1 DEF Splits
    <2>9. Splits(B4, 0, B3, h, one) BY <1>1, <1>3, <1>5, <2>7 DEF Splits
    <2>10. ~IsHigh(v, B3, h) BY <1>1, <1>5, <2>3, <2>4, ClearBit
    <2>11. IsHigh(less % B4, B3, h)
      <3>1. zero \in Int /\ one \in Nat /\ one > 0 BY <2>7
      <3> QED BY <1>1, <1>5, <2>6, <2>8, <2>9, <3>1, BorrowBit
    <2> QED BY <1>10, <1>14, <1>19, <2>10, <2>11
  <1> QED BY <1>16, <1>17, <1>18, <1>19

-----------------------------------------------------------------------------
(* memcmp and strlen, which only read.                                     *)

LEMMA ReadState ==
    ASSUME call.op \in {"memcmp", "strlen"}, UNCHANGED <<was, call>>, Typed', Accesses',
           pc' \in {"start", "words", "string", "done"},
           pc' \in {"words", "string"} => call.op = "strlen",
           CmpInv', LenInv', ExactResult'
    PROVE  IInv'
  <1>1. call'.op \in {"memcmp", "strlen"} OBVIOUS
  <1>2. /\ Labels' /\ AtStart' /\ UpInv' /\ ShiftInv' /\ TailInv' /\ DownInv'
        /\ SetInv' /\ BytesInv' /\ WordsInv' /\ BlocksInv'
    BY <1>1 DEF Labels, AtStart, UpInv, ShiftInv, TailInv, DownInv, SetInv, BytesInv, WordsInv,
                BlocksInv
  <1> QED BY <1>2 DEF IInv

LEMMA ByteDifference ==
    ASSUME NEW x \in Byte, NEW y \in Byte
    PROVE  x - y \in -Base .. NoReturn /\ x - y # NoReturn
  BY Basics DEF Byte, NoReturn

(* The two bytes memcmp compares.                                          *)
LEMMA CompareAccesses ==
    ASSUME call \in Calls, call.op = "memcmp", UNCHANGED <<was, call>>,
           d \in Nat, s \in Nat, call.dest <= d, d + 1 <= call.dest + call.n,
           call.src <= s, s + 1 <= call.src + call.n,
           access' \subseteq Units("read", d, 1, 1) \cup Units("read", s, 1, 1)
    PROVE  Accesses'
  <1>1. ASSUME NEW x \in access'
        PROVE  x.addr % x.width = 0 /\ x.kind = "read"
               /\ (Within(x, call.src, call.n) \/ Within(x, call.dest, call.n))
    <2>0. call.dest \in Nat /\ call.src \in Nat /\ call.n \in Nat BY CallFacts
    <2>1. d % 1 = 0 /\ s % 1 = 0 OBVIOUS
    <2>2. CASE x \in Units("read", d, 1, 1)
      <3>1. Among(x, "read", d, 1) BY <2>1, <2>2, UnitsFacts
      <3> QED BY <2>0, <3>1 DEF Among, Within
    <2>3. CASE x \in Units("read", s, 1, 1)
      <3>1. Among(x, "read", s, 1) BY <2>1, <2>3, UnitsFacts
      <3> QED BY <2>0, <3>1 DEF Among, Within
    <2> QED BY <1>1, <2>2, <2>3
  <1> QED BY <1>1 DEF Accesses, WithinOperands, Within

LEMMA MemcmpKeeps == IInv /\ Memcmp /\ UNCHANGED <<was, call>> => IInv'
  <1> SUFFICES ASSUME IInv, Memcmp, UNCHANGED <<was, call>> PROVE IInv' OBVIOUS
  <1>1. PICK j : j = call.n - n OBVIOUS
  <1>2. /\ call.op = "memcmp" /\ pc = "start" /\ Typed /\ mem = was
        /\ d = call.dest + j /\ s = call.src + j
        /\ \A i \in 0 .. j - 1 : was[call.dest + i] = was[call.src + i]
    BY <1>1 DEF IInv, Memcmp, CmpInv
  <1>3. /\ call \in Calls /\ was \in [Addr -> Byte]
        /\ call.dest \in Nat /\ call.src \in Nat /\ call.n \in Nat
        /\ call.dest + call.n <= MemSize /\ call.src + call.n <= MemSize /\ MemSize \in Nat
        /\ n \in Nat /\ n <= call.n /\ d \in Nat /\ s \in Nat /\ j \in Nat /\ j <= call.n
    BY <1>1, <1>2, CallFacts, Basics DEF Typed
  <1>4. mem' = mem BY DEF Memcmp
  <1>5. n # 0 => /\ j < call.n /\ j \in 0 .. call.n - 1 /\ d \in Addr /\ s \in Addr
                 /\ d + 1 <= call.dest + call.n /\ s + 1 <= call.src + call.n
    <2>1. n # 0 => j < call.n /\ j \in 0 .. call.n - 1 BY <1>1, <1>3
    <2>2. d = call.dest + j /\ s = call.src + j BY <1>2
    <2>3. n # 0 => d + 1 <= call.dest + call.n /\ s + 1 <= call.src + call.n
      BY <1>3, <2>1, <2>2
    <2>4. n # 0 => d < MemSize /\ s < MemSize
      BY <1>3, <2>3
    <2>5. n # 0 => d \in Addr /\ s \in Addr
      BY <1>3, <2>4 DEF Addr
    <2> QED BY <2>1, <2>3, <2>5
  <1>6. Accesses'
    <2>1. CASE n = 0 BY <2>1, NoAccess DEF Memcmp
    <2>2. CASE n # 0
      <3>1. access' = Units("read", d, 1, 1) \cup Units("read", s, 1, 1) BY <2>2 DEF Memcmp
      <3>2. call.dest <= d /\ call.src <= s BY <1>2, <1>3
      <3> QED BY <1>2, <1>3, <1>5, <2>2, <3>1, <3>2, CompareAccesses
    <2> QED BY <2>1, <2>2
  <1>7. LenInv' BY <1>2 DEF LenInv
  <1>8. CASE /\ n # 0 /\ mem[d] = mem[s]
             /\ d' = d + 1 /\ s' = s + 1 /\ n' = n - 1 /\ UNCHANGED <<pc, ret>>
    <2>1. /\ call.n - n' = j + 1 /\ d' = call.dest + (j + 1) /\ s' = call.src + (j + 1)
          /\ d' \in 0 .. MemSize /\ s' \in 0 .. MemSize /\ n' \in 0 .. call.n
      BY <1>1, <1>2, <1>3, <1>5, <1>8
    <2>2. Typed' BY <1>2, <1>4, <1>8, <2>1 DEF Typed, Apart
    <2>3. \A i \in 0 .. (j + 1) - 1 : was[call.dest + i] = was[call.src + i]
      <3> TAKE i \in 0 .. (j + 1) - 1
      <3>1. i \in 0 .. j - 1 \/ i = j BY <1>3
      <3> QED BY <1>2, <1>8, <3>1
    <2>4. CmpInv' BY <1>2, <1>4, <1>8, <2>1, <2>3 DEF CmpInv
    <2>5. ExactResult' BY <1>2, <1>8 DEF ExactResult
    <2> QED BY <1>2, <1>6, <1>7, <1>8, <2>2, <2>4, <2>5, ReadState
  <1>9. CASE n # 0 /\ mem[d] # mem[s] /\ Return(mem[d] - mem[s]) /\ UNCHANGED <<d, s, n>>
    <2>1. pc' = "done" /\ ret' = was[call.dest + j] - was[call.src + j]
      BY <1>2, <1>9 DEF Return
    <2>2. mem[d] \in Byte /\ mem[s] \in Byte BY <1>2, <1>3, <1>5, <1>9
    <2>3. ret' \in -Base .. NoReturn /\ ret' # NoReturn
      BY <1>9, <2>2, ByteDifference DEF Return
    <2>4. Typed' BY <1>2, <1>4, <1>9, <2>1, <2>3 DEF Typed, Apart
    <2>5. CmpInv' BY <1>2, <1>4, <2>1 DEF CmpInv
    <2>6. ExactResult'
      <3> DEFINE differ == {i \in 0 .. call.n - 1 : was[call.dest + i] # was[call.src + i]}
      <3>1. j \in differ BY <1>2, <1>5, <1>9
      <3>2. \A i \in differ : j <= i BY <1>2, <1>3
      <3>3. IsComparison(ret')
        <4>1. differ # {} BY <3>1
        <4>2. \E i \in differ : /\ \A k \in differ : i <= k
                                /\ ret' = was[call.dest + i] - was[call.src + i]
          BY <2>1, <3>1, <3>2
        <4> HIDE DEF differ
        <4>3. IF differ = {} THEN ret' = 0
              ELSE \E i \in differ : /\ \A k \in differ : i <= k
                                     /\ ret' = was[call.dest + i] - was[call.src + i]
          BY <4>1, <4>2
        <4> QED BY <4>3 DEF IsComparison, differ
      <3>4. PromisedReturn(ret)' BY <1>2, <3>3 DEF PromisedReturn, IsComparison
      <3>5. mem' = PromisedMemory' BY <1>2, <1>4 DEF PromisedMemory
      <3> QED BY <3>4, <3>5 DEF ExactResult
    <2> QED BY <1>2, <1>6, <1>7, <2>1, <2>4, <2>5, <2>6, ReadState
  <1>10. CASE n = 0 /\ Return(0) /\ UNCHANGED <<d, s, n>>
    <2>1. pc' = "done" /\ ret' = 0 BY <1>10 DEF Return
    <2>2. Typed' BY <1>2, <1>4, <1>10, <2>1, Basics DEF Typed, Apart, NoReturn
    <2>3. CmpInv' BY <1>2, <1>4, <2>1 DEF CmpInv
    <2>4. ExactResult'
      <3>1. {i \in 0 .. call.n - 1 : was[call.dest + i] # was[call.src + i]} = {}
        BY <1>1, <1>2, <1>3, <1>10
      <3>2. IsComparison(0) BY <3>1 DEF IsComparison
      <3>3. PromisedReturn(ret)' BY <1>2, <2>1, <3>2 DEF PromisedReturn, IsComparison
      <3>4. mem' = PromisedMemory' BY <1>2, <1>4 DEF PromisedMemory
      <3> QED BY <3>3, <3>4 DEF ExactResult
    <2> QED BY <1>2, <1>6, <1>7, <2>1, <2>2, <2>3, <2>4, ReadState
  <1> QED BY <1>8, <1>9, <1>10 DEF Memcmp

(* A read of strlen: of a byte, or of the aligned word.                    *)
LEMMA StringAccesses ==
    ASSUME call.op = "strlen", UNCHANGED <<was, call>>, call \in Calls,
           NEW width \in {1, 4}, s \in Nat, s % width = 0, call.src <= s,
           \A a \in call.src .. s - 1 : was[a] # 0,
           access' = Units("read", s, width, width)
    PROVE  Accesses'
  <1>1. ASSUME NEW x \in access'
        PROVE  /\ x.addr % x.width = 0 /\ x.kind = "read" /\ call.src <= x.addr
               /\ \A a \in call.src .. x.addr + x.width - 1 :
                     a < x.addr - (x.addr % WordSize) => was[a] # 0
    <2>0. call.src \in Nat BY CallFacts
    <2>1. width \in {1, 4, 8} /\ width \in Nat OBVIOUS
    <2>2. Among(x, "read", s, width) BY <1>1, <2>1, UnitsFacts
    <2>3. x.addr \in Nat /\ s <= x.addr /\ x.addr + x.width <= s + width /\ x.width \in Nat
      BY <2>2 DEF Among
    <2>4. x.addr - (x.addr % 4) <= s
      <3>1. CASE width = 1
        <4>1. x.width > 0
          <5>1. \A y \in Units("read", s, width, width) : y.width = width BY DEF Units
          <5> QED BY <1>1, <2>1, <3>1, <5>1
        <4>2. x.addr = s BY <2>3, <3>1, <4>1
        <4> QED BY <4>2
      <3>2. CASE width = 4
        <4>1. \A y \in Units("read", s, width, width) : y.width = width BY DEF Units
        <4>2. x.addr = s BY <1>1, <2>3, <3>2, <4>1
        <4> QED BY <4>2
      <3> QED BY <3>1, <3>2
    <2>5. \A a \in call.src .. x.addr + x.width - 1 : a < x.addr - (x.addr % 4) => a \in call.src .. s - 1
      BY <2>0, <2>3, <2>4
    <2> QED BY <2>0, <2>2, <2>3, <2>5 DEF Among, WordSize
  <1> QED BY <1>1 DEF Accesses, WithinOperands

(* No byte of a word without a zero byte is zero.                          *)
LEMMA NoZeroByte ==
    ASSUME NEW x \in Four, ~HasZero(x)
    PROVE  \A i \in 1 .. 4 : x[i] # 0
  <1>1. x[1] # 0
    <2>1. \A j \in 1 .. 1 - 1 : x[j] # 0 OBVIOUS
    <2> QED BY <2>1, ZeroByte
  <1>2. x[2] # 0
    <2>1. \A j \in 1 .. 2 - 1 : x[j] # 0 BY <1>1
    <2> QED BY <2>1, ZeroByte
  <1>3. x[3] # 0
    <2>1. \A j \in 1 .. 3 - 1 : x[j] # 0 BY <1>1, <1>2
    <2> QED BY <2>1, ZeroByte
  <1>4. x[4] # 0
    <2>1. \A j \in 1 .. 4 - 1 : x[j] # 0 BY <1>1, <1>2, <1>3
    <2> QED BY <2>1, ZeroByte
  <1> QED BY <1>1, <1>2, <1>3, <1>4

LEMMA StrlenKeeps == IInv /\ Strlen /\ UNCHANGED <<was, call>> => IInv'
  <1> SUFFICES ASSUME IInv, Strlen, UNCHANGED <<was, call>> PROVE IInv' OBVIOUS
  <1>1. /\ call.op = "strlen" /\ pc \in {"start", "words", "string"} /\ Typed /\ mem = was
        /\ call.src <= s /\ s < MemSize /\ \A a \in call.src .. s - 1 : was[a] # 0
        /\ pc = "words" => s % 4 = 0
    BY DEF IInv, Strlen, AlignString, SkipWords, FindEnd, LenInv, Labels, WordSize
  <1>2. PICK z \in call.src .. MemSize - 1 : was[z] = 0 BY <1>1 DEF IInv, LenInv
  <1>3. /\ call \in Calls /\ was \in [Addr -> Byte] /\ call.src \in Nat /\ MemSize \in Nat
        /\ MemSize % 8 = 0 /\ s \in Nat /\ z \in Nat /\ s <= z /\ z < MemSize /\ s \in Addr
    <2>1. /\ call \in Calls /\ was \in [Addr -> Byte] /\ call.src \in Nat /\ MemSize \in Nat
          /\ MemSize % 8 = 0 /\ s \in Nat
      BY <1>1, CallFacts, Basics DEF Typed
    <2>2. z \in Nat /\ z < MemSize /\ call.src <= z BY <2>1
    <2>3. z \notin call.src .. s - 1 BY <1>1, <1>2
    <2>4. s <= z BY <2>1, <2>2, <2>3
    <2> QED BY <1>1, <2>1, <2>2, <2>4 DEF Addr
  <1>4. mem' = mem /\ d' = d /\ n' = n BY DEF Strlen, AlignString, SkipWords, FindEnd
  <1>5. CmpInv' BY <1>1 DEF CmpInv
  <1>6. Accesses'
    <2>1. CASE access' = {} BY <2>1, NoAccess
    <2>2. CASE access' = Units("read", s, 1, 1)
      <3>1. s % 1 = 0 BY <1>3
      <3> QED BY <1>1, <1>3, <2>2, <3>1, StringAccesses
    <2>3. CASE pc = "words" /\ access' = Units("read", s, 4, 4)
      BY <1>1, <1>3, <2>3, StringAccesses
    <2> QED BY <2>1, <2>2, <2>3 DEF Strlen, AlignString, SkipWords, FindEnd, ReadByte, WordSize
  (* The bytes passed are not the terminator.                              *)
  <1>7. ASSUME NEW k \in {0, 1, 4}, s' = s + k, \A a \in s .. s + k - 1 : was[a] # 0,
               k = 4 => s % 4 = 0, ret' = ret, pc' \in {"start", "words", "string"},
               pc' = "words" => s' % 4 = 0
        PROVE  IInv'
    <2>1. \A a \in call.src .. s' - 1 : was[a] # 0
      <3> TAKE a \in call.src .. s' - 1
      <3>1. a \in call.src .. s - 1 \/ a \in s .. s + k - 1 BY <1>3, <1>7
      <3> QED BY <1>1, <1>7, <3>1
    <2>2. s' <= z
      <3>1. z \notin s .. s + k - 1 BY <1>2, <1>7
      <3> QED BY <1>3, <1>7, <3>1
    <2>3. LenInv' BY <1>1, <1>2, <1>3, <1>4, <1>7, <2>1, <2>2 DEF LenInv, WordSize
    <2>4. Typed' BY <1>1, <1>3, <1>4, <1>7, <2>2 DEF Typed, Apart
    <2>5. ExactResult' BY <1>7 DEF ExactResult
    <2> QED BY <1>1, <1>5, <1>6, <1>7, <2>3, <2>4, <2>5, ReadState
  <1>8. ASSUME mem[s] = 0, Return(s - call.src), s' = s PROVE IInv'
    <2>1. pc' = "done" /\ ret' = s - call.src BY <1>8 DEF Return
    <2>2. ret' \in Nat /\ ret' < MemSize BY <1>1, <1>3, <2>1
    <2>3. Typed' BY <1>1, <1>3, <1>4, <1>8, <2>1, <2>2, Basics DEF Typed, Apart, NoReturn
    <2>4. LenInv' BY <1>1, <1>2, <1>3, <1>4, <1>8, <2>1 DEF LenInv
    <2>5. IsLength(ret')
      <3>1. call.src + ret' = s BY <1>1, <1>3, <2>1
      <3>2. PICK len, src : len = ret' /\ src = call.src OBVIOUS
      <3>3. len \in Nat /\ src \in Nat /\ src + len = s BY <1>3, <2>2, <3>1, <3>2
      <3>4. \A i \in 0 .. len - 1 : src + i \in src .. s - 1 BY <3>3
      <3> QED BY <1>1, <1>8, <3>1, <3>2, <3>4 DEF IsLength
    <2>6. ExactResult'
      <3>1. PromisedReturn(ret)' BY <1>1, <2>5 DEF PromisedReturn, IsLength
      <3>2. mem' = PromisedMemory' BY <1>1, <1>4 DEF PromisedMemory
      <3> QED BY <3>1, <3>2 DEF ExactResult
    <2> QED BY <1>1, <1>5, <1>6, <2>1, <2>3, <2>4, <2>6, ReadState
  <1>9. \A k \in {0, 1} : k = 0 \/ mem[s] # 0 => \A a \in s .. s + k - 1 : was[a] # 0
    BY <1>1, <1>3
  <1>10. CASE AlignString
    <2>1. CASE mem[s] = 0 /\ Return(s - call.src) /\ UNCHANGED s BY <1>8, <2>1
    <2>2. CASE mem[s] # 0 /\ s' = s + 1 /\ UNCHANGED <<pc, ret>>
      <3>1. pc' = "start" BY <1>10, <2>2 DEF AlignString
      <3>2. \A a \in s .. s + 1 - 1 : was[a] # 0 BY <1>9, <2>2
      <3> QED BY <1>7, <2>2, <3>1, <3>2
    <2>3. CASE s % WordSize = 0 /\ Goto("words") /\ UNCHANGED s
      <3>1. s' = s + 0 /\ ret' = ret /\ pc' = "words" /\ s' % 4 = 0
        BY <1>3, <2>3 DEF Goto, WordSize
      <3>2. \A a \in s .. s + 0 - 1 : was[a] # 0 BY <1>9
      <3> QED BY <1>7, <3>1, <3>2
    <2> QED BY <1>10, <2>1, <2>2, <2>3 DEF AlignString
  <1>11. CASE SkipWords
    <2>1. pc = "words" /\ s % 4 = 0 BY <1>1, <1>11 DEF SkipWords
    <2>2. CASE ~HasZero(Word(s)) /\ s' = s + WordSize /\ UNCHANGED <<pc, ret>>
      <3>1. s + 3 < MemSize BY <1>3, <2>1
      <3>2. Word(s) = [i \in 1 .. 4 |-> was[s + i - 1]] BY <1>1 DEF Word, WordSize
      <3>3. \A i \in 1 .. 4 : s + i - 1 \in Addr BY <1>3, <3>1 DEF Addr
      <3>4. Word(s) \in Four BY <1>3, <3>2, <3>3 DEF Four
      <3>5. PICK x : x = Word(s) OBVIOUS
      <3>6. \A i \in 1 .. 4 : x[i] # 0 BY <2>2, <3>4, <3>5, NoZeroByte
      <3>7. \A a \in s .. s + 4 - 1 : was[a] # 0
        <4> TAKE a \in s .. s + 4 - 1
        <4>1. a - s + 1 \in 1 .. 4 /\ s + (a - s + 1) - 1 = a BY <1>3
        <4> QED BY <3>2, <3>5, <3>6, <4>1
      <3>8. s' = s + 4 /\ s' % 4 = 0 BY <1>3, <2>1, <2>2 DEF WordSize
      <3> QED BY <1>7, <2>1, <2>2, <3>7, <3>8
    <2>3. CASE Goto("string") /\ UNCHANGED s
      <3>1. s' = s + 0 /\ ret' = ret /\ pc' = "string" BY <1>3, <2>3 DEF Goto
      <3>2. \A a \in s .. s + 0 - 1 : was[a] # 0 BY <1>9
      <3> QED BY <1>7, <3>1, <3>2
    <2> QED BY <1>11, <2>2, <2>3 DEF SkipWords
  <1>12. CASE FindEnd
    <2>1. CASE mem[s] = 0 /\ Return(s - call.src) /\ UNCHANGED s BY <1>8, <2>1
    <2>2. CASE mem[s] # 0 /\ s' = s + 1 /\ UNCHANGED <<pc, ret>>
      <3>1. pc' = "string" BY <1>12, <2>2 DEF FindEnd
      <3>2. \A a \in s .. s + 1 - 1 : was[a] # 0 BY <1>9, <2>2
      <3> QED BY <1>7, <2>2, <3>1, <3>2
    <2> QED BY <1>12, <2>1, <2>2 DEF FindEnd
  <1> QED BY <1>10, <1>11, <1>12 DEF Strlen

-----------------------------------------------------------------------------
(* The invariant.                                                          *)

LEMMA InitKeeps == Init => IInv
  <1> SUFFICES ASSUME Init PROVE IInv OBVIOUS
  <1>1. call \in Calls /\ mem \in Contents[call.op] /\ was = mem BY DEF Init
  <1>2. /\ call.dest \in Nat /\ call.src \in Nat /\ call.n \in Nat
        /\ call.dest < MemSize /\ call.src < MemSize /\ MemSize \in Nat
        /\ Base \in Nat
        /\ call.op = "memcpy" => Apart
        /\ call.op \in {"memcpy", "memmove", "memset", "memcmp", "strlen"}
    BY <1>1, CallFacts, Basics
  <1>3. mem \in [Addr -> Byte]
    <2>1. Contents[call.op] \in SUBSET [Addr -> Byte] BY <1>1, MemAssumption
    <2> QED BY <1>1, <2>1
  <1>4. /\ pc = "start" /\ d = call.dest /\ s = call.src /\ n = call.n
        /\ ret = NoReturn /\ access = {}
    BY DEF Init
  <1>5. Typed BY <1>1, <1>2, <1>3, <1>4 DEF Typed, NoReturn
  <1>6. Labels /\ AtStart BY <1>1, <1>4 DEF Labels, AtStart
  <1>7. /\ UpInv /\ ShiftInv /\ TailInv /\ DownInv /\ BytesInv /\ WordsInv /\ BlocksInv
        /\ ExactResult
    BY <1>4 DEF UpInv, ShiftInv, TailInv, DownInv, BytesInv, WordsInv, BlocksInv, ExactResult
  <1>8. SetInv BY <1>1, <1>4 DEF SetInv
  <1>9. CmpInv BY <1>1, <1>2, <1>4 DEF CmpInv
  <1>10. LenInv
    <2>1. SUFFICES ASSUME call.op = "strlen" PROVE LenInv BY DEF LenInv
    <2>2. \E a \in call.src .. MemSize - 1 : was[a] = 0
      BY <1>1, <2>1, StringAssumption
    <2> QED BY <1>1, <1>2, <1>4, <2>2 DEF LenInv
  <1>11. Accesses BY <1>4 DEF Accesses, WithinOperands
  <1> QED BY <1>5, <1>6, <1>7, <1>8, <1>9, <1>10, <1>11 DEF IInv

LEMMA StutterKeeps == IInv /\ UNCHANGED vars => IInv'
  <1> SUFFICES ASSUME IInv, UNCHANGED vars PROVE IInv' OBVIOUS
  <1>1. UNCHANGED <<mem, was, call, pc, d, s, n, w, stage, ret, access>> BY DEF vars
  <1>2. Typed' /\ Labels' /\ AtStart' /\ UpInv'
    BY <1>1 DEF IInv, Typed, Labels, AtStart, UpInv, Moved, Apart, IsCopy, SameOffset
  <1>3. ShiftInv' /\ TailInv' /\ DownInv'
    BY <1>1 DEF IInv, ShiftInv, TailInv, DownInv, Moved, Apart, IsCopy, SameOffset
  <1>4. SetInv' /\ BytesInv' /\ WordsInv' /\ BlocksInv'
    BY <1>1 DEF IInv, SetInv, BytesInv, WordsInv, BlocksInv, Stored, End
  <1>5. CmpInv' /\ LenInv' BY <1>1 DEF IInv, CmpInv, LenInv
  <1>6. Accesses' BY <1>1 DEF IInv, Accesses, WithinOperands, Within
  <1>7. ExactResult'
    BY <1>1 DEF IInv, ExactResult, PromisedMemory, PromisedReturn, IsLength, IsComparison
  <1> QED BY <1>2, <1>3, <1>4, <1>5, <1>6, <1>7 DEF IInv

LEMMA NextKeeps == IInv /\ [Next]_vars => IInv'
  <1> SUFFICES ASSUME IInv, [Next]_vars PROVE IInv' OBVIOUS
  <1>1. CASE UNCHANGED vars BY <1>1, StutterKeeps
  <1>2. CASE Next
    <2>1. UNCHANGED <<was, call>> BY <1>2 DEF Next
    <2>2. CASE Bulk BY <2>1, <2>2, BulkCopyKeeps, BulkSetKeeps
    <2>3. CASE Memcpy
      BY <2>1, <2>3, StartCopyKeeps, AlignSourceKeeps, ChoosePlainKeeps, ChooseShiftKeeps,
         CopyBlocksKeeps, ShiftBlocksKeeps, CopyTailKeeps DEF Memcpy
    <2>4. CASE Memmove
      BY <2>1, <2>4, StartMoveKeeps, AlignUpKeeps, WordsUpKeeps, BytesUpKeeps, MoveDownKeeps
         DEF Memmove
    <2>5. CASE Memset
      BY <2>1, <2>5, StartSetKeeps, SetBytesKeeps, SetWordsKeeps, SetBlocksKeeps DEF Memset
    <2>6. CASE Memcmp BY <2>1, <2>6, MemcmpKeeps
    <2>7. CASE Strlen BY <2>1, <2>7, StrlenKeeps
    <2> QED BY <1>2, <2>2, <2>3, <2>4, <2>5, <2>6, <2>7 DEF Next
  <1> QED BY <1>1, <1>2

LEMMA Invariance == Spec => []IInv
  BY InitKeeps, NextKeeps, PTL DEF Spec

-----------------------------------------------------------------------------
(* What a call returns and leaves in memory is what the C standard         *)
(* promises, for operands of any length, alignment and overlap: the loops  *)
(* of words, the shifted words of memcpy, the two directions of memmove,   *)
(* the overlapping stores of memset, the first difference of memcmp and    *)
(* the words in which strlen looks for the terminator all do what a loop   *)
(* over single bytes would do.                                             *)
THEOREM ResultsExact == Spec => []ExactResult
  <1>1. IInv => ExactResult BY DEF IInv
  <1> QED BY <1>1, Invariance, PTL

(* No access of memcpy, memmove, memset or memcmp is outside the operands, *)
(* and none of strlen beyond the aligned word of the terminator; every     *)
(* word is accessed at a multiple of its size.                             *)
THEOREM AccessesInBounds == Spec => []InBounds
  <1>1. IInv => InBounds
    BY DEF IInv, Typed, Accesses, InBounds, TypeOK
  <1> QED BY <1>1, Invariance, PTL
=============================================================================
