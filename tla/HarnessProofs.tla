--------------------------- MODULE HarnessProofs ----------------------------
(***************************************************************************)
(* Proofs about Harness for every registry, log, set of messages, number   *)
(* of linked tests and length of test bodies.                              *)
(***************************************************************************)
EXTENDS Harness, FiniteSetTheorems, SequenceTheorems, TLAPS

-----------------------------------------------------------------------------
(* The inductive invariant. i - 1 tests are over, each with its verdict.   *)

Names == 1 .. MaxLinked
Bytes == (Kinds \cup {"note", "NUL"}) \X Nat

Typed ==
    /\ linked \in 0 .. MaxLinked
    /\ tests \in Seq(Names) /\ Len(tests) <= MaxTests
    /\ pc \in {"load", "loop", "body", "verdict", "buffer", "size", "exited"}
    /\ i \in Nat \ {0} /\ depth \in 0 .. 1 /\ steps \in 0 .. MaxSteps
    /\ failures \in Nat /\ failures <= steps
    /\ passed \in Nat /\ failed \in Nat
    /\ total \in {Unreported} \cup 0 .. MaxTests /\ exit \in {NoExit, 0, 1}
    /\ ran \in Seq(Names)

(* The registry never shrinks, so that what was run stays its beginning.   *)
Progress ==
    /\ passed + failed = i - 1 /\ i - 1 <= Len(tests)
    /\ pc \in {"body", "verdict"} => i <= Len(tests)
    /\ Len(ran) = i - 1
    /\ \A k \in 1 .. i - 1 : ran[k] = tests[k]
    /\ pc \notin {"load", "exited"} => Len(tests) >= Lesser(linked, MaxTests)
    /\ pc = "load" => tests = <<>> /\ i = 1

(* The counter speaks for the test that runs, broken for all of them.      *)
Verdicts ==
    /\ broken \subseteq 1 .. i /\ broken \subseteq 1 .. Len(tests)
    /\ pc \in {"load", "loop", "buffer", "size"} => i \notin broken
    /\ pc \in {"body", "verdict"} => (i \in broken <=> failures # 0)
    /\ failed = Cardinality(broken \ {i})

Reports ==
    /\ pc \in {"load", "loop", "body", "verdict"} => total = Unreported
    /\ pc # "exited" => exit = NoExit
    /\ pc \in {"buffer", "size"} => total = i - 1
    /\ pc = "exited" => \/ total = Unreported /\ exit = 1
                        \/ total = i - 1 /\ exit = (IF failed = 0 THEN 0 ELSE 1)
    /\ total # Unreported => i \notin broken /\ total >= Lesser(linked, MaxTests)

RunInv == Typed /\ Progress /\ Verdicts /\ Reports

LogInv ==
    /\ log \in Seq(Bytes) /\ said \in Seq(Bytes)
    /\ Len(log) <= LogCap /\ Len(log) = Len(said)
    /\ \A k \in 1 .. Len(log) : log[k] = said[k] \/ (k = LogCap /\ log[k] = NUL)

-----------------------------------------------------------------------------
(* The bounds are numbers.                                                 *)
LEMMA Bounds ==
    /\ MaxTests \in Nat \ {0} /\ LogCap \in Nat \ {0}
    /\ MaxLinked \in Nat \ {0} /\ MaxSteps \in Nat \ {0}
  BY BoundsAssumption

(* The constructors append to the registry, and enough to fill it or to    *)
(* hold every linked test.                                                 *)
LEMMA ConstructedFacts ==
    ASSUME NEW ts \in Seq(Names), Len(ts) <= MaxTests, linked \in 0 .. MaxLinked
    PROVE  /\ Constructed(ts) \in Seq(Names)
           /\ Len(Constructed(ts)) <= MaxTests
           /\ Len(Constructed(ts)) >= Len(ts)
           /\ Len(Constructed(ts)) >= Lesser(linked, MaxTests)
           /\ \A k \in 1 .. Len(ts) : Constructed(ts)[k] = ts[k]
  <1> DEFINE n == Lesser(linked, MaxTests - Len(ts))
             new == [k \in 1 .. n |-> k]
  <1>1. Len(ts) \in Nat BY LenProperties
  <1>2. n \in Nat /\ n <= linked /\ n <= MaxTests - Len(ts)
        /\ n + Len(ts) >= Lesser(linked, MaxTests)
    BY <1>1, Bounds DEF Lesser
  <1>3. new \in Seq(Names) /\ Len(new) = n
    <2>1. \A k \in 1 .. n : k \in Names BY <1>2, Bounds DEF Names
    <2>2. new \in [1 .. n -> Names] BY <2>1
    <2>3. new \in Seq(Names) BY <2>2, <1>2, SeqDef
    <2>4. DOMAIN new = 1 .. n /\ DOMAIN new = 1 .. Len(new) /\ Len(new) \in Nat
      BY <2>3, LenProperties
    <2> QED BY <2>3, <2>4, <1>2
  <1>4. Constructed(ts) = ts \o new BY DEF Constructed
  <1>5. /\ ts \o new \in Seq(Names)
        /\ Len(ts \o new) = Len(ts) + Len(new)
        /\ \A k \in 1 .. Len(ts) + Len(new) :
              (ts \o new)[k] = IF k <= Len(ts) THEN ts[k] ELSE new[k - Len(ts)]
    BY <1>3, ConcatProperties
  <1> HIDE DEF n, new
  <1>6. \A k \in 1 .. Len(ts) : (ts \o new)[k] = ts[k]
    BY <1>1, <1>2, <1>3, <1>5
  <1> QED BY <1>1, <1>2, <1>3, <1>4, <1>5, <1>6, Bounds

(* A test that registers a test appends it, or finds the registry full.    *)
LEMMA RegisterFacts ==
    ASSUME NEW ts \in Seq(Names), Len(ts) <= MaxTests, NEW t \in Names
    PROVE  /\ Register(ts, t) \in Seq(Names)
           /\ Len(Register(ts, t)) <= MaxTests
           /\ Len(Register(ts, t)) >= Len(ts)
           /\ \A k \in 1 .. Len(ts) : Register(ts, t)[k] = ts[k]
  <1>1. Len(ts) \in Nat BY LenProperties
  <1>2. CASE Len(ts) >= MaxTests BY <1>1, <1>2 DEF Register
  <1>3. CASE ~(Len(ts) >= MaxTests)
    <2>1. Register(ts, t) = Append(ts, t) BY <1>3 DEF Register
    <2>2. /\ Append(ts, t) \in Seq(Names) /\ Len(Append(ts, t)) = Len(ts) + 1
          /\ \A k \in 1 .. Len(ts) : Append(ts, t)[k] = ts[k]
      BY AppendProperties
    <2> QED BY <1>1, <1>3, <2>1, <2>2, Bounds
  <1> QED BY <1>2, <1>3

(* What is known of a set of indexes when the test in progress is one.     *)
LEMMA BrokenFacts ==
    ASSUME NEW n \in Nat, NEW B \in SUBSET (1 .. n), NEW x
    PROVE  /\ IsFiniteSet(B) /\ Cardinality(B) \in Nat
           /\ Cardinality(B) = 0 <=> B = {}
           /\ IsFiniteSet(B \ {x}) /\ Cardinality(B \ {x}) \in Nat
           /\ x \in B => Cardinality(B) = Cardinality(B \ {x}) + 1
           /\ x \notin B => Cardinality(B) = Cardinality(B \ {x})
  <1>1. IsFiniteSet(1 .. n) BY FS_Interval
  <1>2. IsFiniteSet(B) BY <1>1, FS_Subset
  <1>3. Cardinality(B) \in Nat BY <1>2, FS_CardinalityType
  <1>4. /\ IsFiniteSet(B \ {x})
        /\ Cardinality(B \ {x}) = IF x \in B THEN Cardinality(B) - 1 ELSE Cardinality(B)
    BY <1>2, FS_RemoveElement
  <1>5. Cardinality(B \ {x}) \in Nat BY <1>4, FS_CardinalityType
  <1>6. Cardinality(B) = 0 <=> B = {} BY <1>2, FS_EmptySet
  <1> QED BY <1>2, <1>3, <1>4, <1>5, <1>6

-----------------------------------------------------------------------------
(* The run: the registry, the loop over it, and what is reported of it.    *)

LEMMA RunInitially == Init => RunInv
  <1> SUFFICES ASSUME Init PROVE RunInv OBVIOUS
  <1>1. tests \in Seq(Names) /\ ran \in Seq(Names) /\ Len(tests) = 0 /\ Len(ran) = 0
    BY EmptySeq DEF Init
  <1>2. Cardinality(broken \ {i}) = 0
    <2>1. broken \ {i} = {} BY DEF Init
    <2> QED BY <2>1, FS_EmptySet
  <1>3. Typed BY <1>1, Bounds DEF Init, Typed
  <1>4. Progress BY <1>1 DEF Init, Progress
  <1>5. Verdicts BY <1>2 DEF Init, Verdicts
  <1>6. Reports BY DEF Init, Reports, Unreported
  <1> QED BY <1>3, <1>4, <1>5, <1>6 DEF RunInv

(* The host: the exports only ever add to the registry.                    *)
LEMMA HostStep == RunInv /\ Host => RunInv'
  <1> SUFFICES ASSUME RunInv, Host PROVE RunInv' OBVIOUS
  <1> USE Bounds DEF RunInv
  <1>0. Len(tests) \in Nat /\ Len(ran) \in Nat BY LenProperties DEF Typed
  <1>1. CASE Reject
    <2> USE <1>1 DEF Reject, runner
    <2>1. Typed' BY DEF Typed
    <2>2. Progress' BY <1>0 DEF Progress
    <2>3. Verdicts' BY DEF Verdicts
    <2>4. Reports' BY DEF Reports
    <2> QED BY <2>1, <2>2, <2>3, <2>4
  <1>2. CASE CallRun
    <2> USE <1>2
    <2>1. /\ tests' \in Seq(Names) /\ Len(tests') <= MaxTests
          /\ Len(tests') >= 0 /\ Len(tests') >= Lesser(linked, MaxTests)
      BY <1>0, ConstructedFacts DEF CallRun, Typed
    <2>2. Len(tests') \in Nat BY <2>1, LenProperties
    <2>3. /\ i = 1 /\ i' = 1 /\ Len(ran) = 0 /\ linked' = linked /\ ran' = ran
          /\ broken' = broken /\ broken = {} /\ passed' = 0 /\ failed' = 0
      <3>1. i = 1 /\ tests = <<>> /\ i \notin broken
        BY DEF CallRun, Progress, Verdicts
      <3>2. broken = {} BY <3>1 DEF Verdicts
      <3> QED BY <3>1, <3>2, <1>0 DEF CallRun, Progress, Typed
    <2>4. Typed' BY <2>1, <2>3 DEF Typed, CallRun
    <2>5. Progress' BY <2>1, <2>2, <2>3 DEF Progress, CallRun
    <2>6. Verdicts'
      <3>1. Cardinality((broken \ {i})') = 0
        <4>1. (broken \ {i})' = {} BY <2>3
        <4> QED BY <4>1, FS_EmptySet
      <3> QED BY <2>3, <3>1 DEF Verdicts, CallRun
    <2>7. Reports' BY DEF Reports, CallRun
    <2> QED BY <2>4, <2>5, <2>6, <2>7
  <1>3. CASE CallBuffer \/ CallSize
    <2> USE <1>3
    <2>1. /\ tests' \in Seq(Names) /\ Len(tests') <= MaxTests /\ Len(tests') >= Len(tests)
          /\ \A k \in 1 .. Len(tests) : tests'[k] = tests[k]
      <3>1. CASE tests' = tests BY <3>1, <1>0 DEF Typed
      <3>2. CASE tests' = Constructed(tests) BY <3>2, ConstructedFacts DEF Typed
      <3> QED BY <3>1, <3>2 DEF CallBuffer, CallSize
    <2>2. Len(tests') \in Nat BY <2>1, LenProperties
    <2>3. Lesser(linked, MaxTests) \in Int BY DEF Lesser, Typed
    <2>4. Typed' BY <2>1 DEF Typed, CallBuffer, CallSize, runner
    <2>5. /\ pc \in {"buffer", "size"} /\ pc' \in {"size", "exited"}
          /\ i' = i /\ passed' = passed /\ failed' = failed /\ failures' = failures
          /\ linked' = linked /\ ran' = ran /\ broken' = broken
      BY DEF CallBuffer, CallSize, runner
    <2> HIDE <1>3
    <2>6. Progress'
      <3>1. passed + failed = i - 1 /\ i - 1 <= Len(tests) /\ Len(ran) = i - 1 /\ i \in Nat
        BY DEF Progress, Typed
      <3>2. \A k \in 1 .. i - 1 : ran[k] = tests'[k] BY <1>0, <2>1, <3>1 DEF Progress
      <3>3. Len(tests') >= Lesser(linked, MaxTests) BY <1>0, <2>1, <2>2, <2>3, <2>5 DEF Progress
      <3>4. i - 1 <= Len(tests') BY <1>0, <2>1, <2>2, <3>1
      <3> QED BY <2>5, <3>1, <3>2, <3>3, <3>4 DEF Progress, Lesser
    <2>8. Verdicts'
      <3>1. 1 .. Len(tests) \subseteq 1 .. Len(tests') BY <1>0, <2>1, <2>2
      <3> QED BY <2>5, <3>1 DEF Verdicts
    <2>7. Reports' BY <1>3 DEF Reports, CallBuffer, CallSize, runner
    <2> QED BY <2>4, <2>6, <2>7, <2>8
  <1> QED BY <1>1, <1>2, <1>3 DEF Host

(* The loop: each test gets one verdict, the one of its own assertions.    *)
LEMMA RunnerStep == RunInv /\ Runner => RunInv'
  <1> SUFFICES ASSUME RunInv, Runner PROVE RunInv' OBVIOUS
  <1> USE Bounds DEF RunInv
  <1>0. Len(tests) \in Nat /\ Len(ran) \in Nat BY LenProperties DEF Typed
  <1>1. CASE Begin
    <2> USE <1>1 DEF Begin
    <2>1. Typed' BY DEF Typed
    <2>2. Progress' BY <1>0 DEF Progress
    <2>3. Verdicts' BY DEF Verdicts
    <2>4. Reports' BY DEF Reports
    <2> QED BY <2>1, <2>2, <2>3, <2>4
  <1>2. CASE Verdict
    <2>1. /\ pc = "verdict" /\ pc' = "loop" /\ i' = i + 1 /\ ran' = Append(ran, tests[i])
          /\ linked' = linked /\ tests' = tests /\ depth' = depth /\ steps' = steps
          /\ failures' = failures /\ total' = total /\ exit' = exit /\ broken' = broken
          /\ failures = 0 => passed' = passed + 1 /\ failed' = failed
          /\ failures # 0 => failed' = failed + 1 /\ passed' = passed
      BY <1>2 DEF Verdict
    <2>2. /\ i \in 1 .. Len(tests) /\ i \in Nat /\ passed \in Nat /\ failed \in Nat
          /\ Len(ran) = i - 1
      BY <2>1, <1>0 DEF Progress, Typed
    <2>3. tests[i] \in Names BY <2>2, ElementOfSeq DEF Typed
    <2>4. /\ ran' \in Seq(Names) /\ Len(ran') = i
          /\ \A k \in 1 .. i - 1 : ran'[k] = ran[k]
          /\ ran'[i] = tests[i]
      <3>1. ran \in Seq(Names) BY DEF Typed
      <3> QED BY <2>1, <2>2, <2>3, <3>1, AppendProperties
    <2>5. Typed' BY <2>1, <2>2, <2>4 DEF Typed
    <2>6. Progress'
      <3>1. passed' + failed' = i' - 1 BY <2>1, <2>2 DEF Progress
      <3>2. \A k \in 1 .. i : ran'[k] = tests[k] BY <2>2, <2>4 DEF Progress
      <3>3. Len(tests) >= Lesser(linked, MaxTests) BY <2>1 DEF Progress
      <3> QED BY <2>1, <2>2, <2>4, <3>1, <3>2, <3>3, <1>0 DEF Progress, Lesser
    <2>7. Verdicts'
      <3>1. broken \in SUBSET (1 .. i) /\ i + 1 \notin broken BY <2>2 DEF Verdicts
      <3>2. i \in broken <=> failures # 0 BY <2>1 DEF Verdicts
      <3>3. broken \ {i + 1} = broken BY <3>1
      <3>4. failed' = Cardinality(broken) BY <2>1, <2>2, <3>1, <3>2, BrokenFacts DEF Verdicts
      <3>5. broken \subseteq 1 .. i + 1 BY <2>2, <3>1
      <3> QED BY <2>1, <3>1, <3>3, <3>4, <3>5 DEF Verdicts
    <2>8. Reports' BY <2>1 DEF Reports
    <2> QED BY <2>5, <2>6, <2>7, <2>8
  <1>3. CASE Summary
    <2> USE <1>3 DEF Summary
    <2>1. i - 1 = Len(tests) /\ i \in Nat BY <1>0 DEF Progress, Typed
    <2>2. Typed' BY <1>0 DEF Typed
    <2>3. Progress' BY <1>0 DEF Progress, Lesser
    <2>4. Verdicts' BY DEF Verdicts
    <2>5. Reports' BY <2>1 DEF Reports, Progress, Verdicts, Lesser
    <2> QED BY <2>2, <2>3, <2>4, <2>5
  <1> QED BY <1>1, <1>2, <1>3 DEF Runner

(* A test body: an assertion that fails is held against this test alone.   *)
LEMMA BodyStep == RunInv /\ Body => RunInv'
  <1> SUFFICES ASSUME RunInv, Body PROVE RunInv' OBVIOUS
  <1> USE Bounds DEF RunInv
  <1>0. Len(tests) \in Nat /\ Len(ran) \in Nat BY LenProperties DEF Typed
  <1>1. CASE CheckFails \/ RequireFails
    <2>1. /\ pc = "body" /\ pc' \in {"body", "verdict"}
          /\ steps < MaxSteps /\ steps' = steps + 1 /\ failures' = failures + 1
          /\ broken' = broken \cup {i} /\ depth' \in {depth, depth - 1} /\ (depth' # depth => depth > 0)
          /\ linked' = linked /\ tests' = tests /\ i' = i /\ passed' = passed
          /\ failed' = failed /\ total' = total /\ exit' = exit /\ ran' = ran
      BY <1>1 DEF CheckFails, RequireFails, Statement, RecordFailure, Leave
    <2>2. i \in Nat \ {0} /\ i <= Len(tests) /\ failures \in Nat
      BY <2>1 DEF Typed, Progress
    <2>3. Typed' BY <2>1 DEF Typed
    <2>4. Progress' BY <2>1, <2>2 DEF Progress, Lesser
    <2>5. Verdicts'
      <3>1. failed = Cardinality(broken' \ {i'})
        <4>1. broken' \ {i'} = broken \ {i} BY <2>1
        <4> QED BY <4>1 DEF Verdicts
      <3>2. broken' \subseteq 1 .. i /\ broken' \subseteq 1 .. Len(tests)
        BY <1>0, <2>1, <2>2 DEF Verdicts
      <3>3. i \in broken' /\ failures' # 0 BY <2>1, <2>2
      <3> QED BY <2>1, <3>1, <3>2, <3>3 DEF Verdicts
    <2>6. Reports' BY <2>1 DEF Reports
    <2> QED BY <2>3, <2>4, <2>5, <2>6
  <1>2. CASE CallHelper \/ Return \/ \E size \in NoteSizes : Note(size)
    <2>1. /\ pc = "body" /\ pc' \in {"body", "verdict"}
          /\ steps' \in {steps, steps + 1} /\ (steps' # steps => steps < MaxSteps)
          /\ depth' \in {0, 1, depth, depth - 1} /\ (depth' = depth - 1 => depth > 0)
          /\ failures' = failures /\ broken' = broken
          /\ linked' = linked /\ tests' = tests /\ i' = i /\ passed' = passed
          /\ failed' = failed /\ total' = total /\ exit' = exit /\ ran' = ran
      BY <1>2 DEF CallHelper, Return, Note, Statement, Leave, Typed
    <2>2. Typed' BY <2>1 DEF Typed
    <2>3. Progress' BY <2>1 DEF Progress, Lesser
    <2>4. Verdicts' BY <2>1 DEF Verdicts
    <2>5. Reports' BY <2>1 DEF Reports
    <2> QED BY <2>2, <2>3, <2>4, <2>5
  <1>3. CASE \E t \in 1 .. MaxLinked : Enroll(t)
    <2>0. PICK t \in Names : Enroll(t) BY <1>3 DEF Names
    <2>1. /\ tests' \in Seq(Names) /\ Len(tests') <= MaxTests /\ Len(tests') >= Len(tests)
          /\ \A k \in 1 .. Len(tests) : tests'[k] = tests[k]
      BY <2>0, RegisterFacts DEF Enroll, Typed
    <2>2. Len(tests') \in Nat BY <2>1, LenProperties
    <2>3. Lesser(linked, MaxTests) \in Int BY DEF Lesser, Typed
    <2>4. /\ pc = "body" /\ pc' = pc /\ steps < MaxSteps /\ steps' = steps + 1
          /\ i' = i /\ passed' = passed /\ failed' = failed /\ failures' = failures
          /\ linked' = linked /\ ran' = ran /\ broken' = broken /\ depth' = depth
          /\ total' = total /\ exit' = exit
      BY <2>0 DEF Enroll, Statement
    <2>5. Typed' BY <2>1, <2>4 DEF Typed
    <2>6. Progress'
      <3>1. passed + failed = i - 1 /\ i <= Len(tests) /\ Len(ran) = i - 1 /\ i \in Nat
        BY <2>4 DEF Progress, Typed
      <3>2. \A k \in 1 .. i - 1 : ran[k] = tests'[k] BY <1>0, <2>1, <3>1 DEF Progress
      <3>3. Len(tests') >= Lesser(linked, MaxTests) BY <1>0, <2>1, <2>2, <2>3, <2>4 DEF Progress
      <3>4. i <= Len(tests') BY <1>0, <2>1, <2>2, <3>1
      <3> QED BY <2>2, <2>4, <3>1, <3>2, <3>3, <3>4 DEF Progress, Lesser
    <2>7. Verdicts'
      <3>1. 1 .. Len(tests) \subseteq 1 .. Len(tests') BY <1>0, <2>1, <2>2
      <3> QED BY <2>4, <3>1 DEF Verdicts
    <2>8. Reports' BY <2>4 DEF Reports
    <2> QED BY <2>5, <2>6, <2>7, <2>8
  <1>4. CASE Trap
    <2> USE <1>4 DEF Trap, runner
    <2>1. Typed' BY DEF Typed
    <2>2. Progress' BY DEF Progress
    <2>3. Verdicts' BY DEF Verdicts
    <2>4. Reports' BY DEF Reports
    <2> QED BY <2>1, <2>2, <2>3, <2>4
  <1> QED BY <1>1, <1>2, <1>3, <1>4 DEF Body

LEMMA RunInvariance == Spec => []RunInv
  <1>1. RunInv /\ [Next]_vars => RunInv'
    <2> SUFFICES ASSUME RunInv, [Next]_vars PROVE RunInv' OBVIOUS
    <2>1. CASE Next BY <2>1, HostStep, RunnerStep, BodyStep DEF Next
    <2>2. CASE UNCHANGED vars
      BY <2>2 DEF vars, runner, RunInv, Typed, Progress, Verdicts, Reports
    <2> QED BY <2>1, <2>2
  <1> QED BY <1>1, RunInitially, PTL DEF Spec

-----------------------------------------------------------------------------
(* The log: what is written of a message is what was said, up to a full    *)
(* buffer.                                                                 *)

LEMMA MessageFacts ==
    ASSUME NEW kind \in Kinds \cup {"note"}, NEW size \in Nat
    PROVE  Message(kind, size) \in Seq(Bytes)
  <1>1. [k \in 1 .. size |-> <<kind, k>>] \in [1 .. size -> Bytes] BY DEF Bytes
  <1> QED BY <1>1, SeqDef DEF Message

(* The beginning of a sequence.                                            *)
LEMMA PrefixFacts ==
    ASSUME NEW S, NEW s \in Seq(S), NEW n \in 0 .. Len(s)
    PROVE  /\ SubSeq(s, 1, n) \in Seq(S) /\ Len(SubSeq(s, 1, n)) = n
           /\ \A k \in 1 .. n : SubSeq(s, 1, n)[k] = s[k]
  <1>1. Len(s) \in Nat BY LenProperties
  <1>2. \A k \in 1 .. n : s[k] \in S BY <1>1, ElementOfSeq
  <1>3. /\ SubSeq(s, 1, n) \in Seq(S)
        /\ Len(SubSeq(s, 1, n)) = IF 1 <= n THEN n - 1 + 1 ELSE 0
        /\ \A k \in 1 .. n - 1 + 1 : SubSeq(s, 1, n)[k] = s[1 + k - 1]
    BY <1>1, <1>2, SubSeqProperties
  <1> QED BY <1>1, <1>3

(* The history of what was said keeps the first LogCap bytes of it.        *)
Kept(s) == SubSeq(s, 1, Lesser(LogCap, Len(s)))

LEMMA KeptFacts ==
    ASSUME NEW s \in Seq(Bytes), NEW m \in Seq(Bytes)
    PROVE  /\ Kept(s \o m) \in Seq(Bytes)
           /\ Len(Kept(s \o m)) = Lesser(LogCap, Len(s) + Len(m))
           /\ \A k \in 1 .. Len(Kept(s \o m)) :
                 Kept(s \o m)[k] = IF k <= Len(s) THEN s[k] ELSE m[k - Len(s)]
  <1> DEFINE r == Kept(s \o m)
             n == Lesser(LogCap, Len(s) + Len(m))
  <1>1. Len(s) \in Nat /\ Len(m) \in Nat BY LenProperties
  <1>2. n \in Nat /\ n <= Len(s) + Len(m) BY <1>1, Bounds DEF Lesser
  <1>3. /\ s \o m \in Seq(Bytes) /\ Len(s \o m) = Len(s) + Len(m)
        /\ \A k \in 1 .. Len(s) + Len(m) :
              (s \o m)[k] = IF k <= Len(s) THEN s[k] ELSE m[k - Len(s)]
    BY ConcatProperties
  <1>4. r = SubSeq(s \o m, 1, n) BY <1>3 DEF Kept
  <1> HIDE DEF n, r
  <1>5. /\ r \in Seq(Bytes) /\ Len(r) = n
        /\ \A k \in 1 .. n : r[k] = (s \o m)[k]
    <2>1. n \in 0 .. Len(s \o m) BY <1>2, <1>3
    <2> QED BY <1>3, <1>4, <2>1, PrefixFacts
  <1>6. \A k \in 1 .. n : r[k] = IF k <= Len(s) THEN s[k] ELSE m[k - Len(s)]
    <2> TAKE k \in 1 .. n
    <2>1. k \in 1 .. Len(s) + Len(m) BY <1>1, <1>2
    <2> QED BY <2>1, <1>3, <1>5
  <1> QED BY <1>5, <1>6 DEF n, r

(* Both ways of writing keep the log faithful.                             *)
LEMMA WriteFacts ==
    ASSUME LogInv, NEW m \in Seq(Bytes), Said(m),
           log' = LogStr(m) \/ log' = LogPrintf(m)
    PROVE  LogInv'
  <1> USE Bounds
  <1> DEFINE avail == LogCap - Len(log)
  <1>1. /\ Len(log) \in Nat /\ Len(m) \in Nat /\ Len(said) = Len(log) /\ avail \in Nat
        /\ log \in Seq(Bytes) /\ said \in Seq(Bytes)
    BY LenProperties DEF LogInv
  <1>2. /\ said' \in Seq(Bytes) /\ Len(said') = Lesser(LogCap, Len(log) + Len(m))
        /\ \A k \in 1 .. Len(said') :
              said'[k] = IF k <= Len(log) THEN said[k] ELSE m[k - Len(log)]
    <2>1. said' = Kept(said \o m) BY DEF Said, Kept
    <2>2. /\ said' \in Seq(Bytes) /\ Len(said') = Lesser(LogCap, Len(said) + Len(m))
          /\ \A k \in 1 .. Len(said') :
                said'[k] = IF k <= Len(said) THEN said[k] ELSE m[k - Len(said)]
      BY <1>1, <2>1, KeptFacts
    <2> QED BY <1>1, <2>2
  <1>3. \A n \in 0 .. Len(m) :
            /\ SubSeq(m, 1, n) \in Seq(Bytes) /\ Len(SubSeq(m, 1, n)) = n
            /\ \A k \in 1 .. n : SubSeq(m, 1, n)[k] = m[k]
    BY PrefixFacts
  <1>4. \A p \in Seq(Bytes) :
            /\ log \o p \in Seq(Bytes) /\ Len(log \o p) = Len(log) + Len(p)
            /\ \A k \in 1 .. Len(log) + Len(p) :
                  (log \o p)[k] = IF k <= Len(log) THEN log[k] ELSE p[k - Len(log)]
    BY <1>1, ConcatProperties
  <1>5. \A k \in 1 .. Len(log) : log[k] = said[k] \/ (k = LogCap /\ log[k] = NUL)
    BY DEF LogInv
  \* A log extended by the beginning of the message is a faithful log.
  <1>6. ASSUME NEW n \in 0 .. Len(m), n <= avail, n = Len(m) \/ n = avail,
               log' = log \o SubSeq(m, 1, n)
        PROVE  LogInv'
    <2> DEFINE p == SubSeq(m, 1, n)
    <2>1. p \in Seq(Bytes) /\ Len(p) = n /\ \A k \in 1 .. n : p[k] = m[k]
      BY <1>3
    <2> HIDE DEF p
    <2>2. /\ log' \in Seq(Bytes) /\ Len(log') = Len(log) + n
          /\ \A k \in 1 .. Len(log) + n :
                log'[k] = IF k <= Len(log) THEN log[k] ELSE p[k - Len(log)]
      BY <2>1, <1>4, <1>6 DEF p
    <2>3. Len(said') = Len(log) + n BY <1>1, <1>2, <1>6 DEF Lesser
    <2>4. Len(log') <= LogCap BY <1>1, <1>6, <2>2
    <2>5. \A k \in 1 .. Len(log') : log'[k] = said'[k] \/ (k = LogCap /\ log'[k] = NUL)
      <3> TAKE k \in 1 .. Len(log')
      <3>1. k \in 1 .. Len(log) + n /\ k \in 1 .. Len(said') BY <2>2, <2>3
      <3>2. CASE k <= Len(log)
        <4>1. log'[k] = log[k] /\ said'[k] = said[k] BY <3>1, <3>2, <2>2, <1>2
        <4>2. k \in 1 .. Len(log) BY <3>1, <3>2, <1>1
        <4> QED BY <4>1, <4>2, <1>5
      <3>3. CASE ~(k <= Len(log))
        <4>1. k - Len(log) \in 1 .. n BY <3>1, <3>3, <1>1
        <4>2. log'[k] = p[k - Len(log)] /\ said'[k] = m[k - Len(log)]
          BY <3>1, <3>3, <2>2, <1>2
        <4> QED BY <4>1, <4>2, <2>1
      <3> QED BY <3>2, <3>3
    <2> QED BY <1>2, <2>2, <2>3, <2>4, <2>5 DEF LogInv
  <1>7. SubSeq(m, 1, Len(m)) = m BY SubSeqFull
  <1>8. CASE log' = LogStr(m)
    <2>1. Lesser(Len(m), avail) \in 0 .. Len(m) /\ Lesser(Len(m), avail) <= avail
          /\ Lesser(Len(m), avail) \in {Len(m), avail}
      BY <1>1 DEF Lesser
    <2> QED BY <2>1, <1>6, <1>8 DEF LogStr
  <1>9. CASE log' = LogPrintf(m)
    <2>1. CASE avail = 0
      <3>1. SubSeq(m, 1, 0) = <<>> /\ log \o <<>> = log
        BY <1>1, SubSeqEmpty, ConcatEmptySeq
      <3>2. LogPrintf(m) = log BY <2>1 DEF LogPrintf
      <3>3. log' = log \o SubSeq(m, 1, 0) BY <1>9, <3>1, <3>2
      <3>4. 0 \in 0 .. Len(m) /\ 0 <= avail /\ 0 = avail BY <2>1, <1>1
      <3> QED BY <3>3, <3>4, <1>6
    <2>2. CASE avail # 0 /\ Len(m) < avail
      <3>1. LogPrintf(m) = log \o m BY <2>2 DEF LogPrintf
      <3>2. log' = log \o SubSeq(m, 1, Len(m)) BY <1>7, <1>9, <3>1
      <3>3. Len(m) \in 0 .. Len(m) /\ Len(m) <= avail BY <2>2, <1>1
      <3> QED BY <3>2, <3>3, <1>6
    <2>3. CASE avail # 0 /\ ~(Len(m) < avail)
      <3> DEFINE p == SubSeq(m, 1, avail - 1)
      <3>1. p \in Seq(Bytes) /\ Len(p) = avail - 1 /\ \A k \in 1 .. avail - 1 : p[k] = m[k]
        <4>1. avail - 1 \in 0 .. Len(m) BY <1>1, <2>3
        <4> QED BY <4>1, <1>3
      <3>2. <<NUL>> \in Seq(Bytes) /\ Len(<<NUL>>) = 1 /\ <<NUL>>[1] = NUL
        BY DEF NUL, Bytes
      <3>3. log' = (log \o p) \o <<NUL>> BY <1>9, <2>3 DEF LogPrintf
      <3> HIDE DEF p, avail
      <3>4. /\ log \o p \in Seq(Bytes) /\ Len(log \o p) = Len(log) + (avail - 1)
            /\ \A k \in 1 .. Len(log) + (avail - 1) :
                  (log \o p)[k] = IF k <= Len(log) THEN log[k] ELSE p[k - Len(log)]
        BY <3>1, <1>4
      <3>5. avail - 1 \in Nat /\ Len(log) + (avail - 1) = LogCap - 1
        BY <1>1, <2>3 DEF avail
      <3>6. /\ log' \in Seq(Bytes) /\ Len(log') = LogCap
            /\ \A k \in 1 .. LogCap - 1 : log'[k] = (log \o p)[k]
            /\ log'[LogCap] = NUL
        <4>1. /\ log' \in Seq(Bytes) /\ Len(log') = LogCap - 1 + 1
              /\ \A k \in 1 .. LogCap - 1 + 1 :
                    log'[k] = IF k <= LogCap - 1 THEN (log \o p)[k] ELSE <<NUL>>[k - (LogCap - 1)]
          BY <3>2, <3>3, <3>4, <3>5, ConcatProperties
        <4>2. LogCap - 1 + 1 = LogCap /\ LogCap - (LogCap - 1) = 1 /\ ~(LogCap <= LogCap - 1)
          OBVIOUS
        <4>3. LogCap \in 1 .. LogCap /\ \A k \in 1 .. LogCap - 1 : k \in 1 .. LogCap
          OBVIOUS
        <4>4. log'[LogCap] = <<NUL>>[1] BY <4>1, <4>2, <4>3
        <4>5. \A k \in 1 .. LogCap - 1 : log'[k] = (log \o p)[k]
          <5> TAKE k \in 1 .. LogCap - 1
          <5>1. k \in 1 .. LogCap - 1 + 1 /\ k <= LogCap - 1 OBVIOUS
          <5> QED BY <4>1, <5>1
        <4>6. log' \in Seq(Bytes) /\ Len(log') = LogCap BY <4>1, <4>2
        <4> QED BY <4>4, <4>5, <4>6, <3>2
      <3>7. Len(said') = LogCap BY <1>1, <1>2, <2>3 DEF Lesser, avail
      <3>8. \A k \in 1 .. Len(log') : log'[k] = said'[k] \/ (k = LogCap /\ log'[k] = NUL)
        <4> TAKE k \in 1 .. Len(log')
        <4>1. k \in 1 .. LogCap /\ k \in 1 .. Len(said') BY <3>6, <3>7
        <4>2. CASE k = LogCap BY <4>2, <3>6
        <4>3. CASE k # LogCap /\ k <= Len(log)
          <5>1. log'[k] = log[k] /\ said'[k] = said[k]
            BY <4>1, <4>3, <3>4, <3>5, <3>6, <1>2
          <5>2. k \in 1 .. Len(log) BY <4>1, <4>3, <1>1
          <5> QED BY <5>1, <5>2, <1>5
        <4>4. CASE k # LogCap /\ ~(k <= Len(log))
          <5>1. k - Len(log) \in 1 .. avail - 1 BY <4>1, <4>4, <3>5, <1>1
          <5>2. k \in 1 .. LogCap - 1 BY <4>1, <4>4
          <5>3. log'[k] = (log \o p)[k] BY <5>2, <3>6
          <5>4. (log \o p)[k] = p[k - Len(log)] BY <5>2, <4>4, <3>4, <3>5
          <5>5. said'[k] = m[k - Len(log)] BY <4>1, <4>4, <1>2
          <5> QED BY <5>1, <5>3, <5>4, <5>5, <3>1
        <4> QED BY <4>2, <4>3, <4>4
      <3> QED BY <1>2, <3>6, <3>7, <3>8 DEF LogInv
    <2> QED BY <2>1, <2>2, <2>3
  <1> QED BY <1>8, <1>9

LEMMA LogStep == LogInv /\ [Next]_vars => LogInv'
  <1> SUFFICES ASSUME LogInv, [Next]_vars PROVE LogInv' OBVIOUS
  <1>1. ASSUME NEW kind \in Kinds \cup {"note"}, NEW size \in Nat,
               Log(Message(kind, size)) \/ PutStr(Message(kind, size))
        PROVE  LogInv'
    BY <1>1, MessageFacts, WriteFacts DEF Log, PutStr
  <1>2. \A kind \in Kinds : Length[kind] \in Nat BY LengthAssumption
  <1>3. CASE UNCHANGED <<log, said>> BY <1>3 DEF LogInv
  <1>4. CASE CallRun
    <2>1. "start" \in Kinds /\ PutStr(Message("start", Length["start"]))
      BY <1>4 DEF CallRun, Kinds
    <2> QED BY <2>1, <1>1, <1>2
  <1>5. CASE Begin
    <2>1. "header" \in Kinds /\ Log(Message("header", Length["header"]))
      BY <1>5 DEF Begin, Kinds
    <2> QED BY <2>1, <1>1, <1>2
  <1>6. CASE Verdict
    <2>1. /\ "ok" \in Kinds /\ "FAILED" \in Kinds
          /\ \/ PutStr(Message("ok", Length["ok"]))
             \/ Log(Message("FAILED", Length["FAILED"]))
      BY <1>6 DEF Verdict, Kinds
    <2> QED BY <2>1, <1>1, <1>2
  <1>7. CASE Summary
    <2>1. "summary" \in Kinds /\ Log(Message("summary", Length["summary"]))
      BY <1>7 DEF Summary, Kinds
    <2> QED BY <2>1, <1>1, <1>2
  <1>8. CASE CheckFails \/ RequireFails
    <2>1. "FAIL" \in Kinds /\ Log(Message("FAIL", Length["FAIL"]))
      BY <1>8 DEF CheckFails, RequireFails, RecordFailure, Kinds
    <2> QED BY <2>1, <1>1, <1>2
  <1>9. CASE \E size \in NoteSizes : Note(size)
    <2>1. PICK size \in NoteSizes : Note(size) BY <1>9
    <2>2. size \in Nat /\ Log(Message("note", size)) BY <2>1, BoundsAssumption DEF Note
    <2> QED BY <2>2, <1>1
  <1>10. CASE \/ Reject \/ CallBuffer \/ CallSize \/ CallHelper \/ Return \/ Trap
              \/ UNCHANGED vars \/ \E t \in 1 .. MaxLinked : Enroll(t)
    <2>1. UNCHANGED <<log, said>>
      BY <1>10 DEF Reject, CallBuffer, CallSize, CallHelper, Return, Trap, Enroll, vars
    <2> QED BY <2>1, <1>3
  <1> QED BY <1>4, <1>5, <1>6, <1>7, <1>8, <1>9, <1>10 DEF Next, Host, Runner, Body

LEMMA LogInvariance == Spec => []LogInv
  <1>1. Init => LogInv
    <2> SUFFICES ASSUME Init PROVE LogInv OBVIOUS
    <2>1. log = <<>> /\ said = <<>> BY DEF Init
    <2> QED BY <2>1, EmptySeq, Bounds DEF LogInv
  <1> QED BY <1>1, LogStep, PTL DEF Spec

-----------------------------------------------------------------------------
(* What the host and the reader of the log rely on.                        *)

(* Whatever tests register while they run, the summary line counts every   *)
(* test exactly once, in order, and its failures are the tests with a      *)
(* failed assertion.                                                       *)
THEOREM SummaryHolds == Spec => []SummaryTrue
  <1>1. RunInv => SummaryTrue
    <2> SUFFICES ASSUME RunInv, total # Unreported PROVE
            /\ passed + failed = total
            /\ total >= Lesser(linked, MaxTests)
            /\ ran = SubSeq(tests, 1, total)
            /\ failed = Cardinality(broken)
      BY DEF SummaryTrue
    <2> USE DEF RunInv
    <2>1. pc \in {"buffer", "size", "exited"} /\ total = i - 1
      BY DEF Reports, Typed
    <2>2. passed + failed = total /\ total >= Lesser(linked, MaxTests)
      BY <2>1 DEF Progress, Reports
    <2>3. ran = SubSeq(tests, 1, total)
      <3>1. /\ Len(tests) \in Nat /\ total \in 0 .. Len(tests)
            /\ tests \in Seq(Names) /\ ran \in Seq(Names) /\ Len(ran) = total
            /\ \A k \in 1 .. total : ran[k] = tests[k]
        BY <2>1, LenProperties DEF Progress, Typed
      <3> DEFINE prefix == SubSeq(tests, 1, total)
      <3>2. /\ prefix \in Seq(Names) /\ Len(prefix) = total
            /\ \A k \in 1 .. total : prefix[k] = tests[k]
        BY <3>1, PrefixFacts
      <3> HIDE DEF prefix
      <3>3. ran = prefix BY <3>1, <3>2, SeqEqual
      <3> QED BY <3>3 DEF prefix
    <2>4. failed = Cardinality(broken)
      <3>1. i \notin broken BY DEF Reports
      <3>2. broken \ {i} = broken BY <3>1
      <3> QED BY <3>2 DEF Verdicts
    <2> QED BY <2>2, <2>3, <2>4
  <1> QED BY <1>1, RunInvariance, PTL

(* A run with a failed assertion or a trap never exits with success, and a *)
(* run without always does.                                                *)
THEOREM ExitTruthful == Spec => []ExitTellsTruth
  <1>1. RunInv => ExitTellsTruth
    <2> SUFFICES ASSUME RunInv, exit # NoExit
                 PROVE  exit = 0 <=> total # Unreported /\ broken = {}
      BY DEF ExitTellsTruth
    <2> USE DEF RunInv
    <2>1. pc = "exited" BY DEF Reports
    <2>2. CASE total = Unreported /\ exit = 1 BY <2>2
    <2>3. CASE total = i - 1 /\ exit = (IF failed = 0 THEN 0 ELSE 1)
      <3>1. i \in Nat /\ i >= 1 BY DEF Typed
      <3>2. total # Unreported BY <2>3, <3>1 DEF Unreported
      <3>3. i \notin broken BY <3>2 DEF Reports
      <3>4. broken \in SUBSET (1 .. i) BY DEF Verdicts
      <3>5. failed = Cardinality(broken) BY <3>1, <3>3, <3>4, BrokenFacts DEF Verdicts
      <3>6. failed = 0 <=> broken = {} BY <3>1, <3>4, <3>5, BrokenFacts
      <3> QED BY <2>3, <3>2, <3>6
    <2> QED BY <2>1, <2>2, <2>3 DEF Reports
  <1> QED BY <1>1, RunInvariance, PTL

(* Whichever message fills the buffer, the log stays a prefix of what was  *)
(* said, and every count and index within its bounds.                      *)
THEOREM LogTruthful == Spec => []LogFaithful
  <1>1. RunInv /\ LogInv => LogFaithful
    <2> SUFFICES ASSUME RunInv, LogInv PROVE LogFaithful OBVIOUS
    <2> USE Bounds DEF RunInv
    <2>1. Len(tests) \in Nat /\ Len(tests) <= MaxTests /\ i \in Nat /\ i - 1 <= Len(tests)
      BY LenProperties DEF Typed, Progress
    <2>2. i \in 1 .. MaxTests + 1 BY <2>1 DEF Typed
    <2>3. passed \in 0 .. MaxTests /\ failed \in 0 .. MaxTests
      BY <2>1 DEF Typed, Progress
    <2>4. broken \subseteq 1 .. MaxTests BY <2>1 DEF Verdicts
    <2>5. failures \in 0 .. MaxSteps BY DEF Typed
    <2>6. TypeOK BY <2>1, <2>2, <2>3, <2>4, <2>5 DEF TypeOK, Typed, LogInv, Names
    <2> QED BY <2>6 DEF LogFaithful, LogInv
  <1> QED BY <1>1, RunInvariance, LogInvariance, PTL
=============================================================================
