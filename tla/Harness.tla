------------------------------ MODULE Harness -------------------------------
(***************************************************************************)
(* The wasm test harness: constructors register tests, wcs_run_tests runs  *)
(* them and fills a fixed log buffer, and the Node host turns the result   *)
(* into an exit code. A test body is any short sequence of failing checks, *)
(* failing requires (in the body or in a helper it calls), log messages,   *)
(* registrations and traps; a check that passes changes nothing.           *)
(***************************************************************************)
EXTENDS Integers, Sequences, FiniteSets

CONSTANTS
    MaxTests,   \* WCS_MAX_TESTS
    LogCap,     \* WCS_LOG_CAP
    Length,     \* how many bytes each kind of message has
    NoteSizes,  \* the sizes of the messages that tests log themselves
    MaxLinked,  \* bound: tests linked into the wasm
    MaxSteps    \* bound: statements that one test executes

Kinds == {"start", "header", "FAIL", "ok", "FAILED", "summary"}

ASSUME BoundsAssumption ==
    /\ {MaxTests, LogCap, MaxLinked, MaxSteps} \subseteq Nat \ {0}
    /\ NoteSizes \subseteq Nat
ASSUME LengthAssumption == Length \in [Kinds -> Nat]

NUL        == <<"NUL", 0>>
NoExit     == -1
Unreported == -1

VARIABLES
    linked,    \* how many tests have a static initializer
    tests,     \* wcs_tests, up to wcs_test_n
    log,       \* wcs_log, up to wcs_log_n
    pc,        \* where the host or the runner is
    i,         \* the index of the test that runs, from 1
    depth,     \* 1 inside a helper that the test calls
    steps,     \* statements of this test executed so far
    failures,  \* wcs_failures_in_current_test
    passed, failed,
    total,     \* the count in the summary line
    exit,      \* the exit code of the host
    ran,       \* history: the tests that got a verdict, in order
    broken,    \* history: the indexes at which an assertion failed
    said       \* history: the first LogCap bytes of all messages

runner == <<i, depth, steps, failures, passed, failed, total>>
vars   == <<linked, tests, log, pc, runner, exit, ran, broken, said>>

Init ==
    /\ linked \in 0 .. MaxLinked
    /\ tests = <<>> /\ log = <<>> /\ said = <<>> /\ ran = <<>>
    /\ pc = "load" /\ exit = NoExit /\ total = Unreported /\ broken = {}
    /\ i = 1 /\ depth = 0 /\ steps = 0
    /\ failures = 0 /\ passed = 0 /\ failed = 0

-----------------------------------------------------------------------------
Lesser(a, b) == IF a < b THEN a ELSE b

(* wcs_register_test: beyond the capacity, nothing happens.                *)
Register(ts, t) == IF Len(ts) >= MaxTests THEN ts ELSE Append(ts, t)

(* The wrapper that wasm-ld puts around an export runs the constructors,   *)
(* which register every linked test in link order.                         *)
Constructed(ts) ==
    ts \o [k \in 1 .. Lesser(linked, MaxTests - Len(ts)) |-> k]

Message(kind, size) == [k \in 1 .. size |-> <<kind, k>>]

(* wcs_log_str copies what fits. wcs_log_printf formats into what is free, *)
(* the terminator included, and counts the terminator if the text is cut.  *)
LogStr(m) == log \o SubSeq(m, 1, Lesser(Len(m), LogCap - Len(log)))

LogPrintf_AllOrNothing_Mutant(m) ==
    IF Len(m) < LogCap - Len(log) THEN log \o m ELSE log
LogPrintf(m) ==
    LET avail == LogCap - Len(log)
    IN  CASE avail = 0      -> log
          [] Len(m) < avail -> log \o m
          [] OTHER          -> log \o SubSeq(m, 1, avail - 1) \o <<NUL>>

Said(m) ==
    said' = LET all == said \o m IN SubSeq(all, 1, Lesser(LogCap, Len(all)))

Log(m)  == log' = LogPrintf(m) /\ Said(m)
PutStr(m) == log' = LogStr(m) /\ Said(m)

-----------------------------------------------------------------------------
(* The host: a wasm without the exports is refused; otherwise run.mjs      *)
(* calls wcs_run_tests, wcs_log_buffer and wcs_log_size.                   *)
Reject ==
    /\ pc = "load"
    /\ exit' = 1 /\ pc' = "exited"
    /\ UNCHANGED <<linked, tests, log, runner, ran, broken, said>>

CallRun ==
    /\ pc = "load"
    /\ tests' = Constructed(tests)
    /\ PutStr(Message("start", Length["start"]))
    /\ passed' = 0 /\ failed' = 0 /\ i' = 1
    /\ pc' = "loop"
    /\ UNCHANGED <<linked, depth, steps, failures, total, exit, ran, broken>>

(* Constructors may run again with the later exports.                      *)
CallBuffer ==
    /\ pc = "buffer"
    /\ tests' \in {tests, Constructed(tests)}
    /\ pc' = "size"
    /\ UNCHANGED <<linked, log, runner, exit, ran, broken, said>>

CallSize_LastTest_Mutant ==
    /\ pc = "size"
    /\ exit' = IF failures = 0 THEN 0 ELSE 1
    /\ pc' = "exited"
    /\ UNCHANGED <<linked, tests, log, runner, ran, broken, said>>

CallSize ==
    /\ pc = "size"
    /\ tests' \in {tests, Constructed(tests)}
    /\ exit' = IF failed = 0 THEN 0 ELSE 1
    /\ pc' = "exited"
    /\ UNCHANGED <<linked, log, runner, ran, broken, said>>

-----------------------------------------------------------------------------
(* wcs_run_tests: the loop reads the number of tests anew for each test.   *)
Begin_KeepFailures_Mutant ==
    /\ pc = "loop" /\ i <= Len(tests)
    /\ depth' = 0 /\ steps' = 0
    /\ Log(Message("header", Length["header"]))
    /\ pc' = "body"
    /\ UNCHANGED <<linked, tests, i, failures, passed, failed, total, exit, ran, broken>>

Begin ==
    /\ pc = "loop" /\ i <= Len(tests)
    /\ failures' = 0 /\ depth' = 0 /\ steps' = 0
    /\ Log(Message("header", Length["header"]))
    /\ pc' = "body"
    /\ UNCHANGED <<linked, tests, i, passed, failed, total, exit, ran, broken>>

Verdict_Retry_Mutant ==
    /\ pc = "verdict"
    /\ IF failures = 0 THEN passed' = passed + 1 /\ i' = i + 1 ELSE UNCHANGED <<passed, i>>
    /\ pc' = "loop"
    /\ UNCHANGED <<linked, tests, log, depth, steps, failures, failed, total, exit, ran, broken, said>>

Verdict ==
    /\ pc = "verdict"
    /\ IF failures = 0
       THEN /\ PutStr(Message("ok", Length["ok"]))
            /\ passed' = passed + 1 /\ UNCHANGED failed
       ELSE /\ Log(Message("FAILED", Length["FAILED"]))
            /\ failed' = failed + 1 /\ UNCHANGED passed
    /\ i' = i + 1
    /\ ran' = Append(ran, tests[i])
    /\ pc' = "loop"
    /\ UNCHANGED <<linked, tests, depth, steps, failures, total, exit, broken>>

Summary ==
    /\ pc = "loop" /\ i > Len(tests)
    /\ Log(Message("summary", Length["summary"]))
    /\ total' = Len(tests)
    /\ pc' = "buffer"
    /\ UNCHANGED <<linked, tests, i, depth, steps, failures, passed, failed, exit, ran, broken>>

-----------------------------------------------------------------------------
(* What a test body does.                                                  *)
Statement == pc = "body" /\ steps < MaxSteps /\ steps' = steps + 1

RecordFailure ==
    /\ failures' = failures + 1
    /\ Log(Message("FAIL", Length["FAIL"]))
    /\ broken' = broken \cup {i}

(* The return statement: from a helper to the body, from the body to the   *)
(* runner.                                                                 *)
Leave == IF depth > 0 THEN depth' = depth - 1 /\ UNCHANGED pc
                      ELSE pc' = "verdict" /\ UNCHANGED depth

CheckFails ==
    /\ Statement /\ RecordFailure
    /\ UNCHANGED <<linked, tests, pc, i, depth, passed, failed, total, exit, ran>>

RequireFails ==
    /\ Statement /\ RecordFailure /\ Leave
    /\ UNCHANGED <<linked, tests, i, passed, failed, total, exit, ran>>

CallHelper ==
    /\ Statement /\ depth = 0 /\ depth' = 1
    /\ UNCHANGED <<linked, tests, log, pc, i, failures, passed, failed, total, exit, ran, broken, said>>

Note(size) ==
    /\ Statement /\ Log(Message("note", size))
    /\ UNCHANGED <<linked, tests, pc, i, depth, failures, passed, failed, total, exit, ran, broken>>

(* A test registers a test.                                                *)
Enroll(t) ==
    /\ Statement /\ tests' = Register(tests, t)
    /\ UNCHANGED <<linked, log, pc, i, depth, failures, passed, failed, total, exit, ran, broken, said>>

Return ==
    /\ pc = "body" /\ Leave
    /\ UNCHANGED <<linked, tests, log, i, steps, failures, passed, failed, total, exit, ran, broken, said>>

(* A trap unwinds into the host, which stops without reading the log.      *)
Trap ==
    /\ pc = "body"
    /\ exit' = 1 /\ pc' = "exited"
    /\ UNCHANGED <<linked, tests, log, runner, ran, broken, said>>

-----------------------------------------------------------------------------
Host   == Reject \/ CallRun \/ CallBuffer \/ CallSize
Runner == Begin \/ Verdict \/ Summary
Body   ==
    \/ CheckFails \/ RequireFails \/ CallHelper \/ Return \/ Trap
    \/ \E size \in NoteSizes : Note(size)
    \/ \E t \in 1 .. MaxLinked : Enroll(t)
Next   == Host \/ Runner \/ Body

(* A call into the wasm runs until it returns or traps.                    *)
Spec == Init /\ [][Next]_vars /\ WF_vars(Next)

-----------------------------------------------------------------------------
TypeOK ==
    /\ linked \in 0 .. MaxLinked
    /\ tests \in Seq(1 .. MaxLinked) /\ Len(tests) <= MaxTests
    /\ Len(log) <= LogCap /\ Len(said) <= LogCap
    /\ pc \in {"load", "loop", "body", "verdict", "buffer", "size", "exited"}
    /\ i \in 1 .. MaxTests + 1 /\ depth \in 0 .. 1 /\ steps \in 0 .. MaxSteps
    /\ failures \in 0 .. MaxSteps
    /\ passed \in 0 .. MaxTests /\ failed \in 0 .. MaxTests
    /\ total \in {Unreported} \cup 0 .. MaxTests /\ exit \in {NoExit, 0, 1}
    /\ ran \in Seq(1 .. MaxLinked) /\ broken \subseteq 1 .. MaxTests

(* The summary adds up: by then every entry of the registry, entries that  *)
(* tests added while running included, got one verdict, in the order of    *)
(* registration, and the failed ones are those where an assertion failed,  *)
(* in the body or in a helper.                                             *)
SummaryTrue ==
    total # Unreported =>
        /\ passed + failed = total
        /\ total >= Lesser(linked, MaxTests)
        /\ ran = SubSeq(tests, 1, total)
        /\ failed = Cardinality(broken)

(* The host reports success if and only if the whole registry was run and  *)
(* no assertion failed anywhere in it: a trap never counts as success, and *)
(* a failure in one test is not forgotten in the next.                     *)
ExitTellsTruth ==
    exit # NoExit => (exit = 0 <=> total # Unreported /\ broken = {})

(* The log is a prefix of what was said, whichever message it fills up in, *)
(* except for a terminator in its very last byte.                          *)
LogFaithful ==
    /\ TypeOK
    /\ Len(log) = Len(said)
    /\ \A k \in 1 .. Len(log) : log[k] = said[k] \/ (k = LogCap /\ log[k] = NUL)

(* The host exits, although tests may register tests while they run.       *)
Terminates == <>(exit # NoExit)

-----------------------------------------------------------------------------
(* wcs-test.h calls registration "Idempotent within a process".            *)
Idempotent == \A j, k \in DOMAIN tests : tests[j] = tests[k] => j = k
=============================================================================
