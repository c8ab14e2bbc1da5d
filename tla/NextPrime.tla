----------------------------- MODULE NextPrime ------------------------------
(***************************************************************************)
(* libcxx's std::__1::__next_prime(n), the bucket count that unordered_map *)
(* asks for: trial division by odd numbers in unsigned arithmetic modulo   *)
(* Words, one division a step.                                             *)
(***************************************************************************)
EXTENDS Integers

CONSTANT Root  \* 2^16

ASSUME RootAssumption == Root \in Nat /\ Root >= 4 /\ Root % 4 = 0

Words == Root * Root  \* the number of values of a size_t

VARIABLES arg,  \* what the caller passed
          n,    \* the candidate; at the end, what is returned
          i,    \* the next divisor
          pc    \* "divide", "advance", "done" or "trap"

vars == <<arg, n, i, pc>>

Init ==
    /\ arg \in 0 .. Words - 1
    /\ n  = IF arg <= 2 THEN 2 ELSE IF arg % 2 = 0 THEN arg + 1 ELSE arg
    /\ pc = IF arg <= 2 THEN "done" ELSE "divide"
    /\ i  = 3

(* i * i <= n, and the product wraps.                                      *)
MoreDivisors_Strict_Mutant == (i * i) % Words < n
MoreDivisors == (i * i) % Words <= n

Divide ==
    /\ pc = "divide" /\ MoreDivisors
    /\ IF n % i = 0 THEN pc' = "advance" /\ UNCHANGED i
       ELSE i' = (i + 2) % Words /\ UNCHANGED pc
    /\ UNCHANGED <<arg, n>>

Found ==
    /\ pc = "divide" /\ ~MoreDivisors
    /\ pc' = "done"
    /\ UNCHANGED <<arg, n, i>>

Advance_KeepDivisor_Mutant ==
    /\ pc = "advance"
    /\ n' = (n + 2) % Words
    /\ pc' = "divide"
    /\ UNCHANGED <<arg, i>>

Advance_SameNumber_Mutant == pc = "advance" /\ pc' = "divide" /\ i' = 3 /\ UNCHANGED <<arg, n>>

Advance ==
    /\ pc = "advance"
    /\ n' = (n + 2) % Words
    /\ pc' = IF n' = 0 THEN "trap" ELSE "divide"
    /\ i' = 3
    /\ UNCHANGED arg

Next == Divide \/ Found \/ Advance

(* The call runs until it returns.                                         *)
Spec == Init /\ [][Next]_vars /\ WF_vars(Next)

-----------------------------------------------------------------------------
Primes == {p \in 2 .. Words - 1 : \A d \in 2 .. p - 1 : p % d # 0}

TypeOK ==
    /\ arg \in 0 .. Words - 1 /\ n \in 1 .. Words - 1
    /\ i \in 3 .. Words - 1 /\ i % 2 = 1
    /\ pc \in {"divide", "advance", "done"}

(* The least prime from the argument on is returned, as long as one lies   *)
(* below the last eight numbers: squares of odd numbers are 1 modulo 8, so *)
(* above that the wrapped product never exceeds n and n is divided by      *)
(* itself.  Beyond, the candidates run out and wrap to 1.                  *)
Recognised == {p \in Primes : p < Words - 7}

ReturnsLeastPrime ==
    pc = "done" =>
        IF \E p \in Recognised : p >= arg
        THEN n \in Primes /\ n >= arg /\ \A q \in arg .. n - 1 : q \notin Primes
        ELSE n = 1

(* The search ends, although candidates and divisors wrap.                 *)
Terminates == <>(pc \in {"done", "trap"})

(* The comment "overflow -> trap" says that what is returned never wraps.  *)
ReturnsNoLess == pc = "done" => n >= arg
=============================================================================
