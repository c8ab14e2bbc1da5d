-------------------------- MODULE NextPrimeProofs ---------------------------
(***************************************************************************)
(* Proofs about NextPrime for every word width.                            *)
(***************************************************************************)
EXTENDS NextPrime, TLAPS

(* Candidates are odd, and so are divisors, which never pass the candidate *)
(* they are tried on: this is what keeps both from wrapping to 0.          *)
Typed ==
    /\ arg \in 0 .. Words - 1 /\ n \in 1 .. Words - 1
    /\ i \in 3 .. Words - 1 /\ i % 2 = 1
    /\ pc \in {"divide", "advance", "done"}

InStep ==
    /\ pc # "done" => n % 2 = 1
    /\ pc = "advance" => n >= 3
    /\ pc = "divide" => i <= n \/ (n = 1 /\ i = 3)

IInv == Typed /\ InStep

LEMMA WordsAssumption == Words \in Nat /\ Words >= 16 /\ Words % 8 = 0
  <1>1. PICK k \in Nat : Root = 4 * k /\ k >= 1
    <2>1. Root = 4 * (Root \div 4) /\ Root \div 4 \in Nat /\ Root \div 4 >= 1
      BY RootAssumption, SMT
    <2> QED
      BY <2>1
  <1>2. PICK j \in Nat : j = k * k /\ j >= 1
    <2>1. k * k \in Nat /\ k * k >= 1
      BY <1>1, SMT
    <2> QED
      BY <2>1
  <1>3. Words = 16 * j
    <2>1. (4 * k) * (4 * k) = 16 * (k * k)
      BY SMT
    <2> QED
      BY <1>1, <1>2, <2>1 DEF Words
  <1> QED
    BY <1>2, <1>3, SMT

LEMMA InitIInv == Init => IInv
  BY WordsAssumption, SMTT(30) DEF Init, IInv, Typed, InStep

(* A number below Words is its own remainder.                              *)
LEMMA SmallMod == \A x \in Nat : x < Words => x % Words = x
  BY WordsAssumption, SMT

(* An odd number modulo an even one is odd.                                *)
LEMMA WordsEven == Words % 2 = 0
  BY WordsAssumption, SMT

LEMMA DivideKeeps == IInv /\ Divide => IInv'
  <1> SUFFICES ASSUME IInv, Divide PROVE IInv'
    OBVIOUS
  <1> USE DEF IInv, Typed, InStep
  <1>1. i <= n
    <2>1. CASE n = 1 /\ i = 3
      <3>1. (i * i) % Words = 9
        BY <2>1, SmallMod, WordsAssumption, SMT
      <3> QED
        BY <2>1, <3>1, SMT DEF Divide, MoreDivisors
    <2> QED
      BY <2>1 DEF Divide
  <1>2. CASE n % i = 0
    BY <1>1, <1>2, SMT DEF Divide
  <1>3. CASE n % i # 0
    <2>1. i # n
      <3>1. n % n = 0
        BY SMT
      <3> QED
        BY <1>3, <3>1
    <2>2. i + 2 <= n
      BY <1>1, <2>1, SMT DEF Divide
    <2>3. i' = i + 2
      <3>1. i + 2 \in Nat /\ i + 2 < Words
        BY <2>2, WordsAssumption, SMT
      <3> QED
        BY <3>1, <1>3, SmallMod DEF Divide
    <2> QED
      BY <2>2, <2>3, <1>3, WordsAssumption, SMT DEF Divide
  <1> QED
    BY <1>2, <1>3

LEMMA FoundKeeps == IInv /\ Found => IInv'
  BY DEF IInv, Typed, InStep, Found

LEMMA AdvanceKeeps == IInv /\ Advance => IInv'
  <1> SUFFICES ASSUME IInv, Advance PROVE IInv'
    OBVIOUS
  <1> USE DEF IInv, Typed, InStep
  <1>1. n % 2 = 1 /\ n >= 3 /\ n \in 1 .. Words - 1
    BY DEF Advance
  <1>2. CASE n = Words - 1
    <2>1. n' = 1
      BY <1>2, WordsAssumption, SMT DEF Advance
    <2> QED
      BY <2>1, WordsAssumption DEF Advance
  <1>3. CASE n # Words - 1
    <2>1. n + 2 < Words
      BY <1>1, <1>3, WordsEven, WordsAssumption, SMT
    <2>2. n' = n + 2
      BY <2>1, <1>1, SmallMod DEF Advance
    <2> QED
      BY <1>1, <2>1, <2>2, WordsAssumption, SMT DEF Advance
  <1> QED
    BY <1>2, <1>3

THEOREM Inductive == Spec => []IInv
  <1>1. IInv /\ [Next]_vars => IInv'
    <2>1. IInv /\ UNCHANGED vars => IInv'
      BY DEF IInv, Typed, InStep, vars
    <2> QED
      BY <2>1, DivideKeeps, FoundKeeps, AdvanceKeeps DEF Next
  <1> QED
    BY <1>1, InitIInv, PTL DEF Spec

(* __next_prime never traps: the candidate it tests against 0 is odd, so   *)
(* the overflow it looks for never shows as 0.                             *)
THEOREM NeverTraps == Spec => []TypeOK
  <1>1. IInv => TypeOK
    BY DEF IInv, Typed, TypeOK
  <1> QED
    BY <1>1, Inductive, PTL

-----------------------------------------------------------------------------
(* Trial division is exact while squares do not wrap.                      *)

(* A number with an odd divisor is that divisor times its cofactor.        *)
LEMMA Cofactor ==
  ASSUME NEW x \in Nat, NEW d \in Nat, d > 0, x % d = 0
  PROVE  \E e \in Nat : x = d * e
  <1> DEFINE q == x \div d
  <1>1. x = d * q + (x % d) /\ q \in Nat
    BY SMT
  <1>2. x = d * q
    <2>1. d * q \in Int
      BY <1>1, SMT
    <2> HIDE DEF q
    <2> QED
      BY <1>1, <2>1, SMT
  <1> QED
    BY <1>1, <1>2

LEMMA DivisorOfProduct ==
  ASSUME NEW d \in Nat, NEW e \in Nat, e > 0
  PROVE  (d * e) % e = 0
  BY SMT

LEMMA OddFactor ==
  ASSUME NEW d \in Nat, NEW e \in Nat, (d * e) % 2 = 1
  PROVE  d % 2 = 1
  <1> SUFFICES ASSUME d % 2 = 0 PROVE FALSE
    BY SMT
  <1>1. PICK k \in Nat : d = 2 * k
    BY Cofactor, SMT
  <1>2. PICK j \in Nat : j = k * e
    <2>1. k * e \in Nat
      BY SMT
    <2> QED
      BY <2>1
  <1>3. d * e = 2 * j
    <2>1. (2 * k) * e = 2 * (k * e)
      BY SMT
    <2> QED
      BY <1>1, <1>2, <2>1
  <1> QED
    BY <1>3, SMT

LEMMA Monotone ==
  ASSUME NEW a \in Nat, NEW b \in Nat, NEW c \in Nat, NEW d \in Nat, a <= c, b <= d
  PROVE  a * b <= c * d
  BY SMTT(30)

(* If no odd number below i divides the odd number x, and x is less than   *)
(* the square of i, then x is prime.                                       *)
LEMMA OddTrial ==
  ASSUME NEW x \in 3 .. Words - 1, x % 2 = 1, NEW k \in Nat, k >= 3, x < k * k,
         \A d \in 3 .. k - 1 : d % 2 = 1 => x % d # 0
  PROVE  x \in Primes
  <1> SUFFICES ASSUME NEW d \in 2 .. x - 1, x % d = 0 PROVE FALSE
    <2>1. x \in 2 .. Words - 1
      BY WordsAssumption, SMT
    <2> QED
      BY <2>1 DEF Primes
  <1>0. d \in Nat /\ d > 0 /\ x \in Nat
    BY WordsAssumption, SMT
  <1>1. PICK e \in Nat : x = d * e
    BY <1>0, Cofactor
  <1>2. x = e * d
    BY <1>1, SMT
  <1>3. d % 2 = 1 /\ e % 2 = 1
    <2>1. d \in Nat
      BY SMT
    <2> QED
      BY <1>1, <1>2, <2>1, OddFactor
  <1>4. d >= k
    <2>1. ~ (d \in 3 .. k - 1)
      BY <1>3
    <2>2. d # 2
      BY <1>3, SMT
    <2> QED
      BY <1>0, <2>1, <2>2, SMT
  <1>5. e > 1
    <2>1. CASE e = 0
      BY <1>1, <2>1, SMT
    <2>2. CASE e = 1
      BY <1>1, <2>2, SMT
    <2> QED
      BY <2>1, <2>2, SMT
  <1>6. x % e = 0
    <2>1. e > 0
      BY <1>5, SMT
    <2> QED
      BY <1>0, <1>1, <2>1, DivisorOfProduct
  <1>7. e >= k
    <2>1. ~ (e \in 3 .. k - 1)
      BY <1>3, <1>6
    <2>2. e # 2
      BY <1>3, SMT
    <2> QED
      BY <1>5, <2>1, <2>2, SMT
  <1>8. k * k <= d * e
    BY <1>0, <1>4, <1>7, Monotone
  <1>9. k * k \in Nat
    BY SMT
  <1> QED
    BY <1>0, <1>1, <1>8, <1>9, SMT

LEMMA Composite ==
  ASSUME NEW x \in Nat, NEW d \in 2 .. x - 1, x % d = 0
  PROVE  x \notin Primes
  BY DEF Primes

(* Where the square of every divisor that matters is a size_t.             *)
Square == (Root - 1) * (Root - 1)

(* A prime is returned, or 1; and a prime from the argument on that is     *)
(* below the square is never passed by, not even by a search that wraps.   *)
LeastBelowSquare ==
    pc = "done" =>
        /\ n = 1 \/ (n \in Primes /\ n >= arg)
        /\ \A q \in Primes : q >= arg /\ q < Square => n \in arg .. q

(* The numbers that the search has left behind.                            *)
Passed(q) == n < arg \/ q < n

(* What the search knows.  Every odd divisor below i was tried, whether or *)
(* not a square has wrapped.                                               *)
Exact ==
    arg > 2 =>
        /\ \A q \in arg .. Words - 1 : Passed(q) /\ q < Square => q \notin Primes
        /\ pc = "divide" => \A d \in 3 .. i - 1 : d % 2 = 1 => n % d # 0
        /\ pc = "divide" /\ n < Square => i <= Root - 1
        /\ pc = "advance" /\ n < Square => n % i = 0 /\ i < n
        /\ pc = "done" => n = 1 \/ n \in Primes

(* Candidates go up from the argument until they wrap to 1.                *)
Onwards == IF arg <= 2 THEN pc = "done" /\ n = 2 ELSE n >= arg \/ n = 1

(* Squares up to that of Root - 1 do not wrap.                             *)
LEMMA SquareBelow == \A k \in Nat : k <= Root - 1 => k * k < Words /\ (k * k) % Words = k * k
  <1> SUFFICES ASSUME NEW k \in Nat, k <= Root - 1 PROVE k * k < Words /\ (k * k) % Words = k * k
    OBVIOUS
  <1>1. k * k <= (Root - 1) * (Root - 1)
    BY RootAssumption, Monotone, SMT
  <1>2. (Root - 1) * (Root - 1) < Root * Root
    BY RootAssumption, SMT
  <1>3. k * k \in Nat /\ (Root - 1) * (Root - 1) \in Int /\ Root * Root \in Int
    BY RootAssumption, SMT
  <1>4. k * k < Words
    BY <1>1, <1>2, <1>3, SMT DEF Words
  <1> QED
    BY <1>3, <1>4, SmallMod

EInv == IInv /\ Onwards /\ Exact

LEMMA EvenComposite == \A x \in Nat : x > 2 /\ x % 2 = 0 => x \notin Primes
  <1> SUFFICES ASSUME NEW x \in Nat, x > 2, x % 2 = 0 PROVE x \notin Primes
    OBVIOUS
  <1>1. 2 \in 2 .. x - 1
    BY SMT
  <1> QED
    BY <1>1, Composite

(* EInv holds at first, and each action preserves its parts.               *)
LEMMA InitEInv == Init => EInv
  <1> SUFFICES ASSUME Init PROVE EInv
    OBVIOUS
  <1>1. Onwards
    BY WordsAssumption, SMT DEF Init, Onwards
  <1>2. ASSUME arg > 2 PROVE Exact
    <2>1. pc = "divide" /\ i = 3 /\ i <= Root - 1 /\ n >= arg
      BY <1>2, RootAssumption, WordsAssumption, SMT DEF Init
    <2>2. ASSUME NEW q \in arg .. Words - 1, Passed(q) PROVE q \notin Primes
      <3>1. q \in Nat /\ q > 2 /\ q % 2 = 0
        BY <1>2, <2>2, WordsAssumption, SMT DEF Init, Passed
      <3> QED
        BY <3>1, EvenComposite
    <2>3. \A d \in 3 .. i - 1 : d % 2 = 1 => n % d # 0
      BY <2>1, SMT
    <2> QED
      BY <2>1, <2>2, <2>3 DEF Exact
  <1> QED
    BY <1>1, <1>2, InitIInv DEF EInv, Exact

LEMMA DivideExact == EInv /\ Divide => Exact'
  <1> SUFFICES ASSUME EInv, Divide, arg > 2 PROVE Exact'
    BY DEF Exact, Divide
  <1>1. n' = n /\ arg' = arg /\ pc = "divide"
    BY DEF Divide
  <1>2. /\ \A d \in 3 .. i - 1 : d % 2 = 1 => n % d # 0
        /\ n < Square => i <= Root - 1
        /\ \A q \in arg' .. Words - 1 : Passed(q)' /\ q < Square => q \notin Primes
    BY <1>1 DEF EInv, Exact, Passed
  <1>3. i \in Nat /\ i % 2 = 1 /\ i >= 3 /\ n \in Nat /\ n < Words
    BY WordsAssumption, SMT DEF EInv, IInv, Typed
  <1>4. ASSUME n < Square PROVE i * i <= n /\ i < n
    <2>1. i * i <= n
      BY <1>2, <1>3, <1>4, SquareBelow DEF Divide, MoreDivisors
    <2>2. 3 * i <= i * i
      BY <1>3, Monotone, SMT
    <2> QED
      BY <1>3, <2>1, <2>2, SMT
  <1>5. CASE n % i = 0
    <2>1. pc' = "advance" /\ i' = i
      BY <1>5 DEF Divide
    <2> QED
      BY <1>1, <1>2, <1>4, <1>5, <2>1 DEF Exact
  <1>6. CASE n % i # 0
    <2>1. i + 2 < Words
      <3>1. i <= n \/ (n = 1 /\ i = 3)
        BY <1>1 DEF EInv, IInv, InStep
      <3>2. i # n
        BY <1>3, <1>6, SMT
      <3>3. n % 2 = 1
        BY <1>1 DEF EInv, IInv, InStep
      <3> QED
        BY <1>3, <3>1, <3>2, <3>3, WordsAssumption, SMT
    <2>2. i' = i + 2 /\ pc' = "divide"
      BY <1>1, <1>3, <1>6, <2>1, SmallMod, SMT DEF Divide
    <2>3. ASSUME NEW d \in 3 .. i' - 1, d % 2 = 1 PROVE n % d # 0
      <3>1. d \in 3 .. i - 1 \/ d = i
        BY <1>3, <2>2, <2>3, SMT
      <3> QED
        BY <1>2, <1>6, <2>3, <3>1
    <2>4. ASSUME n < Square PROVE i' <= Root - 1
      <3>1. i # Root - 1
        BY <1>3, <1>4, <2>4, RootAssumption, SMT DEF Square
      <3> QED
        BY <1>2, <1>3, <2>2, <2>4, <3>1, RootAssumption, SMT
    <2> QED
      BY <1>1, <1>2, <2>2, <2>3, <2>4 DEF Exact
  <1> QED
    BY <1>5, <1>6

(* The candidate that ends the search: either the square of the divisor is *)
(* exact, or every odd number below Root was tried.                        *)
LEMMA FoundExact == EInv /\ Found => Exact'
  <1> SUFFICES ASSUME EInv, Found, arg > 2 PROVE Exact'
    BY DEF Exact, Found
  <1>1. n' = n /\ arg' = arg /\ pc = "divide" /\ pc' = "done"
    BY DEF Found
  <1>2. /\ \A d \in 3 .. i - 1 : d % 2 = 1 => n % d # 0
        /\ \A q \in arg' .. Words - 1 : Passed(q)' /\ q < Square => q \notin Primes
    BY <1>1 DEF EInv, Exact, Passed
  <1>3. i \in Nat /\ i >= 3 /\ n % 2 = 1 /\ n \in 1 .. Words - 1 /\ n \in Nat
    BY <1>1, WordsAssumption, SMT DEF EInv, IInv, Typed, InStep
  <1>4. ASSUME n # 1 PROVE n \in Primes
    <2>1. n \in 3 .. Words - 1
      BY <1>3, <1>4, WordsAssumption, SMT
    <2>2. CASE i <= Root - 1
      <3>1. (i * i) % Words = i * i /\ i * i \in Nat
        BY <1>3, <2>2, SquareBelow, SMT
      <3>2. n < i * i
        BY <1>3, <3>1, SMT DEF Found, MoreDivisors
      <3> QED
        BY <1>2, <1>3, <2>1, <3>2, OddTrial
    <2>3. CASE ~(i <= Root - 1)
      <3>1. Root \in Nat /\ Root >= 3 /\ n < Root * Root
        BY <1>3, RootAssumption, WordsAssumption, SMT DEF Words
      <3>2. \A d \in 3 .. Root - 1 : d \in 3 .. i - 1
        BY <1>3, <2>3, RootAssumption, SMT
      <3> QED
        BY <1>2, <1>3, <2>1, <3>1, <3>2, OddTrial
    <2> QED
      BY <2>2, <2>3
  <1> QED
    BY <1>1, <1>2, <1>4 DEF Exact

LEMMA AdvanceExact == EInv /\ Advance => Exact'
  <1> SUFFICES ASSUME EInv, Advance, arg > 2 PROVE Exact'
    BY DEF Exact, Advance
  <1>0. /\ n \in Nat /\ n % 2 = 1 /\ n >= 3 /\ n < Words
        /\ arg \in Nat /\ arg' = arg /\ i \in Nat /\ i >= 3 /\ pc = "advance"
    BY WordsAssumption, SMT DEF EInv, IInv, Typed, InStep, Advance
  <1>1. n >= arg
    BY <1>0, SMT DEF EInv, Onwards
  <1>2. /\ n = Words - 1 => n' = 1
        /\ n # Words - 1 => n' = n + 2
    <2>1. ASSUME n = Words - 1 PROVE n' = 1
      BY <2>1, WordsAssumption, SMT DEF Advance
    <2>2. ASSUME n # Words - 1 PROVE n' = n + 2
      <3>1. n + 2 < Words
        BY <1>0, <2>2, WordsEven, WordsAssumption, SMT
      <3> QED
        BY <1>0, <3>1, SmallMod, SMT DEF Advance
    <2> QED
      BY <2>1, <2>2
  <1>3. ASSUME NEW q \in arg .. Words - 1, Passed(q)', q < Square PROVE q \notin Primes
    <2>0. q \in Nat /\ q < Words /\ arg <= q
      BY <1>0, WordsAssumption, SMT
    <2>1. q < n \/ q = n \/ q = n + 1
      <3>1. CASE n = Words - 1
        BY <1>0, <2>0, <3>1, WordsAssumption, SMT
      <3>2. CASE n # Words - 1
        <4>1. n' = n + 2
          BY <1>2, <3>2
        <4>2. n' < arg' \/ q < n'
          BY <1>3 DEF Passed
        <4> QED
          BY <1>0, <1>1, <2>0, <4>1, <4>2, SMT
      <3> QED
        BY <3>1, <3>2
    <2>2. CASE q < n
      BY <1>3, <2>2 DEF EInv, Exact, Passed
    <2>3. CASE q = n
      <3>1. n % i = 0 /\ i < n
        BY <1>0, <1>3, <2>3 DEF EInv, Exact
      <3>2. i \in 2 .. n - 1
        BY <1>0, <3>1, SMT
      <3> QED
        BY <1>0, <2>3, <3>1, <3>2, Composite
    <2>4. CASE q = n + 1
      <3>1. q > 2 /\ q % 2 = 0
        BY <1>0, <2>4, SMT
      <3> QED
        BY <2>0, <3>1, EvenComposite
    <2> QED
      BY <2>1, <2>2, <2>3, <2>4
  <1>4. pc' = "divide" /\ i' = 3
    BY <1>0, <1>2, SMT DEF Advance
  <1>5. i' <= Root - 1 /\ \A d \in 3 .. i' - 1 : d % 2 = 1 => n' % d # 0
    BY <1>4, RootAssumption, SMT
  <1> QED
    BY <1>0, <1>3, <1>4, <1>5 DEF Exact

LEMMA OnwardsKept == EInv /\ Next => Onwards'
  <1> SUFFICES ASSUME EInv, Next PROVE Onwards'
    OBVIOUS
  <1>1. CASE Divide
    BY <1>1 DEF EInv, Onwards, Divide
  <1>2. CASE Found
    BY <1>2 DEF EInv, Onwards, Found
  <1>3. CASE Advance
    <2>1. n \in Nat /\ n >= 3 /\ n < Words /\ arg \in Nat /\ arg' = arg /\ arg > 2 /\ n >= arg
      BY <1>3, WordsAssumption, SMT DEF EInv, IInv, Typed, InStep, Advance, Onwards
    <2>2. CASE n + 2 < Words
      <3>1. n' = n + 2
        BY <2>1, <2>2, <1>3, SmallMod, SMT DEF Advance
      <3> QED
        BY <2>1, <3>1, SMT DEF Onwards
    <2>3. CASE ~ (n + 2 < Words)
      <3>1. n = Words - 1
        BY <1>3, <2>1, <2>3, WordsEven, WordsAssumption, SMT DEF EInv, IInv, InStep, Advance
      <3>2. n' = 1
        BY <1>3, <3>1, WordsAssumption, SMT DEF Advance
      <3> QED
        BY <2>1, <3>2, SMT DEF Onwards
    <2> QED
      BY <2>2, <2>3
  <1> QED
    BY <1>1, <1>2, <1>3 DEF Next

(* What __next_prime returns is prime or the wrapped candidate 1, for     *)
(* every word width, and no prime below the square that lies at or beyond  *)
(* the argument is passed by: if there is one, the least prime comes back. *)
THEOREM LeastPrimeBelowSquare == Spec => []LeastBelowSquare
  <1>1. EInv /\ [Next]_vars => EInv'
    <2>1. EInv /\ Next => EInv'
      BY OnwardsKept, DivideKeeps, FoundKeeps, AdvanceKeeps, DivideExact, FoundExact,
         AdvanceExact DEF Next, EInv
    <2>2. EInv /\ UNCHANGED vars => EInv'
      BY DEF EInv, IInv, Typed, InStep, Onwards, Exact, Passed, vars
    <2> QED
      BY <2>1, <2>2
  <1>2. EInv => LeastBelowSquare
    <2> SUFFICES ASSUME EInv, pc = "done"
                 PROVE  /\ n = 1 \/ (n \in Primes /\ n >= arg)
                        /\ \A q \in Primes : q >= arg /\ q < Square => n \in arg .. q
      BY DEF LeastBelowSquare
    <2>1. arg \in Nat /\ n \in Nat /\ n >= 1 /\ \A q \in Primes : q \in Nat /\ q >= 2 /\ q < Words
      BY WordsAssumption, SMT DEF EInv, IInv, Typed, Primes
    <2>2. CASE arg <= 2
      <3>1. n = 2
        BY <2>2 DEF EInv, Onwards
      <3>2. 2 \in Primes
        BY WordsAssumption, SMT DEF Primes
      <3> QED
        BY <2>1, <2>2, <3>1, <3>2, SMT
    <2>3. CASE arg > 2
      <3>1. n >= arg \/ n = 1
        BY <2>1, <2>3, SMT DEF EInv, Onwards
      <3>2. n = 1 \/ n \in Primes
        BY <2>3 DEF EInv, Exact
      <3>3. ASSUME NEW q \in Primes, q >= arg, q < Square PROVE n \in arg .. q
        <4>1. q \in arg .. Words - 1
          BY <2>1, <3>3, WordsAssumption, SMT
        <4>2. ~Passed(q)
          BY <2>3, <3>3, <4>1 DEF EInv, Exact
        <4> QED
          BY <2>1, <3>3, <4>2, SMT DEF Passed
      <3>4. n # 1 => n >= arg
        BY <3>1
      <3> QED
        BY <3>2, <3>3, <3>4
    <2> QED
      BY <2>1, <2>2, <2>3, SMT
  <1> QED
    BY <1>1, <1>2, InitEInv, PTL DEF Spec
=============================================================================
