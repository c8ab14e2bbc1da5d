------------------------------- MODULE Floats -------------------------------
(***************************************************************************)
(* A binary floating-point format in the shape of IEEE 754's double: a     *)
(* sign, an exponent field of bias Bias and M bits of significand, with    *)
(* subnormals, infinities and NaNs. A value is its bit pattern, a natural  *)
(* number, as the library reads it through unions and asuint64. The        *)
(* operations round to nearest, ties to even: WebAssembly has no other.    *)
(***************************************************************************)
EXTENDS Integers

CONSTANTS M,    \* bits of the significand field: 52 in a double
          Bias  \* of the exponent field: 0x3ff in a double

(* What a client of this module must give it.                             *)
FormatAssumption == M \in Nat \ {0} /\ Bias \in Nat \ {0}

Emax   == 2 * Bias + 1        \* the exponent field of infinities and NaNs
Inf    == Emax * 2^M
SignBit == (Emax + 1) * 2^M
Umin   == 1 - Bias - M        \* the exponent of the least subnormal
NaN    == Inf + 2^(M - 1)     \* the NaN that operations make
One    == Bias * 2^M
MaxFinite == Inf - 1

Double == 0 .. 2 * SignBit - 1  \* every bit pattern

IsNegative(x) == x >= SignBit
SignOf(x)     == IF IsNegative(x) THEN 1 ELSE 0
fabs(x)       == x % SignBit
Field(x)      == fabs(x) \div 2^M   \* the exponent field
Fraction(x)   == x % 2^M
IsNan(x)      == fabs(x) > Inf
IsInf(x)      == fabs(x) = Inf
IsZero(x)     == fabs(x) = 0
IsFinite(x)   == fabs(x) < Inf

Signed(sign, x)  == sign * SignBit + x
Neg(x)           == (x + SignBit) % (2 * SignBit)
copysign(x, y)   == Signed(SignOf(y), fabs(x))

(* Where x is finite, |x| = Sig(x) * 2^Ulp(x).                             *)
Sig(x) == IF Field(x) = 0 THEN Fraction(x) ELSE 2^M + Fraction(x)
Ulp(x) == (IF Field(x) = 0 THEN 1 ELSE Field(x)) - Bias - M

BitLength(n) == CHOOSE l \in 0 .. 30 : n < 2^l /\ (l = 0 \/ n >= 2^(l - 1))

Least(a, b)    == IF a < b THEN a ELSE b
Greatest(a, b) == IF a > b THEN a ELSE b

(* n / 2^d to the nearest integer, and to the even one of two.             *)
NearestEven(n, d) ==
    (n \div 2^d) + (IF 2 * (n % 2^d) + ((n \div 2^d) % 2) > 2^d THEN 1 ELSE 0)

(* n * 2^k in units of 2^u, to the nearest.                                *)
Rescaled(n, k, u) ==
    IF u <= k THEN n * 2^(k - u) ELSE IF u - k > 30 THEN 0 ELSE NearestEven(n, u - k)

(* The magnitude nearest to n * 2^k, whose significand has its last bit at *)
(* 2^u; a carry out of the significand moves on into the exponent field.   *)
Packed(n, k, u) == Least(Inf, (u - Umin) * 2^M + Rescaled(n, k, u))

(* The float nearest to (-1)^sign * n * 2^k.                               *)
Round(sign, n, k) ==
    Signed(sign, IF n = 0 THEN 0 ELSE Packed(n, k, Greatest(k + BitLength(n) - M - 1, Umin)))

(* 2^k, where that is a float.                                             *)
PowerOf2(k) == Round(0, 1, k)

Less(x, y) ==
    /\ ~IsNan(x) /\ ~IsNan(y)
    /\ IF IsNegative(x) THEN IF IsNegative(y) THEN fabs(x) > fabs(y)
                             ELSE ~IsZero(x) \/ ~IsZero(y)
       ELSE ~IsNegative(y) /\ x < y

Equal(x, y) == ~IsNan(x) /\ ~IsNan(y) /\ (x = y \/ (IsZero(x) /\ IsZero(y)))

(* Sums and products of finite floats. A wide gap leaves of the smaller    *)
(* operand only that it is there. A difference of equals is +0.            *)
SignedSum(sx, a, sy, b, u) ==   \* a >= b
    IF sx # sy /\ a = b THEN 0 ELSE Round(sx, IF sx = sy THEN a + b ELSE a - b, u)

AddMagnitudes(x, y, gap) ==  \* |x| >= |y|
    IF gap > M + 4
    THEN SignedSum(SignOf(x), Sig(x) * 2^(M + 4), SignOf(y), Least(1, Sig(y)), Ulp(x) - (M + 4))
    ELSE SignedSum(SignOf(x), Sig(x) * 2^gap, SignOf(y), Sig(y), Ulp(y))

Larger(x, y)  == IF fabs(x) >= fabs(y) THEN x ELSE y
Smaller(x, y) == IF fabs(x) >= fabs(y) THEN y ELSE x
AddInOrder(x, y) == AddMagnitudes(x, y, Ulp(x) - Ulp(y))

Plus(x, y) ==
    IF IsFinite(x) /\ IsFinite(y) THEN AddInOrder(Larger(x, y), Smaller(x, y))
    ELSE IF IsNan(x) \/ IsNan(y) \/ (IsInf(x) /\ y = Neg(x)) THEN NaN
    ELSE Larger(x, y)

Minus(x, y) == Plus(x, Neg(y))

SignOfProduct(x, y) == (SignOf(x) + SignOf(y)) % 2

Times(x, y) ==
    IF IsFinite(x) /\ IsFinite(y)
    THEN Round(SignOfProduct(x, y), Sig(x) * Sig(y), Ulp(x) + Ulp(y))
    ELSE IF IsNan(x) \/ IsNan(y) \/ IsZero(x) \/ IsZero(y) THEN NaN
    ELSE Signed(SignOfProduct(x, y), Inf)

(* n / d with one bit more, which says that something was left.            *)
StickyQuotient(n, d) == 2 * (n \div d) + Least(1, n % d)

(* k makes the quotient as long as a float, with bits to spare.            *)
Divided(sign, x, y, k) ==
    Round(sign, StickyQuotient(Sig(x) * 2^k, Sig(y)), Ulp(x) - Ulp(y) - k - 1)

Over(x, y) ==
    IF IsNan(x) \/ IsNan(y) \/ (IsZero(x) /\ IsZero(y)) \/ (IsInf(x) /\ IsInf(y)) THEN NaN
    ELSE IF IsZero(y) \/ IsInf(x) THEN Signed(SignOfProduct(x, y), Inf)
    ELSE IF IsZero(x) \/ IsInf(y) THEN Signed(SignOfProduct(x, y), 0)
    ELSE Divided(SignOfProduct(x, y), x, y, M + 2 + BitLength(Sig(y)) - BitLength(Sig(x)))

(* NaNs are told apart by no caller.                                       *)
Same(x, y) == x = y \/ (IsNan(x) /\ IsNan(y))

(* __math_xflow and its callers: huge is a float whose square overflows,   *)
(* tiny one whose square underflows to zero.                               *)
math_oflow(sign)   == Times(Signed(sign, PowerOf2((3 * Bias) \div 4)), PowerOf2((3 * Bias) \div 4))
math_uflow(sign)   == Times(Signed(sign, PowerOf2(0 - ((3 * Bias) \div 4))), PowerOf2(0 - ((3 * Bias) \div 4)))
math_divzero(sign) == Over(Signed(sign, One), 0)
math_invalid(x)    == Over(Minus(x, x), Minus(x, x))
=============================================================================
