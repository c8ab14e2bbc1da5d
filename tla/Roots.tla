------------------------------- MODULE Roots --------------------------------
(***************************************************************************)
(* sqrt and hypot. sqrt's Goldschmidt iterations are known by the bound    *)
(* the code states for their result: any estimate within it is possible,   *)
(* so sqrt(x) is the set of what it may return, and hypot(x, y) too.       *)
(***************************************************************************)
EXTENDS Floats

CONSTANTS
    W,      \* bits of the word sqrt computes in: 64
    Gap,    \* beyond this difference of exponents hypot is a sum: 64
    High,   \* hypot scales what is above 2^High: 510
    Low,    \* and what is below 2^-Low: 450
    Scale   \* by 2^-Scale and 2^Scale: 700

(* A square of what is scaled neither overflows nor loses its last bits.   *)
RootAssumption ==
    /\ FormatAssumption /\ M % 2 = 1
    /\ 2 * High < Bias /\ High + Gap < Bias /\ Scale > Bias \div 2 /\ Low + M < Scale

(* The mantissa, in [1, 4), with W - 2 bits after the point, and the       *)
(* exponent field of the root (lines 40-52).                               *)
Reduced(x) ==
    LET ix  == IF Field(x) = 0 THEN Times(x, PowerOf2(M)) ELSE x
        top == IF Field(x) = 0 THEN Field(ix) - M ELSE Field(ix)
        m   == (2^M + Fraction(ix)) * 2^(W - 1 - M)
    IN  [m |-> IF top % 2 = 1 THEN m \div 2 ELSE m, top |-> (top + Bias) \div 2]

(* Line 135: s < sqrt(m) < s + 0x1.09p-52, in units of 2^-52; mm is m with *)
(* twice the bits of s after the point.                                    *)
Estimates(mm) ==
    {s \in 2^M - 1 .. 2^(M + 1) : (256 * s)^2 < 65536 * mm /\ 65536 * mm < (256 * s + 265)^2}

(* Lines 141-155: s or the next, in words that wrap; adding tiny changes   *)
(* nothing where rounding is to nearest.                                   *)
FinalRound_Truncating_Mutant(mm, s, top) == (s % 2^M) + top * 2^M
FinalRound(mm, s, top) ==
    LET d0   == (mm - s * s) % 2^W
        d1   == (s - d0) % 2^W
        d2   == (d1 + s + 1) % 2^W
        next == s + (d1 \div 2^(W - 1))
        y    == (next % 2^M) + top * 2^M
        tiny == IF d2 = 0 THEN 0 ELSE 2^M
        sign == IF (d1 \div 2^(W - 1)) # (d2 \div 2^(W - 1)) THEN 1 ELSE 0
    IN  Plus(y, Signed(sign, tiny))

sqrt(x) ==
    IF IsZero(x) \/ x = Inf THEN {x}
    ELSE IF x > Inf THEN {math_invalid(x)}
    ELSE LET r  == Reduced(x)
             mm == r.m * 2^(2 * M - (W - 2))
         IN  {FinalRound(mm, s, r.top) : s \in Estimates(mm)}

-----------------------------------------------------------------------------
(* x * x as a sum of two floats, by splitting x into halves.               *)
Split == PowerOf2((M + 2) \div 2)

Halves(xh, xl, hi) ==
    [hi |-> hi,
     lo |-> Plus(Plus(Minus(Times(xh, xh), hi), Times(Times(PowerOf2(1), xh), xl)), Times(xl, xl))]
SplitAt(x, xh) == Halves(xh, Minus(x, xh), Times(x, x))
HighHalf(x, xc) == Plus(Minus(x, xc), xc)
sq(x) == SplitAt(x, HighHalf(x, Plus(Times(x, Split), x)))

HypotOf(hx, hy, z) == {Times(z, r) : r \in sqrt(Plus(Plus(Plus(hy.lo, hx.lo), hy.hi), hx.hi))}
HypotScaled(x, y, z, by) == HypotOf(sq(Times(x, by)), sq(Times(y, by)), z)

HypotInOrder(x, y) ==   \* |x| >= |y|, both without their signs
    LET up == PowerOf2(Scale)
        dn == PowerOf2(-Scale)
    IN  IF Field(y) = Emax THEN {y}
        ELSE IF Field(x) = Emax \/ y = 0 THEN {x}
        ELSE IF Field(x) - Field(y) > Gap THEN {Plus(x, y)}
        ELSE IF Field(x) > Bias + High THEN HypotScaled(x, y, up, dn)
        ELSE IF Field(y) < Bias - Low THEN HypotScaled(x, y, dn, up)
        ELSE HypotScaled(x, y, One, One)

hypot(a, b) == HypotInOrder(Greatest(fabs(a), fabs(b)), Least(fabs(a), fabs(b)))

-----------------------------------------------------------------------------
(* y is the float nearest to the root of x: x lies between the squares of  *)
(* the two midpoints around y.                                             *)
SqrtExact(x, y) ==
    IF IsNan(x) \/ (IsNegative(x) /\ ~IsZero(x)) THEN IsNan(y)
    ELSE IF IsZero(x) \/ IsInf(x) THEN y = x
    ELSE LET sx == Sig(x) * 2^(Ulp(x) - (2 * Ulp(y) - 2))
         IN  /\ IsFinite(y) /\ ~IsNegative(y)
             /\ (2 * Sig(y) - 1)^2 < sx /\ sx < (2 * Sig(y) + 1)^2

(* The bit patterns next to r are its neighbours; an infinite one stands   *)
(* for the power of two after the largest float. r is off by less than one *)
(* of them, at any exponents: nothing overflows or underflows on the way.  *)
HypotClose(a, b, r) ==
    LET x == Greatest(fabs(a), fabs(b))
        y == Least(fabs(a), fabs(b))
        u == Ulp(y)
        Square(z) == (Sig(z) * 2^(Ulp(z) - u))^2
    IN  IF IsInf(a) \/ IsInf(b) THEN r = Inf
        ELSE IF IsNan(a) \/ IsNan(b) THEN IsNan(r)
        ELSE IF IsZero(y) THEN r = x
        ELSE IF Field(x) - Field(y) > Gap THEN r \in {x, x + 1}
        ELSE /\ r \in x .. Inf
             /\ Square(r - 1) < Square(x) + Square(y)
             /\ IsInf(r) \/ Square(x) + Square(y) < Square(r + 1)
=============================================================================
