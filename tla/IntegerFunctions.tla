-------------------------- MODULE IntegerFunctions --------------------------
(***************************************************************************)
(* The functions of libm whose result is exact: floor, ceil, trunc, round, *)
(* ilogb, scalbn (and ldexp), remquo, fmin and fmax, each computed as the  *)
(* code does, with its roundings and its integer widths, beside what the C *)
(* standard says it returns, in exact arithmetic.                          *)
(***************************************************************************)
EXTENDS Floats

CONSTANTS QBits,  \* bits of remquo's unsigned q: 32
          IntMax

(* scalbn's three steps cross the whole range; q holds the last bits.      *)
IntegerAssumption == FormatAssumption /\ Bias >= 3 * M + 6 /\ QBits \in Nat /\ QBits >= 4

IntMin == -1 - IntMax

-----------------------------------------------------------------------------
(* floor, ceil and round: adding and taking away 1/EPS leaves an integer   *)
(* next to x, but not always the one that is asked for.                    *)

toint == PowerOf2(M)
IsIntegral(x) == Field(x) >= Bias + M

IntegerNear(x) == IF IsNegative(x) THEN Plus(Minus(x, toint), toint)
                  ELSE Minus(Plus(x, toint), toint)

floor(x) ==
    LET y == Minus(IntegerNear(x), x)
    IN  IF IsIntegral(x) \/ IsZero(x) THEN x
        ELSE IF Field(x) <= Bias - 1 THEN IF IsNegative(x) THEN Neg(One) ELSE 0
        ELSE IF Less(0, y) THEN Minus(Plus(x, y), One) ELSE Plus(x, y)

ceil(x) ==
    LET y == Minus(IntegerNear(x), x)
    IN  IF IsIntegral(x) \/ IsZero(x) THEN x
        ELSE IF Field(x) <= Bias - 1 THEN IF IsNegative(x) THEN Neg(0) ELSE One
        ELSE IF Less(y, 0) THEN Plus(Plus(x, y), One) ELSE Plus(x, y)

Half == PowerOf2(-1)

round(x) ==
    LET a == fabs(x)
        y == Minus(IntegerNear(a), a)
        z == IF Less(Half, y) THEN Minus(Plus(y, a), One)
             ELSE IF Less(y, Neg(Half)) \/ Equal(y, Neg(Half)) THEN Plus(Plus(y, a), One)
             ELSE Plus(y, a)
    IN  IF IsIntegral(x) THEN x
        ELSE IF Field(x) < Bias - 1 THEN Signed(SignOf(x), 0)
        ELSE Signed(SignOf(x), z)

(* trunc clears the bits of the fraction: below one, all but the sign.     *)
trunc(x) ==
    LET mask == IF Field(x) < Bias THEN SignBit ELSE 2^(M - (Field(x) - Bias))
    IN  IF IsIntegral(x) THEN x ELSE x - (x % mask)

-----------------------------------------------------------------------------
ilogb(x) ==
    IF Field(x) = 0
    THEN IF IsZero(x) THEN IntMin
         ELSE (-Bias) - (M - BitLength(Fraction(x)))
    ELSE IF Field(x) = Emax THEN IF Fraction(x) # 0 THEN IntMin ELSE IntMax
    ELSE Field(x) - Bias

(* One multiplication for each step, and at most three: going down, each   *)
(* keeps clear of the subnormals so that only the last one rounds.         *)
Up   == PowerOf2(Bias)
Down == PowerOf2(1 - Bias + M + 1)
DownBy == Bias - 1 - (M + 1)

scalbn(x, n) ==
    LET up1 == n > Bias             \* which of the steps are taken
        up2 == n - Bias > Bias
        dn1 == n < 1 - Bias
        dn2 == n + DownBy < 1 - Bias
        y   == IF up1 THEN IF up2 THEN Times(Times(x, Up), Up) ELSE Times(x, Up)
               ELSE IF dn1 THEN IF dn2 THEN Times(Times(x, Down), Down) ELSE Times(x, Down)
               ELSE x
        k   == IF up1 THEN IF up2 THEN n - 2 * Bias ELSE n - Bias
               ELSE IF dn1 THEN IF dn2 THEN n + 2 * DownBy ELSE n + DownBy
               ELSE n
        n3  == IF k > Bias THEN Bias ELSE IF k < 1 - Bias THEN 1 - Bias ELSE k
    IN  Times(y, (Bias + n3) * 2^M)

ldexp(x, n) == scalbn(x, n)

-----------------------------------------------------------------------------
(* remquo, long division of the significands: the exponent field and the   *)
(* significand of a number, a subnormal's shifted up to where it would be. *)
NormExponent(x) == IF Field(x) = 0 THEN BitLength(Fraction(x)) - M ELSE Field(x)
NormSig(x) == IF Field(x) = 0 THEN Fraction(x) * 2^(1 - NormExponent(x)) ELSE Sig(x)

(* One round, on the remainder and the quotient so far.                    *)
Subtract(r, d) == IF r.x >= d THEN [x |-> r.x - d, q |-> (r.q + 1) % 2^QBits] ELSE r
ShiftUp(r) == [x |-> 2 * r.x, q |-> (2 * r.q) % 2^QBits]

(* Lines 45-58: x mod y and the quotient, x's exponent being k above y's.  *)
Divide(x, y, k) ==
    LET d == NormSig(y)
        r[i \in 0 .. k] == IF i = 0 THEN [x |-> NormSig(x), q |-> 0]
                           ELSE ShiftUp(Subtract(r[i - 1], d))
    IN  Subtract(r[k], d)

(* A significand with its exponent field, put back in a float's form.      *)
Pack(sig, ex) == IF ex > 0 THEN sig - 2^M + ex * 2^M ELSE sig \div 2^(1 - ex)

(* Line 75: is the nearest multiple of y one more?                         *)
RoundsUp(x, y, ex, ey, q) ==
    \/ ex = ey
    \/ /\ ex + 1 = ey
       /\ \/ Less(y, Times(PowerOf2(1), x))
          \/ Equal(Times(PowerOf2(1), x), y) /\ q % 2 = 1

remquo(x, y) ==
    LET ex == NormExponent(x)
        ey == NormExponent(y)
        r  == IF ex < ey THEN [x |-> NormSig(x), q |-> 0] ELSE Divide(x, y, ex - ey)
        e  == IF ex < ey THEN ex
              ELSE IF r.x = 0 THEN -(M + 8)
              ELSE ey - (M + 1 - BitLength(r.x))
        a  == Pack(IF r.x = 0 THEN 0 ELSE r.x * 2^(M + 1 - BitLength(r.x)), e)
        up == RoundsUp(a, fabs(y), e, ey, r.q)
        q  == (IF up THEN r.q + 1 ELSE r.q) % 2^(QBits - 1)
        z  == IF up THEN Minus(a, fabs(y)) ELSE a
    IN  IF IsZero(y) \/ IsNan(y) \/ Field(x) = Emax THEN [rem |-> NaN, quo |-> 0]
        ELSE IF IsZero(x) \/ ex + 1 < ey THEN [rem |-> x, quo |-> 0]
        ELSE [rem |-> IF IsNegative(x) THEN Neg(z) ELSE z,
              quo |-> IF SignOf(x) # SignOf(y) THEN -q ELSE q]

-----------------------------------------------------------------------------
fmax(x, y) ==
    IF IsNan(x) THEN y ELSE IF IsNan(y) THEN x
    ELSE IF SignOf(x) # SignOf(y) THEN IF IsNegative(x) THEN y ELSE x
    ELSE IF Less(x, y) THEN y ELSE x

fmin(x, y) ==
    IF IsNan(x) THEN y ELSE IF IsNan(y) THEN x
    ELSE IF SignOf(x) # SignOf(y) THEN IF IsNegative(x) THEN x ELSE y
    ELSE IF Less(x, y) THEN x ELSE y

-----------------------------------------------------------------------------
(* What the C standard promises. A finite x is an exact number of units.   *)
Units(x) == (IF IsNegative(x) THEN -1 ELSE 1) * Sig(x) * 2^(Ulp(x) - Umin)
UnitsOfOne == 2^(-Umin)

(* x with its value replaced by the integer n, and its sign kept on zero.  *)
IsInteger(z, n, x) ==
    IF ~IsFinite(x) \/ IsZero(x) THEN Same(z, x)
    ELSE IF n = 0 THEN z = Signed(SignOf(x), 0)
    ELSE z = Round(IF n < 0 THEN 1 ELSE 0, IF n < 0 THEN -n ELSE n, 0)

RoundedToInteger(fn, x) ==
    LET v == Units(x)
    IN   CASE fn = "floor" -> v \div UnitsOfOne
          [] fn = "ceil"  -> -((-v) \div UnitsOfOne)
          [] fn = "trunc" -> IF v < 0 THEN -((-v) \div UnitsOfOne) ELSE v \div UnitsOfOne
          [] fn = "round" -> IF v < 0 THEN -((UnitsOfOne - 2 * v) \div (2 * UnitsOfOne))
                             ELSE (UnitsOfOne + 2 * v) \div (2 * UnitsOfOne)

(* n / d to the nearest integer, ties to even, for natural numbers.        *)
NearestQuotient(n, d) ==
    LET q == n \div d
        t == 2 * (n % d)
    IN  IF t > d \/ (t = d /\ q % 2 = 1) THEN q + 1 ELSE q

RemquoRight(x, y, r) ==
    IF ~IsFinite(x) \/ IsNan(y) \/ IsZero(y) THEN IsNan(r.rem)
    ELSE IF IsInf(y) \/ IsZero(x) THEN r = [rem |-> x, quo |-> 0]
    ELSE LET a == Units(fabs(x))
             b == Units(fabs(y))
             n == NearestQuotient(a, b)
             v == IF IsNegative(x) THEN n * b - a ELSE a - n * b
             q == IF SignOf(x) = SignOf(y) THEN r.quo ELSE -r.quo
         IN  /\ IsFinite(r.rem) /\ Units(r.rem) = v
             /\ v = 0 => SignOf(r.rem) = SignOf(x)
             /\ q >= 0 /\ q = n % 2^(QBits - 1)

(* The larger, where -0 is less than +0 and a NaN is a missing operand.    *)
Below(x, y) == Less(x, y) \/ (Equal(x, y) /\ SignOf(x) >= SignOf(y))

Exact(fn, x, y, n, r) ==
    CASE fn \in {"floor", "ceil", "trunc", "round"} -> IsInteger(r, RoundedToInteger(fn, x), x)
      [] fn = "ilogb" -> IF ~IsFinite(x) \/ IsZero(x)
                         THEN r = IF IsInf(x) THEN IntMax ELSE IntMin
                         ELSE r = Ulp(x) + BitLength(Sig(x)) - 1
      [] fn \in {"scalbn", "ldexp"} ->
                          IF ~IsFinite(x) THEN Same(r, x)
                          ELSE r = Round(SignOf(x), Sig(x), Ulp(x) + n)
      [] fn = "remquo" -> RemquoRight(x, y, r)
      [] fn = "fmax" -> IF IsNan(x) THEN Same(r, y) ELSE IF IsNan(y) THEN r = x
                        ELSE r \in {x, y} /\ Below(x, r) /\ Below(y, r)
      [] fn = "fmin" -> IF IsNan(x) THEN Same(r, y) ELSE IF IsNan(y) THEN r = x
                        ELSE r \in {x, y} /\ Below(r, x) /\ Below(r, y)

Apply(fn, x, y, n) ==
    CASE fn = "floor"  -> floor(x)
      [] fn = "ceil"   -> ceil(x)
      [] fn = "trunc"  -> trunc(x)
      [] fn = "round"  -> round(x)
      [] fn = "ilogb"  -> ilogb(x)
      [] fn = "scalbn" -> scalbn(x, n)
      [] fn = "ldexp"  -> ldexp(x, n)
      [] fn = "remquo" -> remquo(x, y)
      [] fn = "fmax"   -> fmax(x, y)
      [] fn = "fmin"   -> fmin(x, y)
=============================================================================
