------------------------------- MODULE ExpLog -------------------------------
(***************************************************************************)
(* log, log2, log10, exp and pow, on the first 24 bits of a double: the    *)
(* sign, all of the exponent field and 12 bits of the significand, so that *)
(* the code's thresholds and its tables' indices, taken from these bits,   *)
(* are as they are there (M = 12, Bias = 1023). Logarithms are returned in *)
(* fixed point, <<"fixed", n>>, or as a float, <<"float", bits>>.          *)
(*                                                                         *)
(* The sums and polynomials are in fixed point too, without those terms    *)
(* that are less than its last bit; the doubles that carry a rounding      *)
(* error on (lo, tail) have no part in it. What libm.h switches off, other *)
(* rounding modes and signaling NaNs, is left out (WANT_ROUNDING and       *)
(* WANT_SNAN are 0).                                                       *)
(***************************************************************************)
EXTENDS FixedPoint, LogTables

Fixed(n) == <<"fixed", n>>
Float(b) == <<"float", b>>

(* Lines that log and log2 share: x outside the normal positive floats.    *)
LogSpecial(x) ==
    IF IsZero(x) THEN Float(math_divzero(1))
    ELSE IF x = Inf THEN Float(x)
    ELSE Float(math_invalid(x))

(* A subnormal's pattern with the exponent field it would have, below 0.   *)
Normalize(x) == IF Field(x) = 0 THEN Times(x, PowerOf2(M)) - M * 2^M ELSE x

(* x = 2^k z, where z is in the i-th of n pieces of [OFF, 2*OFF).          *)
Piece_TowardZero_Mutant(ix, off, n) ==
    LET tmp == ix - off
        k   == IF tmp < 0 THEN -((-tmp) \div 2^M) ELSE tmp \div 2^M
    IN  [i |-> (((tmp * n) \div 2^M) % n) + 1, k |-> k, z |-> ToFixed(ix - k * 2^M)]

Piece(ix, off, n) ==
    LET tmp == ix - off
        k   == tmp \div 2^M
    IN  [i |-> (((tmp * n) \div 2^M) % n) + 1, k |-> k, z |-> ToFixed(ix - k * 2^M)]

-----------------------------------------------------------------------------
log_OFF == 4187648  \* 0x3fe600
log_LO  == 4189696  \* 1 - 2^-4, and HI is 1 + 0x1.09p-4
log_HI  == 4190473
log_poly1 == <<-524288, 349525, -262144, 209715, -174763, 149797, -131072, 116504, -104863,
               96280, -87329>>

log(x) ==
    LET p  == Piece(Normalize(x), log_OFF, 128)
        r1 == ToFixed(x) - F
        r  == Mul(p.z - log_chi[p.i], log_invc[p.i])
    IN  IF x \in log_LO .. log_HI - 1 THEN Fixed(r1 + Mul(Mul(r1, r1), Poly(log_poly1, r1)))
        ELSE IF IsZero(x) \/ IsNegative(x) \/ ~IsFinite(x) THEN LogSpecial(x)
        ELSE Fixed(Ln2(p.k) + log_logc[p.i] + r - (Mul(r, r) \div 2))

log2_OFF == 4187648
log2_LO  == 4189861  \* 1 - 0x1.5b51p-5 and 1 + 0x1.6ab2p-5, rounded up to
log2_HI  == 4190390  \* 24 bits: the same patterns are below as in the code
InvLn2   == 1512775
log2_poly1 == <<-756388, 504258, -378194, 302555, -252129, 216111, -189096, 168090, -151869,
                136806>>
log2_poly == <<-756388, 504258>>

log2(x) ==
    LET p  == Piece(Normalize(x), log2_OFF, 64)
        r1 == ToFixed(x) - F
        r  == Mul(p.z - log2_chi[p.i], log2_invc[p.i])
    IN  IF x \in log2_LO .. log2_HI - 1
        THEN Fixed(Mul(r1, InvLn2) + Mul(Mul(r1, r1), Poly(log2_poly1, r1)))
        ELSE IF IsZero(x) \/ IsNegative(x) \/ ~IsFinite(x) THEN LogSpecial(x)
        ELSE Fixed(p.k * F + log2_logc[p.i] + Mul(r, InvLn2) + Mul(Mul(r, r), Poly(log2_poly, r)))

-----------------------------------------------------------------------------
(* log10 brings x into [sqrt(2)/2, sqrt(2)] and has no table.              *)
SqrtHalf == 4187808  \* 0x3fe6a0
ivln10 == 455391
log10_2(k) == k * 315652 + ((k * 53) \div 64)
Lg == <<0, 699051, 419430, 299593, 233017, 190669, 160577, 155170>>

log10(x) ==
    LET up == Field(x) = 0
        hx == (IF up THEN Times(x, PowerOf2(M + 2)) ELSE x) + (One - SqrtHalf)
        k  == (hx \div 2^M) - Bias - (IF up THEN M + 2 ELSE 0)
        f  == ToFixed((hx % 2^M) + SqrtHalf) - F
        hfsq == Mul(f, f) \div 2
        s  == Div(f, 2 * F + f)
    IN  IF IsZero(x) THEN Float(Over(Neg(One), Times(x, x)))
        ELSE IF IsNegative(x) THEN Float(Over(Minus(x, x), 0))
        ELSE IF ~IsFinite(x) THEN Float(x)
        ELSE IF x = One THEN Float(0)
        ELSE Fixed(log10_2(k) + Mul(f - hfsq + Mul(s, hfsq + Poly(Lg, Mul(s, s))), ivln10))

-----------------------------------------------------------------------------
(* exp: x = k ln2/128 + r, and 2^(k/128) from the table, whose exponent is *)
(* put together with k's in a word that wraps.                             *)
NearestK(h) ==
    LET h13 == h \div 2^7
    IN  (h13 * 184 + (((h13 \div 16) * 681) \div 64) + 2^12) \div 2^13
Residue(h, k) == h - k * 5678 - ((k * 1072) \div 2^12)
ScaleBits(k, bias) == (exp_tab[(k % 128) + 1] + (k + bias) * 2^(M - 7)) % (2 * SignBit)
SIGN_BIAS == 2048 * 128

(* scale * (1 + tmp), where scale itself may be out of range. A result     *)
(* that will be subnormal is rounded to its precision before it is scaled. *)
specialcase_RoundedTwice_Mutant(tmp, sbits, k) ==
    LET scale == (sbits + 1022 * 2^M) % (2 * SignBit)
    IN  IF k >= 0
        THEN LET s == (sbits - 1009 * 2^M) % (2 * SignBit)
             IN  Times(PowerOf2(1009), Plus(s, Times(s, tmp)))
        ELSE Times(PowerOf2(-1022), Plus(scale, Times(scale, tmp)))

specialcase(tmp, sbits, k) ==
    IF k >= 0
    THEN LET scale == (sbits - 1009 * 2^M) % (2 * SignBit)
         IN  Times(PowerOf2(1009), Plus(scale, Times(scale, tmp)))
    ELSE LET scale == (sbits + 1022 * 2^M) % (2 * SignBit)
             y   == Plus(scale, Times(scale, tmp))
             one == IF Less(y, 0) THEN Neg(One) ELSE One
             hi  == Plus(one, y)
             lo1 == Plus(Minus(scale, y), Times(scale, tmp))
             lo  == Plus(Plus(Minus(one, hi), y), lo1)
             z   == Minus(Plus(hi, lo), one)
             w   == IF IsZero(z) THEN Signed(SignOf(scale), 0) ELSE z
         IN  Times(PowerOf2(-1022), IF Less(fabs(y), One) THEN w ELSE y)

(* (-1)^sign * exp(h), for h in fixed point.                               *)
exp_inline(h, sign) ==
    LET k     == NearestK(h)
        r     == Residue(h, k)
        tmp   == ToFloat(r + (Mul(r, r) \div 2))
        sbits == ScaleBits(k, sign * SIGN_BIAS)
    IN  IF abs(h) < 2^(20 - (M + 2)) THEN Signed(sign, One)
        ELSE IF abs(h) >= 1024 * F THEN IF h < 0 THEN math_uflow(sign) ELSE math_oflow(sign)
        ELSE IF abs(h) >= 512 * F THEN specialcase(tmp, sbits, k)
        ELSE Plus(sbits, Times(sbits, tmp))

exp(x) ==
    IF Field(x) < Bias - (M + 2) THEN One
    ELSE IF x = Neg(Inf) THEN 0
    ELSE IF Field(x) = Emax THEN Plus(One, x)
    ELSE IF Field(x) >= Bias + 10 THEN IF IsNegative(x) THEN math_uflow(0) ELSE math_oflow(0)
    ELSE exp_inline(ToFixed(x), 0)

-----------------------------------------------------------------------------
(* pow. log_inline's table has invc with so few bits that z * invc is      *)
(* exact.                                                                  *)
pow_OFF == 4187797  \* 0x3fe695

log_inline(ix) ==
    LET p   == Piece(ix, pow_OFF, 128)
        r   == Mul(p.z, pow_invc[p.i]) - F
        ar2 == -(Mul(r, r) \div 2)
    IN  Ln2(p.k) + pow_logc[p.i] + r + ar2 - Mul(Mul(r, ar2), 699051)

zeroinfnan(i) == IsZero(i) \/ ~IsFinite(i)

(* 0 where y is no integer, 1 where it is odd, 2 where it is even.         *)
checkint(y) ==
    LET e == Field(y)
        last == 2^(Bias + M - e)
    IN  IF e < Bias THEN 0
        ELSE IF e > Bias + M THEN 2
        ELSE IF y % last # 0 THEN 0
        ELSE IF (y \div last) % 2 = 1 THEN 1 ELSE 2

PowOfZeroInfNanY(x, y) ==
    IF IsZero(y) \/ x = One THEN One
    ELSE IF IsNan(x) \/ IsNan(y) THEN Plus(x, y)
    ELSE IF fabs(x) = One THEN One
    ELSE IF (fabs(x) < One) = ~IsNegative(y) THEN 0
    ELSE Times(y, y)

PowOfZeroInfNanX(x, y) ==
    LET x2 == Times(x, x)
        s  == IF IsNegative(x) /\ checkint(y) = 1 THEN Neg(x2) ELSE x2
    IN  IF IsNegative(y) THEN Over(One, s) ELSE s

(* Beyond these the power of no float but 1 is neither 1, 0 nor infinite.  *)
TinyY == Bias - (M + 13)
HugeY == Bias + (M + 11)

PowOfExtremeY(ix, y) ==
    IF ix = One THEN One
    ELSE IF Field(y) < TinyY THEN One
    ELSE IF (ix > One) = ~IsNegative(y) THEN math_oflow(0) ELSE math_uflow(0)

pow(x, y) ==
    LET sign == IF IsNegative(x) /\ checkint(y) = 1 THEN 1 ELSE 0
        ix   == fabs(x)
    IN  IF zeroinfnan(y) THEN PowOfZeroInfNanY(x, y)
        ELSE IF zeroinfnan(x) THEN PowOfZeroInfNanX(x, y)
        ELSE IF IsNegative(x) /\ checkint(y) = 0 THEN math_invalid(x)
        ELSE IF Field(y) \notin TinyY .. HugeY - 1 THEN PowOfExtremeY(ix, y)
        ELSE exp_inline(TimesFixed(y, log_inline(Normalize(ix))), sign)

-----------------------------------------------------------------------------
(* What these functions promise, by the reference logarithm, to some units *)
(* of 2^-20: a whole octave shows, and so do an exponent, a table row or a *)
(* sign that do not belong together.                                       *)
Within(a, b, tolerance) == abs(a - b) <= tolerance

LogRight(fn, x, r) ==
    LET e == ExponentOf(Sig(x), Ulp(x))
        m == LnMantissa(MantissaOf(Sig(x)))
    IN  IF IsNan(x) \/ (IsNegative(x) /\ ~IsZero(x)) THEN r[1] = "float" /\ IsNan(r[2])
        ELSE IF IsZero(x) THEN r = Float(Neg(Inf))
        ELSE IF IsInf(x) THEN r = Float(Inf)
        ELSE IF x = One THEN r[2] = 0
        ELSE /\ r[1] = "fixed"
             /\ CASE fn = "log"   -> Within(r[2], Ln2(e) + m, 3)
                  [] fn = "log2"  -> Within(r[2], e * F + Mul(m, InvLn2), 5)
                  [] fn = "log10" -> Within(r[2], log10_2(e) + Mul(m, ivln10), 5)
             /\ (x > One) = (r[2] > 0)

(* r or one of its neighbours is exp(h), give or take tolerance units of h. *)
ExpRight(h, tolerance, r) ==
    /\ ~IsNegative(r) /\ ~IsNan(r)
    /\ r <= 1 \/ LnRef(Sig(r - 1), Ulp(r - 1)) - tolerance <= h
    /\ r = Inf \/ h <= LnRef(Sig(r + 1), Ulp(r + 1)) + tolerance

ExpOfFloatRight(x, r) ==
    IF IsNan(x) THEN IsNan(r)
    ELSE IF Field(x) >= Bias + 10 THEN r = IF IsNegative(x) THEN 0 ELSE Inf
    ELSE ExpRight(ToFixed(x), 2, r)

(* specialcase rounds once, or so nearly that it is 9/16 off at most.      *)
SpecialcaseRight(tmp, k, r) ==
    LET s == exp_tab[(k % 128) + 1] + k * 2^(M - 7)   \* unwrapped
        n == (2^M + (s % 2^M)) * (2^M + tmp)          \* tmp in units of 2^-M
        d == Umin - ((s \div 2^M) - Bias - 2 * M)
    IN  IF d > M /\ k < 0 THEN d > 25 \/ (16 * abs(n - r * 2^d) <= 9 * 2^d)
        ELSE Same(r, Round(0, n, Umin - d)) \/ Same(r + 1, Round(0, n, Umin - d)) \/ Same(r - 1, Round(0, n, Umin - d))

(* The special values are those of the C standard, F.10.4.4. log x has an  *)
(* error of about two units, and y multiplies it.                          *)
PowRight(x, y, r) ==
    LET odd  == IsFinite(y) /\ checkint(y) = 1
        sign == IF IsNegative(x) /\ odd THEN 1 ELSE 0
    IN  IF IsZero(y) \/ x = One THEN r = One
        ELSE IF IsNan(x) \/ IsNan(y) THEN IsNan(r)
        ELSE IF IsInf(y)
        THEN r = IF fabs(x) = One THEN One ELSE IF (fabs(x) > One) = IsNegative(y) THEN 0 ELSE Inf
        ELSE IF IsZero(x) \/ IsInf(x)
        THEN r = Signed(sign, IF IsZero(x) = IsNegative(y) THEN Inf ELSE 0)
        ELSE IF IsNegative(x) /\ checkint(y) = 0 THEN IsNan(r)
        ELSE LET h == LnRef(Sig(x), Ulp(x))
                 t == TimesFixed(y, h)
                 slack == 3 + (IF Field(y) > Bias + 20 THEN Limit \div 2
                               ELSE 2 * Shift(Sig(y), Ulp(y)))
             IN  /\ IsNegative(r) = (sign = 1)
                 /\ ExpRight(t, slack, fabs(r))
=============================================================================
