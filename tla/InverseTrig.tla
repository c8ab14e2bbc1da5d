---------------------------- MODULE InverseTrig -----------------------------
(***************************************************************************)
(* atan, atan2, asin and acos on the first 24 bits of a double (M = 12,    *)
(* Bias = 1023), so that the breakpoints of the code, which are high       *)
(* words, are as they are there. Angles are in fixed point: <<"fixed", n>> *)
(* or, where the code returns its argument or a zero, <<"float", bits>>.   *)
(***************************************************************************)
EXTENDS FixedPoint

Fixed(n) == <<"fixed", n>>
Float(b) == <<"float", b>>
Value(r) == IF r[1] = "float" THEN ToFixed(r[2]) ELSE r[2]
Negated(r) == IF r[1] = "float" THEN Float(Neg(r[2])) ELSE Fixed(-r[2])

pi   == 3294199
pio2 == 1647099
pio4 == 823550

-----------------------------------------------------------------------------
(* atan(0.5), atan(1), atan(1.5) and atan(inf)                             *)
atanhi == <<486170, 823550, 1030534, 1647099>>
aT == <<349525, -209715, 149797, -116508, 95325, -80655, 69846, -61169, 52186, -38306, 17077>>

Reciprocal(x) == IF Field(x) < Bias + 4 THEN Div(F, ToFixed(x))
                 ELSE Shift(2^28 \div Sig(x), -8 - Ulp(x))

(* Lines 78-102: which of atanhi, none for 0, and what is left of |x|.     *)
AtanReduced(ax) ==
    LET x == ToFixed(ax)
    IN  IF ax < 4185088 THEN [id |-> 0, x |-> x]                 \* 0x3fdc00, 7/16
        ELSE IF ax < 4187648 THEN [id |-> 1, x |-> Div(2 * x - F, 2 * F + x)]  \* 0x3fe600, 11/16
        ELSE IF ax < 4190976 THEN [id |-> 2, x |-> Div(x - F, x + F)]          \* 0x3ff300, 19/16
        ELSE IF ax < 4195200                                                   \* 0x400380, 39/16
        THEN [id |-> 3, x |-> Div(x - F - (F \div 2), F + x + (x \div 2))]
        ELSE [id |-> 4, x |-> -Reciprocal(ax)]

AtanOf(p) ==
    LET z == Mul(p.x, p.x)
        s == Mul(p.x, Mul(z, Poly(aT, z)))
    IN  IF p.id = 0 THEN p.x - s ELSE atanhi[p.id] - (s - p.x)

atan(x) ==
    IF Field(x) >= 1089   \* 0x441
    THEN IF IsNan(x) THEN Float(x) ELSE Fixed(IF IsNegative(x) THEN -atanhi[4] ELSE atanhi[4])
    ELSE IF Field(x) < 996 THEN Float(x)   \* 0x3e4
    ELSE LET z == AtanOf(AtanReduced(fabs(x))) IN Fixed(IF IsNegative(x) THEN -z ELSE z)

-----------------------------------------------------------------------------
FarApart == 64 * 2^M   \* of two patterns: the quotient is beyond 2^64

(* What stands for atan |y / x|.                                           *)
QuotientAngle_Wraps_Mutant(y, x) ==
    IF IsNegative(x) /\ fabs(y) < (fabs(x) - FarApart) % (2 * SignBit)
    THEN Fixed(0) ELSE atan(fabs(Over(y, x)))
QuotientAngle(y, x) ==
    IF IsNegative(x) /\ fabs(y) + FarApart < fabs(x) THEN Fixed(0) ELSE atan(fabs(Over(y, x)))

(* z carries y's sign, and so do pi and pi - z.                            *)
atan2(y, x) ==
    LET iy == fabs(y)
        ix == fabs(x)
        left == IsNegative(x)
        WithSign(n) == Fixed(IF IsNegative(y) THEN -n ELSE n)
        z  == QuotientAngle(y, x)
    IN  IF IsNan(x) \/ IsNan(y) THEN Float(Plus(x, y))
        ELSE IF x = One THEN atan(y)
        ELSE IF iy = 0 THEN IF left THEN WithSign(pi) ELSE Float(y)
        ELSE IF ix = 0 THEN WithSign(pio2)
        ELSE IF ix = Inf /\ iy = Inf THEN WithSign(IF left THEN 3 * pio4 ELSE pio4)
        ELSE IF ix = Inf THEN IF left THEN WithSign(pi) ELSE Float(Signed(SignOf(y), 0))
        ELSE IF ix + FarApart < iy \/ iy = Inf THEN WithSign(pio2)
        ELSE IF left THEN WithSign(pi - Value(z))
        ELSE IF IsNegative(y) THEN Negated(z) ELSE z

-----------------------------------------------------------------------------
pS == <<174763, -341381, 210987, -42001, 830, 36>>
qS == <<F, -2520142, 2119115, -721718, 80780>>
R(z) == Div(Mul(z, Poly(pS, z)), Poly(qS, z))

(* The digits of the root of n * 4^k, two bits of the radicand at a time.  *)
Isqrt(n, k) ==
    LET Pair(i) == IF i > 16 THEN 0 ELSE (n \div 4^(16 - i)) % 4
        run[i \in 0 .. 16 + k] ==
            IF i = 0 THEN [root |-> 0, rem |-> 0]
            ELSE LET p == run[i - 1]
                     m == 4 * p.rem + Pair(i)
                     t == 4 * p.root + 1
                 IN  IF m >= t THEN [root |-> 2 * p.root + 1, rem |-> m - t]
                     ELSE [root |-> 2 * p.root, rem |-> m]
    IN  run[16 + k].root

FixedSqrt(z) == Isqrt(z, 10)
HighPart(s) == s - (s % 2^10)
(* With f the high part of s, which is near the root of z, f + c is nearer.*)
Correction(z, s) == Div(z - Mul(HighPart(s), HighPart(s)), s + HighPart(s))

acos(x) ==
    LET v == ToFixed(x)
        z == IF IsNegative(x) THEN (F + v) \div 2 ELSE (F - v) \div 2
        s == FixedSqrt(z)
        w == Mul(R(z), s)
    IN  IF fabs(x) = One THEN IF IsNegative(x) THEN Fixed(2 * pio2) ELSE Float(0)
        ELSE IF Field(x) >= Bias THEN Float(Over(0, Minus(x, x)))
        ELSE IF Field(x) < Bias - 1
        THEN IF fabs(x) <= 966 * 2^M THEN Fixed(pio2)  \* 0x3c6
             ELSE Fixed(pio2 - (v + Mul(v, R(Mul(v, v)))))
        ELSE IF IsNegative(x) THEN Fixed(2 * (pio2 - (s + w)))
        ELSE Fixed(2 * (HighPart(s) + (w + Correction(z, s))))

asin(x) ==
    LET v == ToFixed(fabs(x))
        z == (F - v) \div 2
        s == FixedSqrt(z)
        r == R(z)
        a == IF fabs(x) >= 4190003   \* 0x3fef33, 0.975
             THEN pio2 - 2 * (s + Mul(s, r))
             ELSE pio4 - (2 * Mul(s, r) + 2 * Correction(z, s) - (pio4 - 2 * HighPart(s)))
        WithSign(n) == Fixed(IF IsNegative(x) THEN -n ELSE n)
    IN  IF fabs(x) = One THEN WithSign(pio2)
        ELSE IF Field(x) >= Bias THEN Float(Over(0, Minus(x, x)))
        ELSE IF Field(x) < Bias - 1
        THEN IF Field(x) < 997 THEN Float(x)   \* 0x3e5; R is 0 for a subnormal
             ELSE WithSign(v + Mul(v, R(Mul(v, v))))
        ELSE WithSign(a)

-----------------------------------------------------------------------------
(* Reference: the angle of a vector in the first quadrant, its coordinates *)
(* below 2^28, by turning it down to the axis in steps of atan 2^-j.       *)
AtanStep == <<52707179, 31114864, 16440240, 8345322, 4188855, 2096470, 1048491, 524277, 262143,
              131072, 65536, 32768, 16384, 8192, 4096, 2048, 1024, 512, 256, 128, 64, 32, 16, 8, 4,
              2, 1>>
Turned(v, j) ==   \* by atan 2^-(j-1), toward the axis
    LET dx == v.x \div 2^(j - 1)
        dy == v.y \div 2^(j - 1)
    IN  IF v.y >= 0 THEN [x |-> v.x + dy, y |-> v.y - dx, a |-> v.a + AtanStep[j]]
        ELSE [x |-> v.x - dy, y |-> v.y + dx, a |-> v.a - AtanStep[j]]
Angle(x, y) ==
    LET run[j \in 0 .. 27] == IF j = 0 THEN [x |-> x, y |-> y, a |-> 0] ELSE Turned(run[j - 1], j)
    IN  (run[27].a + 32) \div 64

(* Of the vector (|x|, |y|) of two floats.                                 *)
AngleOf(y, x) ==
    LET top == IF Ulp(x) > Ulp(y) THEN Ulp(x) ELSE Ulp(y)
    IN  Angle(Shift(Sig(x), 14 + Ulp(x) - top), Shift(Sig(y), 14 + Ulp(y) - top))

(* The angle whose sine is |x|.                                            *)
AngleOfSine(x) ==
    LET n == Shift(Sig(x), Ulp(x) + 15)
    IN  Angle(Isqrt((2^15 - n) * (2^15 + n), 11), Shift(Sig(x), Ulp(x) + 26))

Within(a, b, tolerance) == abs(a - b) <= tolerance

(* The quotient is rounded to 13 bits, which may be 64 units of the angle. *)
(* The special values are those of the C standard, F.10.1.4.               *)
Atan2Right(y, x, r) ==
    LET left == IsNegative(x)
        a == IF IsZero(y) THEN 0
             ELSE IF IsZero(x) THEN pio2
             ELSE IF IsInf(y) THEN IF IsInf(x) THEN pio4 ELSE pio2
             ELSE IF IsInf(x) THEN 0 ELSE AngleOf(y, x)
        b == IF left THEN pi - a ELSE a
    IN  IF IsNan(x) \/ IsNan(y) THEN r[1] = "float" /\ IsNan(r[2])
        ELSE /\ Within(Value(r), IF IsNegative(y) THEN -b ELSE b, 72)
             /\ r[1] = "float" => SignOf(r[2]) = SignOf(y)
             /\ IsZero(y) /\ ~left => r = Float(y)

AngleRight(fn, x, r) ==
    IF IsNan(x) \/ (fn # "atan" /\ fabs(x) > One) THEN r[1] = "float" /\ IsNan(r[2])
    ELSE LET a == IF fn = "atan" THEN IF IsInf(x) THEN pio2 ELSE AngleOf(x, One)
                  ELSE IF fabs(x) = One THEN pio2 ELSE AngleOfSine(x)
             b == IF IsNegative(x) THEN -a ELSE a
         IN  CASE fn = "atan" -> Within(Value(r), b, 3)
               [] fn = "asin" -> Within(Value(r), b, 10)
               [] fn = "acos" -> Within(Value(r), pio2 - b, 10)
=============================================================================
