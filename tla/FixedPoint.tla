----------------------------- MODULE FixedPoint -----------------------------
(***************************************************************************)
(* Fixed point with 20 bits after the point, in which the modules of the   *)
(* transcendental functions compute: what the code does in pairs of        *)
(* doubles, or in doubles with room to spare, is done here with an error   *)
(* of a few units. Floats become fixed here, and there are the reference   *)
(* definitions of the logarithm and of the angle.                          *)
(***************************************************************************)
EXTENDS Floats, Sequences

F == 2^20   \* the units of one

abs(n) == IF n < 0 THEN -n ELSE n

(* n * 2^k, toward minus infinity.                                         *)
Shift(n, k) == IF k >= 0 THEN n * 2^k ELSE IF k < -30 THEN IF n < 0 THEN -1 ELSE 0 ELSE n \div 2^(-k)

(* Of numbers below 2^23 whose product is below 2^41.                      *)
Mul(a, b) == (((a \div 2^10) * b) \div 2^10) + (((a % 2^10) * (b \div 2^2)) \div 2^18)

(* a / b for |a| < b * 2^4 and b < 2^24, in three steps of long division.  *)
Div(a, b) ==
    LET s1 == a * 2^7
        s2 == (s1 % b) * 2^7
        s3 == (s2 % b) * 2^6
    IN  (s1 \div b) * 2^13 + (s2 \div b) * 2^6 + (s3 \div b)

(* c[1] + c[2] x + c[3] x^2 + ...                                          *)
Poly(c, x) ==
    LET h[i \in 1 .. Len(c)] == IF i = Len(c) THEN c[i] ELSE c[i] + Mul(x, h[i + 1])
    IN  h[1]

(* The fixed-point value of a float below 2^10, and the float nearest to a *)
(* fixed-point number.                                                     *)
ToFixed(x) ==
    LET m == Shift(Sig(x), Ulp(x) + 20)
    IN  IF IsNegative(x) THEN -m ELSE m
ToFloat(n) == Round(IF n < 0 THEN 1 ELSE 0, abs(n), -20)

(* y * h, kept within 2^10 in magnitude, for h zero or more than 2^3 units.*)
Limit == 2^30
TimesFixed(y, h) ==
    LET u  == Ulp(y)
        p0 == (Sig(y) * (abs(h) % 2^15)) % 2^15
        p1 == Sig(y) * (abs(h) \div 2^15) + ((Sig(y) * (abs(h) % 2^15)) \div 2^15)
        n  == IF h = 0 THEN 0
              ELSE IF u > 15 \/ (u > -15 /\ p1 >= 2^(15 - u)) THEN Limit
              ELSE Shift(p1, 15 + u) + Shift(p0, u)
    IN  IF IsNegative(y) = (h < 0) THEN n ELSE -n

-----------------------------------------------------------------------------
(* Reference: ln m for m in [1, 2] with 28 bits after the point, by        *)
(* multiplying it up to 2 with factors 1 + 2^-j, whose logarithms are      *)
(* known.                                                                  *)
LnFactor == <<27210303, 14974910, 7904286, 4068450, 2065051, 1040468, 522251, 261633, 130944,
              65504, 32760, 16382, 8192, 4096, 2048, 1024, 512, 256, 128, 64, 32, 16, 8, 4>>
Ln2InFactors == 46516320

LnMantissa(m) ==
    LET step(s, j) == LET up == s.m + (s.m \div 2^j)
                      IN  IF up <= 2^29 THEN [m |-> up, ln |-> s.ln - LnFactor[j]] ELSE s
        run[j \in 0 .. 24] == IF j = 0 THEN [m |-> m, ln |-> Ln2InFactors] ELSE step(run[j - 1], j)
    IN  (run[24].ln + 32) \div 64

(* n = 2^e * m with m in [1, 2), and k moves the point.                    *)
ExponentOf(n, k) == BitLength(n) - 1 + k
MantissaOf(n) == Shift(n, 29 - BitLength(n))

Ln2(k) == k * 726817 + (k \div 2)
LnRef(n, k) == Ln2(ExponentOf(n, k)) + LnMantissa(MantissaOf(n))
=============================================================================
