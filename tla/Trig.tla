-------------------------------- MODULE Trig --------------------------------
(***************************************************************************)
(* sin, cos and tan: the reduced argument, in the quadrant n says, goes to *)
(* a polynomial kernel, which is evaluated in floats of M + 1 = 13 bits    *)
(* here; the terms that do not reach the last of them are left out.        *)
(***************************************************************************)
EXTENDS RemPio2, FixedPoint

Two  == Round(0, 1, 1)
half == Round(0, 1, -1)
S1 == Round(1, 5461, -15)
S2 == Round(0, 4369, -19)
S3 == Round(1, 6658, -25)
SinOf(x, y, iy, z, v) ==
    IF iy = 0 THEN Plus(x, Times(v, Plus(S1, Times(z, Plus(S2, Times(z, S3))))))
    ELSE Minus(x, Minus(Minus(Times(z, Minus(Times(half, y), Times(v, Plus(S2, Times(z, S3))))), y),
                        Times(v, S1)))
sin_kernel(x, y, iy) == SinOf(x, y, iy, Times(x, x), Times(Times(x, x), x))

C1 == Round(0, 5461, -17)
C2 == Round(1, 5825, -22)
C3 == Round(0, 6658, -28)
CosOf(x, y, z, hz, w) ==
    Plus(w, Plus(Minus(Minus(One, w), hz),
                 Minus(Times(z, Times(z, Plus(C1, Times(z, Plus(C2, Times(z, C3)))))), Times(x, y))))
CosOfSquare(x, y, z) == CosOf(x, y, z, Times(half, z), Minus(One, Times(half, z)))
cos_kernel(x, y) == CosOfSquare(x, y, Times(x, x))

T == <<Round(0, 5461, -14), Round(0, 4369, -15), Round(0, 7074, -17), Round(0, 5733, -18),
       Round(0, 4647, -19), Round(0, 7533, -21)>>
float_pio4 == Round(0, 6434, -13)
pio4lo     == Round(1, 4783, -31)
(* Beyond about 0.6744 it is the tangent of what is missing to pi/4.       *)
Big(x) == HighWord(x) >= Around(-1, 11)

ToPio4(x, y) == Plus(Minus(float_pio4, fabs(x)), Minus(pio4lo, IF IsNegative(x) THEN Neg(y) ELSE y))

TanRest(x, y, z, s) ==   \* tan(x + y) - x
    LET h[i \in 2 .. 6] == IF i = 6 THEN T[6] ELSE Plus(T[i], Times(z, h[i + 1]))
    IN  Plus(Plus(y, Times(z, Plus(Times(s, h[2]), y))), Times(s, T[1]))
Series(x, y) == TanRest(x, y, Times(x, x), Times(Times(x, x), x))

TanFromPio4(x, r, w, one) ==
    Minus(one, Times(Two, Plus(x, Minus(r, Over(Times(w, w), Plus(w, one))))))
BigTan(x, r, one) == TanFromPio4(x, r, Plus(x, r), one)
BigTanOf(x, one) == BigTan(x, Series(x, 0), one)   \* one is 1 - 2 odd

(* -1/(x + r), by one step of Newton's from the quotient in half as many   *)
(* bits, whose products are exact.                                         *)
WithoutLowWord(x) == x - (x % 2^(M - H))
Newton(a, a0, w0, v) == Plus(a0, Times(a, Plus(Plus(One, Times(a0, w0)), Times(a0, v))))
InverseOfSum(x, r, w, a) ==
    Newton(a, WithoutLowWord(a), WithoutLowWord(w), Minus(r, Minus(WithoutLowWord(w), x)))
OddTan(x, r, w) == InverseOfSum(x, r, w, Over(Neg(One), w))
OddTanOf(x, r)  == OddTan(x, r, Plus(x, r))

tan_kernel(x, y, odd) ==
    IF Big(x) THEN (BigTanOf(ToPio4(x, y), Signed(odd, One)) + SignOf(x) * SignBit) % (2 * SignBit)
    ELSE IF odd = 0 THEN Plus(x, Series(x, y))
    ELSE OddTanOf(x, Series(x, y))

-----------------------------------------------------------------------------
(* Arguments that need no reduction, and those of them that are as small   *)
(* as not to matter.                                                       *)
IsReduced(x) == HighWord(x) <= Around(-1, 18)  \* pi/4

SmallResult(fn, x) ==
    CASE fn = "sin" -> IF HighWord(x) < Around(-6, 0) THEN x ELSE sin_kernel(x, 0, 0)
      [] fn = "cos" -> IF HighWord(x) < Around(-7, 13) THEN One ELSE cos_kernel(x, 0)
      [] fn = "tan" -> IF HighWord(x) < Around(-7, 0) THEN x ELSE tan_kernel(x, 0, 0)

(* n may be negative: it is its last two bits that count.                  *)
ByQuadrant_NoSign_Mutant(fn, r) ==
    LET q4 == (IF r.n < 0 THEN -r.n ELSE r.n) % 4
        sine   == sin_kernel(r.y0, r.y1, 1)
        cosine == cos_kernel(r.y0, r.y1)
    IN  CASE fn = "sin" -> (CASE q4 = 0 -> sine [] q4 = 1 -> cosine
                              [] q4 = 2 -> Neg(sine) [] q4 = 3 -> Neg(cosine))
          [] fn = "cos" -> (CASE q4 = 0 -> cosine [] q4 = 1 -> Neg(sine)
                              [] q4 = 2 -> Neg(cosine) [] q4 = 3 -> sine)
          [] fn = "tan" -> tan_kernel(r.y0, r.y1, q4 % 2)

ByQuadrant(fn, r) ==
    LET q4 == r.n % 4
        sine   == sin_kernel(r.y0, r.y1, 1)
        cosine == cos_kernel(r.y0, r.y1)
    IN  CASE fn = "sin" -> (CASE q4 = 0 -> sine [] q4 = 1 -> cosine
                              [] q4 = 2 -> Neg(sine) [] q4 = 3 -> Neg(cosine))
          [] fn = "cos" -> (CASE q4 = 0 -> cosine [] q4 = 1 -> Neg(sine)
                              [] q4 = 2 -> Neg(cosine) [] q4 = 3 -> sine)
          [] fn = "tan" -> tan_kernel(r.y0, r.y1, r.n % 2)

-----------------------------------------------------------------------------
(* Reference: the point of the circle at an angle of 0 to pi/2, with 26    *)
(* bits after the point, by turning in steps of atan 2^-j.                 *)
TurnStep == <<52707179, 31114864, 16440240, 8345322, 4188855, 2096470, 1048491, 524277, 262143,
              131072, 65536, 32768, 16384, 8192, 4096, 2048, 1024, 512, 256, 128, 64, 32, 16, 8, 4,
              2, 1>>
Turned(v, j) ==
    LET dx == v.x \div 2^(j - 1)
        dy == v.y \div 2^(j - 1)
    IN  IF v.a >= 0 THEN [x |-> v.x - dy, y |-> v.y + dx, a |-> v.a - TurnStep[j]]
        ELSE [x |-> v.x + dy, y |-> v.y - dx, a |-> v.a + TurnStep[j]]
Circle(angle) ==
    LET run[j \in 0 .. 27] == IF j = 0 THEN [x |-> 40752055, y |-> 0, a |-> angle]
                              ELSE Turned(run[j - 1], j)
    IN  run[27]

(* sine and cosine of |x|, from |x| 2/pi modulo 4.                         *)
InQuadrant(quadrant, p) ==
    CASE quadrant = 0 -> [sin |-> p.y, cos |-> p.x]
      [] quadrant = 1 -> [sin |-> p.x, cos |-> -p.y]
      [] quadrant = 2 -> [sin |-> -p.y, cos |-> -p.x]
      [] quadrant = 3 -> [sin |-> -p.x, cos |-> p.y]
OfTurns(f) ==   \* f / 2^27 of a quarter
    Circle((f \div 2^13) * 6433 + (((f \div 2^13) * 16085) \div 2^14) + (((f % 2^13) * 6434) \div 2^13))
AtLimbs(t) == InQuadrant((t[0] \div 2^7) % 4, OfTurns((t[0] % 2^7) * 2^20 + t[1] * 2^10 + t[2]))
SinCosRef(x) == AtLimbs(Limbs(x))

(* The error of kernels of 13 bits and of the reference.                   *)
Near(r, ref) ==
    abs((IF IsNegative(r) THEN -1 ELSE 1) * Shift(Sig(r), Ulp(r) + 26) - ref) <= (abs(ref) \div 2^12) + 8

(* r * c = s, or s / r = c where r is large, for s and c with 20 bits.     *)
IsRatio(r, s, c) ==
    IF Less(One, fabs(r)) THEN abs(Mul(s, ToFixed(Over(One, r))) - c) <= (abs(c) \div 2^12) + 8
    ELSE abs(Mul(c, ToFixed(r)) - s) <= (abs(s) \div 2^12) + 8

AgreesWith(fn, r, sine, cosine) ==
    CASE fn = "sin" -> Near(r, sine)
      [] fn = "cos" -> Near(r, cosine)
      [] fn = "tan" -> IsRatio(r, sine \div 2^6, cosine \div 2^6)

AgreesAt(fn, r, negative, p) == AgreesWith(fn, r, IF negative THEN -p.sin ELSE p.sin, p.cos)

(* Near its zeros, n quarters of a turn away, each function is as small as *)
(* the angle t that is left, to a unit in the last place.                  *)
SmallAsAngle(fn, t, n, r) ==
    (fabs(t) < Round(0, 1, -6) /\ n % 2 = (IF fn = "cos" THEN 1 ELSE 0)) =>
        /\ fabs(r) \in fabs(t) - 1 .. fabs(t) + 1
        /\ (SignOf(r) # SignOf(t)) = (<<fn, n % 4>> \in {<<"sin", 2>>, <<"cos", 1>>})

(* red is empty where the argument needed no reduction.                    *)
TrigRight(fn, x, red, r) ==
    IF ~IsFinite(x) THEN IsNan(r)
    ELSE IF IsZero(x) THEN r = IF fn = "cos" THEN One ELSE x
    ELSE /\ AgreesAt(fn, r, IsNegative(x), SinCosRef(x))
         /\ IF red = <<>> THEN SmallAsAngle(fn, x, 0, r)
            ELSE SmallAsAngle(fn, red[1].y0, red[1].n, r)
=============================================================================
