------------------------------ MODULE RemPio2 -------------------------------
(***************************************************************************)
(* Argument reduction, __rem_pio2 and __rem_pio2_large: x = n pi/2 + y     *)
(* with |y| at most about pi/4, y a sum of two floats. The widths that the *)
(* code fixes for 53 bits are those for M + 1 = 13 bits here, and keep the *)
(* relations between them: what is exact there is exact here, and as much  *)
(* is left to guard against cancellation in proportion.                    *)
(***************************************************************************)
EXTENDS Floats, Sequences, TLC

D == 5   \* bits of a digit of the product with 2/pi: 24
P == 10  \* bits of a piece of pi/2: 33, with fn * piece exact
H == 5   \* bits of significand in a high word: 20
Large == 3  \* beyond 2^Large pi/2 there are large arguments: 20
Guard == 3  \* bits wanted beyond a float's: 16

-----------------------------------------------------------------------------
(* pi/2 in pieces of P bits, and what is left after each of them.          *)
pio2_1  == Round(0, 804, -9)
pio2_1t == Round(0, 8117, -24)
pio2_2  == Round(0, 253, -19)
pio2_2t == Round(0, 5444, -32)
pio2_3  == Round(0, 680, -29)
pio2_3t == Round(0, 4363, -42)
invpio2 == Round(0, 5215, -13)
toint   == Round(0, 3, M - 1)

HighWord(x) == fabs(x) \div 2^(M - H)
(* The high word of a multiple of pi/4, from its exponent and first bits.  *)
Around(e, f) == (Bias + e) * 2^H + f

(* One round, with the n that the breakpoints tell.                        *)
TwoParts(n, z, t) == [n |-> n, y0 |-> Plus(z, t), y1 |-> Plus(Minus(z, Plus(z, t)), t)]
NearMultiple(x, n) ==
    IF IsNegative(x)
    THEN TwoParts(-n, Plus(x, Times(Round(0, n, 0), pio2_1)), Times(Round(0, n, 0), pio2_1t))
    ELSE TwoParts(n, Minus(x, Times(Round(0, n, 0), pio2_1)), Neg(Times(Round(0, n, 0), pio2_1t)))

(* An integral float as an integer.                                        *)
Integral(x) == LET m == IF Ulp(x) >= 0 THEN Sig(x) * 2^Ulp(x) ELSE Sig(x) \div 2^(-Ulp(x))
               IN  IF IsNegative(x) THEN -m ELSE m

(* A further round where more bits were cancelled than the last was good   *)
(* for: r and w are the two parts of y.                                    *)
Cancelled(r, w, t) == [r |-> Minus(r, w), w |-> Minus(t, Minus(Minus(r, Minus(r, w)), w))]
Again(r, fn, piece, tail) == Cancelled(r, Times(fn, piece), Times(fn, tail))
FewerRounds_Mutant(x, p, bits) == FALSE
MoreRounds(x, p, bits) == Field(x) - Field(Minus(p.r, p.w)) > bits

Result(fn, p, y0) == [n |-> Integral(fn), y0 |-> y0, y1 |-> Minus(Minus(p.r, y0), p.w)]
Third(x, fn, p) ==
    IF MoreRounds(x, p, 2 * P - 1 - Guard) THEN Again(p.r, fn, pio2_3, pio2_3t) ELSE p
Second(x, fn, p) ==
    IF MoreRounds(x, p, P - 1 - Guard) THEN Third(x, fn, Again(p.r, fn, pio2_2, pio2_2t)) ELSE p
First(x, fn) == [r |-> Minus(x, Times(fn, pio2_1)), w |-> Times(fn, pio2_1t)]
Refined(fn, p) == Result(fn, p, Minus(p.r, p.w))
ByMultiple(x, fn) == Refined(fn, Second(x, fn, First(x, fn)))
Medium(x) == ByMultiple(x, Minus(Plus(Times(x, invpio2), toint), toint))

(* Everything up to 2^Large pi/2.                                          *)
IsLarge(x) == HighWord(x) >= Around(Large, 18)
rem_pio2(x) ==
    LET ix == HighWord(x)
    IN  IF ix <= Around(1, 30)               \* 5pi/4
        THEN IF ix % 2^H = 18 THEN Medium(x) \* pi/2 and pi
             ELSE IF ix <= Around(1, 5) THEN NearMultiple(x, 1) ELSE NearMultiple(x, 2)
        ELSE IF ix <= Around(2, 24)          \* 9pi/4
        THEN IF ix \in {Around(2, 5), Around(2, 18)} THEN Medium(x)
             ELSE IF ix <= Around(2, 11) THEN NearMultiple(x, 3) ELSE NearMultiple(x, 4)
        ELSE Medium(x)

-----------------------------------------------------------------------------
(* The first 1584 bits of 2/pi, in the words of the code and in digits.    *)
ipio2 == <<
    10680707, 7228996, 1387004, 2578385, 16069853, 12639074, 9804092, 4427841, 16666979,
    11263675, 12935607, 2387514, 4345298, 14681673, 3074569, 13734428, 16653803, 1880361,
    10960616, 8533493, 3062596, 8710556, 7349940, 6258241, 3772886, 3769171, 3798172,
    8675211, 12450088, 3874808, 9961438, 366607, 15675153, 9132554, 7151469, 3571407,
    2607881, 12013382, 4155038, 6285869, 7677882, 13102053, 15825725, 473591, 9065106,
    15363067, 6271263, 9264392, 5636912, 4652155, 7056368, 13614112, 10155062, 1944035,
    9527646, 15080200, 6658437, 6231200, 6832269, 16767104, 5075751, 3212806, 1398474,
    7579849, 6349435, 12618859>>
TwoOverPi(i) ==
    LET bit  == D * i
        off  == bit % 24
        word == ipio2[(bit \div 24) + 1]
        next == ipio2[(bit \div 24) + 2]
    IN  IF i < 0 THEN 0
        ELSE IF off + D <= 24 THEN (word \div 2^(24 - off - D)) % 2^D
        ELSE ((word % 2^(24 - off)) * 2^(off + D - 24)) + (next \div 2^(48 - off - D))

(* The digits of 2/pi to start with are jk + 1. jk is 4 in the code, for   *)
(* the 53 bits of a significand and the 11 of its range of exponents; to   *)
(* cover 13 and 11 bits with something to spare it takes 6 digits of 5.    *)
jk_TooFew_Mutant == 4
jk == 6

PIo2 == <<25, 4, 7, 29, 21, 8, 17>>   \* pi/2 in digits
Slots == 20   \* of each of the arrays iq, f, q, fq

(* |x|'s digits, without zeros at the end; e0 is the exponent of the first.*)
Pieces(x) ==
    LET s == Sig(x) * 2^(3 * D - (M + 1))
        d == <<s \div 2^(2 * D), (s \div 2^D) % 2^D, s % 2^D>>
    IN  IF d[3] # 0 THEN d ELSE IF d[2] # 0 THEN <<d[1], d[2]>> ELSE <<d[1]>>

Prepared(x, e0, jv) == [x |-> Pieces(x), jv |-> jv, q0 |-> e0 - D * (jv + 1), jz |-> jk]
Exponent0(x) == Field(x) - (Bias + D - 1)

(* q[i], a chunk of the product of x and 2/pi.                             *)
q(w, i) ==
    LET sum[j \in 0 .. Len(w.x)] ==
            IF j = 0 THEN 0 ELSE sum[j - 1] + w.x[j] * TwoOverPi(w.jv + i - (j - 1))
    IN  sum[Len(w.x)]

(* iq[0 .. jz-1], the least significant first, and what is above them.     *)
Distilled(w) ==
    LET z[i \in 0 .. w.jz] ==
            IF i = 0 THEN q(w, w.jz) ELSE q(w, w.jz - i) + (z[i - 1] \div 2^D)
    IN  [iq |-> [i \in 0 .. w.jz - 1 |-> z[i] % 2^D], z |-> z[w.jz]]

(* Lines 305-318: n is the integer part mod 8; z is left with the fraction *)
(* above the digits, in units of 2^q0, and ih tells whether it is over 1/2.*)
TopBits(digit, q0) == digit \div 2^(D - q0)
SplitOff(w, iq, z) ==
    LET last == w.jz - 1
        unit == 2^(-w.q0)
    IN  IF w.q0 > 0
        THEN [n |-> ((z * 2^w.q0) % 8) + TopBits(iq[last], w.q0), z |-> 0,
              iq |-> [iq EXCEPT ![last] = @ % 2^(D - w.q0)],
              ih |-> (iq[last] % 2^(D - w.q0)) \div 2^(D - 1 - w.q0)]
        ELSE IF w.q0 = 0
        THEN [n |-> z % 8, z |-> 0, iq |-> iq, ih |-> iq[last] \div 2^(D - 1)]
        ELSE [n |-> (z % (8 * unit)) \div unit, z |-> z % unit, iq |-> iq,
              ih |-> IF 2 * (z % unit) >= unit THEN 2 ELSE 0]

(* Lines 320-346: over 1/2 it is one less the fraction that is wanted.     *)
Complemented(w, s) ==
    LET nonzero == {i \in DOMAIN s.iq : s.iq[i] # 0}
        first == CHOOSE i \in nonzero : \A j \in nonzero : i <= j
        not(i) == IF nonzero = {} \/ i < first THEN 0
                  ELSE IF i = first THEN 2^D - s.iq[i] ELSE 2^D - 1 - s.iq[i]
        mask(i) == IF w.q0 > 0 /\ i = w.jz - 1 THEN 2^(D - w.q0) ELSE 2^D
    IN  IF s.ih = 0 THEN s
        ELSE [s EXCEPT !.n = @ + 1,
                       !.z = IF s.ih = 2 THEN 2^(-w.q0) - @ - (IF nonzero = {} THEN 0 ELSE 1) ELSE @,
                       !.iq = [i \in DOMAIN s.iq |-> not(i) % mask(i)]]

(* Lines 283-346, with the digits that are asked for.                      *)
Recomputed(w) == w @@ [frac |-> Complemented(w, SplitOff(w, Distilled(w).iq, Distilled(w).z))]
Start(x) ==
    Recomputed(Prepared(x, Exponent0(x), IF Exponent0(x) < 3 THEN 0 ELSE (Exponent0(x) - 3) \div D))

(* Lines 349-364: nothing is left of the fraction in the digits that were  *)
(* asked for first, so that more are needed.                               *)
NeedsMore(w) == w.frac.z = 0 /\ \A i \in jk .. w.jz - 1 : w.frac.iq[i] = 0
(* Where all digits of iq are zero the search for one leaves the array.    *)
Nonzero(w) == {k \in 1 .. jk : w.frac.iq[jk - k] # 0}
Widened(w) ==
    LET more == CHOOSE k \in Nonzero(w) : \A l \in Nonzero(w) : k <= l
    IN  Recomputed([x |-> w.x, jv |-> w.jv, q0 |-> w.q0, jz |-> w.jz + more])

(* Lines 366-387: the digits of the fraction, the most significant last.   *)
Chopped(w, z, iq) ==
    IF z = 0
    THEN LET top == CHOOSE j \in DOMAIN iq : iq[j] # 0 /\ \A i \in DOMAIN iq : i > j => iq[i] = 0
         IN  [iq |-> iq, jz |-> top, q0 |-> w.q0 - D * (w.jz - top)]
    ELSE IF z >= 2^D
    THEN [iq |-> iq @@ (w.jz :> z % 2^D) @@ (w.jz + 1 :> z \div 2^D), jz |-> w.jz + 1, q0 |-> w.q0 + D]
    ELSE [iq |-> iq @@ (w.jz :> z), jz |-> w.jz, q0 |-> w.q0]

(* fq[j], a chunk of the product with pi/2: no more bits than a float has. *)
fq(c, j) ==
    LET sum[k \in 0 .. jk + 1] ==
            IF k = 0 THEN 0
            ELSE sum[k - 1] + (IF k - 1 <= j THEN PIo2[k] * c.iq[c.jz - j + k - 1] ELSE 0)
    IN  Round(0, sum[jk + 1], c.q0 - D * j - (D - 1))

(* Lines 412-421, for prec = 1: from the smallest chunk up, then what the  *)
(* sum has lost.                                                           *)
SumOfChunks(c) ==
    LET up[j \in 0 .. c.jz + 1] == IF j = 0 THEN 0 ELSE Plus(up[j - 1], fq(c, c.jz - (j - 1)))
    IN  up[c.jz + 1]
Rest(c, y0) ==
    LET rest[j \in 0 .. c.jz] == IF j = 0 THEN Minus(fq(c, 0), y0) ELSE Plus(rest[j - 1], fq(c, j))
    IN  rest[c.jz]

Assembled(n, c, sign) ==
    [n |-> n % 8, y0 |-> (SumOfChunks(c) + sign) % (2 * SignBit),
     y1 |-> (Rest(c, SumOfChunks(c)) + sign) % (2 * SignBit)]

rem_pio2_large(w) ==
    Assembled(w.frac.n, Chopped(w, w.frac.z, w.frac.iq), IF w.frac.ih = 0 THEN 0 ELSE SignBit)

(* What the caller makes of it for a negative x.                           *)
WithSignOf(x, r) == IF IsNegative(x) THEN [n |-> -r.n, y0 |-> Neg(r.y0), y1 |-> Neg(r.y1)] ELSE r

(* Reducing takes as many recomputations as it takes.                      *)
InBounds(w) ==
    /\ w.jz + 1 < Slots /\ (Len(w.x) - 1) + w.jz < Slots
    /\ D * (w.jv + w.jz + 1) + 24 <= 24 * Len(ipio2)
    /\ NeedsMore(w) => Nonzero(w) # {}

-----------------------------------------------------------------------------
(* Reference: |x| 2/pi modulo 8, from the 60 bits of 2/pi that matter, in  *)
(* limbs of ten bits, the first of them with three bits before the point.  *)
Limbs(x) ==
    LET first == (Ulp(x) - 3) \div 5
        m     == Sig(x) * 2^((Ulp(x) - 3) % 5)
        times[k \in 0 .. 6] ==   \* from the last limb on
            IF k = 0 THEN 0
            ELSE m * (TwoOverPi(first + 2 * (6 - k)) * 32 + TwoOverPi(first + 2 * (6 - k) + 1))
                 + (times[k - 1] \div 2^10)
    IN  [k \in 0 .. 5 |-> times[6 - k] % 2^10]

(* y = m * 2^e, with some 20 bits, where |x| = n pi/2 + y: a, of 8 limbs,  *)
(* is the magnitude of what is left of t, and its k-th is the first not 0. *)
TimesPio2(v) ==
    (v \div 2^14) * 25735 + (((v \div 2^14) * 15188) \div 2^14) + (((v % 2^14) * 25736) \div 2^14)
FromLimbs(sign, a, k) ==
    [m |-> sign * TimesPio2(a[k] * 2^20 + a[k + 1] * 2^10 + a[k + 2]), e |-> (-27) - 10 * k]
FirstNonzero(a) == CHOOSE j \in 0 .. 5 : a[j] # 0 /\ \A l \in 0 .. j - 1 : a[l] = 0
OfMagnitude(sign, a) == FromLimbs(sign, a, FirstNonzero(a))
OfLimbs(d) ==
    IF d[0] >= 2^9
    THEN OfMagnitude(-1, [k \in 0 .. 7 |-> IF k > 5 THEN 0 ELSE 2^10 - 1 - d[k]])
    ELSE OfMagnitude(1, [k \in 0 .. 7 |-> IF k > 5 THEN 0 ELSE d[k]])
Remainder(x, n) == OfLimbs([Limbs(x) EXCEPT ![0] = (@ - n * 2^7) % 2^10])

(* A float in units of 2^e, and how far the two parts of y are from it.    *)
UnitsOf(f, e) ==
    (IF IsNegative(f) THEN -1 ELSE 1)
    * (IF Ulp(f) >= e THEN Sig(f) * 2^(Ulp(f) - e) ELSE IF e - Ulp(f) > 30 THEN 0 ELSE Sig(f) \div 2^(e - Ulp(f)))
Size(m) == IF m < 0 THEN -m ELSE m
CloseTo(r, y) ==
    Size((UnitsOf(r.y0, y.e) + UnitsOf(r.y1, y.e)) - y.m) <= (Size(y.m) \div 2^(M + 6)) + 2^3

ReductionRight(x, result) ==
    IF ~IsFinite(x) THEN IsNan(result.y0) /\ IsNan(result.y1)
    ELSE /\ CloseTo(WithSignOf(x, result), Remainder(x, WithSignOf(x, result).n))
         /\ fabs(result.y0) < Round(0, 7, -3)
=============================================================================
