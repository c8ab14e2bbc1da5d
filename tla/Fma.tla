-------------------------------- MODULE Fma ---------------------------------
(***************************************************************************)
(* fma(x, y, z): x * y + z in integer arithmetic on two words, rounded     *)
(* once. A word has Guard bits more than a shifted significand needs, ten  *)
(* in the code, so W is its 64; what falls off the low end of a word is    *)
(* remembered in its last bit. The two words of a number are one natural   *)
(* number here, and hi and lo are its halves where the code tells them     *)
(* apart.                                                                  *)
(***************************************************************************)
EXTENDS IntegerFunctions

CONSTANT Guard

W == M + 2 + Guard

(* 2^(W-1) is a float; a product reaches into the high word, so that a sum *)
(* of like signs never leaves it empty.                                    *)
WordAssumption == IntegerAssumption /\ Guard \in 2 .. M /\ W - 1 <= Bias

Sticky(n, lost) == IF lost /\ n % 2 = 0 THEN n + 1 ELSE n
ShiftRight_Lossy_Mutant(n, d) == n \div 2^d
ShiftRight(n, d) == Sticky(n \div 2^d, n % 2^d # 0)

ZEROINFNAN == Emax - Bias - M - 1

(* normalize(): |x| = m * 2^e, with m of M + 2 bits, the last of them 0.   *)
(* Zeros, infinities and NaNs are recognised by their e.                   *)
Normal(sign, frac, field) == [m |-> 2 * (2^M + frac), e |-> field - (Bias + M + 1), sign |-> sign]
NormalUp(sign, up) ==
    Normal(sign, Fraction(up), IF Field(up) # 0 THEN Field(up) - (W - 1) ELSE Emax + 1)
normalize(x) ==
    IF Field(x) = 0 THEN NormalUp(SignOf(x), Times(x, PowerOf2(W - 1)))
    ELSE Normal(SignOf(x), Fraction(x), Field(x))

(* Lines 65-97: the product and z brought to one exponent; d is how far   *)
(* z's is above the product's.                                             *)
Align(p, pe, z, ze, d) ==
    IF d > 0 /\ d < W THEN [r |-> p, z |-> z * 2^d, e |-> pe]
    ELSE IF d >= W
    THEN [r |-> IF d - W < W THEN ShiftRight(p, d - W) ELSE 1, z |-> z * 2^W, e |-> ze - W]
    ELSE [r |-> p, z |-> IF -d < W THEN ShiftRight(z, -d) ELSE 1, e |-> pe]

clz(n) == W - BitLength(n)

(* Lines 120-136: the top W - 1 bits of the sum, and their exponent.       *)
Shifted(v, e, d) ==   \* by d to the left
    [m |-> IF d < 0 THEN ShiftRight(v, -d) ELSE v * 2^d, e |-> e - d]
Normalized(v, e) ==
    IF v \div 2^W # 0 THEN Shifted(v, e, (clz(v \div 2^W) - 1) - W) ELSE Shifted(v, e, clz(v) - 1)

(* Lines 138-182: to a float; where the result will be subnormal, so that  *)
(* scalbn's rounding is the only one.                                      *)
Convert(sign, m, e) ==
    LET r    == Round(sign, m, 0)
        c    == Signed(sign, PowerOf2(W - 1))
        lost == Round(sign, Sticky(m \div 2, m % 2 = 1) + 2^(W - 2), 0)
    IN  IF e >= (1 - Bias) - (W - 2) THEN scalbn(r, e)
        ELSE IF e = (1 - Bias) - (W - 1)
        THEN IF r = c THEN Signed(sign, PowerOf2(1 - Bias))
             ELSE IF m % 2^(W - M - 1) = 0 THEN scalbn(r, e)
             ELSE scalbn(Minus(Times(PowerOf2(1), lost), c), e)
        ELSE scalbn(Round(sign, ShiftRight(m, Guard) * 2^Guard, 0), e)

(* Lines 99-118: sign is the product's, and differ says that z's is not.   *)
OfSum(sign, v) == Convert(sign, v.m, v.e)
Finish(x, y, z, sign, s, e) ==
    IF s = 0 THEN Plus(Times(x, y), z)
    ELSE IF s < 0 THEN OfSum(1 - sign, Normalized(-s, e))
    ELSE OfSum(sign, Normalized(s, e))
AddAligned(x, y, z, sign, differ, a) ==
    Finish(x, y, z, sign, IF differ THEN a.r - a.z ELSE a.r + a.z, a.e)

FmaOf(x, y, z, nx, ny, nz) ==
    IF nx.e >= ZEROINFNAN \/ ny.e >= ZEROINFNAN THEN Plus(Times(x, y), z)
    ELSE IF nz.e > ZEROINFNAN THEN Times(x, y)
    ELSE IF nz.e = ZEROINFNAN THEN z
    ELSE AddAligned(x, y, z, (nx.sign + ny.sign) % 2, (nx.sign + ny.sign) % 2 # nz.sign,
                    Align(nx.m * ny.m, nx.e + ny.e, nz.m, nz.e, nz.e - (nx.e + ny.e)))

fma(x, y, z) == FmaOf(x, y, z, normalize(x), normalize(y), normalize(z))

-----------------------------------------------------------------------------
(* x * y + z exactly, then rounded once. Where one of the two is so large  *)
(* that the other lies wholly below its last bit, only that it is there    *)
(* and its sign matter.                                                    *)
Far == 14

RoundedSum(sign, p, k, zsign, z, kz) ==  \* (-1)^sign p 2^k + (-1)^zsign z 2^kz, p # 0
    LET base == IF k - kz > Far THEN k - Far ELSE IF kz - k > Far THEN kz - Far
                ELSE IF k < kz THEN k ELSE kz
        At(n, e) == IF e >= base THEN n * 2^(e - base) ELSE IF n = 0 THEN 0 ELSE 1
        n    == (IF sign = 1 THEN -1 ELSE 1) * At(p, k) + (IF zsign = 1 THEN -1 ELSE 1) * At(z, kz)
    IN  IF n = 0 THEN IF sign = zsign THEN Signed(sign, 0) ELSE 0
        ELSE Round(IF n < 0 THEN 1 ELSE 0, IF n < 0 THEN -n ELSE n, base)

FmaExact(x, y, z) ==
    LET sign == (SignOf(x) + SignOf(y)) % 2
    IN  IF ~IsFinite(x) \/ ~IsFinite(y) \/ IsZero(x) \/ IsZero(y) THEN Plus(Times(x, y), z)
        ELSE IF ~IsFinite(z) THEN z
        ELSE RoundedSum(sign, Sig(x) * Sig(y), Ulp(x) + Ulp(y), SignOf(z), Sig(z), Ulp(z))
=============================================================================
