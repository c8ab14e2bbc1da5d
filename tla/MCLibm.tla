------------------------------- MODULE MCLibm -------------------------------
(* Calls over the whole range of each format, dense where the code has a   *)
(* threshold, and the arguments that are hardest to reduce.                *)
EXTENDS Libm

MCOf(functions, xs, ys, zs) == [fn : functions, x : xs, y : ys, z : zs]

(* The small format: every value, or every third or fifth.                 *)
Each(step, from) == {d \in Sm!Double : d % step = from}
SmallFormat ==
    MCOf({"floor", "ceil", "trunc", "round", "ilogb"}, Sm!Double, {0}, {0})
    \cup MCOf({"scalbn"}, Sm!Double, (-60 .. 60) \cup {1000000, -1000000}, {0})
    \cup MCOf({"ldexp"}, Each(3, 1), -30 .. 30, {0})
    \cup MCOf({"remquo"}, Sm!Double, Each(2, 0) \cup {Sm!NaN, Sm!NaN + 1}, {0})
    \cup MCOf({"fmin", "fmax"}, Each(2, 0), Each(3, 0), {0})
    \cup MCOf({"fma"}, Each(9, 3), {d \in Each(5, 1) : d < Sm!SignBit + 8}, Each(2, 0))

SixBits(step, from) == {d \in 0 .. 4095 : d % step = from}
Roots6 == MCOf({"sqrt"}, 0 .. 4095, {0}, {0})
          \cup MCOf({"hypot"}, SixBits(41, 0) \cup {2048 - 32}, SixBits(43, 1) \cup {2048 - 32}, {0})

(* The first 24 bits of a double: patterns from subnormals to NaNs.        *)
Patterns(step) ==
    {5 + step * k : k \in 0 .. (2 * El!SignBit - 6) \div step}
    \cup {El!Signed(s, d) : s \in {0, 1}, d \in {0, 1, 7, 100, 4095, 4096, El!One, El!Inf, El!NaN, El!NaN - 5}}
Around1 == {El!Signed(s, (1023 + e) * 4096 + f) :
            s \in {0, 1}, e \in {-14, -13, -4, -2, -1, 0, 1, 5, 8, 9, 10}, f \in {0, 1, 1234, 2048, 4095}}
NearOne == El!One - 600 .. El!One + 400

LogCalls == MCOf(Logarithms, Patterns(5003) \cup NearOne, {0}, {0})
ExpCalls == MCOf({"exp"}, Patterns(9001) \cup Around1
                     \cup {El!Signed(s, (1023 + 9) * 4096 + 19 * j) : s \in {0, 1}, j \in 0 .. 200}, {0}, {0})
            \cup MCOf({"specialcase"}, {131072 * s - 5120 + 77 * j : s \in {1, -1}, j \in 0 .. 100}, -8 .. 8, {0})
PowCalls == MCOf({"pow"}, Patterns(150001) \cup Around1,
                 Patterns(200003) \cup {El!Round(s, n, 0) : s \in {0, 1}, n \in {1, 2, 3, 4, 7, 30}}, {0})

AngleCalls == MCOf({"atan", "asin", "acos"},
                   Patterns(9001) \cup Around1 \cup {El!Signed(s, 4169728 + 97 * j) : s \in {0, 1}, j \in 0 .. 266},
                   {0}, {0})
              \cup MCOf({"atan2"}, Patterns(150001) \cup Around1, Patterns(170003) \cup Around1, {0})

(* Up to 2^3 pi/2, and beyond; where most bits cancel, among all floats.   *)
HardToReduce == {5465188, 5158655, 8332493, 6511709, 6507613, 5259272, 8122049, 4233462, 4236493}
TrigCalls == MCOf(Circular, Patterns(9001)
                      \cup {El!Signed(s, 4190208 + 13 * j) : s \in {0, 1}, j \in 0 .. 1130}
                      \cup {El!Signed(s, h) : s \in {0, 1}, h \in HardToReduce}, {0}, {0})

MCCalls == SmallFormat \cup Roots6 \cup LogCalls \cup ExpCalls \cup PowCalls \cup AngleCalls \cup TrigCalls
=============================================================================
