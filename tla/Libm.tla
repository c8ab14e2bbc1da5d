-------------------------------- MODULE Libm --------------------------------
(***************************************************************************)
(* The library of floating-point functions as a client sees it: one call   *)
(* after another. A call is one step of its function, but for those that   *)
(* reduce their argument first: there each recomputation of the reduction  *)
(* is a step, and so is the kernel that comes after it.                    *)
(*                                                                         *)
(* Each family of functions has a format that keeps what matters to it.    *)
(* The exact ones run on a small one, all of whose values can be tried     *)
(* (Sm); roots on one of six bits (Rt); and those with thresholds in the   *)
(* high word on the first 24 bits of a double.                             *)
(***************************************************************************)
EXTENDS Integers, Sequences

Sm == INSTANCE Fma WITH M <- 2, Bias <- 12, QBits <- 6, IntMax <- 2147483647, Guard <- 2
Rt == INSTANCE Roots WITH M <- 5, Bias <- 31, W <- 9, Gap <- 8, High <- 14, Low <- 12, Scale <- 18
El == INSTANCE ExpLog WITH M <- 12, Bias <- 1023
It == INSTANCE InverseTrig WITH M <- 12, Bias <- 1023
Tr == INSTANCE Trig WITH M <- 12, Bias <- 1023

ASSUME Formats == Sm!WordAssumption /\ Rt!RootAssumption /\ El!FormatAssumption

CONSTANT Calls  \* the calls a client may make: [fn, x, y, z]

VARIABLES
    call,  \* the one in progress, or NoCall
    work,  \* <<w>>, where a large argument is being reduced
    red,   \* <<r>>, the argument once it is reduced
    ret    \* <<result>>

vars == <<call, work, red, ret>>

NoCall == [fn |-> "none", x |-> 0, y |-> 0, z |-> 0]

ExactFunctions == {"floor", "ceil", "trunc", "round", "ilogb", "scalbn", "ldexp", "remquo",
                   "fmax", "fmin"}
RootFunctions  == {"sqrt", "hypot"}
Logarithms     == {"log", "log2", "log10"}
Powers         == {"exp", "pow", "specialcase"}
Angles         == {"atan", "atan2", "asin", "acos"}
Circular       == {"sin", "cos", "tan"}

-----------------------------------------------------------------------------
Init == call = NoCall /\ work = <<>> /\ red = <<>> /\ ret = <<>>

CallFunction ==
    /\ call = NoCall
    /\ \E c \in Calls : call' = c
    /\ UNCHANGED <<work, red, ret>>

In(functions) == call.fn \in functions /\ ret = <<>>
Return(result) == ret' = <<result>> /\ UNCHANGED <<call, work, red>>

Compute == In(ExactFunctions) /\ Return(Sm!Apply(call.fn, call.x, call.y, call.y))

MultiplyAdd == In({"fma"}) /\ Return(Sm!fma(call.x, call.y, call.z))

Root ==
    /\ In(RootFunctions)
    /\ \E r \in (IF call.fn = "sqrt" THEN Rt!sqrt(call.x) ELSE Rt!hypot(call.x, call.y)) : Return(r)

Logarithm ==
    /\ In(Logarithms)
    /\ Return(CASE call.fn = "log"   -> El!log(call.x)
                [] call.fn = "log2"  -> El!log2(call.x)
                [] call.fn = "log10" -> El!log10(call.x))

(* specialcase is a part of exp and pow: x is its k, and y tmp in units of *)
(* the last bit.                                                           *)
Tmp(y) == El!Round(IF y < 0 THEN 1 ELSE 0, El!abs(y), -12)
Power ==
    /\ In(Powers)
    /\ Return(CASE call.fn = "exp" -> El!exp(call.x)
                [] call.fn = "pow" -> El!pow(call.x, call.y)
                [] call.fn = "specialcase" ->
                       El!specialcase(Tmp(call.y), El!ScaleBits(call.x, 0), call.x))

InverseOf ==
    /\ In(Angles)
    /\ Return(CASE call.fn = "atan"  -> It!atan(call.x)
                [] call.fn = "asin"  -> It!asin(call.x)
                [] call.fn = "acos"  -> It!acos(call.x)
                [] call.fn = "atan2" -> It!atan2(call.x, call.y))

-----------------------------------------------------------------------------
(* sin, cos and tan.                                                       *)
NotFinite == In(Circular) /\ ~Tr!IsFinite(call.x) /\ Return(Tr!Minus(call.x, call.x))

SmallArgument ==
    /\ In(Circular) /\ Tr!IsFinite(call.x) /\ Tr!IsReduced(call.x)
    /\ Return(Tr!SmallResult(call.fn, call.x))

Reducing ==
    /\ In(Circular) /\ Tr!IsFinite(call.x) /\ ~Tr!IsReduced(call.x)
    /\ red = <<>>
    /\ UNCHANGED <<call, ret>>

ReduceMedium ==
    /\ Reducing /\ ~Tr!IsLarge(call.x)
    /\ red' = <<Tr!rem_pio2(call.x)>>
    /\ UNCHANGED work

StartLarge ==
    /\ Reducing /\ Tr!IsLarge(call.x) /\ work = <<>>
    /\ work' = <<Tr!Start(Tr!fabs(call.x))>>
    /\ UNCHANGED red

Recompute ==
    /\ Reducing /\ work # <<>> /\ Tr!NeedsMore(work[1])
    /\ work' = <<Tr!Widened(work[1])>>
    /\ UNCHANGED red

ReduceLarge ==
    /\ Reducing /\ work # <<>> /\ ~Tr!NeedsMore(work[1])
    /\ red' = <<Tr!WithSignOf(call.x, Tr!rem_pio2_large(work[1]))>>
    /\ UNCHANGED work

Kernel == In(Circular) /\ red # <<>> /\ Return(Tr!ByQuadrant(call.fn, red[1]))

-----------------------------------------------------------------------------
(* The client takes the result and goes on.                                *)
Answer ==
    /\ ret # <<>>
    /\ call' = NoCall /\ work' = <<>> /\ red' = <<>> /\ ret' = <<>>

Next ==
    \/ CallFunction \/ Compute \/ MultiplyAdd \/ Root \/ Logarithm \/ Power \/ InverseOf
    \/ NotFinite \/ SmallArgument \/ ReduceMedium \/ StartLarge \/ Recompute \/ ReduceLarge
    \/ Kernel \/ Answer

Spec == Init /\ [][Next]_vars

-----------------------------------------------------------------------------
(* Properties.                                                             *)

Returned(functions) == ret # <<>> /\ call.fn \in functions

(* floor, ceil, trunc, round, ilogb, scalbn, ldexp, remquo, fmin, fmax and *)
(* fma return what the C standard says of exact arithmetic, to the bit: no *)
(* intermediate rounding of the code, no shift that loses bits and no word *)
(* that wraps shows in a result.                                           *)
ExactResult ==
    /\ Returned(ExactFunctions) => Sm!Exact(call.fn, call.x, call.y, call.y, ret[1])
    /\ Returned({"fma"}) => Sm!Same(ret[1], Sm!FmaExact(call.x, call.y, call.z))

(* sqrt is correctly rounded, whichever estimate within the bound the code *)
(* states its iterations end with, and hypot is off by less than one unit  *)
(* in the last place, without overflow or underflow on the way.            *)
RootsRight ==
    /\ Returned({"sqrt"}) => Rt!SqrtExact(call.x, ret[1])
    /\ Returned({"hypot"}) => Rt!HypotClose(call.x, call.y, ret[1])

(* log, log2 and log10 agree with the logarithm, to a few units of 2^-20:  *)
(* index, exponent and table row fit together in every piece, and the sign *)
(* is that of x - 1, however near x is to 1.                               *)
LogsRight == Returned(Logarithms) => El!LogRight(call.fn, call.x, ret[1])

(* exp is within one float of the power, over all of its range; so is pow  *)
(* of the power of a base whose logarithm is off by two units, which for a *)
(* large y is a wide margin, and it has the sign and the special values of *)
(* C. A result that is subnormal is rounded once.                          *)
PowersRight ==
    /\ Returned({"exp"}) => El!ExpOfFloatRight(call.x, ret[1])
    /\ Returned({"pow"}) => El!PowRight(call.x, call.y, ret[1])
    /\ Returned({"specialcase"}) => El!SpecialcaseRight(call.y, call.x, ret[1])

(* atan, asin and acos return the angle, across every breakpoint of the    *)
(* code, and atan2 that of its quadrant, however far apart its arguments:  *)
(* to 3, 10, 10 and 72 units of 2^-20, whatever the angle's size.          *)
AnglesRight ==
    /\ Returned({"atan", "asin", "acos"}) => It!AngleRight(call.fn, call.x, ret[1])
    /\ Returned({"atan2"}) => It!Atan2Right(call.x, call.y, ret[1])

(* __rem_pio2 leaves y = x - n pi/2 with |y| at most about pi/4 and good   *)
(* to 17 bits, more than the 13 of a float, no matter how many cancel.     *)
ReductionAccurate == red # <<>> => Tr!ReductionRight(call.x, red[1])

(* __rem_pio2_large never leaves its arrays or the table of 2/pi, and each *)
(* recomputation finds digits to add, so that it ends.                     *)
ReductionInBounds == work # <<>> => Tr!InBounds(work[1])

(* sin, cos and tan are those of x, from the least float to the greatest:  *)
(* the quadrant, its sign and the kernel fit together, to 12 bits and some *)
(* units of 2^-26 for sin and cos, of 2^-20 for tan; and near their zeros  *)
(* they are off by one unit in the last place.                             *)
TrigRight == Returned(Circular) => Tr!TrigRight(call.fn, call.x, red, ret[1])
=============================================================================
