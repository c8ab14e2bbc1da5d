--------------------------- MODULE MCMemFunctions ---------------------------
(* Calls of every alignment, and lengths around each limit of the code;    *)
(* copied memory holds different bytes everywhere near.                    *)
EXTENDS MemFunctions

MCCall(op, dest, src, k, c) == [op |-> op, dest |-> dest, src |-> src, n |-> k, c |-> c]

Copies == {MCCall("memcpy", to, from, k, 0) : to \in 64 .. 67, from \in 4 .. 7, k \in 0 .. 53}
Moves  == {MCCall("memmove", to, from, k, 0) : to \in 4 .. 36, from \in 20 .. 23, k \in 0 .. 14}
Sets   == {MCCall("memset", to, 0, k, Base - 1) : to \in 8 .. 15, k \in 0 .. 100}
Bulks  == {MCCall("memcpy", 104, 2, 101, 0), MCCall("memmove", 5, 3, 101, 0),
           MCCall("memmove", 3, 5, 101, 0), MCCall("memset", 9, 0, 101, Base - 1)}
Cmps   == {MCCall("memcmp", 1, 4, k, 0) : k \in 0 .. 4}
Lens   == {MCCall("strlen", 0, from, 0, 0) : from \in 0 .. 3}

MCCalls == Copies \cup Moves \cup Sets \cup Bulks \cup Cmps \cup Lens

Distinct == [a \in Addr |-> a % (Base - 1)]

(* Eight bytes that are 0, 1 or have the high bit, then the terminator.    *)
Texts == {[a \in Addr |-> IF a < 8 THEN f[a] ELSE 0] : f \in [0 .. 7 -> {0, 1, Base \div 2}]}

MCContents == [op \in {f.op : f \in MCCalls} |->
                   IF op \in {"strlen", "memcmp"} THEN Texts ELSE {Distinct}]
=============================================================================
