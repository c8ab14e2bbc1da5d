----------------------------- MODULE AllocSpec ------------------------------
(***************************************************************************)
(* What malloc, free, realloc and aligned_alloc promise their callers:     *)
(* blocks that are aligned, lie between the linker's data and the end of   *)
(* the memory, and share no word.  One call hands out, takes back or       *)
(* replaces one block and leaves all others as they are; a call may also   *)
(* fail and change nothing.                                                *)
(***************************************************************************)
EXTENDS Integers

CONSTANTS Start,     \* the first address a block may have
          Alignment  \* of every block

VARIABLES blocks,  \* the length of each block, keyed by its address
          limit    \* the end of the memory

Without(a, f) == [x \in DOMAIN f \ {a} |-> f[x]]

(* After the step the block at a is where it may be.                       *)
Placed(a) ==
    /\ a % Alignment = 0
    /\ Start <= a /\ a + blocks'[a] <= limit'
    /\ \A b \in DOMAIN blocks' \ {a} :
          a + blocks'[a] <= b \/ b + blocks'[b] <= a

Obtain ==
    \E a \in DOMAIN blocks' \ DOMAIN blocks : Without(a, blocks') = blocks /\ Placed(a)

Release ==
    \E a \in DOMAIN blocks \ DOMAIN blocks' : Without(a, blocks) = blocks'

Replace ==
    \E a \in DOMAIN blocks, b \in DOMAIN blocks' :
        Without(a, blocks) = Without(b, blocks') /\ Placed(b)

Init == blocks = [x \in {} |-> 0] /\ limit \in Nat

Next == limit' >= limit /\ (Obtain \/ Release \/ Replace \/ UNCHANGED blocks)

Spec == Init /\ [][Next]_<<blocks, limit>>
=============================================================================
