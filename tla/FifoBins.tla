------------------------------ MODULE FifoBins ------------------------------
(***************************************************************************)
(* What malloc expects of its tree bins: for every size a queue of the     *)
(* free chunks of that size, oldest first.  DlMalloc is written over these *)
(* queues, and TreeBin's tries implement them.                             *)
(***************************************************************************)
EXTENDS Integers, Sequences, SequencesExt

CONSTANTS Chunk, Size

VARIABLE queue

Binned == UNION {Range(q) : q \in Range(queue)}

Added(q, x, s)  == [q EXCEPT ![s] = Append(@, x)]
Removed(q, x)   == [s \in Size |-> Remove(q[s], x)]

Insert == \E s \in Size, x \in Chunk \ Binned : queue' = Added(queue, x, s)

Unlink == \E x \in Binned : queue' = Removed(queue, x)

(* The oldest chunk of some size is taken and its remainder put back.      *)
Split ==
    \E s \in {s \in Size : queue[s] # <<>>} :
        LET rest == Removed(queue, Head(queue[s]))
        IN  \E r \in Size, x \in Chunk \ Binned : r < s /\ queue' = Added(rest, x, r)

Init == queue = [s \in Size |-> <<>>]

Next == Insert \/ Unlink \/ Split

Spec == Init /\ [][Next]_queue
=============================================================================
