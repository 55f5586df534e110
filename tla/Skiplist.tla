------------------------------ MODULE Skiplist ------------------------------
(* The priority queues of the agent: APR skiplists whose elements are      *)
(* pointers to pointers, while their comparison functions (SenderStateCmp, *)
(* pushcmp) read the elements as if they were the structures themselves.   *)
(* What is compared is whatever lies there, so an insertion may land       *)
(* anywhere; neither function returns 0, so none is refused.               *)
EXTENDS Integers, Sequences

(* The queues that may result from inserting x into q.                     *)
Inserted(q, x) ==
    {[i \in 1 .. (Len(q) + 1) |-> IF i < k THEN q[i] ELSE IF i = k THEN x ELSE q[i - 1]]
        : k \in 1 .. (Len(q) + 1)}
=============================================================================
