------------------------------ MODULE SpscFifo ------------------------------
(***************************************************************************)
(* What the single-producer single-consumer queue promises: a bounded      *)
(* first-in first-out queue whose operations happen at one instant each.   *)
(* A push or a pop that fails changes nothing, and may fail although the   *)
(* other side has just made room or added a value.                         *)
(***************************************************************************)
EXTENDS Naturals, Sequences

CONSTANTS SIZE, Value, NULL

VARIABLES q,      \* the values in the queue, the front first
          last,   \* the value the last successful pop returned
          got     \* the index a get was last asked for, and its answer

vars == <<q, last, got>>

Init == q = <<>> /\ last = NULL /\ got = <<0, NULL>>

Push(v) == /\ Len(q) < SIZE
           /\ q' = Append(q, v)
           /\ UNCHANGED <<last, got>>

Pop == /\ q # <<>>
       /\ last' = Head(q) /\ q' = Tail(q)
       /\ UNCHANGED got

Get(i) == /\ i < Len(q)
          /\ got' = <<i, q[i + 1]>>
          /\ UNCHANGED <<q, last>>

Next == Pop \/ (\E v \in Value : Push(v)) \/ \E i \in 0 .. SIZE - 1 : Get(i)

Spec == Init /\ [][Next]_vars
=============================================================================
