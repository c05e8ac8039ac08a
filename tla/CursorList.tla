----------------------------- MODULE CursorList -----------------------------
(***************************************************************************)
(* What a list_t promises: a sequence with one cursor in it. The cursor    *)
(* stays with its value while others come and go, is lost with it, and a   *)
(* lost cursor makes next start over. A NULL answer means the end, no      *)
(* value, or a value that is NULL.                                         *)
(***************************************************************************)
EXTENDS Naturals, Sequences

CONSTANTS Values, Null

VARIABLES seq,           \* the values
          pos,           \* where the cursor is, 0 for nowhere
          ans            \* the last call's answer

vars == <<seq, pos, ans>>

At(i)     == IF i \in 1 .. Len(seq) THEN seq[i] ELSE Null
Drop(i)   == [j \in 1 .. Len(seq) - 1 |-> IF j < i THEN seq[j] ELSE seq[j + 1]]
Places(v) == {i \in 1 .. Len(seq) : seq[i] = v}
Least(S)  == CHOOSE i \in S : \A j \in S : i <= j

Init == seq = <<>> /\ pos = 0 /\ ans = <<"made">>

Push(v)    == seq' = Append(seq, v) /\ ans' = <<"push">> /\ UNCHANGED pos
Unshift(v) == /\ seq' = <<v>> \o seq /\ ans' = <<"push">>
              /\ pos' = IF pos = 0 THEN 0 ELSE pos + 1

Without(i) == /\ seq' = IF seq = <<>> THEN seq ELSE Drop(i)
              /\ pos' = IF pos = i THEN 0 ELSE IF pos > i THEN pos - 1 ELSE pos

Pop   == Without(Len(seq)) /\ ans' = <<"value", At(Len(seq))>>
Shift == Without(1) /\ ans' = <<"value", At(1)>>

Remove(v) == \/ Places(v) = {} /\ ans' = <<"removed", FALSE>> /\ UNCHANGED <<seq, pos>>
             \/ /\ Places(v) # {} /\ ans' = <<"removed", TRUE>>
                /\ Without(Least(Places(v)))

(* A value that is not found leaves the cursor on the first one. *)
Find(v) == /\ pos' = IF Places(v) # {} THEN Least(Places(v)) ELSE IF seq = <<>> THEN 0 ELSE 1
           /\ ans' = <<"value", IF Places(v) # {} THEN v ELSE Null>>
           /\ UNCHANGED seq

Move(i) == pos' = i /\ ans' = <<"value", At(i)>> /\ UNCHANGED seq
First   == Move(IF seq = <<>> THEN 0 ELSE 1)
Last    == Move(Len(seq))
Forward == Move(IF pos < Len(seq) THEN pos + 1 ELSE 0)
Back    == Move(IF pos = 0 THEN Len(seq) ELSE pos - 1)

Purge == seq' = <<>> /\ pos' = 0 /\ ans' = <<"purge">>

(* A copy has the values up to the first NULL and none of the functions;    *)
(* it leaves the cursor where it found that NULL, or past the end.          *)
Copy ==
  LET n == IF Places(Null) = {} THEN Len(seq) ELSE Least(Places(Null)) - 1
  IN  /\ pos' = IF n = Len(seq) THEN 0 ELSE n + 1
      /\ \/ ans' = <<"list", SubSeq(seq, 1, n)>>
         \/ ans' = <<"list", [i \in 1 .. n |-> seq[n + 1 - i]]>>
      /\ UNCHANGED seq

Next == \/ \E v \in Values : Push(v) \/ Unshift(v) \/ Remove(v) \/ Find(v)
        \/ Pop \/ Shift \/ First \/ Last \/ Forward \/ Back \/ Purge \/ Copy

Spec == Init /\ [][Next]_vars
=============================================================================
