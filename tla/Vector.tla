------------------------------- MODULE Vector -------------------------------
(***************************************************************************)
(* What an array_t promises: a sequence that grows by itself, also by a    *)
(* store beyond its end, and has NULL wherever nothing was stored.         *)
(***************************************************************************)
EXTENDS Naturals, Sequences

CONSTANTS Values, Null, Indices

VARIABLES seq, ans
vars == <<seq, ans>>

At(i) == IF i < Len(seq) THEN seq[i + 1] ELSE Null

Init == seq = <<>> /\ ans = <<"made">>

Push(v) == seq' = Append(seq, v) /\ ans' = <<"push">>
Pop == /\ seq # <<>> /\ ans' = <<"value", seq[Len(seq)]>>
       /\ seq' = SubSeq(seq, 1, Len(seq) - 1)
Put(i, v) == /\ ans' = <<"set">>
             /\ seq' = [j \in 1 .. IF i < Len(seq) THEN Len(seq) ELSE i + 1 |->
                          IF j = i + 1 THEN v ELSE At(j - 1)]
Get(i)  == ans' = <<"value", At(i)>> /\ UNCHANGED seq
Pick(i) == i < Len(seq) /\ Get(Len(seq) - 1 - i)

(* n values from the top are taken off and put back over the target. *)
Tuck(v, n) ==
  /\ n <= Len(seq) /\ ans' = <<"push">>
  /\ LET under == SubSeq(seq, 1, Len(seq) - n)
         over  == SubSeq(seq, Len(seq) - n + 1, Len(seq))
     IN  (\A i \in 1 .. n : over[i] # Null) /\ seq' = Append(under, v) \o over

Same  == ans' = <<"resize">> /\ UNCHANGED seq
Purge == seq' = <<>> /\ ans' = <<"purge">>

Next == \/ \E v \in Values : Push(v) \/ \E i \in Indices : Put(i, v) \/ Tuck(v, i)
        \/ \E i \in Indices : Get(i) \/ Pick(i)
        \/ Pop \/ Same \/ Purge

Spec == Init /\ [][Next]_vars
=============================================================================
