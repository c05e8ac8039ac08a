---------------------------- MODULE AtomicDeque ----------------------------
(***************************************************************************)
(* What a deque_t promises the threads that share it: each call takes      *)
(* effect at one moment between its start and its return.                  *)
(***************************************************************************)
EXTENDS Naturals, Sequences

CONSTANTS Threads, Values, Null, Indices

VARIABLES seq,           \* the values, front first
          at             \* each thread: "idle", "called" or "done", its call, its answer

vars == <<seq, at>>

Idle == <<"idle", <<>>, <<>>>>
Init == seq = <<>> /\ at = [t \in Threads |-> Idle]

Ops == ({"push_front", "push_back"} \X Values) \cup ({"get"} \X Indices)
       \cup {<<"pop_front">>, <<"pop_back">>, <<"length">>, <<"is_empty">>}

Becomes(t, x) == at' = [at EXCEPT ![t] = x]

Keeps(answer, value) == answer = <<value>> /\ UNCHANGED seq

Effect(op, answer) ==
  \/ op[1] = "push_front" /\ seq' = <<op[2]>> \o seq /\ answer = <<Null>>
  \/ op[1] = "push_back" /\ seq' = Append(seq, op[2]) /\ answer = <<Null>>
  \/ op[1] \in {"pop_front", "pop_back"} /\ seq = <<>> /\ Keeps(answer, Null)
  \/ op[1] = "pop_front" /\ seq # <<>> /\ seq = answer \o seq'
  \/ op[1] = "pop_back" /\ seq # <<>> /\ seq = seq' \o answer
  \/ op[1] = "length" /\ Keeps(answer, Len(seq))
  \/ op[1] = "is_empty" /\ Keeps(answer, IF seq = <<>> THEN 1 ELSE 0)
  \/ op[1] = "get" /\ Keeps(answer, IF op[2] < Len(seq) THEN seq[op[2] + 1] ELSE Null)

Start(t)  == /\ at[t] = Idle /\ UNCHANGED seq
             /\ \E op \in Ops : Becomes(t, <<"called", op, <<>>>>)
Do(t)     == LET answer == at'[t][3]
             IN  /\ at[t][1] = "called" /\ Becomes(t, <<"done", at[t][2], answer>>)
                 /\ Effect(at[t][2], answer)
Return(t) == at[t][1] = "done" /\ Becomes(t, Idle) /\ UNCHANGED seq

Next == \E t \in Threads : Start(t) \/ Do(t) \/ Return(t)

Spec == Init /\ [][Next]_vars
=============================================================================
