------------------------------- MODULE Array -------------------------------
(***************************************************************************)
(* array.c and array.h, and the stack that is one: a block of cells that   *)
(* is reallocated in steps, and a cursor behind the last value.            *)
(***************************************************************************)
EXTENDS Naturals, Sequences, FiniteSets

CONSTANTS Values, Null, Indices,
          SIZE,          \* the size it is made with, and the step it grows by
          MAXSIZE        \* cells there is memory for

ArrayAssumption == SIZE \in Nat \ {0} /\ Null \in Values /\ Indices \subseteq Nat

VARIABLES a,             \* cells (0 .. size - 1), cursor and grow_step
          ans
vars == <<a, ans>>

Size == Cardinality(DOMAIN a.cell)

Made == [cell |-> [i \in 0 .. SIZE - 1 |-> Null], cursor |-> 0, step |-> SIZE]
Init == a = Made /\ ans = <<"made">>

Resized(b, n) == [b EXCEPT !.cell =
  [i \in 0 .. n - 1 |-> IF i \in DOMAIN b.cell THEN b.cell[i] ELSE Null]]

Pushed(b, v) ==
  LET n == Cardinality(DOMAIN b.cell)
      c == IF b.cursor = n THEN Resized(b, n + b.step) ELSE b
  IN  [c EXCEPT !.cell[c.cursor] = v, !.cursor = @ + 1]

(* Mutant: the cell of the value stays as it is. *)
PoppedKeeps(b) == [b EXCEPT !.cursor = @ - 1]

Popped(b) == [b EXCEPT !.cursor = @ - 1, !.cell[b.cursor - 1] = Null]
Cell(b, i) == IF i \in DOMAIN b.cell THEN b.cell[i] ELSE Null

Fits(b) == DOMAIN b.cell \subseteq 0 .. MAXSIZE - 1

Push(v) == a' = Pushed(a, v) /\ Fits(a') /\ ans' = <<"push">>

(* array_pop asserts that there is a value. *)
Pop == a.cursor > 0 /\ a' = Popped(a) /\ ans' = <<"value", a.cell[a.cursor - 1]>>

Put(i, v) ==
  LET b == IF i >= Size THEN Resized(a, i + a.step) ELSE a
  IN  /\ Fits(b) /\ ans' = <<"set">>
      /\ a' = [b EXCEPT !.cell[i] = v, !.cursor = IF i >= @ THEN i + 1 ELSE @]

(* array_get answers NULL beyond the block, and reads it below that.        *)
Get(i)  == ans' = <<"value", Cell(a, i)>> /\ UNCHANGED a
Pick(i) == i < a.cursor /\ Get(a.cursor - 1 - i)

(* array_put_grow_step, and array_resize to a larger size. *)
Regrow(s) == a' = [a EXCEPT !.step = s] /\ ans' = <<"resize">>
Resize(n) == n >= Size /\ a' = Resized(a, n) /\ Fits(a') /\ ans' = <<"resize">>

Purge == /\ a' = [a EXCEPT !.cell = [i \in DOMAIN @ |-> Null], !.cursor = 0]
         /\ ans' = <<"purge">>

(* stack_tuck_n: n values off the stack, none of them NULL, then the        *)
(* target and the values again in their order.                              *)
Tuck(v, n) ==
  LET top[i \in 0 .. n] == IF i = 0 THEN a ELSE Popped(top[i - 1])
      back[i \in 0 .. n] == IF i = 0 THEN Pushed(top[n], v)
                            ELSE Pushed(back[i - 1], a.cell[a.cursor - n + i - 1])
  IN  /\ n <= a.cursor /\ \A i \in 1 .. n : a.cell[a.cursor - i] # Null
      /\ a' = back[n] /\ Fits(a') /\ ans' = <<"push">>

Next == \/ \E v \in Values : Push(v) \/ \E i \in Indices : Put(i, v) \/ Tuck(v, i)
        \/ \E i \in Indices : Get(i) \/ Pick(i)
        \/ \E n \in 1 .. MAXSIZE : Regrow(n) \/ Resize(n)
        \/ Pop \/ Purge

Spec == Init /\ [][Next]_vars

-----------------------------------------------------------------------------
(* What is behind the cursor is always NULL - after pops, purges and every  *)
(* way to grow - so that a store beyond the end exposes no old value and    *)
(* a read there, below the size or above, answers NULL.                     *)
V == INSTANCE Vector WITH seq <- [i \in 1 .. a.cursor |-> a.cell[i - 1]]
ArrayRefined == V!Spec
=============================================================================
