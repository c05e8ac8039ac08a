----------------------------- MODULE MCInetNet -----------------------------
(***************************************************************************)
(* InetNet reduced in every order, from the nets the two programs build:   *)
(* K + K (main of inet.asm) and the balanced tree of additions over leaves *)
(* of value 1 (build_tree of inet-par.asm), both of value 4 here.          *)
(***************************************************************************)
EXTENDS InetNet, Sequences

Num(k) == [op |-> "num", n |-> k]
Plus(l, r) == [op |-> "add", l |-> l, r |-> r]

(* The agents 1..Len(type), the wires among them and the port that carries  *)
(* the value of the term.                                                   *)
Chain(k, base) ==
  [type |-> [i \in 1 .. k + 1 |-> IF i = 1 THEN Zero ELSE Add1],
   wires |-> {{<<base + i, 0>>, <<base + i + 1, 1>>} : i \in 1 .. k},
   out |-> <<base + k + 1, 0>>]

RECURSIVE Build(_, _)
Build(t, base) ==
  IF t.op = "num" THEN Chain(t.n, base)
  ELSE LET l == Build(t.l, base)
           r == Build(t.r, base + Len(l.type))
           a == base + Len(l.type) + Len(r.type) + 1
       IN  [type |-> l.type \o r.type \o <<Add>>,
            wires |-> l.wires \cup r.wires \cup {{l.out, <<a, 0>>}, {r.out, <<a, 1>>}},
            out |-> <<a, 2>>]

Closed(t) ==
  LET n == Build(t, 0)
      e == Len(n.type) + 1
  IN  [type |-> n.type \o <<End>>, wires |-> n.wires \cup {{n.out, <<e, 0>>}}]

One  == Num(1)
Nets == {Closed(Plus(Num(2), Num(2))),
         Closed(Plus(Plus(One, One), Plus(One, One)))}

MCInit == \E n \in Nets :
            /\ type = [a \in Agent |-> IF a \in DOMAIN n.type THEN n.type[a] ELSE 0]
            /\ wires = n.wires /\ count = 0 /\ loaded = TRUE

MCSpec == MCInit /\ [][Interact]_vars /\ WF_vars(Interact)

(* Rewriting keeps every port of every agent on exactly one wire, whatever  *)
(* pair is taken.                                                           *)
StaysWired == WellWired

(* Reduction is confluent and ends: whatever the order, the net comes to one *)
(* with no active pair left, counted completely, with no agent remaining    *)
(* and never at a pair the table has no rule for. The order the ring imposes *)
(* in the engine, or a VM imposes on its share, does not change a result.   *)
Confluent == <>(Normal /\ count = VALUE /\ Members = {})
=============================================================================
