-------------------------------- MODULE List --------------------------------
(***************************************************************************)
(* list.c: nodes doubly linked in memory, with first, last, length and one *)
(* cursor in the list itself. A node is its address; the freed ones keep   *)
(* what they held until calloc hands them out again. Values are compared   *)
(* by identity, as without an equal_fn.                                    *)
(***************************************************************************)
EXTENDS Integers, Sequences, FiniteSetsExt

CONSTANTS Values, Null,
          MAXNODES       \* nodes there is memory for

ListAssumption == MAXNODES \in Nat /\ Null \in Values

VARIABLES l,             \* first, last, cursor (0 for NULL) and length
          node,          \* prev, next and value of the nodes, freed ones too
          used,          \* the nodes that are allocated
          ans            \* the last call's answer

vars == <<l, node, used, ans>>

Nodes == 1 .. MAXNODES

Init == /\ l = [first |-> 0, last |-> 0, cursor |-> 0, length |-> 0]
        /\ node = [n \in Nodes |-> [prev |-> 0, next |-> 0, value |-> Null]]
        /\ used = {} /\ ans = <<"made">>

(* calloc: any free address will do, the lowest stands for it. *)
Room == used # Nodes
New  == Min(Nodes \ used)

ValueAt(n) == IF n = 0 THEN Null ELSE node[n].value
Answer(n)  == ans' = <<"value", ValueAt(n)>>

(* The nodes from first on, following next. *)
Chain == LET from[k \in 0 .. MAXNODES] ==
               IF k = 0 THEN <<l.first>>
               ELSE IF from[k - 1][k] = 0 THEN Append(from[k - 1], 0)
               ELSE Append(from[k - 1], node[from[k - 1][k]].next)
         IN  SelectSeq(from[MAXNODES], LAMBDA n : n # 0)

Found(v) == {i \in 1 .. Len(Chain) : node[Chain[i]].value = v}
NodeOf(v) == IF Found(v) = {} THEN 0 ELSE Chain[Min(Found(v))]

-----------------------------------------------------------------------------
Push(v) ==
  /\ Room
  /\ node' = [n \in Nodes |->
                IF n = New THEN [prev |-> l.last, next |-> 0, value |-> v]
                ELSE IF n = l.last THEN [node[n] EXCEPT !.next = New] ELSE node[n]]
  /\ l' = [l EXCEPT !.first = IF l.last = 0 THEN New ELSE @, !.last = New,
                    !.length = @ + 1]
  /\ used' = used \cup {New} /\ ans' = <<"push">>

Unshift(v) ==
  /\ Room
  /\ node' = [n \in Nodes |->
                IF n = New THEN [prev |-> 0, next |-> l.first, value |-> v]
                ELSE IF n = l.first THEN [node[n] EXCEPT !.prev = New] ELSE node[n]]
  /\ l' = [l EXCEPT !.last = IF l.first = 0 THEN New ELSE @, !.first = New,
                    !.length = @ + 1]
  /\ used' = used \cup {New} /\ ans' = <<"push">>

(* Mutant: a cursor on the last node is left there. *)
PopKeepsCursor ==
  LET n == l.last
  IN  IF n = 0 THEN UNCHANGED <<l, node, used>> /\ Answer(0)
      ELSE /\ l' = [l EXCEPT !.first = IF @ = n THEN 0 ELSE @,
                             !.last = node[n].prev, !.length = @ - 1]
           /\ node' = IF node[n].prev = 0 THEN node
                      ELSE [node EXCEPT ![node[n].prev].next = 0]
           /\ used' = used \ {n} /\ Answer(n)

Pop ==
  LET n == l.last
      c == IF l.cursor = n THEN 0 ELSE l.cursor
  IN  IF n = 0 THEN l' = [l EXCEPT !.cursor = c] /\ UNCHANGED <<node, used>> /\ Answer(0)
      ELSE /\ l' = [l EXCEPT !.cursor = c, !.first = IF @ = n THEN 0 ELSE @,
                             !.last = node[n].prev, !.length = @ - 1]
           /\ node' = IF node[n].prev = 0 THEN node
                      ELSE [node EXCEPT ![node[n].prev].next = 0]
           /\ used' = used \ {n} /\ Answer(n)

Shift ==
  LET n == l.first
      c == IF l.cursor = n THEN 0 ELSE l.cursor
  IN  IF n = 0 THEN l' = [l EXCEPT !.cursor = c] /\ UNCHANGED <<node, used>> /\ Answer(0)
      ELSE /\ l' = [l EXCEPT !.cursor = c, !.last = IF @ = n THEN 0 ELSE @,
                             !.first = node[n].next, !.length = @ - 1]
           /\ node' = IF node[n].next = 0 THEN node
                      ELSE [node EXCEPT ![node[n].next].prev = 0]
           /\ used' = used \ {n} /\ Answer(n)

Remove(v) ==
  LET n == NodeOf(v)
      p == node[n].prev
      s == node[n].next
  IN  IF n = 0 THEN UNCHANGED <<l, node, used>> /\ ans' = <<"removed", FALSE>>
      ELSE /\ node' = [m \in Nodes |->
                         IF m = s THEN [node[m] EXCEPT !.prev = p]
                         ELSE IF m = p THEN [node[m] EXCEPT !.next = s] ELSE node[m]]
           /\ l' = [first  |-> IF l.first = n THEN s ELSE l.first,
                    last   |-> IF l.last = n THEN p ELSE l.last,
                    cursor |-> IF l.cursor = n THEN 0 ELSE l.cursor,
                    length |-> l.length - 1]
           /\ used' = used \ {n} /\ ans' = <<"removed", TRUE>>

Find(v) == /\ l' = [l EXCEPT !.cursor = IF NodeOf(v) # 0 THEN NodeOf(v) ELSE l.first]
           /\ Answer(NodeOf(v)) /\ UNCHANGED <<node, used>>

Move(n) == l' = [l EXCEPT !.cursor = n] /\ Answer(n) /\ UNCHANGED <<node, used>>
First   == Move(l.first)
Last    == Move(l.last)
Forward == Move(IF l.cursor # 0 THEN node[l.cursor].next ELSE l.first)
Back    == Move(IF l.cursor # 0 THEN node[l.cursor].prev ELSE l.last)

Purge == /\ l' = [first |-> 0, last |-> 0, cursor |-> 0, length |-> 0]
         /\ used' = {} /\ ans' = <<"purge">> /\ UNCHANGED node

(* list_copy and list_copy_reversed walk the list with its own cursor and   *)
(* stop at the first NULL.                                                  *)
Copied == LET n == IF Found(Null) = {} THEN Len(Chain) ELSE Min(Found(Null)) - 1
          IN  [i \in 1 .. n |-> node[Chain[i]].value]
Walked == l' = [l EXCEPT !.cursor = NodeOf(Null)] /\ UNCHANGED <<node, used>>

Copy         == Walked /\ ans' = <<"list", Copied>>
CopyReversed == Walked /\ ans' = <<"list", [i \in DOMAIN Copied |->
                                              Copied[Len(Copied) + 1 - i]]>>

Next == \/ \E v \in Values : Push(v) \/ Unshift(v) \/ Remove(v) \/ Find(v)
        \/ Pop \/ Shift \/ First \/ Last \/ Forward \/ Back
        \/ Purge \/ Copy \/ CopyReversed

Spec == Init /\ [][Next]_vars

-----------------------------------------------------------------------------
(* The nodes that are reached from first make a sequence with a cursor,     *)
(* whatever is pushed, popped and removed around the cursor and whichever   *)
(* freed node is used again: the cursor never dangles, and last, length and *)
(* the links backwards agree with the links forwards.                       *)
L == INSTANCE CursorList WITH
       seq <- [i \in DOMAIN Chain |-> node[Chain[i]].value],
       pos <- LET at == {i \in DOMAIN Chain : Chain[i] = l.cursor}
              IN  IF l.cursor = 0 THEN 0 ELSE IF at = {} THEN -1 ELSE Min(at)
Linked == /\ l.length = Len(Chain) /\ used = {Chain[i] : i \in DOMAIN Chain}
          /\ l.last = IF Chain = <<>> THEN 0 ELSE Chain[Len(Chain)]
          /\ \A i \in DOMAIN Chain :
               node[Chain[i]].prev = IF i = 1 THEN 0 ELSE Chain[i - 1]
ListRefined == L!Spec /\ []Linked
=============================================================================
