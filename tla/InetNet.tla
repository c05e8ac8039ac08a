------------------------------ MODULE InetNet ------------------------------
(***************************************************************************)
(* What the engine promises: reduction of an interaction net. A net is a   *)
(* set of agents with types and a set of wires, a wire being the set of    *)
(* the two ports it joins. Any active pair - two agents joined by their    *)
(* principal ports - may be rewritten at any time; there is no memory, no  *)
(* free list and no queue here.                                            *)
(***************************************************************************)
EXTENDS Naturals, FiniteSets

CONSTANTS Agent,     \* identities agents may have
          VALUE      \* the number the net stands for

Zero == 1
Add1 == 2
Add  == 3
End  == 4
Arity == [t \in 0 .. 4 |-> CASE t = 0 -> 0 [] t \in {Zero, End} -> 1
                             [] t = Add1 -> 2 [] t = Add -> 3]

VARIABLES type,      \* type of every agent of the net, 0 for an unused identity
          wires,     \* the wires
          count,     \* add1 agents the end has met
          loaded     \* is there a net yet?

vars == <<type, wires, count, loaded>>

Members == {a \in Agent : type[a] # 0}
PortsOf(a) == {<<a, i>> : i \in 0 .. Arity[type[a]] - 1}
Of(t) == {a \in Agent : type[a] = t}

(* The port at the other end of p's wire. *)
Other(p) == CHOOSE q \in UNION wires : {p, q} \in wires /\ q # p

(* Every port of every agent is on exactly one wire. *)
WellWired == /\ \A w \in wires : Cardinality(w) = 2
             /\ UNION wires = UNION {PortsOf(a) : a \in Members}
             /\ \A v, w \in wires : v \cap w # {} => v = w

Cell(a, t, b, u) == /\ type[a] = t /\ type[b] = u
                    /\ {<<a, 0>>, <<b, 0>>} \in wires
Without(a, b) == {w \in wires : \A p \in w : p[1] \notin {a, b}}

Normal == \A w \in wires : \E p \in w : p[2] # 0

-----------------------------------------------------------------------------
Init == /\ type = [a \in Agent |-> 0] /\ wires = {} /\ count = 0
        /\ loaded = FALSE

(* A well-wired net with one end and VALUE add1 agents appears at once. *)
Load == /\ ~loaded /\ loaded' /\ count' = 0
        /\ WellWired'
        /\ Cardinality(Of(Add1)') = VALUE /\ Cardinality(Of(End)') = 1

AddZero(a, b) ==
  /\ Cell(a, Add, b, Zero)
  /\ type' = [type EXCEPT ![a] = 0, ![b] = 0]
  /\ wires' = Without(a, b) \cup {{Other(<<a, 1>>), Other(<<a, 2>>)}}
  /\ UNCHANGED <<count, loaded>>

(* Mutant: the new add1 and the new add are not joined. *)
AddAdd1Apart(a, b) ==
  /\ Cell(a, Add, b, Add1)
  /\ \E c, d \in (Agent \ Members) \cup {a, b} :
       /\ c # d
       /\ type' = [[type EXCEPT ![a] = 0, ![b] = 0] EXCEPT ![c] = Add1, ![d] = Add]
       /\ wires' = Without(a, b) \cup
                     {{<<c, 0>>, Other(<<a, 2>>)}, {<<d, 0>>, Other(<<b, 1>>)},
                      {<<d, 1>>, Other(<<a, 1>>)}}
  /\ UNCHANGED <<count, loaded>>

(* x + (1 + z) becomes 1 + (x + z); c and d are new agents or old names. *)
AddAdd1(a, b) ==
  /\ Cell(a, Add, b, Add1)
  /\ \E c, d \in (Agent \ Members) \cup {a, b} :
       /\ c # d
       /\ type' = [[type EXCEPT ![a] = 0, ![b] = 0] EXCEPT ![c] = Add1, ![d] = Add]
       /\ wires' = Without(a, b) \cup
                     {{<<c, 0>>, Other(<<a, 2>>)}, {<<d, 0>>, Other(<<b, 1>>)},
                      {<<d, 1>>, Other(<<a, 1>>)}, {<<c, 1>>, <<d, 2>>}}
  /\ UNCHANGED <<count, loaded>>

(* Mutant: the add1 is not counted. *)
EndAdd1Uncounted(a, b) ==
  /\ Cell(a, End, b, Add1)
  /\ type' = [type EXCEPT ![b] = 0]
  /\ wires' = Without(a, b) \cup {{<<a, 0>>, Other(<<b, 1>>)}}
  /\ UNCHANGED <<count, loaded>>

EndAdd1(a, b) ==
  /\ Cell(a, End, b, Add1)
  /\ type' = [type EXCEPT ![b] = 0]
  /\ wires' = Without(a, b) \cup {{<<a, 0>>, Other(<<b, 1>>)}}
  /\ count' = count + 1
  /\ UNCHANGED loaded

EndZero(a, b) ==
  /\ Cell(a, End, b, Zero)
  /\ type' = [type EXCEPT ![a] = 0, ![b] = 0]
  /\ wires' = Without(a, b)
  /\ UNCHANGED <<count, loaded>>

Interact == loaded /\ \E a, b \in Agent : \/ AddZero(a, b) \/ AddAdd1(a, b)
                                          \/ EndAdd1(a, b) \/ EndZero(a, b)

Next == Load \/ Interact

Spec == Init /\ [][Next]_vars

(* Reduction goes on while there is an active pair. *)
FairSpec == Spec /\ WF_vars(Interact)
=============================================================================
