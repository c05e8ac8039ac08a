------------------------------ MODULE InetHeap ------------------------------
(***************************************************************************)
(* The interaction-net engine that inet.asm and inet-par.asm assemble into *)
(* a warmvm: the pool of 16-byte agents with its free list, the ring of    *)
(* active pairs, the four rewrite rules and the checks of the driver loop. *)
(*                                                                         *)
(* A heap h is the part of a VM's memory that the engine owns:             *)
(*   word[a]   the type word mem[a]; on a free agent it is the free link   *)
(*   port[p]   the port cell pc_addr(p), holding the port it is wired to   *)
(*   free      FREE, the head of the free list (0 when it is empty)        *)
(*   cell, head, tail   QUEUE, QHEAD, QTAIL                                *)
(*   peak, count, err   PEAK, COUNT, ERR                                   *)
(* An agent is its address in units of its block; the port value           *)
(* (base<<4)|i is the pair <<base, i>>, and the value 0 is <<0, 0>>.       *)
(***************************************************************************)
EXTENDS Naturals

CONSTANTS AGENTS,    \* address of the first agent block
          NAGENTS,   \* number of agent blocks
          QSIZE      \* entries of the ring (512 in the code)

(* The driver tells a live agent from a free one by its word being below 5,  *)
(* which needs every address above 4.                                        *)
ASSUME HeapAssumption == /\ AGENTS \in Nat /\ AGENTS > 4
                         /\ NAGENTS \in Nat \ {0}
                         /\ QSIZE \in Nat \ {0}

Zero == 1
Add1 == 2
Add  == 3
End  == 4
Type == 1 .. 4

Agent == AGENTS .. AGENTS + NAGENTS - 1
Port  == Agent \X (0 .. 2)
None  == <<0, 0>>

(* What a port cell may hold: a base of 0 is the control block, no agent.   *)
PortValue == (Agent \cup {0}) \X (0 .. 2)

Heap == [word: [Agent -> Nat], port: [Port -> PortValue],
         free: Agent \cup {0},
         cell: [0 .. QSIZE - 1 -> Agent \cup {0}], head: Nat, tail: Nat,
         peak: Nat, count: Nat, err: 0 .. 3]

(* The memory wvm_load leaves: all zero. *)
ZeroHeap ==
  [word |-> [a \in Agent |-> 0], port |-> [p \in Port |-> None], free |-> 0,
   cell |-> [i \in 0 .. QSIZE - 1 |-> 0], head |-> 0, tail |-> 0,
   peak |-> 0, count |-> 0, err |-> 0]

(* The head of every entry point: globals cleared, the agent area threaded  *)
(* into one list. Port cells, ring cells and PEAK keep what they held.      *)
Reset(h) ==
  [h EXCEPT !.word = [a \in Agent |-> IF a + 1 \in Agent THEN a + 1 ELSE 0],
            !.free = AGENTS, !.head = 0, !.tail = 0, !.count = 0, !.err = 0]

Live(h, a) == a \in Agent /\ h.word[a] \in Type

-----------------------------------------------------------------------------
(* Subroutines *)

(* newag with a non-empty free list; the block returned is h.free. *)
NewAg(h, t) == [h EXCEPT !.free = h.word[h.free], !.word[h.free] = t]

(* newag with an empty free list: ERR = 2 and the machine halts. *)
Oom(h) == [h EXCEPT !.err = 2]

(* Mutant: the block is made the head but not linked to the old one. *)
FreeAgUnlinked(h, a) == [h EXCEPT !.free = a]

FreeAg(h, a) == [h EXCEPT !.word[a] = h.free, !.free = a]

(* connect: both cells are written, the first port's cell first. The cell   *)
(* of the port value 0 is a word of the control block, no part of the heap. *)
Connect(h, v, w) == [h EXCEPT !.port[v] = w, !.port[w] = v]

(* enq has no test for a full ring; PEAK sees the length before the entry. *)
Enq(h, a) ==
  [h EXCEPT !.peak = IF h.tail - h.head < h.peak THEN @ ELSE h.tail - h.head,
            !.cell[h.tail % QSIZE] = a,
            !.tail = @ + 1]

(* Mutant: the agent is enqueued whatever its port. *)
EnqAnyPort(h, p) == Enq(h, p[1])

EnqPrincipal(h, p) == IF p[2] = 0 THEN Enq(h, p[1]) ELSE h

-----------------------------------------------------------------------------
(* Rules: a is the add or the end, b its partner. *)

RuleAddZero(h, a, b) ==
  LET x  == h.port[<<a, 1>>]
      y  == h.port[<<a, 2>>]
      hq == IF y[2] = 0 THEN EnqPrincipal(h, x) ELSE h
  IN  FreeAg(FreeAg(Connect(hq, x, y), a), b)

(* Mutants of the addition rule: the pair at z is not enqueued; x and z     *)
(* change places; nothing is freed.                                         *)
AddAdd1Rewire(h, a, b, enqZ, swapXZ, free) ==
  LET y  == h.port[<<a, 2>>]
      x  == h.port[IF swapXZ THEN <<b, 1>> ELSE <<a, 1>>]
      z  == h.port[IF swapXZ THEN <<a, 1>> ELSE <<b, 1>>]
      c  == h.free
      h1 == NewAg(h, Add1)
      d  == h1.free
      h2 == Connect(Connect(Connect(NewAg(h1, Add), y, <<c, 0>>), x, <<d, 1>>),
                    <<d, 2>>, <<c, 1>>)
      h3 == Connect(h2, z, <<d, 0>>)
      h4 == EnqPrincipal(h3, y)
      h5 == IF enqZ THEN EnqPrincipal(h4, z) ELSE h4
  IN  IF c = 0 \/ d = 0 THEN Oom(h)
      ELSE IF free THEN FreeAg(FreeAg(h5, a), b) ELSE h5

AddAdd1ForgetsPair(h, a, b) == AddAdd1Rewire(h, a, b, FALSE, FALSE, TRUE)
AddAdd1Swapped(h, a, b)     == AddAdd1Rewire(h, a, b, TRUE, TRUE, TRUE)
AddAdd1Leaks(h, a, b)       == AddAdd1Rewire(h, a, b, TRUE, FALSE, FALSE)

(* The two new agents come from the free list before a and b go back to it. *)
RuleAddAdd1(h, a, b) ==
  LET z  == h.port[<<b, 1>>]
      x  == h.port[<<a, 1>>]
      y  == h.port[<<a, 2>>]
      c  == h.free
      h1 == NewAg(h, Add1)
      d  == h1.free
      h2 == [NewAg(h1, Add) EXCEPT
               !.port[y] = <<c, 0>>, !.port[<<c, 0>>] = y,
               !.port[z] = <<d, 0>>, !.port[<<d, 0>>] = z,
               !.port[x] = <<d, 1>>, !.port[<<d, 1>>] = x,
               !.port[<<d, 2>>] = <<c, 1>>, !.port[<<c, 1>>] = <<d, 2>>]
  IN  IF c = 0 THEN Oom(h)
      ELSE IF d = 0 THEN Oom(h1)
      ELSE FreeAg(FreeAg(EnqPrincipal(EnqPrincipal(h2, y), z), a), b)

RuleEndAdd1(h, a, b) ==
  LET z == h.port[<<b, 1>>]
      hq == EnqPrincipal([h EXCEPT !.count = @ + 1], z)
  IN  FreeAg([hq EXCEPT !.port[z] = <<a, 0>>, !.port[<<a, 0>>] = z], b)

(* Mutant: the zero is freed twice and the end never. *)
EndZeroFreesTwice(h, a, b) == FreeAg(FreeAg(h, b), b)

RuleEndZero(h, a, b) == FreeAg(FreeAg(h, a), b)

(* TABLE, indexed by the two types; a rule puts its own symbol first. *)
Fire(h, a, b) ==
  LET types == <<h.word[a], h.word[b]>>
  IN  CASE types = <<Add, Zero>> -> RuleAddZero(h, a, b)
        [] types = <<Zero, Add>> -> RuleAddZero(h, b, a)
        [] types = <<Add, Add1>> -> RuleAddAdd1(h, a, b)
        [] types = <<Add1, Add>> -> RuleAddAdd1(h, b, a)
        [] types = <<End, Add1>> -> RuleEndAdd1(h, a, b)
        [] types = <<Add1, End>> -> RuleEndAdd1(h, b, a)
        [] types = <<End, Zero>> -> RuleEndZero(h, a, b)
        [] types = <<Zero, End>> -> RuleEndZero(h, b, a)
        [] OTHER -> [h EXCEPT !.err = 3]

-----------------------------------------------------------------------------
(* The driver: take the entry at QHEAD, validate it, dispatch. *)

Front(h) == h.cell[h.head % QSIZE]
Partner(h, a) == h.port[<<a, 0>>][1]

(* The back check of an entry: its principal port and its partner's face    *)
(* each other. Address 0 is the control block, never an agent.              *)
FacesPartner(h, a) == /\ Partner(h, a) \in Agent
                      /\ h.port[<<Partner(h, a), 0>>] = <<a, 0>>

ActiveEntry(h, a) == /\ Live(h, a)
                     /\ FacesPartner(h, a)
                     /\ Live(h, Partner(h, a))

(* One turn of the loop with a non-empty ring: an entry that is no active   *)
(* pair is skipped.                                                         *)
Turn(h) ==
  LET a  == Front(h)
      h1 == [h EXCEPT !.head = @ + 1]
  IN  IF ActiveEntry(h, a) THEN Fire(h1, a, Partner(h, a)) ELSE h1

(* Mutant: an entry leaves a word whichever of the checks rejects it. *)
TurnLeakAny(h) == IF ActiveEntry(h, Front(h)) THEN 0 ELSE 1

(* Words a turn leaves on the parameter stack: the entry itself when its    *)
(* own type word is why .drop is reached, the key when no rule matches.     *)
TurnLeak(h) ==
  IF Live(h, Front(h)) /\ Turn(h).err # 3 THEN 0 ELSE 1

-----------------------------------------------------------------------------
(* What the driver relies on, as properties of a heap. *)

Arity(t) == CASE t \in {Zero, End} -> 1 [] t = Add1 -> 2 [] t = Add -> 3

LiveAgents(h) == {a \in Agent : Live(h, a)}
FreeAgents(h) == Agent \ LiveAgents(h)
UsedPorts(h)  == {p \in Port : Live(h, p[1]) /\ p[2] < Arity(h.word[p[1]])}
OfType(h, t)  == {a \in Agent : h.word[a] = t}
Entries(h)    == {h.cell[i % QSIZE] : i \in h.head .. h.tail - 1}

(* FREE and the links of the free agents are free agents or 0, all of them  *)
(* different: no live agent is on the list, and the list from FREE meets no *)
(* agent twice, so it ends.                                                 *)
FreeListSound(h) ==
  LET unused == FreeAgents(h)
  IN  /\ h.free \in unused \cup {0}
      /\ \A f \in unused : h.word[f] \in unused \cup {0} /\ h.word[f] # h.free
      /\ \A f, g \in unused : h.word[f] = h.word[g] => f = g

(* No reduction is forgotten: one of the two agents of an active pair waits *)
(* in the ring.                                                             *)
PairsQueued(h) ==
  LET queued == Entries(h)
  IN  \A a \in LiveAgents(h) :
        FacesPartner(h, a) => a \in queued \/ Partner(h, a) \in queued

=============================================================================
