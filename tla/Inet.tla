-------------------------------- MODULE Inet --------------------------------
(***************************************************************************)
(* inet.asm as one warmvm runs it: main builds the net of K + K - two      *)
(* chains of K add1 over a zero, an add joining them, an end on its        *)
(* result - and the driver loop reduces it until the ring is empty.        *)
(* One VM is one thread, so a call of a subroutine or of a rule is a step. *)
(***************************************************************************)
EXTENDS InetHeap, FiniteSets

CONSTANT LENGTHS    \* the lengths K (.eq K in inet.asm) a run may be assembled with

ASSUME InetAssumption == LENGTHS \subseteq Nat

(* The addition of two add1 can put two pairs into an empty ring.           *)
ASSUME RingAssumption == QSIZE >= 2

VARIABLES K,        \* length of each chain; no step changes it
          h,        \* the heap
          pc,       \* where main is: building, in the driver loop or halted
          chain,    \* the chain build_chain is working on, 1 or 2
          left,     \* its counter: add1 agents still to be prepended
          prev,     \* CSLOT+16, the last agent of the chain so far
          top,      \* SCR+44 and SCR+48, the heads of the finished chains
          leaked    \* words the driver loop has left on the parameter stack

vars == <<K, h, pc, chain, left, prev, top, leaked>>
buildVars == <<K, chain, left, prev, top>>

Building == {"zero", "grow", "root"}

Init == /\ K \in LENGTHS
        /\ h = Reset(ZeroHeap)
        /\ pc = "zero" /\ chain = 1 /\ left = K /\ prev = 0
        /\ top = [i \in {1, 2} |-> 0]
        /\ leaked = 0

-----------------------------------------------------------------------------
(* main: building the net *)

BuildZero == /\ pc = "zero" /\ h.free # 0
             /\ h' = NewAg(h, Zero)
             /\ prev' = h.free /\ left' = K /\ pc' = "grow"
             /\ UNCHANGED <<K, chain, top, leaked>>

(* Mutant: the counter is tested after the iteration, not before. *)
BuildAdd1Late == /\ pc = "grow" /\ h.free # 0
                 /\ h' = Connect(NewAg(h, Add1), <<prev, 0>>, <<h.free, 1>>)
                 /\ prev' = h.free /\ left' = left - 1
                 /\ UNCHANGED <<K, pc, chain, top, leaked>>

BuildAdd1 == /\ pc = "grow" /\ left > 0 /\ h.free # 0
             /\ h' = Connect(NewAg(h, Add1), <<prev, 0>>, <<h.free, 1>>)
             /\ prev' = h.free /\ left' = left - 1
             /\ UNCHANGED <<K, pc, chain, top, leaked>>

ChainDone == /\ pc = "grow" /\ left = 0
             /\ top' = [top EXCEPT ![chain] = prev]
             /\ IF chain = 1 THEN chain' = 2 /\ pc' = "zero"
                             ELSE chain' = chain /\ pc' = "root"
             /\ UNCHANGED <<K, h, left, prev, leaked>>

(* The net is complete with this step: the add, the end, their three wires  *)
(* and the add as the first entry of the ring.                              *)
BuildRoot ==
  LET add == h.free
      h1  == NewAg(h, Add)
      end == h1.free
      h2  == NewAg(h1, End)
  IN  /\ pc = "root" /\ add # 0 /\ end # 0
      /\ h' = Enq(Connect(Connect(Connect(h2,
                     <<top[1], 0>>, <<add, 1>>),
                     <<top[2], 0>>, <<add, 0>>),
                     <<add, 2>>, <<end, 0>>), add)
      /\ pc' = "driver"
      /\ UNCHANGED <<buildVars, leaked>>

(* newag found the free list empty while the net was being built. *)
BuildOom ==
  LET h1 == IF pc = "root" /\ h.free # 0 THEN NewAg(h, Add) ELSE h
  IN  /\ pc \in Building /\ ~(pc = "grow" /\ left = 0)
      /\ h1.free = 0
      /\ h' = Oom(h1) /\ pc' = "halted"
      /\ UNCHANGED <<buildVars, leaked>>

-----------------------------------------------------------------------------
(* The driver loop *)

Drive == /\ pc = "driver" /\ h.head # h.tail
         /\ h' = Turn(h)
         /\ pc' = IF Turn(h).err = 0 THEN "driver" ELSE "halted"
         /\ leaked' = leaked + TurnLeak(h)
         /\ UNCHANGED buildVars

(* Mutant: an empty ring sends the loop round again. *)
DoneLoops == /\ pc = "driver" /\ h.head = h.tail
             /\ UNCHANGED vars

(* .main_done: the comparison's copy of QTAIL stays on the stack. *)
Done == /\ pc = "driver" /\ h.head = h.tail
        /\ pc' = "halted" /\ leaked' = leaked + 1
        /\ UNCHANGED <<h, buildVars>>

Next == \/ BuildZero \/ BuildAdd1 \/ ChainDone \/ BuildRoot \/ BuildOom
        \/ Drive \/ Done

Spec == Init /\ [][Next]_vars

(* wvm_run executes until the program halts: a step that is enabled is taken. *)
FairSpec == Spec /\ WF_vars(Next)

-----------------------------------------------------------------------------
(* Properties *)

(* Every variable stays in its type: the type invariant of main and driver. *)
TypeOK == /\ K \in LENGTHS /\ h \in Heap
          /\ pc \in {"zero", "grow", "root", "driver", "halted"}
          /\ chain \in {1, 2} /\ left \in 0 .. K
          /\ prev \in Agent \cup {0} /\ top \in [{1, 2} -> Agent \cup {0}]
          /\ leaked \in Nat

(* newag and freeag keep a list of free blocks that ends, through the build *)
(* and through every rule, also the one that allocates before it frees: no  *)
(* rule is handed a block that is still in the net, or the same block twice.*)
FreeListOK == FreeListSound(h)

(* Between two turns every active pair of the net is in the ring: the rules *)
(* enqueue a port's agent only when they see a principal port, and the pair *)
(* that is missed would never be reduced.                                   *)
NoLostPair == pc = "driver" => PairsQueued(h)

(* In K + K the validation of the driver never rejects: the ring holds each *)
(* active pair once, so no turn is wasted and no word leaks, and enq, which *)
(* does not look for a full ring, has written over no entry yet unread.     *)
NoStaleEntry == pc = "driver" =>
  /\ \A i \in h.head .. h.tail - 1 : ActiveEntry(h, h.cell[i % QSIZE])
  /\ \A i, j \in h.head .. h.tail - 1 :
       i # j => LET a == h.cell[i % QSIZE] b == h.cell[j % QSIZE]
                IN  a # b /\ Partner(h, a) # b
  /\ leaked = 0

(* A run that halts without error has counted 2K and returned every agent   *)
(* of the net to the free list (the K+K check of inet-run).                 *)
SumAtHalt == pc = "halted" /\ h.err = 0 =>
  h.count = 2 * K /\ LiveAgents(h) = {}

(* Two chains, an add, an end and the two agents a rule allocates before it *)
(* frees its own fit in 2K+6 blocks: with those no run ends in an error,    *)
(* and the rule table has a rule for every pair the driver meets.           *)
EnoughAgents == NAGENTS >= 2 * K + 6 => h.err = 0

(* Main and driver implement the reduction of interaction nets, up to a     *)
(* halt for want of agents: until BuildRoot makes the first entry of the    *)
(* ring there is no net, then every turn rewrites one active pair.          *)
Net(n) == INSTANCE InetNet WITH
            VALUE  <- 2 * n,
            type   <- IF h.tail = 0 THEN [a \in Agent |-> 0]
                      ELSE [a \in Agent |-> IF Live(h, a) THEN h.word[a] ELSE 0],
            wires  <- IF h.tail = 0 THEN {} ELSE {{p, h.port[p]} : p \in UsedPorts(h)},
            count  <- h.count,
            loaded <- h.tail > 0
ReducesNet ==
  /\ \A n \in LENGTHS : K = n => Net(n)!Init
  /\ [][\A n \in LENGTHS : K = n /\ h'.err # 2 => [Net(n)!Next]_(Net(n)!vars)]_vars

(* The program halts. *)
Terminates == <>(pc = "halted")
=============================================================================
