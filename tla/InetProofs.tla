----------------------------- MODULE InetProofs -----------------------------
(* Theorems of inet.asm for every K, pool and ring.                          *)
EXTENDS Inet, InetReduction

(* The inductive invariant: the heap is sound between any two steps. A type *)
(* invariant alone is not inductive, because newag returns whatever FREE    *)
(* holds and the next FREE is that block's word.                            *)
IInv == TypeOK /\ SoundHeap(h)

(* main starts, after its loop over the agent area, with a sound heap.      *)
LEMMA InitIInv == Init => IInv
<1> SUFFICES ASSUME Init PROVE IInv
  OBVIOUS
<1>1. SoundHeap(h)
  BY ZeroHeapTyped, ResetSound DEF Init
<1>2. K \in LENGTHS /\ K \in 0 .. K
  BY InetAssumption DEF Init
<1> QED  BY <1>1, <1>2 DEF Init, IInv, TypeOK, SoundHeap

(* Every step of main and of the driver keeps the heap sound, the halts     *)
(* that newag makes in the middle of a build or of a rule included.         *)
LEMMA NextIInv == IInv /\ [Next]_vars => IInv'
<1> SUFFICES ASSUME IInv, [Next]_vars PROVE IInv'
  OBVIOUS
<1>0. TypeOK /\ SoundHeap(h)
  BY DEF IInv
<1>1. CASE BuildZero
  <2>1. SoundHeap(h') /\ h.free \in Agent
    BY <1>0, <1>1, NewAgSound DEF BuildZero, Type, Zero
  <2>2. K \in 0 .. K
    BY <1>0, InetAssumption DEF TypeOK
  <2> QED  BY <1>0, <1>1, <2>1, <2>2 DEF BuildZero, IInv, TypeOK, SoundHeap
<1>2. CASE BuildAdd1
  <2>1. SoundHeap(NewAg(h, Add1)) /\ h.free \in Agent
    BY <1>0, <1>2, NewAgSound DEF BuildAdd1, Type, Add1
  <2>2. <<prev, 0>> \in PortValue /\ <<h.free, 1>> \in Port
    BY <1>0, <2>1 DEF TypeOK, Port, PortValue
  <2>3. SoundHeap(h')
    BY <1>2, <2>1, <2>2, ConnectSound, PortValues DEF BuildAdd1
  <2>4. left' \in 0 .. K
    BY <1>0, <1>2, InetAssumption DEF BuildAdd1, TypeOK
  <2> QED  BY <1>0, <1>2, <2>1, <2>3, <2>4 DEF BuildAdd1, IInv, TypeOK, SoundHeap
<1>3. CASE ChainDone
  BY <1>0, <1>3 DEF ChainDone, IInv, TypeOK
<1>4. CASE BuildRoot
  <2> DEFINE add == h.free
             h1  == NewAg(h, Add)
             end == h1.free
             h2  == NewAg(h1, End)
             g1  == Connect(h2, <<top[1], 0>>, <<add, 1>>)
             g2  == Connect(g1, <<top[2], 0>>, <<add, 0>>)
             g3  == Connect(g2, <<add, 2>>, <<end, 0>>)
  <2>1. h' = Enq(g3, add) /\ add # 0 /\ end # 0
    BY <1>4 DEF BuildRoot
  <2>2. SoundHeap(h1) /\ add \in Agent
    BY <1>0, <2>1, NewAgSound DEF Type, Add
  <2>3. SoundHeap(h2) /\ end \in Agent
    BY <2>1, <2>2, NewAgSound DEF Type, End
  <2>4. /\ <<top[1], 0>> \in PortValue /\ <<top[2], 0>> \in PortValue
        /\ <<add, 0>> \in Port /\ <<add, 1>> \in Port /\ <<add, 2>> \in Port
        /\ <<end, 0>> \in Port
    <3>1. top[1] \in Agent \cup {0} /\ top[2] \in Agent \cup {0}
      BY <1>0 DEF TypeOK
    <3> QED  BY <2>2, <2>3, <3>1 DEF Port, PortValue
  <2> HIDE DEF add, end, h2
  <2>5. SoundHeap(g1)
    BY <2>3, <2>4, ConnectSound, PortValues
  <2> HIDE DEF g1
  <2>6. SoundHeap(g2)
    BY <2>4, <2>5, ConnectSound, PortValues
  <2> HIDE DEF g2
  <2>7. SoundHeap(g3)
    BY <2>4, <2>6, ConnectSound, PortValues
  <2> HIDE DEF g3
  <2>8. SoundHeap(h')
    BY <2>1, <2>2, <2>7, EnqSound
  <2> QED  BY <1>0, <1>4, <2>8 DEF BuildRoot, buildVars, IInv, TypeOK, SoundHeap
<1>5. CASE BuildOom
  <2>1. SoundHeap(Oom(h))
    BY <1>0, SetErrSound, ErrCodes, Zenon DEF Oom
  <2>2. ASSUME h.free # 0 PROVE SoundHeap(Oom(NewAg(h, Add)))
    <3>1. SoundHeap(NewAg(h, Add))
      BY <1>0, <2>2, NewAgSound DEF Type, Add
    <3> QED  BY <3>1, SetErrSound, ErrCodes, Zenon DEF Oom
  <2>3. SoundHeap(h') /\ pc' = "halted" /\ UNCHANGED <<buildVars, leaked>>
    BY <1>5, <2>1, <2>2 DEF BuildOom
  <2> QED  BY <1>0, <2>3 DEF buildVars, IInv, TypeOK, SoundHeap
<1>6. CASE Drive
  <2>1. SoundHeap(h')
    BY <1>0, <1>6, TurnSound DEF Drive
  <2>2. TurnLeak(h) \in Nat
    BY DEF TurnLeak
  <2> QED  BY <1>0, <1>6, <2>1, <2>2 DEF Drive, buildVars, IInv, TypeOK, SoundHeap
<1>7. CASE Done
  BY <1>0, <1>7 DEF Done, buildVars, IInv, TypeOK
<1>8. CASE UNCHANGED vars
  BY <1>0, <1>8 DEF vars, IInv, TypeOK
<1> QED  BY <1>1, <1>2, <1>3, <1>4, <1>5, <1>6, <1>7, <1>8 DEF Next

(* main and the driver keep every variable in its type, for every K, pool   *)
(* and ring - also when the pool or the ring is too small for the net.      *)
THEOREM TypeCorrect == Spec => []TypeOK
<1>1. IInv => TypeOK
  BY DEF IInv
<1> QED  BY <1>1, InitIInv, NextIInv, PTL DEF Spec

(* newag and freeag never lose the shape of the free list: through the      *)
(* build, every rule and every out-of-memory halt it holds free blocks only *)
(* and none twice, so no block in use is ever handed out again.             *)
THEOREM FreeListCorrect == Spec => []FreeListOK
<1>1. IInv => FreeListOK
  BY DEF IInv, SoundHeap, FreeListOK
<1> QED  BY <1>1, InitIInv, NextIInv, PTL DEF Spec

-----------------------------------------------------------------------------
(* What main has built before each of its calls, with the number of add1    *)
(* and of zeros, and the heads of the chains that are still unwired.        *)
BuildInv ==
  /\ pc \in Building => leaked = 0
  /\ pc = "zero" => /\ chain = 1 => Growing(h, {}, 0, 0)
                    /\ chain = 2 => Growing(h, {top[1]}, K, 1)
  /\ pc = "grow" => /\ chain = 1 => Growing(h, {prev}, K - left, 1)
                    /\ chain = 2 => /\ Growing(h, {top[1], prev}, K + (K - left), 2)
                                    /\ prev # top[1]
  /\ pc = "root" => Growing(h, {top[1], top[2]}, 2 * K, 2) /\ top[1] # top[2]

(* Between two turns the net can be reduced; the program stops when that is *)
(* done, or when newag finds no block.                                      *)
DriveInv ==
  /\ pc = "driver" => Reducible(h, 2 * K) /\ leaked = 0
  /\ pc = "halted" => \/ h.err = 0 /\ Reducible(h, 2 * K) /\ h.head = h.tail
                      \/ h.err = 2 /\ NAGENTS < 2 * K + 6

(* NoLostPair and the rest are not inductive: that a turn leaves no pair    *)
(* out of the ring needs that the two new wires are the only ones that can  *)
(* have made a pair, that no port faces itself and that the ring holds a    *)
(* pair once; that no pair means no agent needs that no wires run in a      *)
(* circle. Growing and Reducible say so of the heap.                         *)
NetInv == IInv /\ BuildInv /\ DriveInv

(* The cleared heap is the empty net.                                       *)
LEMMA InitNetInv == Init => NetInv
<1> SUFFICES ASSUME Init PROVE NetInv
  OBVIOUS
<1>1. IInv
  BY InitIInv
<1>2. Growing(h, {}, 0, 0)
  BY ZeroHeapTyped, EmptyGrows DEF Init
<1> QED  BY <1>1, <1>2 DEF Init, NetInv, BuildInv, DriveInv, Building

(* newag's halt leaves its error code.                                      *)
LEMMA OomHalts ==
  ASSUME IInv, BuildOom
  PROVE  h'.err = 2
<1> DEFINE h1 == IF pc = "root" /\ h.free # 0 THEN NewAg(h, Add) ELSE h
<1>1. SoundHeap(h) /\ h' = Oom(h1)
  BY DEF IInv, BuildOom
<1>2. h1 \in Heap
  <2>1. CASE h.free = 0
    BY <1>1, <2>1 DEF SoundHeap
  <2>2. CASE h.free # 0
    <3>1. Add \in Type
      BY DEF Add, Type
    <3>2. SoundHeap(NewAg(h, Add))
      BY <1>1, <2>2, <3>1, NewAgSound
    <3> QED  BY <1>1, <3>2 DEF SoundHeap
  <2> QED  BY <2>1, <2>2
<1> HIDE DEF h1
<1> QED  BY <1>1, <1>2 DEF Oom, Heap

(* Each call of main adds its agents to the chains, a turn of the driver    *)
(* keeps the net reducible, and where newag fails the pool is too small.    *)
LEMMA NextNetInv == NetInv /\ [Next]_vars => NetInv'
<1> SUFFICES ASSUME NetInv, [Next]_vars PROVE NetInv'
  OBVIOUS
<1>0. TypeOK /\ BuildInv /\ DriveInv /\ IInv' /\ K \in Nat
  BY NextIInv, InetAssumption DEF NetInv, IInv, TypeOK
<1>1. CASE BuildZero
  <2>1. /\ pc = "zero" /\ h.free # 0 /\ h' = NewAg(h, Zero) /\ prev' = h.free
        /\ left' = K /\ pc' = "grow" /\ UNCHANGED <<K, chain, top, leaked>>
    BY <1>1 DEF BuildZero
  <2>2. chain = 1 => Growing(h', {prev'}, 0, 1)
    <3>1. SUFFICES ASSUME chain = 1 PROVE Growing(h', {prev'}, 0, 1)
      OBVIOUS
    <3>2. Growing(h, {}, 0, 0)
      BY <1>0, <2>1, <3>1 DEF BuildInv
    <3>3. Growing(NewAg(h, Zero), {} \cup {h.free}, 0, 0 + 1)
      BY <2>1, <3>2, ZeroGrows
    <3> QED  BY <2>1, <3>3
  <2>3. chain = 2 => Growing(h', {top[1], prev'}, K, 2) /\ prev' # top[1]
    <3>1. SUFFICES ASSUME chain = 2
                   PROVE  Growing(h', {top[1], prev'}, K, 2) /\ prev' # top[1]
      OBVIOUS
    <3>2. Growing(h, {top[1]}, K, 1)
      BY <1>0, <2>1, <3>1 DEF BuildInv
    <3>3. /\ Growing(NewAg(h, Zero), {top[1]} \cup {h.free}, K, 1 + 1)
          /\ h.free \notin {top[1]}
      BY <1>0, <2>1, <3>2, ZeroGrows
    <3>4. {top[1]} \cup {h.free} = {top[1], h.free}
      OBVIOUS
    <3> QED  BY <2>1, <3>3, <3>4
  <2>4. BuildInv'
    BY <1>0, <2>1, <2>2, <2>3 DEF BuildInv, Building
  <2> QED  BY <1>0, <2>1, <2>4 DEF NetInv, DriveInv
<1>2. CASE BuildAdd1
  <2> DEFINE m == K - left
  <2>1. /\ pc = "grow" /\ left > 0 /\ h.free # 0 /\ prev' = h.free /\ left' = left - 1
        /\ h' = Connect(NewAg(h, Add1), <<prev, 0>>, <<h.free, 1>>)
        /\ UNCHANGED <<K, pc, chain, top, leaked>>
    BY <1>2 DEF BuildAdd1
  <2>2. m \in Nat /\ K' - left' = m + 1
    BY <1>0, <2>1 DEF TypeOK
  <2> HIDE DEF m
  <2>3. chain = 1 => Growing(h', {prev'}, m + 1, 1)
    <3>1. SUFFICES ASSUME chain = 1 PROVE Growing(h', {prev'}, m + 1, 1)
      OBVIOUS
    <3>2. Growing(h, {prev}, m, 1)
      BY <1>0, <2>1, <3>1 DEF BuildInv, m
    <3>3. Growing(h', ({prev} \ {prev}) \cup {h.free}, m + 1, 1)
      BY <2>1, <2>2, <3>2, Add1Grows
    <3>4. ({prev} \ {prev}) \cup {h.free} = {h.free}
      OBVIOUS
    <3> QED  BY <2>1, <3>3, <3>4
  <2>4. chain = 2 => Growing(h', {top[1], prev'}, K + (m + 1), 2) /\ prev' # top[1]
    <3>1. SUFFICES ASSUME chain = 2
                   PROVE  Growing(h', {top[1], prev'}, K + (m + 1), 2) /\ prev' # top[1]
      OBVIOUS
    <3>2. Growing(h, {top[1], prev}, K + m, 2) /\ prev # top[1]
      BY <1>0, <2>1, <3>1 DEF BuildInv, m
    <3>3. K + m \in Nat /\ prev \in {top[1], prev} /\ (K + m) + 1 = K + (m + 1)
      BY <1>0, <2>2
    <3>4. /\ Growing(h', ({top[1], prev} \ {prev}) \cup {h.free}, (K + m) + 1, 2)
          /\ h.free \notin {top[1], prev}
      BY <2>1, <3>2, <3>3, Add1Grows
    <3>5. ({top[1], prev} \ {prev}) \cup {h.free} = {top[1], h.free}
      BY <3>2
    <3> QED  BY <2>1, <3>3, <3>4, <3>5
  <2>5. BuildInv'
    BY <1>0, <2>1, <2>2, <2>3, <2>4 DEF BuildInv, Building
  <2> QED  BY <1>0, <2>1, <2>5 DEF NetInv, DriveInv
<1>3. CASE ChainDone
  <2>1. /\ pc = "grow" /\ left = 0 /\ top' = [top EXCEPT ![chain] = prev]
        /\ UNCHANGED <<K, h, left, prev, leaked>>
        /\ IF chain = 1 THEN chain' = 2 /\ pc' = "zero"
                        ELSE chain' = chain /\ pc' = "root"
    BY <1>3 DEF ChainDone
  <2>2. chain = 1 => Growing(h', {top'[1]}, K, 1)
    <3>1. top \in [{1, 2} -> Agent \cup {0}] /\ K - left = K
      BY <1>0, <2>1 DEF TypeOK
    <3> QED  BY <1>0, <2>1, <3>1 DEF BuildInv
  <2>3. chain = 2 => Growing(h', {top'[1], top'[2]}, 2 * K, 2) /\ top'[1] # top'[2]
    <3>1. top \in [{1, 2} -> Agent \cup {0}] /\ K + (K - left) = 2 * K
      BY <1>0, <2>1 DEF TypeOK
    <3> QED  BY <1>0, <2>1, <3>1 DEF BuildInv
  <2>4. chain \in {1, 2}
    BY <1>0 DEF TypeOK
  <2>5. BuildInv'
    BY <1>0, <2>1, <2>2, <2>3, <2>4 DEF BuildInv, Building
  <2> QED  BY <1>0, <2>1, <2>4, <2>5 DEF NetInv, DriveInv
<1>4. CASE BuildRoot
  <2> DEFINE p  == top[1]  q == top[2]
             c  == h.free
             h1 == NewAg(h, Add)
             d  == h1.free
             h2 == NewAg(h1, End)
             g  == Enq(Connect(Connect(Connect(h2, <<p, 0>>, <<c, 1>>),
                                       <<q, 0>>, <<c, 0>>), <<c, 2>>, <<d, 0>>), c)
  <2>1. /\ pc = "root" /\ c # 0 /\ d # 0 /\ h' = g /\ pc' = "driver"
        /\ UNCHANGED <<buildVars, leaked>>
    BY <1>4 DEF BuildRoot
  <2>2. Growing(h, {p, q}, 2 * K, 2) /\ p # q /\ leaked = 0
    BY <1>0, <2>1 DEF BuildInv, Building
  <2>3. 2 * K \in Nat
    BY <1>0
  <2>4. Reducible(g, 2 * K)
    <3> HIDE DEF p, q
    <3> QED  BY <2>1, <2>2, <2>3, RootReduces
  <2> HIDE DEF g
  <2> QED  BY <1>0, <2>1, <2>2, <2>4 DEF NetInv, BuildInv, DriveInv, Building, buildVars
<1>5. CASE BuildOom
  <2> DEFINE h1 == IF pc = "root" /\ h.free # 0 THEN NewAg(h, Add) ELSE h
  <2>1. /\ pc \in Building /\ ~(pc = "grow" /\ left = 0) /\ h1.free = 0
        /\ h' = Oom(h1) /\ pc' = "halted" /\ UNCHANGED <<buildVars, leaked>>
    BY <1>5 DEF BuildOom
  <2>2. h'.err = 2
    BY <1>5, OomHalts DEF NetInv
  <2>3. NAGENTS < 2 * K + 6
    <3>1. CASE pc = "zero"
      <4>1. h.free = 0 /\ chain \in {1, 2}
        BY <1>0, <2>1, <3>1 DEF TypeOK
      <4>2. CASE chain = 1
        BY <1>0, <3>1, <4>1, <4>2, GrowingFull, HeapAssumption DEF BuildInv
      <4>3. CASE chain = 2
        <5>1. Growing(h, {top[1]}, K, 1)
          BY <1>0, <3>1, <4>3 DEF BuildInv
        <5>2. NAGENTS = K + 1
          BY <1>0, <4>1, <5>1, GrowingFull
        <5> QED  BY <1>0, <5>2
      <4> QED  BY <4>1, <4>2, <4>3
    <3>2. CASE pc = "grow"
      <4> DEFINE m == K - left
      <4>1. h.free = 0 /\ chain \in {1, 2} /\ m \in 0 .. K
        BY <1>0, <2>1, <3>2 DEF TypeOK
      <4> HIDE DEF m
      <4>2. CASE chain = 1
        <5>1. Growing(h, {prev}, m, 1)
          BY <1>0, <3>2, <4>2 DEF BuildInv, m
        <5>2. NAGENTS = m + 1
          BY <1>0, <4>1, <5>1, GrowingFull
        <5> QED  BY <1>0, <4>1, <5>2
      <4>3. CASE chain = 2
        <5>1. Growing(h, {top[1], prev}, K + m, 2) /\ K + m \in Nat
          BY <1>0, <3>2, <4>1, <4>3 DEF BuildInv, m
        <5>2. NAGENTS = (K + m) + 2
          BY <4>1, <5>1, GrowingFull
        <5> QED  BY <1>0, <4>1, <5>2
      <4> QED  BY <4>1, <4>2, <4>3
    <3>3. CASE pc = "root"
      <4>1. Growing(h, {top[1], top[2]}, 2 * K, 2) /\ 2 * K \in Nat
        BY <1>0, <3>3 DEF BuildInv
      <4>2. CASE h.free = 0
        <5>1. NAGENTS = 2 * K + 2
          BY <4>1, <4>2, GrowingFull
        <5> QED  BY <4>1, <5>1
      <4>3. CASE h.free # 0
        <5>1. NewAg(h, Add).free = 0
          BY <2>1, <3>3, <4>3
        <5>2. NAGENTS = 2 * K + 2 + 1
          BY <4>1, <4>3, <5>1, GrowingNearlyFull
        <5> QED  BY <4>1, <5>2
      <4> QED  BY <4>2, <4>3
    <3> QED  BY <2>1, <3>1, <3>2, <3>3 DEF Building
  <2> HIDE DEF h1
  <2> QED  BY <1>0, <2>1, <2>2, <2>3 DEF NetInv, BuildInv, DriveInv, Building, buildVars
<1>6. CASE Drive
  <2>1. /\ pc = "driver" /\ h.head # h.tail /\ h' = Turn(h)
        /\ pc' = (IF Turn(h).err = 0 THEN "driver" ELSE "halted")
        /\ leaked' = leaked + TurnLeak(h) /\ UNCHANGED buildVars
    BY <1>6 DEF Drive
  <2>2. Reducible(h, 2 * K) /\ leaked = 0 /\ 2 * K \in Nat
    BY <1>0, <2>1 DEF DriveInv
  <2>3. /\ Reducible(Turn(h), 2 * K) \/ (Turn(h).err = 2 /\ NAGENTS < 2 * K + 6)
        /\ TurnLeak(h) = 0
    BY <2>1, <2>2, RingAssumption, TurnReduces
  <2>4. Reducible(Turn(h), 2 * K) => Turn(h).err = 0
    BY DEF Reducible
  <2>5. leaked' = 0
    BY <2>1, <2>2, <2>3
  <2> QED  BY <1>0, <2>1, <2>3, <2>4, <2>5
           DEF NetInv, BuildInv, DriveInv, Building, buildVars
<1>7. CASE Done
  <2>1. Reducible(h, 2 * K) => h.err = 0
    BY DEF Reducible
  <2> QED  BY <1>0, <1>7, <2>1 DEF Done, NetInv, BuildInv, DriveInv, Building, buildVars
<1>8. CASE UNCHANGED vars
  BY <1>0, <1>8 DEF vars, NetInv, BuildInv, DriveInv
<1> QED  BY <1>1, <1>2, <1>3, <1>4, <1>5, <1>6, <1>7, <1>8 DEF Next

(* Reachable states of main and driver satisfy the invariant.               *)
LEMMA NetInvariant == Spec => []NetInv
BY InitNetInv, NextNetInv, PTL DEF Spec

(* Between two turns every active pair of the net is in the ring: enq's     *)
(* test for a principal port misses none, whatever the order in which the   *)
(* rules make them.                                                         *)
THEOREM NoPairLost == Spec => []NoLostPair
<1>1. NetInv => NoLostPair
  BY ReducingQueuesPairs DEF NetInv, DriveInv, NoLostPair
<1> QED  BY <1>1, NetInvariant, PTL

(* The driver rejects no entry in K + K, leaves no word on the stack, and   *)
(* the ring holds no pair twice: enq overwrites nothing, whatever the size. *)
THEOREM NoEntryStale == Spec => []NoStaleEntry
<1>1. NetInv => NoStaleEntry
  BY ReducingNoStale DEF NetInv, DriveInv, NoStaleEntry
<1> QED  BY <1>1, NetInvariant, PTL

(* A run that halts without an error has counted 2K and freed every agent.  *)
THEOREM SumCorrect == Spec => []SumAtHalt
<1>1. NetInv => SumAtHalt
  <2> SUFFICES ASSUME NetInv, pc = "halted", h.err = 0
               PROVE  h.count = 2 * K /\ LiveAgents(h) = {}
    BY DEF SumAtHalt
  <2>1. Reducible(h, 2 * K) /\ h.head = h.tail
    BY DEF NetInv, DriveInv
  <2>2. 2 * K \in Nat
    BY InetAssumption DEF NetInv, IInv, TypeOK
  <2> QED  BY <2>1, <2>2, ReducingEnds
<1> QED  BY <1>1, NetInvariant, PTL

(* With 2K+6 blocks no run ends in an error, for every K: newag never fails *)
(* and the rule table has a rule for every pair.                            *)
THEOREM AgentsSuffice == Spec => []EnoughAgents
<1>1. NetInv => EnoughAgents
  <2> SUFFICES ASSUME NetInv, NAGENTS >= 2 * K + 6 PROVE h.err = 0
    BY DEF EnoughAgents
  <2>1. pc \in Building \cup {"driver", "halted"} /\ K \in Nat /\ chain \in {1, 2}
    BY InetAssumption DEF NetInv, IInv, TypeOK, Building
  <2>2. CASE pc \in Building
    <3>1. \E S, n, m : Growing(h, S, n, m)
      BY <2>1, <2>2 DEF NetInv, BuildInv, Building
    <3> QED  BY <3>1 DEF Growing
  <2>3. CASE pc = "driver"
    BY <2>3 DEF NetInv, DriveInv, Reducible
  <2>4. CASE pc = "halted"
    <3>1. ~(NAGENTS < 2 * K + 6)
      BY <2>1, HeapAssumption
    <3> QED  BY <2>4, <3>1 DEF NetInv, DriveInv
  <2> QED  BY <2>1, <2>2, <2>3, <2>4
<1> QED  BY <1>1, NetInvariant, PTL

-----------------------------------------------------------------------------
(* The net of a heap between two turns is well-wired.                       *)
LEMMA ReducingLoads ==
  ASSUME NEW g, NEW n \in Nat, Reducible(g, 2 * n), g.count = 0,
         NEW d \in Agent, Types(g)[d] = End
  PROVE  /\ UNION Net1(g) = Ports(Types(g))
         /\ \A w \in Net1(g) : Cardinality(w) = 2
         /\ \A v, w \in Net1(g) : v \cap w # {} => v = w
         /\ Cardinality({a \in Agent : Types(g)[a] = Add1}) = 2 * n
         /\ Cardinality({a \in Agent : Types(g)[a] = End}) = 1
<1> DEFINE T == Types(g)
<1>1. PICK r : Flow(T, g.port, {}, r)
  BY DEF Reducible
<1>2. Single(T) /\ Add1s(T) + 0 = 2 * n
  BY DEF Reducible
<1> HIDE DEF T
<1>3. Cardinality({a \in Agent : T[a] = Add1}) = 2 * n
  <2>1. Add1s(T) \in Nat /\ 2 * n \in Nat
    BY CountsNat
  <2>2. Add1s(T) = 2 * n
    BY <1>2, <2>1
  <2> QED  BY <2>2 DEF Add1s
<1>4. {a \in Agent : T[a] = End} = {d}
  BY <1>2 DEF Single, T
<1>5. Cardinality({a \in Agent : T[a] = End}) = 1
  BY <1>4, FS_Singleton
<1>6. /\ UNION WiresOf(T, g.port) = Ports(T)
      /\ \A w \in WiresOf(T, g.port) : Cardinality(w) = 2
      /\ \A v, w \in WiresOf(T, g.port) : v \cap w # {} => v = w
  BY <1>1, WiresArePairs
<1> QED  BY <1>3, <1>5, <1>6 DEF Net1, T

-----------------------------------------------------------------------------
(* Steps of main and the driver as steps of the abstract reduction.         *)

(* InetNet counts with the same Cardinality.                                *)
LEMMA NetCardinality == \A n, S : Net(n)!Cardinality(S) = Cardinality(S)
BY DEF Net!Cardinality, Cardinality

(* Before main is done there is no net.                                     *)
LEMMA InitNet ==
  ASSUME Init, NEW n \in LENGTHS
  PROVE  Net(n)!Init
<1>1. h.tail = 0 /\ h.count = 0
  BY DEF Init, Reset, ZeroHeap
<1> QED  BY <1>1 DEF Net!Init

(* The step that completes the net makes it appear.                         *)
LEMMA RootLoads ==
  ASSUME NEW n \in Nat, h.tail = 0, Reducible(h', 2 * n), h'.count = 0, h'.tail = 1,
         NEW d \in Agent, Types(h')[d] = End
  PROVE  Net(n)!Load
<1> DEFINE g == h'  T == Types(g)  W == Net1(g)
<1>1. SoundHeap(g)
  BY DEF Reducible, Pool
<1>2. T \in [Agent -> 0 .. 4]
  BY <1>1, TypesFacts
<1>3. /\ {{p, g.port[p]} : p \in UsedPorts(g)} = W
      /\ [a \in Agent |-> IF Live(g, a) THEN g.word[a] ELSE 0] = T
  BY <1>1, HeapPorts
<1>4. /\ UNION W = Ports(T)
      /\ \A w \in W : Cardinality(w) = 2
      /\ \A v, w \in W : v \cap w # {} => v = w
      /\ Cardinality({a \in Agent : T[a] = Add1}) = 2 * n
      /\ Cardinality({a \in Agent : T[a] = End}) = 1
  BY ReducingLoads
<1>5. ~(g.tail = 0) /\ g.tail > 0 /\ ~(h.tail > 0) /\ g.count = 0
  OBVIOUS
<1>6. UNION {{<<a, i>> : i \in 0 .. Net(n)!Arity[T[a]] - 1} : a \in {a \in Agent : T[a] # 0}}
        = Ports(T)
  <2> DEFINE A == Net(n)!Arity
  <2>1. A[Zero] = 1 /\ A[End] = 1 /\ A[Add1] = 2 /\ A[Add] = 3
    BY DEF Net!Arity, Net!Zero, Net!Add1, Net!Add, Net!End, Zero, Add1, Add, End
  <2> HIDE DEF A, T
  <2>2. UNION {{<<a, i>> : i \in 0 .. A[T[a]] - 1} : a \in {a \in Agent : T[a] # 0}} = Ports(T)
    BY <1>2, <2>1, NetPorts
  <2> QED  BY <2>2 DEF A
<1> HIDE DEF T, W
<1>7. Net(n)!WellWired'
  <2>1. (Net(n)!Members)' = {a \in Agent : T[a] # 0}
    BY <1>3, <1>5 DEF Net!Members
  <2>2. \A a : Net(n)!PortsOf(a)' = {<<a, i>> : i \in 0 .. Net(n)!Arity[T[a]] - 1}
    BY <1>3, <1>5 DEF Net!PortsOf
  <2>3. (UNION {Net(n)!PortsOf(a) : a \in Net(n)!Members})' = Ports(T)
    BY <1>6, <2>1, <2>2
  <2> QED  BY <1>3, <1>4, <1>5, <2>3, NetCardinality DEF Net!WellWired
<1>8. Cardinality(Net(n)!Of(Net(n)!Add1)') = 2 * n /\ Cardinality(Net(n)!Of(Net(n)!End)') = 1
  BY <1>3, <1>4, <1>5 DEF Net!Of, Net!Add1, Net!End, Add1, End
<1> QED  BY <1>5, <1>7, <1>8, NetCardinality DEF Net!Load

(* A turn of the driver is an interaction.                                  *)
LEMMA TurnIsInteraction ==
  ASSUME NEW n \in LENGTHS, NEW a \in Agent, NEW b \in Agent,
         h.tail > 0, h'.tail > 0, SoundHeap(h), SoundHeap(h'),
         Interaction(Types(h), Net1(h), h.count, Types(h'), Net1(h'), h'.count, a, b)
  PROVE  Net(n)!Interact
<1> DEFINE g == h'  T == Types(h)  U == Types(g)  W == Net1(h)  V == Net1(g)
<1>1. /\ {{p, h.port[p]} : p \in UsedPorts(h)} = W
      /\ [e \in Agent |-> IF Live(h, e) THEN h.word[e] ELSE 0] = T
      /\ {{p, g.port[p]} : p \in UsedPorts(g)} = V
      /\ [e \in Agent |-> IF Live(g, e) THEN g.word[e] ELSE 0] = U
  BY HeapPorts
<1>2. ~(h.tail = 0) /\ h.tail > 0 /\ ~(g.tail = 0) /\ g.tail > 0
  OBVIOUS
<1>3. Interaction(T, W, h.count, U, V, g.count, a, b)
  OBVIOUS
<1> HIDE DEF T, U, W, V
<1>4. UNCHANGED (h.tail > 0)
  BY <1>2
<1>5. /\ Net(n)!Without(a, b) = Apart(W, {a, b})
      /\ \A p : Net(n)!Other(p) = Far(W, p)
      /\ Net(n)!Members = {e \in Agent : T[e] # 0}
  BY <1>1, <1>2 DEF Net!Without, Net!Other, Net!Members, Apart, Far
<1>6. \A t, u : Net(n)!Cell(a, t, b, u) <=> T[a] = t /\ T[b] = u /\ {<<a, 0>>, <<b, 0>>} \in W
  BY <1>1, <1>2 DEF Net!Cell
<1>7. Net(n)!Zero = Zero /\ Net(n)!Add1 = Add1 /\ Net(n)!Add = Add /\ Net(n)!End = End
  BY DEF Net!Zero, Net!Add1, Net!Add, Net!End, Zero, Add1, Add, End
<1>8. CASE /\ T[a] = Add /\ T[b] = Zero /\ g.count = h.count
           /\ U = [T EXCEPT ![a] = 0, ![b] = 0]
           /\ V = Apart(W, {a, b}) \cup {{Far(W, <<a, 1>>), Far(W, <<a, 2>>)}}
  <2>1. {<<a, 0>>, <<b, 0>>} \in W
    BY <1>3 DEF Interaction
  <2>2. Net(n)!AddZero(a, b)
    BY <1>1, <1>2, <1>4, <1>5, <1>6, <1>7, <1>8, <2>1 DEF Net!AddZero
  <2> QED  BY <1>2, <2>2 DEF Net!Interact
<1>9. CASE /\ T[a] = Add /\ T[b] = Add1 /\ g.count = h.count
           /\ \E c, d \in {e \in Agent : T[e] = 0} :
                /\ c # d
                /\ U = [[T EXCEPT ![a] = 0, ![b] = 0] EXCEPT ![c] = Add1, ![d] = Add]
                /\ V = Apart(W, {a, b}) \cup
                         {{<<c, 0>>, Far(W, <<a, 2>>)}, {<<d, 0>>, Far(W, <<b, 1>>)},
                          {<<d, 1>>, Far(W, <<a, 1>>)}, {<<c, 1>>, <<d, 2>>}}
  <2>1. {<<a, 0>>, <<b, 0>>} \in W
    BY <1>3 DEF Interaction
  <2>2. Net(n)!AddAdd1(a, b)
    <3>1. PICK c \in Agent, d \in Agent :
            /\ T[c] = 0 /\ T[d] = 0 /\ c # d
            /\ U = [[T EXCEPT ![a] = 0, ![b] = 0] EXCEPT ![c] = Add1, ![d] = Add]
            /\ V = Apart(W, {a, b}) \cup
                     {{<<c, 0>>, Far(W, <<a, 2>>)}, {<<d, 0>>, Far(W, <<b, 1>>)},
                      {<<d, 1>>, Far(W, <<a, 1>>)}, {<<c, 1>>, <<d, 2>>}}
      BY <1>9
    <3>2. c \in (Agent \ Net(n)!Members) \cup {a, b} /\ d \in (Agent \ Net(n)!Members) \cup {a, b}
      BY <1>5, <3>1
    <3>3. Net(n)!Cell(a, Net(n)!Add, b, Net(n)!Add1)
      BY <1>6, <1>7, <1>9, <2>1
    <3>4. UNCHANGED <<h.count, h.tail > 0>>
      BY <1>4, <1>9
    <3>5. U = [[T EXCEPT ![a] = 0, ![b] = 0] EXCEPT ![c] = Net(n)!Add1, ![d] = Net(n)!Add]
      BY <1>7, <3>1
    <3>6. V = Net(n)!Without(a, b) \cup
                {{<<c, 0>>, Net(n)!Other(<<a, 2>>)}, {<<d, 0>>, Net(n)!Other(<<b, 1>>)},
                 {<<d, 1>>, Net(n)!Other(<<a, 1>>)}, {<<c, 1>>, <<d, 2>>}}
      <4>1. /\ Net(n)!Other(<<a, 1>>) = Far(W, <<a, 1>>)
            /\ Net(n)!Other(<<a, 2>>) = Far(W, <<a, 2>>)
            /\ Net(n)!Other(<<b, 1>>) = Far(W, <<b, 1>>)
            /\ Net(n)!Without(a, b) = Apart(W, {a, b})
        BY <1>5
      <4> QED  BY <4>1, <3>1
    <3> DEFINE C == (Agent \ Net(n)!Members) \cup {a, b}
    <3>7. c \in C /\ d \in C /\ c # d
      BY <3>1, <3>2
    <3> HIDE DEF C
    <3>8. \E x \in C, y \in C :
            /\ x # y
            /\ U = [[T EXCEPT ![a] = 0, ![b] = 0] EXCEPT ![x] = Net(n)!Add1, ![y] = Net(n)!Add]
            /\ V = Net(n)!Without(a, b) \cup
                     {{<<x, 0>>, Net(n)!Other(<<a, 2>>)}, {<<y, 0>>, Net(n)!Other(<<b, 1>>)},
                      {<<y, 1>>, Net(n)!Other(<<a, 1>>)}, {<<x, 1>>, <<y, 2>>}}
      BY <3>5, <3>6, <3>7
    <3> QED  BY <1>1, <1>2, <3>3, <3>4, <3>8 DEF Net!AddAdd1, C
  <2> QED  BY <1>2, <2>2 DEF Net!Interact
<1>10. CASE /\ T[a] = End /\ T[b] = Add1 /\ g.count = h.count + 1
            /\ U = [T EXCEPT ![b] = 0]
            /\ V = Apart(W, {a, b}) \cup {{<<a, 0>>, Far(W, <<b, 1>>)}}
  <2>1. {<<a, 0>>, <<b, 0>>} \in W
    BY <1>3 DEF Interaction
  <2>2. Net(n)!EndAdd1(a, b)
    BY <1>1, <1>2, <1>4, <1>5, <1>6, <1>7, <1>10, <2>1 DEF Net!EndAdd1
  <2> QED  BY <1>2, <2>2 DEF Net!Interact
<1>11. CASE /\ T[a] = End /\ T[b] = Zero /\ g.count = h.count
            /\ U = [T EXCEPT ![a] = 0, ![b] = 0]
            /\ V = Apart(W, {a, b})
  <2>1. {<<a, 0>>, <<b, 0>>} \in W
    BY <1>3 DEF Interaction
  <2>2. Net(n)!EndZero(a, b)
    BY <1>1, <1>2, <1>4, <1>5, <1>6, <1>7, <1>11, <2>1 DEF Net!EndZero
  <2> QED  BY <1>2, <2>2 DEF Net!Interact
<1> QED  BY <1>3, <1>8, <1>9, <1>10, <1>11 DEF Interaction

(* A state of the build has an empty ring.                                  *)
LEMMA BuildingRing == NetInv /\ pc \in Building => h.tail = 0 /\ h.count = 0
<1> SUFFICES ASSUME NetInv, pc \in Building PROVE h.tail = 0 /\ h.count = 0
  OBVIOUS
<1>1. \E S, n, m : Growing(h, S, n, m)
  BY DEF NetInv, BuildInv, Building, IInv, TypeOK
<1> QED  BY <1>1 DEF Growing

(* Every step of main and the driver is one of the net, or none.            *)
LEMMA StepReduces ==
  ASSUME NetInv, NetInv', Next, NEW n \in LENGTHS, K = n, h'.err # 2
  PROVE  [Net(n)!Next]_(Net(n)!vars)
<1>0. n \in Nat
  BY InetAssumption
<1>1. ASSUME UNCHANGED h  PROVE UNCHANGED Net(n)!vars
  BY <1>1 DEF Net!vars
<1>2. ASSUME h.tail = 0, h'.tail = 0, h'.count = h.count  PROVE UNCHANGED Net(n)!vars
  BY <1>2 DEF Net!vars
<1>3. CASE BuildZero
  <2>1. pc \in Building /\ pc' \in Building
    BY <1>3 DEF BuildZero, Building
  <2>2. (NetInv /\ pc \in Building => h.tail = 0 /\ h.count = 0)'
    BY BuildingRing, PTL
  <2> QED  BY <1>2, <2>1, <2>2, BuildingRing
<1>4. CASE BuildAdd1
  <2>1. pc \in Building /\ pc' \in Building
    BY <1>4 DEF BuildAdd1, Building
  <2>2. (NetInv /\ pc \in Building => h.tail = 0 /\ h.count = 0)'
    BY BuildingRing, PTL
  <2> QED  BY <1>2, <2>1, <2>2, BuildingRing
<1>5. CASE ChainDone
  BY <1>1, <1>5 DEF ChainDone
<1>7. CASE BuildOom
  BY <1>7, OomHalts DEF NetInv
<1>8. CASE Drive
  <2>1. Reducible(h, 2 * n) /\ h.head # h.tail /\ h' = Turn(h) /\ 2 * n \in Nat
    BY <1>0, <1>8 DEF Drive, NetInv, DriveInv
  <2>2. PICK a \in Agent, b \in Agent :
          Interaction(Types(h), Net1(h), h.count, Types(h'), Net1(h'), h'.count, a, b)
    BY <2>1, TurnInteracts, RingAssumption
  <2>3. h'.head = h.head + 1
    BY <2>1, TurnInteracts, RingAssumption
  <2>4. Reducible(h', 2 * n)
    BY <2>1, TurnReduces, RingAssumption
  <2>5. h.tail > 0 /\ h'.tail > 0
    <3>1. h.head \in Nat /\ h.tail \in Nat /\ h.head <= h.tail
      BY <2>1 DEF Reducible, Queued
    <3>2. h'.head \in Nat /\ h'.tail \in Nat /\ h'.head <= h'.tail
      BY <2>4 DEF Reducible, Queued
    <3> QED  BY <2>1, <2>3, <3>1, <3>2
  <2>6. SoundHeap(h) /\ SoundHeap(h')
    BY <2>1, <2>4 DEF Reducible, Pool
  <2> QED  BY <2>2, <2>5, <2>6, TurnIsInteraction DEF Net!Next
<1>9. CASE Done
  BY <1>1, <1>9 DEF Done
<1>6. CASE BuildRoot
  <2> DEFINE p  == top[1]  q == top[2]
             c  == h.free
             h1 == NewAg(h, Add)
             d  == h1.free
             h2 == NewAg(h1, End)
             g  == Enq(Connect(Connect(Connect(h2, <<p, 0>>, <<c, 1>>),
                                       <<q, 0>>, <<c, 0>>), <<c, 2>>, <<d, 0>>), c)
  <2>1. pc = "root" /\ c # 0 /\ d # 0 /\ h' = g
    BY <1>6 DEF BuildRoot
  <2>2. Growing(h, {p, q}, 2 * n, 2) /\ p # q /\ 2 * n \in Nat
    BY <1>0, <2>1 DEF NetInv, BuildInv
  <2>3. /\ Reducible(g, 2 * n) /\ g.count = 0 /\ g.tail = 1
        /\ d \in Agent /\ Types(g)[d] = End
    <3> HIDE DEF p, q
    <3> QED  BY <2>1, <2>2, RootReduces
  <2> HIDE DEF g
  <2>4. h.tail = 0
    BY <2>2 DEF Growing
  <2> QED  BY <1>0, <2>1, <2>3, <2>4, RootLoads DEF Net!Next
<1> QED  BY <1>3, <1>4, <1>5, <1>6, <1>7, <1>8, <1>9 DEF Next

(* inet.asm reduces an interaction net: main's stores appear as one well-   *)
(* wired net when the root is queued, and the calls of newag, connect and   *)
(* freeag of a rule are together one interaction of an active pair, for     *)
(* every K, pool and ring. Only the halt newag makes for want of a block,   *)
(* in the middle of a rule, is outside.                                     *)
THEOREM ReducesTheNet == Spec => ReducesNet
<1>1. Init => \A n \in LENGTHS : K = n => Net(n)!Init
  BY InitNet
<1>2. NetInv /\ NetInv' /\ [Next]_vars =>
        [\A n \in LENGTHS : K = n /\ h'.err # 2 => [Net(n)!Next]_(Net(n)!vars)]_vars
  <2> SUFFICES ASSUME NetInv, NetInv', Next, NEW n \in LENGTHS, K = n, h'.err # 2
               PROVE  [Net(n)!Next]_(Net(n)!vars)
    OBVIOUS
  <2> QED  BY StepReduces
<1> QED  BY <1>1, <1>2, NetInvariant, PTL DEF Spec, ReducesNet
=============================================================================
