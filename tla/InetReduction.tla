--------------------------- MODULE InetReduction ---------------------------
(***************************************************************************)
(* Every turn of the driver on the net of K + K reduces it, and main builds *)
(* a net that can be reduced. What holds of the heap between two turns is   *)
(* Reducible, what holds while main builds is Growing; the lemmas say that   *)
(* a turn, a rule, a chain's zero or add1 and the root of the net keep the  *)
(* one or the other, for every number of blocks and every size of ring. That *)
(* a rule is a step of the abstract net is asked of two agents only that    *)
(* they are an active pair. The last part is about the trees of inet-par.asm *)
(* as they grow, as they are moved and as nets.                              *)
(***************************************************************************)
EXTENDS InetHeapProofs
-----------------------------------------------------------------------------
(* How many agents a net has, and how many of them are add1.                *)
Agents(T) == Cardinality({a \in Agent : T[a] # 0})
Add1s(T)  == Cardinality({a \in Agent : T[a] = Add1})

LEMMA AgentsFinite ==
  /\ IsFiniteSet(Agent) /\ Cardinality(Agent) = NAGENTS
  /\ \A S \in SUBSET Agent : /\ IsFiniteSet(S) /\ Cardinality(S) \in Nat
                             /\ Cardinality(S) <= NAGENTS
<1>1. AGENTS \in Int /\ AGENTS + NAGENTS - 1 \in Int /\ NAGENTS >= 1
  BY HeapAssumption
<1>2. IsFiniteSet(Agent) /\ Cardinality(Agent) = NAGENTS
  BY <1>1, FS_Interval, HeapAssumption DEF Agent
<1> QED  BY <1>2, FS_Subset, FS_CardinalityType

LEMMA CountsNat ==
  \A T : Agents(T) \in Nat /\ Add1s(T) \in Nat /\ Agents(T) <= NAGENTS
<1> SUFFICES ASSUME NEW T PROVE Agents(T) \in Nat /\ Add1s(T) \in Nat /\ Agents(T) <= NAGENTS
  OBVIOUS
<1>1. {a \in Agent : T[a] # 0} \in SUBSET Agent /\ {a \in Agent : T[a] = Add1} \in SUBSET Agent
  OBVIOUS
<1> QED  BY <1>1, AgentsFinite DEF Agents, Add1s

LEMMA CountFree ==
  ASSUME NEW T \in [Agent -> 0 .. 4], NEW a \in Agent, T[a] # 0
  PROVE  /\ Agents([T EXCEPT ![a] = 0]) = Agents(T) - 1
         /\ Add1s([T EXCEPT ![a] = 0]) = IF T[a] = Add1 THEN Add1s(T) - 1 ELSE Add1s(T)
<1> DEFINE U == [T EXCEPT ![a] = 0]
           S == {e \in Agent : T[e] # 0}  R == {e \in Agent : T[e] = Add1}
<1>1. {e \in Agent : U[e] # 0} = S \ {a} /\ {e \in Agent : U[e] = Add1} = R \ {a}
  BY DEF Add1
<1>2. IsFiniteSet(S) /\ IsFiniteSet(R)
  <2>1. S \in SUBSET Agent /\ R \in SUBSET Agent
    OBVIOUS
  <2> QED  BY <2>1, AgentsFinite
<1>3. a \in S /\ (a \in R <=> T[a] = Add1)
  OBVIOUS
<1>4. Agents(T) = Cardinality(S) /\ Add1s(T) = Cardinality(R)
  BY DEF Agents, Add1s
<1>5. Agents(U) = Cardinality(S \ {a}) /\ Add1s(U) = Cardinality(R \ {a})
  BY <1>1 DEF Agents, Add1s
<1> HIDE DEF S, R, U
<1>6. Agents(U) = Agents(T) - 1 /\ Add1s(U) = IF T[a] = Add1 THEN Add1s(T) - 1 ELSE Add1s(T)
  BY <1>2, <1>3, <1>4, <1>5, FS_RemoveElement
<1> QED  BY <1>6 DEF U

LEMMA CountNew ==
  ASSUME NEW T \in [Agent -> 0 .. 4], NEW c \in Agent, NEW k \in Type, T[c] = 0
  PROVE  /\ Agents([T EXCEPT ![c] = k]) = Agents(T) + 1
         /\ Add1s([T EXCEPT ![c] = k]) = IF k = Add1 THEN Add1s(T) + 1 ELSE Add1s(T)
<1> DEFINE U == [T EXCEPT ![c] = k]
           S == {e \in Agent : T[e] # 0}  R == {e \in Agent : T[e] = Add1}
<1>1. {e \in Agent : U[e] # 0} = S \cup {c}
      /\ {e \in Agent : U[e] = Add1} = IF k = Add1 THEN R \cup {c} ELSE R
  <2>1. k # 0 /\ T[c] # Add1 /\ U[c] = k /\ \A e \in Agent \ {c} : U[e] = T[e]
    BY DEF Add1, Type
  <2> HIDE DEF U
  <2>2. {e \in Agent : U[e] # 0} = S \cup {c}
    BY <2>1
  <2>3. CASE k = Add1
    BY <2>1, <2>2, <2>3
  <2>4. CASE k # Add1
    BY <2>1, <2>2, <2>4
  <2> QED  BY <2>3, <2>4
<1>2. IsFiniteSet(S) /\ IsFiniteSet(R)
  <2>1. S \in SUBSET Agent /\ R \in SUBSET Agent
    OBVIOUS
  <2> QED  BY <2>1, AgentsFinite
<1>3. c \notin S /\ c \notin R
  BY DEF Add1
<1>4. Agents(T) = Cardinality(S) /\ Add1s(T) = Cardinality(R)
  BY DEF Agents, Add1s
<1>5. Agents(U) = Cardinality(S \cup {c})
      /\ Add1s(U) = IF k = Add1 THEN Cardinality(R \cup {c}) ELSE Cardinality(R)
  BY <1>1 DEF Agents, Add1s
<1> HIDE DEF S, R, U
<1>6. Agents(U) = Agents(T) + 1 /\ Add1s(U) = IF k = Add1 THEN Add1s(T) + 1 ELSE Add1s(T)
  <2>1. Cardinality(S \cup {c}) = Cardinality(S) + 1 /\ Cardinality(R \cup {c}) = Cardinality(R) + 1
    BY <1>2, <1>3, FS_AddElement
  <2> QED  BY <1>4, <1>5, <2>1
<1> QED  BY <1>6 DEF U

-----------------------------------------------------------------------------
(* A pair of an add or an end a and its feeder b, in a net of whatever size. *)
PairIn(h, a, b) ==
  /\ Pool(h) /\ \E r : Flow(Types(h), h.port, {}, r)
  /\ a \in Pairs(Types(h), h.port) /\ b = Feeder(h.port, a)

LEMMA PairParts ==
  ASSUME NEW h, NEW a, NEW b, PairIn(h, a, b)
  PROVE  /\ a \in Agent /\ b \in Agent /\ a # b /\ Live(h, a) /\ Live(h, b)
         /\ Types(h)[a] = h.word[a] /\ Types(h)[b] = h.word[b]
         /\ Types(h)[a] \in {Add, End} /\ Types(h)[b] \in {Zero, Add1}
<1> DEFINE T == Types(h)
<1>1. PICK r : Flow(T, h.port, {}, r)
  BY DEF PairIn
<1>2. a \in Pairs(T, h.port) /\ SoundHeap(h)
  BY DEF PairIn, Pool
<1>3. a \in Agent /\ T[a] \in {Add, End}
  BY <1>2 DEF Pairs
<1>4. b \in Agent /\ T[b] \in {Zero, Add1} /\ h.port[<<a, 0>>] = <<b, 0>>
  BY <1>1, <1>2, PairFacts DEF PairIn
<1>6. Live(h, a) /\ Live(h, b) /\ T[a] = h.word[a] /\ T[b] = h.word[b]
  BY <1>2, <1>3, <1>4, TypesFacts DEF Zero, Add1, Add, End
<1>7. a # b
  BY <1>3, <1>4 DEF Zero, Add1, Add, End
<1> QED  BY <1>3, <1>4, <1>6, <1>7

LEMMA PairPort ==
  ASSUME NEW h, NEW a, NEW b, PairIn(h, a, b)
  PROVE  h.port[<<a, 0>>] = <<b, 0>>
<1>1. PICK r : Flow(Types(h), h.port, {}, r)
  BY DEF PairIn
<1> QED  BY <1>1, PairFacts DEF PairIn

LEMMA PairTypes ==
  ASSUME NEW h, NEW a, NEW b, PairIn(h, a, b)
  PROVE  Types(h) \in [Agent -> 0 .. 4]
<1> QED  BY TypesFacts DEF PairIn, Pool

(* The ring after an enq of an agent of the new pair, or after none.        *)
Pushes(h, g, New, Q) ==
  /\ g.head = h.head
  /\ New = {} => g.cell = h.cell /\ g.tail = h.tail
  /\ New # {} => \E c, e \in Agent :
       /\ New = {c} /\ e \in {c, Feeder(Q, c)}
       /\ g.cell = [h.cell EXCEPT ![h.tail % QSIZE] = e] /\ g.tail = h.tail + 1

(* What a rule does with the pair of a: the net is still one, and every     *)
(* pair it makes enters the ring once, behind those that were there.        *)
Fired(h, a, g) ==
  LET S == Pairs(Types(h), h.port) \ {a}
      Q == g.port
  IN  /\ Pool(g) /\ g.err = h.err /\ \E s : Flow(Types(g), Q, {}, s)
      /\ \A c \in S : Feeder(Q, c) = Feeder(h.port, c)
      /\ \E m, N1, N2 : /\ Pairs(Types(g), Q) = S \cup N1 \cup N2
                        /\ N1 \cap S = {} /\ N2 \cap (S \cup N1) = {}
                        /\ Pushes(h, m, N1, Q) /\ Pushes(m, g, N2, Q)

(* A rule with one enq, or none. *)
LEMMA FiredOnce ==
  ASSUME NEW h, NEW a, NEW g, Pool(g), g.err = h.err, NEW T, T = Types(h), NEW P, P = h.port,
         NEW U, Types(g) = U, NEW Q, g.port = Q, \E s : Flow(U, Q, {}, s),
         NEW New, Pairs(U, Q) = (Pairs(T, P) \ {a}) \cup New, New \cap (Pairs(T, P) \ {a}) = {},
         \A c \in Pairs(T, P) \ {a} : Feeder(Q, c) = Feeder(P, c), Pushes(h, g, New, Q)
  PROVE  Fired(h, a, g)
<1> DEFINE S == Pairs(T, P) \ {a}
<1>1. Pushes(g, g, {}, Q)
  BY DEF Pushes
<1>2. S \cup New = S \cup New \cup {}
  OBVIOUS
<1>3. \E m, N1, N2 : /\ Pairs(Types(g), g.port) = S \cup N1 \cup N2
                     /\ N1 \cap S = {} /\ N2 \cap (S \cup N1) = {}
                     /\ Pushes(h, m, N1, g.port) /\ Pushes(m, g, N2, g.port)
  <2> DEFINE R(m, N1, N2) == /\ Pairs(Types(g), g.port) = S \cup N1 \cup N2
                             /\ N1 \cap S = {} /\ N2 \cap (S \cup N1) = {}
                             /\ Pushes(h, m, N1, g.port) /\ Pushes(m, g, N2, g.port)
  <2>1. R(g, New, {})
    BY <1>1, <1>2
  <2> HIDE DEF R
  <2>2. \E m, N1, N2 : R(m, N1, N2)
    BY <2>1
  <2> QED  BY <2>2 DEF R
<1> QED  BY <1>3 DEF Fired

(* A rule that frees both agents of its pair. *)
LEMMA FreeBoth ==
  ASSUME NEW h, Pool(h), NEW a, NEW b, Live(h, a), Live(h, b), a # b
  PROVE  /\ Pool(FreeAg(FreeAg(h, a), b)) /\ SameButPool(FreeAg(FreeAg(h, a), b), h)
         /\ Types(FreeAg(FreeAg(h, a), b)) = [Types(h) EXCEPT ![a] = 0, ![b] = 0]
<1> DEFINE hf == FreeAg(h, a)  g == FreeAg(hf, b)
<1>1. Pool(hf) /\ SameButPool(hf, h) /\ Types(hf) = [Types(h) EXCEPT ![a] = 0]
  BY FreeAgEffect
<1>2. Live(hf, b)
  <2>1. hf.word[b] = h.word[b]
    BY FreeAgSound DEF Pool, Live
  <2> QED  BY <2>1, LiveByWord
<1> HIDE DEF hf
<1>3. Pool(g) /\ SameButPool(g, hf) /\ Types(g) = [Types(hf) EXCEPT ![b] = 0]
  BY <1>1, <1>2, FreeAgEffect
<1>4. Types(g) = [Types(h) EXCEPT ![a] = 0, ![b] = 0]
  BY <1>1, <1>3
<1>5. SameButPool(g, h)
  BY <1>1, <1>3 DEF SameButPool
<1> QED  BY <1>3, <1>4, <1>5 DEF hf

(* rule_add_zero *)
LEMMA RuleAddZeroFires ==
  ASSUME NEW h, NEW a, NEW b, PairIn(h, a, b), Types(h)[a] = Add, Types(h)[b] = Zero
  PROVE  LET g == RuleAddZero(h, a, b)
         IN  /\ Fired(h, a, g)
             /\ Types(g) = [Types(h) EXCEPT ![a] = 0, ![b] = 0]
             /\ g.port = Joined(h.port, h.port[<<a, 1>>], h.port[<<a, 2>>])
             /\ g.count = h.count /\ g.head = h.head
<1> DEFINE T == Types(h)  P == h.port
           x == P[<<a, 1>>]  y == P[<<a, 2>>]
           g == RuleAddZero(h, a, b)
           U == [T EXCEPT ![a] = 0, ![b] = 0]  Q == Joined(P, x, y)
           New == IF x[2] = 0 /\ y[2] = 0 THEN {y[1]} ELSE {}
           S == Pairs(T, P) \ {a}
<1>1. Pool(h)
  BY DEF PairIn
<1>2. PICK r : Flow(T, P, {}, r)
  BY DEF PairIn
<1>3. /\ a \in Agent /\ b \in Agent /\ a # b /\ Live(h, a) /\ Live(h, b)
      /\ P[<<a, 0>>] = <<b, 0>> /\ T \in [Agent -> 0 .. 4]
  <2>1. a \in Agent /\ b \in Agent /\ a # b /\ Live(h, a) /\ Live(h, b)
    BY PairParts
  <2>2. P[<<a, 0>>] = <<b, 0>>
    BY PairPort
  <2>3. T \in [Agent -> 0 .. 4]
    BY PairTypes
  <2> QED  BY <2>1, <2>2, <2>3
<1>4. T[a] = Add /\ T[b] = Zero
  OBVIOUS
<1> HIDE DEF T, P
<1>5. /\ x \in Out(U) /\ y \in In(U) /\ Flow(U, Q, {}, r) /\ y # <<a, 0>>
  BY <1>2, <1>3, <1>4, FlowAddZero
<1>6. x \in Out(T) /\ y \in In(T) /\ P[y] = <<a, 2>>
  BY <1>2, <1>3, <1>4, UsedPortFacts DEF Flow, Wired
<1>7. x \in Port /\ y \in Port /\ x[1] \in Agent /\ y[1] \in Agent
  BY <1>6, InOutDisjoint, PortFacts
<1>8. /\ Pairs(U, Q) = S \cup New
      /\ \A c \in S : Feeder(Q, c) = Feeder(P, c)
      /\ New \cap Pairs(T, P) = {}
      /\ \A c \in New : Feeder(Q, c) = x[1]
  <2>1. y # <<a, 0>>
    BY <1>5
  <2>2. \A c \in Agent : U[c] = IF c \in {a, b} THEN 0 ELSE T[c]
    BY <1>3
  <2>3. \A p \in In(T) : Q[p] = IF p = y THEN x ELSE P[p]
    BY <1>2, <1>6, <1>7, InOutDisjoint DEF Joined, Flow, Wired
  <2>4. \A c : c \in New <=> x[2] = 0 /\ y[2] = 0 /\ c = y[1]
    OBVIOUS
  <2> HIDE DEF x, y, U, Q, New
  <2>5. AddZeroNets(T, P, U, Q, a, b, x, y, New)
    BY <1>3, <1>4, <1>6, <1>7, <2>1, <2>2, <2>3, <2>4 DEF AddZeroNets
  <2> QED  BY <2>5, PairsAddZero
<1>9. /\ Pool(g) /\ Types(g) = U /\ g.port = Q
      /\ g.count = h.count /\ g.err = h.err /\ g.head = h.head
      /\ ~(x[2] = 0 /\ y[2] = 0) => g.cell = h.cell /\ g.tail = h.tail
      /\ x[2] = 0 /\ y[2] = 0 => /\ g.cell = [h.cell EXCEPT ![h.tail % QSIZE] = x[1]]
                                 /\ g.tail = h.tail + 1
  <2> DEFINE hq == IF y[2] = 0 THEN EnqPrincipal(h, x) ELSE h
             hc == Connect(hq, x, y)
  <2>1. g = FreeAg(FreeAg(hc, a), b)
    BY DEF RuleAddZero, P
  <2> HIDE DEF x, y, g
  <2>2. /\ Pool(hq) /\ hq.word = h.word /\ Types(hq) = T
        /\ Live(hq, a) /\ Live(hq, b)
        /\ hq.port = P /\ hq.count = h.count /\ hq.err = h.err /\ hq.head = h.head
        /\ ~(x[2] = 0 /\ y[2] = 0) => hq.cell = h.cell /\ hq.tail = h.tail
        /\ x[2] = 0 /\ y[2] = 0 => /\ hq.cell = [h.cell EXCEPT ![h.tail % QSIZE] = x[1]]
                                   /\ hq.tail = h.tail + 1
    BY <1>1, <1>3, <1>7, EnqPrincipalEffect DEF T, P
  <2> HIDE DEF hq
  <2>3. SoundHeap(hc) /\ hc.word = hq.word
    BY <1>7, <2>2, ConnectSound, PortValues DEF Pool
  <2>4. /\ hc.port = Q
        /\ hc.count = hq.count /\ hc.err = hq.err /\ hc.head = hq.head
        /\ hc.cell = hq.cell /\ hc.tail = hq.tail
    BY <2>2 DEF Connect, Joined, Pool, SoundHeap, Heap
  <2> HIDE DEF hc
  <2>5. Pool(hc) /\ Types(hc) = T /\ Live(hc, a) /\ Live(hc, b)
    BY <2>2, <2>3, SamePool
  <2>6. Pool(g) /\ SameButPool(g, hc) /\ Types(g) = U
    BY <1>3, <2>1, <2>5, FreeBoth
  <2> QED  BY <2>2, <2>4, <2>6 DEF SameButPool
<1> HIDE DEF g
<1>10. Pushes(h, g, New, Q)
  <2>1. ASSUME New # {}
        PROVE  /\ New = {y[1]} /\ x[1] \in {y[1], Feeder(Q, y[1])}
               /\ g.cell = [h.cell EXCEPT ![h.tail % QSIZE] = x[1]] /\ g.tail = h.tail + 1
    BY <1>8, <1>9, <2>1
  <2>2. New = {} => g.cell = h.cell /\ g.tail = h.tail
    BY <1>9
  <2> HIDE DEF New, x, y, Q
  <2> QED  BY <1>7, <1>9, <2>1, <2>2 DEF Pushes
<1>11. Fired(h, a, g)
  <2>1. New \cap S = {} /\ \E s : Flow(U, Q, {}, s)
    BY <1>5, <1>8
  <2> HIDE DEF U, Q, New
  <2> QED  BY <1>8, <1>9, <1>10, <2>1, FiredOnce DEF T, P
<1> QED  BY <1>9, <1>11 DEF g, P, T

(* rule_end_zero *)
LEMMA RuleEndZeroFires ==
  ASSUME NEW h, NEW a, NEW b, PairIn(h, a, b), Types(h)[a] = End, Types(h)[b] = Zero
  PROVE  LET g == RuleEndZero(h, a, b)
         IN  /\ Fired(h, a, g)
             /\ Types(g) = [Types(h) EXCEPT ![a] = 0, ![b] = 0]
             /\ g.port = h.port /\ g.count = h.count /\ g.head = h.head
<1> DEFINE T == Types(h)  P == h.port
           g == RuleEndZero(h, a, b)
           U == [T EXCEPT ![a] = 0, ![b] = 0]
           S == Pairs(T, P) \ {a}
<1>1. Pool(h)
  BY DEF PairIn
<1>2. PICK r : Flow(T, P, {}, r)
  BY DEF PairIn
<1>3. /\ a \in Agent /\ b \in Agent /\ a # b /\ Live(h, a) /\ Live(h, b)
      /\ P[<<a, 0>>] = <<b, 0>> /\ T \in [Agent -> 0 .. 4]
  BY PairParts, PairPort, PairTypes
<1>4. T[a] = End /\ T[b] = Zero
  OBVIOUS
<1>5. Pool(g) /\ SameButPool(g, h) /\ Types(g) = U
  BY <1>1, <1>3, FreeBoth DEF RuleEndZero
<1> HIDE DEF T, P, g
<1>6. Flow(U, P, {}, r)
  BY <1>2, <1>3, <1>4, FlowEndZero
<1>7. Pairs(U, P) = S
  <2>1. \A c \in Agent : U[c] = IF c \in {a, b} THEN 0 ELSE T[c]
    BY <1>3
  <2> HIDE DEF U
  <2> QED  BY <1>3, <1>4, <2>1, PairsEndZero
<1>8. /\ g.port = P /\ g.count = h.count /\ g.err = h.err /\ g.head = h.head
      /\ Pushes(h, g, {}, P)
  BY <1>5 DEF SameButPool, Pushes, P
<1>9. Fired(h, a, g)
  <2>1. {} \cap S = {} /\ Pairs(U, P) = S \cup {} /\ \E s : Flow(U, P, {}, s)
    BY <1>6, <1>7
  <2> HIDE DEF U
  <2> QED  BY <1>5, <1>8, <2>1, FiredOnce DEF T, P
<1> QED  BY <1>5, <1>8, <1>9 DEF g, P, T

(* rule_end_add1 counts the add1 it takes away. *)
LEMMA RuleEndAdd1Fires ==
  ASSUME NEW h, NEW a, NEW b, PairIn(h, a, b), Types(h)[a] = End, Types(h)[b] = Add1
  PROVE  LET g == RuleEndAdd1(h, a, b)
         IN  /\ Fired(h, a, g)
             /\ Types(g) = [Types(h) EXCEPT ![b] = 0]
             /\ g.port = Joined(h.port, h.port[<<b, 1>>], <<a, 0>>)
             /\ g.count = h.count + 1 /\ g.head = h.head
<1> DEFINE T == Types(h)  P == h.port
           z == P[<<b, 1>>]
           g == RuleEndAdd1(h, a, b)
           U == [T EXCEPT ![b] = 0]  Q == Joined(P, z, <<a, 0>>)
           New == IF z[2] = 0 THEN {a} ELSE {}
           S == Pairs(T, P) \ {a}
<1>1. Pool(h)
  BY DEF PairIn
<1>2. PICK r : Flow(T, P, {}, r)
  BY DEF PairIn
<1>3. /\ a \in Agent /\ b \in Agent /\ a # b /\ Live(h, a) /\ Live(h, b)
      /\ P[<<a, 0>>] = <<b, 0>> /\ T \in [Agent -> 0 .. 4]
  <2>1. a \in Agent /\ b \in Agent /\ a # b /\ Live(h, a) /\ Live(h, b)
    BY PairParts
  <2>2. P[<<a, 0>>] = <<b, 0>>
    BY PairPort
  <2>3. T \in [Agent -> 0 .. 4]
    BY PairTypes
  <2> QED  BY <2>1, <2>2, <2>3
<1>4. T[a] = End /\ T[b] = Add1
  OBVIOUS
<1> HIDE DEF T, P
<1>5. z \in Out(U) /\ Flow(U, Q, {}, r)
  BY <1>2, <1>3, <1>4, FlowEndAdd1
<1>6. z \in Out(T) /\ <<a, 0>> \in In(T) /\ <<a, 0>> \in Port
  <2>1. <<b, 1>> \in In(T) /\ <<a, 0>> \in In(T)
    BY <1>3, <1>4, UsedPortFacts
  <2> QED  BY <1>2, <2>1, InOutDisjoint DEF Flow, Wired
<1>7. z \in Port /\ z[1] \in Agent
  BY <1>6, InOutDisjoint, PortFacts
<1>8. /\ Pairs(U, Q) = S \cup New
      /\ \A c \in S : Feeder(Q, c) = Feeder(P, c)
      /\ \A c \in New : Feeder(Q, c) = z[1]
  <2>1. \A c \in Agent : U[c] = IF c = b THEN 0 ELSE T[c]
    BY <1>3
  <2>2. \A p \in In(T) : Q[p] = IF p = <<a, 0>> THEN z ELSE P[p]
    BY <1>2, <1>6, <1>7, InOutDisjoint DEF Joined, Flow, Wired
  <2>3. \A c : c \in New <=> z[2] = 0 /\ c = a
    OBVIOUS
  <2> HIDE DEF z, U, Q, New
  <2>4. EndAdd1Nets(T, P, U, Q, a, b, z, New)
    BY <1>3, <1>4, <2>1, <2>2, <2>3 DEF EndAdd1Nets
  <2> QED  BY <2>4, PairsEndAdd1
<1>9. /\ Pool(g) /\ Types(g) = U /\ g.port = Q
      /\ g.count = h.count + 1 /\ g.err = h.err /\ g.head = h.head
      /\ z[2] # 0 => g.cell = h.cell /\ g.tail = h.tail
      /\ z[2] = 0 => /\ g.cell = [h.cell EXCEPT ![h.tail % QSIZE] = z[1]]
                     /\ g.tail = h.tail + 1
  <2> DEFINE hn == [h EXCEPT !.count = @ + 1]
             hq == EnqPrincipal(hn, z)
             hc == Connect(hq, z, <<a, 0>>)
  <2>1. g = FreeAg(hc, b)
    BY DEF RuleEndAdd1, Connect, P
  <2> HIDE DEF z, g
  <2>2. /\ Pool(hn) /\ Types(hn) = T /\ Live(hn, b)
        /\ hn.count = h.count + 1 /\ hn.err = h.err /\ hn.head = h.head /\ hn.port = P
        /\ hn.cell = h.cell /\ hn.tail = h.tail
    <3>0. h \in Heap /\ h.count + 1 \in Nat /\ hn = [h EXCEPT !.count = h.count + 1]
      BY <1>1 DEF Pool, SoundHeap, Heap
    <3> HIDE DEF hn
    <3>1. SoundHeap(hn) /\ hn.word = h.word
      BY <1>1, <3>0, SetCountSound DEF Pool
    <3>2. Pool(hn) /\ Types(hn) = T /\ Live(hn, b)
      BY <1>1, <1>3, <3>1, SamePool DEF T
    <3>3. /\ hn.count = h.count + 1 /\ hn.err = h.err /\ hn.head = h.head /\ hn.port = P
          /\ hn.cell = h.cell /\ hn.tail = h.tail
      BY <3>0 DEF Heap, P
    <3> QED  BY <3>2, <3>3
  <2> HIDE DEF hn
  <2>3. /\ Pool(hq) /\ hq.word = hn.word /\ Types(hq) = T
        /\ Live(hq, b)
        /\ hq.port = P /\ hq.count = h.count + 1 /\ hq.err = h.err /\ hq.head = h.head
        /\ z[2] # 0 => hq.cell = h.cell /\ hq.tail = h.tail
        /\ z[2] = 0 => /\ hq.cell = [h.cell EXCEPT ![h.tail % QSIZE] = z[1]]
                       /\ hq.tail = h.tail + 1
    BY <1>7, <2>2, EnqPrincipalEffect
  <2> HIDE DEF hq
  <2>4. SoundHeap(hc) /\ hc.word = hq.word
    BY <1>6, <1>7, <2>3, ConnectSound, PortValues DEF Pool
  <2>5. /\ hc.port = Q
        /\ hc.count = hq.count /\ hc.err = hq.err /\ hc.head = hq.head
        /\ hc.cell = hq.cell /\ hc.tail = hq.tail
    BY <2>3 DEF Connect, Joined, Pool, SoundHeap, Heap
  <2> HIDE DEF hc
  <2>6. Pool(hc) /\ Types(hc) = T /\ Live(hc, b)
    BY <2>3, <2>4, SamePool
  <2>7. Pool(g) /\ SameButPool(g, hc) /\ Types(g) = U
    BY <2>1, <2>6, FreeAgEffect
  <2> QED  BY <2>3, <2>5, <2>7 DEF SameButPool
<1> HIDE DEF g
<1>10. Pushes(h, g, New, Q)
  <2>1. ASSUME New # {}
        PROVE  /\ New = {a} /\ z[1] \in {a, Feeder(Q, a)}
               /\ g.cell = [h.cell EXCEPT ![h.tail % QSIZE] = z[1]] /\ g.tail = h.tail + 1
    BY <1>8, <1>9, <2>1
  <2>2. New = {} => g.cell = h.cell /\ g.tail = h.tail
    BY <1>9
  <2> HIDE DEF New, z, Q
  <2> QED  BY <1>3, <1>7, <1>9, <2>1, <2>2 DEF Pushes
<1>11. Fired(h, a, g)
  <2>1. New \cap S = {} /\ \E s : Flow(U, Q, {}, s)
    BY <1>5
  <2> HIDE DEF U, Q, New
  <2> QED  BY <1>8, <1>9, <1>10, <2>1, FiredOnce DEF T, P
<1> QED  BY <1>9, <1>11 DEF g, P, T

-----------------------------------------------------------------------------
(* An empty free list: there are as many blocks as agents.                  *)
LEMMA EmptyPoolCount ==
  ASSUME NEW h, Pool(h), h.free = 0
  PROVE  Agents(Types(h)) = NAGENTS
<1>1. \A a \in Agent : Types(h)[a] # 0
  BY EmptyPool
<1>2. {a \in Agent : Types(h)[a] # 0} = Agent
  BY <1>1
<1> QED  BY <1>2, AgentsFinite DEF Agents

(* What rule_add_add1 does to the net, with c and d the blocks newag gave.  *)
AddAdd1Rewires(h, a, b, g) ==
  LET P == h.port
  IN  \E c, d \in Agent :
        /\ c # d /\ Types(h)[c] = 0 /\ Types(h)[d] = 0
        /\ Types(g) = [Types(h) EXCEPT ![c] = Add1, ![d] = Add, ![a] = 0, ![b] = 0]
        /\ g.port = Joined(Joined(Joined(Joined(P, P[<<a, 2>>], <<c, 0>>),
                                         P[<<b, 1>>], <<d, 0>>),
                                  P[<<a, 1>>], <<d, 1>>), <<d, 2>>, <<c, 1>>)
        /\ g.count = h.count /\ g.head = h.head

(* rule_add_add1 on a pair, or its halt: then the pool has no two blocks    *)
(* more than the net has agents.                                            *)
LEMMA RuleAddAdd1Fires ==
  ASSUME NEW h, NEW a, NEW b, PairIn(h, a, b), Types(h)[a] = Add, Types(h)[b] = Add1
  PROVE  LET g == RuleAddAdd1(h, a, b)
         IN  \/ Fired(h, a, g) /\ AddAdd1Rewires(h, a, b, g)
             \/ g.err = 2 /\ g.count = h.count /\ NAGENTS < Agents(Types(h)) + 2
<1> DEFINE T == Types(h)  P == h.port
           x == P[<<a, 1>>]  y == P[<<a, 2>>]  z == P[<<b, 1>>]
           c == h.free   h1 == NewAg(h, Add1)
           d == h1.free  hn == NewAg(h1, Add)
           Q == Joined(Joined(Joined(Joined(P, y, <<c, 0>>), z, <<d, 0>>), x, <<d, 1>>),
                       <<d, 2>>, <<c, 1>>)
           h2 == [hn EXCEPT
               !.port[y] = <<c, 0>>, !.port[<<c, 0>>] = y,
               !.port[z] = <<d, 0>>, !.port[<<d, 0>>] = z,
               !.port[x] = <<d, 1>>, !.port[<<d, 1>>] = x,
               !.port[<<d, 2>>] = <<c, 1>>, !.port[<<c, 1>>] = <<d, 2>>]
           hy == EnqPrincipal(h2, y)
           hz == EnqPrincipal(hy, z)
           g  == RuleAddAdd1(h, a, b)
           S  == Pairs(T, P) \ {a}
<1>1. Pool(h) /\ h \in Heap
  BY DEF PairIn, Pool, SoundHeap
<1>2. PICK r : Flow(T, P, {}, r)
  BY DEF PairIn
<1>3. /\ a \in Agent /\ b \in Agent /\ a # b /\ Live(h, a) /\ Live(h, b)
      /\ P[<<a, 0>>] = <<b, 0>> /\ T \in [Agent -> 0 .. 4]
  <2>1. a \in Agent /\ b \in Agent /\ a # b /\ Live(h, a) /\ Live(h, b)
    BY PairParts
  <2>2. P[<<a, 0>>] = <<b, 0>>
    BY PairPort
  <2>3. T \in [Agent -> 0 .. 4]
    BY PairTypes
  <2> QED  BY <2>1, <2>2, <2>3
<1>4. T[a] = Add /\ T[b] = Add1
  OBVIOUS
<1>5. g = IF c = 0 THEN Oom(h) ELSE IF d = 0 THEN Oom(h1) ELSE FreeAg(FreeAg(hz, a), b)
  BY DEF RuleAddAdd1
<1> HIDE DEF g
<1>6. CASE c = 0
  <2>1. g.err = 2 /\ g.count = h.count
    BY <1>1, <1>5, <1>6 DEF Oom, Heap
  <2>2. Agents(T) = NAGENTS
    BY <1>1, <1>6, EmptyPoolCount
  <2>3. NAGENTS < Agents(T) + 2
    BY <1>1, <2>2, HeapAssumption
  <2> QED  BY <2>1, <2>3 DEF g
<1>7. ASSUME c # 0
      PROVE  /\ Pool(h1) /\ SameButPool(h1, h) /\ c \in Agent /\ T[c] = 0
             /\ Types(h1) = [T EXCEPT ![c] = Add1]
  <2>1. Add1 \in Type
    BY DEF Add1, Type
  <2> QED  BY <1>1, <1>7, <2>1, NewAgEffect
<1> DEFINE T1 == [T EXCEPT ![c] = Add1]
<1>8. CASE c # 0 /\ d = 0
  <2>1. g.err = 2 /\ g.count = h.count
    <3>1. h1 \in Heap /\ h1.count = h.count
      BY <1>7, <1>8 DEF Pool, SoundHeap, SameButPool
    <3> QED  BY <1>5, <1>8, <3>1 DEF Oom, Heap
  <2>2. Agents(T1) = NAGENTS
    BY <1>7, <1>8, EmptyPoolCount
  <2>3. Agents(T1) = Agents(T) + 1
    <3>1. Add1 \in Type
      BY DEF Add1, Type
    <3> QED  BY <1>3, <1>7, <1>8, <3>1, CountNew
  <2>4. NAGENTS < Agents(T) + 2
    BY <1>1, <2>2, <2>3, CountsNat, HeapAssumption
  <2> QED  BY <2>1, <2>4 DEF g
<1>9. CASE c # 0 /\ d # 0
  <2>1. /\ Pool(h1) /\ SameButPool(h1, h) /\ c \in Agent /\ T[c] = 0
        /\ Types(h1) = T1 /\ T1[c] = Add1
    BY <1>3, <1>7, <1>9
  <2> DEFINE U == [T EXCEPT ![c] = Add1, ![d] = Add, ![a] = 0, ![b] = 0]
             V == [T EXCEPT ![c] = Add1, ![d] = Add]
             NewY == IF y[2] = 0 THEN {y[1]} ELSE {}
             NewZ == IF z[2] = 0 THEN {d} ELSE {}
  <2>2. Pool(hn) /\ SameButPool(hn, h1) /\ d \in Agent /\ T1[d] = 0 /\ Types(hn) = [T1 EXCEPT ![d] = Add]
    <3>1. Add \in Type
      BY DEF Add, Type
    <3> HIDE DEF T1, h1
    <3>2. /\ Pool(NewAg(h1, Add)) /\ SameButPool(NewAg(h1, Add), h1) /\ h1.free \in Agent
          /\ Types(h1)[h1.free] = 0
          /\ Types(NewAg(h1, Add)) = [Types(h1) EXCEPT ![h1.free] = Add]
      BY <1>9, <2>1, <3>1, NewAgEffect
    <3> QED  BY <2>1, <3>2
  <2>3. c # d /\ T[d] = 0 /\ Types(hn) = V
    <3>1. c # d
      BY <2>1, <2>2 DEF Add1
    <3>2. T[d] = 0
      BY <1>3, <2>1, <2>2, <3>1
    <3>3. Types(hn) = [T1 EXCEPT ![d] = Add]
      BY <2>2
    <3>4. [T1 EXCEPT ![d] = Add] = V
      BY <1>3
    <3> QED  BY <3>1, <3>2, <3>3, <3>4
  <2>4. /\ c \notin {a, b} /\ d \notin {a, b}
    BY <1>4, <2>1, <2>3 DEF Add, Add1
  <2> HIDE DEF T, P, c, d, h1, hn, T1
  <2>5. /\ x \in Out(T) /\ y \in In(T) /\ z \in Out(T)
        /\ P[y] = <<a, 2>> /\ y # <<a, 0>>
        /\ \E s : Flow(U, Q, {}, s)
        /\ Q[y] = <<c, 0>> /\ Q[<<d, 0>>] = z
        /\ \A p \in In(T) \ {y} : Q[p] = P[p]
    <3>1. AddAdd1Done(T, P, a, b, c, d)
      BY <1>2, <1>3, <1>4, <2>1, <2>2, <2>3, FlowAddAdd1
    <3> QED  BY <3>1 DEF AddAdd1Done
  <2>6. /\ x \in Port /\ y \in Port /\ z \in Port /\ y[1] \in Agent /\ z[1] \in Agent
    BY <2>5, InOutDisjoint, PortFacts
  <2>7. \A e \in Agent : U[e] = IF e \in {a, b} THEN 0 ELSE IF e = c THEN Add1
                                ELSE IF e = d THEN Add ELSE T[e]
    BY <1>3, <2>1, <2>2, <2>3, <2>4
  <2> HIDE DEF x, y, z
  <2>8. /\ Pairs(U, Q) = S \cup NewY \cup NewZ
        /\ \A e \in S : Feeder(Q, e) = Feeder(P, e)
        /\ NewY \cap Pairs(T, P) = {} /\ d \notin Pairs(T, P) /\ d \notin NewY
        /\ Feeder(Q, d) = z[1]
    <3>1. /\ \A e : e \in NewY <=> y[2] = 0 /\ e = y[1]
          /\ \A e : e \in NewZ <=> z[2] = 0 /\ e = d
      OBVIOUS
    <3> HIDE DEF U, Q, NewY, NewZ
    <3>2. AddAdd1Nets(T, P, U, Q, a, b, c, d, y, z, NewY, NewZ)
      BY <1>3, <1>4, <2>1, <2>2, <2>3, <2>5, <2>7, <3>1 DEF AddAdd1Nets
    <3> QED  BY <3>2, PairsAddAdd1
  <2>9. /\ Pool(h2) /\ Types(h2) = V /\ h2.port = Q /\ Live(h2, a) /\ Live(h2, b)
        /\ h2.count = h.count /\ h2.err = h.err /\ h2.head = h.head
        /\ h2.cell = h.cell /\ h2.tail = h.tail
    <3>1. hn \in Heap /\ SoundHeap(hn) /\ hn.port = P
          /\ hn.count = h.count /\ hn.err = h.err /\ hn.head = h.head
          /\ hn.cell = h.cell /\ hn.tail = h.tail
      BY <2>1, <2>2 DEF SameButPool, Pool, SoundHeap, P
    <3>2. Q \in [Port -> PortValue]
      BY <2>5 DEF Flow, Wired
    <3>3. h2 = [hn EXCEPT !.port = Q]
      BY <3>1 DEF Heap, Joined
    <3> HIDE DEF h2, Q
    <3>4. /\ h2 \in Heap /\ h2.word = hn.word /\ h2.free = hn.free /\ h2.port = Q
          /\ h2.count = hn.count /\ h2.err = hn.err /\ h2.head = hn.head
          /\ h2.cell = hn.cell /\ h2.tail = hn.tail
      BY <3>1, <3>2, <3>3 DEF Heap
    <3>5. SoundHeap(h2)
      BY <3>1, <3>4, SameList DEF SoundHeap
    <3>6. Pool(h2) /\ Types(h2) = V
      BY <2>2, <2>3, <3>4, <3>5, SamePool
    <3>7. V[a] # 0 /\ V[b] # 0
      BY <1>3, <1>4, <2>4 DEF Add, Add1
    <3>8. Live(h2, a) /\ Live(h2, b)
      BY <1>3, <3>5, <3>6, <3>7, TypesFacts
    <3> QED  BY <3>1, <3>4, <3>6, <3>8
  <2> HIDE DEF h2
  <2>10. /\ Pool(hy) /\ Types(hy) = V /\ hy.port = Q /\ Live(hy, a) /\ Live(hy, b)
         /\ hy.count = h.count /\ hy.err = h.err /\ hy.head = h.head
         /\ y[2] # 0 => hy.cell = h.cell /\ hy.tail = h.tail
         /\ y[2] = 0 => /\ hy.cell = [h.cell EXCEPT ![h.tail % QSIZE] = y[1]]
                        /\ hy.tail = h.tail + 1
    BY <2>6, <2>9, EnqPrincipalEffect
  <2> HIDE DEF hy
  <2>11. /\ Pool(hz) /\ Types(hz) = V /\ hz.port = Q /\ Live(hz, a) /\ Live(hz, b)
         /\ hz.count = h.count /\ hz.err = h.err /\ hz.head = h.head
         /\ z[2] # 0 => hz.cell = hy.cell /\ hz.tail = hy.tail
         /\ z[2] = 0 => /\ hz.cell = [hy.cell EXCEPT ![hy.tail % QSIZE] = z[1]]
                        /\ hz.tail = hy.tail + 1
    BY <2>6, <2>10, EnqPrincipalEffect
  <2> HIDE DEF hz
  <2>12. Pool(g) /\ SameButPool(g, hz) /\ Types(g) = U
    <3>1. g = FreeAg(FreeAg(hz, a), b)
      BY <1>5, <1>9
    <3>2. Pool(g) /\ SameButPool(g, hz) /\ Types(g) = [Types(hz) EXCEPT ![a] = 0, ![b] = 0]
      <4> HIDE DEF U, V
      <4>1. Pool(hz) /\ Live(hz, a) /\ Live(hz, b) /\ a # b
        BY <1>3, <2>11
      <4> QED  BY <3>1, <4>1, FreeBoth
    <3>3. [V EXCEPT ![a] = 0, ![b] = 0] = U
      BY <1>3
    <3> QED  BY <2>11, <3>2, <3>3
  <2>13. /\ g.cell = hz.cell /\ g.tail = hz.tail /\ g.head = h.head
         /\ g.port = Q /\ g.count = h.count /\ g.err = h.err
    BY <2>11, <2>12 DEF SameButPool
  <2>14. Pushes(h, hy, NewY, Q)
    <3>1. ASSUME NewY # {}
          PROVE  /\ NewY = {y[1]} /\ y[1] \in {y[1], Feeder(Q, y[1])}
                 /\ hy.cell = [h.cell EXCEPT ![h.tail % QSIZE] = y[1]] /\ hy.tail = h.tail + 1
      BY <2>10, <3>1
    <3>2. NewY = {} => hy.cell = h.cell /\ hy.tail = h.tail
      BY <2>10
    <3> HIDE DEF NewY, Q
    <3> QED  BY <2>6, <2>10, <3>1, <3>2 DEF Pushes
  <2>15. Pushes(hy, g, NewZ, Q)
    <3>1. ASSUME NewZ # {}
          PROVE  /\ NewZ = {d} /\ z[1] \in {d, Feeder(Q, d)}
                 /\ g.cell = [hy.cell EXCEPT ![hy.tail % QSIZE] = z[1]] /\ g.tail = hy.tail + 1
      BY <2>8, <2>11, <2>13, <3>1
    <3>2. NewZ = {} => g.cell = hy.cell /\ g.tail = hy.tail
      BY <2>11, <2>13
    <3> HIDE DEF NewZ, Q
    <3> QED  BY <2>2, <2>6, <2>10, <2>13, <3>1, <3>2 DEF Pushes
  <2>16. NewY \cap S = {} /\ NewZ \cap (S \cup NewY) = {}
    BY <2>8
  <2>17. Fired(h, a, g)
    <3> DEFINE R(m, N1, N2) == /\ Pairs(U, Q) = S \cup N1 \cup N2
                               /\ N1 \cap S = {} /\ N2 \cap (S \cup N1) = {}
                               /\ Pushes(h, m, N1, Q) /\ Pushes(m, g, N2, Q)
    <3>1. R(hy, NewY, NewZ)
      BY <2>8, <2>14, <2>15, <2>16
    <3> HIDE DEF R
    <3>2. \E m, N1, N2 : R(m, N1, N2)
      BY <3>1
    <3> HIDE DEF U, Q
    <3> QED  BY <2>5, <2>8, <2>12, <2>13, <3>2 DEF Fired, R, T, P
  <2>18. AddAdd1Rewires(h, a, b, g)
    <3>1. g.head = h.head /\ g.count = h.count /\ g.port = Q /\ Types(g) = U
      BY <2>12, <2>13
    <3>2. c \in Agent /\ d \in Agent /\ c # d /\ T[c] = 0 /\ T[d] = 0
      BY <2>1, <2>2, <2>3
    <3> QED  BY <3>1, <3>2 DEF AddAdd1Rewires, T, P, x, y, z
  <2> QED  BY <2>17, <2>18 DEF g
<1> QED  BY <1>6, <1>8, <1>9

-----------------------------------------------------------------------------
(* What the rules take from and add to the counts, given the net's types    *)
(* before and after.                                                        *)
LEMMA CountFreeBoth ==
  ASSUME NEW T \in [Agent -> 0 .. 4], NEW a \in Agent, NEW b \in Agent, a # b,
         T[a] # 0, T[a] # Add1, T[b] # 0,
         NEW U, U = [T EXCEPT ![a] = 0, ![b] = 0]
  PROVE  /\ Agents(U) = Agents(T) - 2
         /\ Add1s(U) = IF T[b] = Add1 THEN Add1s(T) - 1 ELSE Add1s(T)
<1> DEFINE V == [T EXCEPT ![a] = 0]
<1>1. V \in [Agent -> 0 .. 4] /\ V[b] = T[b] /\ [V EXCEPT ![b] = 0] = U
  OBVIOUS
<1>2. Agents(V) = Agents(T) - 1 /\ Add1s(V) = Add1s(T)
  BY CountFree
<1> HIDE DEF V
<1>3. /\ Agents([V EXCEPT ![b] = 0]) = Agents(V) - 1
      /\ Add1s([V EXCEPT ![b] = 0]) = IF V[b] = Add1 THEN Add1s(V) - 1 ELSE Add1s(V)
  BY <1>1, CountFree
<1> QED  BY <1>1, <1>2, <1>3, CountsNat

Duplicated(T, U, a, b, c, d) == U = [T EXCEPT ![c] = Add1, ![d] = Add, ![a] = 0, ![b] = 0]

LEMMA CountAddAdd1 ==
  ASSUME NEW T \in [Agent -> 0 .. 4], NEW a \in Agent, NEW b \in Agent, T[a] = Add, T[b] = Add1,
         NEW c \in Agent, NEW d \in Agent, c # d, T[c] = 0, T[d] = 0,
         NEW U, Duplicated(T, U, a, b, c, d)
  PROVE  Agents(U) = Agents(T) /\ Add1s(U) = Add1s(T)
<1> DEFINE T1 == [T EXCEPT ![c] = Add1]  V == [T1 EXCEPT ![d] = Add]
<1>1. /\ T1 \in [Agent -> 0 .. 4] /\ V \in [Agent -> 0 .. 4] /\ T1[d] = 0 /\ a # b
      /\ [V EXCEPT ![a] = 0, ![b] = 0] = U /\ V[a] = Add /\ V[b] = Add1
  BY DEF Add, Add1, Duplicated
<1>2. Add \in Type /\ Add1 \in Type /\ Add # Add1 /\ Add # 0 /\ Add1 # 0
  BY DEF Add, Add1, Type
<1>3. Agents(T1) = Agents(T) + 1 /\ Add1s(T1) = IF Add1 = Add1 THEN Add1s(T) + 1 ELSE Add1s(T)
  BY <1>2, CountNew
<1> HIDE DEF T1
<1>4. Agents(V) = Agents(T1) + 1 /\ Add1s(V) = IF Add = Add1 THEN Add1s(T1) + 1 ELSE Add1s(T1)
  <2>1. T1 \in [Agent -> 0 .. 4] /\ d \in Agent /\ Add \in Type /\ T1[d] = 0
    BY <1>1, <1>2
  <2> QED  BY <2>1, CountNew
<1> HIDE DEF V
<1>5. Agents(U) = Agents(V) - 2 /\ Add1s(U) = Add1s(V) - 1
  <2>1. /\ V \in [Agent -> 0 .. 4] /\ a \in Agent /\ b \in Agent /\ a # b
        /\ V[a] # 0 /\ V[a] # Add1 /\ V[b] # 0 /\ V[b] = Add1
    BY <1>1, <1>2
  <2> DEFINE W == [V EXCEPT ![a] = 0]
  <2>2. W \in [Agent -> 0 .. 4] /\ W[b] = Add1 /\ W[b] # 0 /\ U = [W EXCEPT ![b] = 0]
    BY <1>1, <2>1
  <2>3. Agents(W) = Agents(V) - 1 /\ Add1s(W) = Add1s(V)
    BY <2>1, CountFree
  <2> HIDE DEF W
  <2>4. /\ Agents([W EXCEPT ![b] = 0]) = Agents(W) - 1
        /\ Add1s([W EXCEPT ![b] = 0]) = IF W[b] = Add1 THEN Add1s(W) - 1 ELSE Add1s(W)
    BY <2>2, CountFree
  <2> QED  BY <2>2, <2>3, <2>4, CountsNat
<1> QED  BY <1>2, <1>3, <1>4, <1>5, CountsNat

-----------------------------------------------------------------------------
(* The heap of a K + K between two turns, n being 2K: a net, its pairs in   *)
(* the ring, and every unit either an add1 or counted.                      *)
Reducible(h, n) ==
  /\ Pool(h) /\ h.err = 0
  /\ \E r : Flow(Types(h), h.port, {}, r)
  /\ Single(Types(h))
  /\ Queued(h, Pairs(Types(h), h.port), h.port)
  /\ Add1s(Types(h)) + h.count = n /\ Agents(Types(h)) <= n + 4

(* The same within a turn, the pair of a taken from the ring. *)
Taken(h, a, n) ==
  /\ Pool(h) /\ h.err = 0
  /\ \E r : Flow(Types(h), h.port, {}, r)
  /\ Single(Types(h))
  /\ a \in Pairs(Types(h), h.port)
  /\ Queued(h, Pairs(Types(h), h.port) \ {a}, h.port)
  /\ Add1s(Types(h)) + h.count = n /\ Agents(Types(h)) <= n + 4

(* An enq, or none, that follows the pairs of the new net. *)
LEMMA QueuedEnq ==
  ASSUME NEW h, NEW S, NEW P, Queued(h, S, P), NEW U, NEW Q, NEW r, Flow(U, Q, {}, r),
         h.tail - h.head < QSIZE,
         NEW new, new = {} \/ \E a : new = {a} /\ a \notin S,
         S \cup new \subseteq Pairs(U, Q),
         \A c \in S : Feeder(Q, c) = Feeder(P, c),
         NEW e \in Agent, \A a \in new : e \in {a, Feeder(Q, a)},
         NEW g, g.head = h.head,
         new = {} => g.cell = h.cell /\ g.tail = h.tail,
         new # {} => g.cell = [h.cell EXCEPT ![h.tail % QSIZE] = e] /\ g.tail = h.tail + 1
  PROVE  Queued(g, S \cup new, Q)
<1>1. CASE new = {}
  <2>1. Queued(g, S, Q)
    BY <1>1, QueuedSame
  <2> QED  BY <1>1, <2>1
<1>2. CASE new # {}
  <2>1. PICK a : new = {a} /\ a \notin S
    BY <1>2
  <2>2. a \in Pairs(U, Q) /\ S \subseteq Pairs(U, Q) /\ e \in {a, Feeder(Q, a)}
    BY <2>1
  <2>3. ASSUME NEW c \in S  PROVE {a, Feeder(Q, a)} \cap {c, Feeder(Q, c)} = {}
    <3>1. c \in Pairs(U, Q) /\ c # a
      BY <2>1, <2>2
    <3>2. \A d, f \in Pairs(U, Q) : {d, Feeder(Q, d)} \cap {f, Feeder(Q, f)} # {} => d = f
      BY PairFacts
    <3> QED  BY <2>2, <3>1, <3>2
  <2>4. Queued(g, S \cup {a}, Q)
    <3>1. g.cell = [h.cell EXCEPT ![h.tail % QSIZE] = e] /\ g.tail = h.tail + 1 /\ a \notin S
      BY <1>2, <2>1
    <3> QED  BY <2>2, <2>3, <3>1, QueuedPush, Zenon
  <2> QED  BY <2>1, <2>4
<1> QED  BY <1>1, <1>2

(* The same for what a rule pushes.                                         *)
LEMMA QueuedPushes ==
  ASSUME NEW h, NEW S, NEW P, Queued(h, S, P), NEW U, NEW Q, NEW r, Flow(U, Q, {}, r),
         NEW New, New # {} => h.tail - h.head < QSIZE, New \cap S = {},
         S \cup New \subseteq Pairs(U, Q),
         \A c \in S : Feeder(Q, c) = Feeder(P, c), NEW g, Pushes(h, g, New, Q)
  PROVE  Queued(g, S \cup New, Q)
<1>1. CASE New = {}
  <2>1. g.cell = h.cell /\ g.tail = h.tail /\ g.head = h.head
    BY <1>1 DEF Pushes
  <2>2. Queued(g, S, Q)
    BY <2>1, QueuedSame
  <2> QED  BY <1>1, <2>2
<1>2. CASE New # {}
  <2>1. PICK c \in Agent, e \in Agent :
          /\ New = {c} /\ e \in {c, Feeder(Q, c)}
          /\ g.cell = [h.cell EXCEPT ![h.tail % QSIZE] = e] /\ g.tail = h.tail + 1
    BY <1>2 DEF Pushes
  <2>2. g.head = h.head /\ New = {c} /\ c \notin S /\ \A a \in New : e \in {a, Feeder(Q, a)}
    BY <2>1 DEF Pushes
  <2> QED  BY <1>2, <2>1, <2>2, QueuedEnq
<1> QED  BY <1>1, <1>2

(* Beside the pair of the add there is at most that of the end, and v.v.    *)
LEMMA RestOfRing ==
  ASSUME NEW T, NEW P, Single(T), NEW a \in Pairs(T, P)
  PROVE  \E e : Pairs(T, P) \ {a} \subseteq {e}
<1>1. \A c, e \in Pairs(T, P) \ {a} : c = e
  BY DEF Single, Pairs
<1>2. CASE Pairs(T, P) \ {a} = {}
  BY <1>2
<1>3. CASE Pairs(T, P) \ {a} # {}
  <2>1. PICK e : e \in Pairs(T, P) \ {a}
    BY <1>3
  <2> QED  BY <1>1, <2>1
<1> QED  BY <1>2, <1>3

(* A rule's pairs follow in the ring, which has room for two.               *)
LEMMA TakenFires ==
  ASSUME NEW h, NEW n, NEW a, Taken(h, a, n), NEW g, Fired(h, a, g), Single(Types(g)), QSIZE >= 2
  PROVE  Queued(g, Pairs(Types(g), g.port), g.port)
<1> DEFINE P == h.port  S == Pairs(Types(h), P) \ {a}  U == Types(g)  Q == g.port
<1>1. PICK s : Flow(U, Q, {}, s)
  BY DEF Fired
<1>2. PICK m, N1, N2 : /\ Pairs(U, Q) = S \cup N1 \cup N2
                       /\ N1 \cap S = {} /\ N2 \cap (S \cup N1) = {}
                       /\ Pushes(h, m, N1, Q) /\ Pushes(m, g, N2, Q)
  BY DEF Fired
<1>3. Queued(h, S, P) /\ Single(Types(h)) /\ a \in Pairs(Types(h), P)
  BY DEF Taken
<1>4. \A c \in S : Feeder(Q, c) = Feeder(P, c)
  BY DEF Fired
<1>5. h.tail - h.head < QSIZE
  <2>1. PICK e : S \subseteq {e}
    BY <1>3, RestOfRing
  <2> HIDE DEF S
  <2>2. h.tail <= h.head + 1 /\ h.head \in Nat /\ h.tail \in Nat
    BY <1>3, <2>1, QueuedLength DEF Queued
  <2> QED  BY <2>2, HeapAssumption
<1> HIDE DEF S, P, U, Q
<1>6. Queued(m, S \cup N1, Q)
  BY <1>1, <1>2, <1>3, <1>4, <1>5, QueuedPushes
<1>7. ASSUME N2 # {}  PROVE m.tail - m.head < QSIZE
  <2>1. PICK f : f \in N2
    BY <1>7
  <2>2. f \in Pairs(U, Q) /\ S \cup N1 \subseteq Pairs(U, Q) \ {f}
    BY <1>2, <2>1
  <2>3. PICK e : Pairs(U, Q) \ {f} \subseteq {e}
    BY <2>2, RestOfRing DEF U
  <2>4. S \cup N1 \subseteq {e}
    BY <2>2, <2>3
  <2>5. m.tail <= m.head + 1 /\ m.head \in Nat /\ m.tail \in Nat
    BY <1>6, <2>4, QueuedLength DEF Queued
  <2> QED  BY <2>5, HeapAssumption
<1>8. Queued(g, (S \cup N1) \cup N2, Q)
  BY <1>1, <1>2, <1>6, <1>7, QueuedPushes
<1> QED  BY <1>2, <1>8 DEF U, Q

(* Taken is a pair and what is known of the whole net. *)
LEMMA TakenPair ==
  ASSUME NEW h, NEW n, NEW a, NEW b, Taken(h, a, n), b = Feeder(h.port, a)
  PROVE  /\ PairIn(h, a, b) /\ h.err = 0 /\ Single(Types(h)) /\ h.count \in Nat
         /\ Add1s(Types(h)) + h.count = n /\ Agents(Types(h)) <= n + 4
<1>1. h.count \in Nat
  BY DEF Taken, Pool, SoundHeap, Heap
<1> QED  BY <1>1 DEF Taken, PairIn

(* rule_add_zero keeps the net, the ring and the counts right. *)
LEMMA RuleAddZeroReduces ==
  ASSUME NEW h, NEW n \in Nat, NEW a, NEW b, Taken(h, a, n), b = Feeder(h.port, a),
         Types(h)[a] = Add, Types(h)[b] = Zero, QSIZE >= 2
  PROVE  LET g == RuleAddZero(h, a, b)
         IN  /\ Reducible(g, n)
             /\ Types(g) = [Types(h) EXCEPT ![a] = 0, ![b] = 0]
             /\ g.port = Joined(h.port, h.port[<<a, 1>>], h.port[<<a, 2>>])
             /\ g.count = h.count /\ g.head = h.head
<1> DEFINE T == Types(h)  g == RuleAddZero(h, a, b)  U == [T EXCEPT ![a] = 0, ![b] = 0]
<1>1. /\ PairIn(h, a, b) /\ h.err = 0 /\ Single(T) /\ h.count \in Nat
      /\ Add1s(T) + h.count = n /\ Agents(T) <= n + 4
  BY TakenPair
<1>2. /\ Fired(h, a, g) /\ Types(g) = U
      /\ g.port = Joined(h.port, h.port[<<a, 1>>], h.port[<<a, 2>>])
      /\ g.count = h.count /\ g.head = h.head
  BY <1>1, RuleAddZeroFires
<1>3. a \in Agent /\ b \in Agent /\ a # b /\ T \in [Agent -> 0 .. 4]
  BY <1>1, PairParts, PairTypes
<1>4. T[a] = Add /\ T[b] = Zero
  OBVIOUS
<1> HIDE DEF T, g
<1>5. Single(U)
  BY <1>1, <1>3 DEF Single, Add, End
<1>6. Add1s(U) + h.count = n /\ Agents(U) <= n + 4
  <2>1. T[a] # 0 /\ T[a] # Add1 /\ T[b] # 0 /\ T[b] # Add1
    BY <1>4 DEF Zero, Add1, Add
  <2>2. Agents(U) = Agents(T) - 2 /\ Add1s(U) = Add1s(T)
    BY <1>3, <2>1, CountFreeBoth
  <2> QED  BY <1>1, <2>2, CountsNat
<1> HIDE DEF U
<1>7. Reducible(g, n)
  BY <1>1, <1>2, <1>5, <1>6, TakenFires DEF Reducible, Fired
<1> QED  BY <1>2, <1>7 DEF g, T, U

(* rule_end_zero takes the last two agents of their net away. *)
LEMMA RuleEndZeroReduces ==
  ASSUME NEW h, NEW n \in Nat, NEW a, NEW b, Taken(h, a, n), b = Feeder(h.port, a),
         Types(h)[a] = End, Types(h)[b] = Zero, QSIZE >= 2
  PROVE  LET g == RuleEndZero(h, a, b)
         IN  /\ Reducible(g, n)
             /\ Types(g) = [Types(h) EXCEPT ![a] = 0, ![b] = 0]
             /\ g.port = h.port /\ g.count = h.count /\ g.head = h.head
<1> DEFINE T == Types(h)  g == RuleEndZero(h, a, b)  U == [T EXCEPT ![a] = 0, ![b] = 0]
<1>1. /\ PairIn(h, a, b) /\ h.err = 0 /\ Single(T) /\ h.count \in Nat
      /\ Add1s(T) + h.count = n /\ Agents(T) <= n + 4
  BY TakenPair
<1>2. /\ Fired(h, a, g) /\ Types(g) = U
      /\ g.port = h.port /\ g.count = h.count /\ g.head = h.head
  BY <1>1, RuleEndZeroFires
<1>3. a \in Agent /\ b \in Agent /\ a # b /\ T \in [Agent -> 0 .. 4]
  BY <1>1, PairParts, PairTypes
<1>4. T[a] = End /\ T[b] = Zero
  OBVIOUS
<1> HIDE DEF T, g
<1>5. Single(U)
  BY <1>1, <1>3 DEF Single, Add, End
<1>6. Add1s(U) + h.count = n /\ Agents(U) <= n + 4
  <2>1. T[a] # 0 /\ T[a] # Add1 /\ T[b] # 0 /\ T[b] # Add1
    BY <1>4 DEF Zero, Add1, End
  <2>2. Agents(U) = Agents(T) - 2 /\ Add1s(U) = Add1s(T)
    BY <1>3, <2>1, CountFreeBoth
  <2> QED  BY <1>1, <2>2, CountsNat
<1> HIDE DEF U
<1>7. Reducible(g, n)
  BY <1>1, <1>2, <1>5, <1>6, TakenFires DEF Reducible, Fired
<1> QED  BY <1>2, <1>7 DEF g, T, U

(* rule_end_add1: one add1 less, one more counted.                          *)
LEMMA RuleEndAdd1Reduces ==
  ASSUME NEW h, NEW n \in Nat, NEW a, NEW b, Taken(h, a, n), b = Feeder(h.port, a),
         Types(h)[a] = End, Types(h)[b] = Add1, QSIZE >= 2
  PROVE  LET g == RuleEndAdd1(h, a, b)
         IN  /\ Reducible(g, n)
             /\ Types(g) = [Types(h) EXCEPT ![b] = 0]
             /\ g.port = Joined(h.port, h.port[<<b, 1>>], <<a, 0>>)
             /\ g.count = h.count + 1 /\ g.head = h.head
<1> DEFINE T == Types(h)  g == RuleEndAdd1(h, a, b)  U == [T EXCEPT ![b] = 0]
<1>1. /\ PairIn(h, a, b) /\ h.err = 0 /\ Single(T) /\ h.count \in Nat
      /\ Add1s(T) + h.count = n /\ Agents(T) <= n + 4
  BY TakenPair
<1>2. /\ Fired(h, a, g) /\ Types(g) = U
      /\ g.port = Joined(h.port, h.port[<<b, 1>>], <<a, 0>>)
      /\ g.count = h.count + 1 /\ g.head = h.head
  BY <1>1, RuleEndAdd1Fires
<1>3. a \in Agent /\ b \in Agent /\ a # b /\ T \in [Agent -> 0 .. 4]
  BY <1>1, PairParts, PairTypes
<1>4. T[a] = End /\ T[b] = Add1
  OBVIOUS
<1> HIDE DEF T, g
<1>5. Single(U)
  BY <1>1, <1>3 DEF Single, Add, End
<1>6. Add1s(U) + g.count = n /\ Agents(U) <= n + 4
  <2>1. T[b] # 0
    BY <1>4 DEF Add1
  <2>2. Add1s(U) = Add1s(T) - 1 /\ Agents(U) = Agents(T) - 1
    BY <1>3, <1>4, <2>1, CountFree
  <2> QED  BY <1>1, <1>2, <2>2, CountsNat
<1> HIDE DEF U
<1>7. Reducible(g, n)
  BY <1>1, <1>2, <1>5, <1>6, TakenFires DEF Reducible, Fired
<1> QED  BY <1>2, <1>7 DEF g, T, U

(* rule_add_add1 keeps the net, the ring and the counts right, or it halts  *)
(* the machine, and then the pool was too small.                            *)
LEMMA RuleAddAdd1Reduces ==
  ASSUME NEW h, NEW n \in Nat, NEW a, NEW b, Taken(h, a, n), b = Feeder(h.port, a),
         Types(h)[a] = Add, Types(h)[b] = Add1, QSIZE >= 2
  PROVE  LET g == RuleAddAdd1(h, a, b)
         IN  \/ Reducible(g, n) /\ AddAdd1Rewires(h, a, b, g)
             \/ g.err = 2 /\ NAGENTS < n + 6
<1> DEFINE T == Types(h)  g == RuleAddAdd1(h, a, b)
<1>1. /\ PairIn(h, a, b) /\ h.err = 0 /\ Single(T) /\ h.count \in Nat
      /\ Add1s(T) + h.count = n /\ Agents(T) <= n + 4
  BY TakenPair
<1>2. \/ Fired(h, a, g) /\ AddAdd1Rewires(h, a, b, g)
      \/ g.err = 2 /\ NAGENTS < Agents(T) + 2
  BY <1>1, RuleAddAdd1Fires
<1>3. a \in Agent /\ b \in Agent /\ a # b /\ T \in [Agent -> 0 .. 4]
  BY <1>1, PairParts, PairTypes
<1>4. T[a] = Add /\ T[b] = Add1
  OBVIOUS
<1> HIDE DEF T, g
<1>5. CASE g.err = 2 /\ NAGENTS < Agents(T) + 2
  BY <1>1, <1>5, CountsNat, HeapAssumption DEF g
<1>6. CASE Fired(h, a, g) /\ AddAdd1Rewires(h, a, b, g)
  <2>1. PICK c \in Agent, d \in Agent :
          /\ c # d /\ T[c] = 0 /\ T[d] = 0 /\ g.count = h.count
          /\ Types(g) = [T EXCEPT ![c] = Add1, ![d] = Add, ![a] = 0, ![b] = 0]
    BY <1>6 DEF AddAdd1Rewires, T
  <2> DEFINE U == [T EXCEPT ![c] = Add1, ![d] = Add, ![a] = 0, ![b] = 0]
  <2>2. \A e \in Agent : U[e] = IF e \in {a, b} THEN 0 ELSE IF e = c THEN Add1
                                ELSE IF e = d THEN Add ELSE T[e]
    BY <1>3, <1>4, <2>1 DEF Add, Add1
  <2>u. Duplicated(T, U, a, b, c, d)
    BY DEF Duplicated
  <2>g. Types(g) = U
    BY <2>1
  <2> HIDE DEF U
  <2>3. Agents(U) = Agents(T) /\ Add1s(U) = Add1s(T)
    BY <1>3, <1>4, <2>1, <2>u, CountAddAdd1
  <2>4. Single(U)
    <3>1. \A e \in Agent : /\ U[e] = Add => e = d
                           /\ U[e] = End => T[e] = End
      <4> SUFFICES ASSUME NEW e \in Agent
                   PROVE  (U[e] = Add => e = d) /\ (U[e] = End => T[e] = End)
        OBVIOUS
      <4>1. U[e] = IF e \in {a, b} THEN 0 ELSE IF e = c THEN Add1
                   ELSE IF e = d THEN Add ELSE T[e]
        BY <2>2
      <4>2. T[e] = Add => e = a
        BY <1>1, <1>3, <1>4 DEF Single
      <4> QED  BY <4>1, <4>2 DEF Add1, Add, End
    <3> QED  BY <1>1, <3>1 DEF Single
  <2>5. Types(g) = U /\ Add1s(U) + g.count = n /\ Agents(U) <= n + 4
    BY <1>1, <2>1, <2>3, <2>g
  <2>6. Reducible(g, n)
    BY <1>1, <1>6, <2>4, <2>5, TakenFires DEF Reducible, Fired
  <2> QED  BY <1>6, <2>6 DEF g
<1> QED  BY <1>2, <1>5, <1>6

-----------------------------------------------------------------------------
(* TABLE has a rule for the pair, whichever of its agents is the entry.     *)
LEMMA FireReduces ==
  ASSUME NEW h, NEW n \in Nat, NEW a, NEW b, Taken(h, a, n), b = Feeder(h.port, a), QSIZE >= 2,
         NEW g, g = Fire(h, a, b) \/ g = Fire(h, b, a)
  PROVE  Reducible(g, n) \/ (g.err = 2 /\ NAGENTS < n + 6)
<1>1. /\ Types(h)[a] = h.word[a] /\ Types(h)[b] = h.word[b]
      /\ Types(h)[a] \in {Add, End} /\ Types(h)[b] \in {Zero, Add1}
  BY TakenPair, PairParts
<1>2. CASE Types(h)[a] = Add /\ Types(h)[b] = Zero
  <2>1. g = RuleAddZero(h, a, b)
    BY <1>1, <1>2 DEF Fire, Zero, Add1, Add, End
  <2> QED  BY <1>2, <2>1, RuleAddZeroReduces
<1>3. CASE Types(h)[a] = Add /\ Types(h)[b] = Add1
  <2>1. g = RuleAddAdd1(h, a, b)
    BY <1>1, <1>3 DEF Fire, Zero, Add1, Add, End
  <2> QED  BY <1>3, <2>1, RuleAddAdd1Reduces
<1>4. CASE Types(h)[a] = End /\ Types(h)[b] = Zero
  <2>1. g = RuleEndZero(h, a, b)
    BY <1>1, <1>4 DEF Fire, Zero, Add1, Add, End
  <2> QED  BY <1>4, <2>1, RuleEndZeroReduces
<1>5. CASE Types(h)[a] = End /\ Types(h)[b] = Add1
  <2>1. g = RuleEndAdd1(h, a, b)
    BY <1>1, <1>5 DEF Fire, Zero, Add1, Add, End
  <2> QED  BY <1>5, <2>1, RuleEndAdd1Reduces
<1> QED  BY <1>1, <1>2, <1>3, <1>4, <1>5

(* Every entry is one of the two agents of a pair, and its partner is the   *)
(* other one: the driver's check accepts it.                                *)
LEMMA EntryIsPair ==
  ASSUME NEW h, NEW n, Reducible(h, n), NEW i \in h.head .. h.tail - 1,
         NEW a, a = h.cell[i % QSIZE]
  PROVE  /\ ActiveEntry(h, a)
         /\ \E c \in Pairs(Types(h), h.port) :
              \/ a = c /\ Partner(h, a) = Feeder(h.port, c)
              \/ a = Feeder(h.port, c) /\ Partner(h, a) = c
<1> DEFINE T == Types(h)  P == h.port
<1>1. PICK r : Flow(T, P, {}, r)
  BY DEF Reducible
<1>2. SoundHeap(h) /\ Queued(h, Pairs(T, P), P)
  BY DEF Reducible, Pool
<1>3. PICK c \in Pairs(T, P) : a \in {c, Feeder(P, c)}
  BY <1>2 DEF Queued
<1>4. /\ Feeder(P, c) \in Agent /\ T[Feeder(P, c)] \in {Zero, Add1}
      /\ P[<<c, 0>>] = <<Feeder(P, c), 0>> /\ P[<<Feeder(P, c), 0>>] = <<c, 0>>
      /\ c \in Agent /\ T[c] \in {Add, End}
  <2>1. c \in Agent /\ T[c] \in {Add, End}
    BY DEF Pairs
  <2> HIDE DEF T, P
  <2> QED  BY <1>1, <2>1, PairFacts
<1>5. Live(h, c) /\ Live(h, Feeder(P, c))
  BY <1>2, <1>4, TypesFacts DEF Zero, Add1, Add, End
<1>6. Partner(h, c) = Feeder(P, c) /\ Partner(h, Feeder(P, c)) = c
  BY <1>4 DEF Partner
<1>7. FacesPartner(h, c) /\ FacesPartner(h, Feeder(P, c))
  BY <1>4, <1>6 DEF FacesPartner
<1> QED  BY <1>3, <1>5, <1>6, <1>7 DEF ActiveEntry

(* A turn of the driver takes a pair's entry and fires the pair's rule.     *)
LEMMA TurnPops ==
  ASSUME NEW h, NEW n \in Nat, Reducible(h, n), h.head # h.tail
  PROVE  LET h1 == [h EXCEPT !.head = @ + 1]
         IN  /\ Live(h, Front(h))
             /\ \E c : /\ Taken(h1, c, n)
                      /\ \/ Turn(h) = Fire(h1, c, Feeder(h1.port, c))
                         \/ Turn(h) = Fire(h1, Feeder(h1.port, c), c)
             /\ Types(h1) = Types(h) /\ h1.port = h.port /\ h1.count = h.count
             /\ h1.head = h.head + 1
<1> DEFINE T == Types(h)  P == h.port
           a == Front(h)  b == Partner(h, a)
           h1 == [h EXCEPT !.head = @ + 1]
<1>1. /\ Pool(h) /\ h.err = 0 /\ h \in Heap /\ Single(T) /\ Queued(h, Pairs(T, P), P)
      /\ Add1s(T) + h.count = n /\ Agents(T) <= n + 4
      /\ h.head \in Nat /\ h.tail \in Nat /\ h.head < h.tail
  BY DEF Reducible, Pool, SoundHeap, Heap
<1>2. PICK r : Flow(T, P, {}, r)
  BY DEF Reducible
<1>3. h.head \in h.head .. h.tail - 1 /\ a = h.cell[h.head % QSIZE]
  BY <1>1 DEF Front
<1>4. ActiveEntry(h, a)
  BY <1>3, EntryIsPair
<1>5. PICK c \in Pairs(T, P) : \/ a = c /\ b = Feeder(P, c)
                               \/ a = Feeder(P, c) /\ b = c
  BY <1>3, EntryIsPair
<1>6. /\ h1.word = h.word /\ h1.port = P /\ h1.cell = h.cell /\ h1.tail = h.tail
      /\ h1.head = h.head + 1 /\ h1.count = h.count /\ h1.err = 0 /\ h1.free = h.free
      /\ h1 \in Heap
  <2>1. h1 = [h EXCEPT !.head = h.head + 1] /\ h.head + 1 \in Nat
    BY <1>1 DEF Heap
  <2> HIDE DEF h1
  <2> QED  BY <1>1, <2>1 DEF Heap
<1>7. Turn(h) = Fire(h1, a, b)
  BY <1>4 DEF Turn
<1> HIDE DEF h1, a, b, T, P
<1>8. Pool(h1) /\ Types(h1) = T
  <2>1. SoundHeap(h1)
    BY <1>1, <1>6, SameList DEF Pool, SoundHeap
  <2> QED  BY <1>1, <1>6, <2>1, SamePool DEF T
<1>9. Queued(h1, Pairs(T, P) \ {c}, P)
  <2>1. h.cell[h.head % QSIZE] \in {c, Feeder(P, c)}
    BY <1>3, <1>5
  <2>2. \A e, f \in Pairs(T, P) : {e, Feeder(P, e)} \cap {f, Feeder(P, f)} # {} => e = f
    BY <1>2, PairFacts
  <2> DEFINE S == Pairs(T, P)
  <2>3. c \in S /\ Queued(h, S, P)
    BY <1>1
  <2> HIDE DEF S
  <2>4. \A e, f \in S : {e, Feeder(P, e)} \cap {f, Feeder(P, f)} # {} => e = f
    BY <2>2 DEF S
  <2>5. Queued(h1, S \ {c}, P)
    BY <1>1, <1>6, <2>1, <2>3, <2>4, QueuedPop
  <2> QED  BY <2>5 DEF S
<1>10. Taken(h1, c, n)
  BY <1>1, <1>2, <1>6, <1>8, <1>9 DEF Taken
<1>11. Turn(h) = Fire(h1, c, Feeder(h1.port, c)) \/ Turn(h) = Fire(h1, Feeder(h1.port, c), c)
  BY <1>5, <1>6, <1>7
<1>12. Live(h, Front(h))
  BY <1>4 DEF ActiveEntry, a
<1> QED  BY <1>6, <1>8, <1>10, <1>11, <1>12 DEF h1, T, P

(* One turn of the driver.                                                  *)
LEMMA TurnReduces ==
  ASSUME NEW h, NEW n \in Nat, Reducible(h, n), h.head # h.tail, QSIZE >= 2
  PROVE  /\ Reducible(Turn(h), n) \/ (Turn(h).err = 2 /\ NAGENTS < n + 6)
         /\ TurnLeak(h) = 0
<1> DEFINE h1 == [h EXCEPT !.head = @ + 1]
<1>1. PICK c : /\ Taken(h1, c, n)
               /\ \/ Turn(h) = Fire(h1, c, Feeder(h1.port, c))
                  \/ Turn(h) = Fire(h1, Feeder(h1.port, c), c)
  BY TurnPops
<1>2. Live(h, Front(h))
  BY TurnPops
<1> HIDE DEF h1
<1>3. Reducible(Turn(h), n) \/ (Turn(h).err = 2 /\ NAGENTS < n + 6)
  BY <1>1, FireReduces
<1>4. TurnLeak(h) = 0
  <2>1. Turn(h).err # 3
    BY <1>3 DEF Reducible
  <2> QED  BY <1>2, <2>1 DEF TurnLeak
<1> QED  BY <1>3, <1>4

-----------------------------------------------------------------------------
(* What the driver relies on follows.                                       *)

(* No pair is missing in the ring.                                          *)
LEMMA ReducingQueuesPairs ==
  ASSUME NEW h, NEW n, Reducible(h, n)
  PROVE  PairsQueued(h)
<1> DEFINE T == Types(h)  P == h.port
<1> SUFFICES ASSUME NEW a \in LiveAgents(h), FacesPartner(h, a)
             PROVE  a \in Entries(h) \/ Partner(h, a) \in Entries(h)
  BY DEF PairsQueued
<1> DEFINE b == Partner(h, a)
<1>1. PICK r : Flow(T, P, {}, r)
  BY DEF Reducible
<1>2. SoundHeap(h) /\ Queued(h, Pairs(T, P), P)
  BY DEF Reducible, Pool
<1>3. /\ a \in Agent /\ T[a] \in Type /\ b \in Agent
      /\ P[<<a, 0>>][1] = b /\ P[<<b, 0>>] = <<a, 0>>
  BY <1>2, TypesFacts DEF LiveAgents, FacesPartner, Partner
<1> HIDE DEF b, T, P
<1>4. T[b] \in Type
  <2>1. <<a, 0>> \in Out(T) \cup In(T)
    <3>1. T[a] \in {Zero, Add1, Add, End}
      BY <1>3 DEF Type, Zero, Add1, Add, End
    <3> QED  BY <1>3, <3>1, UsedPortFacts
  <2>2. P[<<a, 0>>] \in Out(T) \cup In(T)
    BY <1>1, <2>1 DEF Flow, Wired
  <2> DEFINE q == P[<<a, 0>>]
  <2>3. q \in Out(T) \cup In(T) /\ q[1] = b
    BY <1>3, <2>2
  <2> HIDE DEF q
  <2> QED  BY <2>3 DEF Out, In, Zero, Add1, Add, End, Type
<1>5. PICK c \in Pairs(T, P) : {a, b} = {c, Feeder(P, c)}
  <2>1. \/ a \in Pairs(T, P) /\ Feeder(P, a) = b
        \/ b \in Pairs(T, P) /\ Feeder(P, b) = a
    <3>1. Facing(T, P, a, b)
      BY <1>3, <1>4 DEF Facing
    <3> QED  BY <1>1, <3>1, FacingIsPair
  <2> QED  BY <2>1
<1>6. PICK i \in h.head .. h.tail - 1 : h.cell[i % QSIZE] \in {c, Feeder(P, c)}
  BY <1>2, <1>5 DEF Queued
<1>7. h.cell[i % QSIZE] \in Entries(h)
  BY DEF Entries
<1> QED  BY <1>5, <1>6, <1>7 DEF b

(* No entry is stale or a second entry of its pair.                         *)
LEMMA ReducingNoStale ==
  ASSUME NEW h, NEW n, Reducible(h, n)
  PROVE  /\ \A i \in h.head .. h.tail - 1 : ActiveEntry(h, h.cell[i % QSIZE])
         /\ \A i, j \in h.head .. h.tail - 1 : i # j =>
              /\ h.cell[i % QSIZE] # h.cell[j % QSIZE]
              /\ Partner(h, h.cell[i % QSIZE]) # h.cell[j % QSIZE]
<1>1. \A i \in h.head .. h.tail - 1 : ActiveEntry(h, h.cell[i % QSIZE])
  BY EntryIsPair
<1>2. ASSUME NEW i \in h.head .. h.tail - 1, NEW j \in h.head .. h.tail - 1,
             h.cell[j % QSIZE] \in {h.cell[i % QSIZE], Partner(h, h.cell[i % QSIZE])}
      PROVE  i = j
  <2> DEFINE S == Pairs(Types(h), h.port)
  <2>1. PICK c \in S :
          \/ h.cell[i % QSIZE] = c /\ Partner(h, h.cell[i % QSIZE]) = Feeder(h.port, c)
          \/ h.cell[i % QSIZE] = Feeder(h.port, c) /\ Partner(h, h.cell[i % QSIZE]) = c
    BY EntryIsPair
  <2>2. h.cell[i % QSIZE] \in {c, Feeder(h.port, c)} /\ h.cell[j % QSIZE] \in {c, Feeder(h.port, c)}
    BY <1>2, <2>1
  <2>3. Queued(h, S, h.port)
    BY DEF Reducible
  <2> HIDE DEF S
  <2> QED  BY <2>2, <2>3 DEF Queued
<1> QED  BY <1>1, <1>2

(* When the ring is empty the net is gone and everything is counted.        *)
LEMMA ReducingEnds ==
  ASSUME NEW h, NEW n \in Nat, Reducible(h, n), h.head = h.tail
  PROVE  h.count = n /\ LiveAgents(h) = {}
<1> DEFINE T == Types(h)  S == Pairs(T, h.port)
<1>1. PICK r : Flow(T, h.port, {}, r)
  BY DEF Reducible
<1>2. S = {}
  <2>1. Queued(h, S, h.port)
    BY DEF Reducible
  <2> HIDE DEF S
  <2>2. S # {} => h.head < h.tail
    BY <2>1, QueuedLength
  <2>3. h.head \in Nat
    BY <2>1 DEF Queued
  <2> QED  BY <2>2, <2>3
<1>3. \A a \in Agent : T[a] = 0
  BY <1>1, <1>2, NoPairsNoAgents DEF Reducible
<1>4. LiveAgents(h) = {}
  BY <1>3, TypesFacts DEF Reducible, Pool, LiveAgents
<1>5. Add1s(T) = 0
  <2>1. {a \in Agent : T[a] = Add1} = {}
    BY <1>3 DEF Add1
  <2> QED  BY <2>1, FS_EmptySet DEF Add1s
<1>6. h.count \in Nat /\ Add1s(T) + h.count = n
  BY DEF Reducible, Pool, SoundHeap, Heap
<1> QED  BY <1>4, <1>5, <1>6

-----------------------------------------------------------------------------
(* An agent whose ports are all open can be given the lowest rank.          *)
LEMMA LowestRank ==
  ASSUME NEW T, NEW P, NEW O, NEW r, Flow(T, P, O, r), NEW c \in Agent,
         PortsOf(c) \cap (Out(T) \cup In(T)) \subseteq O
  PROVE  \E s : Flow(T, P, O, s) /\ s[c] = 0 /\ \A e \in Agent \ {c} : s[e] = r[e] + 1
<1> DEFINE s == [e \in Agent |-> IF e = c THEN 0 ELSE r[e] + 1]
<1>1. \A e \in Agent : r[e] \in Nat
  BY DEF Flow
<1>2. s \in [Agent -> Nat] /\ s[c] = 0 /\ \A e \in Agent \ {c} : s[e] = r[e] + 1
  BY <1>1
<1> HIDE DEF s
<1>3. ASSUME NEW p \in In(T) \ O  PROVE s[p[1]] < s[P[p][1]]
  <2>1. P[p] \in Out(T) \ O /\ r[p[1]] < r[P[p][1]]
    BY DEF Flow, Wired, Downhill
  <2>2. p[1] \in Agent \ {c} /\ P[p][1] \in Agent \ {c}
    BY <2>1, PortFacts, InOutDisjoint DEF PortsOf
  <2> QED  BY <1>1, <1>2, <2>1, <2>2
<1>4. Flow(T, P, O, s)
  BY <1>2, <1>3, RankKeeps
<1> QED  BY <1>2, <1>4

(* connect writes the two cells and nothing else.                           *)
LEMMA ConnectEffect ==
  ASSUME NEW h, Pool(h), NEW v \in Port, NEW w \in Port
  PROVE  /\ Pool(Connect(h, v, w)) /\ Types(Connect(h, v, w)) = Types(h)
         /\ Connect(h, v, w).port = Joined(h.port, v, w)
         /\ Connect(h, v, w).count = h.count /\ Connect(h, v, w).err = h.err
         /\ Connect(h, v, w).cell = h.cell
         /\ Connect(h, v, w).head = h.head /\ Connect(h, v, w).tail = h.tail
<1> DEFINE g == Connect(h, v, w)
<1>1. SoundHeap(g) /\ g.word = h.word
  BY ConnectSound, PortValues DEF Pool
<1>2. /\ g.port = Joined(h.port, v, w) /\ g.count = h.count /\ g.err = h.err
      /\ g.cell = h.cell /\ g.head = h.head /\ g.tail = h.tail
  BY DEF Connect, Joined, Pool, SoundHeap, Heap
<1> HIDE DEF g
<1>3. Pool(g) /\ Types(g) = Types(h)
  BY <1>1, SamePool
<1> QED  BY <1>2, <1>3 DEF g

-----------------------------------------------------------------------------
(* The heap while main builds the net: chains of n add1 on m zeros, nothing *)
(* in the ring, and the principal ports of the chains' heads unwired.       *)
Growing(h, heads, n, m) ==
  /\ Pool(h) /\ h.err = 0 /\ h.count = 0 /\ h.head = 0 /\ h.tail = 0
  /\ \E r : Flow(Types(h), h.port, {<<e, 0>> : e \in heads}, r)
  /\ \A a \in Agent : Types(h)[a] \in {0, Zero, Add1}
  /\ \A e \in heads : e \in Agent /\ Types(h)[e] # 0
  /\ Add1s(Types(h)) = n /\ Agents(Types(h)) = n + m

(* Nothing has been built on a cleared heap.                                *)
LEMMA EmptyGrows ==
  ASSUME NEW h \in Heap
  PROVE  Growing(Reset(h), {}, 0, 0)
<1> DEFINE g == Reset(h)  T == Types(g)  P == g.port  r == [a \in Agent |-> 0]
           none == {<<e, 0>> : e \in {}}
<1>1. /\ Pool(g) /\ g.err = 0 /\ g.count = 0 /\ g.head = 0 /\ g.tail = 0
      /\ T = [a \in Agent |-> 0]
  BY ResetEffect
<1>2. P \in [Port -> PortValue]
  BY <1>1 DEF Pool, SoundHeap, Heap
<1> HIDE DEF g, P
<1>3. Out(T) = {} /\ In(T) = {} /\ none = {}
  BY <1>1 DEF Out, In, Port, Zero, Add1, Add, End
<1>4. T \in [Agent -> 0 .. 4] /\ r \in [Agent -> Nat]
  BY <1>1
<1> HIDE DEF T
<1>5. Flow(T, P, none, r)
  BY <1>2, <1>3, <1>4 DEF Flow, Wired, Downhill
<1>6. Agents(T) = 0 /\ Add1s(T) = 0
  <2>1. {a \in Agent : T[a] # 0} = {} /\ {a \in Agent : T[a] = Add1} = {}
    BY <1>1 DEF T, Add1
  <2> QED  BY <2>1, FS_EmptySet DEF Agents, Add1s
<1> QED  BY <1>1, <1>5, <1>6 DEF Growing, T, P, g

(* A chain starts with its zero.                                            *)
LEMMA ZeroGrows ==
  ASSUME NEW h, NEW heads, NEW n \in Nat, NEW m \in Nat, Growing(h, heads, n, m), h.free # 0
  PROVE  /\ Growing(NewAg(h, Zero), heads \cup {h.free}, n, m + 1)
         /\ h.free \in Agent /\ h.free \notin heads
<1> DEFINE T == Types(h)  P == h.port  c == h.free  g == NewAg(h, Zero)
           U == [T EXCEPT ![c] = Zero]
           O == {<<e, 0>> : e \in heads}
<1>1. /\ Pool(h) /\ h.err = 0 /\ h.count = 0 /\ h.head = 0 /\ h.tail = 0
      /\ \A a \in Agent : T[a] \in {0, Zero, Add1}
      /\ \A e \in heads : e \in Agent /\ T[e] # 0
      /\ Add1s(T) = n /\ Agents(T) = n + m
  BY DEF Growing
<1>2. PICK r : Flow(T, P, O, r)
  BY DEF Growing
<1>3. Zero \in Type /\ Zero # Add1
  BY DEF Zero, Add1, Type
<1>4. Pool(g) /\ SameButPool(g, h) /\ c \in Agent /\ T[c] = 0 /\ Types(g) = U
  BY <1>1, <1>3, NewAgEffect
<1>5. T \in [Agent -> 0 .. 4]
  BY <1>1, TypesFacts DEF Pool
<1>6. /\ g.err = 0 /\ g.count = 0 /\ g.head = 0 /\ g.tail = 0 /\ g.port = P
  BY <1>1, <1>4 DEF SameButPool
<1> HIDE DEF T, P, c, g, O
<1>7. U[c] = Zero /\ \A a \in Agent \ {c} : U[a] = T[a]
  BY <1>4, <1>5
<1>8. Agents(U) = Agents(T) + 1 /\ Add1s(U) = Add1s(T)
  BY <1>3, <1>4, <1>5, CountNew
<1>9. Flow(U, P, O \cup (PortsOf(c) \cap (Out(U) \cup In(U))), r)
  BY <1>2, <1>3, <1>4, NewKeeps
<1> HIDE DEF U
<1>10. PortsOf(c) \cap (Out(U) \cup In(U)) = {<<c, 0>>}
  BY <1>4, <1>7, UsedPortFacts
<1>11. O \cup {<<c, 0>>} = {<<e, 0>> : e \in heads \cup {c}}
  BY DEF O
<1>12. Flow(U, P, {<<e, 0>> : e \in heads \cup {c}}, r)
  BY <1>9, <1>10, <1>11
<1>13. \A a \in Agent : U[a] \in {0, Zero, Add1}
  BY <1>1, <1>7
<1>14. c \notin heads /\ \A e \in heads \cup {c} : e \in Agent /\ U[e] # 0
  BY <1>1, <1>4, <1>7 DEF Zero
<1>15. Add1s(U) = n /\ Agents(U) = n + (m + 1)
  BY <1>1, <1>8
<1>16. Growing(g, heads \cup {c}, n, m + 1)
  BY <1>4, <1>6, <1>12, <1>13, <1>14, <1>15 DEF Growing
<1> QED  BY <1>4, <1>14, <1>16 DEF c, g

(* An add1 is put before the head of a chain.                               *)
LEMMA Add1Grows ==
  ASSUME NEW h, NEW heads, NEW n \in Nat, NEW m \in Nat, Growing(h, heads, n, m), h.free # 0,
         NEW p \in heads
  PROVE  /\ Growing(Connect(NewAg(h, Add1), <<p, 0>>, <<h.free, 1>>),
                    (heads \ {p}) \cup {h.free}, n + 1, m)
         /\ h.free \in Agent /\ h.free \notin heads
<1> DEFINE T == Types(h)  P == h.port  c == h.free  h1 == NewAg(h, Add1)
           p0 == <<p, 0>>  c0 == <<c, 0>>  c1 == <<c, 1>>
           g == Connect(h1, p0, c1)
           U == [T EXCEPT ![c] = Add1]  Q == Joined(P, p0, c1)
           O == {<<e, 0>> : e \in heads}
           N == {<<e, 0>> : e \in (heads \ {p}) \cup {c}}
<1>1. /\ Pool(h) /\ h.err = 0 /\ h.count = 0 /\ h.head = 0 /\ h.tail = 0
      /\ \A a \in Agent : T[a] \in {0, Zero, Add1}
      /\ \A e \in heads : e \in Agent /\ T[e] # 0
      /\ Add1s(T) = n /\ Agents(T) = n + m
  BY DEF Growing
<1>2. PICK r : Flow(T, P, O, r)
  BY DEF Growing
<1>3. Add1 \in Type
  BY DEF Add1, Type
<1>4. Pool(h1) /\ SameButPool(h1, h) /\ c \in Agent /\ T[c] = 0 /\ Types(h1) = U
  BY <1>1, <1>3, NewAgEffect
<1>5. T \in [Agent -> 0 .. 4]
  BY <1>1, TypesFacts DEF Pool
<1>6. /\ h1.err = 0 /\ h1.count = 0 /\ h1.head = 0 /\ h1.tail = 0 /\ h1.port = P
  BY <1>1, <1>4 DEF SameButPool
<1> HIDE DEF T, P, c, h1, O
<1>7. U[c] = Add1 /\ \A a \in Agent \ {c} : U[a] = T[a]
  BY <1>4, <1>5
<1>8. Agents(U) = Agents(T) + 1 /\ Add1s(U) = Add1s(T) + 1
  <2>1. Add1s(U) = IF Add1 = Add1 THEN Add1s(T) + 1 ELSE Add1s(T)
    BY <1>3, <1>4, <1>5, CountNew
  <2> QED  BY <1>3, <1>4, <1>5, <2>1, CountNew
<1>9. Flow(U, P, O \cup (PortsOf(c) \cap (Out(U) \cup In(U))), r)
  BY <1>2, <1>3, <1>4, NewKeeps
<1> HIDE DEF U
<1>10. /\ PortsOf(c) \cap (Out(U) \cup In(U)) = {c0, c1} /\ c1 \in In(U) /\ c0 \in Out(U)
  BY <1>4, <1>7, UsedPortFacts
<1>11. /\ c \notin heads /\ p # c /\ p \in Agent /\ U[p] \in {Zero, Add1}
       /\ p0 \in Out(U) /\ p0 \in O
  <2>1. c \notin heads /\ p # c /\ p \in Agent /\ U[p] \in {Zero, Add1}
    BY <1>1, <1>4, <1>7
  <2> QED  BY <2>1, UsedPortFacts DEF O
<1>12. (O \cup {c0, c1}) \ {c1, p0} = N
  BY <1>11 DEF O
<1>13. p0[1] = p /\ c1[1] = c /\ p0 \in Port /\ c1 \in Port
  BY <1>4, <1>11 DEF Port
<1> HIDE DEF p0, c0, c1, g, Q, N
<1>14. \E s : Flow(U, Q, N, s)
  <2> DEFINE M == O \cup {c0, c1}
  <2>1. Flow(U, P, M, r) /\ PortsOf(c) \cap (Out(U) \cup In(U)) \subseteq M
        /\ p0 \in Out(U) \cap M /\ c1 \in In(U) \cap M
    BY <1>9, <1>10, <1>11
  <2> HIDE DEF M
  <2>2. PICK s : Flow(U, P, M, s) /\ s[c] = 0 /\ \A e \in Agent \ {c} : s[e] = r[e] + 1
    BY <1>4, <2>1, LowestRank
  <2>3. s[c1[1]] < s[p0[1]]
    <3>1. r[p] \in Nat
      BY <1>2, <1>11 DEF Flow
    <3> QED  BY <1>11, <1>13, <2>2, <3>1
  <2>4. Flow(U, Q, M \ {c1, p0}, s)
    BY <2>1, <2>2, <2>3, JoinKeeps DEF Q
  <2> QED  BY <1>12, <2>4 DEF M
<1>15. /\ Pool(g) /\ Types(g) = U /\ g.port = Q
       /\ g.err = 0 /\ g.count = 0 /\ g.head = 0 /\ g.tail = 0
  BY <1>4, <1>6, <1>13, ConnectEffect DEF g, Q
<1>16. \A a \in Agent : U[a] \in {0, Zero, Add1}
  BY <1>1, <1>7
<1>17. \A e \in (heads \ {p}) \cup {c} : e \in Agent /\ U[e] # 0
  BY <1>1, <1>4, <1>7, <1>11 DEF Add1
<1>18. Add1s(U) = n + 1 /\ Agents(U) = (n + 1) + m
  BY <1>1, <1>8
<1>19. Growing(g, (heads \ {p}) \cup {c}, n + 1, m)
  BY <1>14, <1>15, <1>16, <1>17, <1>18 DEF Growing, N
<1> QED  BY <1>4, <1>11, <1>19 DEF c, g, h1, p0, c1

-----------------------------------------------------------------------------
(* With an empty free list every block holds an agent of the chains.        *)
LEMMA GrowingFull ==
  ASSUME NEW h, NEW heads, NEW n \in Nat, NEW m \in Nat, Growing(h, heads, n, m), h.free = 0
  PROVE  NAGENTS = n + m
BY EmptyPoolCount DEF Growing

(* Also when newag has already given out the block for the add.             *)
LEMMA GrowingNearlyFull ==
  ASSUME NEW h, NEW heads, NEW n \in Nat, NEW m \in Nat, Growing(h, heads, n, m),
         h.free # 0, NewAg(h, Add).free = 0
  PROVE  NAGENTS = n + m + 1
<1> DEFINE T == Types(h)  g == NewAg(h, Add)  U == [T EXCEPT ![h.free] = Add]
<1>1. Add \in Type
  BY DEF Add, Type
<1>2. Pool(h) /\ Agents(T) = n + m
  BY DEF Growing
<1>3. Pool(g) /\ h.free \in Agent /\ T[h.free] = 0 /\ Types(g) = U
  BY <1>1, <1>2, NewAgEffect
<1>4. T \in [Agent -> 0 .. 4]
  BY <1>2, TypesFacts DEF Pool
<1> HIDE DEF T, g
<1>5. Agents(U) = Agents(T) + 1
  BY <1>1, <1>3, <1>4, CountNew
<1>6. Agents(U) = NAGENTS
  BY <1>3, EmptyPoolCount DEF g
<1> QED  BY <1>2, <1>5, <1>6

(* The agents of another type leave the number of add1 as it is.            *)
LEMMA CountNewOther ==
  ASSUME NEW T \in [Agent -> 0 .. 4], NEW c \in Agent, NEW k \in {Add, End}, T[c] = 0
  PROVE  Agents([T EXCEPT ![c] = k]) = Agents(T) + 1 /\ Add1s([T EXCEPT ![c] = k]) = Add1s(T)
<1>1. k \in Type /\ k # Add1
  BY DEF Type, Add1, Add, End
<1> QED  BY <1>1, CountNew

(* The add joins the two chains, the end takes its result, and the add is   *)
(* the first entry of the ring: the net is ready to be reduced.             *)
LEMMA RootReduces ==
  ASSUME NEW h, NEW n \in Nat, NEW p, NEW q, p # q, Growing(h, {p, q}, n, 2),
         NEW c, c = h.free, c # 0, NEW h1, h1 = NewAg(h, Add),
         NEW d, d = h1.free, d # 0, NEW h2, h2 = NewAg(h1, End),
         NEW g, g = Enq(Connect(Connect(Connect(h2, <<p, 0>>, <<c, 1>>),
                                        <<q, 0>>, <<c, 0>>), <<c, 2>>, <<d, 0>>), c)
  PROVE  /\ Reducible(g, n) /\ g.count = 0 /\ g.tail = 1
         /\ d \in Agent /\ Types(g)[d] = End
<1> DEFINE T == Types(h)  P == h.port
           p0 == <<p, 0>>  q0 == <<q, 0>>
           c0 == <<c, 0>>  c1 == <<c, 1>>  c2 == <<c, 2>>  d0 == <<d, 0>>
           T1 == [T EXCEPT ![c] = Add]  U == [T1 EXCEPT ![d] = End]
           Q1 == Joined(P, p0, c1)  Q2 == Joined(Q1, q0, c0)  Q == Joined(Q2, c2, d0)
           g1 == Connect(h2, p0, c1)  g2 == Connect(g1, q0, c0)  g3 == Connect(g2, c2, d0)
           O == {<<e, 0>> : e \in {p, q}}
<1>1. /\ Pool(h) /\ h.err = 0 /\ h.count = 0 /\ h.head = 0 /\ h.tail = 0
      /\ \A a \in Agent : T[a] \in {0, Zero, Add1}
      /\ \A e \in {p, q} : e \in Agent /\ T[e] # 0
      /\ Add1s(T) = n /\ Agents(T) = n + 2
  BY DEF Growing
<1>2. PICK r : Flow(T, P, O, r)
  BY DEF Growing
<1>3. O = {p0, q0}
  OBVIOUS
<1>4. Add \in Type /\ End \in Type /\ Add # Add1 /\ End # Add1 /\ Add # 0
      /\ Zero # Add /\ Zero # End /\ Zero # 0 /\ Add1 # 0 /\ Add1 # End /\ Add # End
  BY DEF Zero, Add1, Add, End, Type
<1>5. Pool(h1) /\ SameButPool(h1, h) /\ c \in Agent /\ T[c] = 0 /\ Types(h1) = T1
  BY <1>1, <1>4, NewAgEffect
<1>6. T \in [Agent -> 0 .. 4]
  BY <1>1, TypesFacts DEF Pool
<1> HIDE DEF T, P, O
<1>7. T1[c] = Add /\ \A a \in Agent \ {c} : T1[a] = T[a]
  BY <1>5, <1>6
<1> HIDE DEF T1
<1>8. Pool(h2) /\ SameButPool(h2, h1) /\ d \in Agent /\ T1[d] = 0 /\ Types(h2) = U
  BY <1>4, <1>5, NewAgEffect
<1>9. T1 \in [Agent -> 0 .. 4]
  BY <1>5, TypesFacts DEF Pool
<1>10. U[d] = End /\ \A a \in Agent \ {d} : U[a] = T1[a]
  BY <1>8, <1>9
<1>11. Agents(U) = n + 4 /\ Add1s(U) = n
  <2>1. Agents([T EXCEPT ![c] = Add]) = Agents(T) + 1 /\ Add1s([T EXCEPT ![c] = Add]) = Add1s(T)
    BY <1>4, <1>5, <1>6, CountNew
  <2>2. Agents(T1) = Agents(T) + 1 /\ Add1s(T1) = Add1s(T)
    BY <2>1 DEF T1
  <2>3. Agents(U) = Agents(T1) + 1 /\ Add1s(U) = Add1s(T1)
    <3>1. d \in Agent /\ T1[d] = 0 /\ End \in {Add, End}
      BY <1>8
    <3>2. /\ Agents([T1 EXCEPT ![d] = End]) = Agents(T1) + 1
          /\ Add1s([T1 EXCEPT ![d] = End]) = Add1s(T1)
      <4> HIDE DEF U
      <4> QED  BY <1>9, <3>1, CountNewOther
    <3> QED  BY <3>2
  <2> QED  BY <1>1, <2>2, <2>3
<1>12. /\ c # d /\ T[d] = 0 /\ p \in Agent /\ q \in Agent
       /\ {p, q} \cap {c, d} = {} /\ U[c] = Add
       /\ U[p] \in {Zero, Add1} /\ U[q] \in {Zero, Add1}
       /\ T1[p] \in {Zero, Add1} /\ T1[q] \in {Zero, Add1}
       /\ \A a \in Agent \ {c, d} : U[a] \in {0, Zero, Add1}
  <2>1. c # d
    BY <1>4, <1>7, <1>8
  <2>2. T[d] = 0
    BY <1>7, <1>8, <2>1
  <2> QED  BY <1>1, <1>4, <1>5, <1>7, <1>8, <1>10, <2>1, <2>2
<1> DEFINE M1 == O \cup {c0, c1, c2}  M == M1 \cup {d0}
<1>13. Flow(T1, P, M1, r)
  <2>1. Flow([T EXCEPT ![c] = Add], P,
             O \cup (PortsOf(c) \cap (Out([T EXCEPT ![c] = Add]) \cup In([T EXCEPT ![c] = Add]))), r)
    BY <1>2, <1>4, <1>5, NewKeeps
  <2>2. Flow(T1, P, O \cup (PortsOf(c) \cap (Out(T1) \cup In(T1))), r)
    BY <2>1 DEF T1
  <2>3. PortsOf(c) \cap (Out(T1) \cup In(T1)) = {c0, c1, c2}
    BY <1>5, <1>7, UsedPortFacts
  <2> QED  BY <2>2, <2>3
<1> HIDE DEF M1
<1>14. Flow(U, P, M, r)
  <2>1. Flow(U, P, M1 \cup (PortsOf(d) \cap (Out(U) \cup In(U))), r)
    BY <1>4, <1>8, <1>13, NewKeeps
  <2> HIDE DEF U
  <2>2. PortsOf(d) \cap (Out(U) \cup In(U)) = {d0}
    <3>1. d \in Agent /\ U[d] = End
      BY <1>8, <1>10
    <3> QED  BY <3>1, UsedPortFacts
  <2> QED  BY <2>1, <2>2
<1> HIDE DEF U
<1>15. /\ PortsOf(c) \cap (Out(U) \cup In(U)) = {c0, c1, c2}
       /\ PortsOf(d) \cap (Out(U) \cup In(U)) = {d0}
       /\ c0 \in In(U) /\ c1 \in In(U) /\ c2 \in Out(U) /\ d0 \in In(U)
       /\ p0 \in Out(U) /\ q0 \in Out(U)
  <2>1. c \in Agent /\ U[c] = Add /\ d \in Agent /\ U[d] = End
    BY <1>5, <1>8, <1>10, <1>12
  <2>2. /\ PortsOf(c) \cap (Out(U) \cup In(U)) = {c0, c1, c2}
        /\ c0 \in In(U) /\ c1 \in In(U) /\ c2 \in Out(U)
    <3>1. c \in Agent /\ U[c] = Add
      BY <2>1
    <3> QED  BY <3>1, UsedPortFacts
  <2>3. PortsOf(d) \cap (Out(U) \cup In(U)) = {d0} /\ d0 \in In(U)
    <3>1. d \in Agent /\ U[d] = End
      BY <2>1
    <3> QED  BY <3>1, UsedPortFacts
  <2>4. p0 \in Out(U) /\ q0 \in Out(U)
    <3>1. p \in Agent /\ U[p] \in {Zero, Add1} /\ q \in Agent /\ U[q] \in {Zero, Add1}
      BY <1>12
    <3> QED  BY <3>1, UsedPortFacts
  <2> QED  BY <2>2, <2>3, <2>4
<1>16. /\ p0[1] = p /\ q0[1] = q /\ c0[1] = c /\ c1[1] = c /\ c2[1] = c /\ d0[1] = d
       /\ p0 # q0 /\ c0 # c1 /\ c0 # c2 /\ c1 # c2
       /\ {p0, q0} \cap {c0, c1, c2, d0} = {} /\ d0 \notin {c0, c1, c2}
       /\ p0 \in Port /\ q0 \in Port /\ c0 \in Port /\ c1 \in Port /\ c2 \in Port /\ d0 \in Port
       /\ q0[2] = 0 /\ c2[2] = 2 /\ c0[2] = 0
  BY <1>5, <1>8, <1>12 DEF Port
<1>17. M = {p0, q0, c0, c1, c2, d0}
  BY <1>3 DEF M1
<1> HIDE DEF p0, q0, c0, c1, c2, d0, M, Q1, Q2, Q, g1, g2, g3
<1>18. PICK s : Flow(U, P, M, s) /\ s[d] < s[c] /\ s[c] < s[p] /\ s[c] < s[q]
  <2>1. PICK t : Flow(U, P, M, t) /\ t[c] = 0 /\ \A e \in Agent \ {c} : t[e] = r[e] + 1
    BY <1>5, <1>14, <1>15, <1>17, LowestRank
  <2>2. PICK s : Flow(U, P, M, s) /\ s[d] = 0 /\ \A e \in Agent \ {d} : s[e] = t[e] + 1
    BY <1>8, <1>15, <1>17, <2>1, LowestRank
  <2>3. r[p] \in Nat /\ r[q] \in Nat
    BY <1>2, <1>12 DEF Flow
  <2>4. s[c] = 1 /\ s[p] = r[p] + 2 /\ s[q] = r[q] + 2
    <3>1. s[c] = t[c] + 1 /\ s[p] = t[p] + 1 /\ s[q] = t[q] + 1
      BY <1>5, <1>12, <2>2
    <3>2. t[p] = r[p] + 1 /\ t[q] = r[q] + 1
      BY <1>12, <2>1
    <3> QED  BY <2>1, <2>3, <3>1, <3>2
  <2> QED  BY <2>2, <2>3, <2>4
<1>19. /\ Flow(U, Q1, {q0, c0, c2, d0}, s)
       /\ \A v \in Port \ {p0, c1} : Q1[v] = P[v]
  <2>1. p0 \in Out(U) \cap M /\ c1 \in In(U) \cap M /\ s[c1[1]] < s[p0[1]]
    BY <1>15, <1>16, <1>17, <1>18
  <2>2. Flow(U, Q1, M \ {c1, p0}, s) /\ \A v \in Port \ {c1, p0} : Q1[v] = P[v]
    BY <1>18, <2>1, JoinKeeps DEF Q1
  <2>3. M \ {c1, p0} = {q0, c0, c2, d0}
    BY <1>16, <1>17
  <2> QED  BY <2>2, <2>3
<1>20. /\ Flow(U, Q2, {c2, d0}, s) /\ Q2[c0] = q0
       /\ \A v \in Port \ {q0, c0} : Q2[v] = Q1[v]
  <2> DEFINE N == {q0, c0, c2, d0}
  <2>1. q0 \in Out(U) \cap N /\ c0 \in In(U) \cap N /\ s[c0[1]] < s[q0[1]]
    BY <1>15, <1>16, <1>18
  <2>2. Flow(U, Q1, N, s)
    BY <1>19
  <2>3. N \ {c0, q0} = {c2, d0}
    BY <1>16
  <2> HIDE DEF N
  <2>4. /\ Flow(U, Q2, N \ {c0, q0}, s) /\ \A v \in Port \ {c0, q0} : Q2[v] = Q1[v]
        /\ Q2[c0] = q0
    BY <2>1, <2>2, JoinKeeps DEF Q2
  <2> QED  BY <2>3, <2>4
<1>21. /\ Flow(U, Q, {}, s) /\ Q[d0] = c2
       /\ \A v \in Port \ {c2, d0} : Q[v] = Q2[v]
  <2> DEFINE N == {c2, d0}
  <2>1. c2 \in Out(U) \cap N /\ d0 \in In(U) \cap N /\ s[d0[1]] < s[c2[1]]
    BY <1>15, <1>16, <1>18
  <2>2. Flow(U, Q2, N, s)
    BY <1>20
  <2>3. N \ {d0, c2} = {}
    OBVIOUS
  <2> HIDE DEF N
  <2>4. /\ Flow(U, Q, N \ {d0, c2}, s) /\ \A v \in Port \ {d0, c2} : Q[v] = Q2[v]
        /\ Q[d0] = c2
    BY <2>1, <2>2, JoinKeeps DEF Q
  <2> QED  BY <2>3, <2>4
<1>22. Pairs(U, Q) = {c}
  <2>1. Q[c0] = q0 /\ Q[d0] = c2
    BY <1>16, <1>20, <1>21
  <2>2. c \in Pairs(U, Q)
    BY <1>5, <1>12, <1>16, <2>1 DEF Pairs, c0
  <2>3. d \notin Pairs(U, Q)
    BY <1>16, <2>1 DEF Pairs, d0
  <2>4. \A a \in Agent \ {c, d} : a \notin Pairs(U, Q)
    <3> SUFFICES ASSUME NEW a \in Agent \ {c, d} PROVE U[a] \notin {Add, End}
      BY DEF Pairs
    <3>1. U[a] \in {0, Zero, Add1}
      BY <1>12
    <3> QED  BY <3>1 DEF Zero, Add1, Add, End
  <2> QED  BY <2>2, <2>3, <2>4 DEF Pairs
<1>23. Single(U)
  <2>1. U[c] = Add /\ U[d] = End /\ Add # End
    BY <1>4, <1>10, <1>12
  <2>2. ASSUME NEW a \in Agent, U[a] \in {Add, End}  PROVE a \in {c, d}
    <3> SUFFICES ASSUME a \notin {c, d} PROVE FALSE
      OBVIOUS
    <3>1. U[a] \in {0, Zero, Add1}
      BY <1>12
    <3> QED  BY <2>2, <3>1 DEF Zero, Add1, Add, End
  <2> QED  BY <2>1, <2>2 DEF Single
<1>24. /\ Pool(g3) /\ Types(g3) = U /\ g3.port = Q
       /\ g3.err = 0 /\ g3.count = 0 /\ g3.head = 0 /\ g3.tail = 0
  <2>1. h2.port = P /\ h2.err = 0 /\ h2.count = 0 /\ h2.head = 0 /\ h2.tail = 0
    BY <1>1, <1>5, <1>8 DEF SameButPool, P
  <2>2. /\ Pool(g1) /\ Types(g1) = U /\ g1.port = Q1
        /\ g1.err = 0 /\ g1.count = 0 /\ g1.head = 0 /\ g1.tail = 0
    <3>1. Pool(h2) /\ p0 \in Port /\ c1 \in Port
      BY <1>8, <1>16
    <3> QED  BY <1>8, <2>1, <3>1, ConnectEffect DEF g1, Q1
  <2>3. /\ Pool(g2) /\ Types(g2) = U /\ g2.port = Q2
        /\ g2.err = 0 /\ g2.count = 0 /\ g2.head = 0 /\ g2.tail = 0
    <3>1. q0 \in Port /\ c0 \in Port
      BY <1>16
    <3> QED  BY <2>2, <3>1, ConnectEffect DEF g2, Q2
  <2>4. c2 \in Port /\ d0 \in Port
    BY <1>16
  <2> QED  BY <2>3, <2>4, ConnectEffect DEF g3, Q
<1>25. /\ Pool(g) /\ Types(g) = U /\ g.port = Q
       /\ g.err = 0 /\ g.count = 0 /\ g.head = 0
       /\ g.cell = [g3.cell EXCEPT ![g3.tail % QSIZE] = c] /\ g.tail = g3.tail + 1
  <2>1. g = EnqPrincipal(g3, c0)
    BY <1>16 DEF EnqPrincipal, g1, g2, g3, p0, q0, c0, c1, c2, d0
  <2> QED  BY <1>16, <1>24, <2>1, EnqPrincipalEffect
<1>26. Queued(g, {c}, Q)
  <2> DEFINE E == {}  F == {c}
  <2>1. Queued(g3, E, Q)
    <3>1. g3.cell \in [0 .. QSIZE - 1 -> Agent \cup {0}]
      BY <1>24 DEF Pool, SoundHeap, Heap
    <3> QED  BY <1>24, <3>1 DEF Queued
  <2>2. F = {} \/ \E a : F = {a} /\ a \notin E
    OBVIOUS
  <2>3. /\ F = {} => g.cell = g3.cell /\ g.tail = g3.tail
        /\ F # {} => g.cell = [g3.cell EXCEPT ![g3.tail % QSIZE] = c] /\ g.tail = g3.tail + 1
    BY <1>25
  <2>4. E \cup F \subseteq Pairs(U, Q) /\ g3.tail - g3.head < QSIZE /\ g.head = g3.head
    BY <1>22, <1>24, <1>25, HeapAssumption
  <2>5. /\ \A e \in E : Feeder(Q, e) = Feeder(Q, e)
        /\ \A a \in F : c \in {a, Feeder(Q, a)}
    OBVIOUS
  <2>6. E \cup F = {c}
    OBVIOUS
  <2> HIDE DEF E, F
  <2>7. Queued(g, E \cup F, Q)
    BY <1>5, <1>21, <2>1, <2>2, <2>3, <2>4, <2>5, QueuedEnq
  <2> QED  BY <2>6, <2>7
<1>27. Queued(g, Pairs(Types(g), g.port), g.port)
  BY <1>22, <1>25, <1>26
<1>28. Add1s(U) + g.count = n /\ Agents(U) <= n + 4
  BY <1>11, <1>25
<1>29. Reducible(g, n)
  BY <1>21, <1>23, <1>25, <1>27, <1>28 DEF Reducible
<1>30. g.count = 0 /\ g.tail = 1
  BY <1>24, <1>25
<1> QED  BY <1>8, <1>10, <1>25, <1>29, <1>30

-----------------------------------------------------------------------------
(* The wires of a net, as the abstract reduction sees them.                 *)
Ports(T) == Out(T) \cup In(T)
WiresOf(T, P) == {{p, P[p]} : p \in Ports(T)}
Apart(W, R) == {w \in W : \A p \in w : p[1] \notin R}

(* Going over a wire and back ends where it started.                        *)
LEMMA ThereAndBack ==
  ASSUME NEW T, NEW P, NEW r, Flow(T, P, {}, r), NEW p \in Ports(T)
  PROVE  /\ P[p] \in Ports(T) /\ P[P[p]] = p /\ P[p] # p
         /\ p \in Out(T) <=> P[p] \in In(T)
<1>1. /\ \A q \in In(T) : P[q] \in Out(T) /\ P[P[q]] = q
      /\ \A q \in Out(T) : P[q] \in In(T) /\ P[P[q]] = q
  BY DEF Flow, Wired
<1> QED  BY <1>1, InOutDisjoint DEF Ports

(* The other end of a port's wire is what the port's cell holds.            *)
LEMMA OtherEnd ==
  ASSUME NEW T, NEW P, NEW r, Flow(T, P, {}, r), NEW p \in Ports(T)
  PROVE  LET W == WiresOf(T, P)
         IN  (CHOOSE q \in UNION W : {p, q} \in W /\ q # p) = P[p]
<1> DEFINE W == WiresOf(T, P)  Is(q) == q \in UNION W /\ {p, q} \in W /\ q # p
<1>1. Is(P[p])
  BY ThereAndBack DEF WiresOf
<1>2. ASSUME NEW q, Is(q)  PROVE q = P[p]
  <2>1. PICK v \in Ports(T) : {p, q} = {v, P[v]}
    BY <1>2 DEF WiresOf
  <2>2. P[P[v]] = v
    BY ThereAndBack
  <2> QED  BY <1>2, <2>1, <2>2
<1> QED  BY <1>1, <1>2

(* The wires of a net are disjoint pairs of its ports.                      *)
LEMMA WiresArePairs ==
  ASSUME NEW T, NEW P, NEW r, Flow(T, P, {}, r)
  PROVE  LET W == WiresOf(T, P)
         IN  /\ \A w \in W : Cardinality(w) = 2
             /\ UNION W = Ports(T)
             /\ \A v, w \in W : v \cap w # {} => v = w
<1> DEFINE W == WiresOf(T, P)
<1>1. ASSUME NEW w \in W  PROVE Cardinality(w) = 2
  <2>1. PICK p \in Ports(T) : w = {p, P[p]}
    BY DEF WiresOf
  <2>2. P[p] # p
    BY ThereAndBack
  <2>3. P[p] \notin {p} /\ w = {p} \cup {P[p]}
    BY <2>1, <2>2
  <2>4. IsFiniteSet({p}) /\ Cardinality({p}) = 1
    BY FS_Singleton
  <2>5. Cardinality({p} \cup {P[p]}) = Cardinality({p}) + 1
    BY <2>3, <2>4, FS_AddElement
  <2> QED  BY <2>3, <2>4, <2>5
<1>2. UNION W = Ports(T)
  BY ThereAndBack DEF WiresOf
<1>3. ASSUME NEW v \in W, NEW w \in W, v \cap w # {}  PROVE v = w
  <2>1. PICK p \in Ports(T) : v = {p, P[p]}
    BY DEF WiresOf
  <2>2. PICK q \in Ports(T) : w = {q, P[q]}
    BY DEF WiresOf
  <2>3. P[P[p]] = p /\ P[P[q]] = q
    BY ThereAndBack
  <2> QED  BY <1>3, <2>1, <2>2, <2>3
<1> QED  BY <1>1, <1>2, <1>3

(* A rewriting keeps the wires away from the agents R and adds those of N.  *)
Rewiring(T, P, U, Q, R, N) ==
  /\ \A p \in Ports(U) :
       \/ p \in Ports(T) /\ p[1] \notin R /\ P[p][1] \notin R /\ Q[p] = P[p]
       \/ {p, Q[p]} \in N
  /\ \A p \in Ports(T) :
       p[1] \notin R /\ P[p][1] \notin R => p \in Ports(U) /\ Q[p] = P[p]
  /\ \A w \in N : \E p \in Ports(U) : w = {p, Q[p]}

LEMMA Rewired ==
  ASSUME NEW T, NEW P, NEW U, NEW Q, NEW R, NEW N, Rewiring(T, P, U, Q, R, N)
  PROVE  WiresOf(U, Q) = Apart(WiresOf(T, P), R) \cup N
<1>1. ASSUME NEW w \in WiresOf(U, Q)  PROVE w \in Apart(WiresOf(T, P), R) \cup N
  <2>1. PICK p \in Ports(U) : w = {p, Q[p]}
    BY DEF WiresOf
  <2> QED  BY <2>1 DEF Rewiring, WiresOf, Apart
<1>2. ASSUME NEW w \in Apart(WiresOf(T, P), R)  PROVE w \in WiresOf(U, Q)
  <2>1. PICK p \in Ports(T) : w = {p, P[p]}
    BY DEF WiresOf, Apart
  <2>2. p[1] \notin R /\ P[p][1] \notin R
    BY <2>1 DEF Apart
  <2> QED  BY <2>1, <2>2 DEF Rewiring, WiresOf
<1>3. ASSUME NEW w \in N  PROVE w \in WiresOf(U, Q)
  BY DEF Rewiring, WiresOf
<1> QED  BY <1>1, <1>2, <1>3

(* The cells connect writes.                                                *)
LEMMA JoinedCells ==
  ASSUME NEW P \in [Port -> PortValue], NEW v \in Port, NEW w \in Port, v # w
  PROVE  /\ Joined(P, v, w) \in [Port -> PortValue]
         /\ Joined(P, v, w)[v] = w /\ Joined(P, v, w)[w] = v
         /\ \A p \in Port \ {v, w} : Joined(P, v, w)[p] = P[p]
BY PortValues DEF Joined

(* The ports a net gains and loses with an agent.                           *)
LEMMA PortsNew ==
  ASSUME NEW T \in [Agent -> 0 .. 4], NEW c \in Agent, NEW k \in Type, T[c] = 0
  PROVE  Ports([T EXCEPT ![c] = k]) \ PortsOf(c) = Ports(T)
<1> DEFINE U == [T EXCEPT ![c] = k]
<1>1. Out(U) \ PortsOf(c) = Out(T) /\ In(U) \ PortsOf(c) = In(T)
  BY NewPorts
<1> HIDE DEF U
<1>2. Ports(U) \ PortsOf(c) = Ports(T)
  BY <1>1 DEF Ports
<1> QED  BY <1>2 DEF U

(* A freed agent takes its ports with it.                                   *)
LEMMA PortsDropped ==
  ASSUME NEW T \in [Agent -> 0 .. 4], NEW a \in Agent
  PROVE  Ports([T EXCEPT ![a] = 0]) = Ports(T) \ PortsOf(a)
<1> DEFINE U == [T EXCEPT ![a] = 0]
<1>1. Out(U) = Out(T) \ PortsOf(a) /\ In(U) = In(T) \ PortsOf(a)
  BY DropPorts
<1> HIDE DEF U
<1>2. Ports(U) = Ports(T) \ PortsOf(a)
  BY <1>1 DEF Ports
<1> QED  BY <1>2 DEF U

-----------------------------------------------------------------------------
(* Each rule as a rewriting of wires.                                       *)
AddZeroWires(T, P, a, b) ==
  LET x == P[<<a, 1>>]
      y == P[<<a, 2>>]
  IN  WiresOf([T EXCEPT ![a] = 0, ![b] = 0], Joined(P, x, y))
        = Apart(WiresOf(T, P), {a, b}) \cup {{x, y}}

(* Add and zero: what add joined at its ports 1 and 2 is joined directly.   *)
LEMMA WiresAddZero ==
  ASSUME NEW T, NEW P, NEW r, Flow(T, P, {}, r), NEW a \in Agent, NEW b \in Agent,
         T[a] = Add, T[b] = Zero, P[<<a, 0>>] = <<b, 0>>
  PROVE  AddZeroWires(T, P, a, b)
<1> DEFINE a0 == <<a, 0>>  a1 == <<a, 1>>  a2 == <<a, 2>>  b0 == <<b, 0>>
           x == P[a1]  y == P[a2]  Q == Joined(P, x, y)
           U == [T EXCEPT ![a] = 0, ![b] = 0]
<1>1. /\ T \in [Agent -> 0 .. 4] /\ P \in [Port -> PortValue] /\ a # b
  BY DEF Flow, Wired, Add, Zero
<1>2. /\ PortsOf(a) \cap Ports(T) = {a0, a1, a2} /\ PortsOf(b) \cap Ports(T) = {b0}
      /\ a1 \in In(T) /\ a2 \in Out(T)
  BY UsedPortFacts DEF Ports
<1>3. Ports(U) = Ports(T) \ {a0, a1, a2, b0}
  <2> DEFINE V == [T EXCEPT ![a] = 0]
  <2>1. V \in [Agent -> 0 .. 4] /\ U = [V EXCEPT ![b] = 0]
    BY <1>1
  <2>2. Ports(V) = Ports(T) \ PortsOf(a)
    BY <1>1, DropPorts DEF Ports
  <2> HIDE DEF V
  <2>3. Ports(U) = Ports(V) \ PortsOf(b)
    BY <2>1, DropPorts DEF Ports
  <2> QED  BY <1>2, <2>2, <2>3
<1>4. /\ x \in Out(U) /\ y \in In(U)
  BY FlowAddZero
<1>5. \A p \in Ports(T) : P[p] \in Ports(T) /\ P[P[p]] = p
  BY ThereAndBack
<1>6. \A p \in Ports(T) : p[1] \in {a, b} <=> p \in {a0, a1, a2, b0}
  <2>1. Ports(T) \subseteq Port
    BY InOutDisjoint DEF Ports
  <2> QED  BY <1>2, <2>1 DEF PortsOf
<1>7. P[a0] = b0 /\ P[b0] = a0 /\ P[x] = a1 /\ P[y] = a2
  <2>1. a0 \in Ports(T) /\ a1 \in Ports(T) /\ a2 \in Ports(T)
    BY <1>2
  <2> QED  BY <1>5, <2>1
<1> HIDE DEF x, y, U, Q
<1>8. x \in Port /\ y \in Port /\ x # y /\ x \in Ports(U) /\ y \in Ports(U)
  BY <1>4, InOutDisjoint DEF Ports
<1>9. Q[x] = y /\ Q[y] = x /\ \A p \in Port \ {x, y} : Q[p] = P[p]
  BY <1>1, <1>8, JoinedCells DEF Q
<1> HIDE DEF a0, a1, a2, b0
<1>10. Rewiring(T, P, U, Q, {a, b}, {{x, y}})
  <2>1. ASSUME NEW p \in Ports(U)
        PROVE  \/ p \in Ports(T) /\ p[1] \notin {a, b} /\ P[p][1] \notin {a, b} /\ Q[p] = P[p]
               \/ {p, Q[p]} \in {{x, y}}
    <3>1. CASE p \in {x, y}
      BY <1>9, <3>1
    <3>2. CASE p \notin {x, y}
      <4>1. p \in Ports(T) /\ p \notin {a0, a1, a2, b0} /\ p \in Port
        BY <1>3, InOutDisjoint DEF Ports
      <4>2. P[p] \notin {a0, a1, a2, b0}
        BY <1>5, <1>7, <3>2, <4>1 DEF x, y
      <4> QED  BY <1>5, <1>6, <1>9, <3>2, <4>1, <4>2
    <3> QED  BY <3>1, <3>2
  <2>2. ASSUME NEW p \in Ports(T), p[1] \notin {a, b}, P[p][1] \notin {a, b}
        PROVE  p \in Ports(U) /\ Q[p] = P[p]
    <3>1. p \notin {a0, a1, a2, b0} /\ P[p] \notin {a0, a1, a2, b0} /\ p \in Port
      BY <1>5, <1>6, <2>2, InOutDisjoint DEF Ports
    <3>2. p \notin {x, y}
      BY <1>7, <3>1
    <3> QED  BY <1>3, <1>9, <3>1, <3>2
  <2>3. {x, y} = {x, Q[x]}
    BY <1>9
  <2> QED  BY <1>8, <2>1, <2>2, <2>3 DEF Rewiring
<1>11. WiresOf(U, Q) = Apart(WiresOf(T, P), {a, b}) \cup {{x, y}}
  BY <1>10, Rewired
<1> QED  BY <1>11 DEF x, y, U, Q, a1, a2, AddZeroWires

(* End and zero: nothing is joined.                                         *)
LEMMA WiresEndZero ==
  ASSUME NEW T, NEW P, NEW r, Flow(T, P, {}, r), NEW a \in Agent, NEW b \in Agent,
         T[a] = End, T[b] = Zero, P[<<a, 0>>] = <<b, 0>>
  PROVE  WiresOf([T EXCEPT ![a] = 0, ![b] = 0], P) = Apart(WiresOf(T, P), {a, b})
<1> DEFINE a0 == <<a, 0>>  b0 == <<b, 0>>  U == [T EXCEPT ![a] = 0, ![b] = 0]
<1>1. T \in [Agent -> 0 .. 4] /\ a # b
  BY DEF Flow, Wired, End, Zero
<1>2. PortsOf(a) \cap Ports(T) = {a0} /\ PortsOf(b) \cap Ports(T) = {b0}
  BY UsedPortFacts DEF Ports
<1>3. Ports(U) = Ports(T) \ {a0, b0}
  <2> DEFINE V == [T EXCEPT ![a] = 0]
  <2>1. V \in [Agent -> 0 .. 4] /\ U = [V EXCEPT ![b] = 0]
    BY <1>1
  <2>2. Ports(V) = Ports(T) \ PortsOf(a)
    BY <1>1, DropPorts DEF Ports
  <2> HIDE DEF V
  <2>3. Ports(U) = Ports(V) \ PortsOf(b)
    BY <2>1, DropPorts DEF Ports
  <2> QED  BY <1>2, <2>2, <2>3
<1>4. \A p \in Ports(T) : P[p] \in Ports(T) /\ P[P[p]] = p
  BY ThereAndBack
<1>5. \A p \in Ports(T) : p[1] \in {a, b} <=> p \in {a0, b0}
  <2>1. Ports(T) \subseteq Port
    BY InOutDisjoint DEF Ports
  <2> QED  BY <1>2, <2>1 DEF PortsOf
<1>6. P[a0] = b0 /\ P[b0] = a0
  <2>1. a0 \in Ports(T)
    BY <1>2
  <2> QED  BY <1>4, <2>1
<1> HIDE DEF U, a0, b0
<1>7. Rewiring(T, P, U, P, {a, b}, {})
  BY <1>3, <1>4, <1>5, <1>6 DEF Rewiring
<1>8. WiresOf(U, P) = Apart(WiresOf(T, P), {a, b}) \cup {}
  BY <1>7, Rewired
<1> QED  BY <1>8 DEF U

(* End and add1: end moves to what the add1 stood on.                       *)
LEMMA WiresEndAdd1 ==
  ASSUME NEW T, NEW P, NEW r, Flow(T, P, {}, r), NEW a \in Agent, NEW b \in Agent,
         T[a] = End, T[b] = Add1, P[<<a, 0>>] = <<b, 0>>
  PROVE  LET z == P[<<b, 1>>]
         IN  WiresOf([T EXCEPT ![b] = 0], Joined(P, z, <<a, 0>>))
               = Apart(WiresOf(T, P), {a, b}) \cup {{<<a, 0>>, z}}
<1> DEFINE a0 == <<a, 0>>  b0 == <<b, 0>>  b1 == <<b, 1>>
           z == P[b1]  Q == Joined(P, z, a0)
           U == [T EXCEPT ![b] = 0]
<1>1. /\ T \in [Agent -> 0 .. 4] /\ P \in [Port -> PortValue] /\ a # b
  BY DEF Flow, Wired, Add1, End
<1>2. /\ PortsOf(a) \cap Ports(T) = {a0} /\ PortsOf(b) \cap Ports(T) = {b0, b1}
      /\ a0 \in In(T) /\ a0 \in Port
  <2>1. PortsOf(a) \cap Ports(T) = {a0} /\ a0 \in In(T)
    BY UsedPortFacts DEF Ports
  <2>2. PortsOf(b) \cap Ports(T) = {b0, b1}
    BY UsedPortFacts DEF Ports
  <2> QED  BY <2>1, <2>2, InOutDisjoint
<1>3. Ports(U) = Ports(T) \ {b0, b1}
  <2>1. Ports(U) = Ports(T) \ PortsOf(b)
    BY <1>1, DropPorts DEF Ports
  <2> QED  BY <1>2, <2>1
<1>4. z \in Out(U)
  BY FlowEndAdd1
<1>5. \A p \in Ports(T) : P[p] \in Ports(T) /\ P[P[p]] = p
  BY ThereAndBack
<1>6. \A p \in Ports(T) : p[1] \in {a, b} <=> p \in {a0, b0, b1}
  <2>1. Ports(T) \subseteq Port
    BY InOutDisjoint DEF Ports
  <2> QED  BY <1>2, <2>1 DEF PortsOf
<1>7. P[a0] = b0 /\ P[b0] = a0 /\ P[z] = b1 /\ a0 \in Ports(T) /\ a0 \notin {b0, b1}
  <2>1. a0 \in Ports(T) /\ b1 \in Ports(T)
    BY <1>2
  <2> QED  BY <1>1, <1>5, <2>1
<1> HIDE DEF z, U, Q
<1>8. z \in Port /\ z # a0 /\ z \in Ports(U) /\ z \in Ports(T)
  <2>1. z \in Port /\ z \in Ports(U)
    BY <1>4, InOutDisjoint DEF Ports
  <2>2. z \in Ports(T)
    BY <1>3, <2>1
  <2>3. b0 # b1
    OBVIOUS
  <2> QED  BY <1>7, <2>1, <2>2, <2>3
<1> HIDE DEF a0, b0, b1
<1>9. Q[z] = a0 /\ Q[a0] = z /\ \A p \in Port \ {z, a0} : Q[p] = P[p]
  BY <1>1, <1>2, <1>8, JoinedCells DEF Q
<1>10. Rewiring(T, P, U, Q, {a, b}, {{a0, z}})
  <2>1. ASSUME NEW p \in Ports(U)
        PROVE  \/ p \in Ports(T) /\ p[1] \notin {a, b} /\ P[p][1] \notin {a, b} /\ Q[p] = P[p]
               \/ {p, Q[p]} \in {{a0, z}}
    <3>1. CASE p \in {a0, z}
      BY <1>9, <3>1
    <3>2. CASE p \notin {a0, z}
      <4>1. p \in Ports(T) /\ p \notin {a0, b0, b1} /\ p \in Port
        BY <1>3, <3>2, InOutDisjoint DEF Ports
      <4>2. P[p] \notin {a0, b0, b1}
        BY <1>5, <1>7, <3>2, <4>1 DEF z
      <4> QED  BY <1>5, <1>6, <1>9, <3>2, <4>1, <4>2
    <3> QED  BY <3>1, <3>2
  <2>2. ASSUME NEW p \in Ports(T), p[1] \notin {a, b}, P[p][1] \notin {a, b}
        PROVE  p \in Ports(U) /\ Q[p] = P[p]
    <3>1. p \notin {a0, b0, b1} /\ P[p] \notin {a0, b0, b1} /\ p \in Port
      BY <1>5, <1>6, <2>2, InOutDisjoint DEF Ports
    <3>2. p # z
      BY <1>7, <3>1
    <3> QED  BY <1>3, <1>9, <3>1, <3>2
  <2>3. {a0, z} = {z, Q[z]}
    BY <1>9
  <2> QED  BY <1>8, <2>1, <2>2, <2>3 DEF Rewiring
<1>11. WiresOf(U, Q) = Apart(WiresOf(T, P), {a, b}) \cup {{a0, z}}
  BY <1>10, Rewired
<1> QED  BY <1>11 DEF z, U, Q, a0, b1

AddAdd1Wires(T, P, a, b, c, d) ==
  LET U == [T EXCEPT ![c] = Add1, ![d] = Add, ![a] = 0, ![b] = 0]
      x == P[<<a, 1>>]
      y == P[<<a, 2>>]
      z == P[<<b, 1>>]
      Q == Joined(Joined(Joined(Joined(P, y, <<c, 0>>), z, <<d, 0>>), x, <<d, 1>>),
                  <<d, 2>>, <<c, 1>>)
  IN  WiresOf(U, Q) = Apart(WiresOf(T, P), {a, b}) \cup
        {{<<c, 0>>, y}, {<<d, 0>>, z}, {<<d, 1>>, x}, {<<c, 1>>, <<d, 2>>}}

(* Add and add1: the new add1 c goes to the result, the new add d takes the *)
(* rest of the number, and c stands on d.                                   *)
LEMMA WiresAddAdd1 ==
  ASSUME NEW T, NEW P, NEW r, Flow(T, P, {}, r), NEW a \in Agent, NEW b \in Agent,
         T[a] = Add, T[b] = Add1, P[<<a, 0>>] = <<b, 0>>,
         NEW c \in Agent, NEW d \in Agent, c # d, T[c] = 0, T[d] = 0
  PROVE  AddAdd1Wires(T, P, a, b, c, d)
<1> DEFINE a0 == <<a, 0>>  a1 == <<a, 1>>  a2 == <<a, 2>>
           b0 == <<b, 0>>  b1 == <<b, 1>>
           c0 == <<c, 0>>  c1 == <<c, 1>>
           d0 == <<d, 0>>  d1 == <<d, 1>>  d2 == <<d, 2>>
           x == P[a1]  y == P[a2]  z == P[b1]
           Q1 == Joined(P, y, c0)  Q2 == Joined(Q1, z, d0)  Q3 == Joined(Q2, x, d1)
           Q  == Joined(Q3, d2, c1)
           U == [T EXCEPT ![c] = Add1, ![d] = Add, ![a] = 0, ![b] = 0]
           N == {{c0, y}, {d0, z}, {d1, x}, {c1, d2}}
<1>1. /\ T \in [Agent -> 0 .. 4] /\ P \in [Port -> PortValue] /\ a # b
      /\ {a, b} \cap {c, d} = {}
  BY DEF Flow, Wired, Add, Add1
<1>2. /\ PortsOf(a) \cap Ports(T) = {a0, a1, a2} /\ PortsOf(b) \cap Ports(T) = {b0, b1}
  BY UsedPortFacts DEF Ports
<1>3. Ports(U) = (Ports(T) \ {a0, a1, a2, b0, b1}) \cup {c0, c1, d0, d1, d2}
  <2> DEFINE T1 == [T EXCEPT ![c] = Add1]  T2 == [T1 EXCEPT ![d] = Add]
             T3 == [T2 EXCEPT ![a] = 0]
  <2>1. Add \in Type /\ Add1 \in Type /\ Add # 0 /\ Add1 # 0
    BY DEF Type, Add, Add1
  <2>2. /\ T1 \in [Agent -> 0 .. 4] /\ T2 \in [Agent -> 0 .. 4] /\ T3 \in [Agent -> 0 .. 4]
        /\ U = [T3 EXCEPT ![b] = 0] /\ T1[c] = Add1 /\ T1[d] = 0 /\ T2[d] = Add
    BY <1>1, <2>1 DEF Type
  <2>3. Ports(T1) \ PortsOf(c) = Ports(T) /\ Ports(T2) \ PortsOf(d) = Ports(T1)
    <3>1. Ports(T1) \ PortsOf(c) = Ports(T)
      BY <1>1, <2>1, PortsNew
    <3> HIDE DEF T1
    <3>2. Ports(T2) \ PortsOf(d) = Ports(T1)
      BY <2>1, <2>2, PortsNew
    <3> QED  BY <3>1, <3>2
  <2> HIDE DEF T1, T2, T3, U
  <2>4. PortsOf(c) \cap Ports(T1) = {c0, c1} /\ PortsOf(d) \cap Ports(T2) = {d0, d1, d2}
    BY <2>2, UsedPortFacts DEF Ports
  <2>5. Ports(T3) = Ports(T2) \ PortsOf(a) /\ Ports(U) = Ports(T3) \ PortsOf(b)
    <3>1. Ports([T2 EXCEPT ![a] = 0]) = Ports(T2) \ PortsOf(a)
      BY <2>2, PortsDropped
    <3>2. Ports([T3 EXCEPT ![b] = 0]) = Ports(T3) \ PortsOf(b)
      BY <2>2, PortsDropped
    <3> QED  BY <2>2, <3>1, <3>2 DEF T3
  <2>6. Ports(T2) = Ports(T) \cup {c0, c1, d0, d1, d2}
    BY <2>3, <2>4
  <2>7. {c0, c1, d0, d1, d2} \cap (PortsOf(a) \cup PortsOf(b)) = {}
    <3>1. c0[1] = c /\ c1[1] = c /\ d0[1] = d /\ d1[1] = d /\ d2[1] = d
      OBVIOUS
    <3> HIDE DEF c0, c1, d0, d1, d2
    <3> QED  BY <1>1, <3>1 DEF PortsOf
  <2> QED  BY <1>2, <2>5, <2>6, <2>7
<1>4. \A p \in Ports(T) : P[p] \in Ports(T) /\ P[P[p]] = p
  BY ThereAndBack
<1>5. \A p \in Ports(T) : p[1] \in {a, b} <=> p \in {a0, a1, a2, b0, b1}
  <2>1. Ports(T) \subseteq Port
    BY InOutDisjoint DEF Ports
  <2> QED  BY <1>2, <2>1 DEF PortsOf
<1>6. /\ P[a0] = b0 /\ P[b0] = a0 /\ P[x] = a1 /\ P[y] = a2 /\ P[z] = b1
      /\ x \in Ports(T) /\ y \in Ports(T) /\ z \in Ports(T)
  <2>1. a0 \in Ports(T) /\ a1 \in Ports(T) /\ a2 \in Ports(T) /\ b1 \in Ports(T)
    BY <1>2
  <2> QED  BY <1>4, <2>1
<1>7. /\ c0 \in Port /\ c1 \in Port /\ d0 \in Port /\ d1 \in Port /\ d2 \in Port
      /\ {c0, c1, d0, d1, d2} \cap Ports(T) = {}
      /\ c0[1] = c /\ c1[1] = c /\ d0[1] = d /\ d1[1] = d /\ d2[1] = d
      /\ c0 # c1 /\ d0 # d1 /\ d0 # d2 /\ d1 # d2 /\ {c0, c1} \cap {d0, d1, d2} = {}
  <2>1. \A p \in Ports(T) : T[p[1]] # 0
    BY DEF Ports, Out, In, Zero, Add1, Add, End
  <2> QED  BY <2>1 DEF Port
<1>8. /\ {x, y, z} \cap {a0, a1, a2, b0, b1} = {} /\ x # y /\ x # z /\ y # z
  <2>1. AddAdd1Open(T, P, a, b, c, d)
    BY <1>1, FlowAddAdd1Open
  <2>2. {x, y, z} \cap {a0, a1, a2, b0, b1} = {}
    BY <2>1 DEF AddAdd1Open
  <2>3. a1 # a2 /\ a1 # b1 /\ a2 # b1
    BY <1>1
  <2> QED  BY <1>6, <2>2, <2>3
<1> HIDE DEF x, y, z, U, a0, a1, a2, b0, b1, c0, c1, d0, d1, d2, Q1, Q2, Q3, Q
<1>9. x \in Port /\ y \in Port /\ z \in Port
  BY <1>6, InOutDisjoint DEF Ports
<1>10. {x, y, z} \cap {c0, c1, d0, d1, d2} = {}
  BY <1>6, <1>7
<1>11. /\ Q[c0] = y /\ Q[y] = c0 /\ Q[d0] = z /\ Q[z] = d0 /\ Q[d1] = x /\ Q[x] = d1
       /\ Q[c1] = d2 /\ Q[d2] = c1
       /\ \A p \in Port \ {x, y, z, c0, c1, d0, d1, d2} : Q[p] = P[p]
  <2>0. y # c0 /\ z # d0 /\ x # d1 /\ d2 # c1
    BY <1>7, <1>10
  <2>1. /\ Q1 \in [Port -> PortValue] /\ Q1[y] = c0 /\ Q1[c0] = y
        /\ \A p \in Port \ {y, c0} : Q1[p] = P[p]
    <3>1. c0 \in Port
      BY <1>7
    <3> QED  BY <1>1, <1>9, <2>0, <3>1, JoinedCells DEF Q1
  <2>2. /\ Q2 \in [Port -> PortValue] /\ Q2[z] = d0 /\ Q2[d0] = z
        /\ \A p \in Port \ {z, d0} : Q2[p] = Q1[p]
    <3>1. d0 \in Port
      BY <1>7
    <3> QED  BY <1>9, <2>0, <2>1, <3>1, JoinedCells DEF Q2
  <2>3. /\ Q3 \in [Port -> PortValue] /\ Q3[x] = d1 /\ Q3[d1] = x
        /\ \A p \in Port \ {x, d1} : Q3[p] = Q2[p]
    <3>1. d1 \in Port
      BY <1>7
    <3> QED  BY <1>9, <2>0, <2>2, <3>1, JoinedCells DEF Q3
  <2>4. /\ Q[d2] = c1 /\ Q[c1] = d2
        /\ \A p \in Port \ {d2, c1} : Q[p] = Q3[p]
    <3>1. d2 \in Port /\ c1 \in Port
      BY <1>7
    <3> QED  BY <2>0, <2>3, <3>1, JoinedCells DEF Q
  <2>5. /\ c0 \in Port /\ c1 \in Port /\ d0 \in Port /\ d1 \in Port /\ d2 \in Port
        /\ c0 \notin {c1, d0, d1, d2} /\ c1 \notin {d0, d1, d2} /\ d0 \notin {d1, d2} /\ d1 # d2
    BY <1>7
  <2>6. /\ x \notin {y, z, c0, c1, d0, d1, d2} /\ y \notin {z, c0, c1, d0, d1, d2}
        /\ z \notin {c0, c1, d0, d1, d2}
    BY <1>8, <1>10
  <2> QED  BY <1>9, <2>1, <2>2, <2>3, <2>4, <2>5, <2>6
<1>12. /\ {x, y, z, c0, c1, d0, d1, d2} \subseteq Ports(U)
       /\ \A p \in Ports(U) : p \notin {x, y, z, c0, c1, d0, d1, d2} =>
            p \in Ports(T) /\ p \notin {a0, a1, a2, b0, b1}
  BY <1>3, <1>6, <1>8
<1>13. Rewiring(T, P, U, Q, {a, b}, N)
  <2>1. ASSUME NEW p \in Ports(U)
        PROVE  \/ p \in Ports(T) /\ p[1] \notin {a, b} /\ P[p][1] \notin {a, b} /\ Q[p] = P[p]
               \/ {p, Q[p]} \in N
    <3>1. CASE p \in {x, y, z, c0, c1, d0, d1, d2}
      BY <1>11, <3>1
    <3>2. CASE p \notin {x, y, z, c0, c1, d0, d1, d2}
      <4>1. p \in Ports(T) /\ p \notin {a0, a1, a2, b0, b1} /\ p \in Port
        BY <1>12, <3>2, InOutDisjoint DEF Ports
      <4>2. P[p] \notin {a0, a1, a2, b0, b1}
        BY <1>4, <1>6, <3>2, <4>1 DEF x, y, z
      <4> QED  BY <1>4, <1>5, <1>11, <3>2, <4>1, <4>2
    <3> QED  BY <3>1, <3>2
  <2>2. ASSUME NEW p \in Ports(T), p[1] \notin {a, b}, P[p][1] \notin {a, b}
        PROVE  p \in Ports(U) /\ Q[p] = P[p]
    <3>1. p \notin {a0, a1, a2, b0, b1} /\ P[p] \notin {a0, a1, a2, b0, b1} /\ p \in Port
      BY <1>4, <1>5, <2>2, InOutDisjoint DEF Ports
    <3>2. p \notin {x, y, z, c0, c1, d0, d1, d2}
      BY <1>6, <1>7, <3>1
    <3> QED  BY <1>3, <1>11, <3>1, <3>2
  <2>3. ASSUME NEW w \in N  PROVE \E p \in Ports(U) : w = {p, Q[p]}
    BY <1>11, <1>12, <2>3
  <2> HIDE DEF N
  <2> QED  BY <2>1, <2>2, <2>3 DEF Rewiring
<1> HIDE DEF N
<1>14. WiresOf(U, Q) = Apart(WiresOf(T, P), {a, b}) \cup N
  BY <1>13, Rewired
<1> QED  BY <1>14 DEF x, y, z, U, Q, Q1, Q2, Q3, N, a1, a2, b1, c0, c1, d0, d1, d2, AddAdd1Wires

-----------------------------------------------------------------------------
(* The four interactions, as InetNet has them: T, W and k are the types,    *)
(* wires and count before, U, V and l after.                                *)
Far(W, p) == CHOOSE q \in UNION W : {p, q} \in W /\ q # p

Interaction(T, W, k, U, V, l, a, b) ==
  /\ {<<a, 0>>, <<b, 0>>} \in W
  /\ \/ /\ T[a] = Add /\ T[b] = Zero /\ l = k
        /\ U = [T EXCEPT ![a] = 0, ![b] = 0]
        /\ V = Apart(W, {a, b}) \cup {{Far(W, <<a, 1>>), Far(W, <<a, 2>>)}}
     \/ /\ T[a] = Add /\ T[b] = Add1 /\ l = k
        /\ \E c, d \in {e \in Agent : T[e] = 0} :
             /\ c # d
             /\ U = [[T EXCEPT ![a] = 0, ![b] = 0] EXCEPT ![c] = Add1, ![d] = Add]
             /\ V = Apart(W, {a, b}) \cup
                      {{<<c, 0>>, Far(W, <<a, 2>>)}, {<<d, 0>>, Far(W, <<b, 1>>)},
                       {<<d, 1>>, Far(W, <<a, 1>>)}, {<<c, 1>>, <<d, 2>>}}
     \/ /\ T[a] = End /\ T[b] = Add1 /\ l = k + 1
        /\ U = [T EXCEPT ![b] = 0]
        /\ V = Apart(W, {a, b}) \cup {{<<a, 0>>, Far(W, <<b, 1>>)}}
     \/ /\ T[a] = End /\ T[b] = Zero /\ l = k
        /\ U = [T EXCEPT ![a] = 0, ![b] = 0]
        /\ V = Apart(W, {a, b})

Net1(h) == WiresOf(Types(h), h.port)

(* What a rule reads in port cells is at the other end of the wires.        *)
LEMMA PairEnds ==
  ASSUME NEW h, NEW a, NEW b, PairIn(h, a, b)
  PROVE  /\ {<<a, 0>>, <<b, 0>>} \in Net1(h)
         /\ Types(h)[a] = Add => /\ Far(Net1(h), <<a, 1>>) = h.port[<<a, 1>>]
                                 /\ Far(Net1(h), <<a, 2>>) = h.port[<<a, 2>>]
         /\ Types(h)[b] = Add1 => Far(Net1(h), <<b, 1>>) = h.port[<<b, 1>>]
<1> DEFINE T == Types(h)  P == h.port
<1>1. PICK r : Flow(T, P, {}, r)
  BY DEF PairIn
<1>2. /\ a \in Agent /\ b \in Agent /\ P[<<a, 0>>] = <<b, 0>>
      /\ T[a] \in {Add, End}
  BY PairParts, PairPort
<1> HIDE DEF T, P
<1>3. \A p \in Ports(T) : Far(WiresOf(T, P), p) = P[p]
  BY <1>1, OtherEnd DEF Far
<1>4. <<a, 0>> \in Ports(T)
  BY <1>2, UsedPortFacts DEF Ports
<1>5. {<<a, 0>>, <<b, 0>>} \in WiresOf(T, P)
  BY <1>2, <1>4 DEF WiresOf
<1>6. T[a] = Add => <<a, 1>> \in Ports(T) /\ <<a, 2>> \in Ports(T)
  BY <1>2, UsedPortFacts DEF Ports
<1>7. T[b] = Add1 => <<b, 1>> \in Ports(T)
  BY <1>2, UsedPortFacts DEF Ports
<1> QED  BY <1>3, <1>5, <1>6, <1>7 DEF Net1, T, P

(* A rule of the engine is one of the interactions.                         *)
LEMMA FireInteracts ==
  ASSUME NEW h, NEW a, NEW b, PairIn(h, a, b)
  PROVE  \A g : (g = Fire(h, a, b) \/ g = Fire(h, b, a)) /\ g.err # 2 =>
           /\ Interaction(Types(h), Net1(h), h.count, Types(g), Net1(g), g.count, a, b)
           /\ g.head = h.head
<1>0. /\ a \in Agent /\ b \in Agent /\ a # b /\ Live(h, a) /\ Live(h, b)
      /\ h.port[<<a, 0>>] = <<b, 0>>
      /\ Types(h) \in [Agent -> 0 .. 4]
      /\ Types(h)[a] = h.word[a] /\ Types(h)[b] = h.word[b]
      /\ Types(h)[a] \in {Add, End} /\ Types(h)[b] \in {Zero, Add1}
  BY PairParts, PairPort, PairTypes
<1> SUFFICES ASSUME NEW g, g = Fire(h, a, b) \/ g = Fire(h, b, a), g.err # 2
             PROVE  /\ Interaction(Types(h), Net1(h), h.count, Types(g), Net1(g), g.count, a, b)
                    /\ g.head = h.head
  OBVIOUS
<1> DEFINE T == Types(h)  P == h.port  W == Net1(h)
<1>1. PICK r : Flow(T, P, {}, r)
  BY DEF PairIn
<1>2. /\ T[a] = h.word[a] /\ T[b] = h.word[b] /\ T \in [Agent -> 0 .. 4]
      /\ T[a] \in {Add, End} /\ T[b] \in {Zero, Add1}
      /\ a \in Agent /\ b \in Agent /\ a # b /\ P[<<a, 0>>] = <<b, 0>>
  BY <1>0
<1>3. /\ {<<a, 0>>, <<b, 0>>} \in W
      /\ T[a] = Add => Far(W, <<a, 1>>) = P[<<a, 1>>] /\ Far(W, <<a, 2>>) = P[<<a, 2>>]
      /\ T[b] = Add1 => Far(W, <<b, 1>>) = P[<<b, 1>>]
  BY PairEnds
<1>4. CASE T[a] = Add /\ T[b] = Zero
  <2>1. g = RuleAddZero(h, a, b)
    BY <1>2, <1>4 DEF Fire, Zero, Add1, Add, End
  <2>2. /\ Types(g) = [T EXCEPT ![a] = 0, ![b] = 0] /\ g.count = h.count /\ g.head = h.head
        /\ g.port = Joined(P, P[<<a, 1>>], P[<<a, 2>>])
    BY <1>4, <2>1, RuleAddZeroFires
  <2> HIDE DEF T, P, W
  <2>3. Net1(g) = Apart(WiresOf(T, P), {a, b}) \cup {{P[<<a, 1>>], P[<<a, 2>>]}}
    <3>0. /\ Flow(T, P, {}, r) /\ a \in Agent /\ b \in Agent /\ P[<<a, 0>>] = <<b, 0>>
          /\ T[a] = Add /\ T[b] = Zero
      BY <1>1, <1>2, <1>4 DEF T
    <3>1. AddZeroWires(T, P, a, b)
      BY <3>0, WiresAddZero
    <3> QED  BY <2>2, <3>1 DEF Net1, AddZeroWires
  <2>4. W = WiresOf(T, P)
    BY DEF W, T, P, Net1
  <2>5. Interaction(T, W, h.count, Types(g), Net1(g), g.count, a, b)
    BY <1>3, <1>4, <2>2, <2>3, <2>4 DEF Interaction
  <2> QED  BY <2>2, <2>5 DEF T, W
<1>5. CASE T[a] = Add /\ T[b] = Add1
  <2>1. g = RuleAddAdd1(h, a, b)
    BY <1>2, <1>5 DEF Fire, Zero, Add1, Add, End
  <2>2. AddAdd1Rewires(h, a, b, g)
    BY <1>5, <2>1, RuleAddAdd1Fires
  <2>3. PICK c \in Agent, d \in Agent :
          /\ c # d /\ T[c] = 0 /\ T[d] = 0
          /\ Types(g) = [T EXCEPT ![c] = Add1, ![d] = Add, ![a] = 0, ![b] = 0]
          /\ g.port = Joined(Joined(Joined(Joined(P, P[<<a, 2>>], <<c, 0>>),
                                           P[<<b, 1>>], <<d, 0>>),
                                    P[<<a, 1>>], <<d, 1>>), <<d, 2>>, <<c, 1>>)
          /\ g.count = h.count /\ g.head = h.head
    BY <2>2 DEF AddAdd1Rewires
  <2> HIDE DEF T, P, W
  <2>4. Net1(g) = Apart(WiresOf(T, P), {a, b}) \cup
                    {{<<c, 0>>, P[<<a, 2>>]}, {<<d, 0>>, P[<<b, 1>>]},
                     {<<d, 1>>, P[<<a, 1>>]}, {<<c, 1>>, <<d, 2>>}}
    <3> DEFINE U == [T EXCEPT ![c] = Add1, ![d] = Add, ![a] = 0, ![b] = 0]
               Q == Joined(Joined(Joined(Joined(P, P[<<a, 2>>], <<c, 0>>),
                                         P[<<b, 1>>], <<d, 0>>),
                                  P[<<a, 1>>], <<d, 1>>), <<d, 2>>, <<c, 1>>)
    <3>0. /\ Flow(T, P, {}, r) /\ a \in Agent /\ b \in Agent /\ P[<<a, 0>>] = <<b, 0>>
          /\ T[a] = Add /\ T[b] = Add1
      BY <1>1, <1>2, <1>5 DEF T
    <3>1. AddAdd1Wires(T, P, a, b, c, d)
      BY <3>0, <2>3, WiresAddAdd1
    <3>2. Types(g) = U /\ g.port = Q
      BY <2>3
    <3>3. WiresOf(U, Q) = Apart(WiresOf(T, P), {a, b}) \cup
            {{<<c, 0>>, P[<<a, 2>>]}, {<<d, 0>>, P[<<b, 1>>]},
             {<<d, 1>>, P[<<a, 1>>]}, {<<c, 1>>, <<d, 2>>}}
      BY <3>1 DEF AddAdd1Wires
    <3> HIDE DEF U, Q
    <3> QED  BY <3>2, <3>3 DEF Net1
  <2>5. W = WiresOf(T, P)
    BY DEF W, T, P, Net1
  <2>6. Types(g) = [[T EXCEPT ![a] = 0, ![b] = 0] EXCEPT ![c] = Add1, ![d] = Add]
    <3>1. {a, b} \cap {c, d} = {}
      BY <1>5, <2>3 DEF Add, Add1
    <3> QED  BY <1>2, <2>3, <3>1
  <2>7. Interaction(T, W, h.count, Types(g), Net1(g), g.count, a, b)
    <3> DEFINE U == Types(g)  V == Net1(g)
    <3>1. \E e, f \in {i \in Agent : T[i] = 0} :
            /\ e # f
            /\ U = [[T EXCEPT ![a] = 0, ![b] = 0] EXCEPT ![e] = Add1, ![f] = Add]
            /\ V = Apart(W, {a, b}) \cup
                     {{<<e, 0>>, Far(W, <<a, 2>>)}, {<<f, 0>>, Far(W, <<b, 1>>)},
                      {<<f, 1>>, Far(W, <<a, 1>>)}, {<<e, 1>>, <<f, 2>>}}
      <4> DEFINE ax == P[<<a, 1>>]  ay == P[<<a, 2>>]  bz == P[<<b, 1>>]
      <4>1. /\ Far(W, <<a, 1>>) = ax /\ Far(W, <<a, 2>>) = ay /\ Far(W, <<b, 1>>) = bz
        BY <1>3, <1>5
      <4>2. V = Apart(W, {a, b}) \cup
                  {{<<c, 0>>, ay}, {<<d, 0>>, bz}, {<<d, 1>>, ax}, {<<c, 1>>, <<d, 2>>}}
        BY <2>4, <2>5
      <4>3. c \in {i \in Agent : T[i] = 0} /\ d \in {i \in Agent : T[i] = 0} /\ c # d
        BY <2>3
      <4> HIDE DEF U, V, ax, ay, bz
      <4>4. V = Apart(W, {a, b}) \cup
                  {{<<c, 0>>, Far(W, <<a, 2>>)}, {<<d, 0>>, Far(W, <<b, 1>>)},
                   {<<d, 1>>, Far(W, <<a, 1>>)}, {<<c, 1>>, <<d, 2>>}}
        BY <4>1, <4>2
      <4>5. U = [[T EXCEPT ![a] = 0, ![b] = 0] EXCEPT ![c] = Add1, ![d] = Add]
        BY <2>6 DEF U
      <4> QED  BY <4>3, <4>4, <4>5
    <3> HIDE DEF U, V
    <3> QED  BY <1>3, <1>5, <2>3, <3>1 DEF Interaction, U, V
  <2> QED  BY <2>3, <2>7 DEF T, W
<1>6. CASE T[a] = End /\ T[b] = Zero
  <2>1. g = RuleEndZero(h, a, b)
    BY <1>2, <1>6 DEF Fire, Zero, Add1, Add, End
  <2>2. /\ Types(g) = [T EXCEPT ![a] = 0, ![b] = 0] /\ g.port = P
        /\ g.count = h.count /\ g.head = h.head
    BY <1>6, <2>1, RuleEndZeroFires
  <2> HIDE DEF T, P, W
  <2>3. Net1(g) = Apart(WiresOf(T, P), {a, b})
    <3>0. /\ Flow(T, P, {}, r) /\ a \in Agent /\ b \in Agent /\ P[<<a, 0>>] = <<b, 0>>
          /\ T[a] = End /\ T[b] = Zero
      BY <1>1, <1>2, <1>6 DEF T
    <3>1. WiresOf([T EXCEPT ![a] = 0, ![b] = 0], P) = Apart(WiresOf(T, P), {a, b})
      BY <3>0, WiresEndZero
    <3> QED  BY <2>2, <3>1 DEF Net1
  <2>4. W = WiresOf(T, P)
    BY DEF W, T, P, Net1
  <2>5. Interaction(T, W, h.count, Types(g), Net1(g), g.count, a, b)
    BY <1>3, <1>6, <2>2, <2>3, <2>4 DEF Interaction
  <2> QED  BY <2>2, <2>5 DEF T, W
<1>7. CASE T[a] = End /\ T[b] = Add1
  <2>1. g = RuleEndAdd1(h, a, b)
    BY <1>2, <1>7 DEF Fire, Zero, Add1, Add, End
  <2>2. /\ Types(g) = [T EXCEPT ![b] = 0] /\ g.count = h.count + 1 /\ g.head = h.head
        /\ g.port = Joined(P, P[<<b, 1>>], <<a, 0>>)
    BY <1>7, <2>1, RuleEndAdd1Fires
  <2> HIDE DEF T, P, W
  <2>3. Net1(g) = Apart(WiresOf(T, P), {a, b}) \cup {{<<a, 0>>, P[<<b, 1>>]}}
    <3>0. /\ Flow(T, P, {}, r) /\ a \in Agent /\ b \in Agent /\ P[<<a, 0>>] = <<b, 0>>
          /\ T[a] = End /\ T[b] = Add1
      BY <1>1, <1>2, <1>7 DEF T
    <3>1. WiresOf([T EXCEPT ![b] = 0], Joined(P, P[<<b, 1>>], <<a, 0>>))
            = Apart(WiresOf(T, P), {a, b}) \cup {{<<a, 0>>, P[<<b, 1>>]}}
      BY <3>0, WiresEndAdd1
    <3> QED  BY <2>2, <3>1 DEF Net1
  <2>4. W = WiresOf(T, P)
    BY DEF W, T, P, Net1
  <2>5. Interaction(T, W, h.count, Types(g), Net1(g), g.count, a, b)
    BY <1>3, <1>7, <2>2, <2>3, <2>4 DEF Interaction
  <2> QED  BY <2>2, <2>5 DEF T, W
<1> QED  BY <1>2, <1>4, <1>5, <1>6, <1>7

(* A turn of the driver rewrites one active pair.                           *)
LEMMA TurnInteracts ==
  ASSUME NEW h, NEW n \in Nat, Reducible(h, n), h.head # h.tail, QSIZE >= 2, Turn(h).err # 2
  PROVE  /\ \E a, b \in Agent :
              Interaction(Types(h), Net1(h), h.count,
                          Types(Turn(h)), Net1(Turn(h)), Turn(h).count, a, b)
         /\ Turn(h).head = h.head + 1
<1> DEFINE h1 == [h EXCEPT !.head = @ + 1]  g == Turn(h)
<1>1. PICK c : Taken(h1, c, n) /\ (\/ g = Fire(h1, c, Feeder(h1.port, c))
                                    \/ g = Fire(h1, Feeder(h1.port, c), c))
  BY TurnPops
<1>2. /\ Types(h1) = Types(h) /\ h1.port = h.port /\ h1.count = h.count
      /\ h1.head = h.head + 1
  BY TurnPops
<1>3. g.err # 2
  OBVIOUS
<1> HIDE DEF h1, g
<1> DEFINE b == Feeder(h1.port, c)
<1>4. c \in Agent /\ b \in Agent /\ PairIn(h1, c, b)
  BY <1>1, TakenPair, PairParts
<1>5. /\ Interaction(Types(h1), Net1(h1), h1.count, Types(g), Net1(g), g.count, c, b)
      /\ g.head = h1.head
  BY <1>1, <1>3, <1>4, FireInteracts
<1>6. Net1(h1) = Net1(h)
  BY <1>2 DEF Net1
<1> HIDE DEF b
<1> QED  BY <1>2, <1>4, <1>5, <1>6 DEF g

-----------------------------------------------------------------------------
(* The net the refinement maps a heap to is that of its types and cells.    *)
LEMMA HeapPorts ==
  ASSUME NEW g, SoundHeap(g)
  PROVE  /\ UsedPorts(g) = Ports(Types(g))
         /\ {{p, g.port[p]} : p \in UsedPorts(g)} = Net1(g)
         /\ [a \in Agent |-> IF Live(g, a) THEN g.word[a] ELSE 0] = Types(g)
<1> DEFINE T == Types(g)
<1>1. /\ \A a \in Agent : Live(g, a) <=> T[a] # 0
      /\ \A a \in Agent : Live(g, a) => T[a] = g.word[a] /\ T[a] \in Type
  BY TypesFacts
<1>2. \A p \in Port : p[1] \in Agent /\ p[2] \in {0, 1, 2}
  BY DEF Port
<1> HIDE DEF T
<1>3. ASSUME NEW p \in Port  PROVE p \in UsedPorts(g) <=> p \in Ports(T)
  <2> DEFINE a == p[1]  i == p[2]
  <2>1. a \in Agent /\ i \in {0, 1, 2}
    BY <1>2
  <2>2. p \in UsedPorts(g) <=> Live(g, a) /\ i < Arity(g.word[a])
    BY DEF UsedPorts
  <2>3. p \in Ports(T) <=> \/ T[a] \in {Zero, Add1} /\ i = 0
                           \/ T[a] = Add /\ i = 2
                           \/ T[a] = Add1 /\ i = 1
                           \/ T[a] = Add /\ i \in {0, 1}
                           \/ T[a] = End /\ i = 0
    BY DEF Ports, Out, In
  <2> HIDE DEF a, i
  <2>4. Live(g, a) => /\ T[a] = g.word[a] /\ T[a] \in Type
    BY <1>1, <2>1
  <2>5. ASSUME Live(g, a)  PROVE i < Arity(T[a]) <=> p \in Ports(T)
    <3>1. T[a] \in {1, 2, 3, 4}
      BY <2>4, <2>5 DEF Type
    <3> QED  BY <2>1, <2>3, <3>1 DEF Arity, Zero, Add1, Add, End
  <2>6. ~Live(g, a) => p \notin Ports(T)
    BY <1>1, <2>1, <2>3 DEF Zero, Add1, Add, End
  <2> QED  BY <2>2, <2>4, <2>5, <2>6
<1>4. UsedPorts(g) \subseteq Port /\ Ports(T) \subseteq Port
  BY InOutDisjoint DEF UsedPorts, Ports
<1>5. UsedPorts(g) = Ports(T)
  BY <1>3, <1>4
<1> QED  BY <1>5 DEF Net1, WiresOf, T, Types

(* InetNet counts ports by the arity of an agent's type.                    *)
LEMMA NetPorts ==
  ASSUME NEW T \in [Agent -> 0 .. 4], NEW A,
         A[Zero] = 1, A[End] = 1, A[Add1] = 2, A[Add] = 3
  PROVE  UNION {{<<a, i>> : i \in 0 .. A[T[a]] - 1} : a \in {a \in Agent : T[a] # 0}} = Ports(T)
<1> DEFINE Of(a) == {<<a, i>> : i \in 0 .. A[T[a]] - 1}
<1>1. A[1] = 1 /\ A[2] = 2 /\ A[3] = 3 /\ A[4] = 1
  BY DEF Zero, Add1, Add, End
<1>2. ASSUME NEW a \in Agent, T[a] # 0  PROVE Of(a) = PortsOf(a) \cap Ports(T)
  <2>1. T[a] \in {Zero, Add1, Add, End}
    BY <1>2 DEF Zero, Add1, Add, End
  <2>2. CASE T[a] \in {Zero, End}
    <3>1. 0 .. A[T[a]] - 1 = {0}
      BY <1>1, <2>2 DEF Zero, End
    <3>2. Of(a) = {<<a, 0>>}
      BY <3>1
    <3> QED  BY <2>2, <3>2, UsedPortFacts DEF Ports
  <2>3. CASE T[a] = Add1
    <3>1. 0 .. A[T[a]] - 1 = {0, 1}
      BY <1>1, <2>3 DEF Add1
    <3>2. Of(a) = {<<a, 0>>, <<a, 1>>}
      BY <3>1
    <3> QED  BY <2>3, <3>2, UsedPortFacts DEF Ports
  <2>4. CASE T[a] = Add
    <3>1. 0 .. A[T[a]] - 1 = {0, 1, 2}
      BY <1>1, <2>4 DEF Add
    <3>2. Of(a) = {<<a, 0>>, <<a, 1>>, <<a, 2>>}
      BY <3>1
    <3> QED  BY <2>4, <3>2, UsedPortFacts DEF Ports
  <2> QED  BY <2>1, <2>2, <2>3, <2>4
<1>3. \A p \in Ports(T) : p[1] \in Agent /\ T[p[1]] # 0 /\ p \in PortsOf(p[1])
  BY PortFacts, InOutDisjoint DEF Ports, PortsOf, Out, In, Zero, Add1, Add, End
<1> HIDE DEF Of
<1>4. UNION {Of(a) : a \in {a \in Agent : T[a] # 0}} = Ports(T)
  BY <1>2, <1>3
<1> QED  BY <1>4 DEF Of

-----------------------------------------------------------------------------
(* The trees of par-run, numbered by AGENTS or as records of a bundle. *)

(* A net whose agents A are numbered as they were made: every in-port is     *)
(* wired to the out-port of an earlier agent, and every out-port to an       *)
(* in-port, the value ports of the heads H apart, which are open.            *)

Outs(A, T) == {p \in A \X (0 .. 2) : \/ T[p[1]] \in {Zero, Add1} /\ p[2] = 0
                                     \/ T[p[1]] = Add /\ p[2] = 2}
Ins(A, T)  == {p \in A \X (0 .. 2) : \/ T[p[1]] = Add1 /\ p[2] = 1
                                     \/ T[p[1]] = Add /\ p[2] \in {0, 1}
                                     \/ T[p[1]] = End /\ p[2] = 0}
Value(T, e) == IF T[e] = Add1 THEN <<e, 0>> ELSE <<e, 2>>
Open(T, H)  == {Value(T, e) : e \in H}

Sapling(A, T, P, H) ==
  /\ H \subseteq A /\ \A e \in H : T[e] \in {Add1, Add}
  /\ \A a \in A : T[a] \in Type
  /\ \A p \in Ins(A, T) : P[p] \in Outs(A, T) \ Open(T, H) /\ P[P[p]] = p /\ P[p][1] < p[1]
  /\ \A p \in Outs(A, T) \ Open(T, H) : P[p] \in Ins(A, T) /\ P[P[p]] = p

NumOf(A, T, K) == Cardinality({a \in A : T[a] \in K})
Ids(b, n) == b .. b + n - 1

(* The agents b .. b + n - 1 of a tree under construction; the adds of its m *)
(* nodes are the entries E.                                                  *)
Grown(b, T, P, H, n, m, E) ==
  /\ n \in Nat /\ m \in Nat
  /\ Sapling(Ids(b, n), T, P, H)
  /\ NumOf(Ids(b, n), T, {Add}) = m /\ 2 * NumOf(Ids(b, n), T, {Add1}) + m = n
  /\ \A a \in Ids(b, n) : T[a] # End /\ (T[a] = Add => \E j \in 0 .. m - 1 : E[j] = a)
  /\ \A j \in 0 .. m - 1 : E[j] \in Ids(b, n)

(* The tree of L leaves with its end.                                        *)
Planted(b, T, P, E, L) ==
  /\ Sapling(Ids(b, 3 * L), T, P, {})
  /\ NumOf(Ids(b, 3 * L), T, {Add, End}) = L /\ NumOf(Ids(b, 3 * L), T, {Add1}) = L
  /\ NumOf(Ids(b, 3 * L), T, {End}) = 1
  /\ \A a \in Ids(b, 3 * L) : /\ T[a] = End => P[<<a, 0>>][2] # 0
                              /\ T[a] = Add => \E j \in 0 .. L - 2 : E[j] = a
  /\ \A j \in 0 .. L - 2 : E[j] \in Ids(b, 3 * L)

Takers(T) == Cardinality({a \in Agent : T[a] \in {Add, End}})

LEMMA PairOf ==
  \A A, p : p \in A \X (0 .. 2) <=>
              \E a \in A : p \in {<<a, 0>>, <<a, 1>>, <<a, 2>>}
<1> SUFFICES ASSUME NEW A, NEW p
             PROVE  p \in A \X (0 .. 2) <=> \E a \in A : p \in {<<a, 0>>, <<a, 1>>, <<a, 2>>}
  OBVIOUS
<1>1. 0 .. 2 = {0, 1, 2}
  OBVIOUS
<1> QED  BY <1>1

LEMMA OutsIns ==
  ASSUME NEW A, NEW T, NEW a \in A
  PROVE  /\ <<a, 0>> \in Outs(A, T) <=> T[a] \in {Zero, Add1}
         /\ <<a, 1>> \notin Outs(A, T)
         /\ <<a, 2>> \in Outs(A, T) <=> T[a] = Add
         /\ <<a, 0>> \in Ins(A, T) <=> T[a] \in {Add, End}
         /\ <<a, 1>> \in Ins(A, T) <=> T[a] \in {Add, Add1}
         /\ <<a, 2>> \notin Ins(A, T)
<1>1. <<a, 0>> \in A \X (0 .. 2) /\ <<a, 1>> \in A \X (0 .. 2) /\ <<a, 2>> \in A \X (0 .. 2)
  BY PairOf
<1> QED  BY <1>1 DEF Outs, Ins, Zero, Add1, Add, End

(* A port belongs to its agent. *)
LEMMA PortsApart ==
  ASSUME NEW A, NEW T
  PROVE  /\ \A p \in Outs(A, T) \cup Ins(A, T) :
              /\ p \in A \X (0 .. 2) /\ p[1] \in A /\ T[p[1]] \in Type
              /\ p \in {<<p[1], 0>>, <<p[1], 1>>, <<p[1], 2>>}
         /\ Outs(A, T) \cap Ins(A, T) = {}
<1>1. \A p \in A \X (0 .. 2) : p[1] \in A /\ p \in {<<p[1], 0>>, <<p[1], 1>>, <<p[1], 2>>}
  BY PairOf
<1>2. \A p \in Outs(A, T) \cup Ins(A, T) : p \in A \X (0 .. 2) /\ T[p[1]] \in Type
  BY DEF Outs, Ins, Zero, Add1, Add, End, Type
<1>3. Outs(A, T) \cap Ins(A, T) = {}
  BY DEF Outs, Ins, Zero, Add1, Add, End
<1> QED  BY <1>1, <1>2, <1>3

LEMMA PortsGrow ==
  ASSUME NEW A, NEW c, c \notin A, NEW T, NEW U, \A a \in A : U[a] = T[a], U[c] \in Type
  PROVE  /\ Outs(A, T) \subseteq Outs(A \cup {c}, U) /\ Ins(A, T) \subseteq Ins(A \cup {c}, U)
         /\ \A p \in Outs(A \cup {c}, U) \ Outs(A, T) :
              \/ p = <<c, 0>> /\ U[c] \in {Zero, Add1}
              \/ p = <<c, 2>> /\ U[c] = Add
         /\ \A p \in Ins(A \cup {c}, U) \ Ins(A, T) :
              \/ p = <<c, 0>> /\ U[c] \in {Add, End}
              \/ p = <<c, 1>> /\ U[c] \in {Add, Add1}
<1> DEFINE B == A \cup {c}
<1>1. \A p \in A \X (0 .. 2) : /\ p \in B \X (0 .. 2) /\ U[p[1]] = T[p[1]]
  <2>1. \A p \in A \X (0 .. 2) : p[1] \in A /\ p[2] \in 0 .. 2 /\ p = <<p[1], p[2]>>
    OBVIOUS
  <2> QED  BY <2>1
<1>2. \A p \in B \X (0 .. 2) : p \in A \X (0 .. 2) \/ p \in {<<c, 0>>, <<c, 1>>, <<c, 2>>}
  <2>1. \A p \in B \X (0 .. 2) : \E a \in B : p \in {<<a, 0>>, <<a, 1>>, <<a, 2>>}
    BY PairOf
  <2>2. \A p : (\E a \in A : p \in {<<a, 0>>, <<a, 1>>, <<a, 2>>}) => p \in A \X (0 .. 2)
    BY PairOf
  <2> QED  BY <2>1, <2>2
<1>3. Outs(A, T) \subseteq Outs(B, U) /\ Ins(A, T) \subseteq Ins(B, U)
  BY <1>1 DEF Outs, Ins
<1>4. \A p \in Outs(B, U) : /\ p \in B \X (0 .. 2)
                            /\ p \in A \X (0 .. 2) => p \in Outs(A, T)
  BY <1>1 DEF Outs
<1>5. \A p \in Ins(B, U) : /\ p \in B \X (0 .. 2)
                           /\ p \in A \X (0 .. 2) => p \in Ins(A, T)
  BY <1>1 DEF Ins
<1>6. c \in B
  OBVIOUS
<1>7. /\ <<c, 0>> \in Outs(B, U) <=> U[c] \in {Zero, Add1}
      /\ <<c, 1>> \notin Outs(B, U)
      /\ <<c, 2>> \in Outs(B, U) <=> U[c] = Add
      /\ <<c, 0>> \in Ins(B, U) <=> U[c] \in {Add, End}
      /\ <<c, 1>> \in Ins(B, U) <=> U[c] \in {Add, Add1}
      /\ <<c, 2>> \notin Ins(B, U)
  BY <1>6, OutsIns
<1>8. \A p \in Outs(B, U) \ Outs(A, T) : \/ p = <<c, 0>> /\ U[c] \in {Zero, Add1}
                                         \/ p = <<c, 2>> /\ U[c] = Add
  BY <1>2, <1>4, <1>7
<1>9. \A p \in Ins(B, U) \ Ins(A, T) : \/ p = <<c, 0>> /\ U[c] \in {Add, End}
                                       \/ p = <<c, 1>> /\ U[c] \in {Add, Add1}
  BY <1>2, <1>5, <1>7
<1> HIDE DEF B
<1>10. /\ Outs(A, T) \subseteq Outs(B, U) /\ Ins(A, T) \subseteq Ins(B, U)
       /\ \A p \in Outs(B, U) \ Outs(A, T) :
            \/ p = <<c, 0>> /\ U[c] \in {Zero, Add1}
            \/ p = <<c, 2>> /\ U[c] = Add
       /\ \A p \in Ins(B, U) \ Ins(A, T) :
            \/ p = <<c, 0>> /\ U[c] \in {Add, End}
            \/ p = <<c, 1>> /\ U[c] \in {Add, Add1}
  BY <1>3, <1>8, <1>9
<1> QED  BY <1>10 DEF B

(* The heads of a sapling with more agents. *)
LEMMA OpenKept ==
  ASSUME NEW T, NEW U, NEW H, \A e \in H : U[e] = T[e]
  PROVE  Open(U, H) = Open(T, H)
<1>1. \A e \in H : Value(U, e) = Value(T, e)
  BY DEF Value
<1> QED  BY <1>1 DEF Open

LEMMA OpenMore ==
  ASSUME NEW T, NEW U, NEW H, \A e \in H : U[e] = T[e], NEW c
  PROVE  Open(U, H \cup {c}) = Open(T, H) \cup {Value(U, c)}
<1>1. Open(U, H) = Open(T, H)
  BY OpenKept
<1>2. Open(U, H \cup {c}) = Open(U, H) \cup {Value(U, c)}
  BY DEF Open
<1> QED  BY <1>1, <1>2

LEMMA OpenPorts ==
  ASSUME NEW A, NEW T, NEW P, NEW H, Sapling(A, T, P, H)
  PROVE  /\ Open(T, H) \subseteq Outs(A, T)
         /\ \A e \in H : e \in A /\ Value(T, e) \in Open(T, H) /\ Value(T, e)[1] = e
                         /\ Value(T, e) \in {<<e, 0>>, <<e, 2>>}
         /\ \A p \in Open(T, H) : p[1] \in H /\ p = Value(T, p[1])
<1>1. \A e \in H : e \in A /\ Value(T, e) \in Open(T, H) /\ Value(T, e)[1] = e
                   /\ Value(T, e) \in {<<e, 0>>, <<e, 2>>}
  BY DEF Sapling, Open, Value
<1>2. \A e \in H : Value(T, e) \in Outs(A, T)
  <2> SUFFICES ASSUME NEW e \in H PROVE Value(T, e) \in Outs(A, T)
    OBVIOUS
  <2>1. e \in A /\ T[e] \in {Add1, Add}
    BY DEF Sapling
  <2> QED  BY <2>1, OutsIns DEF Value, Add, Add1
<1> QED  BY <1>1, <1>2 DEF Open

(* build_tree at depth 0: a zero, and an add1 over it.                       *)
LEMMA GrowLeaf ==
  ASSUME NEW A, NEW T, NEW P, NEW H, Sapling(A, T, P, H),
         NEW z, NEW a, z \notin A, a \notin A, z # a, z < a,
         NEW U, \A e \in A : U[e] = T[e], U[z] = Zero, U[a] = Add1,
         NEW Q, \A p \in A \X (0 .. 2) : Q[p] = P[p],
         Q[<<z, 0>>] = <<a, 1>>, Q[<<a, 1>>] = <<z, 0>>,
         NEW D, D = (A \cup {z}) \cup {a}, NEW M, M = H \cup {a}
  PROVE  Sapling(D, U, Q, M)
<1> DEFINE B == A \cup {z}  C == B \cup {a}  O == Open(T, H)
<1>1. /\ H \subseteq A /\ \A e \in H : T[e] \in {Add1, Add}
      /\ \A e \in A : T[e] \in Type
      /\ \A p \in Ins(A, T) : P[p] \in Outs(A, T) \ O /\ P[P[p]] = p /\ P[p][1] < p[1]
      /\ \A p \in Outs(A, T) \ O : P[p] \in Ins(A, T) /\ P[P[p]] = p
  BY DEF Sapling
<1>2. /\ Outs(A, T) \subseteq Outs(B, U) /\ Ins(A, T) \subseteq Ins(B, U)
      /\ \A p \in Outs(B, U) \ Outs(A, T) : p = <<z, 0>>
      /\ \A p \in Ins(B, U) : p \in Ins(A, T)
  <2>1. U[z] \in Type /\ U[z] \notin {Add, End, Add1}
    BY DEF Type, Zero, Add1, Add, End
  <2>2. /\ Outs(A, T) \subseteq Outs(A \cup {z}, U) /\ Ins(A, T) \subseteq Ins(A \cup {z}, U)
        /\ \A p \in Outs(A \cup {z}, U) \ Outs(A, T) :
             \/ p = <<z, 0>> /\ U[z] \in {Zero, Add1}
             \/ p = <<z, 2>> /\ U[z] = Add
        /\ \A p \in Ins(A \cup {z}, U) \ Ins(A, T) :
             \/ p = <<z, 0>> /\ U[z] \in {Add, End}
             \/ p = <<z, 1>> /\ U[z] \in {Add, Add1}
    BY <2>1, PortsGrow
  <2> QED  BY <2>1, <2>2
<1>3. /\ Outs(B, U) \subseteq Outs(C, U) /\ Ins(B, U) \subseteq Ins(C, U)
      /\ \A p \in Outs(C, U) \ Outs(B, U) : p = <<a, 0>>
      /\ \A p \in Ins(C, U) \ Ins(B, U) : p = <<a, 1>>
  <2>1. U[a] \in Type /\ U[a] \notin {Add, End} /\ a \notin B
    BY DEF Type, Add1, Add, End
  <2> HIDE DEF B
  <2>0. a \notin B /\ (\A e \in B : U[e] = U[e]) /\ U[a] \in Type
    BY <2>1
  <2>2. /\ Outs(B, U) \subseteq Outs(B \cup {a}, U) /\ Ins(B, U) \subseteq Ins(B \cup {a}, U)
        /\ \A p \in Outs(B \cup {a}, U) \ Outs(B, U) :
             \/ p = <<a, 0>> /\ U[a] \in {Zero, Add1}
             \/ p = <<a, 2>> /\ U[a] = Add
        /\ \A p \in Ins(B \cup {a}, U) \ Ins(B, U) :
             \/ p = <<a, 0>> /\ U[a] \in {Add, End}
             \/ p = <<a, 1>> /\ U[a] \in {Add, Add1}
    BY ONLY <2>0, PortsGrow
  <2> QED  BY <2>1, <2>2
<1>4. z \in C /\ a \in C /\ H \cup {a} \subseteq C
  BY <1>1
<1>5. Open(U, H \cup {a}) = O \cup {<<a, 0>>}
  <2>1. (\A e \in H : U[e] = T[e]) /\ Value(U, a) = <<a, 0>>
    BY <1>1 DEF Value
  <2>2. Open(U, H \cup {a}) = O \cup {Value(U, a)}
    BY <2>1, OpenMore
  <2> QED  BY <2>1, <2>2
<1>6. \A p \in Outs(A, T) \cup Ins(A, T) : p[1] \in A /\ Q[p] = P[p]
  BY PortsApart
<1> HIDE DEF B, C, O
<1>7. <<z, 0>> \in Outs(C, U) /\ <<a, 1>> \in Ins(C, U) /\ <<z, 0>> # <<a, 0>>
  <2>1. <<z, 0>> \in Outs(C, U)
    BY <1>4, OutsIns
  <2>2. <<a, 1>> \in Ins(C, U)
    BY <1>4, OutsIns
  <2> QED  BY <2>1, <2>2
<1>8. \A p \in O : p \in Outs(A, T)
  BY OpenPorts DEF O
<1>9. <<z, 0>> \notin O /\ \A p \in Outs(A, T) : p # <<a, 0>>
  BY <1>6, <1>8
<1>10. \A p \in Ins(C, U) : /\ Q[p] \in Outs(C, U) \ (O \cup {<<a, 0>>})
                            /\ Q[Q[p]] = p /\ Q[p][1] < p[1]
  <2> SUFFICES ASSUME NEW p \in Ins(C, U)
               PROVE  /\ Q[p] \in Outs(C, U) \ (O \cup {<<a, 0>>})
                      /\ Q[Q[p]] = p /\ Q[p][1] < p[1]
    OBVIOUS
  <2>1. CASE p \in Ins(A, T)
    <3>1. Q[p] = P[p] /\ P[p] \in Outs(A, T) \ O /\ P[P[p]] = p /\ P[p][1] < p[1]
      BY <1>1, <1>6, <2>1
    <3>2. Q[P[p]] = P[P[p]] /\ P[p] \in Outs(C, U) /\ P[p] # <<a, 0>>
      BY <1>2, <1>3, <1>6, <1>9, <3>1
    <3> QED  BY <3>1, <3>2
  <2>2. CASE p = <<a, 1>>
    <3>1. Q[p] = <<z, 0>> /\ Q[<<z, 0>>] = p /\ Q[p][1] = z /\ p[1] = a
      BY <2>2
    <3> QED  BY <1>7, <1>9, <3>1
  <2> QED  BY <1>2, <1>3, <2>1, <2>2
<1>11. \A p \in Outs(C, U) \ (O \cup {<<a, 0>>}) : Q[p] \in Ins(C, U) /\ Q[Q[p]] = p
  <2> SUFFICES ASSUME NEW p \in Outs(C, U) \ (O \cup {<<a, 0>>})
               PROVE  Q[p] \in Ins(C, U) /\ Q[Q[p]] = p
    OBVIOUS
  <2>1. CASE p \in Outs(A, T)
    <3>1. Q[p] = P[p] /\ P[p] \in Ins(A, T) /\ P[P[p]] = p
      BY <1>1, <1>6, <2>1
    <3>2. Q[P[p]] = P[P[p]] /\ P[p] \in Ins(C, U)
      BY <1>2, <1>3, <1>6, <3>1
    <3> QED  BY <3>1, <3>2
  <2>2. CASE p = <<z, 0>>
    BY <1>7, <2>2
  <2> QED  BY <1>2, <1>3, <2>1, <2>2
<1>12. \A e \in H \cup {a} : U[e] \in {Add1, Add}
  BY <1>1
<1>13. \A e \in C : U[e] \in Type
  BY <1>1 DEF B, C, Type, Zero, Add1
<1>14. Sapling(C, U, Q, H \cup {a})
  BY <1>4, <1>5, <1>10, <1>11, <1>12, <1>13 DEF Sapling
<1>15. C = D
  BY DEF B, C
<1> QED  BY <1>14, <1>15

(* An agent over one or two heads. *)
LEMMA GrowNode ==
  ASSUME NEW A, NEW T, NEW P, NEW H, Sapling(A, T, P, H),
         NEW c, c \notin A, \A e \in A : e < c,
         NEW U, \A e \in A : U[e] = T[e], U[c] = Add,
         NEW l \in H, NEW r \in H, l # r,
         NEW Q, \A p \in (A \X (0 .. 2)) \ {Value(T, l), Value(T, r)} : Q[p] = P[p],
         Q[<<c, 0>>] = Value(T, l), Q[Value(T, l)] = <<c, 0>>,
         Q[<<c, 1>>] = Value(T, r), Q[Value(T, r)] = <<c, 1>>
  PROVE  Sapling(A \cup {c}, U, Q, (H \ {l, r}) \cup {c})
<1> DEFINE B == A \cup {c}  O == Open(T, H)  M == (H \ {l, r}) \cup {c}
           x == Value(T, l)  y == Value(T, r)
<1>1. /\ H \subseteq A /\ \A e \in H : T[e] \in {Add1, Add}
      /\ \A e \in A : T[e] \in Type
      /\ \A p \in Ins(A, T) : P[p] \in Outs(A, T) \ O /\ P[P[p]] = p /\ P[p][1] < p[1]
      /\ \A p \in Outs(A, T) \ O : P[p] \in Ins(A, T) /\ P[P[p]] = p
  BY DEF Sapling
<1>2. c \notin A /\ U[c] \in Type /\ U[c] \notin {Zero, Add1, End} /\ c \in B
  BY DEF Type, Zero, Add1, Add, End
<1>3. /\ Outs(A, T) \subseteq Outs(B, U) /\ Ins(A, T) \subseteq Ins(B, U)
      /\ \A p \in Outs(B, U) \ Outs(A, T) : p = <<c, 2>>
      /\ \A p \in Ins(B, U) \ Ins(A, T) : p \in {<<c, 0>>, <<c, 1>>}
  <2> HIDE DEF B
  <2>0. c \notin A /\ (\A e \in A : U[e] = T[e]) /\ U[c] \in Type
    BY <1>2
  <2>1. /\ Outs(A, T) \subseteq Outs(A \cup {c}, U) /\ Ins(A, T) \subseteq Ins(A \cup {c}, U)
        /\ \A p \in Outs(A \cup {c}, U) \ Outs(A, T) :
             \/ p = <<c, 0>> /\ U[c] \in {Zero, Add1}
             \/ p = <<c, 2>> /\ U[c] = Add
        /\ \A p \in Ins(A \cup {c}, U) \ Ins(A, T) :
             \/ p = <<c, 0>> /\ U[c] \in {Add, End}
             \/ p = <<c, 1>> /\ U[c] \in {Add, Add1}
    BY ONLY <2>0, PortsGrow
  <2> QED  BY <1>2, <2>1 DEF B
<1>4. /\ x \in O /\ y \in O /\ x # y /\ O \subseteq Outs(A, T) /\ x[1] = l /\ y[1] = r
      /\ \A p \in O : p[1] \in H /\ p = Value(T, p[1])
  BY OpenPorts
<1>5. Open(U, M) = (O \ {x, y}) \cup {<<c, 2>>}
  <2>1. \A e \in H \ {l, r} : U[e] = T[e]
    BY <1>1
  <2>2. Open(U, M) = Open(T, H \ {l, r}) \cup {Value(U, c)}
    <3> HIDE DEF O
    <3> QED  BY <2>1, OpenMore
  <2>3. Open(T, H \ {l, r}) = O \ {x, y}
    <3>1. \A p \in O : p \in {x, y} <=> p[1] \in {l, r}
      BY <1>4
    <3>2. \A e \in H : Value(T, e) \in O /\ Value(T, e)[1] = e
      BY OpenPorts
    <3>3. \A p \in Open(T, H \ {l, r}) : p \in O /\ p \notin {x, y}
      <4>1. \A e \in H \ {l, r} : Value(T, e) \in O /\ Value(T, e) \notin {x, y}
        BY <3>1, <3>2
      <4> HIDE DEF x, y, O
      <4> QED  BY <4>1 DEF Open
    <3>4. \A p \in O \ {x, y} : p \in Open(T, H \ {l, r})
      <4>1. \A p \in O \ {x, y} : p = Value(T, p[1]) /\ p[1] \in H \ {l, r}
        BY <1>4, <3>1
      <4> HIDE DEF x, y, O
      <4> QED  BY <4>1 DEF Open
    <3> HIDE DEF O, x, y
    <3> QED  BY <3>3, <3>4
  <2> QED  BY <1>2, <2>2, <2>3 DEF Value
<1>6. \A p \in Outs(A, T) \cup Ins(A, T) : p[1] \in A /\ p \in A \X (0 .. 2)
  BY PortsApart
<1>7. Outs(A, T) \cap Ins(A, T) = {}
  BY PortsApart
<1>8. /\ <<c, 0>> \in Ins(B, U) /\ <<c, 1>> \in Ins(B, U)
  BY <1>2, OutsIns
<1> HIDE DEF B, O, M, x, y
<1>9. \A p \in (Outs(A, T) \cup Ins(A, T)) \ {x, y} : Q[p] = P[p]
  BY <1>6 DEF x, y
<1>10. Q[<<c, 0>>] = x /\ Q[x] = <<c, 0>> /\ Q[<<c, 1>>] = y /\ Q[y] = <<c, 1>>
  BY DEF x, y
<1>11. \A p \in Ins(B, U) : /\ Q[p] \in Outs(B, U) \ ((O \ {x, y}) \cup {<<c, 2>>})
                            /\ Q[Q[p]] = p /\ Q[p][1] < p[1]
  <2> SUFFICES ASSUME NEW p \in Ins(B, U)
               PROVE  /\ Q[p] \in Outs(B, U) \ ((O \ {x, y}) \cup {<<c, 2>>})
                      /\ Q[Q[p]] = p /\ Q[p][1] < p[1]
    OBVIOUS
  <2>1. CASE p \in Ins(A, T)
    <3>1. P[p] \in Outs(A, T) \ O /\ P[P[p]] = p /\ P[p][1] < p[1] /\ p \notin {x, y}
      BY <1>1, <1>4, <1>7, <2>1
    <3>2. Q[p] = P[p] /\ Q[P[p]] = P[P[p]] /\ P[p] \in Outs(B, U) /\ P[p] # <<c, 2>>
      BY <1>2, <1>3, <1>4, <1>6, <1>9, <2>1, <3>1
    <3> QED  BY <3>1, <3>2
  <2>2. CASE p = <<c, 0>>
    <3>1. Q[p] = x /\ Q[x] = p /\ Q[p][1] = l /\ p[1] = c /\ l < c
      BY <1>1, <1>4, <1>10, <2>2
    <3>2. x \in Outs(B, U) /\ x # <<c, 2>>
      BY <1>2, <1>3, <1>4, <1>6
    <3> QED  BY <3>1, <3>2
  <2>3. CASE p = <<c, 1>>
    <3>1. Q[p] = y /\ Q[y] = p /\ Q[p][1] = r /\ p[1] = c /\ r < c
      BY <1>1, <1>4, <1>10, <2>3
    <3>2. y \in Outs(B, U) /\ y # <<c, 2>>
      BY <1>2, <1>3, <1>4, <1>6
    <3> QED  BY <3>1, <3>2
  <2> QED  BY <1>3, <2>1, <2>2, <2>3
<1>12. \A p \in Outs(B, U) \ ((O \ {x, y}) \cup {<<c, 2>>}) : Q[p] \in Ins(B, U) /\ Q[Q[p]] = p
  <2> SUFFICES ASSUME NEW p \in Outs(B, U) \ ((O \ {x, y}) \cup {<<c, 2>>})
               PROVE  Q[p] \in Ins(B, U) /\ Q[Q[p]] = p
    OBVIOUS
  <2>1. CASE p \in {x, y}
    BY <1>8, <1>10, <2>1
  <2>2. CASE p \notin {x, y}
    <3>1. p \in Outs(A, T) \ O
      BY <1>3, <2>2
    <3>2. P[p] \in Ins(A, T) /\ P[P[p]] = p /\ Q[p] = P[p]
      BY <1>1, <1>9, <2>2, <3>1
    <3>3. P[p] \notin {x, y} /\ Q[P[p]] = P[P[p]]
      BY <1>4, <1>7, <1>9, <3>2
    <3> QED  BY <1>3, <3>2, <3>3
  <2> QED  BY <2>1, <2>2
<1>13. M \subseteq B /\ \A e \in M : U[e] \in {Add1, Add}
  BY <1>1 DEF M, B
<1>14. \A e \in B : U[e] \in Type
  BY <1>1, <1>2 DEF B
<1>15. Sapling(B, U, Q, M)
  BY <1>5, <1>11, <1>12, <1>13, <1>14 DEF Sapling
<1> QED  BY <1>15 DEF B, M

(* The end of the root. *)
LEMMA GrowEnd ==
  ASSUME NEW A, NEW T, NEW P, NEW l \in A, NEW H, H = {l}, Sapling(A, T, P, H), T[l] = Add,
         NEW c, c \notin A, \A e \in A : e < c,
         NEW U, \A e \in A : U[e] = T[e], U[c] = End,
         NEW Q, \A p \in (A \X (0 .. 2)) \ {<<l, 2>>} : Q[p] = P[p],
         Q[<<c, 0>>] = <<l, 2>>, Q[<<l, 2>>] = <<c, 0>>
  PROVE  Sapling(A \cup {c}, U, Q, {})
<1> DEFINE B == A \cup {c}  O == Open(T, H)  x == <<l, 2>>
<1>1. /\ \A e \in A : T[e] \in Type
      /\ \A p \in Ins(A, T) : P[p] \in Outs(A, T) \ O /\ P[P[p]] = p /\ P[p][1] < p[1]
      /\ \A p \in Outs(A, T) \ O : P[p] \in Ins(A, T) /\ P[P[p]] = p
  BY DEF Sapling
<1>2. c \notin A /\ U[c] \in Type /\ U[c] \notin {Zero, Add1, Add} /\ c \in B
  BY DEF Type, Zero, Add1, Add, End
<1>3. /\ Outs(A, T) \subseteq Outs(B, U) /\ Ins(A, T) \subseteq Ins(B, U)
      /\ \A p \in Outs(B, U) : p \in Outs(A, T)
      /\ \A p \in Ins(B, U) \ Ins(A, T) : p = <<c, 0>>
  <2> HIDE DEF B
  <2>1. /\ Outs(A, T) \subseteq Outs(A \cup {c}, U) /\ Ins(A, T) \subseteq Ins(A \cup {c}, U)
        /\ \A p \in Outs(A \cup {c}, U) \ Outs(A, T) :
             \/ p = <<c, 0>> /\ U[c] \in {Zero, Add1}
             \/ p = <<c, 2>> /\ U[c] = Add
        /\ \A p \in Ins(A \cup {c}, U) \ Ins(A, T) :
             \/ p = <<c, 0>> /\ U[c] \in {Add, End}
             \/ p = <<c, 1>> /\ U[c] \in {Add, Add1}
    BY <1>2, PortsGrow
  <2> QED  BY <1>2, <2>1 DEF B
<1>4. O = {x} /\ x \in Outs(A, T)
  <2>1. O = {x}
    BY DEF Open, Value, Add, Add1
  <2>2. Open(T, H) \subseteq Outs(A, T)
    BY OpenPorts
  <2> QED  BY <2>1, <2>2
<1>5. Open(U, {}) = {}
  BY DEF Open
<1>6. \A p \in Outs(A, T) \cup Ins(A, T) : p[1] \in A /\ p \in A \X (0 .. 2)
  BY PortsApart
<1>7. Outs(A, T) \cap Ins(A, T) = {}
  BY PortsApart
<1>8. <<c, 0>> \in Ins(B, U)
  BY <1>2, OutsIns
<1>9. x[1] = l
  OBVIOUS
<1> HIDE DEF B, O, x
<1>10. \A p \in (Outs(A, T) \cup Ins(A, T)) \ {x} : Q[p] = P[p]
  BY <1>6 DEF x
<1>11. Q[<<c, 0>>] = x /\ Q[x] = <<c, 0>>
  BY DEF x
<1>12. \A p \in Ins(B, U) : Q[p] \in Outs(B, U) /\ Q[Q[p]] = p /\ Q[p][1] < p[1]
  <2> SUFFICES ASSUME NEW p \in Ins(B, U)
               PROVE  Q[p] \in Outs(B, U) /\ Q[Q[p]] = p /\ Q[p][1] < p[1]
    OBVIOUS
  <2>1. CASE p \in Ins(A, T)
    <3>1. P[p] \in Outs(A, T) \ O /\ P[P[p]] = p /\ P[p][1] < p[1] /\ p # x
      BY <1>1, <1>4, <1>7, <2>1
    <3>2. Q[p] = P[p] /\ Q[P[p]] = P[P[p]] /\ P[p] \in Outs(B, U)
      BY <1>3, <1>4, <1>10, <2>1, <3>1
    <3> QED  BY <3>1, <3>2
  <2>2. CASE p = <<c, 0>>
    <3>1. Q[p] = x /\ Q[x] = p /\ Q[p][1] = l /\ p[1] = c /\ l < c
      BY <1>9, <1>11, <2>2
    <3> QED  BY <1>3, <1>4, <3>1
  <2> QED  BY <1>3, <2>1, <2>2
<1>13. \A p \in Outs(B, U) : Q[p] \in Ins(B, U) /\ Q[Q[p]] = p
  <2> SUFFICES ASSUME NEW p \in Outs(B, U) PROVE Q[p] \in Ins(B, U) /\ Q[Q[p]] = p
    OBVIOUS
  <2>1. CASE p = x
    BY <1>8, <1>11, <2>1
  <2>2. CASE p # x
    <3>1. P[p] \in Ins(A, T) /\ P[P[p]] = p /\ Q[p] = P[p]
      BY <1>1, <1>3, <1>4, <1>10, <2>2
    <3>2. P[p] # x /\ Q[P[p]] = P[P[p]]
      BY <1>4, <1>7, <1>10, <3>1
    <3> QED  BY <1>3, <3>1, <3>2
  <2> QED  BY <2>1, <2>2
<1>14. \A e \in B : U[e] \in Type
  BY <1>1, <1>2 DEF B
<1>15. Sapling(B, U, Q, {})
  BY <1>5, <1>12, <1>13, <1>14 DEF Sapling
<1> QED  BY <1>15 DEF B

-----------------------------------------------------------------------------
(* How many agents of a sort there are. *)

LEMMA IdsMore ==
  ASSUME NEW b \in Nat, NEW n \in Nat
  PROVE  /\ IsFiniteSet(Ids(b, n)) /\ Ids(b, n) \in SUBSET Nat
         /\ Ids(b, n + 1) = Ids(b, n) \cup {b + n} /\ b + n \notin Ids(b, n)
         /\ b + n \in Ids(b, n + 1) /\ \A a \in Ids(b, n) : a < b + n /\ a \in Ids(b, n + 1)
<1>1. IsFiniteSet(Ids(b, n))
  BY FS_Interval DEF Ids
<1> QED  BY <1>1 DEF Ids

LEMMA NumOfNat ==
  ASSUME NEW b \in Nat, NEW n \in Nat, NEW T, NEW K
  PROVE  NumOf(Ids(b, n), T, K) \in Nat
<1> DEFINE S == {a \in Ids(b, n) : T[a] \in K}
<1>1. IsFiniteSet(S)
  BY IdsMore, FS_Subset
<1> HIDE DEF S
<1>2. Cardinality(S) \in Nat
  BY <1>1, FS_CardinalityType
<1> QED  BY <1>2 DEF NumOf, S

LEMMA NumOfIn ==
  ASSUME NEW A, IsFiniteSet(A), NEW c, c \notin A, NEW B, B = A \cup {c},
         NEW T, NEW U, \A a \in A : U[a] = T[a], NEW K, U[c] \in K
  PROVE  NumOf(B, U, K) = NumOf(A, T, K) + 1
<1> DEFINE S == {a \in A : T[a] \in K}  R == {a \in B : U[a] \in K}
<1>1. IsFiniteSet(S)
  BY FS_Subset
<1>2. R = S \cup {c} /\ c \notin S
  OBVIOUS
<1> HIDE DEF S, R
<1>3. Cardinality(R) = Cardinality(S) + 1
  BY <1>1, <1>2, FS_AddElement
<1> QED  BY <1>3 DEF NumOf, S, R

LEMMA NumOfOut ==
  ASSUME NEW A, NEW c, c \notin A, NEW B, B = A \cup {c},
         NEW T, NEW U, \A a \in A : U[a] = T[a], NEW K, U[c] \notin K
  PROVE  NumOf(B, U, K) = NumOf(A, T, K)
<1> DEFINE S == {a \in A : T[a] \in K}  R == {a \in B : U[a] \in K}
<1>1. R = S
  OBVIOUS
<1> QED  BY <1>1 DEF NumOf

LEMMA GrownParts ==
  ASSUME NEW b \in Nat, NEW T, NEW P, NEW H, NEW n, NEW m, NEW E, Grown(b, T, P, H, n, m, E)
  PROVE  /\ n \in Nat /\ m \in Nat /\ Sapling(Ids(b, n), T, P, H)
         /\ NumOf(Ids(b, n), T, {Add}) = m /\ 2 * NumOf(Ids(b, n), T, {Add1}) + m = n
         /\ \A a \in Ids(b, n) : T[a] # End /\ (T[a] = Add => \E j \in 0 .. m - 1 : E[j] = a)
         /\ \A j \in 0 .. m - 1 : E[j] \in Ids(b, n)
         /\ NumOf(Ids(b, n), T, {Add1}) \in Nat
<1>1. NumOf(Ids(b, n), T, {Add1}) \in Nat
  BY NumOfNat DEF Grown
<1> QED  BY <1>1 DEF Grown

(* What build_tree makes of a tree, in the agents or in the records.         *)
LeafAdded(b, n, T, P, U, Q) ==
  /\ \A e \in Ids(b, n) : U[e] = T[e]
  /\ U[b + n] = Zero /\ U[b + n + 1] = Add1
  /\ \A p \in Ids(b, n) \X (0 .. 2) : Q[p] = P[p]
  /\ Q[<<b + n, 0>>] = <<b + n + 1, 1>> /\ Q[<<b + n + 1, 1>>] = <<b + n, 0>>

NodeAdded(b, n, m, l, r, T, P, E, U, Q, F) ==
  /\ \A e \in Ids(b, n) : U[e] = T[e]
  /\ U[b + n] = Add
  /\ \A p \in (Ids(b, n) \X (0 .. 2)) \ {Value(T, l), Value(T, r)} : Q[p] = P[p]
  /\ Q[<<b + n, 0>>] = Value(T, l) /\ Q[Value(T, l)] = <<b + n, 0>>
  /\ Q[<<b + n, 1>>] = Value(T, r) /\ Q[Value(T, r)] = <<b + n, 1>>
  /\ \A j \in 0 .. m - 1 : F[j] = E[j]
  /\ F[m] = b + n

EndAdded(b, n, m, l, L, T, P, U, Q) ==
  /\ L \in Nat \ {0} /\ n = 3 * L - 1 /\ m = L - 1 /\ T[l] = Add
  /\ \A e \in Ids(b, n) : U[e] = T[e]
  /\ U[b + n] = End
  /\ \A p \in (Ids(b, n) \X (0 .. 2)) \ {<<l, 2>>} : Q[p] = P[p]
  /\ Q[<<b + n, 0>>] = <<l, 2>> /\ Q[<<l, 2>>] = <<b + n, 0>>

LEMMA GrownLeaf ==
  ASSUME NEW b \in Nat, NEW T, NEW P, NEW H, NEW n, NEW m, NEW E, Grown(b, T, P, H, n, m, E),
         NEW U, NEW Q, LeafAdded(b, n, T, P, U, Q)
  PROVE  Grown(b, U, Q, H \cup {b + n + 1}, n + 2, m, E)
<1> DEFINE A == Ids(b, n)  B == Ids(b, n + 1)  C == Ids(b, n + 2)  z == b + n  a == b + n + 1
           k == NumOf(A, T, {Add1})
<1>0. /\ \A e \in Ids(b, n) : U[e] = T[e]
      /\ U[b + n] = Zero /\ U[b + n + 1] = Add1
      /\ \A p \in Ids(b, n) \X (0 .. 2) : Q[p] = P[p]
      /\ Q[<<b + n, 0>>] = <<b + n + 1, 1>> /\ Q[<<b + n + 1, 1>>] = <<b + n, 0>>
  BY DEF LeafAdded
<1>1. /\ n \in Nat /\ m \in Nat /\ Sapling(A, T, P, H)
      /\ NumOf(A, T, {Add}) = m /\ 2 * k + m = n
      /\ \A e \in A : T[e] # End /\ (T[e] = Add => \E j \in 0 .. m - 1 : E[j] = e)
      /\ \A j \in 0 .. m - 1 : E[j] \in A
      /\ k \in Nat
  BY GrownParts
<1>2. /\ z \in Nat /\ a \in Nat /\ z < a /\ n + 1 \in Nat /\ n + 2 \in Nat /\ n + 2 = n + 1 + 1
      /\ a = b + (n + 1)
  BY <1>1
<1>3. B = A \cup {z} /\ z \notin A
  BY <1>1, IdsMore
<1>4. C = B \cup {a} /\ a \notin B
  <2>1. /\ Ids(b, (n + 1) + 1) = Ids(b, n + 1) \cup {b + (n + 1)}
        /\ b + (n + 1) \notin Ids(b, n + 1)
    BY <1>2, IdsMore
  <2>2. (n + 1) + 1 = n + 2 /\ b + (n + 1) = a
    BY <1>2
  <2> HIDE DEF a
  <2> QED  BY <2>1, <2>2
<1> HIDE DEF A, B, C, z, a, k
<1>5. U[z] = Zero /\ U[a] = Add1 /\ \A e \in A : U[e] = T[e]
  BY <1>0 DEF z, a, A
<1>6. Sapling(C, U, Q, H \cup {a})
  <2>1. Q[<<z, 0>>] = <<a, 1>> /\ Q[<<a, 1>>] = <<z, 0>> /\ \A p \in A \X (0 .. 2) : Q[p] = P[p]
    BY <1>0 DEF z, a, A
  <2>2. a \notin A
    BY <1>3, <1>4
  <2>3. PICK M : M = H \cup {a}
    OBVIOUS
  <2>4. C = (A \cup {z}) \cup {a}
    BY <1>3, <1>4
  <2>5. Sapling(C, U, Q, M)
    <3>1. /\ Sapling(A, T, P, H)
          /\ z \notin A /\ a \notin A /\ z # a /\ z < a
          /\ \A e \in A : U[e] = T[e]
          /\ U[z] = Zero /\ U[a] = Add1
          /\ \A p \in A \X (0 .. 2) : Q[p] = P[p]
          /\ Q[<<z, 0>>] = <<a, 1>> /\ Q[<<a, 1>>] = <<z, 0>>
      BY <1>1, <1>2, <1>3, <1>5, <2>1, <2>2
    <3> QED  BY ONLY <2>3, <2>4, <3>1, GrowLeaf
  <2> QED  BY <2>3, <2>5
<1>7. IsFiniteSet(A) /\ IsFiniteSet(B)
  BY <1>1, <1>2, IdsMore DEF A, B
<1>8. NumOf(C, U, {Add1}) = k + 1 /\ NumOf(C, U, {Add}) = m
  <2>1. U[z] \notin {Add1} /\ U[z] \notin {Add} /\ U[a] \in {Add1} /\ U[a] \notin {Add}
    BY <1>5 DEF Zero, Add1, Add
  <2> DEFINE K == {Add1}  M == {Add}
  <2> HIDE DEF K, M
  <2>2. U[z] \notin K /\ U[z] \notin M /\ U[a] \in K /\ U[a] \notin M
    BY <2>1 DEF K, M
  <2>3. NumOf(B, U, K) = NumOf(A, T, K) /\ NumOf(B, U, M) = NumOf(A, T, M)
    <3>1. \A e \in A : U[e] = T[e]
      BY <1>5
    <3>2. NumOf(B, U, K) = NumOf(A, T, K)
      BY <1>3, <2>2, <3>1, NumOfOut
    <3>3. NumOf(B, U, M) = NumOf(A, T, M)
      BY <1>3, <2>2, <3>1, NumOfOut
    <3> QED  BY <3>2, <3>3
  <2>4. NumOf(C, U, K) = NumOf(B, U, K) + 1 /\ NumOf(C, U, M) = NumOf(B, U, M)
    BY <1>4, <1>7, <2>2, NumOfOut, NumOfIn
  <2> QED  BY <1>1, <2>3, <2>4 DEF K, M, k
<1>9. 2 * (k + 1) + m = n + 2
  BY <1>1
<1>10. \A e \in C : U[e] # End /\ (U[e] = Add => \E j \in 0 .. m - 1 : E[j] = e)
  <2>1. Zero # End /\ Add1 # End /\ Zero # Add /\ Add1 # Add
    BY DEF Zero, Add1, Add, End
  <2> QED  BY <1>1, <1>3, <1>4, <1>5, <2>1
<1>11. \A j \in 0 .. m - 1 : E[j] \in C
  BY <1>1, <1>3, <1>4
<1>12. Grown(b, U, Q, H \cup {a}, n + 2, m, E)
  BY <1>1, <1>2, <1>6, <1>8, <1>9, <1>10, <1>11 DEF Grown, C
<1> QED  BY <1>12 DEF a

LEMMA GrownNode ==
  ASSUME NEW b \in Nat, NEW T, NEW P, NEW H, NEW n, NEW m, NEW E, Grown(b, T, P, H, n, m, E),
         NEW l \in H, NEW r \in H, l # r,
         NEW U, NEW Q, NEW F, NodeAdded(b, n, m, l, r, T, P, E, U, Q, F)
  PROVE  Grown(b, U, Q, (H \ {l, r}) \cup {b + n}, n + 1, m + 1, F)
<1> DEFINE A == Ids(b, n)  B == Ids(b, n + 1)  c == b + n  k == NumOf(A, T, {Add1})
<1>0. /\ \A e \in Ids(b, n) : U[e] = T[e]
      /\ U[b + n] = Add
      /\ \A p \in (Ids(b, n) \X (0 .. 2)) \ {Value(T, l), Value(T, r)} : Q[p] = P[p]
      /\ Q[<<b + n, 0>>] = Value(T, l) /\ Q[Value(T, l)] = <<b + n, 0>>
      /\ Q[<<b + n, 1>>] = Value(T, r) /\ Q[Value(T, r)] = <<b + n, 1>>
      /\ \A j \in 0 .. m - 1 : F[j] = E[j]
      /\ F[m] = b + n
  BY DEF NodeAdded
<1>1. /\ n \in Nat /\ m \in Nat /\ Sapling(A, T, P, H)
      /\ NumOf(A, T, {Add}) = m /\ 2 * k + m = n
      /\ \A e \in A : T[e] # End /\ (T[e] = Add => \E j \in 0 .. m - 1 : E[j] = e)
      /\ \A j \in 0 .. m - 1 : E[j] \in A
      /\ k \in Nat
  BY GrownParts
<1>2. c \in Nat /\ n + 1 \in Nat /\ m + 1 \in Nat
  BY <1>1
<1>3. B = A \cup {c} /\ c \notin A /\ \A e \in A : e < c
  BY <1>1, IdsMore
<1>4. NumOf(B, U, {Add1}) = k /\ NumOf(B, U, {Add}) = m + 1
  <2> DEFINE K == {Add1}  M == {Add}
  <2>1. U[c] \notin K /\ U[c] \in M /\ \A e \in A : U[e] = T[e]
    BY <1>0 DEF Add1, Add
  <2>2. IsFiniteSet(A)
    BY <1>1, IdsMore
  <2> HIDE DEF A, B, c, k, K, M
  <2>3. NumOf(B, U, K) = NumOf(A, T, K) /\ NumOf(B, U, M) = NumOf(A, T, M) + 1
    BY <1>3, <2>1, <2>2, NumOfOut, NumOfIn
  <2> QED  BY <1>1, <2>3 DEF K, M, k
<1>5. (m + 1) - 1 = m /\ 0 .. (m + 1) - 1 = (0 .. m - 1) \cup {m} /\ 2 * k + (m + 1) = n + 1
  BY <1>1
<1> HIDE DEF A, B, c, k
<1>6. U[c] = Add /\ F[m] = c /\ \A e \in A : U[e] = T[e]
  BY <1>0 DEF c, A
<1>7. Sapling(B, U, Q, (H \ {l, r}) \cup {c})
  <2>1. /\ \A p \in (A \X (0 .. 2)) \ {Value(T, l), Value(T, r)} : Q[p] = P[p]
        /\ Q[<<c, 0>>] = Value(T, l) /\ Q[Value(T, l)] = <<c, 0>>
        /\ Q[<<c, 1>>] = Value(T, r) /\ Q[Value(T, r)] = <<c, 1>>
    BY <1>0 DEF c, A
  <2>2. Sapling(A \cup {c}, U, Q, (H \ {l, r}) \cup {c})
    <3>1. /\ Sapling(A, T, P, H) /\ c \notin A /\ \A e \in A : e < c
          /\ \A e \in A : U[e] = T[e]
          /\ U[c] = Add /\ l \in H /\ r \in H /\ l # r
      BY <1>1, <1>3, <1>6
    <3> QED  BY ONLY <2>1, <3>1, GrowNode
  <2> QED  BY <1>3, <2>2
<1>8. \A e \in B : U[e] # End /\ (U[e] = Add => \E j \in 0 .. (m + 1) - 1 : F[j] = e)
  <2>1. Add # End
    BY DEF Add, End
  <2> QED  BY <1>0, <1>1, <1>3, <1>5, <1>6, <2>1
<1>9. \A j \in 0 .. (m + 1) - 1 : F[j] \in B
  BY <1>0, <1>1, <1>3, <1>5, <1>6
<1>10. Grown(b, U, Q, (H \ {l, r}) \cup {c}, n + 1, m + 1, F)
  BY <1>2, <1>4, <1>5, <1>7, <1>8, <1>9 DEF Grown, B
<1> QED  BY <1>10 DEF c

LEMMA GrownEnd ==
  ASSUME NEW b \in Nat, NEW T, NEW P, NEW l, NEW H, H = {l}, NEW n, NEW m, NEW E,
         Grown(b, T, P, H, n, m, E), NEW L, NEW U, NEW Q, EndAdded(b, n, m, l, L, T, P, U, Q)
  PROVE  Planted(b, U, Q, E, L)
<1> DEFINE A == Ids(b, n)  B == Ids(b, n + 1)  c == b + n  k == NumOf(A, T, {Add1})
<1>0. /\ L \in Nat \ {0} /\ n = 3 * L - 1 /\ m = L - 1 /\ T[l] = Add
      /\ \A e \in Ids(b, n) : U[e] = T[e]
      /\ U[b + n] = End
      /\ \A p \in (Ids(b, n) \X (0 .. 2)) \ {<<l, 2>>} : Q[p] = P[p]
      /\ Q[<<b + n, 0>>] = <<l, 2>> /\ Q[<<l, 2>>] = <<b + n, 0>>
  BY DEF EndAdded
<1>1. /\ n \in Nat /\ m \in Nat /\ Sapling(A, T, P, H)
      /\ NumOf(A, T, {Add}) = m /\ 2 * k + m = n
      /\ \A e \in A : T[e] # End /\ (T[e] = Add => \E j \in 0 .. m - 1 : E[j] = e)
      /\ \A j \in 0 .. m - 1 : E[j] \in A
      /\ k \in Nat
  BY ONLY b \in Nat, Grown(b, T, P, H, n, m, E), GrownParts
<1>2. c \in Nat /\ n + 1 \in Nat /\ n + 1 = 3 * L /\ m - 1 = L - 2 /\ k = L /\ m + 1 = L
  BY <1>0, <1>1
<1>3. B = A \cup {c} /\ c \notin A /\ \A e \in A : e < c
  BY <1>1, IdsMore
<1>4. NumOf(A, T, {Add, End}) = m
  <2>1. {e \in A : T[e] \in {Add, End}} = {e \in A : T[e] \in {Add}}
    BY <1>1
  <2> QED  BY <1>1, <2>1 DEF NumOf
<1>5. NumOf(B, U, {Add1}) = L /\ NumOf(B, U, {Add, End}) = L /\ NumOf(B, U, {End}) = 1
  <2> DEFINE K == {Add1}  M == {Add, End}  E1 == {End}
  <2>1. U[c] \notin K /\ U[c] \in M /\ U[c] \in E1 /\ \A e \in A : U[e] = T[e]
    BY <1>0 DEF Add1, Add, End
  <2>2. IsFiniteSet(A)
    BY <1>1, IdsMore
  <2>4. NumOf(A, T, E1) = 0
    <3>1. {e \in A : T[e] \in E1} = {}
      BY <1>1
    <3> QED  BY <3>1, FS_EmptySet DEF NumOf
  <2> HIDE DEF A, B, c, k, K, M, E1
  <2>5. NumOf(B, U, E1) = NumOf(A, T, E1) + 1
    BY <1>3, <2>1, <2>2, NumOfIn
  <2>3. NumOf(B, U, K) = NumOf(A, T, K) /\ NumOf(B, U, M) = NumOf(A, T, M) + 1
    <3>1. NumOf(B, U, K) = NumOf(A, T, K)
      BY <1>3, <2>1, NumOfOut
    <3>2. NumOf(B, U, M) = NumOf(A, T, M) + 1
      BY <1>3, <2>1, <2>2, NumOfIn
    <3> QED  BY <3>1, <3>2
  <2> QED  BY <1>1, <1>2, <1>4, <2>3, <2>4, <2>5 DEF K, M, E1, k
<1> HIDE DEF A, B, c, k
<1>6. U[c] = End /\ \A e \in A : U[e] = T[e]
  BY <1>0 DEF c, A
<1>7. Sapling(B, U, Q, {})
  <2>1. /\ \A p \in (A \X (0 .. 2)) \ {<<l, 2>>} : Q[p] = P[p]
        /\ Q[<<c, 0>>] = <<l, 2>> /\ Q[<<l, 2>>] = <<c, 0>>
    BY <1>0 DEF c, A
  <2>2. l \in A
    BY <1>1 DEF Sapling
  <2>3. T[l] = Add
    BY <1>0
  <2>4. Sapling(A \cup {c}, U, Q, {})
    BY ONLY <1>1, <1>2, <1>3, <1>6, <2>1, <2>2, <2>3, H = {l}, GrowEnd, SMTT(40)
  <2> QED  BY <1>3, <2>4
<1>8. \A e \in B : /\ U[e] = End => Q[<<e, 0>>][2] # 0
                   /\ U[e] = Add => \E j \in 0 .. L - 2 : E[j] = e
  <2>1. Add # End /\ Q[<<c, 0>>][2] = 2
    BY <1>0 DEF Add, End, c
  <2> QED  BY <1>1, <1>2, <1>3, <1>6, <2>1
<1>9. \A j \in 0 .. L - 2 : E[j] \in B
  BY <1>1, <1>2, <1>3
<1>10. B = Ids(b, 3 * L)
  BY <1>2 DEF B
<1> QED  BY <1>5, <1>7, <1>8, <1>9, <1>10 DEF Planted

-----------------------------------------------------------------------------
(* A tree at other addresses. *)

Sides == {0, 1, 2}

Moves(f, A, B) == /\ \A a \in A : f[a] \in B
                  /\ \A a, c \in A : f[a] = f[c] => a = c
                  /\ \A e \in B : \E a \in A : f[a] = e
                  /\ \A a, c \in A : a < c => f[a] < f[c]

Moved(f, A, T, P, U, Q) ==
  /\ \A a \in A : U[f[a]] = T[a]
  /\ \A a \in A, j \in Sides : P[<<a, j>>][1] \in A =>
       Q[<<f[a], j>>] = <<f[P[<<a, j>>][1]], P[<<a, j>>][2]>>

LEMMA PortsMoved ==
  ASSUME NEW f, NEW A, NEW B, Moves(f, A, B), NEW T, NEW P, NEW U, NEW Q, Moved(f, A, T, P, U, Q),
         NEW a \in A, NEW j \in Sides
  PROVE  /\ <<f[a], j>> \in Ins(B, U) <=> <<a, j>> \in Ins(A, T)
         /\ <<f[a], j>> \in Outs(B, U) <=> <<a, j>> \in Outs(A, T)
<1>1. f[a] \in B /\ U[f[a]] = T[a]
  BY DEF Moves, Moved
<1> DEFINE e == f[a]
<1>2. /\ <<e, 0>> \in Outs(B, U) <=> U[e] \in {Zero, Add1}
      /\ <<e, 1>> \notin Outs(B, U)
      /\ <<e, 2>> \in Outs(B, U) <=> U[e] = Add
      /\ <<e, 0>> \in Ins(B, U) <=> U[e] \in {Add, End}
      /\ <<e, 1>> \in Ins(B, U) <=> U[e] \in {Add, Add1}
      /\ <<e, 2>> \notin Ins(B, U)
  BY <1>1, OutsIns
<1>3. /\ <<a, 0>> \in Outs(A, T) <=> T[a] \in {Zero, Add1}
      /\ <<a, 1>> \notin Outs(A, T)
      /\ <<a, 2>> \in Outs(A, T) <=> T[a] = Add
      /\ <<a, 0>> \in Ins(A, T) <=> T[a] \in {Add, End}
      /\ <<a, 1>> \in Ins(A, T) <=> T[a] \in {Add, Add1}
      /\ <<a, 2>> \notin Ins(A, T)
  BY OutsIns
<1>4. CASE j = 0
  BY <1>1, <1>2, <1>3, <1>4
<1>5. CASE j = 1
  BY <1>1, <1>2, <1>3, <1>5
<1>6. CASE j = 2
  BY <1>1, <1>2, <1>3, <1>6
<1> QED  BY <1>4, <1>5, <1>6 DEF Sides

LEMMA SaplingMoved ==
  ASSUME NEW f, NEW A, NEW B, Moves(f, A, B), NEW T, NEW P, NEW U, NEW Q, Moved(f, A, T, P, U, Q),
         Sapling(A, T, P, {})
  PROVE  Sapling(B, U, Q, {})
<1>1. Open(T, {}) = {} /\ Open(U, {}) = {}
  BY DEF Open
<1>2. /\ \A a \in A : T[a] \in Type
      /\ \A p \in Ins(A, T) : P[p] \in Outs(A, T) /\ P[P[p]] = p /\ P[p][1] < p[1]
      /\ \A p \in Outs(A, T) : P[p] \in Ins(A, T) /\ P[P[p]] = p
  BY <1>1 DEF Sapling
<1>3. \A q \in Ins(B, U) \cup Outs(B, U) : \E a \in A, j \in Sides : q = <<f[a], j>>
  <2>1. \A q \in Ins(B, U) \cup Outs(B, U) :
          q[1] \in B /\ q \in {<<q[1], 0>>, <<q[1], 1>>, <<q[1], 2>>}
    BY PortsApart
  <2> QED  BY <2>1 DEF Moves, Sides
<1>4. \A p \in Ins(A, T) \cup Outs(A, T) : \E a \in A, j \in Sides : p = <<a, j>>
  <2>1. \A p \in Ins(A, T) \cup Outs(A, T) :
          p[1] \in A /\ p \in {<<p[1], 0>>, <<p[1], 1>>, <<p[1], 2>>}
    BY PortsApart
  <2> QED  BY <2>1 DEF Sides
<1>5. \A a \in A, j \in Sides : P[<<a, j>>][1] \in A =>
        Q[<<f[a], j>>] = <<f[P[<<a, j>>][1]], P[<<a, j>>][2]>>
  BY DEF Moved
<1>7. ASSUME NEW q \in Ins(B, U)
      PROVE  Q[q] \in Outs(B, U) /\ Q[Q[q]] = q /\ Q[q][1] < q[1]
  <2>1. PICK a \in A, j \in Sides : q = <<f[a], j>>
    BY <1>3, <1>7
  <2>2. <<a, j>> \in Ins(A, T)
    BY <1>7, <2>1, PortsMoved
  <2>3. P[<<a, j>>] \in Outs(A, T) /\ P[P[<<a, j>>]] = <<a, j>> /\ P[<<a, j>>][1] < a
    BY <1>2, <2>2
  <2>4. PICK c \in A, k \in Sides : P[<<a, j>>] = <<c, k>>
    BY <1>4, <2>3
  <2>5. Q[q] = <<f[c], k>> /\ Q[<<f[c], k>>] = q
    <3>1. P[<<c, k>>] = <<a, j>>
      BY <2>3, <2>4
    <3>2. P[<<a, j>>][1] = c /\ P[<<a, j>>][2] = k /\ P[<<c, k>>][1] = a /\ P[<<c, k>>][2] = j
      BY <2>4, <3>1
    <3>3. Q[<<f[a], j>>] = <<f[c], k>>
      BY <1>5, <3>2
    <3>4. Q[<<f[c], k>>] = <<f[a], j>>
      BY <1>5, <3>2
    <3> QED  BY <2>1, <3>3, <3>4
  <2>6. <<f[c], k>> \in Outs(B, U) /\ c < a
    BY <2>3, <2>4, PortsMoved
  <2>7. f[c] < f[a]
    BY <2>6 DEF Moves
  <2> QED  BY <2>1, <2>5, <2>6, <2>7
<1>8. ASSUME NEW q \in Outs(B, U)
      PROVE  Q[q] \in Ins(B, U) /\ Q[Q[q]] = q
  <2>1. PICK a \in A, j \in Sides : q = <<f[a], j>>
    BY <1>3, <1>8
  <2>2. <<a, j>> \in Outs(A, T)
    BY <1>8, <2>1, PortsMoved
  <2>3. P[<<a, j>>] \in Ins(A, T) /\ P[P[<<a, j>>]] = <<a, j>>
    BY <1>2, <2>2
  <2>4. PICK c \in A, k \in Sides : P[<<a, j>>] = <<c, k>>
    BY <1>4, <2>3
  <2>5. Q[q] = <<f[c], k>> /\ Q[<<f[c], k>>] = q
    <3>1. P[<<c, k>>] = <<a, j>>
      BY <2>3, <2>4
    <3>2. P[<<a, j>>][1] = c /\ P[<<a, j>>][2] = k /\ P[<<c, k>>][1] = a /\ P[<<c, k>>][2] = j
      BY <2>4, <3>1
    <3>3. Q[<<f[a], j>>] = <<f[c], k>>
      BY <1>5, <3>2
    <3>4. Q[<<f[c], k>>] = <<f[a], j>>
      BY <1>5, <3>2
    <3> QED  BY <2>1, <3>3, <3>4
  <2>6. <<f[c], k>> \in Ins(B, U)
    BY <2>3, <2>4, PortsMoved
  <2> QED  BY <2>5, <2>6
<1>9. \A e \in B : U[e] \in Type
  BY <1>2 DEF Moves, Moved
<1> QED  BY <1>1, <1>7, <1>8, <1>9 DEF Sapling

LEMMA NumOfMoved ==
  ASSUME NEW f, NEW A, NEW B, Moves(f, A, B), IsFiniteSet(A),
         NEW T, NEW U, \A a \in A : U[f[a]] = T[a], NEW K
  PROVE  NumOf(B, U, K) = NumOf(A, T, K)
<1> DEFINE S == {a \in A : T[a] \in K}  R == {e \in B : U[e] \in K}  g == [a \in S |-> f[a]]
<1>1. IsFiniteSet(S)
  BY FS_Subset
<1>2. /\ \A a \in S : f[a] \in R
      /\ \A a, c \in S : f[a] = f[c] => a = c
      /\ \A e \in R : \E a \in S : f[a] = e
  BY DEF Moves
<1> HIDE DEF S, R
<1>3. g \in Bijection(S, R)
  <2>1. g \in [S -> R] /\ \A a \in S : g[a] = f[a]
    BY <1>2
  <2> HIDE DEF g
  <2>2. g \in Injection(S, R)
    BY <1>2, <2>1 DEF Injection, IsInjective
  <2>3. g \in Surjection(S, R)
    BY <1>2, <2>1 DEF Surjection
  <2> QED  BY <2>2, <2>3 DEF Bijection
<1>4. ExistsBijection(S, R)
  BY <1>3 DEF ExistsBijection
<1>5. Cardinality(R) = Cardinality(S)
  BY <1>1, <1>4, FS_Bijection
<1> QED  BY <1>5 DEF NumOf, S, R

Carried(f, L, E, F) == \A j \in 0 .. L - 2 : F[j] = f[E[j]]

LEMMA PlantedMoved ==
  ASSUME NEW b \in Nat, NEW c \in Nat, NEW L \in Nat, NEW A, A = Ids(b, 3 * L),
         NEW B, B = Ids(c, 3 * L), NEW f, Moves(f, A, B),
         NEW T, NEW P, NEW E, Planted(b, T, P, E, L),
         NEW U, NEW Q, Moved(f, A, T, P, U, Q), NEW F, Carried(f, L, E, F)
  PROVE  Planted(c, U, Q, F, L)
<1>1. /\ Sapling(A, T, P, {})
      /\ NumOf(A, T, {Add, End}) = L /\ NumOf(A, T, {Add1}) = L /\ NumOf(A, T, {End}) = 1
      /\ \A a \in A : /\ T[a] = End => P[<<a, 0>>][2] # 0
                      /\ T[a] = Add => \E j \in 0 .. L - 2 : E[j] = a
      /\ \A j \in 0 .. L - 2 : E[j] \in A
  BY DEF Planted
<1>2. IsFiniteSet(A) /\ 3 * L \in Nat
  BY IdsMore
<1>3. Moves(f, A, B) /\ Moved(f, A, T, P, U, Q) /\ \A a \in A : U[f[a]] = T[a]
  BY DEF Moved
<1>4. Sapling(B, U, Q, {})
  BY <1>1, <1>3, SaplingMoved
<1>5. NumOf(B, U, {Add, End}) = L /\ NumOf(B, U, {Add1}) = L /\ NumOf(B, U, {End}) = 1
  <2> DEFINE K == {Add, End}  M == {Add1}  N == {End}
  <2> HIDE DEF K, M, N
  <2>3. NumOf(B, U, N) = NumOf(A, T, N)
    BY <1>2, <1>3, NumOfMoved
  <2>1. NumOf(B, U, K) = NumOf(A, T, K)
    BY <1>2, <1>3, NumOfMoved
  <2>2. NumOf(B, U, M) = NumOf(A, T, M)
    BY <1>2, <1>3, NumOfMoved
  <2> QED  BY <1>1, <2>1, <2>2, <2>3 DEF K, M, N
<1>6. ASSUME NEW e \in B
      PROVE  /\ U[e] = End => Q[<<e, 0>>][2] # 0
             /\ U[e] = Add => \E j \in 0 .. L - 2 : F[j] = e
  <2>1. PICK a \in A : f[a] = e
    BY <1>3 DEF Moves
  <2>2. U[e] = T[a]
    BY <1>3, <2>1
  <2>3. ASSUME U[e] = End  PROVE Q[<<e, 0>>][2] # 0
    <3>1. <<a, 0>> \in Ins(A, T)
      BY <2>2, <2>3, OutsIns
    <3>2. P[<<a, 0>>] \in Outs(A, T)
      BY <1>1, <3>1 DEF Sapling
    <3>3. P[<<a, 0>>][1] \in A
      BY <3>2, PortsApart
    <3>4. Q[<<f[a], 0>>] = <<f[P[<<a, 0>>][1]], P[<<a, 0>>][2]>>
      <4>1. 0 \in Sides
        BY DEF Sides
      <4> QED  BY <1>3, <3>3, <4>1 DEF Moved
    <3>5. P[<<a, 0>>][2] # 0
      BY <1>1, <2>2, <2>3
    <3> QED  BY <2>1, <3>4, <3>5
  <2>4. ASSUME U[e] = Add  PROVE \E j \in 0 .. L - 2 : F[j] = e
    <3>1. PICK j \in 0 .. L - 2 : E[j] = a
      BY <1>1, <2>2, <2>4
    <3> QED  BY <2>1, <3>1 DEF Carried
  <2> QED  BY <2>3, <2>4
<1>7. \A j \in 0 .. L - 2 : F[j] \in B
  BY <1>1, <1>3 DEF Moves, Carried
<1> QED  BY <1>4, <1>5, <1>6, <1>7 DEF Planted

(* What was made later ranks lower. *)
LEMMA LaterIsLower == \E r \in [Agent -> Nat] : \A a, c \in Agent : a < c => r[c] < r[a]
<1> DEFINE N == AGENTS + NAGENTS  r == [a \in Agent |-> N - a]
<1>1. N \in Nat /\ \A a \in Agent : a \in Nat /\ N - a \in Nat
  BY HeapAssumption DEF Agent
<1> HIDE DEF N
<1>2. r \in [Agent -> Nat] /\ \A a \in Agent : r[a] = N - a
  BY <1>1
<1> HIDE DEF r
<1>3. \A a, c \in Agent : a < c => r[c] < r[a]
  <2> SUFFICES ASSUME NEW a \in Agent, NEW c \in Agent, a < c PROVE r[c] < r[a]
    OBVIOUS
  <2>1. a \in Nat /\ c \in Nat /\ N - c < N - a
    BY <1>1
  <2> QED  BY <1>2, <2>1
<1> QED  BY <1>2, <1>3

(* A planted tree is a net, with an add1 for each leaf and one end.          *)
LEMMA PlantedFlows ==
  ASSUME NEW T \in [Agent -> 0 .. 4], NEW P \in [Port -> PortValue], NEW E, NEW L \in Nat \ {0},
         3 * L <= NAGENTS, \A a \in Agent : a >= AGENTS + 3 * L => T[a] = 0,
         Planted(AGENTS, T, P, E, L)
  PROVE  /\ \E r : Flow(T, P, {}, r)
         /\ Takers(T) = L /\ Add1s(T) = L /\ Agents(T) = 3 * L
         /\ Cardinality({a \in Agent : T[a] = End}) = 1
<1> DEFINE A == Ids(AGENTS, 3 * L)
<1>1. A \in SUBSET Agent /\ IsFiniteSet(A) /\ Cardinality(A) = 3 * L
  <2>1. AGENTS \in Int /\ AGENTS + 3 * L - 1 \in Int /\ 3 * L \in Nat /\ L > 0
    BY HeapAssumption
  <2>2. IsFiniteSet(A) /\ Cardinality(A) = 3 * L
    <3> DEFINE a == AGENTS  b == AGENTS + 3 * L - 1
    <3>1. a \in Int /\ b \in Int /\ ~(a > b) /\ b - a + 1 = 3 * L
      BY <2>1, HeapAssumption
    <3>2. A = a .. b
      BY DEF Ids
    <3> HIDE DEF a, b, A
    <3>3. IsFiniteSet(a .. b) /\ Cardinality(a .. b) = IF a > b THEN 0 ELSE b - a + 1
      BY <3>1, FS_Interval
    <3> QED  BY <3>1, <3>2, <3>3
  <2>3. A \subseteq Agent
    BY HeapAssumption DEF Agent, Ids
  <2> QED  BY <2>2, <2>3
<1>2. \A a \in Agent : a \notin A => T[a] = 0
  <2>1. \A a \in Agent : a \in Nat /\ a >= AGENTS
    BY HeapAssumption DEF Agent
  <2>2. \A a \in Agent : a \notin A => a >= AGENTS + 3 * L
    BY <2>1, HeapAssumption DEF Ids
  <2> QED  BY <2>2
<1>4. /\ \A p \in Ins(A, T) : P[p] \in Outs(A, T) /\ P[P[p]] = p /\ P[p][1] < p[1]
      /\ \A p \in Outs(A, T) : P[p] \in Ins(A, T) /\ P[P[p]] = p
  <2>1. Open(T, {}) = {}
    BY DEF Open
  <2> QED  BY <2>1 DEF Planted, Sapling
<1>5. /\ NumOf(A, T, {Add, End}) = L /\ NumOf(A, T, {Add1}) = L
      /\ NumOf(A, T, {End}) = 1
      /\ \A a \in A : /\ T[a] = End => P[<<a, 0>>][2] # 0
                      /\ T[a] = Add => \E j \in 0 .. L - 2 : E[j] = a
      /\ \A a \in A : T[a] \in Type
  BY DEF Planted, Sapling
<1> HIDE DEF A
<1>6. In(T) = Ins(A, T) /\ Out(T) = Outs(A, T)
  <2>1. A \X (0 .. 2) \subseteq Port
    BY <1>1 DEF Port
  <2>2. \A p \in Port : T[p[1]] # 0 => p \in A \X (0 .. 2)
    <3>1. \A p \in Port : p[1] \in Agent /\ p[2] \in 0 .. 2 /\ p = <<p[1], p[2]>>
      BY DEF Port
    <3> QED  BY <1>2, <3>1
  <2>3. In(T) \subseteq Port /\ Out(T) \subseteq Port
        /\ \A p \in In(T) \cup Out(T) : T[p[1]] # 0
    BY DEF In, Out, Zero, Add1, Add, End
  <2>4. Ins(A, T) \subseteq In(T) /\ Outs(A, T) \subseteq Out(T)
    BY <2>1 DEF In, Out, Ins, Outs
  <2>5. In(T) \subseteq Ins(A, T) /\ Out(T) \subseteq Outs(A, T)
    BY <2>2, <2>3 DEF In, Out, Ins, Outs
  <2> QED  BY <2>4, <2>5
<1>7. Wired(T, P, {})
  BY <1>4, <1>6 DEF Wired
<1>8. PICK r \in [Agent -> Nat] : \A a, c \in Agent : a < c => r[c] < r[a]
  BY LaterIsLower
<1>9. Flow(T, P, {}, r)
  <2>1. \A p \in In(T) : p[1] \in Agent /\ P[p][1] \in Agent /\ P[p][1] < p[1]
    <3>1. In(T) \subseteq Port /\ Out(T) \subseteq Port
      BY InOutDisjoint
    <3> QED  BY <1>4, <1>6, <3>1, PortFacts
  <2>2. Downhill(T, P, {}, r)
    BY <1>8, <2>1 DEF Downhill
  <2> QED  BY <1>7, <1>8, <2>2 DEF Flow
<1>10. Takers(T) = L /\ Add1s(T) = L /\ Agents(T) = 3 * L
  <2>1. {a \in Agent : T[a] \in {Add, End}} = {a \in A : T[a] \in {Add, End}}
    BY <1>1, <1>2 DEF Add, End
  <2>2. {a \in Agent : T[a] = Add1} = {a \in A : T[a] \in {Add1}}
    BY <1>1, <1>2 DEF Add1
  <2>3. {a \in Agent : T[a] # 0} = A
    BY <1>1, <1>2, <1>5 DEF Type
  <2> QED  BY <1>1, <1>5, <2>1, <2>2, <2>3 DEF Takers, Add1s, Agents, NumOf
<1>11. Cardinality({a \in Agent : T[a] = End}) = 1
  <2>1. {a \in Agent : T[a] = End} = {a \in A : T[a] \in {End}}
    BY <1>1, <1>2 DEF End
  <2> QED  BY <1>5, <2>1 DEF NumOf
<1> QED  BY <1>9, <1>10, <1>11
=============================================================================
