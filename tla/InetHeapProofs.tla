--------------------------- MODULE InetHeapProofs ---------------------------
(* What the subroutines and rules of InetHeap keep of a heap, and what       *)
(* newag, connect and freeag do to the net in it, for every size of the pool *)
(* and of the ring.                                                          *)
EXTENDS InetHeap, FiniteSetTheorems, WellFoundedInduction, TLAPS

(* Ports and the value 0 are port values. *)
LEMMA PortValues == Port \subseteq PortValue /\ None \in PortValue
BY DEF Port, PortValue, None

(* A heap between two calls: of its type, its free list sound, its ring's   *)
(* head not past its tail.                                                  *)
SoundHeap(h) == h \in Heap /\ FreeListSound(h) /\ h.head <= h.tail

(* The loop that threads the agent area leaves one sound list, whatever the *)
(* area held before.                                                        *)
LEMMA ResetSound ==
  ASSUME NEW h \in Heap
  PROVE  SoundHeap(Reset(h))
<1> DEFINE g == Reset(h)
           links == [a \in Agent |-> IF a + 1 \in Agent THEN a + 1 ELSE 0]
<1>1. AGENTS \in Agent /\ \A a \in Agent : a \in Nat /\ a > 4
  BY HeapAssumption DEF Agent
<1>2. links \in [Agent -> Nat]
  BY <1>1
<1>3. /\ g.word = links /\ g.free = AGENTS /\ g.head = 0 /\ g.tail = 0
      /\ g \in Heap
  <2>1. 0 \in 0 .. 3 /\ 0 \in Nat
    OBVIOUS
  <2>2. g = [h EXCEPT !.word = links, !.free = AGENTS,
                      !.head = 0, !.tail = 0, !.count = 0, !.err = 0]
    BY DEF Reset
  <2> HIDE DEF links, g
  <2> QED  BY <1>1, <1>2, <2>1, <2>2 DEF Heap
<1>4. \A a \in Agent : g.word[a] = IF a + 1 \in Agent THEN a + 1 ELSE 0
  BY <1>3
<1> HIDE DEF g, links
<1>5. FreeAgents(g) = Agent
  BY <1>1, <1>4 DEF FreeAgents, LiveAgents, Live, Type
<1>6. \A a \in Agent : g.word[a] \in Agent \cup {0} /\ g.word[a] # AGENTS
  BY <1>1, <1>4, HeapAssumption DEF Agent
<1>7. \A a, b \in Agent : g.word[a] = g.word[b] => a = b
  BY <1>1, <1>4, HeapAssumption DEF Agent
<1>8. FreeListSound(g)
  BY <1>1, <1>3, <1>5, <1>6, <1>7 DEF FreeListSound
<1>9. g.head <= g.tail
  BY <1>3
<1> QED  BY <1>3, <1>8, <1>9 DEF SoundHeap, g

(* The memory a load leaves is a heap.                                      *)
LEMMA ZeroHeapTyped == ZeroHeap \in Heap
<1>1. 0 \in 0 .. 3 /\ 0 \in Nat
  OBVIOUS
<1> QED  BY <1>1, PortValues DEF ZeroHeap, Heap

(* newag from a non-empty list hands out a block that was free and keeps    *)
(* every live agent.                                                        *)
LEMMA NewAgSound ==
  ASSUME NEW h, SoundHeap(h), h.free # 0, NEW t \in Type
  PROVE  /\ SoundHeap(NewAg(h, t))
         /\ h.free \in Agent /\ ~Live(h, h.free) /\ Live(NewAg(h, t), h.free)
         /\ \A a \in Agent : a # h.free => NewAg(h, t).word[a] = h.word[a]
         /\ NewAg(h, t).head = h.head /\ NewAg(h, t).tail = h.tail
<1> DEFINE g == NewAg(h, t)
<1>1. h \in Heap /\ h.free \in FreeAgents(h) /\ h.free \in Agent /\ ~Live(h, h.free)
  BY HeapAssumption DEF SoundHeap, FreeListSound, FreeAgents, LiveAgents
<1>2. h.word[h.free] \in Agent \cup {0} /\ h.word[h.free] \in Nat
  BY <1>1 DEF SoundHeap, FreeListSound, FreeAgents, Heap
<1>3. /\ g.word = [h.word EXCEPT ![h.free] = t] /\ g.free = h.word[h.free]
      /\ g.head = h.head /\ g.tail = h.tail
  BY <1>1 DEF NewAg, Heap
<1>4. g \in Heap
  <2>1. t \in Nat
    BY DEF Type
  <2>2. g = [[h EXCEPT !.free = h.word[h.free]] EXCEPT !.word = [h.word EXCEPT ![h.free] = t]]
    BY <1>1 DEF NewAg, Heap
  <2>3. [h.word EXCEPT ![h.free] = t] \in [Agent -> Nat]
    BY <1>1, <2>1 DEF Heap
  <2> QED  BY <1>1, <1>2, <2>2, <2>3 DEF Heap
<1>5. Live(g, h.free) /\ \A a \in Agent : a # h.free => g.word[a] = h.word[a]
  BY <1>1, <1>3 DEF Live, Heap
<1>6. FreeAgents(g) = FreeAgents(h) \ {h.free}
  BY <1>1, <1>5 DEF FreeAgents, LiveAgents, Live
<1>7. FreeListSound(g)
  BY <1>1, <1>3, <1>5, <1>6 DEF SoundHeap, FreeListSound, FreeAgents
<1> QED  BY <1>1, <1>3, <1>4, <1>5, <1>7 DEF SoundHeap

(* freeag of a live agent puts exactly that block back.                     *)
LEMMA FreeAgSound ==
  ASSUME NEW h, SoundHeap(h), NEW a, Live(h, a)
  PROVE  /\ SoundHeap(FreeAg(h, a))
         /\ \A b \in Agent : b # a => FreeAg(h, a).word[b] = h.word[b]
<1> DEFINE g == FreeAg(h, a)
<1>1. h \in Heap /\ a \in Agent /\ h.free \in Agent \cup {0}
  BY DEF SoundHeap, Live, Heap
<1>2. /\ g.word = [h.word EXCEPT ![a] = h.free] /\ g.free = a
      /\ g.head = h.head /\ g.tail = h.tail
  BY <1>1 DEF FreeAg, Heap
<1>3. h.free \in Nat /\ h.free \notin Type
  BY <1>1, HeapAssumption DEF Agent, Type
<1>4. g \in Heap
  BY <1>1, <1>3 DEF FreeAg, Heap
<1>5. g.word[a] = h.free /\ \A b \in Agent : b # a => g.word[b] = h.word[b]
  BY <1>1, <1>2 DEF Heap
<1>6. FreeAgents(g) = FreeAgents(h) \cup {a} /\ a \notin FreeAgents(h)
  BY <1>1, <1>3, <1>5 DEF FreeAgents, LiveAgents, Live
<1>7. a # 0
  BY <1>1, HeapAssumption DEF Agent
<1>8. FreeListSound(g)
  <2>1. \A f \in FreeAgents(h) : f \in Agent /\ f # a /\ g.word[f] = h.word[f]
    BY <1>5, <1>6 DEF FreeAgents
  <2> QED  BY <2>1, <1>2, <1>5, <1>6, <1>7 DEF SoundHeap, FreeListSound
<1> QED  BY <1>2, <1>4, <1>5, <1>8 DEF SoundHeap

(* Steps that leave the type words and FREE alone leave the list alone.     *)
LEMMA SameList ==
  ASSUME NEW h, NEW g, SoundHeap(h), g \in Heap, g.head <= g.tail,
         g.word = h.word, g.free = h.free
  PROVE  SoundHeap(g)
BY DEF SoundHeap, FreeListSound, FreeAgents, LiveAgents, Live

(* connect writes port cells and touches neither words nor the list.        *)
LEMMA ConnectSound ==
  ASSUME NEW h, SoundHeap(h), NEW v, NEW w,
         v \in PortValue, w \in PortValue
  PROVE  SoundHeap(Connect(h, v, w)) /\ Connect(h, v, w).word = h.word
<1>1. Connect(h, v, w) \in Heap
  BY DEF Connect, SoundHeap, Heap
<1>2. LET g == Connect(h, v, w) IN
        g.word = h.word /\ g.free = h.free /\ g.head = h.head /\ g.tail = h.tail
  BY DEF Connect, SoundHeap, Heap
<1> QED  BY <1>1, <1>2, SameList DEF SoundHeap

(* enq takes an agent or the address 0 and touches neither words nor list,  *)
(* also when it overwrites an unread entry of a full ring.                  *)
LEMMA EnqSound ==
  ASSUME NEW h, SoundHeap(h), NEW a \in Agent \cup {0}
  PROVE  SoundHeap(Enq(h, a)) /\ Enq(h, a).word = h.word /\ Enq(h, a).free = h.free
<1> DEFINE g == Enq(h, a)
<1>1. h \in Heap /\ h.tail - h.head \in Nat /\ h.peak \in Nat
  BY DEF SoundHeap, Heap
<1>2. /\ g.word = h.word /\ g.free = h.free /\ g.head = h.head
      /\ g.tail = h.tail + 1
  BY <1>1 DEF Enq, Heap
<1>3. g \in Heap
  <2> DEFINE len == h.tail - h.head
             pk  == IF len < h.peak THEN h.peak ELSE len
             ce  == [h.cell EXCEPT ![h.tail % QSIZE] = a]
  <2>1. pk \in Nat /\ h.tail + 1 \in Nat
    BY <1>1 DEF Heap
  <2>2. ce \in [0 .. QSIZE - 1 -> Agent \cup {0}]
    BY <1>1 DEF Heap
  <2>3. g = [h EXCEPT !.peak = pk, !.cell = ce, !.tail = h.tail + 1]
    BY <1>1 DEF Enq, Heap
  <2> HIDE DEF pk, ce, g
  <2> QED  BY <1>1, <2>1, <2>2, <2>3 DEF Heap
<1>4. g.head <= g.tail
  <2>1. h.tail \in Nat /\ h.head \in Nat /\ h.head <= h.tail
    BY DEF SoundHeap, Heap
  <2> HIDE DEF g
  <2> QED  BY <1>2, <2>1
<1> HIDE DEF g
<1>5. SoundHeap(g)
  BY <1>2, <1>3, <1>4, SameList
<1> QED  BY <1>2, <1>5 DEF g

(* The same for enq behind the test for a principal port.                   *)
LEMMA EnqPrincipalSound ==
  ASSUME NEW h, SoundHeap(h), NEW p \in PortValue
  PROVE  /\ SoundHeap(EnqPrincipal(h, p))
         /\ EnqPrincipal(h, p).word = h.word /\ EnqPrincipal(h, p).free = h.free
<1>1. p[1] \in Agent \cup {0}
  BY DEF Port, PortValue
<1> QED  BY <1>1, EnqSound DEF EnqPrincipal

(* A rule's agent keeps its type word while the subroutines it calls run.   *)
LEMMA LiveByWord ==
  ASSUME NEW h, NEW g, NEW a, Live(h, a), g.word[a] = h.word[a]
  PROVE  Live(g, a)
BY DEF Live

(* The two freeag calls that end a rule: two different live agents become   *)
(* free and the list stays sound.                                           *)
LEMMA FreeTwoSound ==
  ASSUME NEW h, SoundHeap(h), NEW a, NEW b, Live(h, a), Live(h, b), a # b
  PROVE  SoundHeap(FreeAg(FreeAg(h, a), b))
<1>1. SoundHeap(FreeAg(h, a)) /\ FreeAg(h, a).word[b] = h.word[b]
  BY FreeAgSound DEF Live
<1> QED  BY <1>1, FreeAgSound, LiveByWord

(* What a rule reads from a port of one of its two agents is a port or 0.   *)
LEMMA PortOf ==
  ASSUME NEW h, SoundHeap(h), NEW a, Live(h, a)
  PROVE  \A i \in {0, 1, 2} :
           <<a, i>> \in Port /\ h.port[<<a, i>>] \in PortValue
BY DEF Port, SoundHeap, Heap, Live

(* Storing ERR touches nothing else. *)
LEMMA SetErrSound ==
  ASSUME NEW h, SoundHeap(h), NEW e \in 0 .. 3
  PROVE  SoundHeap([h EXCEPT !.err = e])
<1> DEFINE g == [h EXCEPT !.err = e]
<1>1. /\ g \in Heap /\ g.word = h.word /\ g.free = h.free
      /\ g.head = h.head /\ g.tail = h.tail
  BY DEF SoundHeap, Heap
<1> QED  BY <1>1, SameList DEF SoundHeap

(* Storing COUNT touches nothing else. *)
LEMMA SetCountSound ==
  ASSUME NEW h, SoundHeap(h), NEW n \in Nat
  PROVE  /\ SoundHeap([h EXCEPT !.count = n])
         /\ [h EXCEPT !.count = n].word = h.word
<1> DEFINE g == [h EXCEPT !.count = n]
<1>1. /\ g \in Heap /\ g.word = h.word /\ g.free = h.free
      /\ g.head = h.head /\ g.tail = h.tail
  BY DEF SoundHeap, Heap
<1> QED  BY <1>1, SameList DEF SoundHeap

(* The error codes newag and the driver store.                              *)
LEMMA ErrCodes == 2 \in 0 .. 3 /\ 3 \in 0 .. 3
OBVIOUS

(* rule_add_zero on two different live agents keeps the heap sound.         *)
LEMMA RuleAddZeroSound ==
  ASSUME NEW h, SoundHeap(h), NEW a, NEW b, Live(h, a), Live(h, b), a # b
  PROVE  SoundHeap(RuleAddZero(h, a, b))
<1> DEFINE x  == h.port[<<a, 1>>]
           y  == h.port[<<a, 2>>]
           hq == IF y[2] = 0 THEN EnqPrincipal(h, x) ELSE h
<1>1. x \in PortValue /\ y \in PortValue
  BY PortOf
<1>2. RuleAddZero(h, a, b) = FreeAg(FreeAg(Connect(hq, x, y), a), b)
  BY DEF RuleAddZero
<1> HIDE DEF x, y
<1>3. SoundHeap(hq) /\ hq.word = h.word
  BY <1>1, EnqPrincipalSound
<1> HIDE DEF hq
<1>4. SoundHeap(Connect(hq, x, y)) /\ Connect(hq, x, y).word = h.word
  BY <1>1, <1>3, ConnectSound
<1> QED  BY <1>2, <1>4, FreeTwoSound, LiveByWord

(* rule_end_zero on two different live agents keeps the heap sound.         *)
LEMMA RuleEndZeroSound ==
  ASSUME NEW h, SoundHeap(h), NEW a, NEW b, Live(h, a), Live(h, b), a # b
  PROVE  SoundHeap(RuleEndZero(h, a, b))
BY FreeTwoSound DEF RuleEndZero

(* rule_end_add1 on two different live agents keeps the heap sound.         *)
LEMMA RuleEndAdd1Sound ==
  ASSUME NEW h, SoundHeap(h), NEW a, NEW b, Live(h, a), Live(h, b), a # b
  PROVE  SoundHeap(RuleEndAdd1(h, a, b))
<1> DEFINE z  == h.port[<<b, 1>>]
           hc == [h EXCEPT !.count = @ + 1]
           hq == EnqPrincipal(hc, z)
           hw == [hq EXCEPT !.port[z] = <<a, 0>>, !.port[<<a, 0>>] = z]
<1>1. z \in PortValue /\ <<a, 0>> \in Port
  BY PortOf
<1>2. RuleEndAdd1(h, a, b) = FreeAg(hw, b)
  BY DEF RuleEndAdd1
<1> HIDE DEF z
<1>3. h.count + 1 \in Nat
  BY DEF SoundHeap, Heap
<1>4. SoundHeap(hc) /\ hc.word = h.word
  BY <1>3, SetCountSound
<1> HIDE DEF hc
<1>5. SoundHeap(hq) /\ hq.word = h.word
  BY <1>1, <1>4, EnqPrincipalSound
<1> HIDE DEF hq
<1>6. /\ hw \in Heap /\ hw.word = hq.word /\ hw.free = hq.free
      /\ hw.head = hq.head /\ hw.tail = hq.tail
  BY <1>1, <1>5, PortValues DEF SoundHeap, Heap
<1> HIDE DEF hw
<1>7. SoundHeap(hw)
  BY <1>5, <1>6, SameList DEF SoundHeap
<1> QED  BY <1>2, <1>5, <1>6, <1>7, FreeAgSound, LiveByWord

(* The rule that allocates before it frees: its two new blocks are neither  *)
(* of its own agents, and if one of them is missing it stops with the list  *)
(* still sound.                                                             *)
LEMMA RuleAddAdd1Sound ==
  ASSUME NEW h, SoundHeap(h), NEW a, NEW b, Live(h, a), Live(h, b), a # b
  PROVE  SoundHeap(RuleAddAdd1(h, a, b))
<1> DEFINE z  == h.port[<<b, 1>>]
           x  == h.port[<<a, 1>>]
           y  == h.port[<<a, 2>>]
           c  == h.free
           h1 == NewAg(h, Add1)
           d  == h1.free
           hn == NewAg(h1, Add)
           h2 == [hn EXCEPT
               !.port[y] = <<c, 0>>, !.port[<<c, 0>>] = y,
               !.port[z] = <<d, 0>>, !.port[<<d, 0>>] = z,
               !.port[x] = <<d, 1>>, !.port[<<d, 1>>] = x,
               !.port[<<d, 2>>] = <<c, 1>>, !.port[<<c, 1>>] = <<d, 2>>]
           hy == EnqPrincipal(h2, y)
           hz == EnqPrincipal(hy, z)
<1>1. x \in PortValue /\ y \in PortValue /\ z \in PortValue
  BY PortOf
<1>2. RuleAddAdd1(h, a, b) = IF c = 0 THEN Oom(h) ELSE IF d = 0 THEN Oom(h1)
                             ELSE FreeAg(FreeAg(hz, a), b)
  BY DEF RuleAddAdd1
<1> HIDE DEF x, y, z
<1>3. ASSUME NEW g, SoundHeap(g)  PROVE SoundHeap(Oom(g))
  BY <1>3, SetErrSound, ErrCodes, Zenon DEF Oom
<1>4. CASE c = 0
  BY <1>2, <1>3, <1>4
<1>5. ASSUME c # 0
      PROVE  /\ SoundHeap(h1) /\ Live(h1, a) /\ Live(h1, b) /\ c \in Agent
  BY <1>5, NewAgSound, LiveByWord DEF Live, Type, Add1
<1>6. CASE c # 0 /\ d = 0
  BY <1>2, <1>3, <1>5, <1>6
<1>7. CASE c # 0 /\ d # 0
  <2>1. /\ SoundHeap(hn) /\ Live(hn, a) /\ Live(hn, b) /\ d \in Agent /\ c \in Agent
    BY <1>5, <1>7, NewAgSound, LiveByWord DEF Live, Type, Add
  <2> HIDE DEF hn, d, c
  <2>2. \A i \in 0 .. 2 : <<c, i>> \in Port /\ <<d, i>> \in Port
    BY <2>1 DEF Port
  <2>3. /\ h2 \in Heap /\ h2.word = hn.word /\ h2.free = hn.free
        /\ h2.head = hn.head /\ h2.tail = hn.tail
    <3> DEFINE pp == [hn.port EXCEPT
                        ![y] = <<c, 0>>, ![<<c, 0>>] = y,
                        ![z] = <<d, 0>>, ![<<d, 0>>] = z,
                        ![x] = <<d, 1>>, ![<<d, 1>>] = x,
                        ![<<d, 2>>] = <<c, 1>>, ![<<c, 1>>] = <<d, 2>>]
    <3>1. hn \in Heap /\ hn.port \in [Port -> PortValue]
      BY <2>1 DEF SoundHeap, Heap
    <3>2. pp \in [Port -> PortValue]
      BY <1>1, <2>2, <3>1, PortValues
    <3>3. h2 = [hn EXCEPT !.port = pp]
      BY <3>1 DEF Heap
    <3> HIDE DEF pp, h2
    <3> QED  BY <3>1, <3>2, <3>3 DEF Heap
  <2> HIDE DEF h2
  <2>4. SoundHeap(h2)
    BY <2>1, <2>3, SameList DEF SoundHeap
  <2>5. SoundHeap(hy) /\ hy.word = hn.word
    BY <1>1, <2>3, <2>4, EnqPrincipalSound
  <2> HIDE DEF hy
  <2>6. SoundHeap(hz) /\ hz.word = hn.word
    BY <1>1, <2>5, EnqPrincipalSound
  <2> HIDE DEF hz
  <2>7. Live(hz, a) /\ Live(hz, b)
    BY <2>1, <2>6, LiveByWord
  <2> QED  BY <1>2, <1>7, <2>6, <2>7, FreeTwoSound
<1> QED  BY <1>4, <1>6, <1>7

(* One turn of the driver, whatever is in the ring and however the net is   *)
(* wired.                                                                   *)
LEMMA TurnSound ==
  ASSUME NEW h, SoundHeap(h), h.head # h.tail
  PROVE  SoundHeap(Turn(h))
<1> DEFINE a  == Front(h)
           b  == Partner(h, a)
           h1 == [h EXCEPT !.head = @ + 1]
<1>0. h.head # h.tail
  OBVIOUS
<1>1. /\ h1 \in Heap /\ h1.word = h.word /\ h1.free = h.free /\ h1.head <= h1.tail
  <2>1. /\ h \in Heap /\ h.head \in Nat /\ h.tail \in Nat /\ h.head <= h.tail
        /\ h.head + 1 \in Nat
    BY DEF SoundHeap, Heap
  <2>2. h1 = [h EXCEPT !.head = h.head + 1]
    BY <2>1 DEF Heap
  <2> HIDE DEF h1
  <2>3. /\ h1 \in Heap /\ h1.word = h.word /\ h1.free = h.free
        /\ h1.head = h.head + 1 /\ h1.tail = h.tail
    BY <2>1, <2>2 DEF Heap
  <2> QED  BY <2>1, <2>3, <1>0
<1>2. SoundHeap(h1)
  BY <1>1, SameList
<1>3. Turn(h) = IF ActiveEntry(h, a) THEN Fire(h1, a, b) ELSE h1
  BY DEF Turn
<1> HIDE DEF h1, a, b
<1>4. CASE ~ActiveEntry(h, a)
  BY <1>2, <1>3, <1>4
<1>5. CASE ActiveEntry(h, a)
  <2>1. Live(h1, a) /\ Live(h1, b)
    BY <1>1, <1>5 DEF ActiveEntry, Live, b
  <2>2. SoundHeap([h1 EXCEPT !.err = 3])
    BY <1>2, SetErrSound, ErrCodes, Zenon
  <2>3. CASE a = b
    <3>1. Fire(h1, a, b) = [h1 EXCEPT !.err = 3]
      BY <2>3 DEF Fire, Zero, Add1, Add, End
    <3> QED  BY <1>3, <1>5, <2>2, <3>1
  <2>4. CASE a # b
    <3>1. SoundHeap(Fire(h1, a, b))
      BY <1>2, <2>1, <2>2, <2>4, RuleAddZeroSound, RuleAddAdd1Sound,
         RuleEndAdd1Sound, RuleEndZeroSound DEF Fire
    <3> QED  BY <1>3, <1>5, <3>1
  <2> QED  BY <2>3, <2>4
<1> QED  BY <1>4, <1>5
-----------------------------------------------------------------------------
(* The net is given by its agents' types T and the port cells P. An open    *)
(* port is one that is not joined yet, or whose agent is about to be freed. *)

(* A value leaves its agent by one port and enters by the others; zero and  *)
(* add1 give theirs by the principal port, add and end take it there.       *)
Out(T) == {p \in Port : \/ T[p[1]] \in {Zero, Add1} /\ p[2] = 0
                        \/ T[p[1]] = Add /\ p[2] = 2}
In(T)  == {p \in Port : \/ T[p[1]] = Add1 /\ p[2] = 1
                        \/ T[p[1]] = Add /\ p[2] \in {0, 1}
                        \/ T[p[1]] = End /\ p[2] = 0}

(* Every wire joins one agent's way out to another's way in.                *)
Wired(T, P, O) == /\ T \in [Agent -> 0 .. 4] /\ P \in [Port -> PortValue]
                  /\ O \subseteq Out(T) \cup In(T)
                  /\ \A p \in In(T) \ O : P[p] \in Out(T) \ O /\ P[P[p]] = p
                  /\ \A p \in Out(T) \ O : P[p] \in In(T) \ O /\ P[P[p]] = p

(* There is no circle: values flow from higher ranks to lower ones.         *)
Downhill(T, P, O, r) == \A p \in In(T) \ O : r[p[1]] < r[P[p][1]]

Flow(T, P, O, r) == Wired(T, P, O) /\ r \in [Agent -> Nat] /\ Downhill(T, P, O, r)

PortsOf(a) == {p \in Port : p[1] = a}
Joined(P, v, w) == [P EXCEPT ![v] = w, ![w] = v]

-----------------------------------------------------------------------------
(* Which ports of an agent a net uses. *)
LEMMA PortFacts ==
  /\ \A p \in Port : p = <<p[1], p[2]>> /\ p[1] \in Agent /\ p[2] \in {0, 1, 2}
  /\ \A a \in Agent : <<a, 0>> \in Port /\ <<a, 1>> \in Port /\ <<a, 2>> \in Port
BY DEF Port

LEMMA UsedPortFacts ==
  ASSUME NEW T, NEW a \in Agent
  PROVE  /\ T[a] = Zero => <<a, 0>> \in Out(T) /\ PortsOf(a) \cap (Out(T) \cup In(T)) = {<<a, 0>>}
         /\ T[a] = Add1 => /\ <<a, 0>> \in Out(T) /\ <<a, 1>> \in In(T)
                           /\ PortsOf(a) \cap (Out(T) \cup In(T)) = {<<a, 0>>, <<a, 1>>}
         /\ T[a] = Add => /\ <<a, 0>> \in In(T) /\ <<a, 1>> \in In(T) /\ <<a, 2>> \in Out(T)
                          /\ PortsOf(a) \cap (Out(T) \cup In(T)) = {<<a, 0>>, <<a, 1>>, <<a, 2>>}
         /\ T[a] = End => <<a, 0>> \in In(T) /\ PortsOf(a) \cap (Out(T) \cup In(T)) = {<<a, 0>>}
<1> DEFINE p0 == <<a, 0>>  p1 == <<a, 1>>  p2 == <<a, 2>>
<1>1. /\ p0 \in Port /\ p0[1] = a /\ p0[2] = 0 /\ p1 \in Port /\ p1[1] = a /\ p1[2] = 1
      /\ p2 \in Port /\ p2[1] = a /\ p2[2] = 2
  BY DEF Port
<1>2. PortsOf(a) = {p0, p1, p2}
  BY <1>1, PortFacts DEF PortsOf
<1> HIDE DEF p0, p1, p2
<1>3. /\ p0 \in Out(T) <=> T[a] \in {Zero, Add1}
      /\ p1 \notin Out(T)
      /\ p2 \in Out(T) <=> T[a] = Add
      /\ p0 \in In(T) <=> T[a] \in {Add, End}
      /\ p1 \in In(T) <=> T[a] \in {Add1, Add}
      /\ p2 \notin In(T)
  BY <1>1 DEF Out, In
<1> QED  BY <1>2, <1>3 DEF p0, p1, p2, Zero, Add1, Add, End

(* No port is both. *)
LEMMA InOutDisjoint == \A T : Out(T) \cap In(T) = {} /\ Out(T) \subseteq Port /\ In(T) \subseteq Port
BY DEF Out, In, Zero, Add1, Add, End

(* A wire of the net is opened at both ends. *)
LEMMA CutKeeps ==
  ASSUME NEW T, NEW P, NEW O, NEW r, Flow(T, P, O, r), NEW p \in (Out(T) \cup In(T)) \ O
  PROVE  /\ Flow(T, P, O \cup {p, P[p]}, r) /\ P[P[p]] = p /\ P[p] \notin O
         /\ p \in Out(T) => P[p] \in In(T) /\ r[P[p][1]] < r[p[1]]
         /\ p \in In(T) => P[p] \in Out(T) /\ r[p[1]] < r[P[p][1]]
BY InOutDisjoint DEF Flow, Wired, Downhill

(* connect joins an open way out to an open way in of lower rank. *)
LEMMA JoinKeeps ==
  ASSUME NEW T, NEW P, NEW O, NEW r, Flow(T, P, O, r),
         NEW q \in Out(T) \cap O, NEW p \in In(T) \cap O, r[p[1]] < r[q[1]]
  PROVE  /\ Flow(T, Joined(P, q, p), O \ {p, q}, r)
         /\ Joined(P, p, q) = Joined(P, q, p)
         /\ Joined(P, q, p)[q] = p /\ Joined(P, q, p)[p] = q
         /\ \A v \in Port \ {p, q} : Joined(P, q, p)[v] = P[v]
<1> DEFINE R == Joined(P, q, p)
<1>1. p # q /\ p \in Port /\ q \in Port
  BY InOutDisjoint
<1>2. /\ R \in [Port -> PortValue] /\ R[q] = p /\ R[p] = q
      /\ \A v \in Port \ {p, q} : R[v] = P[v]
      /\ Joined(P, p, q) = R
  BY <1>1, PortValues DEF Joined, Flow, Wired
<1> HIDE DEF R
<1>3. Wired(T, R, O \ {p, q})
  BY <1>1, <1>2, InOutDisjoint DEF Flow, Wired
<1>4. Downhill(T, R, O \ {p, q}, r)
  <2> SUFFICES ASSUME NEW v \in In(T) \ (O \ {p, q}) PROVE r[v[1]] < r[R[v][1]]
    BY DEF Downhill
  <2> QED  BY <1>1, <1>2, InOutDisjoint DEF Flow, Downhill
<1> QED  BY <1>2, <1>3, <1>4 DEF R, Flow

(* The ports of an agent that is taken out are used no longer. *)
LEMMA DropPorts ==
  ASSUME NEW T \in [Agent -> 0 .. 4], NEW a \in Agent
  PROVE  /\ Out([T EXCEPT ![a] = 0]) = Out(T) \ PortsOf(a)
         /\ In([T EXCEPT ![a] = 0]) = In(T) \ PortsOf(a)
BY PortFacts DEF Out, In, PortsOf, Zero, Add1, Add, End

(* freeag takes an agent out whose ports are all open. *)
LEMMA DropKeeps ==
  ASSUME NEW T, NEW P, NEW O, NEW r, Flow(T, P, O, r), NEW a \in Agent,
         PortsOf(a) \cap (Out(T) \cup In(T)) \subseteq O
  PROVE  Flow([T EXCEPT ![a] = 0], P, O \ PortsOf(a), r)
<1> DEFINE U == [T EXCEPT ![a] = 0]
<1>1. Out(U) = Out(T) \ PortsOf(a) /\ In(U) = In(T) \ PortsOf(a)
  BY DropPorts DEF Flow, Wired
<1>2. U \in [Agent -> 0 .. 4]
  BY DEF Flow, Wired
<1> HIDE DEF U
<1>3. Wired(U, P, O \ PortsOf(a))
  BY <1>1, <1>2 DEF Flow, Wired
<1>4. Downhill(U, P, O \ PortsOf(a), r)
  BY <1>1 DEF Flow, Downhill
<1> QED  BY <1>3, <1>4 DEF Flow, U

(* The ports an agent uses once it has a type were used by nobody. *)
LEMMA NewPorts ==
  ASSUME NEW T \in [Agent -> 0 .. 4], NEW c \in Agent, NEW k \in Type, T[c] = 0
  PROVE  /\ Out([T EXCEPT ![c] = k]) \ PortsOf(c) = Out(T)
         /\ In([T EXCEPT ![c] = k]) \ PortsOf(c) = In(T)
BY PortFacts DEF Out, In, PortsOf, Zero, Add1, Add, End

(* newag gives an unused agent a type; its ports are open. *)
LEMMA NewKeeps ==
  ASSUME NEW T, NEW P, NEW O, NEW r, NEW c \in Agent, NEW k \in Type,
         Flow(T, P, O, r), T[c] = 0
  PROVE  Flow([T EXCEPT ![c] = k], P,
              O \cup (PortsOf(c) \cap (Out([T EXCEPT ![c] = k]) \cup In([T EXCEPT ![c] = k]))), r)
<1> DEFINE U == [T EXCEPT ![c] = k]  N == PortsOf(c) \cap (Out(U) \cup In(U))
<1>1. U \in [Agent -> 0 .. 4] /\ U[c] = k /\ \A a \in Agent \ {c} : U[a] = T[a]
  BY DEF Flow, Wired, Type
<1>2. Out(U) \ PortsOf(c) = Out(T) /\ In(U) \ PortsOf(c) = In(T)
  <2>1. T \in [Agent -> 0 .. 4]
    BY DEF Flow, Wired
  <2> QED  BY <2>1, NewPorts
<1> HIDE DEF U
<1>4. /\ Out(U) \ (O \cup N) = Out(T) \ O /\ In(U) \ (O \cup N) = In(T) \ O
  BY <1>2 DEF Flow, Wired
<1>5. O \cup N \subseteq Out(U) \cup In(U)
  <2>1. O \subseteq Out(T) \cup In(T)
    BY DEF Flow, Wired
  <2> QED  BY <2>1, <1>2
<1> HIDE DEF N
<1>6. Wired(U, P, O \cup N)
  BY <1>1, <1>4, <1>5 DEF Flow, Wired
<1>7. Downhill(U, P, O \cup N, r)
  BY <1>4 DEF Flow, Downhill
<1> QED  BY <1>6, <1>7 DEF Flow, N, U

(* Ranks may be changed as long as values still flow downhill. *)
LEMMA RankKeeps ==
  ASSUME NEW T, NEW P, NEW O, NEW r, Flow(T, P, O, r), NEW s \in [Agent -> Nat],
         \A p \in In(T) \ O : s[p[1]] < s[P[p][1]]
  PROVE  Flow(T, P, O, s)
BY DEF Flow, Downhill

-----------------------------------------------------------------------------
(* rule_add_zero: what came in at port 1 goes out at port 2. *)
LEMMA FlowAddZero ==
  ASSUME NEW T, NEW P, NEW r, Flow(T, P, {}, r), NEW a \in Agent, NEW b \in Agent,
         T[a] = Add, T[b] = Zero, P[<<a, 0>>] = <<b, 0>>
  PROVE  LET U == [T EXCEPT ![a] = 0, ![b] = 0]
             x == P[<<a, 1>>]
             y == P[<<a, 2>>]
         IN  /\ x \in Out(U) /\ y \in In(U) /\ Flow(U, Joined(P, x, y), {}, r)
             /\ y # <<a, 0>> /\ y # <<a, 1>> /\ x # <<a, 2>> /\ x # <<b, 0>>
<1> DEFINE a0 == <<a, 0>>  a1 == <<a, 1>>  a2 == <<a, 2>>  b0 == <<b, 0>>
           x == P[a1]  y == P[a2]  Q == Joined(P, x, y)
           U == [T EXCEPT ![a] = 0]
<1>1. /\ a0 \in In(T) /\ a1 \in In(T) /\ a2 \in Out(T) /\ b0 \in Out(T)
      /\ PortsOf(a) \cap (Out(T) \cup In(T)) = {a0, a1, a2}
      /\ PortsOf(b) \cap (Out(T) \cup In(T)) = {b0}
  BY UsedPortFacts
<1>2. /\ a # b /\ a0[1] = a /\ a1[1] = a /\ a2[1] = a /\ b0[1] = b
      /\ a0 # a1 /\ a0 # a2 /\ a1 # a2 /\ a0 # b0 /\ a1 # b0 /\ a2 # b0 /\ P[a0] = b0
  BY DEF Zero, Add
<1> HIDE DEF a0, a1, a2, b0
<1>3. Flow(T, P, {a0, b0}, r)
  <2>1. Flow(T, P, {} \cup {a0, P[a0]}, r)
    BY <1>1, CutKeeps
  <2> QED  BY <2>1, <1>2
<1>4. Flow(T, P, {a0, b0, a1, x}, r) /\ x \in Out(T) \ {a0, b0} /\ r[a] < r[x[1]]
  <2>1. a1 \in In(T) \ {a0, b0}
    BY <1>1, <1>2
  <2> DEFINE O == {a0, b0}
  <2>2. Flow(T, P, O, r) /\ a1 \in (Out(T) \cup In(T)) \ O /\ a1 \in In(T)
    BY <1>3, <2>1
  <2> HIDE DEF O
  <2>3. Flow(T, P, O \cup {a1, x}, r) /\ x \in Out(T) \ O /\ r[a1[1]] < r[x[1]]
    BY <2>2, CutKeeps
  <2> QED  BY <2>3, <1>2 DEF O
<1>5. Flow(T, P, {a0, b0, a1, x, a2, y}, r) /\ y \in In(T) \ {a0, b0, a1, x} /\ r[y[1]] < r[a]
  <2>1. a2 # x
    BY <1>2, <1>4 DEF Flow
  <2>2. a2 \in Out(T) \ {a0, b0, a1, x}
    BY <1>1, <1>2, <2>1
  <2> DEFINE O == {a0, b0, a1, x}
  <2>3. Flow(T, P, O, r) /\ a2 \in (Out(T) \cup In(T)) \ O /\ a2 \in Out(T)
    BY <1>4, <2>2
  <2> HIDE DEF O
  <2>4. Flow(T, P, O \cup {a2, y}, r) /\ y \in In(T) \ O /\ r[y[1]] < r[a2[1]]
    BY <2>3, CutKeeps
  <2> QED  BY <2>4, <1>2 DEF O
<1>6. r[y[1]] < r[x[1]] /\ x # y /\ x # a2 /\ y # a2
  BY <1>1, <1>2, <1>4, <1>5, PortFacts, InOutDisjoint DEF Flow
<1> HIDE DEF x, y
<1>7. Flow(T, Q, {a0, a1, a2, b0}, r)
  <2>1. Flow(T, Q, {a0, b0, a1, x, a2, y} \ {y, x}, r)
    BY <1>4, <1>5, <1>6, JoinKeeps
  <2>2. {a0, b0, a1, x, a2, y} \ {y, x} = {a0, a1, a2, b0}
    BY <1>1, <1>4, <1>5, <1>6, InOutDisjoint
  <2> QED  BY <2>1, <2>2
<1> HIDE DEF Q, U
<1>8. Flow(U, Q, {b0}, r) /\ Out(U) = Out(T) \ PortsOf(a) /\ In(U) = In(T) \ PortsOf(a)
  <2>1. /\ Flow(U, Q, {a0, a1, a2, b0} \ PortsOf(a), r)
        /\ Out(U) = Out(T) \ PortsOf(a) /\ In(U) = In(T) \ PortsOf(a)
    <3>1. PortsOf(a) \cap (Out(T) \cup In(T)) \subseteq {a0, a1, a2, b0}
      BY <1>1
    <3>2. Flow(U, Q, {a0, a1, a2, b0} \ PortsOf(a), r)
      BY <3>1, <1>7, DropKeeps DEF U
    <3>3. T \in [Agent -> 0 .. 4]
      BY DEF Flow, Wired
    <3> QED  BY <3>2, <3>3, DropPorts DEF U
  <2>2. {a0, a1, a2, b0} \ PortsOf(a) = {b0}
    BY <1>1, <1>2, PortFacts DEF PortsOf
  <2> QED  BY <2>1, <2>2
<1>9. U[b] = Zero
  BY <1>2 DEF U, Flow, Wired
<1> DEFINE V == [U EXCEPT ![b] = 0]
<1>10. Flow(V, Q, {}, r) /\ Out(V) = Out(U) \ PortsOf(b) /\ In(V) = In(U) \ PortsOf(b)
  <2>1. PortsOf(b) \cap (Out(U) \cup In(U)) = {b0}
    BY <1>9, UsedPortFacts DEF b0
  <2>2. Flow(V, Q, {b0} \ PortsOf(b), r) /\ Out(V) = Out(U) \ PortsOf(b) /\ In(V) = In(U) \ PortsOf(b)
    <3>1. PortsOf(b) \cap (Out(U) \cup In(U)) \subseteq {b0}
      BY <2>1
    <3>2. Flow(V, Q, {b0} \ PortsOf(b), r)
      BY <3>1, <1>8, DropKeeps DEF V
    <3>3. U \in [Agent -> 0 .. 4]
      BY <1>8 DEF Flow, Wired
    <3> QED  BY <3>2, <3>3, DropPorts DEF V
  <2>3. {b0} \ PortsOf(b) = {}
    BY <2>1
  <2> QED  BY <2>2, <2>3
<1> HIDE DEF V
<1>11. x \in Out(V) /\ y \in In(V)
  <2>1. PortsOf(b) \cap In(T) = {} /\ PortsOf(b) \cap Out(T) = {b0}
        /\ PortsOf(a) \cap In(T) = {a0, a1} /\ PortsOf(a) \cap Out(T) = {a2}
    BY <1>1, InOutDisjoint
  <2> QED  BY <2>1, <1>4, <1>5, <1>6, <1>8, <1>10
<1>12. V = [T EXCEPT ![a] = 0, ![b] = 0]
  BY DEF V, U
<1>13. y # a0 /\ y # a1 /\ x # a2 /\ x # b0
  BY <1>4, <1>5, <1>6
<1> QED  BY <1>10, <1>11, <1>12, <1>13 DEF Q, x, y, a0, a1, a2, b0

(* rule_end_add1: the end takes over what the add1 counted on. *)
LEMMA FlowEndAdd1 ==
  ASSUME NEW T, NEW P, NEW r, Flow(T, P, {}, r), NEW a \in Agent, NEW b \in Agent,
         T[a] = End, T[b] = Add1, P[<<a, 0>>] = <<b, 0>>
  PROVE  LET U == [T EXCEPT ![b] = 0]
             z == P[<<b, 1>>]
         IN  /\ z \in Out(U) /\ Flow(U, Joined(P, z, <<a, 0>>), {}, r)
             /\ z # <<b, 0>>
<1> DEFINE a0 == <<a, 0>>  b0 == <<b, 0>>  b1 == <<b, 1>>
           z == P[b1]  Q == Joined(P, z, a0)
           U == [T EXCEPT ![b] = 0]
<1>1. /\ a0 \in In(T) /\ b0 \in Out(T) /\ b1 \in In(T)
      /\ PortsOf(b) \cap (Out(T) \cup In(T)) = {b0, b1}
  BY UsedPortFacts
<1>2. /\ a # b /\ a0[1] = a /\ b0[1] = b /\ b1[1] = b
      /\ a0 # b0 /\ a0 # b1 /\ b0 # b1 /\ P[a0] = b0
  BY DEF End, Add1
<1> HIDE DEF a0, b0, b1
<1>3. Flow(T, P, {a0, b0}, r) /\ r[a] < r[b]
  <2>1. Flow(T, P, {} \cup {a0, P[a0]}, r) /\ r[a0[1]] < r[P[a0][1]]
    BY <1>1, CutKeeps
  <2> QED  BY <2>1, <1>2
<1>4. Flow(T, P, {a0, b0, b1, z}, r) /\ z \in Out(T) \ {a0, b0} /\ r[b] < r[z[1]]
  <2>1. b1 \in In(T) \ {a0, b0}
    BY <1>1, <1>2
  <2> DEFINE O == {a0, b0}
  <2>2. Flow(T, P, O, r) /\ b1 \in (Out(T) \cup In(T)) \ O /\ b1 \in In(T)
    BY <1>3, <2>1
  <2> HIDE DEF O
  <2>3. Flow(T, P, O \cup {b1, z}, r) /\ z \in Out(T) \ O /\ r[b1[1]] < r[z[1]]
    BY <2>2, CutKeeps
  <2> QED  BY <2>3, <1>2 DEF O
<1>5. r[a0[1]] < r[z[1]]
  BY <1>1, <1>2, <1>3, <1>4, PortFacts, InOutDisjoint DEF Flow
<1> HIDE DEF z
<1>6. Flow(T, Q, {b0, b1}, r)
  <2>1. Flow(T, Q, {a0, b0, b1, z} \ {a0, z}, r)
    BY <1>1, <1>4, <1>5, JoinKeeps
  <2>2. {a0, b0, b1, z} \ {a0, z} = {b0, b1}
    BY <1>1, <1>2, <1>4, InOutDisjoint
  <2> QED  BY <2>1, <2>2
<1> HIDE DEF Q, U
<1>7. Flow(U, Q, {}, r)
  <2>1. PortsOf(b) \cap (Out(T) \cup In(T)) \subseteq {b0, b1}
    BY <1>1
  <2>2. Flow(U, Q, {b0, b1} \ PortsOf(b), r)
    BY <1>6, <2>1, DropKeeps DEF U
  <2>3. {b0, b1} \ PortsOf(b) = {}
    BY <1>1
  <2> QED  BY <2>2, <2>3
<1>8. z \in Out(U)
  <2>1. T \in [Agent -> 0 .. 4]
    BY DEF Flow, Wired
  <2>2. Out(U) = Out(T) \ PortsOf(b)
    BY <2>1, DropPorts DEF U
  <2>3. PortsOf(b) \cap Out(T) = {b0}
    BY <1>1, InOutDisjoint
  <2> QED  BY <2>2, <2>3, <1>4
<1> QED  BY <1>4, <1>7, <1>8 DEF Q, U, z, a0, b0, b1

(* rule_end_zero: both agents go. *)
LEMMA FlowEndZero ==
  ASSUME NEW T, NEW P, NEW r, Flow(T, P, {}, r), NEW a \in Agent, NEW b \in Agent,
         T[a] = End, T[b] = Zero, P[<<a, 0>>] = <<b, 0>>
  PROVE  Flow([T EXCEPT ![a] = 0, ![b] = 0], P, {}, r)
<1> DEFINE a0 == <<a, 0>>  b0 == <<b, 0>>
           U == [T EXCEPT ![a] = 0]  V == [U EXCEPT ![b] = 0]
<1>1. /\ a0 \in In(T) /\ b0 \in Out(T)
      /\ PortsOf(a) \cap (Out(T) \cup In(T)) = {a0}
  BY UsedPortFacts
<1>2. a # b /\ a0[1] = a /\ b0[1] = b /\ a0 # b0 /\ P[a0] = b0
  BY DEF End, Zero
<1> HIDE DEF a0, b0
<1>3. Flow(T, P, {a0, b0}, r)
  <2>1. Flow(T, P, {} \cup {a0, P[a0]}, r)
    BY <1>1, CutKeeps
  <2> QED  BY <2>1, <1>2
<1> HIDE DEF U
<1>4. Flow(U, P, {b0}, r)
  <2>1. PortsOf(a) \cap (Out(T) \cup In(T)) \subseteq {a0, b0}
    BY <1>1
  <2>2. Flow(U, P, {a0, b0} \ PortsOf(a), r)
    BY <1>3, <2>1, DropKeeps DEF U
  <2>3. {a0, b0} \ PortsOf(a) = {b0}
    BY <1>1, <1>2 DEF PortsOf
  <2> QED  BY <2>2, <2>3
<1>5. U[b] = Zero
  BY <1>2 DEF U, Flow, Wired
<1> HIDE DEF V
<1>6. Flow(V, P, {}, r)
  <2>1. PortsOf(b) \cap (Out(U) \cup In(U)) = {b0}
    BY <1>5, UsedPortFacts DEF b0
  <2>2. PortsOf(b) \cap (Out(U) \cup In(U)) \subseteq {b0}
    BY <2>1
  <2>3. Flow(V, P, {b0} \ PortsOf(b), r)
    BY <1>4, <2>2, DropKeeps DEF V
  <2>4. {b0} \ PortsOf(b) = {}
    BY <2>1
  <2> QED  BY <2>3, <2>4
<1> QED  BY <1>6 DEF V, U

(* rule_add_add1 between its reads and its connects: the wires of the two   *)
(* agents are open, and the two new agents rank between what they will feed *)
(* and what will feed them.                                                 *)
AddAdd1Open(T, P, a, b, c, d) ==
  LET U == [T EXCEPT ![c] = Add1, ![d] = Add]
      x == P[<<a, 1>>]
      y == P[<<a, 2>>]
      z == P[<<b, 1>>]
      O == {<<a, 0>>, <<a, 1>>, <<a, 2>>, <<b, 0>>, <<b, 1>>, x, y, z,
            <<c, 0>>, <<c, 1>>, <<d, 0>>, <<d, 1>>, <<d, 2>>}
  IN  /\ x \in Out(T) /\ y \in In(T) /\ z \in Out(T) /\ x # z
      /\ {x, y, z} \cap {<<a, 0>>, <<a, 1>>, <<a, 2>>, <<b, 0>>, <<b, 1>>} = {}
      /\ P[x] = <<a, 1>> /\ P[y] = <<a, 2>> /\ P[z] = <<b, 1>>
      /\ \E s : /\ Flow(U, P, O, s)
                /\ s[y[1]] < s[c] /\ s[c] < s[d] /\ s[d] < s[x[1]] /\ s[d] < s[z[1]]

LEMMA FlowAddAdd1Open ==
  ASSUME NEW T, NEW P, NEW r, Flow(T, P, {}, r), NEW a \in Agent, NEW b \in Agent,
         T[a] = Add, T[b] = Add1, P[<<a, 0>>] = <<b, 0>>,
         NEW c \in Agent, NEW d \in Agent, c # d, T[c] = 0, T[d] = 0
  PROVE  AddAdd1Open(T, P, a, b, c, d)
<1> DEFINE a0 == <<a, 0>>  a1 == <<a, 1>>  a2 == <<a, 2>>
           b0 == <<b, 0>>  b1 == <<b, 1>>
           c0 == <<c, 0>>  c1 == <<c, 1>>
           d0 == <<d, 0>>  d1 == <<d, 1>>  d2 == <<d, 2>>
           x == P[a1]  y == P[a2]  z == P[b1]
<1>1. /\ a0 \in In(T) /\ a1 \in In(T) /\ a2 \in Out(T) /\ b0 \in Out(T) /\ b1 \in In(T)
      /\ PortsOf(a) \cap (Out(T) \cup In(T)) = {a0, a1, a2}
      /\ PortsOf(b) \cap (Out(T) \cup In(T)) = {b0, b1}
  BY UsedPortFacts
<1>2. /\ a # b /\ a0[1] = a /\ a1[1] = a /\ a2[1] = a /\ b0[1] = b /\ b1[1] = b
      /\ a0 # a1 /\ a0 # a2 /\ a1 # a2 /\ a0 # b0 /\ a1 # b0 /\ a2 # b0 /\ P[a0] = b0
      /\ b0 # b1 /\ a0 # b1 /\ a1 # b1 /\ a2 # b1
      /\ c \notin {a, b} /\ d \notin {a, b}
  BY DEF Add, Add1
<1> DEFINE T1 == [T EXCEPT ![c] = Add1]  U == [T1 EXCEPT ![d] = Add]
<1>3. /\ T1 \in [Agent -> 0 .. 4] /\ T1[c] = Add1 /\ T1[d] = 0
      /\ U \in [Agent -> 0 .. 4] /\ U[d] = Add /\ U[c] = Add1
      /\ U = [T EXCEPT ![c] = Add1, ![d] = Add]
  BY DEF Flow, Wired, Add1, Add
<1> HIDE DEF T1, U
<1>4. /\ PortsOf(c) \cap (Out(T1) \cup In(T1)) = {c0, c1}
      /\ PortsOf(d) \cap (Out(U) \cup In(U)) = {d0, d1, d2}
      /\ PortsOf(c) \cap (Out(U) \cup In(U)) = {c0, c1}
  BY <1>3, UsedPortFacts
<1> HIDE DEF a0, a1, a2, b0, b1, c0, c1, d0, d1, d2
<1>5. Flow(T, P, {a0, b0}, r) /\ r[a] < r[b]
  <2>1. Flow(T, P, {} \cup {a0, P[a0]}, r) /\ r[a0[1]] < r[P[a0][1]]
    BY <1>1, CutKeeps
  <2> QED  BY <2>1, <1>2
<1>6. /\ Flow(T, P, {a0, b0, a1, x}, r) /\ x \in Out(T) \ {a0, b0} /\ r[a] < r[x[1]]
      /\ P[x] = a1
  <2>1. a1 \in In(T) \ {a0, b0}
    BY <1>1, <1>2
  <2> DEFINE O == {a0, b0}
  <2>2. Flow(T, P, O, r) /\ a1 \in (Out(T) \cup In(T)) \ O /\ a1 \in In(T)
    BY <1>5, <2>1
  <2> HIDE DEF O
  <2>3. Flow(T, P, O \cup {a1, x}, r) /\ x \in Out(T) \ O /\ r[a1[1]] < r[x[1]] /\ P[x] = a1
    BY <2>2, CutKeeps
  <2> QED  BY <2>3, <1>2 DEF O
<1>7. /\ Flow(T, P, {a0, b0, a1, x, b1, z}, r) /\ z \in Out(T) \ {a0, b0, a1, x} /\ r[b] < r[z[1]]
      /\ P[z] = b1
  <2>1. b1 \in In(T) \ {a0, b0, a1, x}
    BY <1>1, <1>2, <1>6, InOutDisjoint
  <2> DEFINE O == {a0, b0, a1, x}
  <2>2. Flow(T, P, O, r) /\ b1 \in (Out(T) \cup In(T)) \ O /\ b1 \in In(T)
    BY <1>6, <2>1
  <2> HIDE DEF O
  <2>3. Flow(T, P, O \cup {b1, z}, r) /\ z \in Out(T) \ O /\ r[b1[1]] < r[z[1]] /\ P[z] = b1
    BY <2>2, CutKeeps
  <2> QED  BY <2>3, <1>2 DEF O
<1>8. /\ Flow(T, P, {a0, b0, a1, x, b1, z, a2, y}, r)
      /\ y \in In(T) \ {a0, b0, a1, x, b1, z} /\ r[y[1]] < r[a] /\ P[y] = a2
      /\ a2 # x /\ a2 # z
  <2>0. \A e \in Agent : r[e] \in Nat
    BY DEF Flow
  <2>1. a2 # x /\ a2 # z
    BY <1>2, <1>5, <1>6, <1>7, <2>0
  <2>2. a2 \in Out(T) \ {a0, b0, a1, x, b1, z}
    BY <1>1, <1>2, <2>1
  <2> DEFINE O == {a0, b0, a1, x, b1, z}
  <2>3. Flow(T, P, O, r) /\ a2 \in (Out(T) \cup In(T)) \ O /\ a2 \in Out(T)
    BY <1>7, <2>2
  <2> HIDE DEF O
  <2>4. Flow(T, P, O \cup {a2, y}, r) /\ y \in In(T) \ O /\ r[y[1]] < r[a2[1]] /\ P[y] = a2
    BY <2>3, CutKeeps
  <2> QED  BY <2>1, <2>4, <1>2 DEF O
<1>9. {x, y, z} \cap {a0, a1, a2, b0, b1} = {} /\ x # z
  BY <1>1, <1>6, <1>7, <1>8, InOutDisjoint
<1> HIDE DEF x, y, z
<1> DEFINE O1 == {a0, b0, a1, x, b1, z, a2, y}
           O2 == {a0, a1, a2, b0, b1, x, y, z, c0, c1, d0, d1, d2}
<1>10. Flow(T1, P, O1 \cup {c0, c1}, r)
  <2>1. Flow(T, P, O1, r)
    BY <1>8
  <2> HIDE DEF O1
  <2>2. Add1 \in Type
    BY DEF Add1, Type
  <2>3. Flow(T1, P, O1 \cup (PortsOf(c) \cap (Out(T1) \cup In(T1))), r)
    BY <2>1, <2>2, NewKeeps DEF T1
  <2> QED  BY <2>3, <1>4
<1>11. Flow(U, P, O2, r)
  <2> DEFINE O3 == O1 \cup {c0, c1}
  <2>1. Flow(T1, P, O3, r) /\ T1[d] = 0
    BY <1>3, <1>10
  <2>2. O3 \cup {d0, d1, d2} = O2
    OBVIOUS
  <2> HIDE DEF O3
  <2>3. Add \in Type
    BY DEF Add, Type
  <2>4. Flow(U, P, O3 \cup (PortsOf(d) \cap (Out(U) \cup In(U))), r)
    BY <2>1, <2>3, NewKeeps DEF U
  <2>5. Flow(U, P, O3 \cup {d0, d1, d2}, r)
    BY <2>4, <1>4
  <2> QED  BY <2>2, <2>5
<1> DEFINE s == [e \in Agent |-> IF e = c THEN 2 * r[a] - 1
                                 ELSE IF e = d THEN 2 * r[a] ELSE 2 * r[e]]
<1>12. /\ y \in Port /\ x \in Port /\ z \in Port
       /\ y[1] \in Agent /\ x[1] \in Agent /\ z[1] \in Agent
       /\ y[1] \notin {c, d} /\ x[1] \notin {c, d} /\ z[1] \notin {c, d}
  BY <1>6, <1>7, <1>8, PortFacts, InOutDisjoint DEF Out, In, Zero, Add1, Add, End
<1>13. \A e \in Agent : r[e] \in Nat
  BY DEF Flow
<1>14. /\ s \in [Agent -> Nat] /\ s[c] = 2 * r[a] - 1 /\ s[d] = 2 * r[a]
       /\ \A e \in Agent \ {c, d} : s[e] = 2 * r[e]
  BY <1>8, <1>12, <1>13
<1> HIDE DEF s
<1>15. s[y[1]] < s[c] /\ s[c] < s[d] /\ s[d] < s[x[1]] /\ s[d] < s[z[1]]
  BY <1>5, <1>6, <1>7, <1>8, <1>12, <1>13, <1>14
<1>16. Flow(U, P, O2, s)
  <2>1. ASSUME NEW p \in In(U) \ O2  PROVE s[p[1]] < s[P[p][1]]
    <3>1. p \notin PortsOf(c) /\ p \notin PortsOf(d) /\ p \in Port /\ p[1] \in Agent
      BY <1>4, PortFacts, InOutDisjoint
    <3>2. P[p] \in Out(U) \ O2 /\ r[p[1]] < r[P[p][1]]
      BY <1>11 DEF Flow, Wired, Downhill
    <3>3. P[p] \notin PortsOf(c) /\ P[p] \notin PortsOf(d) /\ P[p] \in Port /\ P[p][1] \in Agent
      BY <1>4, <3>2, PortFacts, InOutDisjoint
    <3>4. p[1] \in Agent \ {c, d} /\ P[p][1] \in Agent \ {c, d}
      BY <3>1, <3>3 DEF PortsOf
    <3> QED  BY <3>2, <3>4, <1>13, <1>14
  <2> HIDE DEF O2
  <2> QED  BY <2>1, <1>11, <1>14, RankKeeps
<1> QED
  BY <1>3, <1>6, <1>7, <1>8, <1>9, <1>15, <1>16
  DEF AddAdd1Open, a0, a1, a2, b0, b1, c0, c1, d0, d1, d2, x, y, z

(* rule_add_add1: x + (1 + z) becomes 1 + (x + z). *)
AddAdd1Done(T, P, a, b, c, d) ==
  LET U == [T EXCEPT ![c] = Add1, ![d] = Add, ![a] = 0, ![b] = 0]
      x == P[<<a, 1>>]
      y == P[<<a, 2>>]
      z == P[<<b, 1>>]
      Q == Joined(Joined(Joined(Joined(P, y, <<c, 0>>), z, <<d, 0>>), x, <<d, 1>>),
                  <<d, 2>>, <<c, 1>>)
  IN  /\ x \in Out(T) /\ y \in In(T) /\ z \in Out(T)
      /\ P[y] = <<a, 2>> /\ P[z] = <<b, 1>>
      /\ y \notin {<<a, 0>>, <<a, 1>>}
      /\ \E s : Flow(U, Q, {}, s)
      /\ Q[y] = <<c, 0>> /\ Q[<<d, 0>>] = z
      /\ \A p \in In(T) \ {y} : Q[p] = P[p]

LEMMA FlowAddAdd1 ==
  ASSUME NEW T, NEW P, NEW r, Flow(T, P, {}, r), NEW a \in Agent, NEW b \in Agent,
         T[a] = Add, T[b] = Add1, P[<<a, 0>>] = <<b, 0>>,
         NEW c \in Agent, NEW d \in Agent, c # d, T[c] = 0, T[d] = 0
  PROVE  AddAdd1Done(T, P, a, b, c, d)
<1> DEFINE a0 == <<a, 0>>  a1 == <<a, 1>>  a2 == <<a, 2>>
           b0 == <<b, 0>>  b1 == <<b, 1>>
           c0 == <<c, 0>>  c1 == <<c, 1>>
           d0 == <<d, 0>>  d1 == <<d, 1>>  d2 == <<d, 2>>
           x == P[a1]  y == P[a2]  z == P[b1]
           U == [T EXCEPT ![c] = Add1, ![d] = Add]
           O == {a0, a1, a2, b0, b1, x, y, z, c0, c1, d0, d1, d2}
<1>1. /\ x \in Out(T) /\ y \in In(T) /\ z \in Out(T) /\ x # z
      /\ {x, y, z} \cap {a0, a1, a2, b0, b1} = {}
      /\ P[x] = a1 /\ P[y] = a2 /\ P[z] = b1
      /\ \E s : /\ Flow(U, P, O, s)
                /\ s[y[1]] < s[c] /\ s[c] < s[d] /\ s[d] < s[x[1]] /\ s[d] < s[z[1]]
  <2>1. AddAdd1Open(T, P, a, b, c, d)
    BY FlowAddAdd1Open
  <2> QED  BY <2>1 DEF AddAdd1Open
<1>2. PICK s : /\ Flow(U, P, O, s)
               /\ s[y[1]] < s[c] /\ s[c] < s[d] /\ s[d] < s[x[1]] /\ s[d] < s[z[1]]
  BY <1>1
<1>3. /\ U[a] = Add /\ U[b] = Add1 /\ U[c] = Add1 /\ U[d] = Add /\ U \in [Agent -> 0 .. 4]
      /\ a # b /\ c \notin {a, b} /\ d \notin {a, b}
  BY DEF Flow, Wired, Add1, Add
<1>4. /\ PortsOf(a) \cap (Out(U) \cup In(U)) = {a0, a1, a2}
      /\ PortsOf(b) \cap (Out(U) \cup In(U)) = {b0, b1}
      /\ c0 \in Out(U) /\ c1 \in In(U) /\ d0 \in In(U) /\ d1 \in In(U) /\ d2 \in Out(U)
  BY <1>3, UsedPortFacts
<1>5. x \in Out(U) /\ y \in In(U) /\ z \in Out(U)
  <2>1. c # d
    OBVIOUS
  <2> HIDE DEF x, y, z
  <2>2. /\ x[1] \in Agent \ {c, d} /\ y[1] \in Agent \ {c, d} /\ z[1] \in Agent \ {c, d}
        /\ x \in Port /\ y \in Port /\ z \in Port
    <3>1. x \in Port /\ y \in Port /\ z \in Port
      BY <1>1, InOutDisjoint
    <3>2. T[x[1]] # 0 /\ T[y[1]] # 0 /\ T[z[1]] # 0
      BY <1>1 DEF Out, In, Zero, Add1, Add, End
    <3> QED  BY <3>1, <3>2, PortFacts
  <2>3. \A e \in Agent \ {c, d} : U[e] = T[e]
    BY DEF Flow, Wired
  <2> HIDE DEF U
  <2> QED  BY <1>1, <2>2, <2>3 DEF Out, In
<1>6. c0[1] = c /\ c1[1] = c /\ d0[1] = d /\ d1[1] = d /\ d2[1] = d
  OBVIOUS
<1>7. /\ {x, y, z} \cap {c0, c1, d0, d1, d2} = {}
      /\ c0 # d0 /\ c0 # d1 /\ c0 # d2 /\ c0 # c1 /\ c1 # d0 /\ c1 # d1 /\ c1 # d2
      /\ d0 # d1 /\ d0 # d2 /\ d1 # d2 /\ x # y /\ y # z
      /\ {a0, a1, a2, b0, b1} \cap {c0, c1, d0, d1, d2} = {}
  <2>1. {c0, c1, d0, d1, d2} \cap (Out(T) \cup In(T)) = {}
    BY DEF Out, In, Zero, Add1, Add, End
  <2>2. x # y /\ y # z
    BY <1>1, InOutDisjoint
  <2> QED  BY <1>1, <1>3, <2>1, <2>2
<1> HIDE DEF a0, a1, a2, b0, b1, c0, c1, d0, d1, d2, x, y, z, U
<1> DEFINE Q1 == Joined(P, c0, y)   Q2 == Joined(Q1, z, d0)
           Q3 == Joined(Q2, x, d1)  Q4 == Joined(Q3, d2, c1)
           O1 == O \ {y, c0}  O2 == O1 \ {d0, z}
           O3 == O2 \ {d1, x}  O4 == O3 \ {c1, d2}
<1>8. /\ {y, c0} \subseteq O /\ {d0, z} \subseteq O1 /\ {d1, x} \subseteq O2
      /\ {c1, d2} \subseteq O3 /\ O4 = {a0, a1, a2, b0, b1}
  BY <1>1, <1>7
<1> HIDE DEF O
<1>9. /\ Flow(U, Q1, O1, s) /\ Q1[y] = c0
      /\ \A p \in Port \ {y, c0} : Q1[p] = P[p]
      /\ Joined(P, y, c0) = Q1
  <2>1. c0 \in Out(U) \cap O /\ y \in In(U) \cap O /\ s[y[1]] < s[c0[1]]
    BY <1>2, <1>4, <1>5, <1>6, <1>8
  <2>2. Flow(U, P, O, s)
    BY <1>2
  <2> QED  BY <2>1, <2>2, JoinKeeps
<1> HIDE DEF Q1, O1
<1>10. /\ Flow(U, Q2, O2, s) /\ Q2[d0] = z
       /\ \A p \in Port \ {d0, z} : Q2[p] = Q1[p]
  <2>1. z \in Out(U) \cap O1 /\ d0 \in In(U) \cap O1 /\ s[d0[1]] < s[z[1]]
    BY <1>2, <1>4, <1>5, <1>6, <1>8
  <2> QED  BY <2>1, <1>9, JoinKeeps
<1> HIDE DEF Q2, O2
<1>11. /\ Flow(U, Q3, O3, s)
       /\ \A p \in Port \ {d1, x} : Q3[p] = Q2[p]
  <2>1. x \in Out(U) \cap O2 /\ d1 \in In(U) \cap O2 /\ s[d1[1]] < s[x[1]]
    BY <1>2, <1>4, <1>5, <1>6, <1>8
  <2> QED  BY <2>1, <1>10, JoinKeeps
<1> HIDE DEF Q3, O3
<1>12. /\ Flow(U, Q4, O4, s)
       /\ \A p \in Port \ {c1, d2} : Q4[p] = Q3[p]
  <2>1. d2 \in Out(U) \cap O3 /\ c1 \in In(U) \cap O3 /\ s[c1[1]] < s[d2[1]]
    BY <1>2, <1>4, <1>5, <1>6, <1>8
  <2> QED  BY <2>1, <1>11, JoinKeeps
<1> HIDE DEF Q4, O4
<1>13. Flow(U, Q4, {a0, a1, a2, b0, b1}, s)
  BY <1>8, <1>12
<1> DEFINE V == [U EXCEPT ![a] = 0]  W == [V EXCEPT ![b] = 0]
<1>14. a0[1] = a /\ a1[1] = a /\ a2[1] = a /\ b0[1] = b /\ b1[1] = b
       /\ b0 \in Port /\ b1 \in Port
  BY DEF a0, a1, a2, b0, b1, Port
<1>15. Flow(V, Q4, {b0, b1}, s)
  <2>1. PortsOf(a) \cap (Out(U) \cup In(U)) \subseteq {a0, a1, a2, b0, b1}
    BY <1>4
  <2>2. Flow(V, Q4, {a0, a1, a2, b0, b1} \ PortsOf(a), s)
    BY <1>13, <2>1, DropKeeps
  <2>3. {a0, a1, a2, b0, b1} \ PortsOf(a) = {b0, b1}
    BY <1>3, <1>4, <1>14 DEF PortsOf
  <2> QED  BY <2>2, <2>3
<1>16. V[b] = Add1
  BY <1>3
<1> HIDE DEF V
<1>17. Flow(W, Q4, {}, s)
  <2>1. PortsOf(b) \cap (Out(V) \cup In(V)) = {b0, b1}
    BY <1>16, UsedPortFacts DEF b0, b1
  <2>2. PortsOf(b) \cap (Out(V) \cup In(V)) \subseteq {b0, b1}
    BY <2>1
  <2>3. Flow(W, Q4, {b0, b1} \ PortsOf(b), s)
    BY <1>15, <2>2, DropKeeps
  <2>4. {b0, b1} \ PortsOf(b) = {}
    BY <2>1
  <2> QED  BY <2>3, <2>4
<1>18. /\ Q4[y] = c0 /\ Q4[d0] = z
       /\ \A p \in In(T) \ {y} : Q4[p] = P[p]
  <2>1. /\ {c0, c1, d0, d1, d2} \cap In(T) = {} /\ x \notin In(T) /\ z \notin In(T)
        /\ In(T) \subseteq Port
    <3>1. {c0, c1, d0, d1, d2} \cap In(T) = {}
      BY <1>6 DEF In, Zero, Add1, Add, End
    <3> QED  BY <3>1, <1>1, InOutDisjoint
  <2>2. d0 \in Port /\ y \in Port
    BY <1>4, <1>5, InOutDisjoint
  <2> QED  BY <1>1, <1>7, <1>9, <1>10, <1>11, <1>12, <2>1, <2>2
<1>19. W = [T EXCEPT ![c] = Add1, ![d] = Add, ![a] = 0, ![b] = 0]
  BY DEF V, U
<1> HIDE DEF W
<1>20. y \notin {a0, a1}
  BY <1>1
<1>21. Q4 = Joined(Joined(Joined(Joined(P, y, c0), z, d0), x, d1), d2, c1)
  BY <1>9 DEF Q4, Q3, Q2
<1> QED  BY <1>1, <1>17, <1>18, <1>19, <1>20, <1>21
         DEF AddAdd1Done, x, y, z, a0, a1, a2, b0, b1, c0, c1, d0, d1, d2

-----------------------------------------------------------------------------
(* Active pairs: an add or an end and what feeds its principal port by a    *)
(* principal port. The add or end stands for the pair.                      *)
Pairs(T, P) == {c \in Agent : T[c] \in {Add, End} /\ P[<<c, 0>>][2] = 0}
Feeder(P, c) == P[<<c, 0>>][1]

(* A net of K + K has at most one add and at most one end. *)
Single(T) == \A a, b \in Agent : T[a] \in {Add, End} /\ T[b] = T[a] => a = b

(* The two agents of a pair face each other, and no agent is in two pairs.  *)
LEMMA PairFacts ==
  ASSUME NEW T, NEW P, NEW r, Flow(T, P, {}, r)
  PROVE  /\ \A c \in Pairs(T, P) :
              /\ Feeder(P, c) \in Agent /\ T[Feeder(P, c)] \in {Zero, Add1}
              /\ P[<<c, 0>>] = <<Feeder(P, c), 0>> /\ P[<<Feeder(P, c), 0>>] = <<c, 0>>
         /\ \A c, e \in Pairs(T, P) : {c, Feeder(P, c)} \cap {e, Feeder(P, e)} # {} => c = e
<1>1. ASSUME NEW c \in Pairs(T, P)
      PROVE  /\ Feeder(P, c) \in Agent /\ T[Feeder(P, c)] \in {Zero, Add1}
             /\ P[<<c, 0>>] = <<Feeder(P, c), 0>> /\ P[<<Feeder(P, c), 0>>] = <<c, 0>>
  <2> DEFINE p == <<c, 0>>  q == P[p]
  <2>1. c \in Agent /\ T[c] \in {Add, End} /\ q[2] = 0
    BY DEF Pairs
  <2>2. p \in In(T)
    BY <2>1, UsedPortFacts
  <2>3. q \in Out(T) /\ P[q] = p
    BY <2>2 DEF Flow, Wired
  <2> HIDE DEF p
  <2>4. q \in Port /\ q = <<q[1], 0>> /\ q[1] \in Agent
    <3>1. q \in Port /\ q[2] = 0
      BY <2>1, <2>3, InOutDisjoint
    <3> HIDE DEF q
    <3>2. q = <<q[1], q[2]>> /\ q[1] \in Agent
      BY <3>1, PortFacts
    <3> QED  BY <3>1, <3>2
  <2>5. T[q[1]] \in {Zero, Add1}
    BY <2>1, <2>3 DEF Out
  <2>6. Feeder(P, c) = q[1]
    BY DEF Feeder, p
  <2>7. q = P[p]
    OBVIOUS
  <2> HIDE DEF q
  <2>8. P[<<q[1], 0>>] = p
    BY <2>3, <2>4, Zenon
  <2> QED  BY <2>4, <2>5, <2>6, <2>7, <2>8 DEF p
<1>2. ASSUME NEW c \in Pairs(T, P), NEW e \in Pairs(T, P),
             {c, Feeder(P, c)} \cap {e, Feeder(P, e)} # {}
      PROVE  c = e
  <2>1. T[c] \in {Add, End} /\ T[e] \in {Add, End}
    BY DEF Pairs
  <2>2. c # Feeder(P, e) /\ e # Feeder(P, c)
    <3>1. T[Feeder(P, c)] \in {Zero, Add1} /\ T[Feeder(P, e)] \in {Zero, Add1}
      BY <1>1
    <3> QED  BY <2>1, <3>1 DEF Zero, Add1, Add, End
  <2>3. Feeder(P, c) = Feeder(P, e) => <<c, 0>> = <<e, 0>>
    BY <1>1
  <2> QED  BY <1>2, <2>2, <2>3
<1> QED  BY <1>1, <1>2

(* What the driver's check accepts in a net is an active pair. *)
Facing(T, P, a, b) == /\ a \in Agent /\ b \in Agent /\ T[a] \in Type /\ T[b] \in Type
                      /\ P[<<a, 0>>][1] = b /\ P[<<b, 0>>] = <<a, 0>>

LEMMA FacingIsPair ==
  ASSUME NEW T, NEW P, NEW r, Flow(T, P, {}, r), NEW a, NEW b, Facing(T, P, a, b)
  PROVE  \/ a \in Pairs(T, P) /\ Feeder(P, a) = b
         \/ b \in Pairs(T, P) /\ Feeder(P, b) = a
<1>0. /\ a \in Agent /\ b \in Agent /\ T[a] \in Type /\ T[b] \in Type
      /\ P[<<a, 0>>][1] = b /\ P[<<b, 0>>] = <<a, 0>>
  BY DEF Facing
<1> DEFINE a0 == <<a, 0>>  b0 == <<b, 0>>
<1>1. /\ a0 \in Out(T) \cup In(T) /\ b0 \in Out(T) \cup In(T)
      /\ (a0 \in In(T) => T[a] \in {Add, End}) /\ (b0 \in In(T) => T[b] \in {Add, End})
  <2>1. \A e \in Agent : T[e] \in Type =>
          /\ <<e, 0>> \in Out(T) \cup In(T)
          /\ <<e, 0>> \in In(T) => T[e] \in {Add, End}
    BY DEF Out, In, Port, Type, Zero, Add1, Add, End
  <2> QED  BY <1>0, <2>1
<1>2. a0[2] = 0 /\ b0[2] = 0 /\ a0[1] = a /\ b0[1] = b /\ P[b0] = a0
  BY <1>0
<1> HIDE DEF a0, b0
<1>3. P[a0] = b0
  BY <1>1, <1>2 DEF Flow, Wired
<1>4. a0 \in In(T) \/ b0 \in In(T)
  BY <1>1, <1>2, <1>3, InOutDisjoint DEF Flow, Wired
<1> QED  BY <1>0, <1>1, <1>2, <1>3, <1>4 DEF Pairs, Feeder, a0, b0

(* rule_end_zero leaves the other pairs as they are. *)
LEMMA PairsEndZero ==
  ASSUME NEW T, NEW P, NEW U, NEW a \in Agent, NEW b \in Agent, T[a] = End, T[b] = Zero,
         \A c \in Agent : U[c] = IF c \in {a, b} THEN 0 ELSE T[c]
  PROVE  Pairs(U, P) = Pairs(T, P) \ {a}
<1>1. \A c \in Agent : U[c] \in {Add, End} <=> T[c] \in {Add, End} /\ c # a
  BY DEF Zero, Add1, Add, End
<1> QED  BY <1>1 DEF Pairs

(* rule_end_add1 makes the end face what the add1 counted on. *)
EndAdd1Nets(T, P, U, Q, a, b, z, New) ==
  /\ a \in Agent /\ b \in Agent /\ T[a] = End /\ T[b] = Add1
  /\ \A c \in Agent : U[c] = IF c = b THEN 0 ELSE T[c]
  /\ \A p \in In(T) : Q[p] = IF p = <<a, 0>> THEN z ELSE P[p]
  /\ \A c : c \in New <=> z[2] = 0 /\ c = a

LEMMA PairsEndAdd1 ==
  ASSUME NEW T, NEW P, NEW U, NEW Q, NEW a, NEW b, NEW z, NEW New,
         EndAdd1Nets(T, P, U, Q, a, b, z, New)
  PROVE  /\ Pairs(U, Q) = (Pairs(T, P) \ {a}) \cup New
         /\ \A c \in Pairs(T, P) \ {a} : Feeder(Q, c) = Feeder(P, c)
         /\ \A c \in New : Feeder(Q, c) = z[1]
<1>0. /\ a \in Agent /\ b \in Agent /\ T[a] = End /\ T[b] = Add1
      /\ \A c \in Agent : U[c] = IF c = b THEN 0 ELSE T[c]
      /\ \A p \in In(T) : Q[p] = IF p = <<a, 0>> THEN z ELSE P[p]
      /\ \A c : c \in New <=> z[2] = 0 /\ c = a
  BY DEF EndAdd1Nets
<1>1. \A c \in Agent : U[c] \in {Add, End} <=> T[c] \in {Add, End}
  BY <1>0 DEF Zero, Add1, Add, End
<1>2. \A c \in Agent : T[c] \in {Add, End} => <<c, 0>> \in In(T)
  BY UsedPortFacts
<1>3. \A c \in Agent : T[c] \in {Add, End} =>
        Q[<<c, 0>>] = IF c = a THEN z ELSE P[<<c, 0>>]
  BY <1>0, <1>2
<1>4. Pairs(U, Q) = (Pairs(T, P) \ {a}) \cup New
  BY <1>0, <1>1, <1>3 DEF Pairs
<1>5. \A c \in Pairs(T, P) \ {a} : Feeder(Q, c) = Feeder(P, c)
  BY <1>3 DEF Pairs, Feeder
<1>6. Q[<<a, 0>>] = z
  BY <1>0, <1>3
<1> QED  BY <1>0, <1>4, <1>5, <1>6 DEF Feeder

(* rule_add_zero makes a new pair when x and y are both principal.          *)
AddZeroNets(T, P, U, Q, a, b, x, y, New) ==
  /\ a \in Agent /\ b \in Agent /\ T[a] = Add /\ T[b] = Zero
  /\ y \in In(T) /\ y # <<a, 0>> /\ P[y] = <<a, 2>>
  /\ \A c \in Agent : U[c] = IF c \in {a, b} THEN 0 ELSE T[c]
  /\ \A p \in In(T) : Q[p] = IF p = y THEN x ELSE P[p]
  /\ \A c : c \in New <=> x[2] = 0 /\ y[2] = 0 /\ c = y[1]

LEMMA PairsAddZero ==
  ASSUME NEW T, NEW P, NEW U, NEW Q, NEW a, NEW b, NEW x, NEW y, NEW New,
         AddZeroNets(T, P, U, Q, a, b, x, y, New)
  PROVE  /\ Pairs(U, Q) = (Pairs(T, P) \ {a}) \cup New
         /\ \A c \in Pairs(T, P) \ {a} : Feeder(Q, c) = Feeder(P, c)
         /\ New \cap Pairs(T, P) = {}
         /\ \A c \in New : Feeder(Q, c) = x[1]
<1>1. /\ a \in Agent /\ b \in Agent /\ T[a] = Add /\ T[b] = Zero
      /\ y \in In(T) /\ y # <<a, 0>> /\ P[y] = <<a, 2>>
  BY DEF AddZeroNets
<1>2. /\ \A c \in Agent : U[c] = IF c \in {a, b} THEN 0 ELSE T[c]
      /\ \A p \in In(T) : Q[p] = IF p = y THEN x ELSE P[p]
      /\ \A c : c \in New <=> x[2] = 0 /\ y[2] = 0 /\ c = y[1]
  BY DEF AddZeroNets
<1>3. \A c \in Agent : T[c] \in {Add, End} => <<c, 0>> \in In(T)
  BY UsedPortFacts
<1>4. y \in Port /\ y = <<y[1], y[2]>> /\ y[1] \in Agent
  BY <1>1, InOutDisjoint, PortFacts
<1>5. \A c \in Agent : T[c] \in {Add, End} =>
        Q[<<c, 0>>] = IF y[2] = 0 /\ c = y[1] THEN x ELSE P[<<c, 0>>]
  BY <1>2, <1>3, <1>4
<1>6. y[2] = 0 => y[1] # a /\ y[1] # b /\ T[y[1]] \in {Add, End} /\ P[<<y[1], 0>>][2] = 2
  BY <1>1, <1>4 DEF In, Zero, Add1, Add, End
<1>7. Pairs(U, Q) = (Pairs(T, P) \ {a}) \cup New
  <2>1. \A c \in Agent : U[c] \in {Add, End} <=> T[c] \in {Add, End} /\ c # a
    BY <1>1, <1>2 DEF Zero, Add1, Add, End
  <2>2. ASSUME NEW c \in Agent
        PROVE  c \in Pairs(U, Q) <=> c \in (Pairs(T, P) \ {a}) \cup New
    <3>0. /\ c \in Pairs(U, Q) <=> U[c] \in {Add, End} /\ Q[<<c, 0>>][2] = 0
          /\ c \in Pairs(T, P) <=> T[c] \in {Add, End} /\ P[<<c, 0>>][2] = 0
      BY DEF Pairs
    <3>1. CASE y[2] = 0 /\ c = y[1]
      <4>1. U[c] \in {Add, End} /\ Q[<<c, 0>>] = x /\ P[<<c, 0>>][2] = 2
        BY <1>5, <1>6, <2>1, <3>1
      <4> QED  BY <1>2, <3>0, <3>1, <4>1
    <3>2. CASE ~(y[2] = 0 /\ c = y[1])
      <4>1. U[c] \in {Add, End} => Q[<<c, 0>>] = P[<<c, 0>>]
        BY <1>5, <2>1, <3>2
      <4> QED  BY <1>2, <2>1, <3>0, <3>2, <4>1
    <3> QED  BY <3>1, <3>2
  <2>3. Pairs(U, Q) \subseteq Agent /\ Pairs(T, P) \subseteq Agent /\ New \subseteq Agent
    BY <1>2, <1>4 DEF Pairs
  <2> QED  BY <2>2, <2>3
<1>8. New \cap Pairs(T, P) = {}
  BY <1>2, <1>6 DEF Pairs
<1>9. \A c \in Pairs(T, P) \ {a} : Feeder(Q, c) = Feeder(P, c)
  <2>1. ASSUME NEW c \in Pairs(T, P)  PROVE Q[<<c, 0>>] = P[<<c, 0>>]
    <3>1. c \in Agent /\ T[c] \in {Add, End} /\ ~(y[2] = 0 /\ c = y[1])
      BY <1>6 DEF Pairs
    <3> QED  BY <1>5, <3>1
  <2> QED  BY <2>1 DEF Feeder
<1>10. \A c \in New : Feeder(Q, c) = x[1]
  <2>1. y[2] = 0 => Q[<<y[1], 0>>] = x
    BY <1>4, <1>5, <1>6
  <2> QED  BY <1>2, <2>1 DEF Feeder
<1> QED  BY <1>7, <1>8, <1>9, <1>10

(* rule_add_add1 makes a pair of y's agent and the new add1 c when y is     *)
(* principal, and one of the new add d and z's agent when z is.             *)
AddAdd1Nets(T, P, U, Q, a, b, c, d, y, z, NewY, NewZ) ==
  /\ a \in Agent /\ b \in Agent /\ T[a] = Add /\ T[b] = Add1
  /\ c \in Agent /\ d \in Agent /\ c # d /\ T[c] = 0 /\ T[d] = 0
  /\ y \in In(T) /\ y # <<a, 0>> /\ P[y] = <<a, 2>>
  /\ \A e \in Agent : U[e] = IF e \in {a, b} THEN 0 ELSE IF e = c THEN Add1
                             ELSE IF e = d THEN Add ELSE T[e]
  /\ Q[y] = <<c, 0>> /\ Q[<<d, 0>>] = z /\ \A p \in In(T) \ {y} : Q[p] = P[p]
  /\ \A e : e \in NewY <=> y[2] = 0 /\ e = y[1]
  /\ \A e : e \in NewZ <=> z[2] = 0 /\ e = d

LEMMA PairsAddAdd1 ==
  ASSUME NEW T, NEW P, NEW U, NEW Q, NEW a, NEW b, NEW c, NEW d, NEW y, NEW z,
         NEW NewY, NEW NewZ, AddAdd1Nets(T, P, U, Q, a, b, c, d, y, z, NewY, NewZ)
  PROVE  /\ Pairs(U, Q) = (Pairs(T, P) \ {a}) \cup NewY \cup NewZ
         /\ \A e \in Pairs(T, P) \ {a} : Feeder(Q, e) = Feeder(P, e)
         /\ NewY \cap Pairs(T, P) = {} /\ d \notin Pairs(T, P) /\ d \notin NewY
         /\ \A e \in NewY : Feeder(Q, e) = c /\ T[e] \in {Add, End} /\ e # a
         /\ Feeder(Q, d) = z[1]
<1>0. /\ a \in Agent /\ b \in Agent /\ T[a] = Add /\ T[b] = Add1
      /\ c \in Agent /\ d \in Agent /\ c # d /\ T[c] = 0 /\ T[d] = 0
      /\ y \in In(T) /\ y # <<a, 0>> /\ P[y] = <<a, 2>>
  BY DEF AddAdd1Nets
<1>2. /\ \A e \in Agent : U[e] = IF e \in {a, b} THEN 0 ELSE IF e = c THEN Add1
                                 ELSE IF e = d THEN Add ELSE T[e]
      /\ Q[y] = <<c, 0>> /\ Q[<<d, 0>>] = z /\ \A p \in In(T) \ {y} : Q[p] = P[p]
      /\ \A e : e \in NewY <=> y[2] = 0 /\ e = y[1]
      /\ \A e : e \in NewZ <=> z[2] = 0 /\ e = d
  BY DEF AddAdd1Nets
<1>1. c \notin {a, b} /\ d \notin {a, b}
  BY <1>0 DEF Add, Add1
<1>3. \A e \in Agent : T[e] \in {Add, End} => <<e, 0>> \in In(T)
  BY UsedPortFacts
<1>4. y \in Port /\ y = <<y[1], y[2]>> /\ y[1] \in Agent
  BY <1>0, InOutDisjoint, PortFacts
<1>5. \A e \in Agent : T[e] \in {Add, End} =>
        Q[<<e, 0>>] = IF y[2] = 0 /\ e = y[1] THEN <<c, 0>> ELSE P[<<e, 0>>]
  BY <1>0, <1>2, <1>3, <1>4
<1>6. y[2] = 0 => y[1] # a /\ y[1] # b /\ y[1] # d /\ T[y[1]] \in {Add, End}
                  /\ P[<<y[1], 0>>][2] = 2
  BY <1>0, <1>4 DEF In, Zero, Add1, Add, End
<1>7. T[d] \notin {Add, End} /\ T[c] \notin {Add, End} /\ T[b] \notin {Add, End}
  BY <1>0 DEF Zero, Add1, Add, End
<1>8. Pairs(U, Q) = (Pairs(T, P) \ {a}) \cup NewY \cup NewZ
  <2>1. \A e \in Agent : U[e] \in {Add, End} <=> e = d \/ (T[e] \in {Add, End} /\ e # a)
    BY <1>0, <1>2, <1>1, <1>7 DEF Zero, Add1, Add, End
  <2>2. ASSUME NEW e \in Agent
        PROVE  e \in Pairs(U, Q) <=> e \in (Pairs(T, P) \ {a}) \cup NewY \cup NewZ
    <3>0. /\ e \in Pairs(U, Q) <=> U[e] \in {Add, End} /\ Q[<<e, 0>>][2] = 0
          /\ e \in Pairs(T, P) <=> T[e] \in {Add, End} /\ P[<<e, 0>>][2] = 0
          /\ e \in NewY <=> y[2] = 0 /\ e = y[1]
          /\ e \in NewZ <=> z[2] = 0 /\ e = d
      <4>1. /\ e \in NewY <=> y[2] = 0 /\ e = y[1]
            /\ e \in NewZ <=> z[2] = 0 /\ e = d
        BY <1>2
      <4> QED  BY <4>1 DEF Pairs
    <3>1. CASE e = d
      <4>1. Q[<<e, 0>>] = z
        BY <1>2, <3>1
      <4> QED  BY <1>6, <1>7, <2>1, <3>0, <3>1, <4>1
    <3>2. CASE e # d /\ y[2] = 0 /\ e = y[1]
      <4>1. Q[<<e, 0>>] = <<c, 0>> /\ P[<<e, 0>>][2] = 2
        BY <1>5, <1>6, <3>2
      <4> QED  BY <1>6, <2>1, <3>0, <3>2, <4>1
    <3>3. CASE e # d /\ ~(y[2] = 0 /\ e = y[1])
      <4>1. T[e] \in {Add, End} => Q[<<e, 0>>] = P[<<e, 0>>]
        BY <1>5, <3>3
      <4> QED  BY <2>1, <3>0, <3>3, <4>1
    <3> QED  BY <3>1, <3>2, <3>3
  <2>3. Pairs(U, Q) \subseteq Agent /\ Pairs(T, P) \subseteq Agent /\ NewY \subseteq Agent /\ NewZ \subseteq Agent
    BY <1>0, <1>2, <1>4 DEF Pairs
  <2> QED  BY <2>2, <2>3
<1>9. NewY \cap Pairs(T, P) = {} /\ d \notin Pairs(T, P) /\ d \notin NewY
  BY <1>2, <1>6, <1>7 DEF Pairs
<1>10. \A e \in Pairs(T, P) \ {a} : Feeder(Q, e) = Feeder(P, e)
  <2>1. ASSUME NEW e \in Pairs(T, P)  PROVE Q[<<e, 0>>] = P[<<e, 0>>]
    <3>1. e \in Agent /\ T[e] \in {Add, End} /\ ~(y[2] = 0 /\ e = y[1])
      BY <1>6 DEF Pairs
    <3> QED  BY <1>5, <3>1
  <2> QED  BY <2>1 DEF Feeder
<1>11. \A e \in NewY : Feeder(Q, e) = c /\ T[e] \in {Add, End} /\ e # a
  <2>1. y[2] = 0 => Q[<<y[1], 0>>] = <<c, 0>>
    BY <1>4, <1>5, <1>6
  <2> QED  BY <1>2, <1>6, <2>1 DEF Feeder
<1> QED  BY <1>2, <1>8, <1>9, <1>10, <1>11 DEF Feeder

(* Every set of natural numbers has a least one. *)
LEMMA LeastNat ==
  ASSUME NEW S \in SUBSET Nat, S # {}
  PROVE  \E m \in S : \A n \in S : m <= n
<1> DEFINE R == {ss \in Nat \X Nat : ss[1] < ss[2]}
<1>1. \A x, y \in Nat : <<y, x>> \in R <=> y < x
  OBVIOUS
<1> HIDE DEF R
<1>2. IsWellFoundedOn(R, Nat)
  BY NatLessThanWellFounded, Zenon DEF OpToRel, R
<1>3. PICK m \in S : \A n \in S : <<n, m>> \notin R
  BY <1>2, WFMin
<1>4. \A n \in S : ~(n < m)
  BY <1>1, <1>3
<1> QED  BY <1>3, <1>4

(* A net without an active pair is empty: the lowest agent gives nothing on, *)
(* so it is an end; only the add could stand between it and a pair.         *)
LEMMA NoPairsNoAgents ==
  ASSUME NEW T, NEW P, NEW r, Flow(T, P, {}, r), Single(T), Pairs(T, P) = {}
  PROVE  \A a \in Agent : T[a] = 0
<1> SUFFICES ASSUME NEW g \in Agent, T[g] # 0  PROVE FALSE
  OBVIOUS
<1>0. T \in [Agent -> 0 .. 4] /\ r \in [Agent -> Nat]
  BY DEF Flow, Wired
<1> DEFINE S == {r[a] : a \in {a \in Agent : T[a] # 0}}
<1>1. PICK m \in Agent : T[m] # 0 /\ \A a \in Agent : T[a] # 0 => r[m] <= r[a]
  <2>1. S \in SUBSET Nat /\ r[g] \in S
    BY <1>0
  <2>2. \E k \in S : \A n \in S : k <= n
    <3>1. S # {}
      BY <2>1
    <3> HIDE DEF S
    <3> QED  BY <2>1, <3>1, LeastNat
  <2> QED  BY <2>2
<1>2. \A p \in In(T) : /\ P[p] \in Out(T) /\ P[p][1] \in Agent /\ P[p] \in Port
                       /\ r[p[1]] < r[P[p][1]]
  BY PortFacts, InOutDisjoint DEF Flow, Wired, Downhill
<1>3. \A p \in Out(T) : /\ P[p] \in In(T) /\ r[P[p][1]] < r[p[1]]
                        /\ P[p][1] \in Agent /\ T[P[p][1]] # 0
  <2>1. ASSUME NEW p \in Out(T)
        PROVE  P[p] \in In(T) /\ r[P[p][1]] < r[p[1]] /\ P[p][1] \in Agent
    BY PortFacts, InOutDisjoint DEF Flow, Wired, Downhill
  <2> QED  BY <2>1 DEF In, Zero, Add1, Add, End
<1>4. T[m] = End
  <2>1. ASSUME NEW p \in Out(T)  PROVE p[1] # m
    <3>1. P[p][1] \in Agent /\ r[m] <= r[P[p][1]] /\ r[P[p][1]] < r[p[1]]
      BY <1>1, <1>3
    <3> QED  BY <1>0, <3>1
  <2>2. T[m] \notin {Zero, Add1, Add}
    <3>1. /\ T[m] \in {Zero, Add1} => <<m, 0>> \in Out(T)
          /\ T[m] = Add => <<m, 2>> \in Out(T)
      BY UsedPortFacts
    <3>2. <<m, 0>>[1] = m /\ <<m, 2>>[1] = m
      OBVIOUS
    <3> QED  BY <2>1, <3>1, <3>2
  <2> QED  BY <1>0, <1>1, <2>2 DEF Zero, Add1, Add, End
<1>5. \A e \in Agent : T[e] \in {Add, End} =>
        \E f \in Agent : T[f] = Add /\ r[e] < r[f]
  <2> SUFFICES ASSUME NEW e \in Agent, T[e] \in {Add, End}
               PROVE  \E f \in Agent : T[f] = Add /\ r[e] < r[f]
    OBVIOUS
  <2> DEFINE p == <<e, 0>>  q == P[p]
  <2>1. p \in In(T) /\ p[1] = e
    BY UsedPortFacts
  <2>2. q[2] # 0
    BY DEF Pairs
  <2> HIDE DEF p
  <2>3. q \in Out(T) /\ q[1] \in Agent /\ r[e] < r[q[1]]
    BY <1>2, <2>1
  <2> QED  BY <2>2, <2>3 DEF Out
<1>6. PICK f \in Agent : T[f] = Add
  BY <1>4, <1>5
<1>7. PICK e \in Agent : T[e] = Add /\ r[f] < r[e]
  BY <1>5, <1>6
<1>8. e = f
  BY <1>6, <1>7 DEF Single
<1> QED  BY <1>0, <1>7, <1>8

-----------------------------------------------------------------------------
(* The ring holds each pair of a set once, by one of its two agents.        *)
Queued(h, S, P) ==
  LET unread == h.head .. h.tail - 1
      holds(i, c) == h.cell[i % QSIZE] \in {c, Feeder(P, c)}
  IN  /\ h.head \in Nat /\ h.tail \in Nat /\ h.head <= h.tail
      /\ h.cell \in [0 .. QSIZE - 1 -> Agent \cup {0}]
      /\ \A i \in unread : \E c \in S : holds(i, c)
      /\ \A c \in S : \E i \in unread : holds(i, c)
      /\ \A c \in S : \A i, j \in unread : holds(i, c) /\ holds(j, c) => i = j

(* A set is as long as the ring: none, one or two pairs. *)
LEMMA QueuedLength ==
  ASSUME NEW h, NEW S, NEW P, Queued(h, S, P)
  PROVE  /\ S = {} => h.tail = h.head
         /\ S # {} => h.head < h.tail
         /\ \A a : S \subseteq {a} => h.tail <= h.head + 1
         /\ \A a, b : S \subseteq {a, b} => h.tail <= h.head + 2
<1>1. h.head \in Nat /\ h.tail \in Nat /\ h.head <= h.tail
  BY DEF Queued
<1>2. \A k \in {h.head, h.head + 1, h.head + 2} : k < h.tail =>
         \E c \in S : h.cell[k % QSIZE] \in {c, Feeder(P, c)}
  <2> SUFFICES ASSUME NEW k \in {h.head, h.head + 1, h.head + 2}, k < h.tail
               PROVE  \E c \in S : h.cell[k % QSIZE] \in {c, Feeder(P, c)}
    OBVIOUS
  <2>1. k \in h.head .. h.tail - 1
    BY <1>1
  <2> QED  BY <2>1 DEF Queued
<1>3. \A c \in S : \A i, j \in h.head .. h.tail - 1 :
        h.cell[i % QSIZE] \in {c, Feeder(P, c)} /\ h.cell[j % QSIZE] \in {c, Feeder(P, c)} => i = j
  BY DEF Queued
<1>4. S = {} => h.tail = h.head
  BY <1>1, <1>2
<1>5. S # {} => h.head < h.tail
  BY <1>1 DEF Queued
<1>6. ASSUME NEW a, S \subseteq {a}  PROVE h.tail <= h.head + 1
  <2> SUFFICES ASSUME h.head + 1 < h.tail PROVE FALSE
    BY <1>1
  <2>1. h.head \in h.head .. h.tail - 1 /\ h.head + 1 \in h.head .. h.tail - 1
    BY <1>1
  <2> QED  BY <1>1, <1>2, <1>3, <1>6, <2>1
<1>7. ASSUME NEW a, NEW b, S \subseteq {a, b}  PROVE h.tail <= h.head + 2
  <2> SUFFICES ASSUME h.head + 2 < h.tail PROVE FALSE
    BY <1>1
  <2>1. h.head \in h.head .. h.tail - 1 /\ h.head + 1 \in h.head .. h.tail - 1
        /\ h.head + 2 \in h.head .. h.tail - 1
    BY <1>1
  <2>2. PICK c0 \in S : h.cell[h.head % QSIZE] \in {c0, Feeder(P, c0)}
    BY <1>1, <1>2
  <2>3. PICK c1 \in S : h.cell[(h.head + 1) % QSIZE] \in {c1, Feeder(P, c1)}
    BY <1>1, <1>2
  <2>4. PICK c2 \in S : h.cell[(h.head + 2) % QSIZE] \in {c2, Feeder(P, c2)}
    BY <1>1, <1>2
  <2>5. c0 # c1
    BY <1>1, <1>3, <2>1, <2>2, <2>3
  <2>6. c0 # c2
    BY <1>1, <1>3, <2>1, <2>2, <2>4
  <2>7. c1 # c2
    BY <1>1, <1>3, <2>1, <2>3, <2>4
  <2> QED  BY <1>7, <2>5, <2>6, <2>7
<1> QED  BY <1>4, <1>5, <1>6, <1>7

(* The driver takes the oldest entry, and with it its pair. *)
LEMMA QueuedPop ==
  ASSUME NEW h, NEW S, NEW P, Queued(h, S, P), NEW a \in S,
         h.head < h.tail, h.cell[h.head % QSIZE] \in {a, Feeder(P, a)},
         \A c, e \in S : {c, Feeder(P, c)} \cap {e, Feeder(P, e)} # {} => c = e,
         NEW g, g.cell = h.cell, g.tail = h.tail, g.head = h.head + 1
  PROVE  Queued(g, S \ {a}, P)
<1>1. h.head \in Nat /\ h.tail \in Nat /\ h.head < h.tail
  BY DEF Queued
<1>2. /\ h.head \in h.head .. h.tail - 1
      /\ g.head .. g.tail - 1 = (h.head .. h.tail - 1) \ {h.head}
  BY <1>1
<1>3. g.head \in Nat /\ g.tail \in Nat /\ g.head <= g.tail
  BY <1>1
<1> DEFINE H(i, c) == h.cell[i % QSIZE] \in {c, Feeder(P, c)}
<1>4. \A i : \A c, e \in S : H(i, c) /\ H(i, e) => c = e
  OBVIOUS
<1>5. H(h.head, a)
  OBVIOUS
<1>6. /\ \A i \in h.head .. h.tail - 1 : \E c \in S : H(i, c)
      /\ \A c \in S : \E i \in h.head .. h.tail - 1 : H(i, c)
      /\ \A c \in S : \A i, j \in h.head .. h.tail - 1 : H(i, c) /\ H(j, c) => i = j
  BY DEF Queued
<1> HIDE DEF H
<1>7. /\ \A i \in g.head .. g.tail - 1 : \E c \in S \ {a} : H(i, c)
      /\ \A c \in S \ {a} : \E i \in g.head .. g.tail - 1 : H(i, c)
      /\ \A c \in S \ {a} : \A i, j \in g.head .. g.tail - 1 : H(i, c) /\ H(j, c) => i = j
  BY <1>2, <1>4, <1>5, <1>6
<1> QED  BY <1>3, <1>7 DEF Queued, H

(* Two places of the ring that are less than its size apart are different. *)
LEMMA RingPlaces ==
  ASSUME NEW i \in Nat, NEW j \in Nat, i < j, j - i < QSIZE
  PROVE  i % QSIZE # j % QSIZE
<1> SUFFICES ASSUME i % QSIZE = j % QSIZE PROVE FALSE
  OBVIOUS
<1> DEFINE p == i \div QSIZE
           q == j \div QSIZE
           m == i % QSIZE
<1>1. \A k \in Nat : k = QSIZE * (k \div QSIZE) + (k % QSIZE)
                     /\ k \div QSIZE \in Nat /\ k % QSIZE \in Nat
  BY HeapAssumption, Z3
<1>2. i = QSIZE * p + m /\ j = QSIZE * q + m /\ p \in Nat /\ q \in Nat /\ m \in Nat
  BY <1>1
<1> HIDE DEF p, q, m
<1>3. j - i = QSIZE * (q - p) /\ q - p \in Int /\ (q - p >= 1 \/ q - p <= 0)
  BY <1>2, HeapAssumption
<1>4. CASE q - p >= 1
  <2>1. QSIZE * (q - p) >= QSIZE
    BY <1>3, <1>4, HeapAssumption
  <2> QED  BY <1>3, <2>1, HeapAssumption
<1>5. CASE q - p <= 0
  <2>1. QSIZE * (q - p) <= 0
    BY <1>3, <1>5, HeapAssumption
  <2> QED  BY <1>3, <2>1
<1> QED  BY <1>3, <1>4, <1>5

(* enq of one agent of a new pair, when the ring is not full. *)
LEMMA QueuedPush ==
  ASSUME NEW h, NEW S, NEW P, Queued(h, S, P), NEW Q, NEW a, NEW e \in {a, Feeder(Q, a)},
         e \in Agent, a \notin S, h.tail - h.head < QSIZE,
         \A c \in S : Feeder(Q, c) = Feeder(P, c),
         \A c \in S : {a, Feeder(Q, a)} \cap {c, Feeder(Q, c)} = {},
         NEW g, g.cell = [h.cell EXCEPT ![h.tail % QSIZE] = e],
         g.tail = h.tail + 1, g.head = h.head
  PROVE  Queued(g, S \cup {a}, Q)
<1>1. /\ h.head \in Nat /\ h.tail \in Nat /\ h.head <= h.tail
      /\ h.cell \in [0 .. QSIZE - 1 -> Agent \cup {0}]
  BY DEF Queued
<1>2. g.head .. g.tail - 1 = (h.head .. h.tail - 1) \cup {h.tail} /\ h.tail \notin h.head .. h.tail - 1
      /\ g.head \in Nat /\ g.tail \in Nat /\ g.head <= g.tail
  BY <1>1
<1>3. h.tail % QSIZE \in 0 .. QSIZE - 1 /\ \A i \in h.head .. h.tail - 1 : i % QSIZE # h.tail % QSIZE
  <2>1. h.tail % QSIZE \in 0 .. QSIZE - 1
    BY <1>1, HeapAssumption
  <2>2. ASSUME NEW i \in h.head .. h.tail - 1  PROVE i % QSIZE # h.tail % QSIZE
    <3>1. i \in Nat /\ i < h.tail /\ h.tail - i < QSIZE
      BY <1>1, HeapAssumption
    <3> QED  BY <1>1, <3>1, RingPlaces
  <2> QED  BY <2>1, <2>2
<1>4. /\ g.cell[h.tail % QSIZE] = e
      /\ \A i \in h.head .. h.tail - 1 : g.cell[i % QSIZE] = h.cell[i % QSIZE]
      /\ g.cell \in [0 .. QSIZE - 1 -> Agent \cup {0}]
  <2>1. \A i \in h.head .. h.tail - 1 : i % QSIZE \in 0 .. QSIZE - 1
    BY <1>1, HeapAssumption
  <2> QED  BY <1>1, <1>3, <2>1
<1> DEFINE H(i, c) == h.cell[i % QSIZE] \in {c, Feeder(P, c)}
           G(i, c) == g.cell[i % QSIZE] \in {c, Feeder(Q, c)}
<1>5. /\ \A i \in h.head .. h.tail - 1 : \E c \in S : H(i, c)
      /\ \A c \in S : \E i \in h.head .. h.tail - 1 : H(i, c)
      /\ \A c \in S : \A i, j \in h.head .. h.tail - 1 : H(i, c) /\ H(j, c) => i = j
  BY DEF Queued
<1>6. /\ \A i \in h.head .. h.tail - 1 : \A c \in S : G(i, c) <=> H(i, c)
      /\ G(h.tail, a) /\ \A c \in S : ~G(h.tail, c)
  BY <1>4
<1>7. \A i \in h.head .. h.tail - 1 : ~G(i, a)
  <2> SUFFICES ASSUME NEW i \in h.head .. h.tail - 1 PROVE ~G(i, a)
    OBVIOUS
  <2>1. PICK c \in S : G(i, c)
    BY <1>5, <1>6
  <2> QED  BY <2>1
<1> HIDE DEF H, G
<1>8. /\ \A i \in g.head .. g.tail - 1 : \E c \in S \cup {a} : G(i, c)
      /\ \A c \in S \cup {a} : \E i \in g.head .. g.tail - 1 : G(i, c)
      /\ \A c \in S \cup {a} : \A i, j \in g.head .. g.tail - 1 : G(i, c) /\ G(j, c) => i = j
  BY <1>2, <1>5, <1>6, <1>7
<1> QED  BY <1>2, <1>4, <1>8 DEF Queued, G

(* What the wires of no pair say is not read. *)
LEMMA QueuedSame ==
  ASSUME NEW h, NEW S, NEW P, Queued(h, S, P), NEW Q,
         \A c \in S : Feeder(Q, c) = Feeder(P, c),
         NEW g, g.cell = h.cell, g.tail = h.tail, g.head = h.head
  PROVE  Queued(g, S, Q)
BY DEF Queued

-----------------------------------------------------------------------------
(* The net of a heap. *)
Types(h) == [a \in Agent |-> IF Live(h, a) THEN h.word[a] ELSE 0]

(* Every free block is on the list: no set of them is closed under the      *)
(* links, as a circle apart from the list would be.                         *)
Complete(h) == \A S \in SUBSET FreeAgents(h) : S # {} => \E f \in S : h.word[f] \notin S

Pool(h) == SoundHeap(h) /\ Complete(h)

(* Two heaps that differ in the words and the free list only. *)
SameButPool(g, h) == /\ g.port = h.port /\ g.cell = h.cell /\ g.head = h.head
                     /\ g.tail = h.tail /\ g.count = h.count /\ g.err = h.err

LEMMA TypesFacts ==
  ASSUME NEW h, SoundHeap(h)
  PROVE  /\ Types(h) \in [Agent -> 0 .. 4]
         /\ \A a \in Agent : Live(h, a) <=> Types(h)[a] # 0
         /\ \A a : Live(h, a) => a \in Agent /\ Types(h)[a] = h.word[a] /\ Types(h)[a] \in Type
<1>1. \A a \in Agent : Types(h)[a] = IF Live(h, a) THEN h.word[a] ELSE 0
  BY DEF Types
<1>2. \A a : Live(h, a) => a \in Agent /\ h.word[a] \in 1 .. 4
  BY DEF Live, Type
<1>3. \A a \in Agent : Types(h)[a] \in 0 .. 4
  BY <1>1, <1>2
<1>4. Types(h) \in [Agent -> 0 .. 4]
  BY <1>3 DEF Types
<1> QED  BY <1>1, <1>2, <1>4 DEF Type

(* newag from a non-empty list gives a free block its type. *)
LEMMA NewAgEffect ==
  ASSUME NEW h, Pool(h), h.free # 0, NEW t \in Type
  PROVE  LET g == NewAg(h, t)
         IN  /\ Pool(g) /\ SameButPool(g, h) /\ h.free \in Agent
             /\ Types(h)[h.free] = 0 /\ Types(g) = [Types(h) EXCEPT ![h.free] = t]
<1> DEFINE g == NewAg(h, t)
<1>1. /\ SoundHeap(h) /\ SoundHeap(g)
      /\ h.free \in Agent /\ ~Live(h, h.free) /\ Live(g, h.free)
      /\ \A a \in Agent : a # h.free => g.word[a] = h.word[a]
  BY NewAgSound DEF Pool
<1>2. SameButPool(g, h) /\ g.word = [h.word EXCEPT ![h.free] = t]
  BY <1>1 DEF NewAg, SoundHeap, Heap, SameButPool
<1>3. g.word[h.free] = t
  BY <1>1, <1>2 DEF SoundHeap, Heap
<1> HIDE DEF g
<1>4. \A a \in Agent \ {h.free} : Live(g, a) <=> Live(h, a)
  BY <1>1 DEF Live
<1>5. Types(g) = [Types(h) EXCEPT ![h.free] = t] /\ Types(h)[h.free] = 0
  BY <1>1, <1>3, <1>4 DEF Types
<1>6. FreeAgents(g) \subseteq FreeAgents(h) \ {h.free}
  BY <1>1, <1>4 DEF FreeAgents, LiveAgents
<1>7. Complete(g)
  <2> SUFFICES ASSUME NEW S \in SUBSET FreeAgents(g), S # {}
               PROVE  \E f \in S : g.word[f] \notin S
    BY DEF Complete
  <2>1. S \in SUBSET FreeAgents(h) /\ \A f \in S : f \in Agent /\ f # h.free
    BY <1>6 DEF FreeAgents
  <2>2. PICK f \in S : h.word[f] \notin S
    BY <2>1 DEF Pool, Complete
  <2> QED  BY <1>1, <2>1, <2>2
<1> QED  BY <1>1, <1>2, <1>5, <1>7 DEF Pool, g

(* freeag puts a live agent in front of the list. *)
LEMMA FreeAgEffect ==
  ASSUME NEW h, Pool(h), NEW a, Live(h, a)
  PROVE  LET g == FreeAg(h, a)
         IN  /\ Pool(g) /\ SameButPool(g, h)
             /\ Types(g) = [Types(h) EXCEPT ![a] = 0]
<1> DEFINE g == FreeAg(h, a)
<1>1. /\ SoundHeap(h) /\ SoundHeap(g) /\ a \in Agent
      /\ \A b \in Agent : b # a => g.word[b] = h.word[b]
  BY FreeAgSound DEF Pool, Live
<1>2. SameButPool(g, h) /\ g.word = [h.word EXCEPT ![a] = h.free]
  BY <1>1 DEF FreeAg, SoundHeap, Heap, SameButPool
<1>3. g.word[a] = h.free /\ h.free \notin Type /\ h.free # a
  <2>1. h.free \in FreeAgents(h) \cup {0} /\ h.free \in Agent \cup {0}
    BY <1>1 DEF SoundHeap, FreeListSound, Heap
  <2>2. h.free \notin Type /\ 0 \notin Agent
    BY <2>1, HeapAssumption DEF Agent, Type
  <2>3. a \notin FreeAgents(h)
    BY DEF FreeAgents, LiveAgents, Live
  <2> QED  BY <1>1, <1>2, <2>1, <2>2, <2>3 DEF SoundHeap, Heap
<1> HIDE DEF g
<1>4. \A b \in Agent \ {a} : Live(g, b) <=> Live(h, b)
  BY <1>1 DEF Live
<1>5. ~Live(g, a)
  BY <1>3 DEF Live
<1>6. Types(g) = [Types(h) EXCEPT ![a] = 0]
  BY <1>1, <1>4, <1>5 DEF Types
<1>7. FreeAgents(g) \subseteq FreeAgents(h) \cup {a} /\ FreeAgents(g) \subseteq Agent
  BY <1>1, <1>4 DEF FreeAgents, LiveAgents
<1>8. Complete(g)
  <2> SUFFICES ASSUME NEW S \in SUBSET FreeAgents(g), S # {}
               PROVE  \E f \in S : g.word[f] \notin S
    BY DEF Complete
  <2>1. CASE S \ {a} = {}
    BY <1>3, <2>1
  <2>2. CASE S \ {a} # {}
    <3>1. S \ {a} \in SUBSET FreeAgents(h)
      BY <1>7
    <3>2. PICK f \in S \ {a} : h.word[f] \notin S \ {a}
      BY <2>2, <3>1 DEF Pool, Complete
    <3>3. h.word[f] # a
      <4>1. h.word[f] \in FreeAgents(h) \cup {0}
        BY <1>1, <3>1, <3>2 DEF SoundHeap, FreeListSound
      <4> QED  BY <1>1, <4>1, HeapAssumption DEF FreeAgents, LiveAgents, Agent
    <3> QED  BY <1>1, <1>7, <3>2, <3>3
  <2> QED  BY <2>1, <2>2
<1> QED  BY <1>1, <1>2, <1>6, <1>8 DEF Pool, g

(* An empty list means that every agent is in use. *)
LEMMA EmptyPool ==
  ASSUME NEW h, Pool(h), h.free = 0
  PROVE  \A a \in Agent : Types(h)[a] # 0
<1> DEFINE F == FreeAgents(h)
<1>1. \A f \in F : h.word[f] \in F
  BY DEF Pool, SoundHeap, FreeListSound
<1>2. F = {}
  BY <1>1 DEF Pool, Complete
<1> QED  BY <1>2, TypesFacts DEF Pool, FreeAgents, LiveAgents

(* What leaves words and list alone leaves pool and types alone. *)
LEMMA SamePool ==
  ASSUME NEW h, NEW g, Pool(h), SoundHeap(g), g.word = h.word
  PROVE  Pool(g) /\ Types(g) = Types(h) /\ \A a : Live(g, a) <=> Live(h, a)
<1>1. \A a : Live(g, a) <=> Live(h, a)
  BY DEF Live
<1>2. Types(g) = Types(h) /\ FreeAgents(g) = FreeAgents(h)
  BY <1>1 DEF Types, FreeAgents, LiveAgents
<1> QED  BY <1>1, <1>2 DEF Pool, Complete

(* After Reset every block is on the list. *)
LEMMA ResetEffect ==
  ASSUME NEW h \in Heap
  PROVE  /\ Pool(Reset(h)) /\ Types(Reset(h)) = [a \in Agent |-> 0]
         /\ Reset(h).head = 0 /\ Reset(h).tail = 0 /\ Reset(h).count = 0 /\ Reset(h).err = 0
<1> DEFINE g == Reset(h)
<1>1. SoundHeap(g)
  BY ResetSound
<1>2. /\ g.word = [a \in Agent |-> IF a + 1 \in Agent THEN a + 1 ELSE 0]
      /\ g.head = 0 /\ g.tail = 0 /\ g.count = 0 /\ g.err = 0
  BY DEF Reset, Heap
<1> HIDE DEF g
<1>3. Agent \subseteq Nat /\ \A a \in Agent : a > 4
  BY HeapAssumption DEF Agent
<1>4. \A a \in Agent : ~Live(g, a)
  BY <1>2, <1>3 DEF Live, Type
<1>5. Types(g) = [a \in Agent |-> 0]
  BY <1>4 DEF Types
<1>6. Complete(g)
  <2> SUFFICES ASSUME NEW S \in SUBSET FreeAgents(g), S # {}
               PROVE  \E f \in S : g.word[f] \notin S
    BY DEF Complete
  <2>1. S \subseteq Agent
    BY DEF FreeAgents
  <2> DEFINE D == {AGENTS + NAGENTS - f : f \in S}
  <2>2. \A f \in S : AGENTS + NAGENTS - f \in Nat
    BY <2>1, HeapAssumption DEF Agent
  <2>3. \E m \in D : \A n \in D : m <= n
    <3>1. D \in SUBSET Nat /\ D # {}
      BY <2>2
    <3> HIDE DEF D
    <3> QED  BY <3>1, LeastNat
  <2>4. PICK f \in S : \A e \in S : AGENTS + NAGENTS - f <= AGENTS + NAGENTS - e
    BY <2>3
  <2>5. f \in Agent /\ f + 1 \notin S /\ 0 \notin S
    BY <2>1, <2>4, <1>3, HeapAssumption
  <2> QED  BY <1>2, <2>5
<1> QED  BY <1>1, <1>2, <1>5, <1>6 DEF Pool, g

(* enq behind the test for a principal port touches the ring only. *)
LEMMA EnqPrincipalEffect ==
  ASSUME NEW h, Pool(h), NEW p \in Port
  PROVE  LET g == EnqPrincipal(h, p)
         IN  /\ Pool(g) /\ g.word = h.word /\ g.free = h.free /\ Types(g) = Types(h)
             /\ \A a : Live(g, a) <=> Live(h, a)
             /\ g.port = h.port /\ g.count = h.count /\ g.err = h.err /\ g.head = h.head
             /\ p[2] # 0 => g.cell = h.cell /\ g.tail = h.tail
             /\ p[2] = 0 => /\ g.cell = [h.cell EXCEPT ![h.tail % QSIZE] = p[1]]
                            /\ g.tail = h.tail + 1
<1> DEFINE g == EnqPrincipal(h, p)
<1>1. SoundHeap(g) /\ g.word = h.word /\ g.free = h.free
  BY EnqPrincipalSound, PortValues DEF Pool
<1>2. /\ g.port = h.port /\ g.count = h.count /\ g.err = h.err /\ g.head = h.head
      /\ p[2] # 0 => g.cell = h.cell /\ g.tail = h.tail
      /\ p[2] = 0 => /\ g.cell = [h.cell EXCEPT ![h.tail % QSIZE] = p[1]]
                     /\ g.tail = h.tail + 1
  BY DEF EnqPrincipal, Enq, Pool, SoundHeap, Heap
<1> HIDE DEF g
<1>3. Pool(g) /\ Types(g) = Types(h) /\ \A a : Live(g, a) <=> Live(h, a)
  BY <1>1, SamePool
<1> QED  BY <1>1, <1>2, <1>3 DEF g
=============================================================================
