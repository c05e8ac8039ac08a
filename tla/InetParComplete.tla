-------------------------- MODULE InetParComplete --------------------------
(* par-run for any number of VMs, depths and pool: a run the host accepts    *)
(* has reduced every tree to nothing, and with enough blocks it does accept. *)
(* Each VM reduces an interaction net of InetNet.                            *)
(*                                                                           *)
(* The ring must have room for two entries per leaf (RingFits). Unlike in    *)
(* Inet.tla the driver meets stale entries, so that an entry need not be a   *)
(* pair's: the adds of the tree are in the ring before they are pairs.       *)
EXTENDS InetParProofs, InetReduction

-----------------------------------------------------------------------------
(* What the driver keeps, L being the leaves of the tree.                    *)

(* Every pair waits in the ring, under either name; there may be more.       *)
Covered(h, S, P) ==
  /\ h.head \in Nat /\ h.tail \in Nat /\ h.head <= h.tail
  /\ h.cell \in [0 .. QSIZE - 1 -> Agent \cup {0}]
  /\ \A c \in S : \E i \in h.head .. h.tail - 1 : h.cell[i % QSIZE] \in {c, Feeder(P, c)}

(* Entries of the ring beyond those of the pairs.                            *)
Roomy(h, S, L) == h.tail - h.head <= L + Cardinality(S)

Sized(T, count, L) == /\ Takers(T) <= L /\ Agents(T) <= 3 * L /\ Add1s(T) + count = L

Driving(h, L) ==
  /\ Pool(h) /\ h.err = 0 /\ h.count \in Nat
  /\ \E r : Flow(Types(h), h.port, {}, r)
  /\ Covered(h, Pairs(Types(h), h.port), h.port)
  /\ Roomy(h, Pairs(Types(h), h.port), L)
  /\ Sized(Types(h), h.count, L)

Short(L) == NAGENTS < 3 * L + 2

(* A VM that halted: all reduced and counted, or out of agents.              *)
Ended(h, L) == \/ h.err = 0 /\ h.count = L /\ LiveAgents(h) = {}
               \/ h.err = 2 /\ h.count \in Nat /\ h.count < L /\ Short(L)

-----------------------------------------------------------------------------
(* The roots a program holds: that of a left subtree in the slot of the      *)
(* frame that waits for the right one, the last one made in ret.             *)
Keys(st) == {i \in 1 .. Len(st) : st[i][2] = "right"}
              \cup (IF st # <<>> /\ st[Len(st)][2] = "call" THEN {} ELSE {Len(st) + 1})
RootAt(c, i) == IF i <= Len(c.stack) THEN c.slot[c.stack[i][1]].l ELSE c.ret
Heads(c) == {RootAt(c, i) : i \in Keys(c.stack)}

Levels(st, D) ==
  \A i \in 1 .. Len(st) : st[i][1] = D + 1 - i /\ (i < Len(st) => st[i][2] # "call")

Recursing(c, T, D) ==
  /\ Levels(c.stack, D)
  /\ \A i, j \in Keys(c.stack) : i # j => RootAt(c, i) # RootAt(c, j)
  /\ c.stack = <<>> => T[c.ret] = Add

-----------------------------------------------------------------------------
(* Where a VM is *)

(* The first n agents are taken, the others are on the list in order.        *)
FreshFrom(h, n) ==
  /\ n \in 0 .. NAGENTS
  /\ \A a \in Agent : a >= AGENTS + n =>
       h.word[a] = (IF a + 1 \in Agent THEN a + 1 ELSE 0) /\ Types(h)[a] = 0
  /\ h.free = IF n < NAGENTS THEN AGENTS + n ELSE 0

(* Before the driver: n agents taken, m entries in the ring.                 *)
Seeds(h, n, m) ==
  /\ Pool(h) /\ FreshFrom(h, n)
  /\ h.err = 0 /\ h.count = 0 /\ h.head = 0 /\ h.tail = m

Building(c, h, D) ==
  \E n, m \in Nat :
    /\ Seeds(h, n, m)
    /\ Partial(c.stack, [cnt |-> n, pn |-> m], D)
    /\ Grown(AGENTS, Types(h), h.port, Heads(c), n, m, h.cell)
    /\ Recursing(c, Types(h), D)

Recording(c, x, D) ==
  /\ Grown(1, x.type, x.port, Heads(c), x.cnt, x.pn, x.pair)
  /\ Recursing(c, x.type, D)

Delivery(x, D) ==
  /\ x.n = 3 * Leaves[D] /\ x.pn = Leaves[D] - 1
  /\ Planted(1, x.type, x.port, x.pair, Leaves[D])

(* a records have their agents, the ports of r are there, and q entries.     *)
Importing(c, h, x, a, r, q) ==
  /\ Seeds(h, a, q)
  /\ a <= x.n /\ r <= x.n /\ q <= x.pn
  /\ \A k \in 1 .. a : c.map[k] = AGENTS - 1 + k /\ Types(h)[AGENTS - 1 + k] = x.type[k]
  /\ \A k \in 1 .. r, j \in 0 .. 2 : x.port[<<k, j>>][1] \in 1 .. x.n =>
       h.port[<<AGENTS - 1 + k, j>>] = <<AGENTS - 1 + x.port[<<k, j>>][1], x.port[<<k, j>>][2]>>
  /\ \A j \in 0 .. q - 1 : h.cell[j] = AGENTS - 1 + x.pair[j]

Place(v, c, h, x, D) ==
  /\ c.pc = "build"  => v = 0 /\ Building(c, h, D)
  /\ c.pc = "alloc"  => v # 0 /\ Importing(c, h, x, c.i, 0, 0)
  /\ c.pc = "remap"  => v # 0 /\ Importing(c, h, x, x.n, c.i, 0)
  /\ c.pc = "pairs"  => v # 0 /\ Importing(c, h, x, x.n, x.n, c.i)
  /\ c.pc = "driver" => Driving(h, Leaves[D])
  /\ c.pc \notin {"build", "alloc", "remap", "pairs", "driver"} => Ended(h, Leaves[D])

(* The heap of a VM that has not begun to reduce.                            *)
Unused(h) == h \in Heap /\ h.err < 2 /\ h.count = 0

(* The buffers the host has filled.                                          *)
Delivered(v) == v # 0 /\ ~(host.pc \in {"export", "exporting"} /\ v >= host.i)

CtlTyped(c) == /\ c.slot \in [Slots -> [l : Nat, r : Nat]] /\ c.ret \in Nat
               /\ c.map \in [RecIdx -> Agent \cup {0}]
BufTyped(x) == /\ x.port \in [XPort -> XPort \cup {None}]
               /\ x.pair \in [0 .. PAIRMAX - 1 -> 0 .. XMAX]

VMGood(v) ==
  /\ CtlTyped(ctl[v]) /\ BufTyped(xbuf[v])
  /\ IF Started(v) THEN Place(v, ctl[v], heap[v], xbuf[v], DEPTH[v])
                   ELSE Unused(heap[v])
  /\ Delivered(v) => Delivery(xbuf[v], DEPTH[v])

HostGood ==
  /\ host.pc = "exporting" =>
       IF ctl[0].pc = "export" THEN Recording(ctl[0], xbuf[0], DEPTH[host.i])
                               ELSE Delivery(xbuf[0], DEPTH[host.i])
  /\ host.pc \in {"ok", "failed"} => \A v \in VM : ctl[v].pc = "halted"
  /\ host.pc = "ok" => \A v \in VM : heap[v].err = 0
  /\ host.pc = "failed" => \E v \in VM : heap[v].err = 2

CompleteInv == HostGood /\ \A v \in VM : VMGood(v)

-----------------------------------------------------------------------------
(* Proofs. The driver *)

LEMMA SetsOfAgents ==
  \A S \in SUBSET Agent : /\ IsFiniteSet(S) /\ Cardinality(S) \in Nat
                          /\ \A R \in SUBSET S : Cardinality(R) <= Cardinality(S)
                          /\ \A c \in Agent \ S : Cardinality(S \cup {c}) = Cardinality(S) + 1
                          /\ \A c \in S : Cardinality(S \ {c}) = Cardinality(S) - 1
<1> SUFFICES ASSUME NEW S \in SUBSET Agent
             PROVE  /\ IsFiniteSet(S) /\ Cardinality(S) \in Nat
                    /\ \A R \in SUBSET S : Cardinality(R) <= Cardinality(S)
                    /\ \A c \in Agent \ S : Cardinality(S \cup {c}) = Cardinality(S) + 1
                    /\ \A c \in S : Cardinality(S \ {c}) = Cardinality(S) - 1
  OBVIOUS
<1>1. IsFiniteSet(S) /\ Cardinality(S) \in Nat
  BY AgentsFinite
<1>2. \A R \in SUBSET S : Cardinality(R) <= Cardinality(S)
  BY <1>1, FS_Subset
<1>3. \A c \in Agent \ S : Cardinality(S \cup {c}) = Cardinality(S) + 1
  BY <1>1, FS_AddElement
<1>4. \A c \in S : Cardinality(S \ {c}) = Cardinality(S) - 1
  BY <1>1, FS_RemoveElement
<1> QED  BY <1>1, <1>2, <1>3, <1>4

(* The pairs are no more than the agents that take.                          *)
LEMMA PairsAreTakers ==
  ASSUME NEW T, NEW P
  PROVE  /\ Pairs(T, P) \in SUBSET Agent /\ Cardinality(Pairs(T, P)) <= Takers(T)
         /\ Takers(T) \in Nat /\ Cardinality(Pairs(T, P)) \in Nat
<1> DEFINE K == {a \in Agent : T[a] \in {Add, End}}
<1>1. Pairs(T, P) \in SUBSET K /\ K \in SUBSET Agent
  BY DEF Pairs
<1> QED  BY <1>1, SetsOfAgents DEF Takers

(* An enq of a new pair, or none: there is room for it, since each pair has  *)
(* a taker of its own.                                                       *)
LEMMA CoveredPushes ==
  ASSUME NEW h, NEW S, NEW P, NEW L \in Nat, Covered(h, S, P), Roomy(h, S, L), 2 * L <= QSIZE,
         NEW R \in SUBSET Agent, Cardinality(R) <= L,
         NEW New, New \cap S = {}, S \cup New \subseteq R,
         NEW Q, \A c \in S : Feeder(Q, c) = Feeder(P, c), NEW g, Pushes(h, g, New, Q)
  PROVE  Covered(g, S \cup New, Q) /\ Roomy(g, S \cup New, L)
<1>1. /\ h.head \in Nat /\ h.tail \in Nat /\ h.head <= h.tail
      /\ h.cell \in [0 .. QSIZE - 1 -> Agent \cup {0}]
      /\ \A c \in S : \E i \in h.head .. h.tail - 1 : h.cell[i % QSIZE] \in {c, Feeder(P, c)}
  BY DEF Covered
<1>2. CASE New = {}
  <2>1. g.cell = h.cell /\ g.tail = h.tail /\ g.head = h.head /\ S \cup New = S
    BY <1>2 DEF Pushes
  <2> QED  BY <1>1, <2>1 DEF Covered, Roomy
<1>3. CASE New # {}
  <2>1. PICK c \in Agent, e \in Agent :
          /\ New = {c} /\ e \in {c, Feeder(Q, c)}
          /\ g.cell = [h.cell EXCEPT ![h.tail % QSIZE] = e] /\ g.tail = h.tail + 1
    BY <1>3 DEF Pushes
  <2>2. g.head = h.head /\ c \notin S /\ S \in SUBSET Agent
    BY <2>1 DEF Pushes
  <2>3. /\ Cardinality(S \cup New) = Cardinality(S) + 1 /\ Cardinality(S) \in Nat
        /\ Cardinality(S \cup New) <= Cardinality(R)
    BY <2>1, <2>2, SetsOfAgents
  <2>4. h.tail - h.head < QSIZE /\ h.tail - h.head <= L + Cardinality(S) /\ QSIZE \in Nat \ {0}
    <3>1. Cardinality(R) \in Nat
      BY SetsOfAgents
    <3> QED  BY <1>1, <2>3, <3>1, HeapAssumption DEF Roomy
  <2>5. Roomy(g, S \cup New, L)
    BY <1>1, <2>1, <2>2, <2>3, <2>4, SMTT(40) DEF Roomy
  <2>6. \A i \in h.head .. h.tail - 1 : i % QSIZE # h.tail % QSIZE
    <3> SUFFICES ASSUME NEW i \in h.head .. h.tail - 1 PROVE i % QSIZE # h.tail % QSIZE
      OBVIOUS
    <3>1. i \in Nat /\ i < h.tail /\ h.tail - i < QSIZE
      BY <1>1, <2>4
    <3> QED  BY <1>1, <3>1, RingPlaces
  <2>7. h.tail % QSIZE \in 0 .. QSIZE - 1 /\ \A i \in Nat : i % QSIZE \in 0 .. QSIZE - 1
    BY <1>1, <2>4
  <2>8. \A d \in S : \E i \in g.head .. g.tail - 1 : g.cell[i % QSIZE] \in {d, Feeder(Q, d)}
    <3> SUFFICES ASSUME NEW d \in S
                 PROVE  \E i \in g.head .. g.tail - 1 : g.cell[i % QSIZE] \in {d, Feeder(Q, d)}
      OBVIOUS
    <3>1. PICK i \in h.head .. h.tail - 1 : h.cell[i % QSIZE] \in {d, Feeder(P, d)}
      BY <1>1
    <3>2. i \in Nat /\ i \in g.head .. g.tail - 1
      BY <1>1, <2>1, <2>2
    <3>3. g.cell[i % QSIZE] = h.cell[i % QSIZE]
      BY <1>1, <2>1, <2>6, <2>7, <3>2
    <3> QED  BY <3>1, <3>2, <3>3
  <2>9. h.tail \in g.head .. g.tail - 1 /\ g.cell[h.tail % QSIZE] \in {c, Feeder(Q, c)}
    <3>1. g.cell[h.tail % QSIZE] = e
      BY <1>1, <2>1, <2>7
    <3>2. h.tail \in g.head .. g.tail - 1
      BY <1>1, <2>1, <2>2
    <3> QED  BY <2>1, <3>1, <3>2
  <2>10. g.head \in Nat /\ g.tail \in Nat /\ g.head <= g.tail
    BY <1>1, <2>1, <2>2
  <2>11. g.cell \in [0 .. QSIZE - 1 -> Agent \cup {0}]
    BY <1>1, <2>1, <2>7
  <2> QED  BY <2>1, <2>5, <2>8, <2>9, <2>10, <2>11 DEF Covered
<1> QED  BY <1>2, <1>3

(* The takers after a rule. *)
LEMMA TakersLess ==
  ASSUME NEW T, NEW U, \A e \in Agent : U[e] \in {0, T[e]}
  PROVE  Takers(U) <= Takers(T)
<1> DEFINE K == {e \in Agent : T[e] \in {Add, End}}  M == {e \in Agent : U[e] \in {Add, End}}
<1>1. M \in SUBSET K /\ K \in SUBSET Agent
  BY DEF Add, End
<1> QED  BY <1>1, SetsOfAgents DEF Takers

LEMMA TakersAddAdd1 ==
  ASSUME NEW T \in [Agent -> 0 .. 4], NEW a \in Agent, NEW b \in Agent, T[a] = Add, T[b] = Add1,
         NEW c \in Agent, NEW d \in Agent, c # d, T[c] = 0, T[d] = 0,
         NEW U, Duplicated(T, U, a, b, c, d)
  PROVE  Takers(U) = Takers(T)
<1> DEFINE K == {e \in Agent : T[e] \in {Add, End}}  M == {e \in Agent : U[e] \in {Add, End}}
<1>1. \A e \in Agent : U[e] = IF e \in {a, b} THEN 0 ELSE IF e = c THEN Add1
                              ELSE IF e = d THEN Add ELSE T[e]
  BY DEF Add, Add1, Duplicated
<1>2. a # d /\ b # d /\ a \in K /\ d \notin K /\ K \in SUBSET Agent
  BY DEF Add, Add1, End
<1>3. M = (K \ {a}) \cup {d}
  <2>1. \A e \in Agent : e \in M <=> (e \in K /\ e # a) \/ e = d
    BY <1>1, <1>2 DEF Add, Add1, End
  <2> QED  BY <2>1, <1>2
<1> HIDE DEF K, M
<1>4. K \ {a} \in SUBSET Agent /\ d \in Agent \ (K \ {a})
  BY <1>2
<1>5. Cardinality(K \ {a}) = Cardinality(K) - 1 /\ Cardinality(K) \in Nat
  BY <1>2, SetsOfAgents
<1>6. Cardinality((K \ {a}) \cup {d}) = Cardinality(K \ {a}) + 1
  BY <1>4, SetsOfAgents
<1>7. Cardinality(M) = Cardinality(K)
  BY <1>3, <1>5, <1>6
<1> QED  BY <1>7 DEF Takers, K, M

(* The pair of a has been taken off the ring.                                *)
Popping(h, a, L) ==
  /\ PairIn(h, a, Feeder(h.port, a)) /\ h.err = 0 /\ h.count \in Nat
  /\ Covered(h, Pairs(Types(h), h.port) \ {a}, h.port)
  /\ Roomy(h, Pairs(Types(h), h.port) \ {a}, L)
  /\ Sized(Types(h), h.count, L)

LEMMA PoppingFires ==
  ASSUME NEW h, NEW a, NEW L \in Nat, Popping(h, a, L), 2 * L <= QSIZE, NEW g, Fired(h, a, g),
         g.count \in Nat, Sized(Types(g), g.count, L)
  PROVE  Driving(g, L)
<1> DEFINE S == Pairs(Types(h), h.port) \ {a}  Q == g.port  R == Pairs(Types(g), Q)
<1>1. /\ Pool(g) /\ g.err = 0 /\ \E s : Flow(Types(g), Q, {}, s)
      /\ \A c \in S : Feeder(Q, c) = Feeder(h.port, c)
  BY DEF Fired, Popping
<1>2. PICK m, N1, N2 : /\ R = S \cup N1 \cup N2
                       /\ N1 \cap S = {} /\ N2 \cap (S \cup N1) = {}
                       /\ Pushes(h, m, N1, Q) /\ Pushes(m, g, N2, Q)
  BY DEF Fired
<1>3. R \in SUBSET Agent /\ Cardinality(R) <= L
  BY PairsAreTakers DEF Sized
<1>4. Covered(h, S, h.port) /\ Roomy(h, S, L)
  BY DEF Popping
<1> HIDE DEF S, Q, R
<1>5. Covered(m, S \cup N1, Q) /\ Roomy(m, S \cup N1, L)
  <2>1. S \cup N1 \subseteq R
    BY <1>2
  <2> QED  BY <1>1, <1>2, <1>3, <1>4, <2>1, CoveredPushes
<1>6. Covered(g, (S \cup N1) \cup N2, Q) /\ Roomy(g, (S \cup N1) \cup N2, L)
  <2>1. (S \cup N1) \cup N2 \subseteq R /\ \A c \in S \cup N1 : Feeder(Q, c) = Feeder(Q, c)
    BY <1>2
  <2> QED  BY <1>2, <1>3, <1>5, <2>1, CoveredPushes
<1>7. Covered(g, R, Q) /\ Roomy(g, R, L)
  BY <1>2, <1>6
<1> QED  BY <1>1, <1>7 DEF Driving, Q, R

(* The counts before a rule: the numbers are numbers.                        *)
LEMMA SizedNat ==
  ASSUME NEW T, NEW count, NEW L, Sized(T, count, L)
  PROVE  /\ Takers(T) \in Nat /\ Agents(T) \in Nat /\ Add1s(T) \in Nat
         /\ Takers(T) <= L /\ Agents(T) <= 3 * L /\ Add1s(T) + count = L
<1>1. Takers(T) \in Nat
  BY PairsAreTakers
<1> QED  BY <1>1, CountsNat DEF Sized

LEMMA SizedFreeBoth ==
  ASSUME NEW T \in [Agent -> 0 .. 4], NEW a \in Agent, NEW b \in Agent, a # b,
         T[a] \in {Add, End}, T[b] = Zero, NEW count \in Nat, NEW L \in Nat, Sized(T, count, L),
         NEW U, U = [T EXCEPT ![a] = 0, ![b] = 0]
  PROVE  Sized(U, count, L)
<1>1. T[a] # 0 /\ T[a] # Add1 /\ T[b] # 0 /\ T[b] # Add1
  BY DEF Zero, Add1, Add, End
<1>2. Agents(U) = Agents(T) - 2 /\ Add1s(U) = Add1s(T)
  <2>1. Agents(U) = Agents(T) - 2
    BY <1>1, CountFreeBoth
  <2>2. Add1s(U) = IF T[b] = Add1 THEN Add1s(T) - 1 ELSE Add1s(T)
    BY <1>1, CountFreeBoth
  <2> QED  BY <1>1, <2>1, <2>2
<1>3. Takers(U) <= Takers(T) /\ Takers(U) \in Nat
  <2>1. \A e \in Agent : U[e] \in {0, T[e]}
    OBVIOUS
  <2> QED  BY <2>1, TakersLess, PairsAreTakers
<1>4. /\ Takers(T) \in Nat /\ Agents(T) \in Nat /\ Add1s(T) \in Nat
      /\ Takers(T) <= L /\ Agents(T) <= 3 * L /\ Add1s(T) + count = L
  BY SizedNat
<1> HIDE DEF Sized
<1>5. Takers(U) <= L /\ Agents(U) <= 3 * L /\ Add1s(U) + count = L
  BY <1>2, <1>3, <1>4
<1> QED  BY <1>5 DEF Sized

LEMMA SizedEndAdd1 ==
  ASSUME NEW T \in [Agent -> 0 .. 4], NEW b \in Agent, T[b] = Add1,
         NEW count \in Nat, NEW L \in Nat, Sized(T, count, L), NEW U, U = [T EXCEPT ![b] = 0]
  PROVE  Sized(U, count + 1, L)
<1>1. T[b] # 0
  BY DEF Add1
<1>2. Agents(U) = Agents(T) - 1 /\ Add1s(U) = Add1s(T) - 1
  BY <1>1, CountFree
<1>3. Takers(U) <= Takers(T) /\ Takers(U) \in Nat
  <2>1. \A e \in Agent : U[e] \in {0, T[e]}
    OBVIOUS
  <2> QED  BY <2>1, TakersLess, PairsAreTakers
<1>4. /\ Takers(T) \in Nat /\ Agents(T) \in Nat /\ Add1s(T) \in Nat
      /\ Takers(T) <= L /\ Agents(T) <= 3 * L /\ Add1s(T) + count = L
  BY SizedNat
<1>5. Takers(U) <= L /\ Agents(U) <= 3 * L /\ Add1s(U) + (count + 1) = L
  BY <1>2, <1>3, <1>4
<1> QED  BY <1>5 DEF Sized

LEMMA SizedAddAdd1 ==
  ASSUME NEW T \in [Agent -> 0 .. 4], NEW a \in Agent, NEW b \in Agent, T[a] = Add, T[b] = Add1,
         NEW c \in Agent, NEW d \in Agent, c # d, T[c] = 0, T[d] = 0,
         NEW U, Duplicated(T, U, a, b, c, d), NEW count, NEW L, Sized(T, count, L)
  PROVE  Sized(U, count, L)
<1>1. Agents(U) = Agents(T) /\ Add1s(U) = Add1s(T)
  BY CountAddAdd1
<1>2. Takers(U) = Takers(T)
  BY TakersAddAdd1
<1> QED  BY <1>1, <1>2 DEF Sized

(* Out of agents, with an add1 left.                                         *)
LEMMA SizedAdd1Left ==
  ASSUME NEW T \in [Agent -> 0 .. 4], NEW b \in Agent, T[b] = Add1,
         NEW count \in Nat, NEW L \in Nat, Sized(T, count, L), NAGENTS < Agents(T) + 2
  PROVE  count < L /\ Short(L)
<1>1. T[b] # 0
  BY DEF Add1
<1>2. Add1s([T EXCEPT ![b] = 0]) = Add1s(T) - 1
  BY <1>1, CountFree
<1>3. Add1s([T EXCEPT ![b] = 0]) \in Nat
  BY CountsNat
<1>4. /\ Agents(T) \in Nat /\ Add1s(T) \in Nat
      /\ Agents(T) <= 3 * L /\ Add1s(T) + count = L
  BY SizedNat
<1> QED  BY <1>2, <1>3, <1>4, HeapAssumption DEF Short

(* TABLE has a rule for every pair, and it ends as it should.                *)
LEMMA FireDrives ==
  ASSUME NEW h, NEW a, NEW L \in Nat, Popping(h, a, L), 2 * L <= QSIZE,
         NEW b, b = Feeder(h.port, a), NEW g, g = Fire(h, a, b) \/ g = Fire(h, b, a)
  PROVE  Driving(g, L) \/ (g.err = 2 /\ g.count \in Nat /\ g.count < L /\ Short(L))
<1> DEFINE T == Types(h)
<1>1. /\ PairIn(h, a, b) /\ h.count \in Nat /\ Sized(T, h.count, L)
  BY DEF Popping
<1>2. /\ T[a] = h.word[a] /\ T[b] = h.word[b]
      /\ T[a] \in {Add, End} /\ T[b] \in {Zero, Add1}
  BY <1>1, PairParts
<1>3. a \in Agent /\ b \in Agent /\ a # b /\ T \in [Agent -> 0 .. 4]
  BY <1>1, PairParts, PairTypes
<1>4. CASE T[a] = Add /\ T[b] = Zero
  <2>1. g = RuleAddZero(h, a, b)
    BY <1>2, <1>4 DEF Fire, Zero, Add1, Add, End
  <2>2. Fired(h, a, g) /\ Types(g) = [T EXCEPT ![a] = 0, ![b] = 0] /\ g.count = h.count
    <3> DEFINE k == RuleAddZero(h, a, b)
    <3>1. /\ Fired(h, a, k) /\ Types(k) = [T EXCEPT ![a] = 0, ![b] = 0]
          /\ k.port = Joined(h.port, h.port[<<a, 1>>], h.port[<<a, 2>>])
          /\ k.count = h.count /\ k.head = h.head
      BY <1>1, <1>4, RuleAddZeroFires
    <3> QED  BY <2>1, <3>1
  <2> HIDE DEF T
  <2>3. Sized(Types(g), g.count, L)
    BY <1>1, <1>3, <1>4, <2>2, SizedFreeBoth
  <2> QED  BY <1>1, <2>2, <2>3, PoppingFires
<1>5. CASE T[a] = End /\ T[b] = Zero
  <2>1. g = RuleEndZero(h, a, b)
    BY <1>2, <1>5 DEF Fire, Zero, Add1, Add, End
  <2>2. Fired(h, a, g) /\ Types(g) = [T EXCEPT ![a] = 0, ![b] = 0] /\ g.count = h.count
    BY <1>1, <1>5, <2>1, RuleEndZeroFires
  <2> HIDE DEF T
  <2>3. Sized(Types(g), g.count, L)
    BY <1>1, <1>3, <1>5, <2>2, SizedFreeBoth
  <2> QED  BY <1>1, <2>2, <2>3, PoppingFires
<1>6. CASE T[a] = End /\ T[b] = Add1
  <2>1. g = RuleEndAdd1(h, a, b)
    BY <1>2, <1>6 DEF Fire, Zero, Add1, Add, End
  <2>2. Fired(h, a, g) /\ Types(g) = [T EXCEPT ![b] = 0] /\ g.count = h.count + 1
    <3> DEFINE k == RuleEndAdd1(h, a, b)
    <3>1. /\ Fired(h, a, k) /\ Types(k) = [T EXCEPT ![b] = 0]
          /\ k.port = Joined(h.port, h.port[<<b, 1>>], <<a, 0>>)
          /\ k.count = h.count + 1 /\ k.head = h.head
      BY <1>1, <1>6, RuleEndAdd1Fires
    <3> QED  BY <2>1, <3>1
  <2> HIDE DEF T
  <2>3. Sized(Types(g), g.count, L) /\ g.count \in Nat
    <3>1. Sized(Types(g), h.count + 1, L)
      BY <1>1, <1>3, <1>6, <2>2, SizedEndAdd1
    <3> QED  BY <1>1, <2>2, <3>1
  <2> QED  BY <2>2, <2>3, PoppingFires
<1>7. CASE T[a] = Add /\ T[b] = Add1
  <2>1. g = RuleAddAdd1(h, a, b)
    BY <1>2, <1>7 DEF Fire, Zero, Add1, Add, End
  <2>2. \/ Fired(h, a, g) /\ AddAdd1Rewires(h, a, b, g)
        \/ g.err = 2 /\ g.count = h.count /\ NAGENTS < Agents(T) + 2
    BY <1>1, <1>7, <2>1, RuleAddAdd1Fires
  <2> HIDE DEF T
  <2>3. CASE Fired(h, a, g) /\ AddAdd1Rewires(h, a, b, g)
    <3>1. PICK c \in Agent, d \in Agent :
            /\ c # d /\ T[c] = 0 /\ T[d] = 0 /\ g.count = h.count
            /\ Types(g) = [T EXCEPT ![c] = Add1, ![d] = Add, ![a] = 0, ![b] = 0]
      BY <2>3 DEF AddAdd1Rewires, T
    <3>2. Duplicated(T, Types(g), a, b, c, d)
      BY <3>1 DEF Duplicated
    <3>3. Sized(Types(g), g.count, L)
      BY <1>1, <1>3, <1>7, <3>1, <3>2, SizedAddAdd1
    <3> QED  BY <1>1, <2>3, <3>1, <3>3, PoppingFires
  <2>4. CASE g.err = 2 /\ g.count = h.count /\ NAGENTS < Agents(T) + 2
    BY <1>1, <1>3, <1>7, <2>4, SizedAdd1Left
  <2> QED  BY <2>2, <2>3, <2>4
<1> QED  BY <1>2, <1>4, <1>5, <1>6, <1>7

(* The turn takes an entry off the ring. One that is no active pair stands   *)
(* for none, so the others still cover them all; an active one is a pair's,  *)
(* and leaves with it.                                                       *)
LEMMA EntryPops ==
  ASSUME NEW h, NEW L \in Nat, Driving(h, L), h.head # h.tail
  PROVE  \E g : /\ Types(g) = Types(h) /\ g.port = h.port /\ g.count = h.count
                /\ \/ Turn(h) = g /\ Driving(g, L)
                   \/ \E c : /\ Popping(g, c, L)
                             /\ \/ Turn(h) = Fire(g, c, Feeder(g.port, c))
                                \/ Turn(h) = Fire(g, Feeder(g.port, c), c)
<1> DEFINE T == Types(h)  P == h.port  S == Pairs(T, P)
           a == Front(h)  b == Partner(h, a)
           h1 == [h EXCEPT !.head = @ + 1]
<1>1. /\ Pool(h) /\ SoundHeap(h) /\ h.err = 0 /\ h \in Heap /\ h.count \in Nat
      /\ Covered(h, S, P) /\ Roomy(h, S, L) /\ Sized(T, h.count, L)
      /\ h.head \in Nat /\ h.tail \in Nat /\ h.head < h.tail
      /\ h.cell \in [0 .. QSIZE - 1 -> Agent \cup {0}]
  BY DEF Driving, Pool, SoundHeap, Heap
<1>2. PICK r : Flow(T, P, {}, r)
  BY DEF Driving
<1>3. S \in SUBSET Agent /\ Cardinality(S) \in Nat
  BY PairsAreTakers
<1>4. h.tail - h.head <= L + Cardinality(S)
  BY <1>1 DEF Roomy
<1>5. \A c \in S : \E i \in h.head .. h.tail - 1 : h.cell[i % QSIZE] \in {c, Feeder(P, c)}
  BY <1>1 DEF Covered
<1>6. /\ h1.word = h.word /\ h1.port = P /\ h1.cell = h.cell /\ h1.tail = h.tail
      /\ h1.head = h.head + 1 /\ h1.count = h.count /\ h1.err = 0 /\ h1.free = h.free
      /\ h1 \in Heap
  <2>1. h1 = [h EXCEPT !.head = h.head + 1] /\ h.head + 1 \in Nat
    BY <1>1 DEF Heap
  <2> HIDE DEF h1
  <2> QED  BY <1>1, <2>1 DEF Heap
<1>7. Turn(h) = IF ActiveEntry(h, a) THEN Fire(h1, a, b) ELSE h1
  BY DEF Turn
<1>8. a = h.cell[h.head % QSIZE]
  BY DEF Front
<1>9. ActiveEntry(h, a) <=> /\ Live(h, a) /\ Live(h, b) /\ h.port[<<b, 0>>] = <<a, 0>>
                            /\ b \in Agent
  BY DEF ActiveEntry, FacesPartner
<1>10. b = P[<<a, 0>>][1]
  BY DEF Partner
<1> HIDE DEF h1, a, b
<1>11. Pool(h1) /\ Types(h1) = T
  <2>1. SoundHeap(h1)
    BY <1>1, <1>6, SameList
  <2> QED  BY <1>1, <1>6, <2>1, SamePool
<1>12. \A c \in S : /\ c \in Agent /\ Feeder(P, c) \in Agent /\ T[c] # 0 /\ T[Feeder(P, c)] # 0
                    /\ P[<<c, 0>>] = <<Feeder(P, c), 0>> /\ P[<<Feeder(P, c), 0>>] = <<c, 0>>
  <2> SUFFICES ASSUME NEW c \in S
               PROVE  /\ c \in Agent /\ Feeder(P, c) \in Agent /\ T[c] # 0 /\ T[Feeder(P, c)] # 0
                      /\ P[<<c, 0>>] = <<Feeder(P, c), 0>> /\ P[<<Feeder(P, c), 0>>] = <<c, 0>>
    OBVIOUS
  <2>1. c \in Agent /\ T[c] \in {Add, End}
    BY DEF Pairs
  <2>2. /\ Feeder(P, c) \in Agent /\ T[Feeder(P, c)] \in {Zero, Add1}
        /\ P[<<c, 0>>] = <<Feeder(P, c), 0>> /\ P[<<Feeder(P, c), 0>>] = <<c, 0>>
    BY <1>2, PairFacts
  <2> QED  BY <2>1, <2>2 DEF Zero, Add1, Add, End
<1>13. \A e : Live(h, e) <=> e \in Agent /\ T[e] # 0
  BY <1>1, TypesFacts DEF Live
<1>14. \A c \in S : a \in {c, Feeder(P, c)} => ActiveEntry(h, a)
  <2> SUFFICES ASSUME NEW c \in S, a \in {c, Feeder(P, c)} PROVE ActiveEntry(h, a)
    OBVIOUS
  <2>1. /\ c \in Agent /\ Feeder(P, c) \in Agent /\ T[c] # 0 /\ T[Feeder(P, c)] # 0
        /\ P[<<c, 0>>] = <<Feeder(P, c), 0>> /\ P[<<Feeder(P, c), 0>>] = <<c, 0>>
    BY <1>12
  <2>2. CASE a = c
    <3>1. b = Feeder(P, c)
      BY <1>10, <2>1, <2>2
    <3> QED  BY <1>9, <1>13, <2>1, <2>2, <3>1
  <2>3. CASE a = Feeder(P, c)
    <3>1. b = c
      BY <1>10, <2>1, <2>3
    <3> QED  BY <1>9, <1>13, <2>1, <2>3, <3>1
  <2> QED  BY <2>2, <2>3
<1>15. ASSUME NEW R \in SUBSET S, \A c \in R : a \notin {c, Feeder(P, c)}
       PROVE  Covered(h1, R, P)
  <2>1. \A c \in R : \E i \in h1.head .. h1.tail - 1 : h1.cell[i % QSIZE] \in {c, Feeder(P, c)}
    <3> SUFFICES ASSUME NEW c \in R
                 PROVE  \E i \in h1.head .. h1.tail - 1 : h1.cell[i % QSIZE] \in {c, Feeder(P, c)}
      OBVIOUS
    <3>1. PICK i \in h.head .. h.tail - 1 : h.cell[i % QSIZE] \in {c, Feeder(P, c)}
      BY <1>5
    <3>2. i # h.head
      BY <1>8, <1>15, <3>1
    <3>3. i \in h1.head .. h1.tail - 1
      BY <1>1, <1>6, <3>2
    <3> QED  BY <1>6, <3>1, <3>3
  <2>2. h1.head \in Nat /\ h1.tail \in Nat /\ h1.head <= h1.tail
    BY <1>1, <1>6
  <2> QED  BY <1>1, <1>6, <2>1, <2>2 DEF Covered
<1>16. CASE ~ActiveEntry(h, a)
  <2>1. Turn(h) = h1
    BY <1>7, <1>16
  <2>2. Covered(h1, S, P)
    BY <1>14, <1>15, <1>16
  <2>3. Roomy(h1, S, L)
    BY <1>1, <1>3, <1>4, <1>6 DEF Roomy
  <2> HIDE DEF T, P
  <2>4. Driving(h1, L)
    BY <1>1, <1>2, <1>6, <1>11, <2>2, <2>3 DEF Driving, S
  <2>5. Types(h1) = T /\ h1.port = P /\ h1.count = h.count
    BY <1>6, <1>11
  <2> QED  BY <2>1, <2>4, <2>5 DEF T, P
<1>17. CASE ActiveEntry(h, a)
  <2>1. Facing(T, P, a, b)
    <3>1. a \in Agent /\ T[a] \in Type /\ T[b] \in Type
      BY <1>1, <1>9, <1>17, TypesFacts DEF Live
    <3> QED  BY <1>9, <1>10, <1>17, <3>1 DEF Facing
  <2>2. PICK c \in S : \/ a = c /\ b = Feeder(P, c)
                       \/ a = Feeder(P, c) /\ b = c
    BY <1>2, <2>1, FacingIsPair
  <2>3. \A e \in S \ {c} : a \notin {e, Feeder(P, e)}
    <3>1. \A e \in S : {e, Feeder(P, e)} \cap {c, Feeder(P, c)} # {} => e = c
      BY <1>2, PairFacts
    <3> QED  BY <2>2, <3>1
  <2>4. Covered(h1, S \ {c}, P)
    BY <1>15, <2>3
  <2>5. Roomy(h1, S \ {c}, L)
    <3>1. Cardinality(S \ {c}) = Cardinality(S) - 1
      BY <1>3, SetsOfAgents
    <3> QED  BY <1>1, <1>3, <1>4, <1>6, <3>1 DEF Roomy
  <2> HIDE DEF T, P
  <2>6. PairIn(h1, c, Feeder(h1.port, c))
    BY <1>2, <1>6, <1>11 DEF PairIn, S
  <2>7. Popping(h1, c, L)
    BY <1>1, <1>6, <1>11, <2>4, <2>5, <2>6 DEF Popping, S
  <2>8. Turn(h) = Fire(h1, c, Feeder(h1.port, c)) \/ Turn(h) = Fire(h1, Feeder(h1.port, c), c)
    BY <1>6, <1>7, <1>17, <2>2
  <2>9. Types(h1) = T /\ h1.port = P /\ h1.count = h.count
    BY <1>6, <1>11
  <2> QED  BY <2>7, <2>8, <2>9 DEF T, P
<1> QED  BY <1>16, <1>17

LEMMA TurnDrives ==
  ASSUME NEW h, NEW L \in Nat, Driving(h, L), h.head # h.tail, 2 * L <= QSIZE
  PROVE  LET g == Turn(h)
         IN  Driving(g, L) \/ (g.err = 2 /\ g.count \in Nat /\ g.count < L /\ Short(L))
<1>1. PICK g : \/ Turn(h) = g /\ Driving(g, L)
               \/ \E c : /\ Popping(g, c, L)
                         /\ \/ Turn(h) = Fire(g, c, Feeder(g.port, c))
                            \/ Turn(h) = Fire(g, Feeder(g.port, c), c)
  BY EntryPops
<1>2. CASE Turn(h) = g /\ Driving(g, L)
  BY <1>2
<1>3. CASE \E c : /\ Popping(g, c, L)
                  /\ \/ Turn(h) = Fire(g, c, Feeder(g.port, c))
                     \/ Turn(h) = Fire(g, Feeder(g.port, c), c)
  BY <1>3, FireDrives
<1> QED  BY <1>1, <1>2, <1>3

(* What a turn does to the net: nothing, or an interaction of a pair.        *)
LEMMA TurnRewrites ==
  ASSUME NEW h, NEW L \in Nat, Driving(h, L), h.head # h.tail, NEW k, k = Turn(h), k.err # 2
  PROVE  \/ Types(k) = Types(h) /\ k.port = h.port /\ k.count = h.count
         \/ \E a, b \in Agent :
              Interaction(Types(h), Net1(h), h.count, Types(k), Net1(k), k.count, a, b)
<1>1. PICK g : /\ Types(g) = Types(h) /\ g.port = h.port /\ g.count = h.count
               /\ \/ Turn(h) = g
                  \/ \E c : /\ Popping(g, c, L)
                            /\ \/ Turn(h) = Fire(g, c, Feeder(g.port, c))
                               \/ Turn(h) = Fire(g, Feeder(g.port, c), c)
  BY EntryPops
<1>2. CASE Turn(h) = g
  BY <1>1, <1>2
<1>3. ASSUME NEW c, Popping(g, c, L),
             k = Fire(g, c, Feeder(g.port, c)) \/ k = Fire(g, Feeder(g.port, c), c)
      PROVE  \E a, b \in Agent :
               Interaction(Types(h), Net1(h), h.count, Types(k), Net1(k), k.count, a, b)
  <2>1. PICK b : b = Feeder(g.port, c)
    OBVIOUS
  <2>2. PairIn(g, c, b)
    BY <1>3, <2>1 DEF Popping
  <2>3. c \in Agent /\ b \in Agent
    BY <2>2, PairParts
  <2>4. Interaction(Types(g), Net1(g), g.count, Types(k), Net1(k), k.count, c, b)
    BY <1>3, <2>1, <2>2, FireInteracts
  <2>5. Net1(g) = Net1(h)
    BY <1>1 DEF Net1
  <2> QED  BY <1>1, <2>3, <2>4, <2>5
<1> QED  BY <1>1, <1>2, <1>3

(* Without a pair, each taker would take from the result of another one: an  *)
(* injection of the finite set of takers in itself, which reaches all of     *)
(* them, the one of least rank too.                                          *)
LEMMA NoPairsNoTakers ==
  ASSUME NEW T, NEW P, NEW r, Flow(T, P, {}, r), Pairs(T, P) = {}
  PROVE  \A a \in Agent : T[a] \notin {Add, End}
<1> DEFINE K == {a \in Agent : T[a] \in {Add, End}}
           f == [a \in K |-> P[<<a, 0>>][1]]
<1>1. \A a \in K : /\ P[<<a, 0>>] = <<f[a], 2>> /\ f[a] \in K /\ P[<<f[a], 2>>] = <<a, 0>>
                   /\ r[a] < r[f[a]]
  <2> SUFFICES ASSUME NEW a \in K
               PROVE  /\ P[<<a, 0>>] = <<f[a], 2>> /\ f[a] \in K /\ P[<<f[a], 2>>] = <<a, 0>>
                      /\ r[a] < r[f[a]]
    OBVIOUS
  <2>1. <<a, 0>> \in In(T)
    BY UsedPortFacts
  <2>2. P[<<a, 0>>] \in Out(T) /\ P[P[<<a, 0>>]] = <<a, 0>> /\ r[a] < r[P[<<a, 0>>][1]]
    BY <2>1 DEF Flow, Wired, Downhill
  <2>3. P[<<a, 0>>][2] # 0
    BY DEF Pairs
  <2>4. T[P[<<a, 0>>][1]] = Add /\ P[<<a, 0>>][2] = 2 /\ P[<<a, 0>>] \in Port
    BY <2>2, <2>3 DEF Out
  <2>5. P[<<a, 0>>] = <<f[a], 2>> /\ f[a] \in Agent
    BY <2>4, PortFacts
  <2> QED  BY <2>2, <2>4, <2>5
<1>2. f \in Injection(K, K)
  <2>1. f \in [K -> K]
    BY <1>1
  <2> HIDE DEF f, K
  <2>2. \A a, b \in K : f[a] = f[b] => a = b
    <3> SUFFICES ASSUME NEW a \in K, NEW b \in K, f[a] = f[b] PROVE a = b
      OBVIOUS
    <3>1. <<a, 0>> = <<b, 0>>
      BY <1>1
    <3> QED  BY <3>1
  <2> QED  BY <2>1, <2>2 DEF Injection, IsInjective
<1>3. IsFiniteSet(K)
  BY AgentsFinite
<1> HIDE DEF f
<1>4. f \in Surjection(K, K)
  <2> HIDE DEF K
  <2> QED  BY <1>2, <1>3, FS_Injection
<1>5. \A e \in K : \E a \in K : f[a] = e
  <2> HIDE DEF K
  <2> QED  BY <1>4 DEF Surjection
<1>6. SUFFICES ASSUME K # {} PROVE FALSE
  OBVIOUS
<1>7. \A a \in K : r[a] \in Nat
  BY DEF Flow
<1>8. PICK e \in K : \A a \in K : r[e] <= r[a]
  <2> DEFINE N == {r[a] : a \in K}
  <2>1. N \in SUBSET Nat /\ N # {}
    BY <1>6, <1>7
  <2> HIDE DEF N
  <2>2. PICK m \in N : \A n \in N : m <= n
    BY <2>1, LeastNat
  <2> QED  BY <2>2 DEF N
<1>9. PICK a \in K : f[a] = e
  BY <1>5
<1>10. r[a] < r[e] /\ r[e] <= r[a]
  BY <1>1, <1>8, <1>9
<1> QED  BY <1>7, <1>10

LEMMA NoPairsNoneLive ==
  ASSUME NEW T, NEW P, NEW r, Flow(T, P, {}, r), Pairs(T, P) = {}
  PROVE  \A a \in Agent : T[a] = 0
<1>1. Single(T)
  BY NoPairsNoTakers DEF Single
<1> QED  BY <1>1, NoPairsNoAgents

(* An empty ring: nothing is left to reduce.                                 *)
LEMMA DrivingEnds ==
  ASSUME NEW h, NEW L \in Nat, Driving(h, L), h.head = h.tail
  PROVE  Ended(h, L)
<1> DEFINE T == Types(h)
<1>1. Pairs(T, h.port) = {}
  <2>1. h.head \in Nat /\ h.head .. h.tail - 1 = {}
    BY DEF Driving, Covered
  <2> QED  BY <2>1 DEF Driving, Covered
<1>2. PICK r : Flow(T, h.port, {}, r)
  BY DEF Driving
<1>3. \A a \in Agent : T[a] = 0
  BY <1>1, <1>2, NoPairsNoneLive
<1>4. LiveAgents(h) = {}
  BY <1>3, TypesFacts DEF LiveAgents, Driving, Pool
<1>5. {a \in Agent : T[a] = Add1} = {}
  BY <1>3 DEF Add1
<1>6. Add1s(T) = 0
  BY <1>5, FS_EmptySet DEF Add1s
<1>7. Sized(T, h.count, L) /\ h.count \in Nat /\ h.err = 0
  BY DEF Driving
<1>8. h.count = L
  BY <1>6, <1>7 DEF Sized
<1> QED  BY <1>4, <1>7, <1>8 DEF Ended

-----------------------------------------------------------------------------
(* The tree of the driver's first turn *)

(* A planted tree is a net in which the driver finds every pair: the entries *)
(* of the ring are its adds, and its end meets none of them.                 *)
LEMMA PlantedDrives ==
  ASSUME NEW h, NEW L \in Nat \ {0}, 2 * L <= QSIZE, Pool(h), h.err = 0, h.count = 0, h.head = 0,
         h.tail \in {L - 1, L}, 3 * L <= NAGENTS,
         \A a \in Agent : a >= AGENTS + 3 * L => Types(h)[a] = 0,
         Planted(AGENTS, Types(h), h.port, h.cell, L)
  PROVE  Driving(h, L)
<1> DEFINE T == Types(h)  P == h.port  A == Ids(AGENTS, 3 * L)
<1>1. \A a \in Agent : a \notin A => T[a] = 0
  <2>1. \A a \in Agent : a \in Nat /\ a >= AGENTS
    BY HeapAssumption DEF Agent
  <2>2. \A a \in Agent : a \notin A => a >= AGENTS + 3 * L
    BY <2>1, HeapAssumption DEF Ids
  <2> QED  BY <2>2
<1>2. T \in [Agent -> 0 .. 4] /\ P \in [Port -> PortValue]
      /\ h.cell \in [0 .. QSIZE - 1 -> Agent \cup {0}] /\ h.tail \in Nat
  <2>1. SoundHeap(h)
    BY DEF Pool
  <2> QED  BY <2>1, TypesFacts DEF SoundHeap, Heap
<1>3. /\ \E r : Flow(T, P, {}, r)
      /\ Takers(T) = L /\ Add1s(T) = L /\ Agents(T) = 3 * L
  <2> DEFINE E == h.cell
  <2>1. Planted(AGENTS, T, P, E, L) /\ \A a \in Agent : a >= AGENTS + 3 * L => T[a] = 0
    OBVIOUS
  <2> HIDE DEF T, P, E
  <2> QED  BY <1>2, <2>1, PlantedFlows
<1>4. \A a \in A : /\ T[a] = End => P[<<a, 0>>][2] # 0
                   /\ T[a] = Add => \E j \in 0 .. L - 2 : h.cell[j] = a
  BY DEF Planted
<1> HIDE DEF T, P, A
<1>5. Covered(h, Pairs(T, P), P)
  <2>1. ASSUME NEW c \in Pairs(T, P)
        PROVE  \E i \in h.head .. h.tail - 1 : h.cell[i % QSIZE] \in {c, Feeder(P, c)}
    <3>1. c \in A /\ T[c] = Add
      BY <1>1, <1>4 DEF Pairs, Add, End
    <3>2. PICK j \in 0 .. L - 2 : h.cell[j] = c
      BY <1>4, <3>1
    <3>3. j \in h.head .. h.tail - 1 /\ j % QSIZE = j
      <4>1. j \in Nat /\ j < QSIZE /\ QSIZE \in Nat \ {0}
        BY HeapAssumption
      <4>2. j % QSIZE = j
        BY <4>1
      <4> QED  BY <4>1, <4>2
    <3> QED  BY <3>2, <3>3
  <2> QED  BY <1>2, <2>1 DEF Covered
<1>6. Roomy(h, Pairs(T, P), L)
  <2>1. Cardinality(Pairs(T, P)) \in Nat
    BY PairsAreTakers
  <2> QED  BY <2>1 DEF Roomy
<1>7. Sized(T, h.count, L)
  BY <1>3 DEF Sized
<1> QED  BY <1>3, <1>5, <1>6, <1>7 DEF Driving, T, P

-----------------------------------------------------------------------------
(* The recursion and its roots. *)

LEMMA FrameDepths ==
  ASSUME NEW st \in Stacks, NEW D \in Nat, Levels(st, D)
  PROVE  /\ Len(st) \in Nat
         /\ \A i \in 1 .. Len(st) : st[i][1] = D + 1 - i /\ st[i][1] \in 0 .. D /\ st[i][2] \in Waits
         /\ \A i, j \in 1 .. Len(st) : st[i][1] = st[j][1] => i = j
<1>1. Len(st) \in Nat /\ \A i \in 1 .. Len(st) : st[i] \in Nat \X Waits
  BY StackFacts DEF Stacks
<1>2. \A i \in 1 .. Len(st) : st[i][1] = D + 1 - i /\ st[i][1] \in Nat /\ st[i][2] \in Waits
  BY <1>1 DEF Levels
<1> QED  BY <1>1, <1>2, SMTT(40)

(* The frame goes to its left subtree: no root is there yet.                 *)
LEMMA CallLeftRoots ==
  ASSUME NEW c, c.stack \in Stacks, c.stack # <<>>, NEW D \in Nat, NEW T, Recursing(c, T, D),
         c.stack[Len(c.stack)][2] = "call",
         NEW g, g.slot = c.slot, g.ret = c.ret, IsCall(c.stack, g.stack, "left")
  PROVE  Heads(g) = Heads(c) /\ Recursing(g, T, D)
<1> DEFINE s == c.stack  n == Len(s)  w == g.stack
<1>1. /\ s \in Stacks /\ n \in Nat \ {0} /\ n \in 1 .. n
      /\ \A i \in 1 .. n : s[i][1] = D + 1 - i
      /\ \A i \in 1 .. n : i < n => s[i][2] # "call"
  BY StackFacts, FrameDepths DEF Recursing, Levels
<1>2. /\ w \in Stacks /\ Len(w) = n + 1 /\ \A i \in 1 .. n - 1 : w[i] = s[i]
      /\ w[n] = <<s[n][1], "left">> /\ w[n + 1] = <<s[n][1] - 1, "call">> /\ s[n][2] = "call"
  BY DEF IsCall
<1> HIDE DEF s, n, w
<1>3. w # <<>> /\ s # <<>> /\ Len(s) = n
  BY <1>1, <1>2 DEF s, n
<1>4. /\ \A i \in 1 .. n + 1 : i \in 1 .. n - 1 \/ i = n \/ i = n + 1
      /\ \A i \in 1 .. n : i \in 1 .. n - 1 \/ i = n
      /\ 1 .. n \subseteq 1 .. n + 1
      /\ \A i \in 1 .. n - 1 : i \in 1 .. n /\ i < n /\ i <= n /\ i <= n + 1
  BY <1>1
<1>5. Keys(w) = {i \in 1 .. n : s[i][2] = "right"} /\ Keys(s) = {i \in 1 .. n : s[i][2] = "right"}
  <2>1. w[Len(w)][2] = "call" /\ s[Len(s)][2] = "call" /\ Len(s) = n
    BY <1>2 DEF n
  <2>2. Keys(s) = {i \in 1 .. n : s[i][2] = "right"}
    BY <1>3, <2>1 DEF Keys
  <2>3. Keys(w) = {i \in 1 .. n + 1 : w[i][2] = "right"}
    BY <1>2, <1>3, <2>1 DEF Keys
  <2>4. \A i \in 1 .. n + 1 : w[i][2] = "right" <=> i \in 1 .. n /\ s[i][2] = "right"
    <3> SUFFICES ASSUME NEW i \in 1 .. n + 1
                 PROVE  w[i][2] = "right" <=> i \in 1 .. n /\ s[i][2] = "right"
      OBVIOUS
    <3>1. CASE i \in 1 .. n - 1
      BY <1>1, <1>2, <1>4, <3>1
    <3>2. CASE i = n
      BY <1>2, <3>2
    <3>3. CASE i = n + 1
      BY <1>1, <1>2, <3>3
    <3> QED  BY <1>4, <3>1, <3>2, <3>3
  <2> QED  BY <1>4, <2>2, <2>3, <2>4
<1>6. \A i \in Keys(s) : RootAt(g, i) = RootAt(c, i)
  <2> SUFFICES ASSUME NEW i \in Keys(s) PROVE RootAt(g, i) = RootAt(c, i)
    OBVIOUS
  <2>1. i \in 1 .. n - 1
    BY <1>2, <1>4, <1>5
  <2>2. i <= Len(s) /\ i <= Len(w) /\ w[i] = s[i]
    BY <1>2, <1>3, <1>4, <2>1
  <2> QED  BY <2>2 DEF RootAt, s, w
<1>7. Heads(g) = Heads(c)
  BY <1>5, <1>6 DEF Heads, s, w
<1>8. Levels(w, D)
  <2> SUFFICES ASSUME NEW i \in 1 .. n + 1
               PROVE  w[i][1] = D + 1 - i /\ (i < n + 1 => w[i][2] # "call")
    BY <1>2 DEF Levels
  <2>1. CASE i \in 1 .. n - 1
    BY <1>1, <1>2, <1>4, <2>1
  <2>2. CASE i = n
    BY <1>1, <1>2, <2>2
  <2>3. CASE i = n + 1
    <3>1. w[i][1] = s[n][1] - 1 /\ s[n][1] = D + 1 - n
      BY <1>1, <1>2, <2>3
    <3> QED  BY <1>1, <2>3, <3>1
  <2> QED  BY <1>4, <2>1, <2>2, <2>3
<1>9. \A i, j \in Keys(w) : i # j => RootAt(g, i) # RootAt(g, j)
  <2>1. \A i, j \in Keys(s) : i # j => RootAt(c, i) # RootAt(c, j)
    BY DEF Recursing, s
  <2> QED  BY <1>5, <1>6, <2>1
<1> QED  BY <1>3, <1>7, <1>8, <1>9 DEF Recursing, w

(* The root of the left subtree moves from ret to the frame's slot.          *)
LEMMA CallRightRoots ==
  ASSUME NEW c, c.stack \in Stacks, c.stack # <<>>, NEW D \in Nat, NEW T, Recursing(c, T, D),
         c.stack[Len(c.stack)][2] = "left", NEW d, d = c.stack[Len(c.stack)][1],
         NEW g, g.slot[d].l = c.ret, \A e \in 0 .. D : e # d => g.slot[e].l = c.slot[e].l,
         IsCall(c.stack, g.stack, "right")
  PROVE  Heads(g) = Heads(c) /\ Recursing(g, T, D)
<1> DEFINE s == c.stack  n == Len(s)  w == g.stack  R == {i \in 1 .. n - 1 : s[i][2] = "right"}
<1>1. /\ s \in Stacks /\ n \in Nat \ {0} /\ n \in 1 .. n
      /\ \A i \in 1 .. n : s[i][1] = D + 1 - i /\ s[i][1] \in 0 .. D
      /\ \A i, j \in 1 .. n : s[i][1] = s[j][1] => i = j
      /\ \A i \in 1 .. n : i < n => s[i][2] # "call"
  BY StackFacts, FrameDepths DEF Recursing, Levels
<1>2. /\ w \in Stacks /\ Len(w) = n + 1 /\ \A i \in 1 .. n - 1 : w[i] = s[i]
      /\ w[n] = <<d, "right">> /\ w[n + 1] = <<d - 1, "call">> /\ s[n][2] = "left" /\ s[n][1] = d
  BY DEF IsCall
<1> HIDE DEF s, n, w
<1>3. w # <<>> /\ s # <<>> /\ Len(s) = n
  BY <1>1, <1>2 DEF s, n
<1>4. /\ \A i \in 1 .. n + 1 : i \in 1 .. n - 1 \/ i = n \/ i = n + 1
      /\ \A i \in 1 .. n : i \in 1 .. n - 1 \/ i = n
      /\ \A i \in 1 .. n - 1 : i \in 1 .. n /\ i \in 1 .. n + 1 /\ i # n /\ i # n + 1 /\ i <= n /\ i <= n + 1
      /\ n \in 1 .. n + 1 /\ n <= n + 1 /\ n # n + 1 /\ ~(n + 1 <= n)
  BY <1>1
<1>5. Keys(w) = R \cup {n} /\ Keys(s) = R \cup {n + 1}
  <2>1. w[Len(w)][2] = "call" /\ s[Len(s)][2] # "call"
    BY <1>2, <1>3
  <2>2. Keys(s) = {i \in 1 .. n : s[i][2] = "right"} \cup {n + 1}
    BY <1>3, <2>1 DEF Keys
  <2>3. Keys(w) = {i \in 1 .. n + 1 : w[i][2] = "right"}
    BY <1>2, <1>3, <2>1 DEF Keys
  <2>4. \A i \in 1 .. n + 1 : w[i][2] = "right" <=> i \in R \/ i = n
    <3> SUFFICES ASSUME NEW i \in 1 .. n + 1
                 PROVE  w[i][2] = "right" <=> i \in R \/ i = n
      OBVIOUS
    <3>1. CASE i \in 1 .. n - 1
      BY <1>2, <1>4, <3>1
    <3>2. CASE i = n
      BY <1>2, <3>2
    <3>3. CASE i = n + 1
      BY <1>2, <1>4, <3>3
    <3> QED  BY <1>4, <3>1, <3>2, <3>3
  <2>5. {i \in 1 .. n : s[i][2] = "right"} = R
    BY <1>2, <1>4
  <2>6. {i \in 1 .. n + 1 : w[i][2] = "right"} = R \cup {n}
    BY <1>4, <2>4
  <2> QED  BY <2>2, <2>3, <2>5, <2>6
<1>6. \A i \in R : RootAt(g, i) = RootAt(c, i)
  <2> SUFFICES ASSUME NEW i \in R PROVE RootAt(g, i) = RootAt(c, i)
    OBVIOUS
  <2>1. i <= Len(s) /\ i <= Len(w) /\ w[i] = s[i]
    BY <1>2, <1>3, <1>4
  <2>2. s[i][1] \in 0 .. D /\ s[i][1] # d
    BY <1>1, <1>2, <1>4
  <2>3. g.slot[s[i][1]].l = c.slot[s[i][1]].l
    BY <2>2
  <2> QED  BY <2>1, <2>3 DEF RootAt, s, w
<1>7. RootAt(g, n) = c.ret /\ RootAt(c, n + 1) = c.ret
  <2>1. n <= Len(w) /\ ~(n + 1 <= Len(s)) /\ w[n][1] = d
    BY <1>2, <1>3, <1>4
  <2> QED  BY <2>1 DEF RootAt, s, w
<1>8. Heads(g) = Heads(c)
  <2>1. {RootAt(g, i) : i \in R \cup {n}} = {RootAt(c, i) : i \in R \cup {n + 1}}
    BY <1>6, <1>7
  <2> QED  BY <1>5, <2>1 DEF Heads, s, w
<1>9. Levels(w, D)
  <2> SUFFICES ASSUME NEW i \in 1 .. n + 1
               PROVE  w[i][1] = D + 1 - i /\ (i < n + 1 => w[i][2] # "call")
    BY <1>2 DEF Levels
  <2>1. CASE i \in 1 .. n - 1
    BY <1>1, <1>2, <1>4, <2>1, SMTT(40)
  <2>2. CASE i = n
    BY <1>1, <1>2, <2>2
  <2>3. CASE i = n + 1
    <3>1. w[i][1] = s[n][1] - 1 /\ s[n][1] = D + 1 - n
      BY <1>1, <1>2, <2>3
    <3> QED  BY <1>1, <2>3, <3>1
  <2> QED  BY <1>4, <2>1, <2>2, <2>3
<1>10. \A i, j \in Keys(w) : i # j => RootAt(g, i) # RootAt(g, j)
  <2>1. \A i, j \in Keys(s) : i # j => RootAt(c, i) # RootAt(c, j)
    BY DEF Recursing, s
  <2>2. \A i \in R : i # n /\ i # n + 1
    BY <1>4
  <2> HIDE DEF R
  <2>3. ASSUME NEW i \in R PROVE RootAt(g, i) # RootAt(g, n)
    BY <1>5, <1>6, <1>7, <2>1, <2>2
  <2>4. ASSUME NEW i \in R, NEW j \in R, i # j PROVE RootAt(g, i) # RootAt(g, j)
    BY <1>5, <1>6, <2>1, <2>4
  <2> QED  BY <1>5, <2>3, <2>4
<1> QED  BY <1>3, <1>8, <1>9, <1>10, SMTT(40) DEF Recursing, w

(* A leaf returns: its add1 is one more root.                                *)
LEMMA LeafRoots ==
  ASSUME NEW c, c.stack \in Stacks, c.stack # <<>>, NEW D \in Nat \ {0}, NEW T, Recursing(c, T, D),
         c.stack[Len(c.stack)][2] = "call", c.stack[Len(c.stack)][1] = 0, NEW a, a \notin Heads(c),
         NEW g, g.slot = c.slot, g.ret = a, IsReturn(c.stack, g.stack), NEW U
  PROVE  Heads(g) = Heads(c) \cup {a} /\ Recursing(g, U, D)
<1> DEFINE s == c.stack  n == Len(s)  w == g.stack  R == {i \in 1 .. n - 1 : s[i][2] = "right"}
<1>1. /\ s \in Stacks /\ n \in Nat \ {0} /\ n \in 1 .. n
      /\ \A i \in 1 .. n : s[i][1] = D + 1 - i
      /\ \A i \in 1 .. n : i < n => s[i][2] # "call"
  BY StackFacts, FrameDepths DEF Recursing, Levels
<1>2. /\ w \in Stacks /\ Len(w) = n - 1 /\ \A i \in 1 .. n - 1 : w[i] = s[i]
      /\ s[n][2] = "call" /\ s[n][1] = 0
  BY DEF IsReturn
<1> HIDE DEF s, n, w
<1>3. n # 1 /\ n - 1 \in 1 .. n - 1 /\ n - 1 < n
  <2>1. 0 = D + 1 - n
    BY <1>1, <1>2
  <2>2. n # 1
    BY <1>1, <2>1
  <2> QED  BY <1>1, <2>2
<1>4. /\ s # <<>> /\ w # <<>> /\ Len(s) = n /\ w[Len(w)][2] # "call" /\ n - 1 + 1 = n
      /\ \A i \in 1 .. n : i \in 1 .. n - 1 \/ i = n
      /\ \A i \in 1 .. n - 1 : i \in 1 .. n /\ i # n /\ i <= n /\ i <= n - 1
      /\ ~(n <= n - 1)
  <2>1. n - 1 \in 1 .. n
    BY <1>1, <1>3
  <2>2. w[n - 1][2] # "call"
    BY <1>1, <1>2, <1>3, <2>1
  <2>3. Len(s) = n
    BY DEF n
  <2>4. s # <<>> /\ w # <<>>
    BY <1>1, <1>2, <1>3, <2>3
  <2> QED  BY <1>1, <1>2, <2>2, <2>3, <2>4
<1>5. Keys(w) = R \cup {n} /\ Keys(s) = R
  <2>1. Keys(s) = {i \in 1 .. n : s[i][2] = "right"}
    BY <1>2, <1>4 DEF Keys
  <2>2. Keys(w) = {i \in 1 .. n - 1 : w[i][2] = "right"} \cup {n}
    BY <1>2, <1>4 DEF Keys
  <2>3. {i \in 1 .. n : s[i][2] = "right"} = R
    BY <1>2, <1>4
  <2>4. {i \in 1 .. n - 1 : w[i][2] = "right"} = R
    BY <1>2
  <2> QED  BY <2>1, <2>2, <2>3, <2>4
<1>6. \A i \in R : RootAt(g, i) = RootAt(c, i)
  <2> SUFFICES ASSUME NEW i \in R PROVE RootAt(g, i) = RootAt(c, i)
    OBVIOUS
  <2>1. i <= Len(s) /\ i <= Len(w) /\ w[i] = s[i]
    BY <1>2, <1>4
  <2> QED  BY <2>1 DEF RootAt, s, w
<1>7. RootAt(g, n) = a
  <2>1. ~(n <= Len(w))
    BY <1>2, <1>4
  <2> QED  BY <2>1 DEF RootAt, w
<1>8. Heads(c) = {RootAt(c, i) : i \in R} /\ Heads(g) = {RootAt(g, i) : i \in R \cup {n}}
  BY <1>5 DEF Heads, s, w
<1>9. Heads(g) = Heads(c) \cup {a}
  BY <1>6, <1>7, <1>8
<1>10. Levels(w, D)
  BY <1>1, <1>2, <1>4, SMTT(40) DEF Levels
<1>11. \A i, j \in Keys(w) : i # j => RootAt(g, i) # RootAt(g, j)
  <2>1. \A i, j \in R : i # j => RootAt(c, i) # RootAt(c, j)
    BY <1>5 DEF Recursing, s
  <2>2. \A i \in R : i # n
    BY <1>4
  <2> HIDE DEF R
  <2>3. ASSUME NEW i \in R PROVE RootAt(g, i) # RootAt(g, n)
    BY <1>6, <1>7, <1>8
  <2>4. ASSUME NEW i \in R, NEW j \in R, i # j PROVE RootAt(g, i) # RootAt(g, j)
    BY <1>6, <2>1, <2>4, SMTT(40)
  <2> QED  BY <1>5, <2>3, <2>4
<1> QED  BY <1>4, <1>9, <1>10, <1>11 DEF Recursing, w

(* A node returns: its add takes the place of its two subtrees' roots.       *)
LEMMA NodeRoots ==
  ASSUME NEW c, c.stack \in Stacks, c.stack # <<>>, NEW D \in Nat, NEW T, Recursing(c, T, D),
         c.stack[Len(c.stack)][2] = "right", NEW d, d = c.stack[Len(c.stack)][1],
         NEW a, a \notin Heads(c), NEW U, U[a] = Add,
         NEW g, \A e \in 0 .. D : g.slot[e].l = c.slot[e].l, g.ret = a, IsReturn(c.stack, g.stack),
         NEW l, l = c.slot[d].l, NEW r, r = c.ret
  PROVE  /\ l \in Heads(c) /\ r \in Heads(c) /\ l # r
         /\ Heads(g) = (Heads(c) \ {l, r}) \cup {a} /\ Recursing(g, U, D)
<1> DEFINE s == c.stack  n == Len(s)  w == g.stack  R == {i \in 1 .. n - 1 : s[i][2] = "right"}
<1>1. /\ s \in Stacks /\ n \in Nat \ {0} /\ n \in 1 .. n
      /\ \A i \in 1 .. n : s[i][1] = D + 1 - i /\ s[i][1] \in 0 .. D
      /\ \A i \in 1 .. n : i < n => s[i][2] # "call"
  BY StackFacts, FrameDepths DEF Recursing, Levels
<1>2. /\ w \in Stacks /\ Len(w) = n - 1 /\ \A i \in 1 .. n - 1 : w[i] = s[i]
      /\ s[n][2] = "right" /\ s[n][1] = d
  BY DEF IsReturn
<1> HIDE DEF s, n, w
<1>3. /\ \A i \in 1 .. n : i \in 1 .. n - 1 \/ i = n
      /\ \A i \in 1 .. n - 1 : i \in 1 .. n /\ i # n /\ i # n + 1 /\ i <= n /\ i <= n - 1 /\ i < n
      /\ ~(n <= n - 1) /\ n <= n /\ ~(n + 1 <= n) /\ n # n + 1 /\ n - 1 + 1 = n
  BY <1>1
<1>4. s # <<>> /\ Len(s) = n /\ (w # <<>> => w[Len(w)][2] # "call")
  <2>1. Len(s) = n /\ s # <<>>
    BY <1>1 DEF n
  <2>2. ASSUME w # <<>> PROVE w[Len(w)][2] # "call"
    <3>1. Len(w) \in 1 .. Len(w)
      BY <1>2, <2>2, StackFacts
    <3>2. n - 1 \in 1 .. n - 1
      BY <1>2, <3>1
    <3> QED  BY <1>1, <1>2, <1>3, <3>2
  <2> QED  BY <2>1, <2>2
<1>5. Keys(w) = R \cup {n} /\ Keys(s) = R \cup {n, n + 1}
  <2>1. Keys(s) = {i \in 1 .. n : s[i][2] = "right"} \cup {n + 1}
    BY <1>2, <1>4 DEF Keys
  <2>2. Keys(w) = {i \in 1 .. n - 1 : w[i][2] = "right"} \cup {n}
    BY <1>2, <1>3, <1>4 DEF Keys
  <2>3. {i \in 1 .. n : s[i][2] = "right"} = R \cup {n}
    BY <1>1, <1>2, <1>3
  <2>4. {i \in 1 .. n - 1 : w[i][2] = "right"} = R
    BY <1>2
  <2> QED  BY <2>1, <2>2, <2>3, <2>4
<1>6. \A i \in R : RootAt(g, i) = RootAt(c, i)
  <2> SUFFICES ASSUME NEW i \in R PROVE RootAt(g, i) = RootAt(c, i)
    OBVIOUS
  <2>1. i <= Len(s) /\ i <= Len(w) /\ w[i] = s[i] /\ s[i][1] \in 0 .. D
    BY <1>1, <1>2, <1>3, <1>4
  <2>2. g.slot[s[i][1]].l = c.slot[s[i][1]].l
    BY <2>1
  <2> QED  BY <2>1, <2>2 DEF RootAt, s, w
<1>7. RootAt(g, n) = a /\ RootAt(c, n) = l /\ RootAt(c, n + 1) = r
  <2>1. ~(n <= Len(w)) /\ n <= Len(s) /\ ~(n + 1 <= Len(s))
    BY <1>2, <1>3, <1>4
  <2> QED  BY <1>2, <2>1 DEF RootAt, w, s
<1>8. /\ Heads(c) = {RootAt(c, i) : i \in R \cup {n, n + 1}}
      /\ Heads(g) = {RootAt(g, i) : i \in R \cup {n}}
  BY <1>5 DEF Heads, s, w
<1>9. \A i, j \in R \cup {n, n + 1} : i # j => RootAt(c, i) # RootAt(c, j)
  BY <1>5 DEF Recursing, s
<1>10. \A i \in R : i # n /\ i # n + 1
  BY <1>3
<1> HIDE DEF R
<1>11. \A i \in R : RootAt(c, i) # l /\ RootAt(c, i) # r
  BY <1>7, <1>9, <1>10
<1>12. l # r /\ l \in Heads(c) /\ r \in Heads(c)
  BY <1>3, <1>7, <1>8, <1>9
<1>13. Heads(g) = (Heads(c) \ {l, r}) \cup {a}
  <2>1. Heads(c) \ {l, r} = {RootAt(c, i) : i \in R}
    BY <1>7, <1>8, <1>11
  <2>2. Heads(g) = {RootAt(c, i) : i \in R} \cup {a}
    BY <1>6, <1>7, <1>8
  <2> QED  BY <2>1, <2>2
<1>14. Levels(w, D)
  BY <1>1, <1>2, <1>3 DEF Levels
<1>15. \A i, j \in Keys(w) : i # j => RootAt(g, i) # RootAt(g, j)
  <2>1. ASSUME NEW i \in R PROVE RootAt(g, i) # RootAt(g, n)
    BY <1>6, <1>7, <1>8
  <2>2. ASSUME NEW i \in R, NEW j \in R, i # j PROVE RootAt(g, i) # RootAt(g, j)
    BY <1>6, <1>9, <2>2
  <2> QED  BY <1>5, <2>1, <2>2
<1> QED  BY <1>12, <1>13, <1>14, <1>15 DEF Recursing, w

-----------------------------------------------------------------------------
(* The heap before the driver *)

(* What a step that keeps words and counters does to it: it may enqueue.     *)
LEMMA SeedsSame ==
  ASSUME NEW h, NEW n, NEW m, Seeds(h, n, m), NEW g, SoundHeap(g), g.word = h.word, g.free = h.free,
         g.err = h.err, g.count = h.count, g.head = h.head, NEW k, g.tail = k
  PROVE  Seeds(g, n, k) /\ Types(g) = Types(h)
<1>1. Pool(g) /\ Types(g) = Types(h)
  BY SamePool DEF Seeds
<1>2. FreshFrom(g, n)
  BY <1>1 DEF Seeds, FreshFrom
<1> QED  BY <1>1, <1>2 DEF Seeds

LEMMA SeedsReset ==
  ASSUME NEW h \in Heap
  PROVE  Seeds(Reset(h), 0, 0) /\ Types(Reset(h)) = [a \in Agent |-> 0]
<1> DEFINE g == Reset(h)
<1>1. /\ Pool(g) /\ Types(g) = [a \in Agent |-> 0]
      /\ g.head = 0 /\ g.tail = 0 /\ g.count = 0 /\ g.err = 0
  BY ResetEffect
<1>2. g.word = [a \in Agent |-> IF a + 1 \in Agent THEN a + 1 ELSE 0] /\ g.free = AGENTS
  BY DEF Reset, Heap
<1> HIDE DEF g
<1>3. FreshFrom(g, 0)
  <2>1. 0 \in 0 .. NAGENTS /\ 0 < NAGENTS /\ AGENTS + 0 = AGENTS
    BY HeapAssumption
  <2> QED  BY <1>1, <1>2, <2>1 DEF FreshFrom
<1> QED  BY <1>1, <1>3 DEF Seeds, g

(* The list is empty only when all agents are taken.                         *)
LEMMA SeedsEmpty ==
  ASSUME NEW h, NEW n, NEW m, Seeds(h, n, m), h.free = 0
  PROVE  n = NAGENTS
<1>1. n \in 0 .. NAGENTS /\ h.free = IF n < NAGENTS THEN AGENTS + n ELSE 0
  BY DEF Seeds, FreshFrom
<1> QED  BY <1>1, HeapAssumption

LEMMA SeedsNew ==
  ASSUME NEW h, NEW n, NEW m, Seeds(h, n, m), h.free # 0, NEW t \in Type, NEW g, g = NewAg(h, t)
  PROVE  /\ h.free = AGENTS + n /\ AGENTS + n \in Agent /\ n \in Nat /\ n + 1 <= NAGENTS
         /\ Seeds(g, n + 1, m) /\ Types(g) = [Types(h) EXCEPT ![AGENTS + n] = t]
         /\ Types(h) \in [Agent -> 0 .. 4]
         /\ g.port = h.port /\ g.cell = h.cell
<1>1. /\ Pool(h) /\ n \in 0 .. NAGENTS /\ h.free = IF n < NAGENTS THEN AGENTS + n ELSE 0
      /\ h.err = 0 /\ h.count = 0 /\ h.head = 0 /\ h.tail = m
      /\ \A a \in Agent : a >= AGENTS + n =>
           h.word[a] = (IF a + 1 \in Agent THEN a + 1 ELSE 0) /\ Types(h)[a] = 0
  BY DEF Seeds, FreshFrom
<1>2. n \in Nat /\ n < NAGENTS /\ h.free = AGENTS + n /\ n + 1 \in 0 .. NAGENTS
  BY <1>1, HeapAssumption
<1>3. /\ Pool(g) /\ SameButPool(g, h) /\ h.free \in Agent
      /\ Types(g) = [Types(h) EXCEPT ![h.free] = t]
  BY <1>1, NewAgEffect
<1>4. Types(h) \in [Agent -> 0 .. 4] /\ SoundHeap(h)
  BY <1>1, TypesFacts DEF Pool
<1>5. /\ g.free = h.word[h.free] /\ \A a \in Agent : a # h.free => g.word[a] = h.word[a]
  <2>1. \A a \in Agent : a # h.free => g.word[a] = h.word[a]
    BY <1>4, NewAgSound
  <2>2. g.free = h.word[h.free]
    BY <1>4 DEF NewAg, SoundHeap, Heap
  <2> QED  BY <2>1, <2>2
<1>6. \A a \in Agent : a >= AGENTS + (n + 1) => a >= AGENTS + n /\ a # AGENTS + n
  BY <1>2, HeapAssumption DEF Agent
<1>7. h.word[AGENTS + n] = IF AGENTS + n + 1 \in Agent THEN AGENTS + n + 1 ELSE 0
  <2>1. AGENTS + n \in Agent /\ AGENTS + n >= AGENTS + n
    BY <1>2, <1>3, HeapAssumption
  <2> QED  BY <1>1, <2>1
<1>8. g.free = IF n + 1 < NAGENTS THEN AGENTS + (n + 1) ELSE 0
  <2>1. AGENTS + n + 1 = AGENTS + (n + 1) /\ (AGENTS + n + 1 \in Agent <=> n + 1 < NAGENTS)
    BY <1>2, HeapAssumption DEF Agent
  <2> QED  BY <1>2, <1>5, <1>7, <2>1
<1>9. \A a \in Agent : a >= AGENTS + (n + 1) =>
        g.word[a] = (IF a + 1 \in Agent THEN a + 1 ELSE 0) /\ Types(g)[a] = 0
  BY <1>1, <1>2, <1>3, <1>4, <1>5, <1>6
<1>10. FreshFrom(g, n + 1)
  BY <1>2, <1>8, <1>9 DEF FreshFrom
<1>11. Seeds(g, n + 1, m)
  BY <1>1, <1>3, <1>10 DEF Seeds, SameButPool
<1>12. n + 1 <= NAGENTS
  BY <1>2
<1> QED  BY <1>2, <1>3, <1>4, <1>11, <1>12 DEF SameButPool

LEMMA SeedsConnect ==
  ASSUME NEW h, NEW n, NEW m, Seeds(h, n, m), NEW v \in Port, NEW w \in Port,
         NEW g, g = Connect(h, v, w)
  PROVE  /\ Seeds(g, n, m) /\ Types(g) = Types(h) /\ g.cell = h.cell
         /\ g.port = Joined(h.port, v, w)
<1>1. /\ Pool(h) /\ SoundHeap(h) /\ h \in Heap
  BY DEF Seeds, Pool, SoundHeap
<1>2. /\ g.port = Joined(h.port, v, w) /\ g.count = h.count /\ g.err = h.err /\ g.cell = h.cell
      /\ g.head = h.head /\ g.tail = h.tail
  BY <1>1, ConnectEffect
<1>3. SoundHeap(g) /\ g.word = h.word
  BY <1>1, ConnectSound, PortValues
<1>4. g.free = h.free
  BY <1>1 DEF Connect, Heap
<1>5. h.tail = m
  BY DEF Seeds
<1>6. Seeds(g, n, m) /\ Types(g) = Types(h)
  BY <1>2, <1>3, <1>4, <1>5, SeedsSame
<1> QED  BY <1>2, <1>6

LEMMA SeedsEnq ==
  ASSUME NEW h, NEW n, NEW m, Seeds(h, n, m), NEW a \in Agent, NEW g, g = Enq(h, a)
  PROVE  /\ Seeds(g, n, m + 1) /\ Types(g) = Types(h) /\ g.port = h.port
         /\ g.cell = [h.cell EXCEPT ![m % QSIZE] = a]
         /\ h.cell \in [0 .. QSIZE - 1 -> Agent \cup {0}]
<1>1. /\ Pool(h) /\ SoundHeap(h) /\ h \in Heap /\ h.tail = m
  BY DEF Seeds, Pool, SoundHeap
<1>2. SoundHeap(g) /\ g.word = h.word /\ g.free = h.free
  BY <1>1, EnqSound
<1>3. /\ g.port = h.port /\ g.count = h.count /\ g.err = h.err /\ g.head = h.head
      /\ g.tail = m + 1 /\ g.cell = [h.cell EXCEPT ![m % QSIZE] = a]
  BY <1>1 DEF Enq, Heap
<1>4. Seeds(g, n, m + 1) /\ Types(g) = Types(h)
  BY <1>2, <1>3, SeedsSame
<1>5. h.cell \in [0 .. QSIZE - 1 -> Agent \cup {0}]
  BY <1>1 DEF Heap
<1> QED  BY <1>3, <1>4, <1>5

(* Agents beyond those taken are free. *)
LEMMA SeedsBeyond ==
  ASSUME NEW h, NEW n, NEW m, Seeds(h, n, m)
  PROVE  /\ \A a \in Agent : a >= AGENTS + n => Types(h)[a] = 0
         /\ n \in Nat /\ n <= NAGENTS /\ Ids(AGENTS, n) \subseteq Agent
         /\ Pool(h) /\ h.err = 0 /\ h.count = 0 /\ h.head = 0 /\ h.tail = m
         /\ Types(h) \in [Agent -> 0 .. 4] /\ h.port \in [Port -> PortValue] /\ h \in Heap
<1>1. n \in 0 .. NAGENTS
  BY DEF Seeds, FreshFrom
<1>2. n \in Nat /\ n <= NAGENTS /\ Ids(AGENTS, n) \subseteq Agent
  BY <1>1, HeapAssumption DEF Ids, Agent
<1>3. SoundHeap(h) /\ h \in Heap
  BY DEF Seeds, Pool, SoundHeap
<1>4. Types(h) \in [Agent -> 0 .. 4] /\ h.port \in [Port -> PortValue]
  BY <1>3, TypesFacts DEF Heap
<1> QED  BY <1>2, <1>3, <1>4 DEF Seeds, FreshFrom

-----------------------------------------------------------------------------
(* What build_tree does to the heap *)

LEMMA SeedsHeap ==
  ASSUME NEW h, NEW n, NEW m, Seeds(h, n, m)
  PROVE  h \in Heap /\ h.port \in [Port -> PortValue]
BY DEF Seeds, Pool, SoundHeap, Heap

LEMMA BuildGrowsLeaf ==
  ASSUME NEW h, NEW n, NEW m, Seeds(h, n, m), h.free # 0,
         NEW H, Grown(AGENTS, Types(h), h.port, H, n, m, h.cell),
         NEW h1, h1 = NewAg(h, Zero), h1.free # 0, NEW h2, h2 = NewAg(h1, Add1),
         NEW g, g = Connect(h2, <<h.free, 0>>, <<h1.free, 1>>)
  PROVE  /\ Seeds(g, n + 2, m) /\ h1.free = AGENTS + n + 1 /\ n + 2 <= NAGENTS
         /\ Grown(AGENTS, Types(g), g.port, H \cup {h1.free}, n + 2, m, g.cell)
<1> DEFINE T == Types(h)  P == h.port  U == Types(g)  Q == g.port  b == AGENTS
           z == b + n  a == b + n + 1  v == <<z, 0>>  w == <<a, 1>>
<1>1. /\ h.free = b + n /\ b + n \in Agent /\ n \in Nat /\ n + 1 <= NAGENTS
      /\ Seeds(h1, n + 1, m) /\ Types(h1) = [T EXCEPT ![b + n] = Zero]
      /\ T \in [Agent -> 0 .. 4]
      /\ h1.port = h.port /\ h1.cell = h.cell
  <2>1. Zero \in Type
    BY DEF Zero, Type
  <2> QED  BY <2>1, SeedsNew
<1>2. /\ h1.free = b + (n + 1) /\ b + (n + 1) \in Agent /\ n + 1 \in Nat /\ (n + 1) + 1 <= NAGENTS
      /\ Seeds(h2, (n + 1) + 1, m) /\ Types(h2) = [Types(h1) EXCEPT ![b + (n + 1)] = Add1]
      /\ Types(h1) \in [Agent -> 0 .. 4]
      /\ h2.port = h1.port /\ h2.cell = h1.cell
  <2>1. Add1 \in Type /\ Seeds(h1, n + 1, m) /\ h1.free # 0 /\ h2 = NewAg(h1, Add1)
    BY <1>1 DEF Add1, Type
  <2> DEFINE k == n + 1
  <2> HIDE DEF k
  <2>2. /\ h1.free = b + k /\ b + k \in Agent /\ k \in Nat /\ k + 1 <= NAGENTS
        /\ Seeds(h2, k + 1, m) /\ Types(h2) = [Types(h1) EXCEPT ![b + k] = Add1]
        /\ Types(h1) \in [Agent -> 0 .. 4]
        /\ h2.port = h1.port /\ h2.cell = h1.cell
    <3>1. Seeds(h1, k, m)
      BY <2>1 DEF k
    <3> QED  BY <2>1, <3>1, SeedsNew
  <2> QED  BY <2>2 DEF k
<1>3. /\ b \in Nat /\ n \in Nat /\ b + (n + 1) = a /\ (n + 1) + 1 = n + 2 /\ a # z /\ n + 2 <= NAGENTS
      /\ \A e \in Ids(b, n) : e \in Agent /\ e # a /\ e # z
  <2>1. b \in Nat
    BY HeapAssumption
  <2>2. (n + 1) + 1 <= NAGENTS /\ n \in Nat
    BY <1>1, <1>2
  <2>3. \A e \in Ids(b, n) : e \in Agent
    BY SeedsBeyond
  <2>4. b + (n + 1) = a /\ (n + 1) + 1 = n + 2 /\ a # z /\ \A e \in Ids(b, n) : e # a /\ e # z
    BY <2>1, <2>2 DEF Ids
  <2> QED  BY <2>1, <2>2, <2>3, <2>4
<1>4. z \in Agent /\ a \in Agent /\ h1.free = a /\ h.free = z /\ Seeds(h2, n + 2, m)
      /\ Types(h1) = [T EXCEPT ![z] = Zero] /\ Types(h2) = [Types(h1) EXCEPT ![a] = Add1]
  BY <1>1, <1>2, <1>3
<1> HIDE DEF z, a
<1>5. v \in Port /\ w \in Port /\ v # w
  BY <1>3, <1>4, PortFacts
<1> HIDE DEF v, w
<1>6. /\ Seeds(g, n + 2, m) /\ U = Types(h2) /\ g.cell = h2.cell
      /\ Q = Joined(h2.port, v, w)
  <2>1. g = Connect(h2, v, w)
    BY <1>4 DEF v, w
  <2>2. Seeds(h2, n + 2, m) /\ v \in Port /\ w \in Port
    BY <1>4, <1>5
  <2> QED  BY ONLY <2>1, <2>2, SeedsConnect
<1>7. U[z] = Zero /\ U[a] = Add1 /\ \A e \in Ids(b, n) : U[e] = T[e]
  <2>1. \A e \in Agent : U[e] = IF e = a THEN Add1 ELSE IF e = z THEN Zero ELSE T[e]
    <3>1. Types(h1) = [T EXCEPT ![z] = Zero] /\ U = [Types(h1) EXCEPT ![a] = Add1]
          /\ T \in [Agent -> 0 .. 4]
      BY <1>1, <1>4, <1>6
    <3> HIDE DEF U, T
    <3> QED  BY <3>1
  <2> QED  BY <1>3, <1>4, <2>1
<1>8. Q[v] = w /\ Q[w] = v /\ \A p \in Ids(b, n) \X (0 .. 2) : Q[p] = P[p]
  <2>1. \A p \in Port : Q[p] = IF p = w THEN v ELSE IF p = v THEN w ELSE P[p]
    <3>1. Q = Joined(P, v, w) /\ P \in [Port -> PortValue]
      BY <1>1, <1>2, <1>6, SeedsHeap
    <3> HIDE DEF Q, P
    <3> QED  BY <3>1 DEF Joined
  <2>2. \A p \in Ids(b, n) \X (0 .. 2) : p \in Port /\ p # v /\ p # w
    <3>1. Ids(b, n) \X (0 .. 2) \subseteq Port
      BY <1>3 DEF Port
    <3>2. \A p \in Ids(b, n) \X (0 .. 2) : p[1] \in Ids(b, n)
      OBVIOUS
    <3>3. v[1] = z /\ w[1] = a
      BY DEF v, w
    <3> QED  BY <1>3, <3>1, <3>2, <3>3
  <2> QED  BY <1>5, <2>1, <2>2
<1>9. Grown(b, U, Q, H \cup {a}, n + 2, m, h.cell)
  <2>1. LeafAdded(b, n, T, P, U, Q)
    BY <1>7, <1>8 DEF LeafAdded, v, w, z, a
  <2>2. Grown(b, T, P, H, n, m, h.cell) /\ b \in Nat
    BY <1>3
  <2> HIDE DEF T, P, U, Q, b
  <2>3. Grown(b, U, Q, H \cup {b + n + 1}, n + 2, m, h.cell)
    BY ONLY <2>1, <2>2, GrownLeaf
  <2> QED  BY <2>3 DEF a
<1> QED  BY <1>1, <1>2, <1>3, <1>4, <1>6, <1>9 DEF a

(* The cells of the ring a tree needs come before it wraps. *)
LEMMA CellAt ==
  ASSUME NEW m \in Nat, m < QSIZE
  PROVE  m % QSIZE = m /\ m \in 0 .. QSIZE - 1
BY HeapAssumption

NodeMade(h, l, r) ==
  LET h1 == NewAg(h, Add)
  IN  Enq(Connect(Connect(h1, <<h.free, 0>>, Iface(h1, l)), <<h.free, 1>>, Iface(h1, r)), h.free)

LEMMA BuildGrowsNode ==
  ASSUME NEW h, NEW n, NEW m \in Nat, m < QSIZE, Seeds(h, n, m), h.free # 0,
         NEW H, Grown(AGENTS, Types(h), h.port, H, n, m, h.cell),
         NEW l \in H, NEW r \in H, l # r, NEW g, g = NodeMade(h, l, r)
  PROVE  /\ Seeds(g, n + 1, m + 1) /\ h.free = AGENTS + n /\ n + 1 <= NAGENTS
         /\ Types(g)[h.free] = Add
         /\ Grown(AGENTS, Types(g), g.port, (H \ {l, r}) \cup {h.free}, n + 1, m + 1, g.cell)
<1> DEFINE T == Types(h)  P == h.port  U == Types(g)  Q == g.port  b == AGENTS
           a == b + n  v == Value(T, l)  w == Value(T, r)  a0 == <<a, 0>>  a1 == <<a, 1>>
           h1 == NewAg(h, Add)  h2 == Connect(h1, <<h.free, 0>>, Iface(h1, l))
           h3 == Connect(h2, <<h.free, 1>>, Iface(h1, r))
<1>0. /\ h1 = NewAg(h, Add) /\ h2 = Connect(h1, <<h.free, 0>>, Iface(h1, l))
      /\ h3 = Connect(h2, <<h.free, 1>>, Iface(h1, r)) /\ g = Enq(h3, h.free)
  BY DEF NodeMade
<1> HIDE DEF h1, h2, h3
<1> USE <1>0
<1>1. /\ h.free = b + n /\ b + n \in Agent /\ n \in Nat /\ n + 1 <= NAGENTS
      /\ Seeds(h1, n + 1, m) /\ Types(h1) = [T EXCEPT ![b + n] = Add]
      /\ T \in [Agent -> 0 .. 4]
      /\ h1.port = h.port /\ h1.cell = h.cell
  <2>1. Add \in Type
    BY DEF Add, Type
  <2> QED  BY <2>1, SeedsNew
<1>2. b \in Nat /\ \A e \in Ids(b, n) : e \in Agent /\ e # a
  <2>1. b \in Nat
    BY HeapAssumption
  <2>2. \A e \in Ids(b, n) : e \in Agent
    BY SeedsBeyond
  <2>3. \A e \in Ids(b, n) : e # a
    BY <1>1, <2>1 DEF Ids
  <2> QED  BY <2>1, <2>2, <2>3
<1>3. a \in Agent /\ h.free = a /\ Types(h1) = [T EXCEPT ![a] = Add]
  BY <1>1
<1>4. Sapling(Ids(b, n), T, P, H)
  BY DEF Grown
<1>5. /\ \A e \in H : e \in Ids(b, n) /\ T[e] \in {Add1, Add}
      /\ v[1] = l /\ v \in {<<l, 0>>, <<l, 2>>} /\ w[1] = r /\ w \in {<<r, 0>>, <<r, 2>>}
  <2>1. \A e \in H : e \in Ids(b, n) /\ T[e] \in {Add1, Add}
    BY <1>4 DEF Sapling
  <2>2. \A e \in H : Value(T, e)[1] = e /\ Value(T, e) \in {<<e, 0>>, <<e, 2>>}
    BY <1>4, OpenPorts
  <2> QED  BY <2>1, <2>2
<1>6. Iface(h1, l) = v /\ Iface(h1, r) = w
  <2>1. ASSUME NEW e \in H PROVE Iface(h1, e) = Value(T, e)
    <3>1. e \in Agent /\ e # a /\ T[e] \in {Add1, Add}
      BY <1>2, <1>5
    <3>2. Types(h1)[e] = T[e] /\ T[e] # 0
      BY <1>1, <1>3, <3>1 DEF Add1, Add
    <3>3. SoundHeap(h1)
      BY <1>1 DEF Seeds, Pool
    <3>4. h1.word[e] = T[e]
      BY <3>1, <3>2, <3>3, TypesFacts
    <3> QED  BY <3>4 DEF Iface, Value
  <2> QED  BY <2>1
<1> HIDE DEF a, v, w
<1>7. /\ a0 \in Port /\ a1 \in Port /\ v \in Port /\ w \in Port
      /\ a0 # a1 /\ v # w /\ v # a0 /\ v # a1 /\ w # a0 /\ w # a1
  <2>1. l \in Agent /\ r \in Agent /\ l # a /\ r # a
    BY <1>2, <1>5
  <2>2. a0[1] = a /\ a1[1] = a /\ a0[2] = 0 /\ a1[2] = 1
    OBVIOUS
  <2> QED  BY <1>3, <1>5, <2>1, <2>2, PortFacts
<1> HIDE DEF a0, a1
<1>8. /\ Seeds(h2, n + 1, m) /\ Types(h2) = Types(h1) /\ h2.cell = h1.cell
      /\ h2.port = Joined(h1.port, a0, v)
  <2>1. h2 = Connect(h1, a0, v)
    BY <1>3, <1>6 DEF a0
  <2>2. Seeds(h1, n + 1, m) /\ v \in Port /\ a0 \in Port
    BY <1>1, <1>7
  <2> QED  BY ONLY <2>1, <2>2, SeedsConnect
<1>9. /\ Seeds(h3, n + 1, m) /\ Types(h3) = Types(h2) /\ h3.cell = h2.cell
      /\ h3.port = Joined(h2.port, a1, w)
  <2>1. h3 = Connect(h2, a1, w)
    BY <1>3, <1>6 DEF a1
  <2>2. Seeds(h2, n + 1, m) /\ w \in Port /\ a1 \in Port
    BY <1>7, <1>8
  <2> QED  BY ONLY <2>1, <2>2, SeedsConnect
<1>10. /\ Seeds(g, n + 1, m + 1) /\ U = Types(h3) /\ Q = h3.port
       /\ g.cell = [h3.cell EXCEPT ![m % QSIZE] = a]
       /\ h3.cell \in [0 .. QSIZE - 1 -> Agent \cup {0}]
  <2>1. g = Enq(h3, a)
    BY <1>3
  <2> QED  BY <1>3, <1>9, <2>1, SeedsEnq
<1>11. U[a] = Add /\ \A e \in Ids(b, n) : U[e] = T[e]
  <2>1. \A e \in Agent : U[e] = IF e = a THEN Add ELSE T[e]
    <3>1. U = [T EXCEPT ![a] = Add] /\ T \in [Agent -> 0 .. 4]
      BY <1>1, <1>3, <1>8, <1>9, <1>10, ZenonT(40)
    <3> HIDE DEF U, T
    <3> QED  BY <3>1
  <2> QED  BY <1>2, <1>3, <2>1
<1>12. /\ Q[a0] = v /\ Q[v] = a0 /\ Q[a1] = w /\ Q[w] = a1
       /\ \A p \in (Ids(b, n) \X (0 .. 2)) \ {v, w} : Q[p] = P[p]
  <2>1. \A p \in Port : Q[p] = IF p = w THEN a1 ELSE IF p = a1 THEN w
                               ELSE IF p = v THEN a0 ELSE IF p = a0 THEN v ELSE P[p]
    <3>1. Q = Joined(Joined(P, a0, v), a1, w) /\ P \in [Port -> PortValue]
      BY <1>1, <1>8, <1>9, <1>10, SeedsHeap
    <3> HIDE DEF Q, P
    <3> QED  BY <3>1 DEF Joined
  <2>2. \A p \in Ids(b, n) \X (0 .. 2) : p \in Port /\ p # a0 /\ p # a1
    <3>1. Ids(b, n) \X (0 .. 2) \subseteq Port
      BY <1>2 DEF Port
    <3>2. \A p \in Ids(b, n) \X (0 .. 2) : p[1] \in Ids(b, n)
      OBVIOUS
    <3>3. a0[1] = a /\ a1[1] = a
      BY DEF a0, a1
    <3> QED  BY <1>2, <3>1, <3>2, <3>3
  <2> QED  BY <1>7, <2>1, <2>2
<1>13. g.cell[m] = a /\ \A j \in 0 .. m - 1 : g.cell[j] = h.cell[j]
  <2>1. m % QSIZE = m /\ m \in 0 .. QSIZE - 1
    BY CellAt
  <2>2. \A j \in 0 .. m - 1 : j \in 0 .. QSIZE - 1 /\ j # m
    BY HeapAssumption
  <2>3. g.cell = [h.cell EXCEPT ![m] = a] /\ h.cell \in [0 .. QSIZE - 1 -> Agent \cup {0}]
    BY <1>1, <1>8, <1>9, <1>10, <2>1
  <2> QED  BY <2>1, <2>2, <2>3
<1>14. Grown(b, U, Q, (H \ {l, r}) \cup {a}, n + 1, m + 1, g.cell)
  <2>1. Grown(b, T, P, H, n, m, h.cell) /\ b \in Nat /\ l \in H /\ r \in H /\ l # r
    BY <1>2, SMTT(40)
  <2>2. NodeAdded(b, n, m, l, r, T, P, h.cell, U, Q, g.cell)
    BY <1>11, <1>12, <1>13 DEF NodeAdded, v, w, a0, a1, a
  <2> HIDE DEF T, P, U, Q, b
  <2>3. Grown(b, U, Q, (H \ {l, r}) \cup {b + n}, n + 1, m + 1, g.cell)
    BY ONLY <2>1, <2>2, GrownNode
  <2> QED  BY <2>3 DEF a
<1> QED  BY <1>1, <1>3, <1>10, <1>11, <1>14

LEMMA PlantedEntries ==
  ASSUME NEW b, NEW T, NEW P, NEW E, NEW L, Planted(b, T, P, E, L),
         NEW F, \A j \in 0 .. L - 2 : F[j] = E[j]
  PROVE  Planted(b, T, P, F, L)
BY DEF Planted

(* The root, and its second entry in the ring. *)
LEMMA BuildPlants ==
  ASSUME NEW h, NEW L \in Nat \ {0}, NEW n, n = 3 * L - 1, NEW m, m = L - 1, L <= QSIZE,
         Seeds(h, n, m), h.free # 0, NEW l,
         Grown(AGENTS, Types(h), h.port, {l}, n, m, h.cell), Types(h)[l] = Add,
         NEW h1, h1 = NewAg(h, End), NEW h2, h2 = Connect(h1, <<l, 2>>, <<h.free, 0>>),
         NEW g, g = Enq(h2, l)
  PROVE  Seeds(g, 3 * L, L) /\ Planted(AGENTS, Types(g), g.port, g.cell, L)
<1> DEFINE T == Types(h)  P == h.port  U == Types(g)  Q == g.port  b == AGENTS
           a == b + n  v == <<l, 2>>  a0 == <<a, 0>>
<1>1. /\ h.free = b + n /\ b + n \in Agent /\ n \in Nat /\ n + 1 <= NAGENTS
      /\ Seeds(h1, n + 1, m) /\ Types(h1) = [T EXCEPT ![b + n] = End]
      /\ T \in [Agent -> 0 .. 4]
      /\ h1.port = h.port /\ h1.cell = h.cell
  <2>1. End \in Type
    BY DEF End, Type
  <2> QED  BY <2>1, SeedsNew
<1>2. b \in Nat /\ \A e \in Ids(b, n) : e \in Agent /\ e # a
  <2>1. b \in Nat
    BY HeapAssumption
  <2>2. \A e \in Ids(b, n) : e \in Agent
    BY SeedsBeyond
  <2>3. \A e \in Ids(b, n) : e # a
    BY <1>1, <2>1 DEF Ids
  <2> QED  BY <2>1, <2>2, <2>3
<1>3. a \in Agent /\ h.free = a /\ Types(h1) = [T EXCEPT ![a] = End]
  BY <1>1
<1>4. l \in Ids(b, n) /\ l \in Agent /\ l # a
  <2>1. l \in Ids(b, n)
    BY DEF Grown, Sapling
  <2> QED  BY <1>2, <2>1
<1>5. n + 1 = 3 * L /\ m + 1 = L /\ m \in Nat /\ m < QSIZE /\ L - 2 = m - 1
  BY HeapAssumption
<1> HIDE DEF a
<1>6. a0 \in Port /\ v \in Port /\ a0 # v
  BY <1>3, <1>4, PortFacts
<1> HIDE DEF a0, v
<1>7. /\ Seeds(h2, n + 1, m) /\ Types(h2) = Types(h1) /\ h2.cell = h1.cell
      /\ h2.port = Joined(h1.port, v, a0)
  <2>1. h2 = Connect(h1, v, a0)
    BY <1>3 DEF a0, v
  <2>2. Seeds(h1, n + 1, m) /\ v \in Port /\ a0 \in Port
    BY <1>1, <1>6
  <2> QED  BY ONLY <2>1, <2>2, SeedsConnect
<1>8. /\ Seeds(g, n + 1, m + 1) /\ U = Types(h2) /\ Q = h2.port
      /\ g.cell = [h2.cell EXCEPT ![m % QSIZE] = l]
      /\ h2.cell \in [0 .. QSIZE - 1 -> Agent \cup {0}]
  BY <1>4, <1>7, SeedsEnq
<1>9. U[a] = End /\ \A e \in Ids(b, n) : U[e] = T[e]
  <2>1. \A e \in Agent : U[e] = IF e = a THEN End ELSE T[e]
    <3>1. U = [T EXCEPT ![a] = End] /\ T \in [Agent -> 0 .. 4]
      BY <1>1, <1>3, <1>7, <1>8
    <3> HIDE DEF U, T
    <3> QED  BY <3>1
  <2> QED  BY <1>2, <1>3, <2>1
<1>10. /\ Q[a0] = v /\ Q[v] = a0
       /\ \A p \in (Ids(b, n) \X (0 .. 2)) \ {v} : Q[p] = P[p]
  <2>1. \A p \in Port : Q[p] = IF p = a0 THEN v ELSE IF p = v THEN a0 ELSE P[p]
    <3>1. Q = Joined(P, v, a0) /\ P \in [Port -> PortValue]
      BY <1>1, <1>7, <1>8, SeedsHeap
    <3> HIDE DEF Q, P
    <3> QED  BY <3>1 DEF Joined
  <2>2. \A p \in Ids(b, n) \X (0 .. 2) : p \in Port /\ p # a0
    <3>1. Ids(b, n) \X (0 .. 2) \subseteq Port
      BY <1>2 DEF Port
    <3>2. \A p \in Ids(b, n) \X (0 .. 2) : p[1] \in Ids(b, n)
      OBVIOUS
    <3>3. a0[1] = a
      BY DEF a0
    <3> QED  BY <1>2, <3>1, <3>2, <3>3
  <2> QED  BY <1>6, <2>1, <2>2
<1>11. \A j \in 0 .. L - 2 : g.cell[j] = h.cell[j]
  <2>1. m % QSIZE = m /\ m \in 0 .. QSIZE - 1
    BY <1>5, CellAt
  <2>2. \A j \in 0 .. L - 2 : j \in 0 .. QSIZE - 1 /\ j # m
    BY HeapAssumption
  <2>3. g.cell = [h.cell EXCEPT ![m] = l] /\ h.cell \in [0 .. QSIZE - 1 -> Agent \cup {0}]
    BY <1>1, <1>7, <1>8, <2>1
  <2> QED  BY <2>1, <2>2, <2>3
<1>12. Planted(b, U, Q, h.cell, L)
  <2> DEFINE H == {l}
  <2>1. H = {l} /\ Grown(b, T, P, H, n, m, h.cell) /\ b \in Nat
    BY <1>2
  <2>2. EndAdded(b, n, m, l, L, T, P, U, Q)
    BY <1>9, <1>10 DEF EndAdded, v, a0, a
  <2> HIDE DEF T, P, U, Q, b, H
  <2> QED  BY ONLY <2>1, <2>2, GrownEnd
<1>13. Planted(b, U, Q, g.cell, L)
  BY <1>11, <1>12, PlantedEntries
<1> QED  BY <1>5, <1>8, <1>13

-----------------------------------------------------------------------------
(* What build_tree_x does to the bundle *)

(* The table takes an add; the header takes the count. *)
Paired(x, a) == [x EXCEPT !.pair[x.pn] = a, !.pn = @ + 1]
Numbered(x)  == [x EXCEPT !.n = x.cnt]

LEMMA XPortFacts ==
  \A e \in RecIdx : <<e, 0>> \in XPort /\ <<e, 1>> \in XPort /\ <<e, 2>> \in XPort
BY DEF XPort

LEMMA XAllocEffect ==
  ASSUME NEW x, IsBundle(x), NEW t, NEW y, y = XAlloc(x, t)
  PROVE  /\ y.port = x.port /\ y.pair = x.pair /\ y.pn = x.pn /\ y.n = x.n
         /\ y.cnt = x.cnt + 1 /\ y.type = [x.type EXCEPT ![x.cnt + 1] = t]
<1> DEFINE k == x.cnt + 1  U == [x.type EXCEPT ![x.cnt + 1] = t]
<1>1. y = [x EXCEPT !.cnt = k, !.type = U]
  BY DEF XAlloc, IsBundle
<1> HIDE DEF k, U
<1>2. /\ y.port = x.port /\ y.pair = x.pair /\ y.pn = x.pn /\ y.n = x.n
      /\ y.cnt = k /\ y.type = U
  BY <1>1 DEF IsBundle
<1> QED  BY <1>2 DEF k, U

LEMMA ConnectXEffect ==
  ASSUME NEW x, IsBundle(x), NEW v, NEW w, NEW y, y = ConnectX(x, v, w)
  PROVE  /\ y.port = Joined(x.port, v, w) /\ y.pair = x.pair /\ y.pn = x.pn /\ y.n = x.n
         /\ y.cnt = x.cnt /\ y.type = x.type
<1> DEFINE P == Joined(x.port, v, w)
<1>1. y = [x EXCEPT !.port = P]
  BY DEF ConnectX, IsBundle, Joined
<1> HIDE DEF P
<1>2. /\ y.port = P /\ y.pair = x.pair /\ y.pn = x.pn /\ y.n = x.n
      /\ y.cnt = x.cnt /\ y.type = x.type
  BY <1>1 DEF IsBundle
<1> QED  BY <1>2 DEF P

(* Both ends of a wire are ports of records. *)
LEMMA JoinedRecords ==
  ASSUME NEW P, P \in [XPort -> XPort \cup {None}], NEW v \in XPort, NEW w \in XPort,
         NEW Q, Q = Joined(P, v, w)
  PROVE  /\ Q \in [XPort -> XPort \cup {None}]
         /\ \A p \in XPort : Q[p] = IF p = w THEN v ELSE IF p = v THEN w ELSE P[p]
BY DEF Joined

LEMMA RecordIds ==
  ASSUME NEW n \in Nat, n <= XMAX
  PROVE  /\ \A e \in Ids(1, n) : e \in RecIdx /\ e # n + 1 /\ e # n + 2
         /\ Ids(1, n) \X (0 .. 2) \subseteq XPort
         /\ \A p \in Ids(1, n) \X (0 .. 2) : p[1] \in Ids(1, n)
<1>1. \A e \in Ids(1, n) : e \in RecIdx /\ e # n + 1 /\ e # n + 2
  BY ParAssumption DEF Ids, RecIdx
<1> QED  BY <1>1 DEF XPort

LEMMA RecordGrowsLeaf ==
  ASSUME NEW x, IsBundle(x), BufTyped(x), x.cnt + 2 <= XMAX,
         NEW H, Grown(1, x.type, x.port, H, x.cnt, x.pn, x.pair),
         NEW x1, x1 = XAlloc(x, Zero), NEW x2, x2 = XAlloc(x1, Add1),
         NEW y, y = ConnectX(x2, <<x.cnt + 1, 0>>, <<x.cnt + 2, 1>>)
  PROVE  /\ BufTyped(y)
         /\ Grown(1, y.type, y.port, H \cup {x.cnt + 2}, y.cnt, y.pn, y.pair)
<1> DEFINE T == x.type  P == x.port  U == y.type  Q == y.port  n == x.cnt
           z == n + 1  a == n + 2  v == <<z, 0>>  w == <<a, 1>>
<1>1. n \in Nat /\ n + 2 <= XMAX /\ n <= XMAX /\ n + 1 <= XMAX /\ x.type \in [RecIdx -> 0 .. 4]
      /\ x.port \in [XPort -> XPort \cup {None}] /\ x.pair \in [0 .. PAIRMAX - 1 -> 0 .. XMAX]
  BY ParAssumption DEF IsBundle, BufTyped
<1>2. z \in RecIdx /\ a \in RecIdx /\ z # a
  BY <1>1, ParAssumption DEF RecIdx
<1>3. \A e \in Ids(1, n) : e \in RecIdx /\ e # z /\ e # a
  BY <1>1, RecordIds
<1>4. /\ IsBundle(x1) /\ x1.port = x.port /\ x1.pair = x.pair /\ x1.pn = x.pn
      /\ x1.cnt = z /\ x1.type = [x.type EXCEPT ![z] = Zero]
  <2>1. Zero \in Type
    BY DEF Zero, Type
  <2> QED  BY <1>1, <2>1, XAllocBundle, XAllocEffect
<1>5. /\ IsBundle(x2) /\ x2.port = x1.port /\ x2.pair = x1.pair /\ x2.pn = x1.pn
      /\ x2.cnt = a /\ x2.type = [x1.type EXCEPT ![a] = Add1]
  <2>1. Add1 \in Type /\ x1.cnt + 1 = a /\ x1.cnt + 1 <= XMAX
    BY <1>1, <1>4 DEF Add1, Type
  <2> QED  BY <1>4, <2>1, XAllocBundle, XAllocEffect
<1>6. /\ y.port = Joined(x2.port, v, w) /\ y.pair = x2.pair /\ y.pn = x2.pn
      /\ y.cnt = x2.cnt /\ y.type = x2.type
  BY <1>5, ConnectXEffect
<1> HIDE DEF z, a
<1>7. v \in XPort /\ w \in XPort /\ v # w /\ v[1] = z /\ w[1] = a
  BY <1>2, XPortFacts
<1> HIDE DEF v, w
<1>8. /\ Q \in [XPort -> XPort \cup {None}]
      /\ \A p \in XPort : Q[p] = IF p = w THEN v ELSE IF p = v THEN w ELSE P[p]
  <2>1. Q = Joined(P, v, w) /\ P \in [XPort -> XPort \cup {None}]
    BY <1>1, <1>4, <1>5, <1>6
  <2> HIDE DEF P, Q
  <2> QED  BY <1>7, <2>1, JoinedRecords
<1>9. U[z] = Zero /\ U[a] = Add1 /\ \A e \in Ids(1, n) : U[e] = T[e]
  <2>1. U = [[T EXCEPT ![z] = Zero] EXCEPT ![a] = Add1] /\ T \in [RecIdx -> 0 .. 4]
    BY <1>1, <1>4, <1>5, <1>6
  <2> HIDE DEF U, T
  <2> QED  BY <1>2, <1>3, <2>1
<1>10. Q[v] = w /\ Q[w] = v /\ \A p \in Ids(1, n) \X (0 .. 2) : Q[p] = P[p]
  <2>1. \A p \in Ids(1, n) \X (0 .. 2) : p \in XPort /\ p # v /\ p # w
    <3>1. Ids(1, n) \X (0 .. 2) \subseteq XPort /\ \A p \in Ids(1, n) \X (0 .. 2) : p[1] \in Ids(1, n)
      BY <1>1, RecordIds
    <3> QED  BY <1>3, <1>7, <3>1
  <2> HIDE DEF P, Q
  <2> QED  BY <1>7, <1>8, <2>1
<1>11. Grown(1, U, Q, H \cup {a}, n + 2, x.pn, x.pair)
  <2>1. 1 + n = z /\ 1 + n + 1 = a
    BY <1>1 DEF z, a
  <2>2. LeafAdded(1, n, T, P, U, Q)
    BY <1>9, <1>10, <2>1 DEF LeafAdded, v, w
  <2>3. Grown(1, T, P, H, n, x.pn, x.pair) /\ 1 \in Nat
    OBVIOUS
  <2> HIDE DEF T, P, U, Q, n
  <2>4. Grown(1, U, Q, H \cup {1 + n + 1}, n + 2, x.pn, x.pair)
    BY ONLY <2>2, <2>3, GrownLeaf
  <2> QED  BY <2>1, <2>4
<1>12. y.cnt = n + 2 /\ y.pn = x.pn /\ y.pair = x.pair
  BY <1>4, <1>5, <1>6 DEF a
<1>13. BufTyped(y)
  BY <1>1, <1>8, <1>12 DEF BufTyped
<1> QED  BY <1>11, <1>12, <1>13 DEF a

LEMMA RecordGrowsNode ==
  ASSUME NEW x, IsBundle(x), BufTyped(x), x.cnt + 1 <= XMAX, x.pn + 1 <= PAIRMAX,
         NEW H, Grown(1, x.type, x.port, H, x.cnt, x.pn, x.pair), NEW l \in H, NEW r \in H, l # r,
         NEW x1, x1 = XAlloc(x, Add),
         NEW x2, x2 = ConnectX(x1, <<x.cnt + 1, 0>>, IfaceX(x1, l)),
         NEW x3, x3 = ConnectX(x2, <<x.cnt + 1, 1>>, IfaceX(x1, r)),
         NEW y, y = Paired(x3, x.cnt + 1)
  PROVE  /\ BufTyped(y) /\ y.type[x.cnt + 1] = Add
         /\ Grown(1, y.type, y.port, (H \ {l, r}) \cup {x.cnt + 1}, y.cnt, y.pn, y.pair)
<1> DEFINE T == x.type  P == x.port  U == y.type  Q == y.port  n == x.cnt  m == x.pn
           a == n + 1  v == Value(T, l)  w == Value(T, r)  a0 == <<a, 0>>  a1 == <<a, 1>>
<1>1. n \in Nat /\ n + 1 <= XMAX /\ n <= XMAX /\ x.type \in [RecIdx -> 0 .. 4]
      /\ x.port \in [XPort -> XPort \cup {None}] /\ x.pair \in [0 .. PAIRMAX - 1 -> 0 .. XMAX]
      /\ m \in Nat /\ m + 1 <= PAIRMAX
  BY ParAssumption DEF IsBundle, BufTyped
<1>2. a \in RecIdx /\ a \in 0 .. XMAX
  BY <1>1, ParAssumption DEF RecIdx
<1>3. \A e \in Ids(1, n) : e \in RecIdx /\ e # a
  BY <1>1, RecordIds
<1>4. /\ IsBundle(x1) /\ x1.port = x.port /\ x1.pair = x.pair /\ x1.pn = x.pn
      /\ x1.cnt = a /\ x1.type = [x.type EXCEPT ![a] = Add]
  <2>1. Add \in Type
    BY DEF Add, Type
  <2> QED  BY <1>1, <2>1, XAllocBundle, XAllocEffect
<1>5. Sapling(Ids(1, n), T, P, H)
  BY DEF Grown
<1>6. /\ \A e \in H : e \in Ids(1, n) /\ T[e] \in {Add1, Add}
      /\ v[1] = l /\ v \in {<<l, 0>>, <<l, 2>>} /\ w[1] = r /\ w \in {<<r, 0>>, <<r, 2>>}
  <2>1. \A e \in H : e \in Ids(1, n) /\ T[e] \in {Add1, Add}
    BY <1>5 DEF Sapling
  <2>2. \A e \in H : Value(T, e)[1] = e /\ Value(T, e) \in {<<e, 0>>, <<e, 2>>}
    BY <1>5, OpenPorts
  <2> QED  BY <2>1, <2>2
<1>7. IfaceX(x1, l) = v /\ IfaceX(x1, r) = w
  <2>1. ASSUME NEW e \in H PROVE IfaceX(x1, e) = Value(T, e)
    <3>1. e \in RecIdx /\ e # a
      BY <1>3, <1>6
    <3>2. x1.type[e] = T[e]
      BY <1>1, <1>2, <1>4, <3>1
    <3> QED  BY <3>2 DEF IfaceX, Value
  <2> QED  BY <2>1
<1> HIDE DEF a, v, w
<1>8. /\ a0 \in XPort /\ a1 \in XPort /\ v \in XPort /\ w \in XPort /\ a0[1] = a /\ a1[1] = a
      /\ a0 # a1 /\ v # w /\ v # a0 /\ v # a1 /\ w # a0 /\ w # a1
  <2>1. l \in RecIdx /\ r \in RecIdx /\ l # a /\ r # a
    BY <1>3, <1>6
  <2>2. a0[1] = a /\ a1[1] = a /\ a0[2] = 0 /\ a1[2] = 1
    OBVIOUS
  <2>3. a0 \in XPort /\ a1 \in XPort
    BY <1>2, XPortFacts
  <2>4. v \in XPort /\ w \in XPort
    <3>1. /\ <<l, 0>> \in XPort /\ <<l, 2>> \in XPort
          /\ <<r, 0>> \in XPort /\ <<r, 2>> \in XPort
      BY <2>1, XPortFacts
    <3>2. v \in {<<l, 0>>, <<l, 2>>} /\ w \in {<<r, 0>>, <<r, 2>>}
      BY <1>6
    <3> QED  BY <3>1, <3>2
  <2>5. v[1] = l /\ w[1] = r
    BY <1>6
  <2> HIDE DEF a0, a1
  <2>6. v # w /\ v # a0 /\ v # a1 /\ w # a0 /\ w # a1
    BY <2>1, <2>2, <2>5
  <2> QED  BY <2>2, <2>3, <2>4, <2>6
<1> HIDE DEF a0, a1
<1>9. /\ IsBundle(x2) /\ x2.port = Joined(x1.port, a0, v) /\ x2.pair = x1.pair /\ x2.pn = x1.pn
      /\ x2.cnt = x1.cnt /\ x2.type = x1.type
  <2>1. x2 = ConnectX(x1, a0, v)
    BY <1>7 DEF a0, a
  <2> QED  BY <1>4, <2>1, ConnectXBundle, ConnectXEffect
<1>10. /\ IsBundle(x3) /\ x3.port = Joined(x2.port, a1, w) /\ x3.pair = x2.pair /\ x3.pn = x2.pn
       /\ x3.cnt = x2.cnt /\ x3.type = x2.type
  <2>1. x3 = ConnectX(x2, a1, w)
    BY <1>7 DEF a1, a
  <2> QED  BY <1>9, <2>1, ConnectXBundle, ConnectXEffect
<1>11. /\ y.port = x3.port /\ y.type = x3.type /\ y.cnt = a /\ y.pn = m + 1
       /\ y.pair = [x.pair EXCEPT ![m] = a]
  <2> DEFINE E == [x.pair EXCEPT ![m] = a]  k == m + 1
  <2>1. y = [x3 EXCEPT !.pair = E, !.pn = k]
    BY <1>4, <1>9, <1>10, ZenonT(40) DEF IsBundle, a, Paired
  <2> HIDE DEF E, k
  <2>2. /\ y.port = x3.port /\ y.type = x3.type /\ y.cnt = x3.cnt /\ y.pn = k /\ y.pair = E
    BY <1>10, <2>1, ZenonT(40) DEF IsBundle
  <2> QED  BY <1>4, <1>9, <1>10, <2>2 DEF E, k
<1>12. /\ Q \in [XPort -> XPort \cup {None}]
       /\ \A p \in XPort : Q[p] = IF p = w THEN a1 ELSE IF p = a1 THEN w
                                  ELSE IF p = v THEN a0 ELSE IF p = a0 THEN v ELSE P[p]
  <2> DEFINE R == x2.port
  <2>1. R = Joined(P, a0, v) /\ P \in [XPort -> XPort \cup {None}] /\ Q = Joined(R, a1, w)
    BY <1>1, <1>4, <1>9, <1>10, <1>11
  <2> HIDE DEF P, Q, R
  <2>2. /\ R \in [XPort -> XPort \cup {None}]
        /\ \A p \in XPort : R[p] = IF p = v THEN a0 ELSE IF p = a0 THEN v ELSE P[p]
    BY <1>8, <2>1, JoinedRecords
  <2>3. /\ Q \in [XPort -> XPort \cup {None}]
        /\ \A p \in XPort : Q[p] = IF p = w THEN a1 ELSE IF p = a1 THEN w ELSE R[p]
    BY <1>8, <2>1, <2>2, JoinedRecords
  <2> QED  BY <2>2, <2>3
<1>13. U[a] = Add /\ \A e \in Ids(1, n) : U[e] = T[e]
  <2>1. U = [T EXCEPT ![a] = Add] /\ T \in [RecIdx -> 0 .. 4]
    BY <1>1, <1>4, <1>9, <1>10, <1>11
  <2> HIDE DEF U, T
  <2> QED  BY <1>2, <1>3, <2>1
<1>14. /\ Q[a0] = v /\ Q[v] = a0 /\ Q[a1] = w /\ Q[w] = a1
       /\ \A p \in (Ids(1, n) \X (0 .. 2)) \ {v, w} : Q[p] = P[p]
  <2>1. \A p \in Ids(1, n) \X (0 .. 2) : p \in XPort /\ p # a0 /\ p # a1
    <3>1. Ids(1, n) \X (0 .. 2) \subseteq XPort /\ \A p \in Ids(1, n) \X (0 .. 2) : p[1] \in Ids(1, n)
      BY <1>1, RecordIds
    <3> QED  BY <1>3, <1>8, <3>1
  <2> HIDE DEF P, Q
  <2> QED  BY <1>8, <1>12, <2>1
<1>15. /\ y.pair[m] = a /\ \A j \in 0 .. m - 1 : y.pair[j] = x.pair[j]
       /\ y.pair \in [0 .. PAIRMAX - 1 -> 0 .. XMAX]
  <2> DEFINE E == x.pair  F == y.pair  K == 0 .. PAIRMAX - 1
  <2>1. m \in K /\ \A j \in 0 .. m - 1 : j \in K /\ j # m
    BY <1>1, ParAssumption
  <2>2. F = [E EXCEPT ![m] = a] /\ E \in [K -> 0 .. XMAX] /\ a \in 0 .. XMAX
    BY <1>1, <1>2, <1>11
  <2> HIDE DEF E, F, K
  <2>3. F[m] = a /\ F \in [K -> 0 .. XMAX] /\ \A j \in K : j # m => F[j] = E[j]
    BY <2>1, <2>2
  <2>4. \A j \in 0 .. m - 1 : F[j] = E[j]
    BY <2>1, <2>3
  <2> QED  BY <2>3, <2>4 DEF E, F, K
<1>16. Grown(1, U, Q, (H \ {l, r}) \cup {a}, n + 1, m + 1, y.pair)
  <2>1. 1 + n = a
    BY <1>1, SMTT(40) DEF a
  <2>2. NodeAdded(1, n, m, l, r, T, P, x.pair, U, Q, y.pair)
    BY <1>13, <1>14, <1>15, <2>1 DEF NodeAdded, v, w, a0, a1
  <2>3. Grown(1, T, P, H, n, m, x.pair) /\ 1 \in Nat /\ l \in H /\ r \in H /\ l # r
    OBVIOUS
  <2> HIDE DEF T, P, U, Q, n, m
  <2>4. Grown(1, U, Q, (H \ {l, r}) \cup {1 + n}, n + 1, m + 1, y.pair)
    BY ONLY <2>2, <2>3, GrownNode
  <2> QED  BY <2>1, <2>4
<1>17. BufTyped(y)
  BY <1>12, <1>15 DEF BufTyped
<1>18. y.cnt = n + 1
  BY <1>11 DEF a
<1> QED  BY <1>11, <1>13, <1>16, <1>17, <1>18 DEF a

LEMMA RecordPlants ==
  ASSUME NEW x, IsBundle(x), BufTyped(x), x.cnt + 1 <= XMAX,
         NEW L \in Nat \ {0}, x.cnt = 3 * L - 1, x.pn = L - 1, NEW l,
         Grown(1, x.type, x.port, {l}, x.cnt, x.pn, x.pair), x.type[l] = Add,
         NEW x1, x1 = XAlloc(x, End), NEW x2, x2 = ConnectX(x1, <<l, 2>>, <<x.cnt + 1, 0>>),
         NEW y, y = Numbered(x2)
  PROVE  BufTyped(y) /\ y.n = 3 * L /\ y.pn = L - 1 /\ Planted(1, y.type, y.port, y.pair, L)
<1> DEFINE T == x.type  P == x.port  U == y.type  Q == y.port  n == x.cnt
           a == n + 1  v == <<l, 2>>  a0 == <<a, 0>>
<1>1. n \in Nat /\ n + 1 <= XMAX /\ n <= XMAX /\ x.type \in [RecIdx -> 0 .. 4]
      /\ x.port \in [XPort -> XPort \cup {None}] /\ x.pair \in [0 .. PAIRMAX - 1 -> 0 .. XMAX]
  BY ParAssumption, SMTT(40) DEF IsBundle, BufTyped
<1>2. a \in RecIdx
  BY <1>1, ParAssumption DEF RecIdx
<1>3. \A e \in Ids(1, n) : e \in RecIdx /\ e # a
  BY <1>1, RecordIds
<1>4. /\ IsBundle(x1) /\ x1.port = x.port /\ x1.pair = x.pair /\ x1.pn = x.pn
      /\ x1.cnt = a /\ x1.type = [x.type EXCEPT ![a] = End]
  <2>1. End \in Type
    BY DEF End, Type
  <2> QED  BY <1>1, <2>1, XAllocBundle, XAllocEffect
<1>5. l \in Ids(1, n) /\ l \in RecIdx /\ l # a
  <2>1. l \in Ids(1, n)
    BY DEF Grown, Sapling
  <2> QED  BY <1>3, <2>1
<1> HIDE DEF a
<1>6. a0 \in XPort /\ v \in XPort /\ a0 # v /\ a0[1] = a
  BY <1>2, <1>5, XPortFacts
<1> HIDE DEF a0, v
<1>7. /\ IsBundle(x2) /\ x2.port = Joined(x1.port, v, a0) /\ x2.pair = x1.pair /\ x2.pn = x1.pn
      /\ x2.cnt = x1.cnt /\ x2.type = x1.type
  <2>1. x2 = ConnectX(x1, v, a0)
    BY DEF a0, a, v
  <2> QED  BY <1>4, <2>1, ConnectXBundle, ConnectXEffect
<1>8. /\ y.port = x2.port /\ y.type = x2.type /\ y.n = x2.cnt /\ y.pn = x2.pn /\ y.pair = x2.pair
  BY <1>7 DEF IsBundle, Numbered
<1>9. /\ Q \in [XPort -> XPort \cup {None}]
      /\ \A p \in XPort : Q[p] = IF p = a0 THEN v ELSE IF p = v THEN a0 ELSE P[p]
  <2>1. Q = Joined(P, v, a0) /\ P \in [XPort -> XPort \cup {None}]
    BY <1>1, <1>4, <1>7, <1>8
  <2> HIDE DEF P, Q
  <2> QED  BY <1>6, <2>1, JoinedRecords
<1>10. U[a] = End /\ \A e \in Ids(1, n) : U[e] = T[e]
  <2>1. U = [T EXCEPT ![a] = End] /\ T \in [RecIdx -> 0 .. 4]
    BY <1>1, <1>4, <1>7, <1>8
  <2> HIDE DEF U, T
  <2> QED  BY <1>2, <1>3, <2>1
<1>11. /\ Q[a0] = v /\ Q[v] = a0
       /\ \A p \in (Ids(1, n) \X (0 .. 2)) \ {v} : Q[p] = P[p]
  <2>1. \A p \in Ids(1, n) \X (0 .. 2) : p \in XPort /\ p # a0
    <3>1. Ids(1, n) \X (0 .. 2) \subseteq XPort /\ \A p \in Ids(1, n) \X (0 .. 2) : p[1] \in Ids(1, n)
      BY <1>1, RecordIds
    <3> QED  BY <1>3, <1>6, <3>1
  <2> HIDE DEF P, Q
  <2> QED  BY <1>6, <1>9, <2>1
<1>12. Planted(1, U, Q, x.pair, L)
  <2> DEFINE H == {l}  m == x.pn
  <2>1. 1 + n = a
    BY <1>1 DEF a
  <2>2. EndAdded(1, n, m, l, L, T, P, U, Q)
    BY <1>10, <1>11, <2>1 DEF EndAdded, v, a0
  <2>3. H = {l} /\ Grown(1, T, P, H, n, m, x.pair) /\ 1 \in Nat
    OBVIOUS
  <2> HIDE DEF T, P, U, Q, n, m, H
  <2> QED  BY ONLY <2>2, <2>3, GrownEnd
<1>13. y.n = 3 * L /\ y.pn = L - 1 /\ y.pair = x.pair
  BY <1>4, <1>7, <1>8 DEF a
<1>14. BufTyped(y)
  BY <1>1, <1>9, <1>13 DEF BufTyped
<1> QED  BY <1>12, <1>13, <1>14

-----------------------------------------------------------------------------
(* The steps. A step of VM v's program concerns what is kept of v, and, when *)
(* it is the export, what the host waits for.                                *)

LEMMA StepGood ==
  ASSUME ParInv, CompleteInv, NEW v \in VM, Running(v), NEW h, NEW c, NEW x,
         heap' = [heap EXCEPT ![v] = h], ctl' = [ctl EXCEPT ![v] = c],
         xbuf' = [xbuf EXCEPT ![v] = x], UNCHANGED <<host, DEPTH>>,
         CtlTyped(c), BufTyped(x),
         ctl[v].pc = "export" =>
           /\ Unused(h)
           /\ IF c.pc = "export" THEN Recording(c, x, DEPTH[host.i]) ELSE Delivery(x, DEPTH[host.i]),
         ctl[v].pc # "export" => Place(v, c, h, x, DEPTH[v]) /\ x = xbuf[v]
  PROVE  CompleteInv'
<1>1. 0 \in VM /\ ctl[v].pc \notin {"idle", "halted"}
  BY VMs DEF Running
<1>2. ctl[v].pc = "export" => v = 0 /\ host.pc = "exporting" /\ ~Started(v)
  BY <1>1 DEF ParInv, VMInv, HostInv, Started
<1>3. ctl[v].pc # "export" => Started(v)
  BY <1>1 DEF ParInv, VMInv, HostInv, Started, Exporting
<1>4. /\ heap'[v] = h /\ ctl'[v] = c /\ xbuf'[v] = x
      /\ \A w \in VM : w # v => heap'[w] = heap[w] /\ ctl'[w] = ctl[w] /\ xbuf'[w] = xbuf[w]
  BY DEF ParInv, Typed
<1>5. ASSUME NEW w \in VM  PROVE (Started(w)' <=> Started(w)) /\ (Delivered(w)' <=> Delivered(w))
  BY DEF Started, Delivered
<1>6. HostGood'
  <2>1. host.pc \notin {"ok", "failed"}
    BY <1>1 DEF CompleteInv, HostGood
  <2>2. CASE ctl[v].pc = "export"
    <3>1. IF ctl'[0].pc = "export" THEN Recording(ctl'[0], xbuf'[0], DEPTH'[host'.i])
                                   ELSE Delivery(xbuf'[0], DEPTH'[host'.i])
      BY <1>2, <1>4, <2>2
    <3> QED  BY <2>1, <3>1 DEF HostGood
  <2>3. CASE ctl[v].pc # "export"
    <3>1. host.pc # "exporting"
      BY <1>3, <2>3 DEF Started
    <3> QED  BY <2>1, <3>1 DEF HostGood
  <2> QED  BY <2>2, <2>3
<1>7. ASSUME NEW w \in VM  PROVE VMGood(w)'
  <2>1. VMGood(w)
    BY DEF CompleteInv
  <2>2. CASE w # v
    BY <1>4, <1>5, <2>1, <2>2 DEF VMGood
  <2>3. CASE w = v /\ ctl[v].pc = "export"
    <3>1. ~Started(v)' /\ ~Delivered(v)'
      BY <1>2, <1>5, <2>3 DEF Delivered
    <3> QED  BY <1>4, <2>3, <3>1 DEF VMGood
  <2>4. CASE w = v /\ ctl[v].pc # "export"
    <3>1. Started(v)' /\ (Delivered(v)' => Delivery(xbuf'[v], DEPTH'[v]))
      BY <1>3, <1>4, <1>5, <2>1, <2>4 DEF VMGood
    <3>2. Place(v, ctl'[v], heap'[v], xbuf'[v], DEPTH'[v])
      BY <1>4, <2>4
    <3> QED  BY <1>4, <2>4, <3>1, <3>2 DEF VMGood
  <2> QED  BY <2>2, <2>3, <2>4
<1> QED  BY <1>6, <1>7 DEF CompleteInv

LEMMA SlotDepths ==
  ASSUME NEW f \in DEPTHS, NEW v \in VM
  PROVE  \A d \in 0 .. f[v] : d \in Slots
<1> DEFINE S == 0 .. f[v]  SS == {0 .. d[w] : d \in DEPTHS, w \in VM}
<1>1. S \in SS
  OBVIOUS
<1>2. Slots = UNION SS
  BY DEF Slots
<1> HIDE DEF S, SS
<1>3. \A d \in S : d \in Slots
  BY <1>1, <1>2
<1> QED BY <1>3 DEF S

(* What is known of a VM before its step. *)
LEMMA VMKnown ==
  ASSUME ParInv, CompleteInv, RingFits, NEW v \in VM
  PROVE  /\ Typed /\ IsCtl(ctl[v]) /\ CtlTyped(ctl[v]) /\ IsBundle(xbuf[v]) /\ BufTyped(xbuf[v])
         /\ DEPTH[v] \in Nat \ {0} /\ Leaves[DEPTH[v]] \in Nat \ {0} /\ 2 * Leaves[DEPTH[v]] <= QSIZE
         /\ \A d \in 0 .. DEPTH[v] : d \in Slots
         /\ ctl[v].pc \notin {"idle", "export", "halted"} =>
              Place(v, ctl[v], heap[v], xbuf[v], DEPTH[v])
<1>1. Typed /\ VMGood(v) /\ DEPTH \in DEPTHS
  BY DEF ParInv, Typed, CompleteInv
<1>2. DEPTH[v] \in Nat \ {0} /\ \A d \in 0 .. DEPTH[v] : d \in Slots
  BY <1>1, ParAssumption, SlotDepths
<1>3. Leaves[DEPTH[v]] \in Nat \ {0} /\ 2 * Leaves[DEPTH[v]] <= QSIZE
  BY <1>1, <1>2, LeavesDouble DEF RingFits
<1>4. ctl[v].pc \notin {"idle", "export", "halted"} => Started(v)
  BY StartedRuns
<1> QED  BY <1>1, <1>2, <1>3, <1>4, Same DEF VMGood

(* The export the host waits for. *)
LEMMA ExportKnown ==
  ASSUME ParInv, CompleteInv, NEW v \in VM, ctl[v].pc = "export"
  PROVE  /\ v = 0 /\ Recording(ctl[v], xbuf[v], DEPTH[host.i])
         /\ DEPTH[host.i] \in Nat \ {0} /\ Leaves[DEPTH[host.i]] \in Nat \ {0}
         /\ \A d \in 0 .. DEPTH[host.i] : d \in Slots
         /\ Unused(heap[v])
<1>1. v = 0 /\ host.pc = "exporting" /\ ~Started(v)
  BY DEF ParInv, VMInv, HostInv, Started
<1>2. host.i \in VM /\ DEPTH \in DEPTHS
  BY ExportRuns, ExportFits DEF ParInv, Typed
<1>3. DEPTH[host.i] \in Nat \ {0} /\ \A d \in 0 .. DEPTH[host.i] : d \in Slots
  <2>1. \A w \in VM : DEPTH[w] \in Nat \ {0} /\ \A d \in 0 .. DEPTH[w] : d \in Slots
    <3>1. \A w \in VM : \A d \in 0 .. DEPTH[w] : d \in Slots
      BY <1>2, SlotDepths
    <3>2. \A w \in VM : DEPTH[w] \in Nat \ {0}
      BY <1>2, ParAssumption
    <3> QED  BY <3>1, <3>2
  <2> QED  BY <1>2, <2>1
<1>4. Leaves[DEPTH[host.i]] \in Nat \ {0}
  BY <1>3, LeavesDouble
<1>5. VMGood(v) /\ HostGood
  BY DEF CompleteInv
<1> QED  BY <1>1, <1>3, <1>4, <1>5 DEF VMGood, HostGood

-----------------------------------------------------------------------------
(* What the steps of the recursion do to the slots and results. *)

LEMMA CallSlots ==
  ASSUME NEW c, IsCtl(c), CtlTyped(c), NEW at, NEW d, NEW g, g = Called(Waiting(c, at), d)
  PROVE  CtlTyped(g) /\ g.slot = c.slot /\ g.ret = c.ret /\ g.map = c.map
<1> DEFINE st == [c.stack EXCEPT ![Len(c.stack)][2] = at]  w == Waiting(c, at)
           new == Append(st, <<d, "call">>)
<1>1. w = [c EXCEPT !.stack = st]
  BY DEF Waiting, IsCtl
<1>2. w.stack = st /\ w.slot = c.slot /\ w.ret = c.ret /\ w.map = c.map
      /\ w = [pc |-> w.pc, stack |-> w.stack, ret |-> w.ret, i |-> w.i, leaked |-> w.leaked,
              slot |-> w.slot, map |-> w.map]
  <2> HIDE DEF st, w
  <2> QED  BY <1>1 DEF IsCtl
<1>3. g = [w EXCEPT !.stack = new]
  <2>1. g = [w EXCEPT !.stack = Append(w.stack, <<d, "call">>)]
    BY DEF Called
  <2> HIDE DEF w, st
  <2> QED  BY <1>2, <2>1 DEF new
<1>4. g.slot = w.slot /\ g.ret = w.ret /\ g.map = w.map
  <2> HIDE DEF w, new
  <2> QED  BY <1>2, <1>3
<1> QED  BY <1>2, <1>4 DEF CtlTyped

(* The slot of one depth gets a result. *)
LeftGiven(c, d, a)  == [c EXCEPT !.slot[d].l = a]
RightGiven(c, d, a) == [c EXCEPT !.slot[d].r = a]

LEMMA LeftSlot ==
  ASSUME NEW c, IsCtl(c), CtlTyped(c), NEW d \in Slots, NEW a \in Nat, NEW g,
         g = LeftGiven(c, d, a)
  PROVE  /\ IsCtl(g) /\ CtlTyped(g) /\ g.pc = c.pc /\ g.stack = c.stack /\ g.ret = c.ret
         /\ g.i = c.i /\ g.slot[d].l = a /\ \A e \in Slots : e # d => g.slot[e] = c.slot[e]
<1> DEFINE r == c.slot[d].r  s == [l |-> a, r |-> r]  new == [c.slot EXCEPT ![d] = s]
<1>1. c.slot \in [Slots -> [l : Nat, r : Nat]] /\ c.slot[d] = [l |-> c.slot[d].l, r |-> r] /\ r \in Nat
  BY DEF CtlTyped
<1>2. [c.slot EXCEPT ![d].l = a] = new
  <2>1. [c.slot[d] EXCEPT !.l = a] = s
    <3> DEFINE o == c.slot[d]
    <3>1. o = [l |-> o.l, r |-> r]
      BY <1>1
    <3> HIDE DEF o, r
    <3>2. [o EXCEPT !.l = a] = s
      BY <3>1
    <3> QED  BY <3>2 DEF o
  <2> HIDE DEF s
  <2> QED  BY <2>1
<1>3. g = [c EXCEPT !.slot = new]
  <2>1. g = [c EXCEPT !.slot = [c.slot EXCEPT ![d].l = a]]
    BY DEF IsCtl, LeftGiven
  <2> QED  BY <1>2, <2>1, Zenon
<1>4. new \in [Slots -> [l : Nat, r : Nat]] /\ new[d].l = a /\ \A e \in Slots : e # d => new[e] = c.slot[e]
  <2>1. s \in [l : Nat, r : Nat] /\ s.l = a
    BY <1>1
  <2> HIDE DEF s
  <2> QED  BY <1>1, <2>1
<1> HIDE DEF new
<1>5. /\ IsCtl(g) /\ g.pc = c.pc /\ g.stack = c.stack /\ g.ret = c.ret /\ g.i = c.i
      /\ g.slot = new /\ g.map = c.map
  BY <1>3 DEF IsCtl
<1> QED  BY <1>4, <1>5 DEF CtlTyped

LEMMA RightSlot ==
  ASSUME NEW c, IsCtl(c), CtlTyped(c), NEW d \in Slots, NEW a \in Nat, NEW g,
         g = RightGiven(c, d, a)
  PROVE  /\ IsCtl(g) /\ CtlTyped(g) /\ g.pc = c.pc /\ g.stack = c.stack /\ g.ret = c.ret
         /\ g.i = c.i /\ \A e \in Slots : g.slot[e].l = c.slot[e].l
<1> DEFINE r == c.slot[d].l  s == [l |-> r, r |-> a]  new == [c.slot EXCEPT ![d] = s]
<1>1. c.slot \in [Slots -> [l : Nat, r : Nat]] /\ c.slot[d] = [l |-> r, r |-> c.slot[d].r] /\ r \in Nat
  BY DEF CtlTyped
<1>2. [c.slot EXCEPT ![d].r = a] = new
  <2>1. [c.slot[d] EXCEPT !.r = a] = s
    <3> DEFINE o == c.slot[d]
    <3>1. o = [l |-> r, r |-> o.r]
      BY <1>1
    <3> HIDE DEF o, r
    <3>2. [o EXCEPT !.r = a] = s
      BY <3>1
    <3> QED  BY <3>2 DEF o
  <2> HIDE DEF s
  <2> QED  BY <2>1
<1>3. g = [c EXCEPT !.slot = new]
  <2>1. g = [c EXCEPT !.slot = [c.slot EXCEPT ![d].r = a]]
    BY DEF IsCtl, RightGiven
  <2> QED  BY <1>2, <2>1, Zenon
<1>4. new \in [Slots -> [l : Nat, r : Nat]] /\ \A e \in Slots : new[e].l = c.slot[e].l
  <2>1. s \in [l : Nat, r : Nat] /\ s.l = r
    BY <1>1
  <2> HIDE DEF s
  <2> QED  BY <1>1, <2>1
<1> HIDE DEF new
<1>5. /\ IsCtl(g) /\ g.pc = c.pc /\ g.stack = c.stack /\ g.ret = c.ret /\ g.i = c.i
      /\ g.slot = new /\ g.map = c.map
  BY <1>3 DEF IsCtl
<1> QED  BY <1>4, <1>5 DEF CtlTyped

LEMMA ReturnSlots ==
  ASSUME NEW c, IsCtl(c), CtlTyped(c), NEW a \in Nat, NEW g, g = Return(c, a)
  PROVE  CtlTyped(g) /\ g.slot = c.slot /\ g.ret = a
<1> DEFINE new == Popped(c)
<1>1. g = [c EXCEPT !.stack = new, !.ret = a]
  BY DEF Return
<1> HIDE DEF new
<1>2. g.slot = c.slot /\ g.ret = a /\ g.map = c.map
  BY <1>1 DEF IsCtl
<1> QED  BY <1>2 DEF CtlTyped

-----------------------------------------------------------------------------
(* The calls *)

LEMMA CallLeftEffect ==
  ASSUME NEW c, IsCtl(c), CtlTyped(c), c.stack # <<>>, c.stack[Len(c.stack)][2] = "call",
         NEW d, d = c.stack[Len(c.stack)][1], d > 0, NEW g, g = Called(Waiting(c, "left"), d - 1)
  PROVE  /\ CtlTyped(g) /\ g.pc = c.pc /\ IsCall(c.stack, g.stack, "left")
         /\ \A T, D : D \in Nat /\ Recursing(c, T, D) => Heads(g) = Heads(c) /\ Recursing(g, T, D)
<1>1. c.stack \in Stacks
  BY DEF IsCtl
<1>2. g.pc = c.pc /\ IsCall(c.stack, g.stack, "left")
  BY CallStack DEF Waits
<1>3. CtlTyped(g) /\ g.slot = c.slot /\ g.ret = c.ret
  BY CallSlots
<1>4. ASSUME NEW T, NEW D \in Nat, Recursing(c, T, D)
      PROVE  Heads(g) = Heads(c) /\ Recursing(g, T, D)
  BY <1>1, <1>2, <1>3, <1>4, CallLeftRoots, SMTT(40)
<1> QED  BY <1>2, <1>3, <1>4

LEMMA CallRightEffect ==
  ASSUME NEW c, IsCtl(c), CtlTyped(c), c.stack # <<>>, c.stack[Len(c.stack)][2] = "left",
         NEW d, d = c.stack[Len(c.stack)][1], d > 0,
         NEW D \in Nat, \A e \in 0 .. D : e \in Slots, NEW T, Recursing(c, T, D),
         NEW b, b = LeftGiven(c, d, c.ret), NEW g, g = Called(Waiting(b, "right"), d - 1)
  PROVE  /\ CtlTyped(g) /\ g.pc = c.pc /\ IsCall(c.stack, g.stack, "right")
         /\ Heads(g) = Heads(c) /\ Recursing(g, T, D)
<1>1. c.stack \in Stacks
  BY DEF IsCtl
<1>2. d \in 0 .. D
  <2>1. Len(c.stack) \in 1 .. Len(c.stack)
    BY <1>1, StackFacts
  <2>2. Levels(c.stack, D)
    BY DEF Recursing
  <2> QED  BY <1>1, <2>1, <2>2, FrameDepths
<1>3. d \in Slots /\ c.ret \in Nat
  BY <1>2 DEF CtlTyped
<1>4. /\ IsCtl(b) /\ CtlTyped(b) /\ b.pc = c.pc /\ b.stack = c.stack /\ b.ret = c.ret
      /\ b.slot[d].l = c.ret /\ \A e \in Slots : e # d => b.slot[e] = c.slot[e]
  <2>1. IsCtl(c) /\ CtlTyped(c) /\ d \in Slots /\ c.ret \in Nat /\ b = LeftGiven(c, d, c.ret)
    BY <1>3
  <2> QED  BY ONLY <2>1, LeftSlot
<1>5. g.pc = c.pc /\ IsCall(c.stack, g.stack, "right")
  <2>1. /\ IsCtl(b) /\ b.stack # <<>> /\ b.stack[Len(b.stack)][1] = d /\ "right" \in Waits
        /\ b.stack[Len(b.stack)][1] > 0
    BY <1>4 DEF Waits
  <2>2. LET e == b.stack[Len(b.stack)][1] - 1
            f == Called(Waiting(b, "right"), e)
        IN  IsCtl(f) /\ f.pc = b.pc /\ f.i = b.i /\ IsCall(b.stack, f.stack, "right")
    BY ONLY <2>1, CallStack
  <2> QED  BY <1>4, <2>1, <2>2, ZenonT(40)
<1>6. CtlTyped(g) /\ g.slot = b.slot /\ g.ret = b.ret
  <2>1. IsCtl(b) /\ CtlTyped(b) /\ g = Called(Waiting(b, "right"), d - 1)
    BY <1>4, SMTT(40)
  <2> QED  BY ONLY <2>1, CallSlots
<1>7. g.slot[d].l = c.ret /\ \A e \in 0 .. D : e # d => g.slot[e].l = c.slot[e].l
  BY <1>4, <1>6, ZenonT(40)
<1>8. Heads(g) = Heads(c) /\ Recursing(g, T, D)
  <2>1. /\ c.stack \in Stacks /\ c.stack # <<>> /\ D \in Nat /\ Recursing(c, T, D)
        /\ c.stack[Len(c.stack)][2] = "left" /\ d = c.stack[Len(c.stack)][1]
        /\ g.slot[d].l = c.ret /\ \A e \in 0 .. D : e # d => g.slot[e].l = c.slot[e].l
        /\ IsCall(c.stack, g.stack, "right")
    BY <1>1, <1>5, <1>7
  <2> QED  BY ONLY <2>1, CallRightRoots
<1> QED  BY <1>5, <1>6, <1>8

(* A call in the tree of the agent area, and in the one of the buffer. *)
LEMMA CallBuilds ==
  ASSUME NEW c, IsCtl(c), c.stack # <<>>, NEW h, NEW D \in Nat, Building(c, h, D), NEW at, NEW g,
         IsCall(c.stack, g.stack, at),
         LET top == c.stack[Len(c.stack)] IN
           \/ top[2] = "call" /\ at = "left" /\ top[1] > 0
           \/ top[2] = "left" /\ at = "right",
         Heads(g) = Heads(c), Recursing(g, Types(h), D)
  PROVE  Building(g, h, D)
<1>1. PICK n, m \in Nat : /\ Seeds(h, n, m) /\ Partial(c.stack, [cnt |-> n, pn |-> m], D)
                          /\ Grown(AGENTS, Types(h), h.port, Heads(c), n, m, h.cell)
  BY DEF Building
<1>2. c.stack \in Stacks
  BY DEF IsCtl
<1>3. Partial(g.stack, [cnt |-> n, pn |-> m], D)
  BY <1>1, <1>2, PartialCall
<1> QED  BY <1>1, <1>3 DEF Building

LEMMA CallGood ==
  ASSUME ParInv, CompleteInv, RingFits, NEW v \in VM, ctl[v].pc \in {"export", "build"},
         ctl[v].stack # <<>>, NEW at, NEW g, ctl' = [ctl EXCEPT ![v] = g],
         UNCHANGED <<heap, xbuf, host, DEPTH>>,
         CtlTyped(g), g.pc = ctl[v].pc, IsCall(ctl[v].stack, g.stack, at),
         LET top == ctl[v].stack[Len(ctl[v].stack)] IN
           \/ top[2] = "call" /\ at = "left" /\ top[1] > 0
           \/ top[2] = "left" /\ at = "right",
         \A T, D : D \in Nat /\ (\A e \in 0 .. D : e \in Slots) /\ Recursing(ctl[v], T, D)
                     => Heads(g) = Heads(ctl[v]) /\ Recursing(g, T, D)
  PROVE  CompleteInv'
<1> DEFINE c == ctl[v]  h == heap[v]  x == xbuf[v]  D == DEPTH[v]  E == DEPTH[host.i]
<1>1. /\ Typed /\ IsCtl(c) /\ CtlTyped(c) /\ IsBundle(x) /\ BufTyped(x)
      /\ D \in Nat \ {0} /\ \A d \in 0 .. D : d \in Slots
      /\ c.pc \notin {"idle", "export", "halted"} => Place(v, c, h, x, D)
  BY VMKnown
<1>2. /\ heap' = [heap EXCEPT ![v] = h] /\ xbuf' = [xbuf EXCEPT ![v] = x]
      /\ UNCHANGED <<host, DEPTH>>
  BY <1>1, Same
<1>3. Running(v)
  BY DEF Running
<1>4. CASE c.pc = "build"
  <2>1. v = 0 /\ Building(c, h, D)
    BY <1>1, <1>4 DEF Place
  <2>2. Recursing(c, Types(h), D)
    BY <2>1 DEF Building
  <2>3. Heads(g) = Heads(c) /\ Recursing(g, Types(h), D)
    BY <1>1, <2>2
  <2>4. Building(g, h, D)
    BY <1>1, <2>1, <2>3, CallBuilds
  <2>5. Place(v, g, h, x, D)
    BY <1>4, <2>1, <2>4 DEF Place
  <2> QED  BY <1>1, <1>2, <1>3, <1>4, <2>5, StepGood
<1>5. CASE c.pc = "export"
  <2>1. /\ Recording(c, x, E) /\ E \in Nat /\ \A d \in 0 .. E : d \in Slots
        /\ Unused(h)
    BY <1>5, ExportKnown
  <2>2. Recording(g, x, E)
    <3>1. Heads(g) = Heads(c) /\ Recursing(g, x.type, E)
      BY <2>1 DEF Recording
    <3> QED  BY <2>1, <3>1 DEF Recording
  <2> QED  BY <1>1, <1>2, <1>3, <1>5, <2>1, <2>2, StepGood
<1> QED  BY <1>4, <1>5

LEMMA CallLeftGood ==
  ASSUME ParInv, CompleteInv, RingFits, NEW v \in VM, CallLeft(v), UNCHANGED DEPTH
  PROVE  CompleteInv'
<1> DEFINE c == ctl[v]  d == Frame(v)[1]  g == Called(Waiting(c, "left"), d - 1)
<1>1. /\ c.pc \in {"export", "build"} /\ At(v, "call") /\ d > 0 /\ Typed
      /\ ctl' = [ctl EXCEPT ![v] = g] /\ UNCHANGED <<heap, xbuf, host>>
  BY DEF CallLeft, ParInv
<1>2. c.stack # <<>> /\ Frame(v) = c.stack[Len(c.stack)] /\ Frame(v)[2] = "call"
  BY <1>1, TopFrame
<1>3. IsCtl(c) /\ CtlTyped(c)
  BY VMKnown
<1>4. /\ CtlTyped(g) /\ g.pc = c.pc /\ IsCall(c.stack, g.stack, "left")
      /\ \A T, D : D \in Nat /\ Recursing(c, T, D) => Heads(g) = Heads(c) /\ Recursing(g, T, D)
  BY <1>1, <1>2, <1>3, CallLeftEffect
<1> HIDE DEF g
<1> QED  BY <1>1, <1>2, <1>4, CallGood

LEMMA CallRightGood ==
  ASSUME ParInv, CompleteInv, RingFits, NEW v \in VM, CallRight(v), UNCHANGED DEPTH
  PROVE  CompleteInv'
<1> DEFINE c == ctl[v]  d == Frame(v)[1]  b == LeftGiven(c, d, c.ret)
           g == Called(Waiting(b, "right"), d - 1)
<1>1. /\ c.pc \in {"export", "build"} /\ At(v, "left") /\ Typed
      /\ ctl' = [ctl EXCEPT ![v] = g] /\ UNCHANGED <<heap, xbuf, host>>
  BY DEF CallRight, ParInv, LeftGiven
<1>2. c.stack # <<>> /\ Frame(v) = c.stack[Len(c.stack)] /\ Frame(v)[2] = "left" /\ d > 0
  BY <1>1, TopFrame
<1>3. IsCtl(c) /\ CtlTyped(c)
  BY VMKnown
<1>4. PICK b0 : b0 = b
  OBVIOUS
<1>5. PICK g0 : g0 = g
  BY SMTT(40)
<1>6. ASSUME NEW D \in Nat, \A e \in 0 .. D : e \in Slots, NEW T, Recursing(c, T, D)
      PROVE  /\ CtlTyped(g0) /\ g0.pc = c.pc /\ IsCall(c.stack, g0.stack, "right")
             /\ Heads(g0) = Heads(c) /\ Recursing(g0, T, D)
  <2>1. /\ b0 = LeftGiven(c, d, c.ret) /\ g0 = Called(Waiting(b0, "right"), d - 1)
        /\ c.stack # <<>> /\ c.stack[Len(c.stack)][2] = "left" /\ d = c.stack[Len(c.stack)][1] /\ d > 0
    BY <1>2, <1>4, <1>5
  <2> HIDE DEF d, b, g
  <2> QED  BY <1>3, <1>6, <2>1, CallRightEffect
<1>7. \E T, D : D \in Nat /\ (\A e \in 0 .. D : e \in Slots) /\ Recursing(c, T, D)
  <2>1. CASE c.pc = "build"
    <3>1. DEPTH[v] \in Nat /\ (\A e \in 0 .. DEPTH[v] : e \in Slots) /\ Place(v, c, heap[v], xbuf[v], DEPTH[v])
      BY <2>1, VMKnown
    <3>2. Recursing(c, Types(heap[v]), DEPTH[v])
      BY <2>1, <3>1 DEF Place, Building
    <3> QED  BY <3>1, <3>2
  <2>2. CASE c.pc = "export"
    <3>1. /\ DEPTH[host.i] \in Nat /\ (\A e \in 0 .. DEPTH[host.i] : e \in Slots)
          /\ Recording(c, xbuf[v], DEPTH[host.i])
      BY <2>2, ExportKnown
    <3> QED  BY <3>1 DEF Recording
  <2> QED  BY <1>1, <2>1, <2>2
<1>8. CtlTyped(g0) /\ g0.pc = c.pc /\ IsCall(c.stack, g0.stack, "right")
  BY <1>6, <1>7
<1>9. \A T, D : D \in Nat /\ (\A e \in 0 .. D : e \in Slots) /\ Recursing(c, T, D)
                  => Heads(g0) = Heads(c) /\ Recursing(g0, T, D)
  BY <1>6
<1>10. ctl' = [ctl EXCEPT ![v] = g0]
  BY <1>1, <1>5
<1> HIDE DEF g, b
<1> QED  BY <1>1, <1>2, <1>8, <1>9, <1>10, CallGood

-----------------------------------------------------------------------------
(* build_tree *)

(* A frame returns: what its tree has made by then is no more than all.     *)
LEMMA PartialBack ==
  ASSUME NEW st \in Stacks, st # <<>>, NEW new, IsReturn(st, new), NEW n \in Nat, NEW m \in Nat,
         NEW p \in Nat, NEW q \in Nat, NEW D \in Nat, Partial(st, [cnt |-> n, pn |-> m], D),
         LET top == st[Len(st)]
             d   == top[1]
         IN  \/ top[2] = "call" /\ d = 0 /\ p = 2 /\ q = 0
             \/ top[2] = "right" /\ d > 0 /\ p = 1 /\ q = 1
  PROVE  /\ Partial(new, [cnt |-> n + p, pn |-> m + q], D)
         /\ n + p <= 3 * Leaves[D] - 1 /\ m + q <= Leaves[D] - 1
<1> DEFINE x == [cnt |-> n, pn |-> m]  y == [cnt |-> n + p, pn |-> m + q]
           top == st[Len(st)]  d == top[1]
           R == After(top, RecsOf(d - 1))  A == After(top, AddsOf(d - 1))
<1>1. d \in Nat
  BY StackFacts
<1>2. R \in Nat /\ A \in Nat /\ RecsOf(d) = R + p /\ AddsOf(d) = A + q
  <2>1. CASE top[2] = "call" /\ d = 0 /\ p = 2 /\ q = 0
    BY <2>1, SizesDouble DEF After
  <2>2. CASE top[2] = "right" /\ d > 0 /\ p = 1 /\ q = 1
    <3> DEFINE r == RecsOf(d - 1)  a == AddsOf(d - 1)
    <3>1. r \in Nat /\ a \in Nat /\ RecsOf(d) = 2 * r + 1 /\ AddsOf(d) = 2 * a + 1
      <4>1. d \in Nat \ {0} /\ d - 1 \in Nat
        BY <1>1, <2>2
      <4> QED  BY <4>1, SizesDouble
    <3>2. R = r + r /\ A = a + a
      BY <2>2 DEF After
    <3> HIDE DEF r, a
    <3> QED  BY <2>2, <3>1, <3>2
  <2> QED  BY <2>1, <2>2
<1>3. x.cnt = n /\ x.pn = m /\ y.cnt = n + p /\ y.pn = m + q
  OBVIOUS
<1> HIDE DEF R, A, x, y
<1>4. n + p = n - R + (R + p) /\ m + q = m - A + (A + q)
  BY <1>2
<1>5. y.cnt = x.cnt - R + RecsOf(d) /\ y.pn = x.pn - A + AddsOf(d)
  BY <1>2, <1>3, <1>4, Zenon
<1>6. Partial(new, y, D) /\ y.cnt <= RecsOf(D) /\ y.pn <= AddsOf(D)
  <2>1. LET t == st[Len(st)]
            e == t[1]
        IN  /\ y.cnt = x.cnt - After(t, RecsOf(e - 1)) + RecsOf(e)
            /\ y.pn = x.pn - After(t, AddsOf(e - 1)) + AddsOf(e)
    BY <1>5, Zenon DEF R, A
  <2>2. Partial(st, x, D)
    BY DEF x
  <2> QED  BY <2>1, <2>2, PartialReturn
<1> QED  BY <1>3, <1>6 DEF RecsOf, AddsOf, y

(* The heads are agents made. *)
LEMMA HeadsMade ==
  ASSUME NEW b \in Nat, NEW T, NEW P, NEW H, NEW n, NEW m, NEW E, Grown(b, T, P, H, n, m, E)
  PROVE  /\ n \in Nat /\ m \in Nat /\ \A a \in H : a \in b .. b + n - 1 /\ a < b + n
<1>1. H \subseteq Ids(b, n) /\ n \in Nat /\ m \in Nat
  BY DEF Grown, Sapling
<1> QED  BY <1>1 DEF Ids

(* The recursion is back at its start: one root. *)
LEMMA LastHead ==
  ASSUME NEW c, c.stack = <<>>
  PROVE  Heads(c) = {c.ret}
<1>1. Len(c.stack) = 0
  OBVIOUS
<1>2. Keys(c.stack) = {1}
  BY <1>1 DEF Keys
<1>3. RootAt(c, 1) = c.ret
  BY <1>1 DEF RootAt
<1> QED  BY <1>2, <1>3 DEF Heads

LEMMA BuildLeafGood ==
  ASSUME ParInv, CompleteInv, RingFits, NEW v \in VM, BuildLeaf(v), UNCHANGED DEPTH
  PROVE  CompleteInv'
<1> DEFINE h == heap[v]  z == h.free  h1 == NewAg(h, Zero)  a == h1.free  h2 == NewAg(h1, Add1)
           g == Connect(h2, <<z, 0>>, <<a, 1>>)  c == ctl[v]  e == Return(c, a)
           x == xbuf[v]  D == DEPTH[v]
<1>1. c.pc = "build" /\ At(v, "call") /\ Frame(v)[1] = 0 /\ z # 0 /\ a # 0 /\ Typed
  BY DEF BuildLeaf, IsLeaf, ParInv
<1>2. /\ c.stack # <<>> /\ Frame(v) = c.stack[Len(c.stack)] /\ Frame(v)[2] = "call"
      /\ c.stack \in Stacks
  BY <1>1, TopFrame
<1>3. /\ IsCtl(c) /\ CtlTyped(c) /\ BufTyped(x) /\ D \in Nat \ {0} /\ Place(v, c, h, x, D)
  BY <1>1, VMKnown
<1>4. PICK n, m \in Nat : /\ Seeds(h, n, m) /\ Partial(c.stack, [cnt |-> n, pn |-> m], D)
                          /\ Grown(AGENTS, Types(h), h.port, Heads(c), n, m, h.cell)
                          /\ Recursing(c, Types(h), D)
  BY <1>1, <1>3 DEF Place, Building
<1>5. /\ Seeds(g, n + 2, m) /\ a = AGENTS + n + 1
      /\ Grown(AGENTS, Types(g), g.port, Heads(c) \cup {a}, n + 2, m, g.cell)
  BY <1>1, <1>4, BuildGrowsLeaf
<1>6. a \in Nat /\ a \notin Heads(c) /\ AGENTS \in Nat
  <2>1. AGENTS \in Nat /\ \A i \in Heads(c) : i < AGENTS + n
    BY <1>4, HeadsMade, HeapAssumption
  <2> QED  BY <1>5, <2>1
<1>7. /\ ctl' = [ctl EXCEPT ![v] = e] /\ heap' = [heap EXCEPT ![v] = g]
      /\ xbuf' = [xbuf EXCEPT ![v] = x] /\ UNCHANGED host
  BY <1>1, Same DEF BuildLeaf
<1> HIDE DEF g, h1, h2, a
<1>8. IsCtl(e) /\ e.pc = "build" /\ IsReturn(c.stack, e.stack)
  BY <1>1, <1>2, <1>3, ReturnStack
<1>9. CtlTyped(e) /\ e.slot = c.slot /\ e.ret = a
  BY <1>3, <1>6, ReturnSlots
<1> HIDE DEF e
<1>10. Heads(e) = Heads(c) \cup {a} /\ Recursing(e, Types(g), D)
  <2>1. /\ c.stack \in Stacks /\ c.stack # <<>> /\ D \in Nat \ {0} /\ Recursing(c, Types(h), D)
        /\ c.stack[Len(c.stack)][2] = "call" /\ c.stack[Len(c.stack)][1] = 0 /\ a \notin Heads(c)
        /\ e.slot = c.slot /\ e.ret = a /\ IsReturn(c.stack, e.stack)
    BY <1>1, <1>2, <1>3, <1>4, <1>6, <1>8, <1>9
  <2> QED  BY ONLY <2>1, LeafRoots
<1>11. Partial(e.stack, [cnt |-> n + 2, pn |-> m], D)
  <2> DEFINE st == c.stack  top == st[Len(st)]
  <2>1. /\ st \in Stacks /\ st # <<>> /\ IsReturn(st, e.stack) /\ 2 \in Nat /\ 0 \in Nat
        /\ D \in Nat /\ Partial(st, [cnt |-> n, pn |-> m], D) /\ top[2] = "call" /\ top[1] = 0
    BY <1>1, <1>2, <1>3, <1>4, <1>8
  <2> HIDE DEF st
  <2>2. Partial(e.stack, [cnt |-> n + 2, pn |-> m + 0], D)
    BY <2>1, PartialBack
  <2> QED  BY <2>2
<1>12. Building(e, g, D)
  <2>1. n + 2 \in Nat
    OBVIOUS
  <2> QED  BY <1>5, <1>10, <1>11, <2>1 DEF Building
<1>13. Place(v, e, g, x, D)
  BY <1>1, <1>3, <1>8, <1>12 DEF Place
<1>14. Running(v) /\ c.pc # "export"
  BY <1>1 DEF Running
<1> QED  BY <1>3, <1>7, <1>9, <1>13, <1>14, StepGood

(* BuildGrowsNode, its parts by name.                                        *)
NodeReady(h, n, m, H, l, r) ==
  /\ m \in Nat /\ m < QSIZE /\ Seeds(h, n, m) /\ h.free # 0
  /\ Grown(AGENTS, Types(h), h.port, H, n, m, h.cell) /\ l \in H /\ r \in H /\ l # r

NodeThere(h, n, m, H, l, r, g) ==
  /\ Seeds(g, n + 1, m + 1) /\ Types(g)[h.free] = Add
  /\ Grown(AGENTS, Types(g), g.port, (H \ {l, r}) \cup {h.free}, n + 1, m + 1, g.cell)

LEMMA NodeGrows ==
  ASSUME NEW h, NEW n, NEW m, NEW H, NEW l, NEW r, NodeReady(h, n, m, H, l, r)
  PROVE  NodeThere(h, n, m, H, l, r, NodeMade(h, l, r))
<1>1. PICK g : g = NodeMade(h, l, r)
  OBVIOUS
<1>2. m \in Nat
  BY DEF NodeReady
<1>3. /\ Seeds(g, n + 1, m + 1) /\ h.free = AGENTS + n /\ n + 1 <= NAGENTS
      /\ Types(g)[h.free] = Add
      /\ Grown(AGENTS, Types(g), g.port, (H \ {l, r}) \cup {h.free}, n + 1, m + 1, g.cell)
  BY <1>1, <1>2, BuildGrowsNode DEF NodeReady
<1> QED  BY <1>1, <1>3 DEF NodeThere

LEMMA BuildNodeGood ==
  ASSUME ParInv, CompleteInv, RingFits, NEW v \in VM, BuildNode(v), UNCHANGED DEPTH
  PROVE  CompleteInv'
<1> DEFINE h == heap[v]  d == Frame(v)[1]  c == ctl[v]  l == c.slot[d].l  r == c.ret
           add == h.free  h1 == NewAg(h, Add)
           h2 == Connect(h1, <<add, 0>>, Iface(h1, l))
           h3 == Connect(h2, <<add, 1>>, Iface(h1, r))
           g == Enq(h3, add)
           b == RightGiven(c, d, r)  e == Return(b, add)
           x == xbuf[v]  D == DEPTH[v]  L == Leaves[D]
<1>1. c.pc = "build" /\ At(v, "right") /\ add # 0 /\ Typed
  BY DEF BuildNode, ParInv
<1>2. /\ c.stack # <<>> /\ Frame(v) = c.stack[Len(c.stack)] /\ Frame(v)[2] = "right"
      /\ c.stack \in Stacks /\ d > 0
  BY <1>1, TopFrame
<1>3. /\ IsCtl(c) /\ CtlTyped(c) /\ BufTyped(x) /\ D \in Nat \ {0} /\ Place(v, c, h, x, D)
      /\ L \in Nat \ {0} /\ 2 * L <= QSIZE /\ \A i \in 0 .. D : i \in Slots
  BY <1>1, VMKnown
<1>4. PICK n, m : /\ n \in Nat /\ m \in Nat
                 /\ Seeds(h, n, m) /\ Partial(c.stack, [cnt |-> n, pn |-> m], D)
                 /\ Grown(AGENTS, Types(h), h.port, Heads(c), n, m, h.cell)
                 /\ Recursing(c, Types(h), D)
  BY <1>1, <1>3 DEF Place, Building
<1>5. d \in Slots /\ r \in Nat
  <2>1. Len(c.stack) \in 1 .. Len(c.stack)
    BY <1>2, StackFacts
  <2>2. Levels(c.stack, D) /\ D \in Nat
    BY <1>3, <1>4 DEF Recursing
  <2>3. d \in 0 .. D
    BY <1>2, <2>1, <2>2, FrameDepths
  <2> QED  BY <1>3, <2>3 DEF CtlTyped
<1>6. add = AGENTS + n /\ add \in Nat /\ add \notin Heads(c)
  <2>1. add = AGENTS + n /\ AGENTS \in Nat
    <3>1. Add \in Type
      BY DEF Add, Type
    <3> QED  BY <1>1, <1>4, <3>1, SeedsNew, HeapAssumption
  <2>2. \A i \in Heads(c) : i < AGENTS + n
    BY <1>4, <2>1, HeadsMade
  <2> QED  BY <1>4, <2>1, <2>2
<1>7. /\ ctl' = [ctl EXCEPT ![v] = e] /\ heap' = [heap EXCEPT ![v] = g]
      /\ xbuf' = [xbuf EXCEPT ![v] = x] /\ UNCHANGED host
  BY <1>1, Same DEF BuildNode, RightGiven
<1> HIDE DEF b
<1>8. /\ IsCtl(b) /\ CtlTyped(b) /\ b.pc = c.pc /\ b.stack = c.stack
      /\ \A i \in Slots : b.slot[i].l = c.slot[i].l
  <2>1. IsCtl(c) /\ CtlTyped(c) /\ d \in Slots /\ r \in Nat /\ b = RightGiven(c, d, r)
    BY <1>3, <1>5 DEF b
  <2> HIDE DEF d, r
  <2> QED  BY ONLY <2>1, RightSlot
<1>9. e.pc = "build" /\ IsReturn(c.stack, e.stack)
  BY <1>1, <1>2, <1>8, ReturnStack
<1>10. CtlTyped(e) /\ e.slot = b.slot /\ e.ret = add
  BY <1>6, <1>8, ReturnSlots, SMTT(40)
<1> HIDE DEF e
<1>11. ASSUME NEW U, U[add] = Add
       PROVE  /\ l \in Heads(c) /\ r \in Heads(c) /\ l # r
              /\ Heads(e) = (Heads(c) \ {l, r}) \cup {add} /\ Recursing(e, U, D)
  <2>1. /\ c.stack \in Stacks /\ c.stack # <<>> /\ D \in Nat /\ Recursing(c, Types(h), D)
        /\ c.stack[Len(c.stack)][2] = "right" /\ d = c.stack[Len(c.stack)][1]
        /\ add \notin Heads(c) /\ U[add] = Add /\ (\A i \in 0 .. D : e.slot[i].l = c.slot[i].l)
        /\ e.ret = add /\ IsReturn(c.stack, e.stack) /\ l = c.slot[d].l /\ r = c.ret
    BY <1>2, <1>3, <1>4, <1>6, <1>8, <1>9, <1>10, <1>11
  <2> HIDE DEF c, l, r, d, add, h, D
  <2> QED  BY ONLY <2>1, NodeRoots, SMTT(40)
<1>12. l \in Heads(c) /\ r \in Heads(c) /\ l # r
  <2>1. [i \in {add} |-> Add][add] = Add
    OBVIOUS
  <2> QED  BY <1>11, <2>1
<1>13. /\ Partial(e.stack, [cnt |-> n + 1, pn |-> m + 1], D)
       /\ m + 1 <= L - 1
  <2> DEFINE st == c.stack  top == st[Len(st)]
  <2>1. /\ st \in Stacks /\ st # <<>> /\ IsReturn(st, e.stack) /\ 1 \in Nat /\ n \in Nat /\ m \in Nat
        /\ D \in Nat /\ Partial(st, [cnt |-> n, pn |-> m], D) /\ top[2] = "right" /\ top[1] > 0
    BY <1>2, <1>3, <1>4, <1>9
  <2> HIDE DEF st
  <2> QED  BY <2>1, PartialBack
<1>14. m < QSIZE
  BY <1>3, <1>4, <1>13, HeapAssumption
<1>15. /\ Seeds(g, n + 1, m + 1) /\ Types(g)[add] = Add
       /\ Grown(AGENTS, Types(g), g.port, (Heads(c) \ {l, r}) \cup {add}, n + 1, m + 1, g.cell)
  <2>1. NodeReady(h, n, m, Heads(c), l, r)
    BY <1>1, <1>4, <1>12, <1>14 DEF NodeReady
  <2>2. g = NodeMade(h, l, r)
    BY DEF NodeMade
  <2> HIDE DEF l, r, g, h
  <2>3. NodeThere(h, n, m, Heads(c), l, r, g)
    BY <2>1, <2>2, NodeGrows
  <2> QED  BY <2>3 DEF NodeThere
<1> HIDE DEF g
<1>16. Heads(e) = (Heads(c) \ {l, r}) \cup {add} /\ Recursing(e, Types(g), D)
  BY <1>11, <1>15
<1>17. Building(e, g, D)
  <2>1. n + 1 \in Nat /\ m + 1 \in Nat
    BY <1>4
  <2> QED  BY <1>13, <1>15, <1>16, <2>1 DEF Building
<1>18. Place(v, e, g, x, D)
  BY <1>1, <1>3, <1>9, <1>17 DEF Place
<1>19. Running(v) /\ c.pc # "export"
  BY <1>1 DEF Running
<1> QED  BY <1>3, <1>7, <1>10, <1>18, <1>19, StepGood

(* BuildPlants and PlantedDrives, their parts by name.                      *)
RootReady(h, n, m, l, L) ==
  /\ n = 3 * L - 1 /\ m = L - 1 /\ L <= QSIZE /\ Seeds(h, n, m) /\ h.free # 0
  /\ Grown(AGENTS, Types(h), h.port, {l}, n, m, h.cell) /\ Types(h)[l] = Add

RootMade(h, l) == Enq(Connect(NewAg(h, End), <<l, 2>>, <<h.free, 0>>), l)

LEMMA RootPlants ==
  ASSUME NEW h, NEW n, NEW m, NEW l, NEW L \in Nat \ {0}, RootReady(h, n, m, l, L),
         NEW g, g = RootMade(h, l)
  PROVE  Seeds(g, 3 * L, L) /\ Planted(AGENTS, Types(g), g.port, g.cell, L)
<1>1. PICK h1 : h1 = NewAg(h, End)
  OBVIOUS
<1>2. PICK h2 : h2 = Connect(h1, <<l, 2>>, <<h.free, 0>>)
  OBVIOUS
<1>3. PICK k : k = Enq(h2, l)
  OBVIOUS
<1>4. k = g
  BY <1>1, <1>2, <1>3 DEF RootMade
<1>5. Seeds(k, 3 * L, L) /\ Planted(AGENTS, Types(k), k.port, k.cell, L)
  BY <1>1, <1>2, <1>3, BuildPlants DEF RootReady
<1> QED  BY <1>4, <1>5

LEMMA RootGrows ==
  ASSUME NEW h, NEW n, NEW m, NEW l, NEW L \in Nat \ {0}, 2 * L <= QSIZE, RootReady(h, n, m, l, L)
  PROVE  Driving(RootMade(h, l), L)
<1>1. PICK g : g = RootMade(h, l)
  OBVIOUS
<1>2. Seeds(g, 3 * L, L) /\ Planted(AGENTS, Types(g), g.port, g.cell, L)
  BY <1>1, RootPlants
<1>3. PICK n0 : n0 = 3 * L
  OBVIOUS
<1>4. Seeds(g, n0, L)
  BY <1>2, <1>3
<1>5. /\ \A a \in Agent : a >= AGENTS + n0 => Types(g)[a] = 0
      /\ n0 \in Nat /\ n0 <= NAGENTS /\ Ids(AGENTS, n0) \subseteq Agent
      /\ Pool(g) /\ g.err = 0 /\ g.count = 0 /\ g.head = 0 /\ g.tail = L
      /\ Types(g) \in [Agent -> 0 .. 4] /\ g.port \in [Port -> PortValue] /\ g \in Heap
  BY <1>4, SeedsBeyond
<1>6. Driving(g, L)
  <2>1. /\ Pool(g) /\ g.err = 0 /\ g.count = 0 /\ g.head = 0 /\ g.tail \in {L - 1, L}
        /\ 3 * L <= NAGENTS /\ \A a \in Agent : a >= AGENTS + 3 * L => Types(g)[a] = 0
    BY <1>3, <1>5
  <2> QED  BY <1>2, <2>1, PlantedDrives
<1> QED  BY <1>1, <1>6

LEMMA BuildRootGood ==
  ASSUME ParInv, CompleteInv, RingFits, NEW v \in VM, BuildRoot(v), UNCHANGED DEPTH
  PROVE  CompleteInv'
<1> DEFINE h == heap[v]  c == ctl[v]  root == c.ret  g == RootMade(h, root)
           e == [c EXCEPT !.pc = "driver"]  x == xbuf[v]  D == DEPTH[v]  L == Leaves[D]
<1>1. c.pc = "build" /\ c.stack = <<>> /\ h.free # 0 /\ Typed
  BY DEF BuildRoot, ParInv
<1>2. /\ IsCtl(c) /\ CtlTyped(c) /\ BufTyped(x) /\ Place(v, c, h, x, D)
      /\ L \in Nat \ {0} /\ 2 * L <= QSIZE
  BY <1>1, VMKnown
<1>3. PICK n, m : /\ n \in Nat /\ m \in Nat
                  /\ Seeds(h, n, m) /\ Partial(c.stack, [cnt |-> n, pn |-> m], D)
                  /\ Grown(AGENTS, Types(h), h.port, Heads(c), n, m, h.cell)
                  /\ Recursing(c, Types(h), D)
  BY <1>1, <1>2 DEF Place, Building
<1>4. RootReady(h, n, m, root, L)
  <2>1. n = 3 * L - 1 /\ m = L - 1
    BY <1>1, <1>3 DEF Partial, RecsOf, AddsOf
  <2>2. Heads(c) = {root} /\ Types(h)[root] = Add
    BY <1>1, <1>3, LastHead DEF Recursing
  <2>3. L <= QSIZE
    BY <1>2, HeapAssumption
  <2> QED  BY <1>1, <1>3, <2>1, <2>2, <2>3 DEF RootReady
<1>5. /\ ctl' = [ctl EXCEPT ![v] = e] /\ heap' = [heap EXCEPT ![v] = g]
      /\ xbuf' = [xbuf EXCEPT ![v] = x] /\ UNCHANGED host
  BY <1>1, Same DEF BuildRoot, RootMade
<1> HIDE DEF g, L
<1>6. Driving(g, L)
  BY <1>2, <1>4, RootGrows DEF g
<1>7. e.pc = "driver" /\ CtlTyped(e)
  BY <1>2 DEF IsCtl, CtlTyped
<1>8. Place(v, e, g, x, D)
  BY <1>6, <1>7 DEF Place, L
<1>9. Running(v) /\ c.pc # "export"
  BY <1>1 DEF Running
<1> HIDE DEF e
<1> QED  BY <1>2, <1>5, <1>7, <1>8, <1>9, StepGood

(* Out of agents.                                                           *)
LEMMA OomEnds ==
  ASSUME NEW h, NEW n, NEW m, Seeds(h, n, m), NEW L \in Nat \ {0}, n < 3 * L + 2, h.free = 0
  PROVE  Ended(Oom(h), L)
<1>1. n = NAGENTS
  BY SeedsEmpty
<1>2. h \in Heap /\ h.count = 0
  BY SeedsHeap DEF Seeds
<1>3. Oom(h).err = 2 /\ Oom(h).count = h.count
  BY <1>2 DEF Oom, Heap
<1> QED  BY <1>1, <1>2, <1>3 DEF Ended, Short

LEMMA HaltedCtl ==
  ASSUME NEW c, IsCtl(c), CtlTyped(c)
  PROVE  Halted(c).pc = "halted" /\ CtlTyped(Halted(c)) /\ Halted(c).stack = c.stack
         /\ Halted(c).slot = c.slot /\ Halted(c).ret = c.ret
BY DEF IsCtl, CtlTyped, Halted

LEMMA BuildOomGood ==
  ASSUME ParInv, CompleteInv, RingFits, NEW v \in VM, BuildOom(v), UNCHANGED DEPTH
  PROVE  CompleteInv'
<1> DEFINE h == heap[v]  c == ctl[v]
           h1 == IF IsLeaf(v) /\ h.free # 0 THEN NewAg(h, Zero) ELSE h
           g == Oom(h1)  e == Halted(c)  x == xbuf[v]  D == DEPTH[v]  L == Leaves[D]
<1>1. c.pc = "build" /\ h1.free = 0 /\ Typed /\ (IsLeaf(v) \/ At(v, "right") \/ c.stack = <<>>)
  BY DEF BuildOom, ParInv
<1>2. /\ IsCtl(c) /\ CtlTyped(c) /\ BufTyped(x) /\ D \in Nat \ {0} /\ Place(v, c, h, x, D)
      /\ L \in Nat \ {0}
  BY <1>1, VMKnown
<1>3. PICK n, m : /\ n \in Nat /\ m \in Nat
                  /\ Seeds(h, n, m) /\ Partial(c.stack, [cnt |-> n, pn |-> m], D)
  BY <1>1, <1>2 DEF Place, Building
<1>4. n <= 3 * L - 1 /\ (IsLeaf(v) => n + 2 <= 3 * L - 1)
  <2> DEFINE st == c.stack  top == st[Len(st)]  new == Return(c, 0).stack
  <2>1. CASE st = <<>>
    <3>1. ~IsLeaf(v)
      BY <2>1 DEF IsLeaf, At
    <3> QED  BY <1>3, <2>1, <3>1 DEF Partial, RecsOf
  <2>2. CASE st # <<>>
    <3>1. /\ IsReturn(st, new) /\ st \in Stacks /\ 0 \in Nat /\ 1 \in Nat /\ 2 \in Nat
          /\ D \in Nat /\ n \in Nat /\ m \in Nat /\ Partial(st, [cnt |-> n, pn |-> m], D)
      BY <1>2, <1>3, <2>2, ReturnStack DEF IsCtl
    <3>2. IsLeaf(v) => top[2] = "call" /\ top[1] = 0
      BY <1>1, TopFrame DEF IsLeaf
    <3>3. At(v, "right") => top[2] = "right" /\ top[1] > 0
      BY <1>1, TopFrame
    <3> HIDE DEF new, st
    <3>4. CASE IsLeaf(v)
      <4>1. n + 2 <= 3 * Leaves[D] - 1
        BY <2>2, <3>1, <3>2, <3>4, PartialBack
      <4> QED  BY <1>2, <1>3, <4>1
    <3>5. CASE At(v, "right")
      <4>1. n + 1 <= 3 * Leaves[D] - 1
        BY <2>2, <3>1, <3>3, <3>5, PartialBack
      <4>2. ~IsLeaf(v)
        BY <3>2, <3>3, <3>5
      <4> QED  BY <1>2, <1>3, <4>1, <4>2
    <3> QED  BY <1>1, <2>2, <3>4, <3>5 DEF st
  <2> QED  BY <2>1, <2>2
<1>5. Ended(g, L)
  <2>1. CASE IsLeaf(v) /\ h.free # 0
    <3>1. Zero \in Type
      BY DEF Zero, Type
    <3>2. h1 = NewAg(h, Zero)
      BY <2>1
    <3> HIDE DEF h1, L
    <3>3. Seeds(h1, n + 1, m)
      BY <1>3, <2>1, <3>1, <3>2, SeedsNew
    <3>4. PICK k : k = n + 1
      OBVIOUS
    <3>5. Seeds(h1, k, m) /\ k < 3 * L + 2
      BY <1>2, <1>3, <1>4, <2>1, <3>3, <3>4
    <3> QED  BY <1>1, <1>2, <3>5, OomEnds
  <2>2. CASE ~(IsLeaf(v) /\ h.free # 0)
    <3>1. h1 = h
      BY <2>2
    <3> HIDE DEF h1, L
    <3>2. n < 3 * L + 2
      BY <1>2, <1>3, <1>4
    <3> QED  BY <1>1, <1>2, <1>3, <3>1, <3>2, OomEnds
  <2> QED  BY <2>1, <2>2
<1>6. /\ ctl' = [ctl EXCEPT ![v] = e] /\ heap' = [heap EXCEPT ![v] = g]
      /\ xbuf' = [xbuf EXCEPT ![v] = x] /\ UNCHANGED host
  BY <1>1, Same DEF BuildOom
<1> HIDE DEF g, L
<1>7. e.pc = "halted" /\ CtlTyped(e)
  BY <1>2, HaltedCtl
<1> HIDE DEF e
<1>8. Place(v, e, g, x, D)
  BY <1>5, <1>7 DEF Place, L
<1>9. Running(v) /\ c.pc # "export"
  BY <1>1 DEF Running
<1> QED  BY <1>2, <1>6, <1>7, <1>8, <1>9, StepGood

-----------------------------------------------------------------------------
(* build_tree_x *)

(* RecordGrowsLeaf, RecordGrowsNode and RecordPlants, their parts by name.   *)
RecordReady(x, H) ==
  /\ IsBundle(x) /\ BufTyped(x) /\ Grown(1, x.type, x.port, H, x.cnt, x.pn, x.pair)

RecordThere(y, H) ==
  BufTyped(y) /\ Grown(1, y.type, y.port, H, y.cnt, y.pn, y.pair)

LeafRecord(x) ==
  ConnectX(XAlloc(XAlloc(x, Zero), Add1), <<x.cnt + 1, 0>>, <<x.cnt + 2, 1>>)

NodeRecord(x, l, r) ==
  LET x1 == XAlloc(x, Add)
      x2 == ConnectX(ConnectX(x1, <<x.cnt + 1, 0>>, IfaceX(x1, l)),
                     <<x.cnt + 1, 1>>, IfaceX(x1, r))
  IN  [x2 EXCEPT !.pair[x2.pn] = x.cnt + 1, !.pn = @ + 1]

EndRecord(x, l) ==
  LET x1 == ConnectX(XAlloc(x, End), <<l, 2>>, <<x.cnt + 1, 0>>)
  IN  [x1 EXCEPT !.n = x1.cnt]

LEMMA LeafRecordGrows ==
  ASSUME NEW x, NEW H, RecordReady(x, H), x.cnt + 2 <= XMAX
  PROVE  RecordThere(LeafRecord(x), H \cup {x.cnt + 2})
<1>1. PICK x1 : x1 = XAlloc(x, Zero)
  OBVIOUS
<1>2. PICK x2 : x2 = XAlloc(x1, Add1)
  OBVIOUS
<1>3. PICK y : y = ConnectX(x2, <<x.cnt + 1, 0>>, <<x.cnt + 2, 1>>)
  OBVIOUS
<1>4. y = LeafRecord(x)
  BY <1>1, <1>2, <1>3 DEF LeafRecord
<1>5. BufTyped(y) /\ Grown(1, y.type, y.port, H \cup {x.cnt + 2}, y.cnt, y.pn, y.pair)
  BY <1>1, <1>2, <1>3, RecordGrowsLeaf DEF RecordReady
<1> QED  BY <1>4, <1>5 DEF RecordThere

LEMMA NodeRecordGrows ==
  ASSUME NEW x, NEW H, RecordReady(x, H), x.cnt + 1 <= XMAX, x.pn + 1 <= PAIRMAX,
         NEW l \in H, NEW r \in H, l # r
  PROVE  /\ RecordThere(NodeRecord(x, l, r), (H \ {l, r}) \cup {x.cnt + 1})
         /\ NodeRecord(x, l, r).type[x.cnt + 1] = Add
<1>1. PICK x1 : x1 = XAlloc(x, Add)
  OBVIOUS
<1>2. PICK x2 : x2 = ConnectX(x1, <<x.cnt + 1, 0>>, IfaceX(x1, l))
  OBVIOUS
<1>3. PICK x3 : x3 = ConnectX(x2, <<x.cnt + 1, 1>>, IfaceX(x1, r))
  OBVIOUS
<1>4. PICK y : y = Paired(x3, x.cnt + 1)
  OBVIOUS
<1>5. y = NodeRecord(x, l, r)
  BY <1>1, <1>2, <1>3, <1>4 DEF NodeRecord, Paired
<1>6. /\ BufTyped(y) /\ y.type[x.cnt + 1] = Add
      /\ Grown(1, y.type, y.port, (H \ {l, r}) \cup {x.cnt + 1}, y.cnt, y.pn, y.pair)
  <2>1. IsBundle(x) /\ BufTyped(x) /\ Grown(1, x.type, x.port, H, x.cnt, x.pn, x.pair)
    BY DEF RecordReady
  <2> QED  BY <1>1, <1>2, <1>3, <1>4, <2>1, RecordGrowsNode, ZenonT(40)
<1> QED  BY <1>5, <1>6 DEF RecordThere

LEMMA EndRecordPlants ==
  ASSUME NEW x, NEW l, RecordReady(x, {l}), x.cnt + 1 <= XMAX, x.type[l] = Add,
         NEW D, Leaves[D] \in Nat \ {0}, x.cnt = 3 * Leaves[D] - 1, x.pn = Leaves[D] - 1
  PROVE  BufTyped(EndRecord(x, l)) /\ Delivery(EndRecord(x, l), D)
<1>1. PICK x1 : x1 = XAlloc(x, End)
  OBVIOUS
<1>2. PICK x2 : x2 = ConnectX(x1, <<l, 2>>, <<x.cnt + 1, 0>>)
  OBVIOUS
<1>3. PICK y : y = Numbered(x2)
  OBVIOUS
<1>4. y = EndRecord(x, l)
  BY <1>1, <1>2, <1>3 DEF EndRecord, Numbered
<1>5. PICK L \in Nat \ {0} : L = Leaves[D]
  OBVIOUS
<1>6. BufTyped(y) /\ y.n = 3 * L /\ y.pn = L - 1 /\ Planted(1, y.type, y.port, y.pair, L)
  <2>1. /\ IsBundle(x) /\ BufTyped(x) /\ Grown(1, x.type, x.port, {l}, x.cnt, x.pn, x.pair)
        /\ x.cnt = 3 * L - 1 /\ x.pn = L - 1 /\ L \in Nat \ {0}
        /\ x.cnt + 1 <= XMAX /\ x.type[l] = Add
    BY <1>5 DEF RecordReady
  <2> QED  BY ONLY <1>1, <1>2, <1>3, <2>1, RecordPlants, SMTT(60)
<1> QED  BY <1>4, <1>5, <1>6 DEF Delivery

LEMMA ExportLeafGood ==
  ASSUME ParInv, CompleteInv, RingFits, NEW v \in VM, ExportLeaf(v), UNCHANGED DEPTH
  PROVE  CompleteInv'
<1> DEFINE x == xbuf[v]  a == x.cnt + 2  y == LeafRecord(x)  c == ctl[v]  e == Return(c, a)
           h == heap[v]  D == DEPTH[host.i]
<1>1. c.pc = "export" /\ At(v, "call") /\ Frame(v)[1] = 0 /\ Typed
  BY DEF ExportLeaf, IsLeaf, ParInv
<1>2. /\ c.stack # <<>> /\ Frame(v) = c.stack[Len(c.stack)] /\ Frame(v)[2] = "call"
      /\ c.stack \in Stacks
  BY <1>1, TopFrame
<1>3. IsCtl(c) /\ CtlTyped(c) /\ IsBundle(x) /\ BufTyped(x)
  BY VMKnown
<1>4. Recording(c, x, D) /\ D \in Nat \ {0} /\ Unused(h)
  BY <1>1, ExportKnown
<1>5. /\ ctl' = [ctl EXCEPT ![v] = e] /\ heap' = [heap EXCEPT ![v] = h]
      /\ xbuf' = [xbuf EXCEPT ![v] = y] /\ UNCHANGED host
  BY <1>1, Same DEF ExportLeaf, LeafRecord
<1>6. e.pc = "export" /\ IsReturn(c.stack, e.stack)
  BY <1>1, <1>2, <1>3, ReturnStack
<1>7. x.cnt \in Nat /\ a \in Nat /\ a \notin Heads(c)
  <2>1. x.cnt \in Nat
    BY <1>3 DEF IsBundle
  <2>2. Grown(1, x.type, x.port, Heads(c), x.cnt, x.pn, x.pair) /\ 1 \in Nat
    BY <1>4 DEF Recording
  <2>3. \A i \in Heads(c) : i < 1 + x.cnt
    BY <2>2, HeadsMade
  <2>4. x.cnt + 2 \notin Heads(c)
    <3>1. ~(x.cnt + 2 < 1 + x.cnt)
      BY <2>1
    <3> QED  BY <2>3, <3>1
  <2> QED  BY <2>1, <2>4
<1>8. CtlTyped(e) /\ e.slot = c.slot /\ e.ret = a
  BY <1>3, <1>7, ReturnSlots
<1>9. x.cnt + 2 <= XMAX
  <2>1. 2 \in Nat /\ 0 \in Nat
    OBVIOUS
  <2>2. /\ x.cnt + 2 <= XMAX /\ x.pn + 0 <= PAIRMAX
        /\ \A w : w.cnt = x.cnt + 2 /\ w.pn = x.pn + 0 => Partial(e.stack, w, D)
    BY <1>1, <1>2, <1>6, <2>1, ExportReturn
  <2> QED  BY <2>2
<1>10. RecordThere(y, Heads(c) \cup {a})
  <2>1. RecordReady(x, Heads(c))
    BY <1>3, <1>4 DEF RecordReady, Recording
  <2> QED  BY <1>9, <2>1, LeafRecordGrows
<1> HIDE DEF e, a, y
<1>11. Heads(e) = Heads(c) \cup {a} /\ Recursing(e, y.type, D)
  <2>1. /\ c.stack \in Stacks /\ c.stack # <<>> /\ D \in Nat \ {0} /\ Recursing(c, x.type, D)
        /\ c.stack[Len(c.stack)][2] = "call" /\ c.stack[Len(c.stack)][1] = 0 /\ a \notin Heads(c)
        /\ e.slot = c.slot /\ e.ret = a /\ IsReturn(c.stack, e.stack)
    BY <1>1, <1>2, <1>4, <1>6, <1>7, <1>8 DEF Recording
  <2> QED  BY ONLY <2>1, LeafRoots
<1>12. BufTyped(y) /\ Recording(e, y, D)
  BY <1>10, <1>11 DEF RecordThere, Recording
<1>13. Running(v)
  BY <1>1 DEF Running
<1> QED  BY <1>1, <1>4, <1>5, <1>6, <1>8, <1>12, <1>13, StepGood

LEMMA ExportNodeGood ==
  ASSUME ParInv, CompleteInv, RingFits, NEW v \in VM, ExportNode(v), UNCHANGED DEPTH
  PROVE  CompleteInv'
<1> DEFINE x == xbuf[v]  d == Frame(v)[1]  c == ctl[v]  l == c.slot[d].l  r == c.ret
           add == x.cnt + 1  y == NodeRecord(x, l, r)
           b == RightGiven(c, d, r)  e == Return(b, add)  h == heap[v]  D == DEPTH[host.i]
<1>1. c.pc = "export" /\ At(v, "right") /\ Typed
  BY DEF ExportNode, ParInv
<1>2. /\ c.stack # <<>> /\ Frame(v) = c.stack[Len(c.stack)] /\ Frame(v)[2] = "right"
      /\ c.stack \in Stacks /\ d > 0
  BY <1>1, TopFrame
<1>3. IsCtl(c) /\ CtlTyped(c) /\ IsBundle(x) /\ BufTyped(x)
  BY VMKnown
<1>4. /\ Recording(c, x, D) /\ D \in Nat \ {0} /\ Unused(h)
      /\ \A i \in 0 .. D : i \in Slots
  BY <1>1, ExportKnown
<1>5. d \in Slots /\ r \in Nat
  <2>1. Len(c.stack) \in 1 .. Len(c.stack)
    BY <1>2, StackFacts
  <2>2. Levels(c.stack, D) /\ D \in Nat
    BY <1>4 DEF Recording, Recursing
  <2>3. d \in 0 .. D
    BY <1>2, <2>1, <2>2, FrameDepths
  <2> QED  BY <1>3, <1>4, <2>3 DEF CtlTyped
<1>6. x.cnt \in Nat /\ add \in Nat /\ add \notin Heads(c)
  <2>1. x.cnt \in Nat
    BY <1>3 DEF IsBundle
  <2>2. Grown(1, x.type, x.port, Heads(c), x.cnt, x.pn, x.pair) /\ 1 \in Nat
    BY <1>4 DEF Recording
  <2>3. \A i \in Heads(c) : i < 1 + x.cnt
    BY <2>2, HeadsMade
  <2>4. x.cnt + 1 \notin Heads(c)
    <3>1. ~(x.cnt + 1 < 1 + x.cnt)
      BY <2>1
    <3> QED  BY <2>3, <3>1
  <2> QED  BY <2>1, <2>4
<1>7. /\ ctl' = [ctl EXCEPT ![v] = e] /\ heap' = [heap EXCEPT ![v] = h]
      /\ xbuf' = [xbuf EXCEPT ![v] = y] /\ UNCHANGED host
  BY <1>1, Same DEF ExportNode, RightGiven, NodeRecord
<1> HIDE DEF b
<1>8. /\ IsCtl(b) /\ CtlTyped(b) /\ b.pc = c.pc /\ b.stack = c.stack
      /\ \A i \in Slots : b.slot[i].l = c.slot[i].l
  <2>1. IsCtl(c) /\ CtlTyped(c) /\ d \in Slots /\ r \in Nat /\ b = RightGiven(c, d, r)
    BY <1>3, <1>5 DEF b
  <2> HIDE DEF d, r
  <2> QED  BY ONLY <2>1, RightSlot
<1>9. e.pc = "export" /\ IsReturn(c.stack, e.stack)
  BY <1>1, <1>2, <1>8, ReturnStack
<1>10. CtlTyped(e) /\ e.slot = b.slot /\ e.ret = add
  BY <1>6, <1>8, ReturnSlots, SMTT(40)
<1> HIDE DEF e, add
<1>11. ASSUME NEW U, U[add] = Add
       PROVE  /\ l \in Heads(c) /\ r \in Heads(c) /\ l # r
              /\ Heads(e) = (Heads(c) \ {l, r}) \cup {add} /\ Recursing(e, U, D)
  <2>1. /\ c.stack \in Stacks /\ c.stack # <<>> /\ D \in Nat /\ Recursing(c, x.type, D)
        /\ c.stack[Len(c.stack)][2] = "right" /\ d = c.stack[Len(c.stack)][1]
        /\ add \notin Heads(c) /\ U[add] = Add /\ (\A i \in 0 .. D : e.slot[i].l = c.slot[i].l)
        /\ e.ret = add /\ IsReturn(c.stack, e.stack) /\ l = c.slot[d].l /\ r = c.ret
    BY <1>2, <1>4, <1>6, <1>8, <1>9, <1>10, <1>11 DEF Recording
  <2> HIDE DEF c, l, r, d, x, y, D, h
  <2> QED  BY ONLY <2>1, NodeRoots, SMTT(40)
<1>12. l \in Heads(c) /\ r \in Heads(c) /\ l # r
  <2>1. [i \in {add} |-> Add][add] = Add
    OBVIOUS
  <2> QED  BY <1>11, <2>1
<1>13. x.cnt + 1 <= XMAX /\ x.pn + 1 <= PAIRMAX
  <2>1. 1 \in Nat
    OBVIOUS
  <2>2. /\ x.cnt + 1 <= XMAX /\ x.pn + 1 <= PAIRMAX
        /\ \A w : w.cnt = x.cnt + 1 /\ w.pn = x.pn + 1 => Partial(e.stack, w, D)
    BY <1>1, <1>2, <1>9, <2>1, ExportReturn
  <2> QED  BY <2>2
<1>14. RecordThere(y, (Heads(c) \ {l, r}) \cup {add}) /\ y.type[add] = Add
  <2>1. RecordReady(x, Heads(c))
    BY <1>3, <1>4 DEF RecordReady, Recording
  <2> HIDE DEF l, r
  <2> QED  BY <1>12, <1>13, <2>1, NodeRecordGrows DEF add
<1> HIDE DEF y
<1>15. Heads(e) = (Heads(c) \ {l, r}) \cup {add} /\ Recursing(e, y.type, D)
  BY <1>11, <1>14
<1>16. BufTyped(y) /\ Recording(e, y, D)
  <2> HIDE DEF l, r
  <2> QED  BY <1>14, <1>15 DEF RecordThere, Recording
<1>17. Running(v)
  BY <1>1 DEF Running
<1> QED  BY <1>1, <1>4, <1>7, <1>9, <1>10, <1>16, <1>17, StepGood

LEMMA ExportDoneGood ==
  ASSUME ParInv, CompleteInv, RingFits, NEW v \in VM, ExportDone(v), UNCHANGED DEPTH
  PROVE  CompleteInv'
<1> DEFINE x == xbuf[v]  c == ctl[v]  y == EndRecord(x, c.ret)  e == Halted(c)
           h == [heap[v] EXCEPT !.err = 1]  D == DEPTH[host.i]
<1>1. c.pc = "export" /\ c.stack = <<>> /\ Typed
  BY DEF ExportDone, ParInv
<1>2. IsCtl(c) /\ CtlTyped(c) /\ IsBundle(x) /\ BufTyped(x)
  BY VMKnown
<1>3. /\ Recording(c, x, D) /\ D \in Nat \ {0} /\ Leaves[D] \in Nat \ {0} /\ heap[v] \in Heap
  BY <1>1, ExportKnown DEF Unused
<1>4. /\ ctl' = [ctl EXCEPT ![v] = e] /\ heap' = [heap EXCEPT ![v] = h]
      /\ xbuf' = [xbuf EXCEPT ![v] = y] /\ UNCHANGED host
  BY <1>1, Same DEF ExportDone, EndRecord
<1>5. x.cnt = 3 * Leaves[D] - 1 /\ x.pn = Leaves[D] - 1 /\ x.cnt + 1 <= XMAX
  <2>1. x.cnt = RecsOf(D) /\ x.pn = AddsOf(D) /\ host.i \in 1 .. LastVM
    BY <1>1, ExportRuns DEF Partial
  <2>2. RecsOf(D) + 1 <= XMAX
    BY <1>1, <2>1, ExportFits
  <2> QED  BY <2>1, <2>2 DEF RecsOf, AddsOf
<1>6. BufTyped(y) /\ Delivery(y, D)
  <2>1. RecordReady(x, {c.ret}) /\ x.type[c.ret] = Add
    BY <1>1, <1>2, <1>3, LastHead DEF RecordReady, Recording, Recursing
  <2> QED  BY <1>3, <1>5, <2>1, EndRecordPlants
<1>7. Unused(h)
  <2> DEFINE o == heap[v]
  <2>1. o \in Heap /\ h = [o EXCEPT !.err = 1] /\ o.count = 0
    BY <1>1, <1>3, ExportKnown DEF Unused
  <2> HIDE DEF o, h
  <2> QED  BY <2>1, SMTT(40) DEF Heap, Unused
<1>8. e.pc = "halted" /\ CtlTyped(e)
  BY <1>2, HaltedCtl
<1>9. Running(v)
  BY <1>1 DEF Running
<1> HIDE DEF e, h, y
<1> QED  BY <1>1, <1>4, <1>6, <1>7, <1>8, <1>9, StepGood

-----------------------------------------------------------------------------
(* import_entry *)

(* What is known of a VM that imports.                                       *)
LEMMA ImportKnown ==
  ASSUME ParInv, CompleteInv, RingFits, NEW v \in VM, ctl[v].pc \in {"alloc", "remap", "pairs"}
  PROVE  /\ v # 0 /\ Delivery(xbuf[v], DEPTH[v])
         /\ Typed /\ Running(v) /\ IsCtl(ctl[v]) /\ CtlTyped(ctl[v])
         /\ IsBundle(xbuf[v]) /\ BufTyped(xbuf[v])
         /\ DEPTH[v] \in Nat \ {0} /\ Leaves[DEPTH[v]] \in Nat \ {0} /\ 2 * Leaves[DEPTH[v]] <= QSIZE
         /\ Place(v, ctl[v], heap[v], xbuf[v], DEPTH[v])
<1>1. /\ Typed /\ IsCtl(ctl[v]) /\ CtlTyped(ctl[v]) /\ IsBundle(xbuf[v]) /\ BufTyped(xbuf[v])
      /\ DEPTH[v] \in Nat \ {0} /\ Leaves[DEPTH[v]] \in Nat \ {0} /\ 2 * Leaves[DEPTH[v]] <= QSIZE
      /\ Place(v, ctl[v], heap[v], xbuf[v], DEPTH[v])
  BY VMKnown
<1>2. v # 0
  BY <1>1 DEF Place
<1>3. Started(v) /\ Running(v)
  BY StartedRuns
<1>4. Delivered(v)
  BY <1>2, <1>3 DEF Delivered, Started
<1>5. Delivery(xbuf[v], DEPTH[v])
  BY <1>4 DEF CompleteInv, VMGood
<1> QED  BY <1>1, <1>2, <1>3, <1>5

(* A delivered record has a type and its pairs are records.                  *)
LEMMA DeliveredRecords ==
  ASSUME NEW x, IsBundle(x), NEW D, Leaves[D] \in Nat \ {0}, Delivery(x, D)
  PROVE  /\ x.n = 3 * Leaves[D] /\ x.pn = Leaves[D] - 1 /\ x.n <= XMAX /\ x.n \in Nat
         /\ \A k \in 1 .. x.n : k \in RecIdx /\ x.type[k] \in Type
         /\ \A j \in 0 .. x.pn - 1 : x.pair[j] \in 1 .. x.n
<1>1. x.n \in 0 .. XMAX
  BY DEF IsBundle
<1>2. \A k \in 1 .. x.n : k \in RecIdx
  BY <1>1, ParAssumption DEF RecIdx
<1>3. Ids(1, 3 * Leaves[D]) = 1 .. x.n /\ 0 .. Leaves[D] - 2 = 0 .. x.pn - 1
  <2>1. \A n \in Nat : 1 + n - 1 = n
    OBVIOUS
  <2>2. x.n \in Nat /\ x.n = 3 * Leaves[D] /\ x.pn = Leaves[D] - 1
    BY <1>1 DEF Delivery
  <2>3. 1 + x.n - 1 = x.n
    BY <2>1, <2>2
  <2>4. x.pn - 1 = Leaves[D] - 2
    BY <2>2
  <2> QED  BY <2>2, <2>3, <2>4 DEF Ids
<1>4. \A k \in 1 .. x.n : x.type[k] \in Type
  BY <1>3 DEF Delivery, Planted, Sapling
<1>5. \A j \in 0 .. x.pn - 1 : x.pair[j] \in 1 .. x.n
  BY <1>3 DEF Delivery, Planted
<1> QED  BY <1>1, <1>2, <1>4, <1>5 DEF Delivery

(* The program's own variables.                                              *)
MapGiven(c, k, a) == [c EXCEPT !.map[k] = a, !.i = @ + 1]

LEMMA MapGivenCtl ==
  ASSUME NEW c, IsCtl(c), CtlTyped(c), NEW k \in RecIdx, NEW a \in Agent \cup {0},
         NEW e, e = MapGiven(c, k, a)
  PROVE  /\ CtlTyped(e) /\ e.pc = c.pc /\ e.i = c.i + 1
         /\ e.map[k] = a /\ \A j \in RecIdx : j # k => e.map[j] = c.map[j]
<1> DEFINE new == [c.map EXCEPT ![k] = a]  n == c.i + 1
<1>1. e = [c EXCEPT !.map = new, !.i = n]
  BY DEF IsCtl, MapGiven
<1>2. new \in [RecIdx -> Agent \cup {0}] /\ new[k] = a /\ \A j \in RecIdx : j # k => new[j] = c.map[j]
  BY DEF CtlTyped
<1> HIDE DEF new, n
<1>3. e.pc = c.pc /\ e.i = n /\ e.map = new /\ e.slot = c.slot /\ e.ret = c.ret
  BY <1>1 DEF IsCtl
<1> QED  BY <1>2, <1>3 DEF CtlTyped, n

Stepped(c) == [c EXCEPT !.i = @ + 1]

LEMMA SteppedCtl ==
  ASSUME NEW c, IsCtl(c), CtlTyped(c), NEW e, e = Stepped(c)
  PROVE  CtlTyped(e) /\ e.pc = c.pc /\ e.i = c.i + 1 /\ e.map = c.map
<1> DEFINE n == c.i + 1
<1>1. e = [c EXCEPT !.i = n]
  BY DEF IsCtl, Stepped
<1> HIDE DEF n
<1>2. e.pc = c.pc /\ e.i = n /\ e.map = c.map /\ e.slot = c.slot /\ e.ret = c.ret
  BY <1>1 DEF IsCtl
<1> QED  BY <1>2 DEF CtlTyped, n

LEMMA PassedCtl ==
  ASSUME NEW c, IsCtl(c), CtlTyped(c), NEW pc, NEW n, NEW e, e = Passed(c, pc, n)
  PROVE  CtlTyped(e) /\ e.pc = pc /\ e.i = n /\ e.map = c.map
<1>1. e.pc = pc /\ e.i = n /\ e.map = c.map /\ e.slot = c.slot /\ e.ret = c.ret
  BY DEF IsCtl, Passed
<1> QED  BY <1>1 DEF CtlTyped

LEMMA LeakyCtl ==
  ASSUME NEW c, IsCtl(c), CtlTyped(c), NEW pc, NEW n, NEW e, e = Leaky(c, pc, n)
  PROVE  CtlTyped(e) /\ e.pc = pc
<1>1. e.pc = pc /\ e.map = c.map /\ e.slot = c.slot /\ e.ret = c.ret
  BY DEF IsCtl, Leaky
<1> QED  BY <1>1 DEF CtlTyped

(* Pass 1 *)
LEMMA AllocImports ==
  ASSUME NEW c, IsCtl(c), CtlTyped(c), NEW h, NEW x, Importing(c, h, x, c.i, 0, 0), c.i < x.n,
         x.n <= XMAX, x.n \in Nat, x.type[c.i + 1] \in Type, h.free # 0,
         NEW g, g = NewAg(h, x.type[c.i + 1]), NEW e, e = MapGiven(c, c.i + 1, h.free)
  PROVE  CtlTyped(e) /\ e.pc = c.pc /\ Importing(e, g, x, e.i, 0, 0)
<1> DEFINE n == c.i  t == x.type[n + 1]
<1>1. /\ n \in Nat /\ n + 1 <= x.n /\ n + 1 \in RecIdx
  <2>1. n \in Nat
    BY DEF IsCtl
  <2>2. n + 1 <= x.n
    BY <2>1
  <2> QED  BY <2>1, <2>2, ParAssumption DEF RecIdx
<1>2. Seeds(h, n, 0) /\ \A k \in 1 .. n : c.map[k] = AGENTS - 1 + k /\ Types(h)[AGENTS - 1 + k] = x.type[k]
  BY DEF Importing
<1>3. /\ h.free = AGENTS + n /\ AGENTS + n \in Agent
      /\ Seeds(g, n + 1, 0) /\ Types(g) = [Types(h) EXCEPT ![AGENTS + n] = t]
      /\ Types(h) \in [Agent -> 0 .. 4]
  BY <1>2, SeedsNew
<1>4. /\ CtlTyped(e) /\ e.pc = c.pc /\ e.i = n + 1
      /\ e.map[n + 1] = AGENTS + n /\ \A j \in RecIdx : j # n + 1 => e.map[j] = c.map[j]
  <2> DEFINE k == n + 1
  <2>1. k \in RecIdx /\ h.free \in Agent \cup {0} /\ e = MapGiven(c, k, h.free)
    BY <1>1, <1>3
  <2> HIDE DEF k
  <2>2. /\ CtlTyped(e) /\ e.pc = c.pc /\ e.i = c.i + 1
        /\ e.map[k] = h.free /\ \A j \in RecIdx : j # k => e.map[j] = c.map[j]
    BY <2>1, MapGivenCtl
  <2> QED  BY <1>3, <2>2 DEF k
<1>5. \A k \in 1 .. n + 1 : e.map[k] = AGENTS - 1 + k /\ Types(g)[AGENTS - 1 + k] = x.type[k]
  <2> SUFFICES ASSUME NEW k \in 1 .. n + 1
               PROVE  e.map[k] = AGENTS - 1 + k /\ Types(g)[AGENTS - 1 + k] = x.type[k]
    OBVIOUS
  <2>1. AGENTS \in Nat
    BY HeapAssumption
  <2>2. CASE k = n + 1
    <3>1. AGENTS - 1 + k = AGENTS + n
      BY <1>1, <2>1, <2>2
    <3>2. Types(g)[AGENTS + n] = t
      <4> DEFINE T == Types(h)  U == Types(g)  a == AGENTS + n
      <4>1. a \in Agent /\ U = [T EXCEPT ![a] = t] /\ T \in [Agent -> 0 .. 4]
        BY <1>3
      <4> HIDE DEF T, U, a, t
      <4>2. U[a] = t
        BY <4>1
      <4> QED  BY <4>2 DEF U, a
    <3> QED  BY <1>4, <2>2, <3>1, <3>2
  <2>3. CASE k # n + 1
    <3>1. k \in 1 .. n /\ k \in RecIdx
      BY <1>1, <2>3, ParAssumption DEF RecIdx
    <3>2. c.map[k] = AGENTS - 1 + k /\ Types(h)[AGENTS - 1 + k] = x.type[k]
      BY <1>2, <3>1
    <3>3. AGENTS - 1 + k \in Agent /\ AGENTS - 1 + k # AGENTS + n
      BY <1>1, <1>3, <2>1, <3>1, HeapAssumption DEF Agent
    <3>4. Types(g)[AGENTS - 1 + k] = Types(h)[AGENTS - 1 + k]
      <4> DEFINE T == Types(h)  U == Types(g)  a == AGENTS + n  b == AGENTS - 1 + k
      <4>1. a \in Agent /\ U = [T EXCEPT ![a] = t] /\ T \in [Agent -> 0 .. 4] /\ b \in Agent /\ a # b
        BY <1>3, <3>3
      <4> HIDE DEF T, U, a, t, b
      <4>2. U[b] = T[b]
        BY <4>1
      <4> QED  BY <4>2 DEF U, T, b
    <3> QED  BY <1>4, <2>3, <3>1, <3>2, <3>4
  <2> QED  BY <2>2, <2>3
<1>6. Importing(e, g, x, n + 1, 0, 0)
  <2>1. \A k : k \notin 1 .. 0
    OBVIOUS
  <2>2. \A j : j \notin 0 .. 0 - 1
    OBVIOUS
  <2>3. 0 <= x.n /\ 0 <= x.pn
    BY DEF Importing
  <2> QED  BY <1>1, <1>3, <1>5, <2>1, <2>2, <2>3 DEF Importing
<1> QED  BY <1>4, <1>6

LEMMA ImportAllocGood ==
  ASSUME ParInv, CompleteInv, RingFits, NEW v \in VM, ImportAlloc(v), UNCHANGED DEPTH
  PROVE  CompleteInv'
<1> DEFINE h == heap[v]  c == ctl[v]  x == xbuf[v]  D == DEPTH[v]
           g == NewAg(h, x.type[c.i + 1])  e == MapGiven(c, c.i + 1, h.free)
<1>1. c.pc = "alloc" /\ c.i < x.n /\ h.free # 0
  BY DEF ImportAlloc
<1>2. /\ v # 0 /\ Delivery(x, D)
      /\ Typed /\ Running(v) /\ IsCtl(c) /\ CtlTyped(c)
      /\ IsBundle(x) /\ BufTyped(x) /\ Leaves[D] \in Nat \ {0} /\ Place(v, c, h, x, D)
  BY <1>1, ImportKnown
<1>3. x.n <= XMAX /\ x.n \in Nat /\ \A k \in 1 .. x.n : x.type[k] \in Type
  BY <1>2, DeliveredRecords
<1>4. x.type[c.i + 1] \in Type
  <2>1. c.i \in Nat
    BY <1>2 DEF IsCtl
  <2>2. c.i + 1 \in 1 .. x.n
    BY <1>1, <1>3, <2>1
  <2> QED  BY <1>3, <2>2
<1>5. /\ ctl' = [ctl EXCEPT ![v] = e] /\ heap' = [heap EXCEPT ![v] = g]
      /\ xbuf' = [xbuf EXCEPT ![v] = x] /\ UNCHANGED host
  BY <1>2, Same DEF ImportAlloc, MapGiven
<1>6. Importing(c, h, x, c.i, 0, 0)
  BY <1>1, <1>2 DEF Place
<1>7. CtlTyped(e) /\ e.pc = c.pc /\ Importing(e, g, x, e.i, 0, 0)
  BY <1>1, <1>2, <1>3, <1>4, <1>6, AllocImports
<1> HIDE DEF e, g
<1>8. Place(v, e, g, x, D)
  BY <1>1, <1>2, <1>7 DEF Place
<1> QED  BY <1>1, <1>2, <1>5, <1>7, <1>8, StepGood

LEMMA ImportOomGood ==
  ASSUME ParInv, CompleteInv, RingFits, NEW v \in VM, ImportOom(v), UNCHANGED DEPTH
  PROVE  CompleteInv'
<1> DEFINE h == heap[v]  c == ctl[v]  x == xbuf[v]  D == DEPTH[v]  L == Leaves[D]
           g == Oom(h)  e == Halted(c)
<1>1. c.pc = "alloc" /\ c.i < x.n /\ h.free = 0
  BY DEF ImportOom
<1>2. /\ v # 0 /\ Delivery(x, D)
      /\ Typed /\ Running(v) /\ IsCtl(c) /\ CtlTyped(c)
      /\ IsBundle(x) /\ BufTyped(x) /\ L \in Nat \ {0} /\ Place(v, c, h, x, D)
  BY <1>1, ImportKnown
<1>3. Seeds(h, c.i, 0) /\ c.i \in Nat
  BY <1>1, <1>2 DEF Place, Importing, IsCtl
<1>4. /\ ctl' = [ctl EXCEPT ![v] = e] /\ heap' = [heap EXCEPT ![v] = g]
      /\ xbuf' = [xbuf EXCEPT ![v] = x] /\ UNCHANGED host
  BY <1>2, Same DEF ImportOom
<1>5. Ended(g, L)
  <2>1. c.i < 3 * L + 2
    <3>1. x.n = 3 * L
      BY <1>2 DEF Delivery
    <3> HIDE DEF L
    <3> QED  BY <1>1, <1>2, <1>3, <3>1
  <2> HIDE DEF L
  <2> QED  BY <1>1, <1>2, <1>3, <2>1, OomEnds
<1> HIDE DEF g, L
<1>6. e.pc = "halted" /\ CtlTyped(e)
  BY <1>2, HaltedCtl
<1> HIDE DEF e
<1>7. Place(v, e, g, x, D)
  BY <1>5, <1>6 DEF Place, L
<1> QED  BY <1>1, <1>2, <1>4, <1>6, <1>7, StepGood

(* Pass 2 *)
PortsGiven(h, c, x, k) ==
  LET a == c.map[k]
      wired == {j \in 0 .. 2 : x.port[<<k, j>>] # None}
  IN  [p \in Port |-> IF p[1] = a /\ p[2] \in wired THEN Remap(c, x.port[<<k, p[2]>>])
                      ELSE h.port[p]]

Remapped(h, c, x, k, Q) ==
  /\ Q \in [Port -> PortValue]
  /\ \A p \in Port : p[1] # c.map[k] => Q[p] = h.port[p]
  /\ \A j \in 0 .. 2 : <<c.map[k], j>> \in Port /\ x.port[<<k, j>>] # None =>
       Q[<<c.map[k], j>>] = <<c.map[x.port[<<k, j>>][1]], x.port[<<k, j>>][2]>>

LEMMA PortsGivenFacts ==
  ASSUME NEW h \in Heap, NEW c, CtlTyped(c), NEW x, BufTyped(x), NEW k \in RecIdx,
         NEW Q, Q = PortsGiven(h, c, x, k)
  PROVE  Remapped(h, c, x, k, Q)
<1> DEFINE a == c.map[k]  W == {j \in 0 .. 2 : x.port[<<k, j>>] # None}
<1>1. h.port \in [Port -> PortValue]
  BY DEF Heap
<1>2. \A j \in 0 .. 2 : x.port[<<k, j>>] # None => Remap(c, x.port[<<k, j>>]) \in PortValue
  <2> SUFFICES ASSUME NEW j \in 0 .. 2, x.port[<<k, j>>] # None
               PROVE  Remap(c, x.port[<<k, j>>]) \in PortValue
    OBVIOUS
  <2>1. <<k, j>> \in XPort
    BY DEF XPort
  <2>2. x.port[<<k, j>>] \in XPort
    BY <2>1 DEF BufTyped
  <2>3. x.port[<<k, j>>][1] \in RecIdx /\ x.port[<<k, j>>][2] \in 0 .. 2
    BY <2>2 DEF XPort
  <2>4. c.map[x.port[<<k, j>>][1]] \in Agent \cup {0}
    BY <2>3 DEF CtlTyped
  <2> QED  BY <2>3, <2>4 DEF Remap, PortValue
<1>3. Q = [p \in Port |-> IF p[1] = a /\ p[2] \in W THEN Remap(c, x.port[<<k, p[2]>>])
                          ELSE h.port[p]]
  BY DEF PortsGiven
<1>4. \A p \in Port : p[1] \in Agent /\ p[2] \in 0 .. 2 /\ p = <<p[1], p[2]>>
  BY DEF Port
<1>5. \A p \in Port : p[2] \in W => Remap(c, x.port[<<k, p[2]>>]) \in PortValue
  BY <1>2
<1> HIDE DEF a
<1>6. Q \in [Port -> PortValue]
  <2> HIDE DEF W
  <2> QED  BY <1>1, <1>3, <1>5
<1>7. \A p \in Port : p[1] # a => Q[p] = h.port[p]
  BY <1>3
<1>8. \A j \in 0 .. 2 : <<a, j>> \in Port /\ x.port[<<k, j>>] # None =>
        Q[<<a, j>>] = <<c.map[x.port[<<k, j>>][1]], x.port[<<k, j>>][2]>>
  BY <1>3 DEF Remap
<1> QED  BY <1>6, <1>7, <1>8 DEF a, Remapped

LEMMA PortsImport ==
  ASSUME NEW c, IsCtl(c), CtlTyped(c), NEW h, NEW x, BufTyped(x),
         Importing(c, h, x, x.n, c.i, 0), c.i < x.n, x.n <= XMAX, x.n \in Nat,
         NEW g, g = [h EXCEPT !.port = PortsGiven(h, c, x, c.i + 1)], NEW e, e = Stepped(c)
  PROVE  CtlTyped(e) /\ e.pc = c.pc /\ Importing(e, g, x, x.n, e.i, 0)
<1> DEFINE n == c.i  k == n + 1  a == c.map[k]  Q == PortsGiven(h, c, x, k)
<1>1. /\ n \in Nat /\ n + 1 <= x.n /\ k \in RecIdx
  <2>1. n \in Nat
    BY DEF IsCtl
  <2>2. n + 1 <= x.n
    BY <2>1
  <2> QED  BY <2>1, <2>2, ParAssumption DEF RecIdx
<1>2. /\ Seeds(h, x.n, 0)
      /\ \A i \in 1 .. x.n : c.map[i] = AGENTS - 1 + i /\ Types(h)[AGENTS - 1 + i] = x.type[i]
      /\ \A i \in 1 .. n, j \in 0 .. 2 : x.port[<<i, j>>][1] \in 1 .. x.n =>
           h.port[<<AGENTS - 1 + i, j>>] =
             <<AGENTS - 1 + x.port[<<i, j>>][1], x.port[<<i, j>>][2]>>
  BY DEF Importing
<1>3. h \in Heap /\ SoundHeap(h) /\ x.n <= NAGENTS
  BY <1>2, SeedsBeyond DEF Seeds, Pool
<1>4. /\ Q \in [Port -> PortValue]
      /\ \A p \in Port : p[1] # a => Q[p] = h.port[p]
      /\ \A j \in 0 .. 2 : <<a, j>> \in Port /\ x.port[<<k, j>>] # None =>
           Q[<<a, j>>] = <<c.map[x.port[<<k, j>>][1]], x.port[<<k, j>>][2]>>
  <2>1. h \in Heap /\ CtlTyped(c) /\ BufTyped(x) /\ k \in RecIdx /\ Q = PortsGiven(h, c, x, k)
    BY <1>1, <1>3
  <2> HIDE DEF k, Q
  <2>2. Remapped(h, c, x, k, Q)
    BY ONLY <2>1, PortsGivenFacts
  <2> QED  BY <2>2 DEF Remapped
<1> HIDE DEF Q
<1>5. Seeds(g, x.n, 0) /\ Types(g) = Types(h) /\ g.port = Q /\ g.cell = h.cell
  <2>1. g = [h EXCEPT !.port = Q]
    BY DEF Q
  <2>2. /\ g \in Heap /\ g.word = h.word /\ g.free = h.free /\ g.head = h.head /\ g.tail = h.tail
        /\ g.err = h.err /\ g.count = h.count /\ g.port = Q /\ g.cell = h.cell
    BY <1>3, <1>4, <2>1 DEF Heap
  <2>3. SoundHeap(g)
    <3>1. g.head <= g.tail
      BY <1>3, <2>2 DEF SoundHeap
    <3> QED  BY <1>3, <2>2, <3>1, SameList
  <2>4. g.tail = 0
    BY <1>2, <2>2 DEF Seeds
  <2>5. Seeds(g, x.n, 0) /\ Types(g) = Types(h)
    BY <1>2, <2>2, <2>3, <2>4, SeedsSame
  <2> QED  BY <2>2, <2>5
<1>6. CtlTyped(e) /\ e.pc = c.pc /\ e.i = k /\ e.map = c.map
  BY SteppedCtl
<1>7. \A i \in 1 .. x.n, j \in 0 .. 2 : <<AGENTS - 1 + i, j>> \in Port /\ AGENTS - 1 + i \in Nat
  <2> SUFFICES ASSUME NEW i \in 1 .. x.n, NEW j \in 0 .. 2
               PROVE  <<AGENTS - 1 + i, j>> \in Port /\ AGENTS - 1 + i \in Nat
    OBVIOUS
  <2>1. AGENTS - 1 + i \in Agent /\ AGENTS - 1 + i \in Nat
    BY <1>3, HeapAssumption DEF Agent
  <2> QED  BY <2>1 DEF Port
<1>8. ASSUME NEW i \in 1 .. k, NEW j \in 0 .. 2, x.port[<<i, j>>][1] \in 1 .. x.n
      PROVE  Q[<<AGENTS - 1 + i, j>>] =
               <<AGENTS - 1 + x.port[<<i, j>>][1], x.port[<<i, j>>][2]>>
  <2>1. k \in 1 .. x.n /\ i \in 1 .. x.n
    BY <1>1
  <2>2. a = AGENTS - 1 + k
    BY <1>2, <2>1
  <2>3. CASE i = k
    <3>1. <<a, j>> \in Port
      BY <1>7, <2>1, <2>2
    <3>2. x.port[<<k, j>>] # None
      BY <1>8, <2>3 DEF None
    <3>3. Q[<<a, j>>] = <<c.map[x.port[<<k, j>>][1]], x.port[<<k, j>>][2]>>
      BY <1>4, <3>1, <3>2
    <3>4. c.map[x.port[<<k, j>>][1]] = AGENTS - 1 + x.port[<<k, j>>][1]
      BY <1>2, <1>8, <2>3
    <3> QED  BY <2>2, <2>3, <3>3, <3>4
  <2>4. CASE i # k
    <3>1. i \in 1 .. n
      BY <1>1, <2>4
    <3>2. AGENTS - 1 + i # a
      BY <1>1, <2>2, <2>4, <3>1, HeapAssumption
    <3> DEFINE p == <<AGENTS - 1 + i, j>>
    <3>3. p \in Port /\ p[1] # a
      BY <1>7, <2>1, <3>2
    <3>4. Q[p] = h.port[p]
      BY <1>4, <3>3
    <3> QED  BY <1>2, <1>8, <3>1, <3>4
  <2> QED  BY <2>3, <2>4
<1>9. Importing(e, g, x, x.n, k, 0)
  <2>1. \A j : j \notin 0 .. 0 - 1
    OBVIOUS
  <2>2. k <= x.n /\ x.n <= x.n /\ 0 <= x.pn
    BY <1>1 DEF Importing
  <2> HIDE DEF k
  <2> QED  BY <1>2, <1>5, <1>6, <1>8, <2>1, <2>2 DEF Importing
<1> QED  BY <1>6, <1>9

LEMMA ImportPortsGood ==
  ASSUME ParInv, CompleteInv, RingFits, NEW v \in VM, ImportPorts(v), UNCHANGED DEPTH
  PROVE  CompleteInv'
<1> DEFINE h == heap[v]  c == ctl[v]  x == xbuf[v]  D == DEPTH[v]
           P == PortsGiven(h, c, x, c.i + 1)
           g == [h EXCEPT !.port = P]  e == Stepped(c)
<1>1. c.pc = "remap" /\ c.i < x.n
  BY DEF ImportPorts
<1>2. /\ v # 0 /\ Delivery(x, D)
      /\ Typed /\ Running(v) /\ IsCtl(c) /\ CtlTyped(c)
      /\ IsBundle(x) /\ BufTyped(x) /\ Leaves[D] \in Nat \ {0} /\ Place(v, c, h, x, D)
  BY <1>1, ImportKnown
<1>3. x.n <= XMAX /\ x.n \in Nat
  BY <1>2, DeliveredRecords
<1>4. /\ ctl' = [ctl EXCEPT ![v] = e] /\ heap' = [heap EXCEPT ![v] = g]
      /\ xbuf' = [xbuf EXCEPT ![v] = x] /\ UNCHANGED host
  <2>1. heap' = [heap EXCEPT ![v].port = P] /\ ctl' = [ctl EXCEPT ![v].i = @ + 1]
        /\ UNCHANGED <<xbuf, host>>
    BY DEF ImportPorts, PortsGiven
  <2> HIDE DEF P
  <2>2. heap' = [heap EXCEPT ![v] = g]
    BY <2>1
  <2>3. ctl' = [ctl EXCEPT ![v] = e]
    BY <2>1 DEF Stepped
  <2> QED  BY <1>2, <2>1, <2>2, <2>3, Same
<1>5. Importing(c, h, x, x.n, c.i, 0)
  BY <1>1, <1>2 DEF Place
<1>6. CtlTyped(e) /\ e.pc = c.pc /\ Importing(e, g, x, x.n, e.i, 0)
  <2> DEFINE k == c.i + 1
  <2>1. e = Stepped(c) /\ g = [h EXCEPT !.port = PortsGiven(h, c, x, c.i + 1)]
    OBVIOUS
  <2> HIDE DEF e, g, h, c, x
  <2> QED  BY <1>1, <1>2, <1>3, <1>5, <2>1, PortsImport
<1> HIDE DEF e, g
<1>7. Place(v, e, g, x, D)
  BY <1>1, <1>2, <1>6 DEF Place
<1> QED  BY <1>1, <1>2, <1>4, <1>6, <1>7, StepGood

(* Pass 3 *)
LEMMA PairImports ==
  ASSUME NEW c, IsCtl(c), CtlTyped(c), NEW h, NEW x,
         Importing(c, h, x, x.n, x.n, c.i), c.i < x.pn, x.pn <= QSIZE, x.pn \in Nat, x.n \in Nat,
         \A j \in 0 .. x.pn - 1 : x.pair[j] \in 1 .. x.n,
         NEW g, g = Enq(h, c.map[x.pair[c.i]]), NEW e, e = Stepped(c)
  PROVE  CtlTyped(e) /\ e.pc = c.pc /\ Importing(e, g, x, x.n, x.n, e.i)
<1> DEFINE n == c.i  k == x.pair[n]  a == c.map[k]
<1>1. n \in Nat /\ n + 1 <= x.pn /\ n < QSIZE /\ k \in 1 .. x.n
  <2>1. n \in Nat
    BY DEF IsCtl
  <2>2. n + 1 <= x.pn /\ n \in 0 .. x.pn - 1 /\ n < QSIZE
    BY <2>1, HeapAssumption
  <2> QED  BY <2>1, <2>2
<1>2. /\ Seeds(h, x.n, n)
      /\ \A i \in 1 .. x.n : c.map[i] = AGENTS - 1 + i /\ Types(h)[AGENTS - 1 + i] = x.type[i]
      /\ \A i \in 1 .. x.n, j \in 0 .. 2 : x.port[<<i, j>>][1] \in 1 .. x.n =>
           h.port[<<AGENTS - 1 + i, j>>] =
             <<AGENTS - 1 + x.port[<<i, j>>][1], x.port[<<i, j>>][2]>>
      /\ \A j \in 0 .. n - 1 : h.cell[j] = AGENTS - 1 + x.pair[j]
      /\ x.n <= x.n
  BY DEF Importing
<1>3. a = AGENTS - 1 + k /\ a \in Agent
  <2>1. x.n <= NAGENTS /\ a = AGENTS - 1 + k
    BY <1>1, <1>2, SeedsBeyond
  <2> QED  BY <1>1, <2>1, HeapAssumption DEF Agent
<1>4. /\ Seeds(g, x.n, n + 1) /\ Types(g) = Types(h) /\ g.port = h.port
      /\ g.cell = [h.cell EXCEPT ![n % QSIZE] = a] /\ n % QSIZE = n /\ n \in 0 .. QSIZE - 1
      /\ h.cell \in [0 .. QSIZE - 1 -> Agent \cup {0}]
  <2>1. g = Enq(h, a)
    OBVIOUS
  <2> HIDE DEF a
  <2>2. /\ Seeds(g, x.n, n + 1) /\ Types(g) = Types(h) /\ g.port = h.port
        /\ g.cell = [h.cell EXCEPT ![n % QSIZE] = a]
        /\ h.cell \in [0 .. QSIZE - 1 -> Agent \cup {0}]
    <3>1. Seeds(h, x.n, n)
      BY <1>2
    <3> HIDE DEF n
    <3> QED  BY ONLY <1>3, <2>1, <3>1, SeedsEnq
  <2>3. n % QSIZE = n /\ n \in 0 .. QSIZE - 1
    BY <1>1, CellAt
  <2> QED  BY <2>2, <2>3
<1>5. CtlTyped(e) /\ e.pc = c.pc /\ e.i = n + 1 /\ e.map = c.map
  BY SteppedCtl, SMTT(40)
<1>6. \A j \in 0 .. n : g.cell[j] = AGENTS - 1 + x.pair[j]
  <2> DEFINE E == h.cell  F == g.cell  K == 0 .. QSIZE - 1
  <2>1. F = [E EXCEPT ![n] = a] /\ E \in [K -> Agent \cup {0}] /\ n \in K
    BY <1>4
  <2>2. \A j \in 0 .. n : j \in K /\ (j # n => j \in 0 .. n - 1)
    BY <1>1, HeapAssumption
  <2>3. \A j \in 0 .. n - 1 : E[j] = AGENTS - 1 + x.pair[j]
    BY <1>2
  <2> HIDE DEF E, F, K, a
  <2>4. \A j \in K : F[j] = IF j = n THEN a ELSE E[j]
    BY <2>1
  <2>5. \A j \in 0 .. n : F[j] = AGENTS - 1 + x.pair[j]
    BY <1>3, <2>2, <2>3, <2>4
  <2> QED  BY <2>5, SMTT(40) DEF F
<1>7. Importing(e, g, x, x.n, x.n, n + 1)
  <2> DEFINE m == n + 1
  <2>1. \A j \in 0 .. m - 1 : g.cell[j] = AGENTS - 1 + x.pair[j]
    <3>1. m - 1 = n
      BY <1>1, SMTT(40)
    <3> QED  BY <1>6, <3>1
  <2>2. Seeds(g, x.n, m) /\ m <= x.pn /\ x.n <= x.n
    BY <1>1, <1>2, <1>4, SMTT(40)
  <2>3. \A i \in 1 .. x.n : e.map[i] = AGENTS - 1 + i /\ Types(g)[AGENTS - 1 + i] = x.type[i]
    BY <1>2, <1>4, <1>5
  <2>4. ASSUME NEW i \in 1 .. x.n, NEW j \in 0 .. 2, x.port[<<i, j>>][1] \in 1 .. x.n
        PROVE  g.port[<<AGENTS - 1 + i, j>>] =
                 <<AGENTS - 1 + x.port[<<i, j>>][1], x.port[<<i, j>>][2]>>
    <3>1. g.port = h.port
      BY <1>4
    <3>2. h.port[<<AGENTS - 1 + i, j>>] =
            <<AGENTS - 1 + x.port[<<i, j>>][1], x.port[<<i, j>>][2]>>
      BY <1>2, <2>4
    <3> QED  BY <3>1, <3>2, Zenon
  <2> HIDE DEF m
  <2>5. Importing(e, g, x, x.n, x.n, m)
    BY ONLY <2>1, <2>2, <2>3, <2>4 DEF Importing
  <2> QED  BY <2>5, SMTT(40) DEF m
<1> QED  BY <1>5, <1>7

LEMMA ImportPairGood ==
  ASSUME ParInv, CompleteInv, RingFits, NEW v \in VM, ImportPair(v), UNCHANGED DEPTH
  PROVE  CompleteInv'
<1> DEFINE h == heap[v]  c == ctl[v]  x == xbuf[v]  D == DEPTH[v]
           g == Enq(h, c.map[x.pair[c.i]])  e == Stepped(c)
<1>1. c.pc = "pairs" /\ c.i < x.pn
  BY DEF ImportPair
<1>2. /\ v # 0 /\ Delivery(x, D)
      /\ Typed /\ Running(v) /\ IsCtl(c) /\ CtlTyped(c)
      /\ IsBundle(x) /\ BufTyped(x) /\ Leaves[D] \in Nat \ {0} /\ 2 * Leaves[D] <= QSIZE
      /\ Place(v, c, h, x, D)
  BY <1>1, ImportKnown
<1>3. /\ x.n \in Nat /\ x.pn = Leaves[D] - 1
      /\ \A j \in 0 .. x.pn - 1 : x.pair[j] \in 1 .. x.n
  BY <1>2, DeliveredRecords
<1>4. x.pn \in Nat /\ x.pn <= QSIZE
  <2>1. \A l \in Nat \ {0} : 2 * l <= QSIZE => l - 1 \in Nat /\ l - 1 <= QSIZE
    BY HeapAssumption
  <2> QED  BY <1>2, <1>3, <2>1
<1>5. /\ ctl' = [ctl EXCEPT ![v] = e] /\ heap' = [heap EXCEPT ![v] = g]
      /\ xbuf' = [xbuf EXCEPT ![v] = x] /\ UNCHANGED host
  <2>1. heap' = [heap EXCEPT ![v] = g] /\ ctl' = [ctl EXCEPT ![v].i = @ + 1]
        /\ UNCHANGED <<xbuf, host>>
    BY DEF ImportPair
  <2>2. ctl' = [ctl EXCEPT ![v] = e]
    BY <2>1 DEF Stepped
  <2> QED  BY <1>2, <2>1, <2>2, Same
<1>6. Importing(c, h, x, x.n, x.n, c.i)
  BY <1>1, <1>2 DEF Place
<1>7. CtlTyped(e) /\ e.pc = c.pc /\ Importing(e, g, x, x.n, x.n, e.i)
  BY <1>1, <1>2, <1>3, <1>4, <1>6, PairImports
<1> HIDE DEF e, g
<1>8. Place(v, e, g, x, D)
  BY <1>1, <1>2, <1>7 DEF Place
<1> QED  BY <1>1, <1>2, <1>5, <1>7, <1>8, StepGood

-----------------------------------------------------------------------------
(* The passes' ends, and the driver *)

(* Records are numbered from 1, agents from AGENTS.                          *)
LEMMA AgentsOfRecords ==
  ASSUME NEW n \in Nat, NEW f, f = [k \in Nat |-> AGENTS - 1 + k]
  PROVE  Moves(f, Ids(1, n), Ids(AGENTS, n))
<1>1. AGENTS \in Nat /\ AGENTS > 4
  BY HeapAssumption
<1>2. Ids(1, n) = 1 .. n /\ Ids(AGENTS, n) = AGENTS .. AGENTS + n - 1
  <2>1. 1 + n - 1 = n
    OBVIOUS
  <2> QED  BY <2>1 DEF Ids
<1>3. \A a \in 1 .. n : a \in Nat /\ f[a] = AGENTS - 1 + a
  OBVIOUS
<1>4. ASSUME NEW a \in 1 .. n  PROVE f[a] \in AGENTS .. AGENTS + n - 1
  <2>1. AGENTS - 1 + a \in AGENTS .. AGENTS + n - 1
    BY <1>1
  <2> QED  BY <1>3, <2>1
<1>5. ASSUME NEW e \in AGENTS .. AGENTS + n - 1
      PROVE  \E a \in 1 .. n : f[a] = e
  <2>1. e - AGENTS + 1 \in 1 .. n /\ AGENTS - 1 + (e - AGENTS + 1) = e
    BY <1>1
  <2> DEFINE a == e - AGENTS + 1
  <2>2. a \in 1 .. n /\ AGENTS - 1 + a = e
    BY <2>1
  <2> HIDE DEF a
  <2>3. f[a] = e
    BY <1>3, <2>2
  <2> QED  BY <2>2, <2>3
<1>6. ASSUME NEW a \in 1 .. n, NEW c \in 1 .. n
      PROVE  (f[a] = f[c] => a = c) /\ (a < c => f[a] < f[c])
  <2>1. f[a] = AGENTS - 1 + a /\ f[c] = AGENTS - 1 + c /\ a \in Nat /\ c \in Nat
    BY <1>3
  <2> DEFINE i == f[a]  j == f[c]
  <2> HIDE DEF i, j
  <2>2. i = AGENTS - 1 + a /\ j = AGENTS - 1 + c
    BY <2>1 DEF i, j
  <2>3. (i = j => a = c) /\ (a < c => i < j)
    BY ONLY <1>1, <2>1, <2>2
  <2> QED  BY <2>3 DEF i, j
<1> QED  BY <1>2, <1>4, <1>5, <1>6 DEF Moves

(* What was imported is the tree that was planted in the buffer, whether its *)
(* adds are in the ring yet or not.                                          *)
LEMMA ImportPlants ==
  ASSUME NEW c, NEW h, NEW x, NEW q, Importing(c, h, x, x.n, x.n, q),
         NEW D, NEW L \in Nat \ {0}, L = Leaves[D], Delivery(x, D),
         NEW F, \A j \in 0 .. L - 2 : F[j] = AGENTS - 1 + x.pair[j]
  PROVE  Seeds(h, 3 * L, q) /\ Planted(AGENTS, Types(h), h.port, F, L)
<1> DEFINE n == 3 * L  f == [k \in Nat |-> AGENTS - 1 + k]  A == Ids(1, n)
<1>1. x.n = n /\ x.pn = L - 1 /\ Planted(1, x.type, x.port, x.pair, L) /\ n \in Nat
  BY DEF Delivery
<1>2. A = 1 .. n /\ \A k \in A : k \in Nat /\ f[k] = AGENTS - 1 + k
  <2>1. 1 + n - 1 = n
    BY <1>1
  <2> HIDE DEF n
  <2>2. A = 1 .. n
    BY <2>1 DEF Ids
  <2>3. \A k \in 1 .. n : k \in Nat
    OBVIOUS
  <2>4. \A k \in Nat : f[k] = AGENTS - 1 + k
    OBVIOUS
  <2> HIDE DEF f, A
  <2> QED  BY <2>2, <2>3, <2>4
<1>3. Moves(f, A, Ids(AGENTS, n))
  <2> HIDE DEF n, f
  <2> QED  BY <1>1, AgentsOfRecords DEF f
<1>4. /\ Seeds(h, n, q)
      /\ \A k \in 1 .. n : Types(h)[AGENTS - 1 + k] = x.type[k]
      /\ \A k \in 1 .. n, j \in 0 .. 2 : x.port[<<k, j>>][1] \in 1 .. n =>
           h.port[<<AGENTS - 1 + k, j>>] = <<AGENTS - 1 + x.port[<<k, j>>][1], x.port[<<k, j>>][2]>>
  <2> HIDE DEF n
  <2> QED  BY <1>1 DEF Importing
<1>5. Moved(f, A, x.type, x.port, Types(h), h.port)
  <2>1. \A a \in A : Types(h)[f[a]] = x.type[a]
    BY <1>2, <1>4
  <2>2. ASSUME NEW a \in A, NEW j \in Sides, x.port[<<a, j>>][1] \in A
        PROVE  h.port[<<f[a], j>>] = <<f[x.port[<<a, j>>][1]], x.port[<<a, j>>][2]>>
    <3> HIDE DEF n, f, A
    <3>1. /\ a \in 1 .. n /\ j \in 0 .. 2 /\ x.port[<<a, j>>][1] \in 1 .. n
          /\ f[a] = AGENTS - 1 + a
          /\ f[x.port[<<a, j>>][1]] = AGENTS - 1 + x.port[<<a, j>>][1]
      BY <1>2, <2>2 DEF Sides
    <3>2. h.port[<<AGENTS - 1 + a, j>>] =
            <<AGENTS - 1 + x.port[<<a, j>>][1], x.port[<<a, j>>][2]>>
      BY <1>4, <3>1
    <3> QED  BY <3>1, <3>2, Zenon
  <2> HIDE DEF A, f
  <2> QED  BY <2>1, <2>2 DEF Moved
<1>6. Carried(f, L, x.pair, F)
  <2>1. \A j \in 0 .. L - 2 : x.pair[j] \in A
    BY <1>1 DEF Planted
  <2> HIDE DEF f, A
  <2> QED  BY <1>2, <2>1 DEF Carried
<1>7. Planted(AGENTS, Types(h), h.port, F, L)
  <2> DEFINE B == Ids(AGENTS, n)
  <2>1. /\ 1 \in Nat /\ AGENTS \in Nat /\ L \in Nat /\ A = Ids(1, 3 * L) /\ B = Ids(AGENTS, 3 * L)
        /\ Moves(f, A, B) /\ Planted(1, x.type, x.port, x.pair, L)
        /\ Moved(f, A, x.type, x.port, Types(h), h.port) /\ Carried(f, L, x.pair, F)
    BY <1>1, <1>3, <1>5, <1>6, HeapAssumption
  <2> HIDE DEF f, A, B
  <2> QED  BY ONLY <2>1, PlantedMoved
<1> QED  BY <1>4, <1>7

LEMMA ImportDrives ==
  ASSUME NEW c, NEW h, NEW x, Importing(c, h, x, x.n, x.n, x.pn),
         NEW D, NEW L \in Nat \ {0}, L = Leaves[D], 2 * L <= QSIZE, Delivery(x, D)
  PROVE  Driving(h, L)
<1>1. Seeds(h, 3 * L, L - 1) /\ Planted(AGENTS, Types(h), h.port, h.cell, L)
  <2>1. x.pn = L - 1 /\ L - 1 - 1 = L - 2
    BY DEF Delivery
  <2>2. 0 .. x.pn - 1 = 0 .. L - 2
    BY <2>1
  <2>3. \A j \in 0 .. L - 2 : h.cell[j] = AGENTS - 1 + x.pair[j]
    BY <2>2 DEF Importing
  <2>4. Seeds(h, 3 * L, x.pn) /\ Planted(AGENTS, Types(h), h.port, h.cell, L)
    BY ONLY <2>3, ImportPlants, Importing(c, h, x, x.n, x.n, x.pn), L \in Nat \ {0},
            L = Leaves[D], Delivery(x, D)
  <2> QED  BY <2>1, <2>4
<1>2. PICK n0 : n0 = 3 * L
  OBVIOUS
<1>3. PICK m0 : m0 = L - 1
  OBVIOUS
<1>4. Seeds(h, n0, m0)
  BY <1>1, <1>2, <1>3
<1>5. /\ \A a \in Agent : a >= AGENTS + n0 => Types(h)[a] = 0
      /\ n0 \in Nat /\ n0 <= NAGENTS /\ Ids(AGENTS, n0) \subseteq Agent
      /\ Pool(h) /\ h.err = 0 /\ h.count = 0 /\ h.head = 0 /\ h.tail = m0
      /\ Types(h) \in [Agent -> 0 .. 4] /\ h.port \in [Port -> PortValue] /\ h \in Heap
  BY <1>4, SeedsBeyond
<1>6. /\ Pool(h) /\ h.err = 0 /\ h.count = 0 /\ h.head = 0 /\ h.tail \in {L - 1, L}
       /\ 3 * L <= NAGENTS /\ \A a \in Agent : a >= AGENTS + 3 * L => Types(h)[a] = 0
  BY <1>2, <1>3, <1>5
<1> QED  BY <1>1, <1>6, PlantedDrives

LEMMA ImportingMap ==
  ASSUME NEW c, NEW e, e.map = c.map, NEW h, NEW x, NEW a, NEW r, NEW q, Importing(c, h, x, a, r, q)
  PROVE  Importing(e, h, x, a, r, q)
BY DEF Importing

LEMMA PassDoneGood ==
  ASSUME ParInv, CompleteInv, RingFits, NEW v \in VM, PassDone(v), UNCHANGED DEPTH
  PROVE  CompleteInv'
<1> DEFINE h == heap[v]  c == ctl[v]  x == xbuf[v]  D == DEPTH[v]  L == Leaves[D]
           pc == Then(c.pc)  e == Passed(c, pc, 0)
<1>1. c.pc \in {"alloc", "remap", "pairs"} /\ c.i = IF c.pc = "pairs" THEN x.pn ELSE x.n
  BY DEF PassDone
<1>2. /\ v # 0 /\ Delivery(x, D)
      /\ Typed /\ Running(v) /\ IsCtl(c) /\ CtlTyped(c)
      /\ IsBundle(x) /\ BufTyped(x) /\ L \in Nat \ {0} /\ 2 * L <= QSIZE
      /\ Place(v, c, h, x, D)
  BY <1>1, ImportKnown
<1>3. /\ ctl' = [ctl EXCEPT ![v] = e] /\ heap' = [heap EXCEPT ![v] = h]
      /\ xbuf' = [xbuf EXCEPT ![v] = x] /\ UNCHANGED host
  BY <1>2, Same DEF PassDone, Passed
<1>4. CtlTyped(e) /\ e.pc = pc /\ e.i = 0 /\ e.map = c.map
  BY <1>2, PassedCtl
<1> HIDE DEF e, pc
<1>5. Place(v, e, h, x, D)
  <2>1. CASE c.pc = "alloc"
    <3>1. Importing(c, h, x, x.n, 0, 0) /\ pc = "remap"
      BY <1>1, <1>2, <2>1 DEF Place, Then, pc
    <3>2. Importing(e, h, x, x.n, 0, 0)
      BY <1>4, <3>1, ImportingMap
    <3> QED  BY <1>2, <1>4, <3>1, <3>2 DEF Place
  <2>2. CASE c.pc = "remap"
    <3>1. Importing(c, h, x, x.n, x.n, 0) /\ pc = "pairs"
      BY <1>1, <1>2, <2>2 DEF Place, Then, pc
    <3>2. Importing(e, h, x, x.n, x.n, 0)
      BY <1>4, <3>1, ImportingMap
    <3> QED  BY <1>2, <1>4, <3>1, <3>2 DEF Place
  <2>3. CASE c.pc = "pairs"
    <3>1. Importing(c, h, x, x.n, x.n, x.pn) /\ pc = "driver"
      BY <1>1, <1>2, <2>3 DEF Place, Then, pc
    <3>2. L = Leaves[D]
      OBVIOUS
    <3> HIDE DEF L
    <3>3. Driving(h, L)
      BY <1>2, <3>1, <3>2, ImportDrives
    <3> QED  BY <1>4, <3>1, <3>3 DEF Place, L
  <2> QED  BY <1>1, <2>1, <2>2, <2>3
<1>6. c.pc # "export"
  BY <1>1
<1> QED  BY <1>2, <1>3, <1>4, <1>5, <1>6, StepGood

LEMMA DriveGood ==
  ASSUME ParInv, CompleteInv, RingFits, NEW v \in VM, Drive(v), UNCHANGED DEPTH
  PROVE  CompleteInv'
<1> DEFINE h == heap[v]  c == ctl[v]  x == xbuf[v]  D == DEPTH[v]  L == Leaves[D]
           g == Turn(h)  n == c.leaked + TurnLeak(h)
           pc == IF g.err = 0 THEN c.pc ELSE "halted"  e == Leaky(c, pc, n)
<1>1. c.pc = "driver" /\ h.head # h.tail
  BY DEF Drive
<1>2. /\ Typed /\ IsCtl(c) /\ CtlTyped(c) /\ BufTyped(x) /\ L \in Nat \ {0} /\ 2 * L <= QSIZE
      /\ Place(v, c, h, x, D)
  BY <1>1, VMKnown
<1>3. Driving(h, L)
  BY <1>1, <1>2 DEF Place
<1>4. Driving(g, L) \/ (g.err = 2 /\ g.count \in Nat /\ g.count < L /\ Short(L))
  <2> HIDE DEF L
  <2> QED  BY <1>1, <1>2, <1>3, TurnDrives
<1>5. /\ ctl' = [ctl EXCEPT ![v] = e] /\ heap' = [heap EXCEPT ![v] = g]
      /\ xbuf' = [xbuf EXCEPT ![v] = x] /\ UNCHANGED host
  <2> DEFINE b == [ctl[v] EXCEPT !.leaked = @ + TurnLeak(heap[v]),
                                 !.pc = IF Turn(heap[v]).err = 0 THEN @ ELSE "halted"]
  <2>1. b = e
    BY <1>1, <1>2 DEF IsCtl, Leaky
  <2>2. /\ ctl' = [ctl EXCEPT ![v] = b] /\ UNCHANGED <<xbuf, host>>
        /\ heap' = [heap EXCEPT ![v] = g]
    BY DEF Drive
  <2> HIDE DEF b, e, g
  <2> QED  BY <1>2, <2>1, <2>2, Same
<1>6. CtlTyped(e) /\ e.pc = pc
  BY <1>2, LeakyCtl
<1> HIDE DEF g, e, n
<1>7. Place(v, e, g, x, D)
  <2>1. CASE Driving(g, L)
    <3>1. e.pc = "driver"
      BY <1>1, <1>6, <2>1 DEF Driving
    <3> QED  BY <2>1, <3>1 DEF Place
  <2>2. CASE g.err = 2 /\ g.count \in Nat /\ g.count < L /\ Short(L)
    <3>1. e.pc = "halted" /\ Ended(g, L)
      BY <1>6, <2>2 DEF Ended
    <3> QED  BY <3>1 DEF Place
  <2> QED  BY <1>4, <2>1, <2>2
<1>8. Running(v) /\ c.pc # "export"
  BY <1>1 DEF Running
<1> HIDE DEF pc
<1> QED  BY <1>2, <1>5, <1>6, <1>7, <1>8, StepGood

LEMMA DriverDoneGood ==
  ASSUME ParInv, CompleteInv, RingFits, NEW v \in VM, DriverDone(v), UNCHANGED DEPTH
  PROVE  CompleteInv'
<1> DEFINE h == heap[v]  c == ctl[v]  x == xbuf[v]  D == DEPTH[v]  L == Leaves[D]
           n == c.leaked + 1  e == Leaky(c, "halted", n)
<1>1. c.pc = "driver" /\ h.head = h.tail
  BY DEF DriverDone
<1>2. /\ Typed /\ IsCtl(c) /\ CtlTyped(c) /\ BufTyped(x) /\ L \in Nat \ {0}
      /\ Place(v, c, h, x, D)
  BY <1>1, VMKnown
<1>3. Ended(h, L)
  <2>1. Driving(h, L)
    BY <1>1, <1>2 DEF Place
  <2> HIDE DEF L
  <2> QED  BY <1>1, <1>2, <2>1, DrivingEnds
<1>4. /\ ctl' = [ctl EXCEPT ![v] = e] /\ heap' = [heap EXCEPT ![v] = h]
      /\ xbuf' = [xbuf EXCEPT ![v] = x] /\ UNCHANGED host
  <2>1. Halted([ctl[v] EXCEPT !.leaked = @ + 1]) = e
    BY <1>2 DEF Halted, IsCtl, Leaky
  <2>2. /\ ctl' = [ctl EXCEPT ![v] = Halted([ctl[v] EXCEPT !.leaked = @ + 1])]
        /\ UNCHANGED <<heap, xbuf, host>>
    BY DEF DriverDone
  <2> HIDE DEF e
  <2> QED  BY <1>2, <2>1, <2>2, Same
<1>5. CtlTyped(e) /\ e.pc = "halted"
  BY <1>2, LeakyCtl
<1> HIDE DEF e
<1>6. Place(v, e, h, x, D)
  BY <1>3, <1>5 DEF Place
<1>7. Running(v) /\ c.pc # "export"
  BY <1>1 DEF Running
<1> QED  BY <1>2, <1>4, <1>5, <1>6, <1>7, StepGood

-----------------------------------------------------------------------------
(* The host *)

LEMMA EnterCtl ==
  ASSUME NEW c, IsCtl(c), CtlTyped(c), NEW pc, NEW st, NEW e, e = Enter(c, pc, st)
  PROVE  CtlTyped(e) /\ e.pc = pc /\ e.stack = st /\ e.i = 0
<1>1. e.pc = pc /\ e.stack = st /\ e.i = 0 /\ e.map = c.map /\ e.slot = c.slot /\ e.ret = c.ret
  BY DEF IsCtl, Enter
<1> QED  BY <1>1 DEF CtlTyped

(* Nothing is made yet, and no root is held.                                 *)
LEMMA NothingGrown ==
  ASSUME NEW b \in Nat, NEW T, NEW P, NEW E
  PROVE  Grown(b, T, P, {}, 0, 0, E)
<1>1. Ids(b, 0) = {} /\ 0 .. 0 - 1 = {}
  BY DEF Ids
<1>2. \A K : NumOf(Ids(b, 0), T, K) = 0
  BY <1>1, FS_EmptySet DEF NumOf
<1>3. Sapling(Ids(b, 0), T, P, {})
  BY <1>1 DEF Sapling, Ins, Outs
<1> QED  BY <1>1, <1>2, <1>3 DEF Grown

LEMMA FirstRoots ==
  ASSUME NEW c, NEW D \in Nat, c.stack = <<<<D, "call">>>>, NEW T
  PROVE  Heads(c) = {} /\ Recursing(c, T, D)
<1> DEFINE s == c.stack
<1>1. s # <<>> /\ Len(s) = 1 /\ s[1] = <<D, "call">> /\ s[Len(s)] = <<D, "call">>
  OBVIOUS
<1>2. s[1][1] = D /\ s[1][2] = "call" /\ s[Len(s)][2] = "call" /\ D + 1 - 1 = D
  BY <1>1
<1>3. \A i \in 1 .. 1 : i = 1
  OBVIOUS
<1> HIDE DEF s
<1>4. Keys(s) = {}
  BY <1>1, <1>2, <1>3 DEF Keys
<1>5. Levels(s, D)
  BY <1>1, <1>2, <1>3 DEF Levels
<1> QED  BY <1>1, <1>4, <1>5 DEF Heads, Recursing, s

LEMMA ClearedTyped ==
  ASSUME NEW x, IsBundle(x), BufTyped(x), NEW y, y = [x EXCEPT !.cnt = 0, !.pn = 0]
  PROVE  BufTyped(y) /\ y.n = x.n /\ y.type = x.type /\ y.port = x.port /\ y.pair = x.pair
<1>1. y.n = x.n /\ y.type = x.type /\ y.port = x.port /\ y.pair = x.pair
  BY DEF IsBundle
<1> QED  BY <1>1 DEF BufTyped

LEMMA ResetHeap ==
  ASSUME NEW h \in Heap
  PROVE  Unused(Reset(h))
<1>1. Seeds(Reset(h), 0, 0)
  BY SeedsReset
<1>2. Reset(h) \in Heap /\ Reset(h).err = 0 /\ Reset(h).count = 0
  BY <1>1, SeedsBeyond
<1> QED  BY <1>2 DEF Unused

LEMMA HostExportGood ==
  ASSUME ParInv, CompleteInv, RingFits, HostExport, UNCHANGED DEPTH
  PROVE  CompleteInv'
<1>0. PICK v \in VM : v = 0
  BY VMs
<1> DEFINE D == DEPTH[host.i]  s == <<<<D, "call">>>>
           h == Reset(heap[v])  c == Enter(ctl[v], "export", s)
           x == [xbuf[v] EXCEPT !.cnt = 0, !.pn = 0]
<1>1. Typed /\ host.pc = "export" /\ host.i \in 1 .. LastVM
  BY <1>0 DEF ParInv, HostInv, HostExport
<1>2. D \in Nat
  BY <1>1, ExportFits
<1>3. IsCtl(ctl[v]) /\ CtlTyped(ctl[v]) /\ IsBundle(xbuf[v]) /\ BufTyped(xbuf[v])
  BY VMKnown
<1>4. ~Started(v) /\ heap[v] \in Heap
  <2>1. ~Started(v)
    BY <1>1 DEF Started
  <2> QED  BY <2>1 DEF CompleteInv, VMGood, Unused
<1>5. Unused(h)
  BY <1>4, ResetHeap
<1>6. x.cnt = 0 /\ x.pn = 0 /\ BufTyped(x)
  BY <1>3, ClearBundle, ClearedTyped
<1>7. host' = [pc |-> "exporting", i |-> host.i]
  BY <1>1 DEF HostExport, Typed
<1>8. /\ heap' = [heap EXCEPT ![v] = h] /\ ctl' = [ctl EXCEPT ![v] = c]
      /\ xbuf' = [xbuf EXCEPT ![v] = x]
  BY <1>0, <1>1, <1>3 DEF HostExport, ExportEntry, Typed, IsBundle
<1> HIDE DEF x
<1>9. CtlTyped(c) /\ c.pc = "export" /\ c.stack = s
  BY <1>3, EnterCtl
<1> HIDE DEF h, c
<1>10. Recording(c, x, D)
  <2>1. Heads(c) = {} /\ Recursing(c, x.type, D)
    BY <1>2, <1>9, FirstRoots
  <2>2. Grown(1, x.type, x.port, {}, 0, 0, x.pair)
    BY NothingGrown
  <2> QED  BY <1>6, <2>1, <2>2 DEF Recording
<1>11. /\ heap'[v] = h /\ ctl'[v] = c /\ xbuf'[v] = x
       /\ \A w \in VM : w # v => heap'[w] = heap[w] /\ ctl'[w] = ctl[w] /\ xbuf'[w] = xbuf[w]
  BY <1>1, <1>8 DEF Typed
<1>12. HostGood'
  <2>1. host'.pc = "exporting" /\ DEPTH'[host'.i] = D
    BY <1>7
  <2>2. ctl'[0].pc = "export" /\ Recording(ctl'[0], xbuf'[0], DEPTH'[host'.i])
    BY <1>0, <1>9, <1>10, <1>11, <2>1
  <2> QED  BY <2>1, <2>2 DEF HostGood
<1>13. ASSUME NEW w \in VM  PROVE VMGood(w)'
  <2>1. ~Started(w)' /\ ~Started(w) /\ (Delivered(w)' <=> Delivered(w)) /\ ~Delivered(v)'
    BY <1>0, <1>1, <1>7 DEF Started, Delivered
  <2>2. VMGood(w)
    BY DEF CompleteInv
  <2>3. CASE w = v
    BY <1>5, <1>6, <1>9, <1>11, <2>1, <2>3 DEF VMGood
  <2>4. CASE w # v
    <3>1. heap'[w] = heap[w] /\ ctl'[w] = ctl[w] /\ xbuf'[w] = xbuf[w] /\ DEPTH' = DEPTH
      BY <1>11, <2>4
    <3> QED  BY <2>1, <2>2, <3>1 DEF VMGood
  <2> QED  BY <2>3, <2>4
<1> QED  BY <1>12, <1>13 DEF CompleteInv

LEMMA HostStartGood ==
  ASSUME ParInv, CompleteInv, RingFits, NEW v \in VM, HostStart(v), UNCHANGED DEPTH
  PROVE  CompleteInv'
<1> DEFINE pc == IF v = 0 THEN "build" ELSE "alloc"  D == DEPTH[v]
           s  == IF v = 0 THEN <<<<DEPTH[0], "call">>>> ELSE <<>>
           h == Reset(heap[v])  c == Enter(ctl[v], pc, s)
           x0 == [xbuf[v] EXCEPT !.cnt = 0, !.pn = 0]
           x == IF v = 0 THEN x0 ELSE xbuf[v]
           hpc == IF v = LastVM THEN "join" ELSE "start"
<1>1. /\ Typed /\ 0 \in VM /\ v \in 0 .. LastVM
      /\ \/ host.pc = "export" /\ host.i = LastVM + 1 /\ v = 0
         \/ host.pc = "start" /\ host.i = v
  BY VMs DEF ParInv, HostStart
<1>2. /\ IsCtl(ctl[v]) /\ CtlTyped(ctl[v]) /\ IsBundle(xbuf[v]) /\ BufTyped(xbuf[v])
      /\ D \in Nat \ {0}
  BY VMKnown
<1>3. ~Started(v) /\ heap[v] \in Heap
  <2>1. ~Started(v)
    BY <1>1 DEF Started
  <2> QED  BY <2>1 DEF CompleteInv, VMGood, Unused
<1>4. Seeds(h, 0, 0)
  BY <1>3, SeedsReset
<1>5. BufTyped(x) /\ (v # 0 => x = xbuf[v])
  <2>1. BufTyped(x0)
    BY <1>2, ClearedTyped
  <2> HIDE DEF x0
  <2> QED  BY <1>2, <2>1
<1>6. host' = [pc |-> hpc, i |-> v + 1]
  BY DEF HostStart
<1>7. /\ heap' = [heap EXCEPT ![v] = h] /\ ctl' = [ctl EXCEPT ![v] = c]
      /\ xbuf' = [xbuf EXCEPT ![v] = x]
  <2>1. CASE v = 0
    BY <1>1, <1>2, <2>1 DEF HostStart, ReduceEntry, Typed, IsBundle
  <2>2. CASE v # 0
    BY <1>1, <2>2, Same DEF HostStart, ImportEntry
  <2> QED  BY <2>1, <2>2
<1> HIDE DEF x
<1>8. /\ hpc \in {"join", "start"} /\ (hpc = "join" <=> v = LastVM)
      /\ (v = 0 => pc = "build" /\ s = <<<<D, "call">>>>) /\ (v # 0 => pc = "alloc")
  OBVIOUS
<1> HIDE DEF s, pc, hpc
<1>9. CtlTyped(c) /\ c.pc = pc /\ c.stack = s /\ c.i = 0
  BY <1>2, EnterCtl
<1> HIDE DEF h, c
<1>10. Place(v, c, h, x, D)
  <2>1. CASE v = 0
    <3>1. Partial(c.stack, [cnt |-> 0, pn |-> 0], D)
      BY <1>2, <1>8, <1>9, <2>1, FirstFrame
    <3>2. Heads(c) = {} /\ Recursing(c, Types(h), D)
      BY <1>2, <1>8, <1>9, <2>1, FirstRoots
    <3>3. Grown(AGENTS, Types(h), h.port, {}, 0, 0, h.cell)
      BY NothingGrown, HeapAssumption
    <3>4. Building(c, h, D)
      BY <1>4, <3>1, <3>2, <3>3 DEF Building
    <3> QED  BY <1>8, <1>9, <2>1, <3>4 DEF Place
  <2>2. CASE v # 0
    <3>1. Delivered(v)
      BY <1>1, <2>2 DEF Delivered
    <3>2. Delivery(x, D)
      BY <1>5, <2>2, <3>1 DEF CompleteInv, VMGood
    <3>3. x.n \in Nat /\ x.pn \in Nat
      BY <1>2, <1>5, <2>2 DEF IsBundle
    <3>4. Importing(c, h, x, 0, 0, 0)
      <4>1. 1 .. 0 = {} /\ 0 .. 0 - 1 = {} /\ 0 <= x.n /\ 0 <= x.pn
        BY <3>3
      <4> QED  BY <1>4, <4>1 DEF Importing
    <3> QED  BY <1>8, <1>9, <2>2, <3>4 DEF Place
  <2> QED  BY <2>1, <2>2
<1>11. /\ heap'[v] = h /\ ctl'[v] = c /\ xbuf'[v] = x
       /\ \A w \in VM : w # v => heap'[w] = heap[w] /\ ctl'[w] = ctl[w] /\ xbuf'[w] = xbuf[w]
  BY <1>1, <1>7 DEF Typed
<1>12. HostGood'
  BY <1>6, <1>8 DEF HostGood
<1>13. ASSUME NEW w \in VM  PROVE VMGood(w)'
  <2>0. w \in 0 .. LastVM
    BY VMs
  <2>1. Started(w)' <=> w <= v
    BY <1>1, <1>6, <1>8, <2>0 DEF Started
  <2>2. Started(w) <=> w < v
    BY <1>1, <2>0, VMs DEF Started
  <2>3. (Delivered(w)' <=> w # 0) /\ (Delivered(w) <=> w # 0)
    <3>1. Delivered(w)' <=> w # 0
      BY <1>6, <1>8 DEF Delivered
    <3>2. Delivered(w) <=> w # 0
      BY <1>1, <2>0, VMs DEF Delivered
    <3> QED  BY <3>1, <3>2
  <2>4. VMGood(w)
    BY DEF CompleteInv
  <2>5. CASE w = v
    <3>1. Started(v)'
      BY <1>1, <2>1, <2>5
    <3>2. Delivered(v)' => Delivery(x, D)
      BY <1>5, <2>3, <2>4, <2>5 DEF VMGood
    <3>3. xbuf'[v] = x /\ heap'[v] = h /\ ctl'[v] = c /\ DEPTH'[v] = D
      BY <1>11
    <3> HIDE DEF D
    <3> QED  BY <1>5, <1>9, <1>10, <2>5, <3>1, <3>2, <3>3 DEF VMGood
  <2>6. CASE w # v
    <3>1. Started(w)' <=> Started(w)
      BY <1>1, <2>0, <2>1, <2>2, <2>6
    <3>2. heap'[w] = heap[w] /\ ctl'[w] = ctl[w] /\ xbuf'[w] = xbuf[w] /\ DEPTH' = DEPTH
      BY <1>11, <2>6
    <3> QED  BY <2>3, <2>4, <3>1, <3>2 DEF VMGood
  <2> QED  BY <2>5, <2>6
<1> QED  BY <1>12, <1>13 DEF CompleteInv

-----------------------------------------------------------------------------
(* The total of the host. *)

(* t adds up the first n values of f.                                        *)
Totals(t, f, n) ==
  t \in [0 .. n -> Nat] /\ t[0] = 0 /\ \A k \in 1 .. n : t[k] = t[k - 1] + f[k - 1]

LEMMA TotalsGoOn ==
  ASSUME NEW n \in 1 .. LastVM + 1, NEW f \in [VM -> Nat], NEW t, Totals(t, f, n - 1)
  PROVE  \E u : Totals(u, f, n)
<1> DEFINE u == [k \in 0 .. n |-> IF k = n THEN t[n - 1] + f[n - 1] ELSE t[k]]
<1>1. /\ n - 1 \in VM /\ n \in Nat \ {0} /\ n - 1 \in 0 .. n - 1
      /\ \A k \in 0 .. n : k # n => k \in 0 .. n - 1
  BY VMs
<1>2. f[n - 1] \in Nat /\ t[n - 1] \in Nat
  BY <1>1 DEF Totals
<1>3. u \in [0 .. n -> Nat]
  BY <1>1, <1>2 DEF Totals
<1>4. u[n] = t[n - 1] + f[n - 1] /\ \A k \in 0 .. n - 1 : u[k] = t[k]
  BY <1>1
<1> HIDE DEF u
<1>5. ASSUME NEW k \in 1 .. n  PROVE u[k] = u[k - 1] + f[k - 1]
  <2>1. k - 1 \in 0 .. n - 1
    BY <1>1
  <2>2. CASE k = n
    BY <1>4, <2>1, <2>2
  <2>3. CASE k # n
    <3>1. k \in 1 .. n - 1 /\ k \in 0 .. n - 1
      BY <1>1, <2>3
    <3> QED  BY <1>4, <2>1, <3>1 DEF Totals
  <2> QED  BY <2>2, <2>3
<1>6. u[0] = 0
  <2>1. 0 \in 0 .. n - 1
    BY <1>1
  <2> QED  BY <1>4, <2>1 DEF Totals
<1>7. Totals(u, f, n)
  BY <1>3, <1>5, <1>6 DEF Totals
<1> QED  BY <1>7

LEMMA TotalsExist ==
  ASSUME NEW f \in [VM -> Nat]
  PROVE  \E t : Totals(t, f, LastVM + 1)
<1> DEFINE N == LastVM + 1  Bad == {n \in 0 .. N : ~ \E t : Totals(t, f, n)}
<1>1. N \in Nat \ {0}
  BY VMs
<1>2. ASSUME Bad # {}  PROVE FALSE
  <2>1. PICK n \in Bad : \A m \in Bad : n <= m
    <3>1. Bad \in SUBSET Nat
      BY <1>1
    <3> HIDE DEF Bad
    <3> QED  BY <1>2, <3>1, LeastNat
  <2>2. n # 0
    <3>1. Totals([k \in 0 .. 0 |-> 0], f, 0)
      BY DEF Totals
    <3> QED  BY <2>1, <3>1
  <2>3. n \in 1 .. N /\ n - 1 \in 0 .. N /\ n - 1 \notin Bad
    BY <1>1, <2>1, <2>2
  <2>4. PICK t : Totals(t, f, n - 1)
    BY <2>3
  <2> QED  BY <2>1, <2>3, <2>4, TotalsGoOn
<1>3. N \in 0 .. N
  BY <1>1
<1> QED  BY <1>2, <1>3

LEMMA AddedUpTotals ==
  ASSUME NEW f \in [VM -> Nat]
  PROVE  \E t : Totals(t, f, LastVM + 1) /\ AddedUp(f) = t[LastVM + 1]
<1> DEFINE N == LastVM + 1
           Rec(s) == [n \in 0 .. LastVM + 1 |-> IF n = 0 THEN 0 ELSE s[n - 1] + f[n - 1]]
           u == CHOOSE s : s = Rec(s)
<1>1. N \in Nat \ {0}
  BY VMs
<1>2. PICK t : Totals(t, f, N)
  BY TotalsExist
<1>3. t = Rec(t)
  <2>1. t = [n \in 0 .. N |-> t[n]]
    BY <1>2 DEF Totals
  <2>2. \A n \in 0 .. N : t[n] = IF n = 0 THEN 0 ELSE t[n - 1] + f[n - 1]
    <3>1. \A n \in 0 .. N : n = 0 \/ n \in 1 .. N
      BY <1>1
    <3> QED  BY <1>2, <3>1 DEF Totals
  <2> QED  BY <2>1, <2>2
<1>4. AddedUp(f) = u[N]
  BY Zenon DEF AddedUp
<1>5. u = Rec(u)
  BY <1>3, Zenon
<1> HIDE DEF u
<1>6. \A n \in 0 .. N : u[n] = IF n = 0 THEN 0 ELSE u[n - 1] + f[n - 1]
  BY <1>5
<1>7. /\ \A n \in 1 .. N : u[n] = u[n - 1] + f[n - 1] /\ n - 1 \in 0 .. N
      /\ u[0] = 0
  <2>1. 0 \in 0 .. N /\ \A n \in 1 .. N : n \in 0 .. N /\ n # 0 /\ n - 1 \in 0 .. N
    BY <1>1
  <2> QED  BY <1>6, <2>1
<1> HIDE DEF N
<1>8. \A n \in 0 .. N : u[n] = t[n]
  <2> DEFINE Bad == {n \in 0 .. N : u[n] # t[n]}
  <2>1. ASSUME Bad # {}  PROVE FALSE
    <3>1. PICK n \in Bad : \A m \in Bad : n <= m
      <4>1. Bad \in SUBSET Nat
        BY <1>1
      <4> HIDE DEF Bad
      <4> QED  BY <2>1, <4>1, LeastNat
    <3>2. n # 0
      BY <1>2, <1>7, <3>1 DEF Totals
    <3>3. n \in 1 .. N /\ n - 1 \in 0 .. N /\ n - 1 \notin Bad
      BY <1>1, <3>1, <3>2
    <3>4. u[n - 1] = t[n - 1]
      BY <3>3
    <3> QED  BY <1>2, <1>7, <3>1, <3>3, <3>4 DEF Totals
  <2> QED  BY <2>1
<1>9. N \in 0 .. N
  BY <1>1
<1>10. AddedUp(f) = t[N]
  BY <1>4, <1>8, <1>9
<1> QED  BY <1>2, <1>10 DEF N

(* No count is above the expected one: the totals are the same when all      *)
(* counts are, and only then.                                                *)
LEMMA TotalsCompare ==
  ASSUME NEW f \in [VM -> Nat], NEW g \in [VM -> Nat], \A v \in VM : f[v] <= g[v]
  PROVE  AddedUp(f) = AddedUp(g) <=> \A v \in VM : f[v] = g[v]
<1> DEFINE N == LastVM + 1
<1>1. N \in Nat \ {0} /\ VM = 0 .. N - 1
  BY VMs
<1>2. PICK s : Totals(s, f, N) /\ AddedUp(f) = s[N]
  BY AddedUpTotals
<1>3. PICK t : Totals(t, g, N) /\ AddedUp(g) = t[N]
  BY AddedUpTotals
<1> HIDE DEF N
<1>4. /\ s \in [0 .. N -> Nat] /\ t \in [0 .. N -> Nat] /\ s[0] = 0 /\ t[0] = 0
      /\ \A n \in 1 .. N : n - 1 \in VM /\ n - 1 \in 0 .. N /\ n \in 0 .. N
      /\ \A n \in 1 .. N : s[n] = s[n - 1] + f[n - 1] /\ t[n] = t[n - 1] + g[n - 1]
  BY <1>1, <1>2, <1>3 DEF Totals
<1>5. \A n \in 0 .. N : s[n] <= t[n] /\ (s[n] = t[n] <=> \A v \in 0 .. n - 1 : f[v] = g[v])
  <2> DEFINE Ok(n) == s[n] <= t[n] /\ (s[n] = t[n] <=> \A v \in 0 .. n - 1 : f[v] = g[v])
             Bad == {n \in 0 .. N : ~Ok(n)}
  <2>1. ASSUME Bad # {}  PROVE FALSE
    <3>1. PICK n \in Bad : \A m \in Bad : n <= m
      <4>1. Bad \in SUBSET Nat
        BY <1>1
      <4> HIDE DEF Bad
      <4> QED  BY <2>1, <4>1, LeastNat
    <3>2. n # 0
      <4>1. 0 .. 0 - 1 = {}
        OBVIOUS
      <4> QED  BY <1>4, <3>1, <4>1
    <3>3. n \in 1 .. N /\ n - 1 \in 0 .. N /\ n - 1 \notin Bad
      BY <1>1, <3>1, <3>2, SMTT(40)
    <3>4. s[n - 1] <= t[n - 1] /\ (s[n - 1] = t[n - 1] <=> \A v \in 0 .. (n - 1) - 1 : f[v] = g[v])
      BY <3>3
    <3>5. /\ s[n - 1] \in Nat /\ t[n - 1] \in Nat /\ f[n - 1] \in Nat /\ g[n - 1] \in Nat
          /\ f[n - 1] <= g[n - 1] /\ s[n] = s[n - 1] + f[n - 1] /\ t[n] = t[n - 1] + g[n - 1]
      BY <1>4, <3>3
    <3>6. s[n] <= t[n] /\ (s[n] = t[n] <=> s[n - 1] = t[n - 1] /\ f[n - 1] = g[n - 1])
      BY <3>4, <3>5
    <3>7. (\A v \in 0 .. n - 1 : f[v] = g[v])
            <=> (\A v \in 0 .. (n - 1) - 1 : f[v] = g[v]) /\ f[n - 1] = g[n - 1]
      <4>1. \A v : v \in 0 .. n - 1 <=> v \in 0 .. (n - 1) - 1 \/ v = n - 1
        BY <1>1, <3>3
      <4> QED  BY <4>1
    <3>8. Ok(n)
      BY <3>4, <3>6, <3>7
    <3> QED  BY <3>1, <3>8
  <2> QED  BY <2>1
<1>6. N \in 0 .. N
  BY <1>1
<1> QED  BY <1>1, <1>2, <1>3, <1>5, <1>6

(* Counts and errors of the VMs at the host's join.                          *)
LEMMA HostJoinGood ==
  ASSUME ParInv, CompleteInv, RingFits, HostJoin, UNCHANGED DEPTH
  PROVE  CompleteInv'
<1> DEFINE count == [v \in VM |-> heap[v].count]  expect == [v \in VM |-> Leaves[DEPTH[v]]]
<1>1. /\ host.pc = "join" /\ UNCHANGED <<heap, ctl, xbuf, DEPTH>>
      /\ \A v \in VM : ~Running(v)
      /\ host' = [pc |-> IF AddedUp(count) = AddedUp(expect) THEN "ok" ELSE "failed", i |-> 0]
  BY DEF HostJoin
<1>2. ASSUME NEW v \in VM
      PROVE  ctl[v].pc = "halted" /\ Ended(heap[v], Leaves[DEPTH[v]]) /\ Leaves[DEPTH[v]] \in Nat
  <2>1. Started(v)
    BY <1>1 DEF Started
  <2>2. ctl[v].pc = "halted"
    BY <1>1, <2>1 DEF Running, ParInv, VMInv
  <2>3. Leaves[DEPTH[v]] \in Nat
    BY VMKnown
  <2> QED  BY <2>1, <2>2, <2>3 DEF CompleteInv, VMGood, Place
<1>3. /\ count \in [VM -> Nat] /\ expect \in [VM -> Nat] /\ \A v \in VM : count[v] <= expect[v]
      /\ \A v \in VM : (count[v] = expect[v] <=> heap[v].err = 0) /\ heap[v].err \in {0, 2}
  <2>1. ASSUME NEW v \in VM
        PROVE  /\ heap[v].count \in Nat /\ Leaves[DEPTH[v]] \in Nat
               /\ heap[v].count <= Leaves[DEPTH[v]] /\ heap[v].err \in {0, 2}
               /\ heap[v].count = Leaves[DEPTH[v]] <=> heap[v].err = 0
    BY <1>2 DEF Ended
  <2> QED  BY <2>1
<1> HIDE DEF count, expect
<1>4. AddedUp(count) = AddedUp(expect) <=> \A v \in VM : count[v] = expect[v]
  BY <1>3, TotalsCompare
<1>5. HostGood'
  <2>1. CASE AddedUp(count) = AddedUp(expect)
    <3>1. \A v \in VM : heap[v].err = 0
      BY <1>3, <1>4, <2>1
    <3>2. host'.pc = "ok"
      BY <1>1, <2>1
    <3> QED  BY <1>1, <1>2, <3>1, <3>2 DEF HostGood
  <2>2. CASE AddedUp(count) # AddedUp(expect)
    <3>1. \E v \in VM : heap[v].err = 2
      BY <1>3, <1>4, <2>2
    <3>2. host'.pc = "failed"
      BY <1>1, <2>2
    <3> QED  BY <1>1, <1>2, <3>1, <3>2 DEF HostGood
  <2> QED  BY <2>1, <2>2
<1>6. ASSUME NEW v \in VM  PROVE VMGood(v)'
  <2>1. host'.pc \in {"ok", "failed"}
    BY <1>1
  <2>2. (Started(v)' <=> Started(v)) /\ (Delivered(v)' <=> Delivered(v))
    BY <1>1, <2>1 DEF Started, Delivered
  <2>3. VMGood(v)
    BY DEF CompleteInv
  <2> QED  BY <1>1, <2>2, <2>3 DEF VMGood
<1> QED  BY <1>5, <1>6 DEF CompleteInv

-----------------------------------------------------------------------------
(* The copy, the start and the theorems. *)

(* A copy record by record is planted as the original is.                    *)
LEMMA PlantedCopied ==
  ASSUME NEW L \in Nat, NEW T, NEW P, NEW E, Planted(1, T, P, E, L),
         NEW U, \A k \in 1 .. 3 * L : U[k] = T[k],
         NEW Q, \A k \in 1 .. 3 * L, j \in Sides : Q[<<k, j>>] = P[<<k, j>>] /\ P[<<k, j>>] \in Nat \X (0 .. 2)
  PROVE  Planted(1, U, Q, E, L)
<1> DEFINE A == Ids(1, 3 * L)  f == [k \in Nat |-> k]
<1>1. PICK n : n = 3 * L
  OBVIOUS
<1>2. n \in Nat /\ 1 + n - 1 = n
  BY <1>1
<1>3. A = 1 .. n
  BY <1>1, <1>2 DEF Ids
<1>4. \A k \in A : k \in Nat /\ f[k] = k
  <2>1. \A k \in Nat : f[k] = k
    OBVIOUS
  <2> HIDE DEF f, A
  <2>2. \A k \in A : k \in Nat
    BY <1>2, <1>3
  <2> QED  BY <2>1, <2>2
<1> HIDE DEF f
<1>5. Moves(f, A, A)
  <2> HIDE DEF A
  <2> QED  BY <1>4 DEF Moves
<1>6. Moved(f, A, T, P, U, Q)
  <2>1. \A k \in A : U[f[k]] = T[k]
    BY <1>1, <1>3, <1>4
  <2>2. ASSUME NEW k \in A, NEW j \in Sides, P[<<k, j>>][1] \in A
        PROVE  Q[<<f[k], j>>] = <<f[P[<<k, j>>][1]], P[<<k, j>>][2]>>
    <3> HIDE DEF A
    <3>1. Q[<<k, j>>] = P[<<k, j>>] /\ P[<<k, j>>] \in Nat \X (0 .. 2)
      BY <1>1, <1>3
    <3>2. f[k] = k /\ f[P[<<k, j>>][1]] = P[<<k, j>>][1]
      BY <1>4, <2>2
    <3>3. P[<<k, j>>] = <<P[<<k, j>>][1], P[<<k, j>>][2]>>
      BY <3>1
    <3> QED  BY <3>1, <3>2, <3>3
  <2> HIDE DEF A
  <2> QED  BY <2>1, <2>2 DEF Moved
<1>7. Carried(f, L, E, E)
  <2>1. \A j \in 0 .. L - 2 : E[j] \in A
    BY DEF Planted
  <2> HIDE DEF A
  <2> QED  BY <1>4, <2>1 DEF Carried
<1>8. 1 \in Nat /\ A = Ids(1, 3 * L) /\ L \in Nat
  OBVIOUS
<1>9. Planted(1, T, P, E, L)
  OBVIOUS
<1> HIDE DEF A
<1> QED  BY ONLY <1>5, <1>6, <1>7, <1>8, <1>9, PlantedMoved

LEMMA CopiedDelivery ==
  ASSUME NEW x, IsBundle(x), BufTyped(x), NEW D, Leaves[D] \in Nat \ {0}, Delivery(x, D),
         NEW y, IsBundle(y), BufTyped(y), NEW z, z = Copied(x, y)
  PROVE  BufTyped(z) /\ Delivery(z, D)
<1> DEFINE T == [k \in RecIdx |-> IF k <= x.n THEN x.type[k] ELSE y.type[k]]
           P == [p \in XPort |-> IF p[1] <= x.n THEN x.port[p] ELSE y.port[p]]
           L == Leaves[D]
<1>1. z = [y EXCEPT !.n = x.n, !.pn = x.pn, !.pair = x.pair, !.type = T, !.port = P]
  <2>1. y.type = y.type /\ DOMAIN y = {"cnt", "n", "pn", "pair", "type", "port"}
    BY DEF IsBundle
  <2> QED  BY <2>1 DEF Copied, IsBundle
<1>2. /\ P \in [XPort -> XPort \cup {None}]
      /\ \A k \in RecIdx : k <= x.n => T[k] = x.type[k]
      /\ \A p \in XPort : p[1] <= x.n => P[p] = x.port[p]
  BY DEF BufTyped
<1> HIDE DEF T, P
<1>3. y = [cnt |-> y.cnt, n |-> y.n, pn |-> y.pn, pair |-> y.pair, type |-> y.type,
           port |-> y.port]
  BY DEF IsBundle
<1>4. z.n = x.n /\ z.pn = x.pn /\ z.pair = x.pair /\ z.type = T /\ z.port = P
  BY <1>1, <1>3
<1>5. BufTyped(z)
  BY <1>2, <1>4 DEF BufTyped
<1>6. x.n = 3 * L /\ x.pn = L - 1 /\ Planted(1, x.type, x.port, x.pair, L) /\ L \in Nat \ {0}
      /\ \A k \in 1 .. x.n : k \in RecIdx /\ k <= x.n
  <2>1. x.n \in 0 .. XMAX
    BY DEF IsBundle
  <2>2. \A k \in 1 .. x.n : k \in RecIdx /\ k <= x.n
    BY <2>1, ParAssumption DEF RecIdx
  <2> QED  BY <2>2 DEF Delivery
<1> HIDE DEF L
<1>7. \A k \in 1 .. 3 * L : T[k] = x.type[k]
  BY <1>2, <1>6
<1>8. ASSUME NEW k \in 1 .. 3 * L, NEW j \in Sides
      PROVE  P[<<k, j>>] = x.port[<<k, j>>] /\ x.port[<<k, j>>] \in Nat \X (0 .. 2)
  <2>1. k \in RecIdx /\ k <= x.n /\ j \in 0 .. 2
    BY <1>6 DEF Sides
  <2>2. <<k, j>> \in XPort /\ <<k, j>>[1] = k
    BY <2>1 DEF XPort
  <2>3. XPort \cup {None} \subseteq Nat \X (0 .. 2)
    BY ParAssumption DEF XPort, RecIdx, None
  <2>4. x.port[<<k, j>>] \in XPort \cup {None}
    BY <2>2 DEF BufTyped
  <2>5. P[<<k, j>>] = x.port[<<k, j>>]
    BY <1>2, <2>1, <2>2
  <2> QED  BY <2>3, <2>4, <2>5
<1>9. Planted(1, T, P, x.pair, L)
  BY <1>6, <1>7, <1>8, PlantedCopied
<1>10. Delivery(z, D)
  BY <1>4, <1>6, <1>9 DEF Delivery, L
<1> QED  BY <1>5, <1>10

LEMMA HostCopyGood ==
  ASSUME ParInv, CompleteInv, RingFits, HostCopy, UNCHANGED DEPTH
  PROVE  CompleteInv'
<1> DEFINE x == xbuf[0]  i == host.i  y == xbuf[i]  z == Copied(x, y)  D == DEPTH[i]
<1>1. 0 \in VM /\ Typed /\ host.pc = "exporting" /\ i \in 1 .. LastVM /\ i \in VM
  BY VMs, ExportFits DEF ParInv, HostInv, HostCopy
<1>2. ctl[0].pc = "halted" /\ heap[0].err = 1
  BY <1>1 DEF ParInv, HostInv, HostCopy, Exporting, Running
<1>3. /\ host' = [pc |-> "export", i |-> i + 1] /\ xbuf' = [xbuf EXCEPT ![i] = z]
      /\ UNCHANGED <<heap, ctl>>
  BY <1>2 DEF HostCopy, Copied
<1>4. /\ IsBundle(x) /\ BufTyped(x) /\ IsBundle(y) /\ BufTyped(y)
      /\ Leaves[D] \in Nat \ {0}
  BY <1>1, VMKnown
<1>5. Delivery(x, D)
  BY <1>1, <1>2 DEF CompleteInv, HostGood
<1>6. BufTyped(z) /\ Delivery(z, D)
  BY <1>4, <1>5, CopiedDelivery
<1> HIDE DEF z
<1>7. xbuf'[i] = z /\ \A w \in VM : w # i => xbuf'[w] = xbuf[w]
  BY <1>1, <1>3 DEF Typed
<1>8. HostGood'
  BY <1>3 DEF HostGood
<1>9. ASSUME NEW w \in VM  PROVE VMGood(w)'
  <2>0. w \in 0 .. LastVM
    BY VMs
  <2>1. ~Started(w)' /\ ~Started(w)
    BY <1>1, <1>3 DEF Started
  <2>2. (Delivered(w)' <=> w # 0 /\ w < i + 1) /\ (Delivered(w) <=> w # 0 /\ w < i)
    <3>1. host'.pc = "export" /\ host'.i = i + 1
      BY <1>3
    <3>2. w \in Nat /\ i \in Nat /\ i + 1 \in Nat
      BY <1>1, <2>0, VMs
    <3>3. Delivered(w) <=> w # 0 /\ ~(w >= i)
      BY <1>1 DEF Delivered
    <3>4. Delivered(w)' <=> w # 0 /\ ~(w >= i + 1)
      BY <3>1 DEF Delivered
    <3> HIDE DEF i
    <3> QED  BY <3>2, <3>3, <3>4
  <2>3. VMGood(w)
    BY DEF CompleteInv
  <2>4. CtlTyped(ctl'[w]) /\ Unused(heap'[w])
    BY <1>3, <2>1, <2>3 DEF VMGood
  <2>5. CASE w = i
    <3>1. BufTyped(xbuf'[w]) /\ Delivery(xbuf'[w], DEPTH'[w])
      BY <1>6, <1>7, <2>5
    <3> QED  BY <2>1, <2>4, <3>1 DEF VMGood
  <2>6. CASE w # i
    <3>1. Delivered(w)' => Delivered(w)
      BY <1>1, <2>0, <2>2, <2>6
    <3>2. xbuf'[w] = xbuf[w]
      BY <1>7, <2>6
    <3> QED  BY <2>1, <2>3, <2>4, <3>1, <3>2 DEF VMGood
  <2> QED  BY <2>5, <2>6
<1> QED  BY <1>8, <1>9 DEF CompleteInv

LEMMA CompleteInit == Init => CompleteInv
<1> SUFFICES ASSUME Init  PROVE CompleteInv
  OBVIOUS
<1>1. CtlTyped(Idle)
  <2>1. 0 \in Nat
    OBVIOUS
  <2>2. /\ Idle.slot = [d \in Slots |-> [l |-> 0, r |-> 0]] /\ Idle.ret = 0
        /\ Idle.map = [i \in RecIdx |-> 0]
    BY DEF Idle
  <2> QED  BY <2>1, <2>2 DEF CtlTyped
<1>2. BufTyped(EmptyBundle)
  <2>1. 0 \in 0 .. XMAX
    BY ParAssumption
  <2> QED  BY <2>1 DEF BufTyped, EmptyBundle
<1>3. Unused(ZeroHeap)
  BY ZeroHeapTyped DEF ZeroHeap, Unused
<1>4. host.pc = "export" /\ host.i = 1
  BY DEF Init
<1>5. ASSUME NEW v \in VM  PROVE VMGood(v)
  <2>1. v \in Nat /\ ~Started(v)
    BY <1>4, VMs DEF Started
  <2>2. ~Delivered(v)
    BY <1>4, <2>1 DEF Delivered
  <2>3. heap[v] = ZeroHeap /\ ctl[v] = Idle /\ xbuf[v] = EmptyBundle
    BY DEF Init
  <2> QED  BY <1>1, <1>2, <1>3, <2>1, <2>2, <2>3 DEF VMGood
<1>6. HostGood
  BY <1>4 DEF HostGood
<1> QED  BY <1>5, <1>6 DEF CompleteInv

LEMMA CompleteNext == ParInv /\ CompleteInv /\ RingFits /\ [Next]_vars => CompleteInv'
<1> SUFFICES ASSUME ParInv, CompleteInv, RingFits, [Next]_vars  PROVE CompleteInv'
  OBVIOUS
<1>1. CASE UNCHANGED vars
  <2>1. UNCHANGED <<DEPTH, heap, ctl, xbuf, host>>
    BY <1>1 DEF vars
  <2>2. HostGood'
    BY <2>1 DEF CompleteInv, HostGood, Recording
  <2>3. ASSUME NEW v \in VM  PROVE VMGood(v)'
    BY <2>1 DEF CompleteInv, VMGood, Started, Delivered
  <2> QED  BY <2>2, <2>3 DEF CompleteInv
<1>2. CASE Host /\ UNCHANGED DEPTH
  BY <1>2, HostExportGood, HostCopyGood, HostStartGood, HostJoinGood DEF Host
<1>3. CASE (\E v \in VM : Step(v)) /\ UNCHANGED DEPTH
  <2>1. PICK v \in VM : Step(v)
    BY <1>3
  <2>2. CASE CallLeft(v) \/ CallRight(v)
    BY <1>3, <2>2, CallLeftGood, CallRightGood
  <2>3. CASE BuildLeaf(v) \/ BuildNode(v) \/ BuildRoot(v) \/ BuildOom(v)
    BY <1>3, <2>3, BuildLeafGood, BuildNodeGood, BuildRootGood, BuildOomGood
  <2>4. CASE ExportLeaf(v) \/ ExportNode(v) \/ ExportDone(v)
    BY <1>3, <2>4, ExportLeafGood, ExportNodeGood, ExportDoneGood
  <2>5. CASE ImportAlloc(v) \/ ImportOom(v) \/ ImportPorts(v) \/ ImportPair(v) \/ PassDone(v)
    BY <1>3, <2>5, ImportAllocGood, ImportOomGood, ImportPortsGood, ImportPairGood, PassDoneGood
  <2>6. CASE Drive(v) \/ DriverDone(v)
    BY <1>3, <2>6, DriveGood, DriverDoneGood
  <2> QED  BY <2>1, <2>2, <2>3, <2>4, <2>5, <2>6 DEF Step
<1> QED  BY <1>1, <1>2, <1>3 DEF Next

LEMMA CompleteInvariant == RingFits => (Spec => []CompleteInv)
<1> SUFFICES ASSUME RingFits  PROVE Spec => []CompleteInv
  OBVIOUS
<1>1. ParInv /\ CompleteInv /\ [Next]_vars => CompleteInv'
  BY CompleteNext
<1> QED  BY <1>1, CompleteInit, ParInvariant, PTL DEF Spec

(* A VM that has not halted, or has nothing left, has had no error.          *)
LEMMA ErrorsEnd ==
  ASSUME CompleteInv, NEW v \in VM
  PROVE  heap[v].err < 2 \/ Short(Leaves[DEPTH[v]])
<1> DEFINE h == heap[v]  c == ctl[v]  L == Leaves[DEPTH[v]]
<1>1. CASE ~Started(v)
  BY <1>1 DEF CompleteInv, VMGood, Unused
<1>2. CASE Started(v)
  <2>1. Place(v, c, h, xbuf[v], DEPTH[v])
    BY <1>2 DEF CompleteInv, VMGood
  <2>2. \A n, m : Seeds(h, n, m) => h.err = 0
    BY DEF Seeds
  <2>3. CASE c.pc = "build"
    <3>1. \E n, m \in Nat : Seeds(h, n, m)
      BY <2>1, <2>3 DEF Place, Building
    <3> QED  BY <2>2, <3>1
  <2>4. CASE c.pc \in {"alloc", "remap", "pairs"}
    <3>1. \E n, m : Seeds(h, n, m)
      BY <2>1, <2>4 DEF Place, Importing
    <3> QED  BY <2>2, <3>1
  <2>5. CASE c.pc = "driver"
    BY <2>1, <2>5 DEF Place, Driving
  <2>6. CASE c.pc \notin {"build", "alloc", "remap", "pairs", "driver"}
    BY <2>1, <2>6 DEF Place, Ended
  <2> QED  BY <2>3, <2>4, <2>5, <2>6
<1> QED  BY <1>1, <1>2

(* A run the host accepts has reduced every tree to nothing and ended on no  *)
(* error, whatever the number of VMs, their depths, the size of the pool and *)
(* the interleaving: a VM that ran out of agents has counted less than its   *)
(* leaves, no VM counts more, and so no total hides it.                      *)
THEOREM AcceptedRunsAreComplete == RingFits => (Spec => []AcceptedIsComplete)
<1> SUFFICES ASSUME RingFits  PROVE Spec => []AcceptedIsComplete
  OBVIOUS
<1>1. CompleteInv => AcceptedIsComplete
  <2> SUFFICES ASSUME CompleteInv, host.pc = "ok", NEW v \in VM
               PROVE  heap[v].err = 0 /\ LiveAgents(heap[v]) = {}
    BY DEF AcceptedIsComplete
  <2>1. Started(v) /\ ctl[v].pc = "halted" /\ heap[v].err = 0
    BY DEF CompleteInv, HostGood, Started
  <2>2. Ended(heap[v], Leaves[DEPTH[v]])
    BY <2>1 DEF CompleteInv, VMGood, Place
  <2> QED  BY <2>1, <2>2 DEF Ended
<1> QED  BY <1>1, CompleteInvariant, PTL

(* With the blocks of each VM's tree and two more no VM runs out of agents   *)
(* or meets a pair without a rule, and the host accepts.                     *)
THEOREM EnoughIsAccepted == RingFits => (Spec => []EnoughAccepted)
<1> SUFFICES ASSUME RingFits  PROVE Spec => []EnoughAccepted
  OBVIOUS
<1>1. ParInv /\ CompleteInv => EnoughAccepted
  <2> SUFFICES ASSUME ParInv, CompleteInv, Enough
               PROVE  host.pc # "failed" /\ \A v \in VM : heap[v].err < 2
    BY DEF EnoughAccepted
  <2>1. ASSUME NEW v \in VM  PROVE heap[v].err < 2
    <3>1. PICK L : L = Leaves[DEPTH[v]]
      OBVIOUS
    <3>2. L \in Nat
      <4>1. DEPTH[v] \in Nat
        BY ParAssumption DEF ParInv, Typed
      <4> QED  BY <3>1, <4>1, LeavesDouble
    <3>3. NAGENTS >= 3 * L + 2
      BY <3>1 DEF Enough, TreeSize
    <3>4. ~Short(L)
      BY <3>2, <3>3, HeapAssumption DEF Short
    <3> QED  BY <3>1, <3>4, ErrorsEnd
  <2>2. host.pc # "failed"
    <3>1. host.pc = "failed" => \E v \in VM : heap[v].err = 2
      BY DEF CompleteInv, HostGood
    <3>2. ~(2 < 2)
      OBVIOUS
    <3> QED  BY <2>1, <3>1, <3>2
  <2> QED  BY <2>1, <2>2
<1> QED  BY <1>1, CompleteInvariant, ParInvariant, PTL

-----------------------------------------------------------------------------
(* The nets. Each VM's heap is a net from the root's end, or from the pairs  *)
(* of the bundle, on; each of its steps is one of the net, or none.          *)

(* InetNet counts with the same Cardinality.                                *)
LEMMA NetsCardinality == \A v, n, S : Net(v, n)!Cardinality(S) = Cardinality(S)
BY DEF Net!Cardinality, Cardinality

(* The state of the net a heap stands for, r telling whether there is one.   *)
NetOf(r, h) ==
  <<IF r THEN [a \in Agent |-> IF Live(h, a) THEN h.word[a] ELSE 0] ELSE [a \in Agent |-> 0],
    IF r THEN {{p, h.port[p]} : p \in UsedPorts(h)} ELSE {}, h.count, r>>

LEMMA NetIs ==
  ASSUME NEW v, NEW n
  PROVE  /\ Net(v, n)!vars = NetOf(Reducing(v), heap[v])
         /\ Net(v, n)!vars' = NetOf(Reducing(v)', heap'[v])
<1>1. Net(v, n)!vars = NetOf(Reducing(v), heap[v])
  BY DEF Net!vars, NetOf
<1>2. Net(v, n)!vars' = NetOf(Reducing(v)', heap'[v])
  BY DEF Net!vars, NetOf, Reducing, Started
<1> QED  BY <1>1, <1>2

(* No step of the net: the heap keeps its agents, cells and count, ...       *)
LEMMA NetKept ==
  ASSUME NEW v, NEW n, Reducing(v)' <=> Reducing(v), heap'[v].word = heap[v].word,
         heap'[v].port = heap[v].port, heap'[v].count = heap[v].count
  PROVE  UNCHANGED Net(v, n)!vars
<1> DEFINE h == heap[v]  g == heap'[v]
<1>1. /\ \A a : Live(g, a) <=> Live(h, a)
      /\ UsedPorts(g) = UsedPorts(h)
  BY DEF Live, UsedPorts
<1>2. /\ {{p, g.port[p]} : p \in UsedPorts(g)} = {{p, h.port[p]} : p \in UsedPorts(h)}
      /\ [a \in Agent |-> IF Live(g, a) THEN g.word[a] ELSE 0]
           = [a \in Agent |-> IF Live(h, a) THEN h.word[a] ELSE 0]
  BY <1>1
<1>3. Reducing(v)' = Reducing(v)
  BY DEF Reducing, Started
<1>4. NetOf(Reducing(v)', g) = NetOf(Reducing(v), h)
  BY <1>2, <1>3 DEF NetOf
<1> QED  BY <1>4, NetIs

(* ... or there is no net yet, and nothing counted.                          *)
Early(v) == ~Started(v) \/ ctl[v].pc \in {"build", "alloc", "remap"}

LEMMA NothingBefore ==
  ASSUME CompleteInv, NEW v \in VM, Early(v)
  PROVE  ~Reducing(v) /\ heap[v].count = 0
<1>1. CASE ~Started(v)
  BY <1>1 DEF CompleteInv, VMGood, Unused, Reducing
<1>2. CASE Started(v) /\ ctl[v].pc \in {"build", "alloc", "remap"}
  <2>1. Place(v, ctl[v], heap[v], xbuf[v], DEPTH[v])
    BY <1>2 DEF CompleteInv, VMGood
  <2>2. \E n, m : Seeds(heap[v], n, m)
    BY <1>2, <2>1 DEF Place, Building, Importing
  <2> QED  BY <1>2, <2>2 DEF Seeds, Reducing
<1> QED  BY <1>1, <1>2 DEF Early

LEMMA NothingBeforeNext ==
  (CompleteInv => \A v \in VM : Early(v) => ~Reducing(v) /\ heap[v].count = 0)'
<1>1. CompleteInv => \A v \in VM : Early(v) => ~Reducing(v) /\ heap[v].count = 0
  BY NothingBefore
<1> QED  BY <1>1, PTL

LEMMA NetNotYet ==
  ASSUME CompleteInv, CompleteInv', NEW v \in VM, NEW n, Early(v), Early(v)'
  PROVE  UNCHANGED Net(v, n)!vars
<1>1. ~Reducing(v) /\ heap[v].count = 0
  BY NothingBefore
<1>2. ~Reducing(v)' /\ heap'[v].count = 0
  BY NothingBeforeNext
<1>3. NetOf(Reducing(v)', heap'[v]) = NetOf(Reducing(v), heap[v])
  <2>1. Reducing(v) = FALSE /\ Reducing(v)' = FALSE
    BY <1>1, <1>2 DEF Reducing, Started
  <2> QED  BY <1>1, <1>2, <2>1 DEF NetOf
<1> QED  BY <1>3, NetIs

(* A planted tree is a well-wired net of one end and its leaves' add1.        *)
LEMMA PlantedLoads ==
  ASSUME NEW g, NEW L \in Nat \ {0}, NEW q, Seeds(g, 3 * L, q),
         NEW F, Planted(AGENTS, Types(g), g.port, F, L)
  PROVE  /\ UNION Net1(g) = Ports(Types(g))
         /\ \A w \in Net1(g) : Cardinality(w) = 2
         /\ \A e, w \in Net1(g) : e \cap w # {} => e = w
         /\ Cardinality({a \in Agent : Types(g)[a] = Add1}) = L
         /\ Cardinality({a \in Agent : Types(g)[a] = End}) = 1
<1>1. PICK T, P, n0 : T = Types(g) /\ P = g.port /\ n0 = 3 * L
  OBVIOUS
<1>2. Seeds(g, n0, q)
  BY <1>1
<1>3. /\ \A a \in Agent : a >= AGENTS + n0 => T[a] = 0
      /\ n0 <= NAGENTS /\ T \in [Agent -> 0 .. 4] /\ P \in [Port -> PortValue]
  BY <1>1, <1>2, SeedsBeyond
<1>4. Planted(AGENTS, T, P, F, L)
  BY <1>1
<1>5. /\ 3 * L <= NAGENTS /\ \A a \in Agent : a >= AGENTS + 3 * L => T[a] = 0
  BY <1>1, <1>3
<1>6. /\ \E r : Flow(T, P, {}, r)
      /\ Add1s(T) = L /\ Cardinality({a \in Agent : T[a] = End}) = 1
  BY <1>3, <1>4, <1>5, PlantedFlows
<1>7. PICK W : W = WiresOf(T, P)
  OBVIOUS
<1>8. /\ \A w \in W : Cardinality(w) = 2
      /\ UNION W = Ports(T)
      /\ \A e, w \in W : e \cap w # {} => e = w
  BY <1>6, <1>7, WiresArePairs
<1>9. W = Net1(g)
  BY <1>1, <1>7 DEF Net1
<1> QED  BY <1>1, <1>6, <1>8, <1>9 DEF Add1s

(* The step that completes the net makes it appear.                         *)
LEMMA NetLoads ==
  ASSUME NEW v, NEW n, NEW L \in Nat \ {0}, L = Leaves[n], ~Reducing(v), Reducing(v)',
         NEW q, Seeds(heap'[v], 3 * L, q), NEW F,
         Planted(AGENTS, Types(heap'[v]), heap'[v].port, F, L)
  PROVE  Net(v, n)!Load
<1> DEFINE g == heap'[v]  T == Types(g)  W == Net1(g)
<1>1. SoundHeap(g)
  BY DEF Seeds, Pool
<1>2. T \in [Agent -> 0 .. 4]
  BY <1>1, TypesFacts
<1>3. /\ {{p, g.port[p]} : p \in UsedPorts(g)} = W
      /\ [a \in Agent |-> IF Live(g, a) THEN g.word[a] ELSE 0] = T
  BY <1>1, HeapPorts
<1>4. /\ UNION W = Ports(T)
      /\ \A w \in W : Cardinality(w) = 2
      /\ \A e, w \in W : e \cap w # {} => e = w
      /\ Cardinality({a \in Agent : T[a] = Add1}) = L
      /\ Cardinality({a \in Agent : T[a] = End}) = 1
  BY PlantedLoads
<1>5. ~Reducing(v) /\ Reducing(v)' /\ g.count = 0
  BY DEF Seeds
<1>6. UNION {{<<a, i>> : i \in 0 .. Net(v, n)!Arity[T[a]] - 1} : a \in {a \in Agent : T[a] # 0}}
        = Ports(T)
  <2> DEFINE A == Net(v, n)!Arity
  <2>1. A[Zero] = 1 /\ A[End] = 1 /\ A[Add1] = 2 /\ A[Add] = 3
    BY DEF Net!Arity, Net!Zero, Net!Add1, Net!Add, Net!End, Zero, Add1, Add, End
  <2> HIDE DEF A, T
  <2>2. UNION {{<<a, i>> : i \in 0 .. A[T[a]] - 1} : a \in {a \in Agent : T[a] # 0}} = Ports(T)
    BY <1>2, <2>1, NetPorts
  <2> QED  BY <2>2 DEF A
<1> HIDE DEF T, W
<1>7. Net(v, n)!WellWired'
  <2>1. (Net(v, n)!Members)' = {a \in Agent : T[a] # 0}
    BY <1>3, <1>5 DEF Net!Members
  <2>2. \A a : Net(v, n)!PortsOf(a)' = {<<a, i>> : i \in 0 .. Net(v, n)!Arity[T[a]] - 1}
    BY <1>3, <1>5 DEF Net!PortsOf
  <2>3. (UNION {Net(v, n)!PortsOf(a) : a \in Net(v, n)!Members})' = Ports(T)
    BY <1>6, <2>1, <2>2
  <2> QED  BY <1>3, <1>4, <1>5, <2>3, NetsCardinality DEF Net!WellWired
<1>8. Cardinality(Net(v, n)!Of(Net(v, n)!Add1)') = L /\ Cardinality(Net(v, n)!Of(Net(v, n)!End)') = 1
  BY <1>3, <1>4, <1>5 DEF Net!Of, Net!Add1, Net!End, Add1, End
<1> QED  BY <1>5, <1>7, <1>8, NetsCardinality DEF Net!Load

(* A turn of the driver is an interaction.                                  *)
LEMMA NetInteracts ==
  ASSUME NEW v, NEW n, NEW a \in Agent, NEW b \in Agent, Reducing(v), Reducing(v)',
         SoundHeap(heap[v]), SoundHeap(heap'[v]),
         Interaction(Types(heap[v]), Net1(heap[v]), heap[v].count,
                     Types(heap'[v]), Net1(heap'[v]), heap'[v].count, a, b)
  PROVE  Net(v, n)!Interact
<1> DEFINE h == heap[v]  g == heap'[v]  T == Types(h)  U == Types(g)  W == Net1(h)  V == Net1(g)
<1>1. /\ {{p, h.port[p]} : p \in UsedPorts(h)} = W
      /\ [e \in Agent |-> IF Live(h, e) THEN h.word[e] ELSE 0] = T
      /\ {{p, g.port[p]} : p \in UsedPorts(g)} = V
      /\ [e \in Agent |-> IF Live(g, e) THEN g.word[e] ELSE 0] = U
  BY HeapPorts
<1>2. Reducing(v) /\ Reducing(v)'
  OBVIOUS
<1>3. Interaction(T, W, h.count, U, V, g.count, a, b)
  OBVIOUS
<1> HIDE DEF T, U, W, V
<1>4. UNCHANGED Reducing(v)
  BY <1>2 DEF Reducing, Started
<1>5. /\ Net(v, n)!Without(a, b) = Apart(W, {a, b})
      /\ \A p : Net(v, n)!Other(p) = Far(W, p)
      /\ Net(v, n)!Members = {e \in Agent : T[e] # 0}
  BY <1>1, <1>2 DEF Net!Without, Net!Other, Net!Members, Apart, Far
<1>6. \A t, u : Net(v, n)!Cell(a, t, b, u) <=> T[a] = t /\ T[b] = u /\ {<<a, 0>>, <<b, 0>>} \in W
  BY <1>1, <1>2 DEF Net!Cell
<1>7. Net(v, n)!Zero = Zero /\ Net(v, n)!Add1 = Add1 /\ Net(v, n)!Add = Add /\ Net(v, n)!End = End
  BY DEF Net!Zero, Net!Add1, Net!Add, Net!End, Zero, Add1, Add, End
<1>8. CASE /\ T[a] = Add /\ T[b] = Zero /\ g.count = h.count
           /\ U = [T EXCEPT ![a] = 0, ![b] = 0]
           /\ V = Apart(W, {a, b}) \cup {{Far(W, <<a, 1>>), Far(W, <<a, 2>>)}}
  <2>1. {<<a, 0>>, <<b, 0>>} \in W
    BY <1>3 DEF Interaction
  <2>2. Net(v, n)!AddZero(a, b)
    BY <1>1, <1>2, <1>4, <1>5, <1>6, <1>7, <1>8, <2>1 DEF Net!AddZero
  <2> QED  BY <1>2, <2>2 DEF Net!Interact
<1>9. CASE /\ T[a] = Add /\ T[b] = Add1 /\ g.count = h.count
           /\ \E c, d \in {e \in Agent : T[e] = 0} :
                /\ c # d
                /\ U = [[T EXCEPT ![a] = 0, ![b] = 0] EXCEPT ![c] = Add1, ![d] = Add]
                /\ V = Apart(W, {a, b}) \cup
                         {{<<c, 0>>, Far(W, <<a, 2>>)}, {<<d, 0>>, Far(W, <<b, 1>>)},
                          {<<d, 1>>, Far(W, <<a, 1>>)}, {<<c, 1>>, <<d, 2>>}}
  <2>1. {<<a, 0>>, <<b, 0>>} \in W
    BY <1>3 DEF Interaction
  <2>2. Net(v, n)!AddAdd1(a, b)
    <3>1. PICK c \in Agent, d \in Agent :
            /\ T[c] = 0 /\ T[d] = 0 /\ c # d
            /\ U = [[T EXCEPT ![a] = 0, ![b] = 0] EXCEPT ![c] = Add1, ![d] = Add]
            /\ V = Apart(W, {a, b}) \cup
                     {{<<c, 0>>, Far(W, <<a, 2>>)}, {<<d, 0>>, Far(W, <<b, 1>>)},
                      {<<d, 1>>, Far(W, <<a, 1>>)}, {<<c, 1>>, <<d, 2>>}}
      BY <1>9
    <3>2. c \in (Agent \ Net(v, n)!Members) \cup {a, b} /\ d \in (Agent \ Net(v, n)!Members) \cup {a, b}
      BY <1>5, <3>1
    <3>3. Net(v, n)!Cell(a, Net(v, n)!Add, b, Net(v, n)!Add1)
      BY <1>6, <1>7, <1>9, <2>1
    <3>4. UNCHANGED <<h.count, Reducing(v)>>
      BY <1>4, <1>9
    <3>5. U = [[T EXCEPT ![a] = 0, ![b] = 0] EXCEPT ![c] = Net(v, n)!Add1, ![d] = Net(v, n)!Add]
      BY <1>7, <3>1
    <3>6. V = Net(v, n)!Without(a, b) \cup
                {{<<c, 0>>, Net(v, n)!Other(<<a, 2>>)}, {<<d, 0>>, Net(v, n)!Other(<<b, 1>>)},
                 {<<d, 1>>, Net(v, n)!Other(<<a, 1>>)}, {<<c, 1>>, <<d, 2>>}}
      <4>1. /\ Net(v, n)!Other(<<a, 1>>) = Far(W, <<a, 1>>)
            /\ Net(v, n)!Other(<<a, 2>>) = Far(W, <<a, 2>>)
            /\ Net(v, n)!Other(<<b, 1>>) = Far(W, <<b, 1>>)
            /\ Net(v, n)!Without(a, b) = Apart(W, {a, b})
        BY <1>5
      <4> QED  BY <4>1, <3>1
    <3> DEFINE C == (Agent \ Net(v, n)!Members) \cup {a, b}
    <3>7. c \in C /\ d \in C /\ c # d
      BY <3>1, <3>2
    <3> HIDE DEF C
    <3>8. \E x \in C, y \in C :
            /\ x # y
            /\ U = [[T EXCEPT ![a] = 0, ![b] = 0] EXCEPT ![x] = Net(v, n)!Add1, ![y] = Net(v, n)!Add]
            /\ V = Net(v, n)!Without(a, b) \cup
                     {{<<x, 0>>, Net(v, n)!Other(<<a, 2>>)}, {<<y, 0>>, Net(v, n)!Other(<<b, 1>>)},
                      {<<y, 1>>, Net(v, n)!Other(<<a, 1>>)}, {<<x, 1>>, <<y, 2>>}}
      BY <3>5, <3>6, <3>7
    <3> QED  BY <1>1, <1>2, <3>3, <3>4, <3>8 DEF Net!AddAdd1, C
  <2> QED  BY <1>2, <2>2 DEF Net!Interact
<1>10. CASE /\ T[a] = End /\ T[b] = Add1 /\ g.count = h.count + 1
            /\ U = [T EXCEPT ![b] = 0]
            /\ V = Apart(W, {a, b}) \cup {{<<a, 0>>, Far(W, <<b, 1>>)}}
  <2>1. {<<a, 0>>, <<b, 0>>} \in W
    BY <1>3 DEF Interaction
  <2>2. Net(v, n)!EndAdd1(a, b)
    BY <1>1, <1>2, <1>4, <1>5, <1>6, <1>7, <1>10, <2>1 DEF Net!EndAdd1
  <2> QED  BY <1>2, <2>2 DEF Net!Interact
<1>11. CASE /\ T[a] = End /\ T[b] = Zero /\ g.count = h.count
            /\ U = [T EXCEPT ![a] = 0, ![b] = 0]
            /\ V = Apart(W, {a, b})
  <2>1. {<<a, 0>>, <<b, 0>>} \in W
    BY <1>3 DEF Interaction
  <2>2. Net(v, n)!EndZero(a, b)
    BY <1>1, <1>2, <1>4, <1>5, <1>6, <1>7, <1>11, <2>1 DEF Net!EndZero
  <2> QED  BY <1>2, <2>2 DEF Net!Interact
<1> QED  BY <1>3, <1>8, <1>9, <1>10, <1>11 DEF Interaction

(* A VM whose heap and place no step changes.                               *)
LEMMA NetUntouched ==
  ASSUME NEW v, NEW n, heap'[v] = heap[v], ctl'[v] = ctl[v], Started(v)' <=> Started(v)
  PROVE  UNCHANGED Net(v, n)!vars
<1>1. Reducing(v)' <=> Reducing(v)
  BY DEF Reducing
<1> QED  BY <1>1, NetKept

(* A step of the recursion, of the build or of the first passes is before    *)
(* the net; a halt for want of agents is left out.                           *)
LEMMA EarlyStep ==
  ASSUME ParInv, NEW v \in VM, heap'[v].err # 2,
         \/ CallLeft(v) \/ CallRight(v) \/ BuildLeaf(v) \/ BuildNode(v) \/ BuildOom(v)
         \/ ExportLeaf(v) \/ ExportNode(v) \/ ExportDone(v)
         \/ ImportAlloc(v) \/ ImportOom(v) \/ ImportPorts(v)
  PROVE  Early(v) /\ Early(v)'
<1>1. /\ Typed /\ IsCtl(ctl[v]) /\ IsHeap(heap[v])
  BY Same DEF ParInv
<1>2. Started(v)' <=> Started(v)
  BY DEF Started, CallLeft, CallRight, BuildLeaf, BuildNode, BuildOom, ExportLeaf, ExportNode,
         ExportDone, ImportAlloc, ImportOom, ImportPorts
<1>3. ASSUME ctl[v].pc = "export"  PROVE ~Started(v)
  BY <1>3 DEF ParInv, VMInv
<1>4. CASE CallLeft(v) \/ CallRight(v)
  <2>1. ctl[v].pc \in {"export", "build"}
    BY <1>4 DEF CallLeft, CallRight
  <2>2. ctl'[v].pc = ctl[v].pc
    <3>1. \A c, at, d : IsCtl(c) => Called(Waiting(c, at), d).pc = c.pc
      BY DEF Called, Waiting, IsCtl
    <3>2. CASE CallLeft(v)
      BY <1>1, <3>1, <3>2 DEF CallLeft, Typed
    <3>3. CASE CallRight(v)
      <4>1. PICK c, d : c = [ctl[v] EXCEPT !.slot[d].l = ctl[v].ret] /\ d = Frame(v)[1]
        OBVIOUS
      <4>2. ctl' = [ctl EXCEPT ![v] = Called(Waiting(c, "right"), d - 1)]
        BY <3>3, <4>1 DEF CallRight
      <4>3. IsCtl(c) /\ c.pc = ctl[v].pc
        BY <1>1, <4>1 DEF IsCtl
      <4> QED  BY <1>1, <3>1, <4>2, <4>3 DEF Typed
    <3> QED  BY <1>4, <3>2, <3>3
  <2> QED  BY <1>2, <1>3, <2>1, <2>2 DEF Early
<1>5. CASE BuildLeaf(v) \/ BuildNode(v)
  <2>1. ctl[v].pc = "build"
    BY <1>5 DEF BuildLeaf, BuildNode
  <2>2. ctl'[v].pc = ctl[v].pc
    BY <1>1, <1>5 DEF BuildLeaf, BuildNode, Return, Typed, IsCtl
  <2> QED  BY <2>1, <2>2 DEF Early
<1>6. CASE ExportLeaf(v) \/ ExportNode(v) \/ ExportDone(v)
  <2>1. ctl[v].pc = "export"
    BY <1>6 DEF ExportLeaf, ExportNode, ExportDone
  <2> QED  BY <1>2, <1>3, <2>1 DEF Early
<1>7. CASE ImportAlloc(v) \/ ImportPorts(v)
  <2>1. ctl[v].pc \in {"alloc", "remap"}
    BY <1>7 DEF ImportAlloc, ImportPorts
  <2>2. ctl'[v].pc = ctl[v].pc
    <3>1. CASE ImportAlloc(v)
      BY <1>1, <3>1 DEF ImportAlloc, Typed, IsCtl
    <3>2. CASE ImportPorts(v)
      BY <1>1, <3>2 DEF ImportPorts, Typed, IsCtl
    <3> QED  BY <1>7, <3>1, <3>2
  <2> QED  BY <2>1, <2>2 DEF Early
<1>8. \A h : IsHeap(h) => Oom(h).err = 2 /\ Oom(NewAg(h, Zero)).err = 2
  BY DEF IsHeap, Oom, NewAg
<1>9. CASE BuildOom(v)
  <2>1. \/ heap' = [heap EXCEPT ![v] = Oom(heap[v])]
        \/ heap' = [heap EXCEPT ![v] = Oom(NewAg(heap[v], Zero))]
    BY <1>9 DEF BuildOom
  <2> QED  BY <1>1, <1>8, <2>1 DEF Typed
<1>10. CASE ImportOom(v)
  <2>1. heap' = [heap EXCEPT ![v] = Oom(heap[v])]
    BY <1>10 DEF ImportOom
  <2> QED  BY <1>1, <1>8, <2>1 DEF Typed
<1> QED  BY <1>4, <1>5, <1>6, <1>7, <1>9, <1>10

LEMMA BuildRootLoads ==
  ASSUME ParInv, CompleteInv, RingFits, NEW v \in VM, NEW k, k = DEPTH[v], BuildRoot(v)
  PROVE  Net(v, k)!Load
<1>1. PICK h, c, root, g, L :
        /\ h = heap[v] /\ c = ctl[v] /\ root = c.ret /\ g = RootMade(h, root) /\ L = Leaves[k]
  OBVIOUS
<1>2. c.pc = "build" /\ c.stack = <<>> /\ h.free # 0 /\ Typed
  BY <1>1 DEF BuildRoot, ParInv
<1>3. IsCtl(c) /\ Place(v, c, h, xbuf[v], DEPTH[v]) /\ L \in Nat \ {0} /\ 2 * L <= QSIZE
  BY <1>1, <1>2, VMKnown
<1>4. PICK n, m : /\ n \in Nat /\ m \in Nat
                  /\ Seeds(h, n, m) /\ Partial(c.stack, [cnt |-> n, pn |-> m], DEPTH[v])
                  /\ Grown(AGENTS, Types(h), h.port, Heads(c), n, m, h.cell)
                  /\ Recursing(c, Types(h), DEPTH[v])
  BY <1>2, <1>3 DEF Place, Building
<1>5. RootReady(h, n, m, root, L)
  <2>1. n = 3 * L - 1 /\ m = L - 1
    BY <1>1, <1>2, <1>4 DEF Partial, RecsOf, AddsOf
  <2>2. Heads(c) = {root} /\ Types(h)[root] = Add
    BY <1>1, <1>2, <1>4, LastHead DEF Recursing
  <2>3. L <= QSIZE
    BY <1>3, HeapAssumption
  <2> QED  BY <1>2, <1>4, <2>1, <2>2, <2>3 DEF RootReady
<1>6. Seeds(g, 3 * L, L) /\ Planted(AGENTS, Types(g), g.port, g.cell, L)
  BY <1>1, <1>3, <1>5, RootPlants
<1>7. heap'[v] = g /\ ctl'[v].pc = "driver" /\ UNCHANGED host
  BY <1>1, <1>2, <1>3 DEF BuildRoot, RootMade, Typed, IsCtl
<1>8. Started(v) /\ Started(v)'
  <2>1. Started(v)
    BY <1>1, <1>2, StartedRuns
  <2> QED  BY <1>7, <2>1 DEF Started
<1>9. ~Reducing(v)
  BY <1>1, <1>2 DEF Reducing
<1>10. Reducing(v)'
  BY <1>6, <1>7, <1>8 DEF Reducing, Seeds
<1> QED  BY <1>1, <1>3, <1>6, <1>7, <1>9, <1>10, NetLoads

(* The bundle is a net when the last of its ports is there.                  *)
LEMMA PassDoneNet ==
  ASSUME ParInv, CompleteInv, CompleteInv', RingFits, NEW v \in VM, NEW k, k = DEPTH[v],
         PassDone(v)
  PROVE  [Net(v, k)!Next]_(Net(v, k)!vars)
<1>1. PICK h, c, x, L : h = heap[v] /\ c = ctl[v] /\ x = xbuf[v] /\ L = Leaves[k]
  OBVIOUS
<1>2. c.pc \in {"alloc", "remap", "pairs"} /\ c.i = IF c.pc = "pairs" THEN x.pn ELSE x.n
  BY <1>1 DEF PassDone
<1>3. /\ v # 0 /\ Delivery(x, DEPTH[v]) /\ Typed /\ IsCtl(c) /\ L \in Nat \ {0}
      /\ Place(v, c, h, x, DEPTH[v])
  BY <1>1, <1>2, ImportKnown
<1>4. heap'[v] = h /\ ctl'[v].pc = Then(c.pc) /\ UNCHANGED host
  BY <1>1, <1>2, <1>3 DEF PassDone, Typed, IsCtl
<1>5. Started(v) /\ Started(v)'
  <2>1. Started(v)
    BY <1>1, <1>2, StartedRuns
  <2> QED  BY <1>4, <2>1 DEF Started
<1>6. CASE c.pc = "alloc"
  <2>1. Early(v) /\ Early(v)'
    BY <1>1, <1>4, <1>6 DEF Early, Then
  <2> QED  BY <2>1, NetNotYet
<1>7. CASE c.pc = "remap"
  <2>1. Importing(c, h, x, x.n, x.n, 0)
    BY <1>2, <1>3, <1>7 DEF Place
  <2>2. PICK F : F = [j \in 0 .. L - 2 |-> AGENTS - 1 + x.pair[j]]
    OBVIOUS
  <2>3. Seeds(h, 3 * L, 0) /\ Planted(AGENTS, Types(h), h.port, F, L)
    <3>1. \A j \in 0 .. L - 2 : F[j] = AGENTS - 1 + x.pair[j]
      BY <2>2
    <3>2. Delivery(x, k) /\ L = Leaves[k] /\ L \in Nat \ {0}
      BY <1>1, <1>3
    <3> QED  BY <2>1, <3>1, <3>2, ImportPlants
  <2>4. ~Reducing(v)
    BY <1>1, <1>7 DEF Reducing
  <2>5. Reducing(v)'
    BY <1>4, <1>5, <1>7, <2>3 DEF Reducing, Seeds, Then
  <2>6. Net(v, k)!Load
    BY <1>1, <1>3, <1>4, <2>3, <2>4, <2>5, NetLoads
  <2> QED  BY <2>6 DEF Net!Next
<1>8. CASE c.pc = "pairs"
  <2>1. Reducing(v)' <=> Reducing(v)
    BY <1>1, <1>4, <1>5, <1>8 DEF Reducing, Then
  <2> QED  BY <1>1, <1>4, <2>1, NetKept
<1> QED  BY <1>2, <1>6, <1>7, <1>8

LEMMA ImportPairNet ==
  ASSUME ParInv, NEW v \in VM, NEW n, ImportPair(v)
  PROVE  UNCHANGED Net(v, n)!vars
<1>1. PICK h, c, a : h = heap[v] /\ c = ctl[v] /\ a = c.map[xbuf[v].pair[c.i]]
  OBVIOUS
<1>2. Typed /\ IsHeap(h) /\ IsCtl(c)
  BY <1>1, Same DEF ParInv
<1>3. heap'[v] = Enq(h, a) /\ ctl'[v].pc = c.pc /\ UNCHANGED host
  BY <1>1, <1>2 DEF ImportPair, Typed, IsCtl
<1>4. Enq(h, a).word = h.word /\ Enq(h, a).port = h.port /\ Enq(h, a).count = h.count /\ Enq(h, a).err = h.err
  BY <1>2 DEF IsHeap, Enq
<1>5. Started(v)' <=> Started(v)
  BY <1>3 DEF Started
<1>6. Reducing(v)' <=> Reducing(v)
  BY <1>1, <1>3, <1>4, <1>5 DEF Reducing
<1> QED  BY <1>1, <1>3, <1>4, <1>6, NetKept

LEMMA DriverDoneNet ==
  ASSUME ParInv, NEW v \in VM, NEW n, DriverDone(v)
  PROVE  UNCHANGED Net(v, n)!vars
<1>1. Typed /\ IsCtl(ctl[v])
  BY Same DEF ParInv
<1>2. heap'[v] = heap[v] /\ ctl[v].pc = "driver" /\ ctl'[v].pc = "halted" /\ UNCHANGED host
  BY <1>1 DEF DriverDone, Halted, Typed, IsCtl
<1>3. Started(v)' <=> Started(v)
  BY <1>2 DEF Started
<1>4. Reducing(v)' <=> Reducing(v)
  BY <1>2, <1>3 DEF Reducing
<1> QED  BY <1>2, <1>4, NetKept

LEMMA DriveNet ==
  ASSUME ParInv, CompleteInv, RingFits, NEW v \in VM, NEW n, Drive(v), heap'[v].err # 2
  PROVE  [Net(v, n)!Next]_(Net(v, n)!vars)
<1>1. PICK h, g, L : h = heap[v] /\ g = Turn(h) /\ L = Leaves[DEPTH[v]]
  OBVIOUS
<1>2. ctl[v].pc = "driver" /\ h.head # h.tail
  BY <1>1 DEF Drive
<1>3. /\ Typed /\ IsCtl(ctl[v]) /\ L \in Nat \ {0} /\ 2 * L <= QSIZE
      /\ Place(v, ctl[v], h, xbuf[v], DEPTH[v])
  BY <1>1, <1>2, VMKnown
<1>4. Driving(h, L)
  BY <1>1, <1>2, <1>3 DEF Place
<1>5. heap'[v] = g /\ UNCHANGED host /\ (g.err = 0 => ctl'[v].pc = "driver")
  BY <1>1, <1>2, <1>3 DEF Drive, Typed, IsCtl
<1>6. Driving(g, L)
  BY <1>1, <1>2, <1>3, <1>4, <1>5, TurnDrives
<1>7. h.err = 0 /\ g.err = 0 /\ SoundHeap(h) /\ SoundHeap(g)
  BY <1>4, <1>6 DEF Driving, Pool
<1>8. Started(v) /\ Started(v)'
  <2>1. Started(v)
    BY <1>2, StartedRuns
  <2> QED  BY <1>5, <2>1 DEF Started
<1>9. Reducing(v)
  BY <1>1, <1>2, <1>7, <1>8 DEF Reducing
<1>10. Reducing(v)'
  BY <1>5, <1>7, <1>8 DEF Reducing
<1>11. CASE Types(g) = Types(h) /\ g.port = h.port /\ g.count = h.count
  <2>1. \A r \in BOOLEAN : NetOf(r, g) = NetOf(r, h)
    <3>1. Net1(g) = Net1(h)
      BY <1>11 DEF Net1
    <3>2. /\ {{p, g.port[p]} : p \in UsedPorts(g)} = {{p, h.port[p]} : p \in UsedPorts(h)}
          /\ [a \in Agent |-> IF Live(g, a) THEN g.word[a] ELSE 0]
               = [a \in Agent |-> IF Live(h, a) THEN h.word[a] ELSE 0]
      BY <1>7, <1>11, <3>1, HeapPorts
    <3> QED  BY <1>11, <3>2 DEF NetOf
  <2>2. Reducing(v)' = Reducing(v) /\ Reducing(v) \in BOOLEAN
    BY <1>9, <1>10 DEF Reducing, Started
  <2>3. NetOf(Reducing(v)', heap'[v]) = NetOf(Reducing(v), heap[v])
    BY <1>1, <1>5, <2>1, <2>2
  <2> QED  BY <2>3, NetIs
<1>12. CASE \E a, b \in Agent :
              Interaction(Types(h), Net1(h), h.count, Types(g), Net1(g), g.count, a, b)
  <2>1. Net(v, n)!Interact
    BY <1>1, <1>5, <1>7, <1>9, <1>10, <1>12, NetInteracts
  <2> QED  BY <2>1 DEF Net!Next
<1>13. L \in Nat /\ g.err # 2
  BY <1>3, <1>7
<1> QED  BY <1>1, <1>2, <1>4, <1>11, <1>12, <1>13, TurnRewrites

(* A VM's step is its own.                                                  *)
LEMMA StepIsLocal ==
  ASSUME Typed, NEW u \in VM, NEW v \in VM, u # v, Step(u)
  PROVE  heap'[v] = heap[v] /\ ctl'[v] = ctl[v] /\ UNCHANGED host
<1>1. CASE CallLeft(u) \/ CallRight(u)
  BY <1>1 DEF CallLeft, CallRight, Typed
<1>2. CASE BuildLeaf(u) \/ BuildNode(u)
  BY <1>2 DEF BuildLeaf, BuildNode, Typed
<1>3. CASE BuildRoot(u) \/ BuildOom(u)
  BY <1>3 DEF BuildRoot, BuildOom, Typed
<1>4. CASE ExportLeaf(u) \/ ExportNode(u) \/ ExportDone(u)
  BY <1>4 DEF ExportLeaf, ExportNode, ExportDone, Typed
<1>5. CASE ImportAlloc(u) \/ ImportOom(u)
  BY <1>5 DEF ImportAlloc, ImportOom, Typed
<1>6. CASE ImportPorts(u) \/ ImportPair(u)
  BY <1>6 DEF ImportPorts, ImportPair, Typed
<1>7. CASE PassDone(u) \/ Drive(u) \/ DriverDone(u)
  BY <1>7 DEF PassDone, Drive, DriverDone, Typed
<1> QED  BY <1>1, <1>2, <1>3, <1>4, <1>5, <1>6, <1>7 DEF Step

(* The host begins a VM's run and ends it; its other steps are before it or  *)
(* leave it alone.                                                           *)
LEMMA HostNet ==
  ASSUME ParInv, CompleteInv, CompleteInv', NEW v \in VM, NEW n, Host
  PROVE  UNCHANGED Net(v, n)!vars
<1>1. Typed /\ v \in 0 .. LastVM /\ LastVM \in Nat
  BY VMs DEF ParInv
<1>2. CASE HostExport
  <2>1. host.pc = "export" /\ host'.pc = "exporting"
    BY <1>1, <1>2 DEF HostExport, Typed
  <2> QED  BY <2>1, NetNotYet DEF Early, Started
<1>3. CASE HostCopy
  <2>1. host.pc = "exporting" /\ UNCHANGED <<heap, ctl>>
    BY <1>3 DEF HostCopy
  <2>2. ctl[0].pc = "halted" /\ heap[0].err = 1
    BY <1>3, <2>1 DEF ParInv, HostInv, HostCopy, Exporting, Running
  <2>3. host'.pc = "export"
    BY <1>3, <2>2 DEF HostCopy
  <2> QED  BY <2>1, <2>3, NetNotYet DEF Early, Started
<1>4. ASSUME NEW u \in VM, HostStart(u)  PROVE UNCHANGED Net(v, n)!vars
  <2>1. /\ \/ host.pc = "export" /\ host.i = LastVM + 1 /\ u = 0
           \/ host.pc = "start" /\ host.i = u
        /\ host' = [pc |-> IF u = LastVM THEN "join" ELSE "start", i |-> u + 1]
        /\ u \in 0 .. LastVM
    BY <1>4, VMs DEF HostStart
  <2>2. (Started(v) <=> v < u) /\ (Started(v)' <=> v <= u)
    <3>1. Started(v) <=> v < u
      BY <1>1, <2>1 DEF Started
    <3>2. host'.pc = (IF u = LastVM THEN "join" ELSE "start") /\ host'.i = u + 1
      BY <2>1
    <3>3. Started(v)' <=> v <= u
      BY <1>1, <2>1, <3>2 DEF Started
    <3> QED  BY <3>1, <3>3
  <2>3. CASE v = u
    <3>1. ctl'[v].pc \in {"build", "alloc"}
      <4>1. \A c, pc, s : IsCtl(c) => Enter(c, pc, s).pc = pc
        BY DEF Enter, IsCtl
      <4>2. CASE u = 0
        BY <1>1, <1>4, <2>3, <4>1, <4>2 DEF HostStart, ReduceEntry, Typed
      <4>3. CASE u # 0
        BY <1>1, <1>4, <2>3, <4>1, <4>3 DEF HostStart, ImportEntry, Typed
      <4> QED  BY <4>2, <4>3
    <3>2. Early(v) /\ Early(v)'
      BY <1>1, <2>2, <2>3, <3>1 DEF Early
    <3> QED  BY <3>2, NetNotYet
  <2>4. CASE v # u
    <3>1. heap'[v] = heap[v] /\ ctl'[v] = ctl[v]
      BY <1>1, <1>4, <2>4 DEF HostStart, ReduceEntry, ImportEntry, Typed
    <3>2. Started(v)' <=> Started(v)
      BY <1>1, <2>1, <2>2, <2>4
    <3> QED  BY <3>1, <3>2, NetUntouched
  <2> QED  BY <2>3, <2>4
<1>5. CASE HostJoin
  <2>1. host.pc = "join" /\ host'.pc \in {"ok", "failed"} /\ UNCHANGED <<heap, ctl>>
    BY <1>5 DEF HostJoin
  <2>2. Started(v)' <=> Started(v)
    BY <2>1 DEF Started
  <2> QED  BY <2>1, <2>2, NetUntouched
<1> QED  BY <1>2, <1>3, <1>4, <1>5 DEF Host

LEMMA StepNets ==
  ASSUME ParInv, CompleteInv, CompleteInv', RingFits, Next, NEW v \in VM,
         NEW n, n = DEPTH[v], heap'[v].err # 2
  PROVE  [Net(v, n)!Next]_(Net(v, n)!vars)
<1>1. CASE Host
  BY <1>1, HostNet
<1>2. ASSUME NEW u \in VM, Step(u), u # v  PROVE UNCHANGED Net(v, n)!vars
  <2>1. heap'[v] = heap[v] /\ ctl'[v] = ctl[v] /\ UNCHANGED host
    BY <1>2, StepIsLocal DEF ParInv
  <2>2. Started(v)' <=> Started(v)
    BY <2>1 DEF Started
  <2> QED  BY <2>1, <2>2, NetUntouched
<1>3. CASE Step(v)
  <2>1. CASE \/ CallLeft(v) \/ CallRight(v) \/ BuildLeaf(v) \/ BuildNode(v) \/ BuildOom(v)
             \/ ExportLeaf(v) \/ ExportNode(v) \/ ExportDone(v)
             \/ ImportAlloc(v) \/ ImportOom(v) \/ ImportPorts(v)
    BY <2>1, EarlyStep, NetNotYet
  <2>2. CASE BuildRoot(v)
    BY <2>2, BuildRootLoads DEF Net!Next
  <2>3. CASE ImportPair(v) \/ DriverDone(v)
    BY <2>3, ImportPairNet, DriverDoneNet
  <2>4. CASE PassDone(v)
    BY <2>4, PassDoneNet
  <2>5. CASE Drive(v)
    BY <2>5, DriveNet
  <2> QED  BY <1>3, <2>1, <2>2, <2>3, <2>4, <2>5 DEF Step
<1> QED  BY <1>1, <1>2, <1>3 DEF Next

(* Each VM reduces an interaction net of the value of its tree, for any      *)
(* number of VMs, any depths, pool and interleaving: VM 0's tree appears as  *)
(* one well-wired net with its root's end, the others' with the last port of *)
(* the bundle, and the calls of a rule together are one interaction of an    *)
(* active pair. The halt newag makes in the middle of a rule is outside.     *)
THEOREM EveryVMReducesItsNet == RingFits => (Spec => ReducesNets)
<1> SUFFICES ASSUME RingFits  PROVE Spec => ReducesNets
  OBVIOUS
<1>1. Init => \A v \in VM, n \in Slots : DEPTH[v] = n => Net(v, n)!Init
  <2> SUFFICES ASSUME Init, NEW v \in VM, NEW n \in Slots  PROVE Net(v, n)!Init
    OBVIOUS
  <2>1. v \in Nat /\ host.pc = "export"
    BY VMs DEF Init
  <2>2. ~Reducing(v) /\ heap[v].count = 0
    BY <2>1 DEF Init, Reducing, Started, ZeroHeap
  <2> QED  BY <2>2 DEF Net!Init
<1>2. ParInv /\ CompleteInv /\ CompleteInv' /\ [Next]_vars =>
        [\A v \in VM, n \in Slots :
           DEPTH[v] = n /\ heap'[v].err # 2
             => UNCHANGED Net(v, n)!vars \/ Net(v, n)!Next]_vars
  <2> SUFFICES ASSUME ParInv, CompleteInv, CompleteInv', Next, NEW v \in VM, NEW n \in Slots,
                      DEPTH[v] = n, heap'[v].err # 2
               PROVE  UNCHANGED Net(v, n)!vars \/ Net(v, n)!Next
    OBVIOUS
  <2> QED  BY StepNets
<1> QED  BY <1>1, <1>2, CompleteInvariant, ParInvariant, PTL DEF Spec, ReducesNets
=============================================================================
