--------------------------- MODULE InetParProofs ---------------------------
(* par-run for any number of VMs, depths, pool and ring: the free list of    *)
(* every VM stays right, and every bundle fits its buffer.                   *)
EXTENDS InetPar, InetHeapProofs

-----------------------------------------------------------------------------
(* The pool alone. Build and import put whatever they hold into port cells  *)
(* and ring, and the free list is right all the same: nothing but the words *)
(* and FREE counts, and the driver looks at an entry before it uses it.     *)

IsHeap(h) ==
  /\ h = [word |-> h.word, port |-> h.port, free |-> h.free, cell |-> h.cell, head |-> h.head,
          tail |-> h.tail, peak |-> h.peak, count |-> h.count, err |-> h.err]
  /\ h.word \in [Agent -> Nat]

SoundPool(h) == IsHeap(h) /\ FreeListSound(h)

(* The reset makes one list of whatever was there.                          *)
LEMMA ResetPool ==
  ASSUME NEW h, IsHeap(h)
  PROVE  SoundPool(Reset(h)) /\ Reset(h).err = 0
<1> DEFINE links == [a \in Agent |-> IF a + 1 \in Agent THEN a + 1 ELSE 0]
           g == [word |-> links, port |-> h.port, free |-> AGENTS, cell |-> h.cell, head |-> 0,
                 tail |-> 0, peak |-> h.peak, count |-> 0, err |-> 0]
<1>1. AGENTS \in Agent /\ \A a \in Agent : a \in Nat /\ a > 4
  BY HeapAssumption DEF Agent
<1>2. links \in [Agent -> Nat] /\ \A a \in Agent : links[a] = IF a + 1 \in Agent THEN a + 1 ELSE 0
  BY <1>1
<1> HIDE DEF links
<1>3. Reset(h) = g
  <2>1. Reset(h) = [h EXCEPT !.word = links, !.free = AGENTS, !.head = 0, !.tail = 0, !.count = 0, !.err = 0]
    BY DEF Reset, links
  <2> QED  BY <2>1 DEF IsHeap
<1>4. IsHeap(g) /\ g.word = links /\ g.free = AGENTS /\ g.err = 0
  BY <1>2 DEF IsHeap
<1> HIDE DEF g
<1>5. FreeAgents(g) = Agent
  BY <1>1, <1>2, <1>4 DEF FreeAgents, LiveAgents, Live, Type
<1>6. \A a \in Agent : g.word[a] \in Agent \cup {0} /\ g.word[a] # AGENTS
  <2>1. \A a \in Agent : a + 1 # AGENTS /\ AGENTS # 0
    BY HeapAssumption DEF Agent
  <2> QED  BY <1>2, <1>4, <2>1
<1>7. \A a, b \in Agent : g.word[a] = g.word[b] => a = b
  <2>1. \A a, b \in Agent : (IF a + 1 \in Agent THEN a + 1 ELSE 0)
                              = (IF b + 1 \in Agent THEN b + 1 ELSE 0) => a = b
    BY HeapAssumption DEF Agent
  <2> QED  BY <1>2, <1>4, <2>1
<1> QED  BY <1>1, <1>3, <1>4, <1>5, <1>6, <1>7 DEF FreeListSound, SoundPool

(* What leaves the words and FREE alone leaves the list alone.              *)
LEMMA ListUntouched ==
  ASSUME NEW h, NEW g, SoundPool(h), IsHeap(g), g.word = h.word, g.free = h.free
  PROVE  SoundPool(g)
BY DEF SoundPool, FreeListSound, FreeAgents, LiveAgents, Live

(* newag from a list that is not empty.                                     *)
LEMMA NewAgPool ==
  ASSUME NEW h, SoundPool(h), h.free # 0, NEW t \in Type
  PROVE  /\ SoundPool(NewAg(h, t)) /\ NewAg(h, t).err = h.err
         /\ \A a : Live(h, a) => Live(NewAg(h, t), a)
<1> DEFINE g == NewAg(h, t)
<1>1. IsHeap(h) /\ h.free \in FreeAgents(h) /\ h.free \in Agent /\ ~Live(h, h.free)
  BY HeapAssumption DEF SoundPool, FreeListSound, FreeAgents, LiveAgents
<1>2. /\ g = [h EXCEPT !.free = h.word[h.free], !.word = [h.word EXCEPT ![h.free] = t]]
      /\ [h.word EXCEPT ![h.free] = t] \in [Agent -> Nat]
  <2>1. t \in Nat
    BY DEF Type
  <2>2. [h.word EXCEPT ![h.free] = t] \in [Agent -> Nat]
    BY <1>1, <2>1 DEF IsHeap
  <2>3. [h EXCEPT !.free = h.word[h.free]].word = h.word
    BY <1>1 DEF IsHeap
  <2> QED  BY <2>2, <2>3, Zenon DEF NewAg
<1>3. /\ IsHeap(g) /\ g.word = [h.word EXCEPT ![h.free] = t] /\ g.free = h.word[h.free]
      /\ g.err = h.err
  <2> DEFINE w == [h.word EXCEPT ![h.free] = t]  f == h.word[h.free]
  <2>1. w \in [Agent -> Nat] /\ g = [h EXCEPT !.free = f, !.word = w]
    BY <1>2
  <2> HIDE DEF w, f, g
  <2>2. IsHeap(g) /\ g.word = w /\ g.free = f /\ g.err = h.err
    BY <1>1, <2>1 DEF IsHeap
  <2> QED  BY <2>2 DEF w, f
<1> HIDE DEF g
<1>4. g.word[h.free] = t /\ \A a \in Agent : a # h.free => g.word[a] = h.word[a]
  BY <1>1, <1>3 DEF IsHeap
<1>5. FreeAgents(g) = FreeAgents(h) \ {h.free}
  BY <1>1, <1>4 DEF FreeAgents, LiveAgents, Live
<1>6. FreeListSound(g)
  BY <1>1, <1>3, <1>4, <1>5 DEF SoundPool, FreeListSound, FreeAgents
<1>7. \A a : Live(h, a) => Live(g, a)
  BY <1>1, <1>4 DEF Live
<1> QED  BY <1>3, <1>6, <1>7 DEF SoundPool, g

(* freeag of a live agent.                                                  *)
LEMMA FreeAgPool ==
  ASSUME NEW h, SoundPool(h), NEW a, Live(h, a)
  PROVE  /\ SoundPool(FreeAg(h, a)) /\ FreeAg(h, a).err = h.err
         /\ \A b : b # a /\ Live(h, b) => Live(FreeAg(h, a), b)
<1> DEFINE g == FreeAg(h, a)
           w == [h.word EXCEPT ![a] = h.free]
<1>1. IsHeap(h) /\ a \in Agent /\ h.free \in Agent \cup {0}
  BY DEF SoundPool, Live, FreeListSound, FreeAgents
<1>2. h.free \in Nat /\ h.free \notin Type /\ a # 0
  BY <1>1, HeapAssumption DEF Agent, Type
<1>3. w \in [Agent -> Nat] /\ g = [h EXCEPT !.word = w, !.free = a]
  BY <1>1, <1>2 DEF FreeAg, IsHeap
<1>4. w[a] = h.free /\ \A b \in Agent : b # a => w[b] = h.word[b]
  BY <1>1 DEF IsHeap
<1> HIDE DEF w, g
<1>5. IsHeap(g) /\ g.word = w /\ g.free = a /\ g.err = h.err
  BY <1>1, <1>3 DEF IsHeap
<1>6. FreeAgents(g) = FreeAgents(h) \cup {a} /\ a \notin FreeAgents(h)
  BY <1>1, <1>2, <1>4, <1>5 DEF FreeAgents, LiveAgents, Live
<1>7. FreeListSound(g)
  <2>1. \A f \in FreeAgents(h) : f \in Agent /\ f # a /\ g.word[f] = h.word[f]
    BY <1>4, <1>5, <1>6 DEF FreeAgents
  <2> QED  BY <2>1, <1>2, <1>4, <1>5, <1>6 DEF SoundPool, FreeListSound
<1>8. \A b : b # a /\ Live(h, b) => Live(g, b)
  BY <1>4, <1>5 DEF Live
<1> QED  BY <1>5, <1>7, <1>8 DEF SoundPool, g

(* The two calls that end a rule.                                           *)
LEMMA FreeTwoPool ==
  ASSUME NEW h, SoundPool(h), NEW a, NEW b, Live(h, a), Live(h, b), a # b
  PROVE  SoundPool(FreeAg(FreeAg(h, a), b)) /\ FreeAg(FreeAg(h, a), b).err = h.err
BY FreeAgPool

(* What a step that is no newag or freeag may do: anything but to the words *)
(* and FREE.                                                                *)
Beside(g, h) == IsHeap(g) /\ g.word = h.word /\ g.free = h.free

LEMMA BesidePool ==
  ASSUME NEW h, NEW g, SoundPool(h), Beside(g, h)
  PROVE  SoundPool(g) /\ \A a : Live(h, a) => Live(g, a)
BY ListUntouched DEF Beside, Live

LEMMA PortsBeside ==
  ASSUME NEW h, IsHeap(h), NEW P
  PROVE  Beside([h EXCEPT !.port = P], h) /\ [h EXCEPT !.port = P].err = h.err
BY DEF Beside, IsHeap

LEMMA ConnectBeside ==
  ASSUME NEW h, IsHeap(h), NEW v, NEW w
  PROVE  Beside(Connect(h, v, w), h) /\ Connect(h, v, w).err = h.err
<1>1. Connect(h, v, w) = [h EXCEPT !.port = [h.port EXCEPT ![v] = w, ![w] = v]]
  BY DEF Connect, IsHeap
<1> QED  BY <1>1, PortsBeside

LEMMA EnqBeside ==
  ASSUME NEW h, IsHeap(h), NEW a
  PROVE  Beside(Enq(h, a), h) /\ Enq(h, a).err = h.err
<1> DEFINE p == IF h.tail - h.head < h.peak THEN h.peak ELSE h.tail - h.head
           c == [h.cell EXCEPT ![h.tail % QSIZE] = a]
           n == h.tail + 1
<1>1. Enq(h, a) = [h EXCEPT !.peak = p, !.cell = c, !.tail = n]
  BY DEF Enq, IsHeap
<1> HIDE DEF p, c, n
<1> QED  BY <1>1 DEF Beside, IsHeap

LEMMA EnqPrincipalBeside ==
  ASSUME NEW h, IsHeap(h), NEW p
  PROVE  Beside(EnqPrincipal(h, p), h) /\ EnqPrincipal(h, p).err = h.err
<1>1. Beside(h, h)
  BY DEF Beside
<1> QED  BY <1>1, EnqBeside DEF EnqPrincipal

-----------------------------------------------------------------------------
(* The rules and a turn of the driver *)

LEMMA OomPool ==
  ASSUME NEW h, SoundPool(h), NEW e
  PROVE  SoundPool([h EXCEPT !.err = e])
<1>1. Beside([h EXCEPT !.err = e], h)
  BY DEF SoundPool, Beside, IsHeap
<1> QED  BY <1>1, BesidePool

LEMMA AddZeroPool ==
  ASSUME NEW h, SoundPool(h), NEW a, NEW b, Live(h, a), Live(h, b), a # b
  PROVE  SoundPool(RuleAddZero(h, a, b))
<1> DEFINE x  == h.port[<<a, 1>>]
           y  == h.port[<<a, 2>>]
           hq == IF y[2] = 0 THEN EnqPrincipal(h, x) ELSE h
           hc == Connect(hq, x, y)
<1>1. RuleAddZero(h, a, b) = FreeAg(FreeAg(hc, a), b)
  BY DEF RuleAddZero
<1>2. Beside(hq, h)
  BY EnqPrincipalBeside DEF SoundPool, Beside
<1> HIDE DEF x, y, hq
<1>3. SoundPool(hq) /\ Live(hq, a) /\ Live(hq, b)
  BY <1>2, BesidePool
<1>4. SoundPool(hc) /\ Live(hc, a) /\ Live(hc, b)
  BY <1>3, ConnectBeside, BesidePool DEF SoundPool
<1> QED  BY <1>1, <1>4, FreeTwoPool

LEMMA EndAdd1Pool ==
  ASSUME NEW h, SoundPool(h), NEW a, NEW b, Live(h, a), Live(h, b), a # b
  PROVE  SoundPool(RuleEndAdd1(h, a, b))
<1> DEFINE z  == h.port[<<b, 1>>]
           hc == [h EXCEPT !.count = @ + 1]
           hq == EnqPrincipal(hc, z)
           hw == [hq EXCEPT !.port[z] = <<a, 0>>, !.port[<<a, 0>>] = z]
<1>1. RuleEndAdd1(h, a, b) = FreeAg(hw, b)
  BY DEF RuleEndAdd1
<1>2. Beside(hc, h)
  <2> DEFINE n == h.count + 1
  <2>1. hc = [h EXCEPT !.count = n]
    BY DEF SoundPool, IsHeap
  <2> HIDE DEF n, hc
  <2> QED  BY <2>1 DEF SoundPool, IsHeap, Beside
<1> HIDE DEF z, hc
<1>3. SoundPool(hc) /\ Live(hc, b)
  BY <1>2, BesidePool
<1>4. SoundPool(hq) /\ Live(hq, b)
  BY <1>3, EnqPrincipalBeside, BesidePool DEF SoundPool
<1> HIDE DEF hq
<1>5. hw = Connect(hq, z, <<a, 0>>)
  BY DEF Connect
<1> HIDE DEF hw
<1>6. SoundPool(hw) /\ Live(hw, b)
  BY <1>4, <1>5, ConnectBeside, BesidePool DEF SoundPool
<1> QED  BY <1>1, <1>6, FreeAgPool

(* The two new blocks are not the rule's own two, which are still live.     *)
LEMMA AddAdd1Pool ==
  ASSUME NEW h, SoundPool(h), NEW a, NEW b, Live(h, a), Live(h, b), a # b
  PROVE  SoundPool(RuleAddAdd1(h, a, b))
<1> DEFINE z  == h.port[<<b, 1>>]
           x  == h.port[<<a, 1>>]
           y  == h.port[<<a, 2>>]
           c  == h.free
           h1 == NewAg(h, Add1)
           d  == h1.free
           hn == NewAg(h1, Add)
           P  == [hn.port EXCEPT ![y] = <<c, 0>>, ![<<c, 0>>] = y,
                                 ![z] = <<d, 0>>, ![<<d, 0>>] = z,
                                 ![x] = <<d, 1>>, ![<<d, 1>>] = x,
                                 ![<<d, 2>>] = <<c, 1>>, ![<<c, 1>>] = <<d, 2>>]
           h2 == [hn EXCEPT !.port = P]
           hy == EnqPrincipal(h2, y)
           hz == EnqPrincipal(hy, z)
<1>0. Add1 \in Type /\ Add \in Type
  BY DEF Add1, Add, Type
<1>1. c # 0 => SoundPool(h1) /\ Live(h1, a) /\ Live(h1, b)
  BY <1>0, NewAgPool
<1>2. c # 0 /\ d # 0 => SoundPool(hn) /\ Live(hn, a) /\ Live(hn, b)
  BY <1>0, <1>1, NewAgPool
<1>3. RuleAddAdd1(h, a, b) = IF c = 0 THEN Oom(h) ELSE IF d = 0 THEN Oom(h1)
                             ELSE FreeAg(FreeAg(hz, a), b)
  <2> DEFINE hr == [hn EXCEPT
               !.port[y] = <<c, 0>>, !.port[<<c, 0>>] = y,
               !.port[z] = <<d, 0>>, !.port[<<d, 0>>] = z,
               !.port[x] = <<d, 1>>, !.port[<<d, 1>>] = x,
               !.port[<<d, 2>>] = <<c, 1>>, !.port[<<c, 1>>] = <<d, 2>>]
  <2>1. RuleAddAdd1(h, a, b) = IF c = 0 THEN Oom(h) ELSE IF d = 0 THEN Oom(h1)
                ELSE FreeAg(FreeAg(EnqPrincipal(EnqPrincipal(hr, y), z), a), b)
    BY DEF RuleAddAdd1
  <2> HIDE DEF x, y, z, c, d, h1, hn
  <2>2. c # 0 /\ d # 0 => hr = h2
    <3>1. c # 0 /\ d # 0 =>
            hn = [word |-> hn.word, port |-> hn.port, free |-> hn.free, cell |-> hn.cell,
                  head |-> hn.head, tail |-> hn.tail, peak |-> hn.peak, count |-> hn.count,
                  err |-> hn.err]
      BY <1>2 DEF SoundPool, IsHeap
    <3>2. ASSUME c # 0, d # 0  PROVE hr = h2
      <4>1. hn = [word |-> hn.word, port |-> hn.port, free |-> hn.free, cell |-> hn.cell,
                  head |-> hn.head, tail |-> hn.tail, peak |-> hn.peak, count |-> hn.count,
                  err |-> hn.err]
        BY <3>1, <3>2
      <4> DEFINE e1 == <<c, 0>>  e2 == <<d, 0>>  e3 == <<d, 1>>  e4 == <<d, 2>>  e5 == <<c, 1>>
      <4> HIDE DEF e1, e2, e3, e4, e5
      <4>2. [hn EXCEPT !.port[y] = e1, !.port[e1] = y, !.port[z] = e2, !.port[e2] = z,
                       !.port[x] = e3, !.port[e3] = x, !.port[e4] = e5, !.port[e5] = e4]
            = [hn EXCEPT !.port = [hn.port EXCEPT ![y] = e1, ![e1] = y, ![z] = e2, ![e2] = z,
                                   ![x] = e3, ![e3] = x, ![e4] = e5, ![e5] = e4]]
        BY <4>1
      <4> QED  BY <4>2, Zenon DEF e1, e2, e3, e4, e5
    <3> QED  BY <3>2
  <2> QED  BY <2>1, <2>2
<1> HIDE DEF x, y, z, c, d, h1, hn, P
<1>4. CASE c = 0 \/ d = 0
  BY <1>1, <1>3, <1>4, OomPool DEF Oom
<1>5. CASE c # 0 /\ d # 0
  <2>1. SoundPool(h2) /\ Live(h2, a) /\ Live(h2, b)
    BY <1>2, <1>5, PortsBeside, BesidePool DEF SoundPool
  <2> HIDE DEF h2
  <2>2. SoundPool(hy) /\ Live(hy, a) /\ Live(hy, b)
    BY <2>1, EnqPrincipalBeside, BesidePool DEF SoundPool
  <2> HIDE DEF hy
  <2>3. SoundPool(hz) /\ Live(hz, a) /\ Live(hz, b)
    BY <2>2, EnqPrincipalBeside, BesidePool DEF SoundPool
  <2> QED  BY <1>3, <1>5, <2>3, FreeTwoPool
<1> QED  BY <1>4, <1>5

(* One turn, whatever the ring and the ports hold.                          *)
LEMMA TurnPool ==
  ASSUME NEW h, SoundPool(h)
  PROVE  SoundPool(Turn(h))
<1> DEFINE a  == Front(h)
           b  == Partner(h, a)
           h1 == [h EXCEPT !.head = @ + 1]
<1>1. Beside(h1, h)
  <2> DEFINE n == h.head + 1
  <2>1. h1 = [h EXCEPT !.head = n]
    BY DEF SoundPool, IsHeap
  <2> HIDE DEF n, h1
  <2> QED  BY <2>1 DEF SoundPool, IsHeap, Beside
<1>2. SoundPool(h1) /\ \A c : Live(h, c) => Live(h1, c)
  BY <1>1, BesidePool
<1>3. Turn(h) = IF ActiveEntry(h, a) THEN Fire(h1, a, b) ELSE h1
  BY DEF Turn
<1>4. ActiveEntry(h, a) => Live(h1, a) /\ Live(h1, b)
  BY <1>2 DEF ActiveEntry
<1> HIDE DEF a, b, h1
<1>5. SoundPool([h1 EXCEPT !.err = 3])
  BY <1>2, OomPool
<1>6. ASSUME Live(h1, a), Live(h1, b)  PROVE SoundPool(Fire(h1, a, b))
  <2>1. CASE a = b
    <3>1. Fire(h1, a, b) = [h1 EXCEPT !.err = 3]
      BY <2>1 DEF Fire, Zero, Add1, Add, End
    <3> QED  BY <1>5, <3>1
  <2>2. CASE a # b
    <3>1. SoundPool(RuleEndZero(h1, a, b)) /\ SoundPool(RuleEndZero(h1, b, a))
      BY <1>2, <1>6, <2>2, FreeTwoPool DEF RuleEndZero
    <3> QED  BY <1>2, <1>5, <1>6, <2>2, <3>1, AddZeroPool, AddAdd1Pool, EndAdd1Pool DEF Fire
  <2> QED  BY <2>1, <2>2
<1> QED  BY <1>2, <1>3, <1>4, <1>6

-----------------------------------------------------------------------------
(* The sizes of trees *)

(* A tree of depth d as far as the recursion has computed it.               *)
LeavesTo(f, d) == /\ f \in [0 .. d -> Nat \ {0}] /\ f[0] = 1
                  /\ \A e \in 1 .. d : f[e] = 2 * f[e - 1]

LEMMA LeavesToUnique ==
  ASSUME NEW c \in Nat, NEW d \in Nat, NEW f, NEW g, LeavesTo(f, c), LeavesTo(g, d)
  PROVE  \A e \in Nat : e <= c /\ e <= d => f[e] = g[e]
<1> DEFINE Bad == {e \in Nat : e <= c /\ e <= d /\ f[e] # g[e]}
<1>1. ASSUME Bad # {}  PROVE FALSE
  <2>1. PICK e \in Bad : \A n \in Bad : e <= n
    BY <1>1, LeastNat
  <2>2. e # 0
    BY <2>1 DEF LeavesTo
  <2>3. e - 1 \in Nat /\ e \in 1 .. c /\ e \in 1 .. d /\ e - 1 \notin Bad
    BY <2>1, <2>2
  <2>4. f[e - 1] = g[e - 1]
    BY <2>3
  <2> QED  BY <2>1, <2>3, <2>4 DEF LeavesTo
<1> QED  BY <1>1

(* Twice the depth below, for every depth.                                  *)
LEMMA LeavesDouble ==
  /\ Leaves \in [Nat -> Nat \ {0}] /\ Leaves[0] = 1
  /\ \A d \in Nat \ {0} : Leaves[d] = 2 * Leaves[d - 1]
<1> DEFINE Bad == {d \in Nat : ~ \E f : LeavesTo(f, d)}
           f(d) == CHOOSE f : LeavesTo(f, d)
           g == [d \in Nat |-> f(d)[d]]
           Rec(l) == [d \in Nat |-> IF d = 0 THEN 1 ELSE 2 * l[d - 1]]
<1>1. ASSUME Bad # {}  PROVE FALSE
  <2>1. PICK d \in Bad : \A n \in Bad : d <= n
    BY <1>1, LeastNat
  <2>2. d # 0
    <3>1. LeavesTo([e \in 0 .. 0 |-> 1], 0)
      BY DEF LeavesTo
    <3> QED  BY <2>1, <3>1
  <2>3. d - 1 \in Nat /\ d - 1 \notin Bad
    BY <2>1, <2>2
  <2>4. PICK h : LeavesTo(h, d - 1)
    BY <2>3
  <2>5. LeavesTo([e \in 0 .. d |-> IF e = d THEN 2 * h[d - 1] ELSE h[e]], d)
    <3> DEFINE k == [e \in 0 .. d |-> IF e = d THEN 2 * h[d - 1] ELSE h[e]]
    <3>1. /\ h \in [0 .. d - 1 -> Nat \ {0}] /\ h[0] = 1 /\ d \in Nat \ {0}
          /\ \A e \in 1 .. d - 1 : h[e] = 2 * h[e - 1]
      BY <2>2, <2>3, <2>4 DEF LeavesTo
    <3>2. k \in [0 .. d -> Nat \ {0}]
      <4>1. d - 1 \in 0 .. d - 1 /\ \A e \in 0 .. d : e # d => e \in 0 .. d - 1
        BY <3>1
      <4> QED  BY <3>1, <4>1
    <3>3. /\ k[0] = 1 /\ k[d] = 2 * h[d - 1]
          /\ \A e \in 0 .. d - 1 : k[e] = h[e]
      BY <3>1
    <3> HIDE DEF k
    <3>4. ASSUME NEW e \in 1 .. d  PROVE k[e] = 2 * k[e - 1]
      <4>1. e - 1 \in 0 .. d - 1  BY <3>1
      <4>2. k[e - 1] = h[e - 1]  BY <3>3, <4>1
      <4>3. CASE e = d  BY <3>3, <4>2, <4>3
      <4>4. CASE e # d
        <5>1. e \in 1 .. d - 1 /\ e \in 0 .. d - 1  BY <3>1, <4>4
        <5>2. k[e] = h[e]  BY <3>3, <5>1
        <5>3. h[e] = 2 * h[e - 1]  BY <3>1, <5>1
        <5> QED  BY <4>2, <5>2, <5>3
      <4> QED  BY <4>3, <4>4
    <3>5. LeavesTo(k, d)
      BY <3>2, <3>3, <3>4 DEF LeavesTo
    <3> QED  BY <3>5 DEF k
  <2> QED  BY <2>1, <2>5
<1>2. \A d \in Nat : LeavesTo(f(d), d)
  BY <1>1
<1> HIDE DEF f
<1>3. \A d \in Nat \ {0} : f(d)[d - 1] = f(d - 1)[d - 1]
  <2> TAKE d \in Nat \ {0}
  <2>1. d - 1 \in Nat /\ d \in Nat /\ d - 1 <= d
    OBVIOUS
  <2> QED  BY <1>2, <2>1, LeavesToUnique
<1>4. g = Rec(g)
  <2>1. \A d \in Nat : g[d] = IF d = 0 THEN 1 ELSE 2 * g[d - 1]
    <3> TAKE d \in Nat
    <3>1. CASE d = 0
      BY <1>2, <3>1 DEF LeavesTo
    <3>2. CASE d # 0
      <4>1. d \in 1 .. d /\ d - 1 \in Nat /\ d \in Nat \ {0}
        BY <3>2
      <4>2. f(d)[d] = 2 * f(d)[d - 1]
        BY <1>2, <4>1 DEF LeavesTo
      <4> QED  BY <1>3, <3>2, <4>1, <4>2
    <3> QED  BY <3>1, <3>2
  <2> QED  BY <2>1
<1>5. Leaves = Rec(Leaves)
  <2>1. \E l : l = Rec(l)
    BY <1>4
  <2> QED  BY <2>1, Zenon DEF Leaves
<1>6. \A d \in Nat : Leaves[d] = IF d = 0 THEN 1 ELSE 2 * Leaves[d - 1]
  <2> DEFINE l == Leaves
  <2>1. l = Rec(l)
    BY <1>5
  <2> HIDE DEF l
  <2>2. \A d \in Nat : l[d] = IF d = 0 THEN 1 ELSE 2 * l[d - 1]
    BY <2>1
  <2> QED  BY <2>2 DEF l
<1>7. \A d \in Nat : Leaves[d] \in Nat \ {0}
  <2> DEFINE Odd == {d \in Nat : Leaves[d] \notin Nat \ {0}}
  <2>1. ASSUME Odd # {}  PROVE FALSE
    <3>1. PICK d \in Odd : \A n \in Odd : d <= n
      BY <2>1, LeastNat
    <3>2. d # 0
      BY <1>6, <3>1
    <3>3. d - 1 \in Nat /\ d - 1 \notin Odd
      BY <3>1, <3>2
    <3> QED  BY <1>6, <3>1, <3>2, <3>3
  <2> QED  BY <2>1
<1>8. DOMAIN Leaves = Nat /\ Leaves = [d \in Nat |-> Leaves[d]]
  BY <1>5, Zenon
<1> QED  BY <1>6, <1>7, <1>8

-----------------------------------------------------------------------------
(* The recursion of build_tree_x. Waits tells where a frame of depth d is;  *)
(* a tree of depth d makes RecsOf(d) records and AddsOf(d) entries.         *)

Waits == {"call", "left", "right"}
RecsOf(d) == 3 * Leaves[d] - 1
AddsOf(d) == Leaves[d] - 1

(* What the subtrees of a frame have made: those done before the call the   *)
(* frame waits for, and those done when the call has come back.             *)
Before(f, n) == IF f[2] = "right" THEN n ELSE 0
After(f, n)  == IF f[2] = "call" THEN 0 ELSE IF f[2] = "left" THEN n ELSE n + n

(* Each frame was called when recs[i] records and adds[i] entries were made, *)
(* and has room for its whole tree.                                         *)
Frames(st, D, recs, adds) ==
  /\ recs \in [1 .. Len(st) -> Nat] /\ adds \in [1 .. Len(st) -> Nat]
  /\ Len(st) >= 1 /\ st[1][1] = D /\ recs[1] = 0 /\ adds[1] = 0
  /\ \A i \in 1 .. Len(st) :
       /\ recs[i] + RecsOf(st[i][1]) <= RecsOf(D)
       /\ adds[i] + AddsOf(st[i][1]) <= AddsOf(D)
       /\ st[i][2] # "call" => st[i][1] > 0
  /\ \A i \in 1 .. Len(st) - 1 :
       LET d == st[i][1] - 1
       IN  /\ st[i][2] # "call" /\ st[i + 1][1] = d
           /\ recs[i + 1] = recs[i] + Before(st[i], RecsOf(d))
           /\ adds[i + 1] = adds[i] + Before(st[i], AddsOf(d))

(* The export of a tree of depth D has come so far.                         *)
Partial(st, x, D) ==
  IF st = <<>> THEN x.cnt = RecsOf(D) /\ x.pn = AddsOf(D)
  ELSE \E recs, adds :
         LET top == st[Len(st)]
         IN  /\ Frames(st, D, recs, adds)
             /\ x.cnt = recs[Len(st)] + After(top, RecsOf(top[1] - 1))
             /\ x.pn = adds[Len(st)] + After(top, AddsOf(top[1] - 1))

FrameSet == {f \in Nat \X Waits : f[2] # "call" => f[1] > 0}
Stacks   == Seq(FrameSet)

(* A call: the frame goes to where it waits, the new one is on top.         *)
IsCall(st, new, at) ==
  LET n == Len(st)
  IN  /\ new \in Stacks /\ Len(new) = n + 1
      /\ \A i \in 1 .. n - 1 : new[i] = st[i]
      /\ new[n] = <<st[n][1], at>> /\ new[n + 1] = <<st[n][1] - 1, "call">>

(* A return. *)
IsReturn(st, new) ==
  /\ new \in Stacks /\ Len(new) = Len(st) - 1
  /\ \A i \in 1 .. Len(st) - 1 : new[i] = st[i]

LEMMA StackFacts ==
  ASSUME NEW st \in Stacks, st # <<>>
  PROVE  /\ Len(st) \in Nat \ {0} /\ \A i \in 1 .. Len(st) : st[i] \in Nat \X Waits
         /\ st[Len(st)] \in Nat \X Waits /\ Len(st) \in 1 .. Len(st)
<1>1. Len(st) \in Nat \ {0} /\ \A i \in 1 .. Len(st) : st[i] \in FrameSet
  BY DEF Stacks
<1>2. \A f \in FrameSet : f \in Nat \X Waits
  BY DEF FrameSet
<1>3. Len(st) \in 1 .. Len(st)
  BY <1>1
<1> QED  BY <1>1, <1>2, <1>3

(* The sizes of a tree, from those of its two subtrees.                     *)
LEMMA SizesDouble ==
  /\ \A d \in Nat : RecsOf(d) \in Nat /\ AddsOf(d) \in Nat /\ RecsOf(d) >= 2
  /\ RecsOf(0) = 2 /\ AddsOf(0) = 0
  /\ \A d \in Nat \ {0} : /\ RecsOf(d) = 2 * RecsOf(d - 1) + 1
                         /\ AddsOf(d) = 2 * AddsOf(d - 1) + 1
<1>1. \A d \in Nat : Leaves[d] \in Nat /\ Leaves[d] >= 1
  BY LeavesDouble
<1>2. \A d \in Nat \ {0} : d - 1 \in Nat /\ Leaves[d] = 2 * Leaves[d - 1]
  BY LeavesDouble
<1> QED  BY <1>1, <1>2, LeavesDouble DEF RecsOf, AddsOf

LEMMA RoomForSubtrees ==
  ASSUME NEW r \in Nat, NEW d \in Nat \ {0}, NEW D \in Nat
  PROVE  /\ r + RecsOf(d) <= RecsOf(D) => /\ r + RecsOf(d - 1) <= RecsOf(D)
                                         /\ r + RecsOf(d - 1) + RecsOf(d - 1) <= RecsOf(D)
         /\ r + AddsOf(d) <= AddsOf(D) => /\ r + AddsOf(d - 1) <= AddsOf(D)
                                         /\ r + AddsOf(d - 1) + AddsOf(d - 1) <= AddsOf(D)
<1> DEFINE R == RecsOf(d)  S == RecsOf(d - 1)  U == RecsOf(D)
           A == AddsOf(d)  B == AddsOf(d - 1)  V == AddsOf(D)
<1>1. /\ S \in Nat /\ U \in Nat /\ R = 2 * S + 1
      /\ B \in Nat /\ V \in Nat /\ A = 2 * B + 1
  <2>1. d - 1 \in Nat
    OBVIOUS
  <2> QED  BY <2>1, SizesDouble
<1> HIDE DEF R, S, U, A, B, V
<1>2. /\ r + R <= U => r + S <= U /\ r + S + S <= U
      /\ r + A <= V => r + B <= V /\ r + B + B <= V
  BY <1>1
<1> QED  BY <1>2 DEF R, S, U, A, B, V

LEMMA SizesInt == \A d \in Nat : RecsOf(d) \in Int /\ AddsOf(d) \in Int
<1> TAKE d \in Nat
<1> DEFINE r == RecsOf(d)  a == AddsOf(d)
<1>1. r \in Nat /\ a \in Nat
  BY SizesDouble
<1> HIDE DEF r, a
<1>2. r \in Int /\ a \in Int
  BY <1>1
<1> QED  BY <1>2 DEF r, a

LEMMA OneOrMore == \A n \in Nat \ {0} : n = 1 \/ n > 1
OBVIOUS

(* A call for the left or the right subtree.                                *)
LEMMA PartialCall ==
  ASSUME NEW st \in Stacks, st # <<>>, NEW new, NEW at, NEW x, NEW D \in Nat,
         Partial(st, x, D), IsCall(st, new, at),
         LET top == st[Len(st)] IN
           \/ top[2] = "call" /\ at = "left" /\ top[1] > 0
           \/ top[2] = "left" /\ at = "right"
  PROVE  Partial(new, x, D)
<1> DEFINE n == Len(st)  top == st[n]  d == top[1]
<1>1. PICK recs, adds : /\ Frames(st, D, recs, adds)
                        /\ x.cnt = recs[n] + After(top, RecsOf(d - 1))
                        /\ x.pn = adds[n] + After(top, AddsOf(d - 1))
  BY DEF Partial
<1>2. /\ n \in Nat \ {0} /\ n \in 1 .. n /\ d \in Nat \ {0} /\ d - 1 \in Nat
      /\ \A i \in 1 .. n : st[i][1] \in Nat
  BY <1>1, StackFacts DEF Frames
<1> DEFINE r == recs[n] + Before(<<d, at>>, RecsOf(d - 1))
           a == adds[n] + Before(<<d, at>>, AddsOf(d - 1))
           recs2 == [i \in 1 .. n + 1 |-> IF i = n + 1 THEN r ELSE recs[i]]
           adds2 == [i \in 1 .. n + 1 |-> IF i = n + 1 THEN a ELSE adds[i]]
<1>3. /\ recs[n] \in Nat /\ adds[n] \in Nat /\ r \in Nat /\ a \in Nat
      /\ x.cnt = r /\ x.pn = a
      /\ r + RecsOf(d - 1) <= RecsOf(D) /\ a + AddsOf(d - 1) <= AddsOf(D)
  <2>1. recs[n] \in Nat /\ adds[n] \in Nat
    BY <1>1, <1>2 DEF Frames
  <2>2. recs[n] + RecsOf(d) <= RecsOf(D) /\ adds[n] + AddsOf(d) <= AddsOf(D)
    BY <1>1, <1>2 DEF Frames
  <2>3. /\ RecsOf(d - 1) \in Nat /\ AddsOf(d - 1) \in Nat /\ RecsOf(D) \in Nat /\ AddsOf(D) \in Nat
        /\ RecsOf(d) = 2 * RecsOf(d - 1) + 1 /\ AddsOf(d) = 2 * AddsOf(d - 1) + 1
    BY <1>2, SizesDouble
  <2>4. CASE top[2] = "call" /\ at = "left"
    <3>1. r = recs[n] /\ a = adds[n] /\ x.cnt = recs[n] /\ x.pn = adds[n]
      BY <1>1, <2>1, <2>4 DEF Before, After
    <3>2. recs[n] + RecsOf(d - 1) <= RecsOf(D) /\ adds[n] + AddsOf(d - 1) <= AddsOf(D)
      BY <1>2, <2>1, <2>2, RoomForSubtrees
    <3> QED  BY <2>1, <3>1, <3>2
  <2>5. CASE top[2] = "left" /\ at = "right"
    <3>1. /\ r = recs[n] + RecsOf(d - 1) /\ a = adds[n] + AddsOf(d - 1)
          /\ x.cnt = recs[n] + RecsOf(d - 1) /\ x.pn = adds[n] + AddsOf(d - 1)
      BY <1>1, <2>1, <2>5 DEF Before, After
    <3>2. /\ recs[n] + RecsOf(d - 1) + RecsOf(d - 1) <= RecsOf(D)
          /\ adds[n] + AddsOf(d - 1) + AddsOf(d - 1) <= AddsOf(D)
      BY <1>2, <2>1, <2>2, RoomForSubtrees
    <3> DEFINE R == RecsOf(d - 1)  A == AddsOf(d - 1)
    <3>3. R \in Nat /\ A \in Nat
      BY <2>3
    <3> HIDE DEF R, A
    <3>4. recs[n] + R \in Nat /\ adds[n] + A \in Nat
      BY <2>1, <3>3
    <3>5. recs[n] + RecsOf(d - 1) \in Nat /\ adds[n] + AddsOf(d - 1) \in Nat
      BY <3>4 DEF R, A
    <3> QED  BY <2>1, <3>1, <3>2, <3>5, Zenon
  <2> QED  BY <2>4, <2>5
<1>4. at \in {"left", "right"}
  OBVIOUS
<1> HIDE DEF r, a
<1>5. Frames(new, D, recs2, adds2)
  <2>1. recs2 \in [1 .. n + 1 -> Nat] /\ adds2 \in [1 .. n + 1 -> Nat]
    <3>1. recs \in [1 .. n -> Nat] /\ adds \in [1 .. n -> Nat]
      BY <1>1 DEF Frames
    <3>2. \A i \in 1 .. n + 1 : i = n + 1 \/ i \in 1 .. n
      BY <1>2
    <3> QED  BY <1>3, <3>1, <3>2
  <2>2. \A i \in 1 .. n : recs2[i] = recs[i] /\ adds2[i] = adds[i] /\ new[i][1] = st[i][1]
    <3>1. \A i \in 1 .. n : i \in 1 .. n + 1 /\ i # n + 1 /\ (i = n \/ i \in 1 .. n - 1)
      BY <1>2
    <3>2. \A i \in 1 .. n : recs2[i] = recs[i] /\ adds2[i] = adds[i]
      BY <3>1
    <3>3. new[n][1] = d /\ \A i \in 1 .. n - 1 : new[i] = st[i]
      BY DEF IsCall
    <3> QED  BY <3>1, <3>2, <3>3
  <2>3. recs2[n + 1] = r /\ adds2[n + 1] = a /\ new[n + 1] = <<d - 1, "call">> /\ new[n] = <<d, at>>
    BY <1>2 DEF IsCall
  <2>4. Len(new) = n + 1 /\ \A i \in 1 .. n - 1 : new[i] = st[i]
    BY DEF IsCall
  <2> HIDE DEF recs2, adds2
  <2>5. Len(new) >= 1 /\ new[1][1] = D /\ recs2[1] = 0 /\ adds2[1] = 0
    BY <1>1, <1>2, <2>2, <2>4 DEF Frames
  <2>6. ASSUME NEW i \in 1 .. n + 1
        PROVE  /\ recs2[i] + RecsOf(new[i][1]) <= RecsOf(D)
               /\ adds2[i] + AddsOf(new[i][1]) <= AddsOf(D)
               /\ new[i][2] # "call" => new[i][1] > 0
    <3>1. CASE i = n + 1
      BY <1>3, <2>3, <3>1
    <3>2. CASE i = n
      BY <1>1, <1>2, <2>2, <2>3, <3>2 DEF Frames
    <3>3. CASE i \in 1 .. n - 1
      <4>1. i \in 1 .. n /\ new[i] = st[i] /\ recs2[i] = recs[i] /\ adds2[i] = adds[i]
        BY <1>2, <2>2, <2>4, <3>3
      <4>2. /\ recs[i] + RecsOf(st[i][1]) <= RecsOf(D)
            /\ adds[i] + AddsOf(st[i][1]) <= AddsOf(D)
            /\ st[i][2] # "call" => st[i][1] > 0
        BY <1>1, <4>1 DEF Frames
      <4> QED  BY <4>1, <4>2
    <3> QED  BY <1>2, <3>1, <3>2, <3>3
  <2>7. ASSUME NEW i \in 1 .. n
        PROVE  LET e == new[i][1] - 1
               IN  /\ new[i][2] # "call" /\ new[i + 1][1] = e
                   /\ recs2[i + 1] = recs2[i] + Before(new[i], RecsOf(e))
                   /\ adds2[i + 1] = adds2[i] + Before(new[i], AddsOf(e))
    <3>1. CASE i = n
      BY <1>2, <1>4, <2>2, <2>3, <3>1 DEF r, a
    <3>2. CASE i \in 1 .. n - 1
      <4>1. new[i] = st[i] /\ i + 1 \in 1 .. n /\ i \in 1 .. n
        BY <1>2, <2>4, <3>2
      <4> QED  BY <1>1, <1>2, <2>2, <3>2, <4>1 DEF Frames
    <3> QED  BY <1>2, <3>1, <3>2
  <2> QED  BY <1>2, <2>1, <2>4, <2>5, <2>6, <2>7 DEF Frames
<1> HIDE DEF recs2, adds2
<1>6. new # <<>> /\ Len(new) = n + 1 /\ new[n + 1] = <<d - 1, "call">>
  BY <1>2 DEF IsCall
<1>7. recs2[n + 1] = r /\ adds2[n + 1] = a
  BY <1>2 DEF recs2, adds2
<1> QED
  <2>1. /\ x.cnt = recs2[Len(new)] + After(new[Len(new)], RecsOf(new[Len(new)][1] - 1))
        /\ x.pn = adds2[Len(new)] + After(new[Len(new)], AddsOf(new[Len(new)][1] - 1))
    BY <1>3, <1>6, <1>7 DEF After
  <2> QED  BY <1>5, <1>6, <2>1 DEF Partial

(* A frame returns with its tree made: y is the bundle then.                *)
LEMMA PartialReturn ==
  ASSUME NEW st \in Stacks, st # <<>>, NEW new, NEW x, NEW y, NEW D \in Nat,
         Partial(st, x, D), IsReturn(st, new),
         LET top == st[Len(st)]
             d   == top[1]
         IN  /\ y.cnt = x.cnt - After(top, RecsOf(d - 1)) + RecsOf(d)
             /\ y.pn = x.pn - After(top, AddsOf(d - 1)) + AddsOf(d)
  PROVE  Partial(new, y, D) /\ y.cnt \in Nat /\ y.cnt <= RecsOf(D) /\ y.pn \in Nat /\ y.pn <= AddsOf(D)
<1> DEFINE n == Len(st)  top == st[n]  d == top[1]
<1>1. PICK recs, adds : /\ Frames(st, D, recs, adds)
                        /\ x.cnt = recs[n] + After(top, RecsOf(d - 1))
                        /\ x.pn = adds[n] + After(top, AddsOf(d - 1))
  BY DEF Partial
<1>2. /\ n \in Nat \ {0} /\ n \in 1 .. n /\ d \in Nat
      /\ \A i \in 1 .. n : st[i] \in Nat \X Waits
  BY StackFacts
<1>3. recs[n] \in Nat /\ adds[n] \in Nat
  BY <1>1, <1>2 DEF Frames
<1>4. y.cnt = recs[n] + RecsOf(d) /\ y.pn = adds[n] + AddsOf(d)
  <2> DEFINE p == After(top, RecsOf(d - 1))  q == After(top, AddsOf(d - 1))
  <2>1. p \in Int /\ q \in Int
    <3>1. d > 0 => RecsOf(d - 1) \in Int /\ AddsOf(d - 1) \in Int
      <4>1. d > 0 => d - 1 \in Nat
        BY <1>2
      <4> QED  BY <4>1, SizesInt, Zenon
    <3>2. top[2] # "call" => d > 0
      BY <1>1, <1>2 DEF Frames
    <3> QED  BY <3>1, <3>2 DEF After
  <2>2. RecsOf(d) \in Nat /\ AddsOf(d) \in Nat
    BY <1>2, SizesDouble
  <2>3. y.cnt = x.cnt - p + RecsOf(d) /\ y.pn = x.pn - q + AddsOf(d)
        /\ x.cnt = recs[n] + p /\ x.pn = adds[n] + q
    BY <1>1
  <2> HIDE DEF p, q, top
  <2> QED  BY <1>3, <2>1, <2>2, <2>3
<1>5. recs[n] + RecsOf(d) <= RecsOf(D) /\ adds[n] + AddsOf(d) <= AddsOf(D)
  BY <1>1, <1>2 DEF Frames
<1>6. RecsOf(d) \in Nat /\ AddsOf(d) \in Nat
  BY <1>2, SizesDouble
<1>7. Partial(new, y, D)
  <2>1. CASE n = 1
    <3>1. new = <<>>
      BY <2>1 DEF IsReturn, Stacks
    <3>2. recs[n] = 0 /\ adds[n] = 0 /\ d = D
      BY <1>1, <2>1 DEF Frames
    <3> QED  BY <1>4, <1>6, <3>1, <3>2 DEF Partial
  <2>2. CASE n > 1
    <3> DEFINE m == n - 1  f == st[m]
               recs2 == [i \in 1 .. m |-> recs[i]]
               adds2 == [i \in 1 .. m |-> adds[i]]
    <3>1. m \in Nat \ {0} /\ m \in 1 .. n - 1 /\ m \in 1 .. n /\ m + 1 = n
      BY <1>2, <2>2
    <3>2. Len(new) = m /\ new # <<>> /\ new[m] = f /\ \A i \in 1 .. m : new[i] = st[i]
      BY <3>1 DEF IsReturn
    <3>3. /\ f[2] # "call" /\ d = f[1] - 1 /\ f[2] \in Waits
          /\ recs[n] = recs[m] + Before(f, RecsOf(d)) /\ adds[n] = adds[m] + Before(f, AddsOf(d))
          /\ recs[m] \in Nat /\ adds[m] \in Nat
      <4>1. LET e == st[m][1] - 1
            IN  /\ st[m][2] # "call" /\ st[m + 1][1] = e
                /\ recs[m + 1] = recs[m] + Before(st[m], RecsOf(e))
                /\ adds[m + 1] = adds[m] + Before(st[m], AddsOf(e))
        BY <1>1, <3>1 DEF Frames
      <4>2. recs[m] \in Nat /\ adds[m] \in Nat
        BY <1>1, <3>1 DEF Frames
      <4> QED  BY <1>2, <3>1, <4>1, <4>2
    <3>4. y.cnt = recs[m] + After(f, RecsOf(d)) /\ y.pn = adds[m] + After(f, AddsOf(d))
      <4>1. f[2] = "left" \/ f[2] = "right"
        BY <3>3 DEF Waits
      <4>2. /\ y.cnt = recs[m] + Before(f, RecsOf(d)) + RecsOf(d)
            /\ y.pn = adds[m] + Before(f, AddsOf(d)) + AddsOf(d)
        BY <1>4, <3>3
      <4> DEFINE R == RecsOf(d)  A == AddsOf(d)  r == recs[m]  a == adds[m]
      <4>3. r \in Nat /\ a \in Nat /\ R \in Int /\ A \in Int
        BY <1>2, <3>3, SizesInt
      <4>4. y.cnt = r + Before(f, R) + R /\ y.pn = a + Before(f, A) + A
        BY <4>2
      <4> HIDE DEF R, A, r, a
      <4>5. y.cnt = r + After(f, R) /\ y.pn = a + After(f, A)
        BY <4>1, <4>3, <4>4 DEF Before, After
      <4> QED  BY <4>5 DEF R, A, r, a
    <3>5. Frames(new, D, recs2, adds2)
      <4>1. recs2 \in [1 .. m -> Nat] /\ adds2 \in [1 .. m -> Nat]
        BY <1>1, <3>1 DEF Frames
      <4>2. \A i \in 1 .. m : recs2[i] = recs[i] /\ adds2[i] = adds[i] /\ i \in 1 .. n
        BY <3>1
      <4> HIDE DEF recs2, adds2, m
      <4>3. new[1][1] = D /\ recs2[1] = 0 /\ adds2[1] = 0 /\ Len(new) >= 1
        BY <1>1, <3>1, <3>2, <4>2 DEF Frames
      <4>4. \A i \in 1 .. m : /\ recs2[i] + RecsOf(new[i][1]) <= RecsOf(D)
                              /\ adds2[i] + AddsOf(new[i][1]) <= AddsOf(D)
                              /\ new[i][2] # "call" => new[i][1] > 0
        BY <1>1, <3>2, <4>2 DEF Frames
      <4>5. ASSUME NEW i \in 1 .. m - 1
            PROVE  LET e == new[i][1] - 1
                   IN  /\ new[i][2] # "call" /\ new[i + 1][1] = e
                       /\ recs2[i + 1] = recs2[i] + Before(new[i], RecsOf(e))
                       /\ adds2[i + 1] = adds2[i] + Before(new[i], AddsOf(e))
        <5>1. i \in 1 .. m /\ i + 1 \in 1 .. m /\ i \in 1 .. n - 1
          BY <3>1
        <5> QED  BY <1>1, <3>2, <4>2, <5>1 DEF Frames
      <4> QED  BY <3>2, <4>1, <4>3, <4>4, <4>5 DEF Frames
    <3> HIDE DEF recs2, adds2
    <3>6. recs2[m] = recs[m] /\ adds2[m] = adds[m]
      BY <3>1 DEF recs2, adds2
    <3> QED  BY <3>2, <3>3, <3>4, <3>5, <3>6 DEF Partial
  <2>3. n = 1 \/ n > 1
    BY <1>2, OneOrMore, Zenon
  <2> QED  BY <2>1, <2>2, <2>3
<1> QED  BY <1>3, <1>4, <1>5, <1>6, <1>7

-----------------------------------------------------------------------------
(* Programs and bundles *)

IsCtl(c) ==
  /\ c = [pc |-> c.pc, stack |-> c.stack, ret |-> c.ret, i |-> c.i, leaked |-> c.leaked,
          slot |-> c.slot, map |-> c.map]
  /\ c.stack \in Stacks /\ c.i \in Nat

(* Records made now or in the last finished export have a type.             *)
IsBundle(x) ==
  /\ x = [cnt |-> x.cnt, n |-> x.n, pn |-> x.pn, pair |-> x.pair, type |-> x.type,
          port |-> x.port]
  /\ x.cnt \in 0 .. XMAX /\ x.n \in 0 .. XMAX /\ x.pn \in 0 .. PAIRMAX
  /\ x.type \in [RecIdx -> 0 .. 4]
  /\ \A k \in RecIdx : k <= x.cnt \/ k <= x.n => x.type[k] \in Type

LEMMA WaitingStack ==
  ASSUME NEW c, IsCtl(c), c.stack # <<>>, c.stack[Len(c.stack)][1] > 0, NEW at \in Waits
  PROVE  /\ IsCtl(Waiting(c, at)) /\ Waiting(c, at).pc = c.pc /\ Waiting(c, at).i = c.i
         /\ Waiting(c, at).stack =
              [c.stack EXCEPT ![Len(c.stack)] = <<c.stack[Len(c.stack)][1], at>>]
<1> DEFINE s == c.stack  n == Len(s)  t == s[n]  e == <<t[1], at>>
           new == [s EXCEPT ![n] = e]
<1>1. s \in Stacks /\ t \in Nat \X Waits
  BY StackFacts DEF IsCtl
<1>2. [t EXCEPT ![2] = at] = e
  <2> HIDE DEF t
  <2> QED  BY <1>1
<1>3. [s EXCEPT ![n][2] = at] = [s EXCEPT ![n] = [t EXCEPT ![2] = at]]
  OBVIOUS
<1>4. [s EXCEPT ![n][2] = at] = new
  BY <1>2, <1>3, Zenon
<1>5. e \in FrameSet
  BY <1>1 DEF FrameSet
<1>6. new \in Stacks
  <2> HIDE DEF e
  <2> QED  BY <1>1, <1>5 DEF Stacks
<1>7. Waiting(c, at) = [c EXCEPT !.stack = new]
  <2>1. Waiting(c, at) = [c EXCEPT !.stack = [s EXCEPT ![n][2] = at]]
    BY DEF Waiting, IsCtl
  <2> QED  BY <1>4, <2>1, Zenon
<1> HIDE DEF new
<1>8. IsCtl(Waiting(c, at)) /\ Waiting(c, at).pc = c.pc /\ Waiting(c, at).i = c.i /\ Waiting(c, at).stack = new
  BY <1>6, <1>7 DEF IsCtl
<1> QED  BY <1>8 DEF new

(* The two parts of a call.                                                 *)
LEMMA CallStack ==
  ASSUME NEW c, IsCtl(c), c.stack # <<>>, c.stack[Len(c.stack)][1] > 0, NEW at \in Waits
  PROVE  LET d == c.stack[Len(c.stack)][1] - 1
             g == Called(Waiting(c, at), d)
         IN  IsCtl(g) /\ g.pc = c.pc /\ g.i = c.i /\ IsCall(c.stack, g.stack, at)
<1> DEFINE s == c.stack  n == Len(s)  d == s[n][1] - 1
           w == Waiting(c, at)  e == <<s[n][1], at>>  ws == [s EXCEPT ![n] = e]
           f == <<d, "call">>  new == Append(ws, f)  g == Called(w, d)
<1>1. /\ s \in Stacks /\ n \in Nat \ {0} /\ n \in 1 .. n /\ s[n] \in Nat \X Waits /\ s[n][1] > 0
      /\ Len(s) = n
  BY StackFacts DEF IsCtl
<1>2. e \in FrameSet /\ f \in FrameSet
  <2>1. d \in Nat
    BY <1>1
  <2> QED  BY <1>1, <2>1 DEF Waits, FrameSet
<1>3. IsCtl(w) /\ w.pc = c.pc /\ w.i = c.i /\ w.stack = ws
  BY WaitingStack
<1>4. g = [w EXCEPT !.stack = new]
  <2>1. g = [w EXCEPT !.stack = Append(w.stack, f)]
    BY <1>3 DEF Called, IsCtl
  <2> QED  BY <1>3, <2>1, Zenon
<1> HIDE DEF e, f, w
<1>5. ws \in Stacks /\ Len(ws) = n /\ ws[n] = e /\ \A i \in 1 .. n - 1 : ws[i] = s[i]
  BY <1>1, <1>2 DEF Stacks
<1> HIDE DEF ws, n
<1>6. new \in Stacks /\ Len(new) = n + 1 /\ new[n + 1] = f /\ \A i \in 1 .. n : new[i] = ws[i]
  BY <1>2, <1>5 DEF Stacks
<1> HIDE DEF new, g
<1>7. IsCtl(g) /\ g.pc = c.pc /\ g.i = c.i /\ g.stack = new
  BY <1>3, <1>4, <1>6 DEF IsCtl
<1>8. IsCall(s, new, at)
  <2>1. /\ new \in Stacks /\ Len(new) = n + 1 /\ \A i \in 1 .. n - 1 : new[i] = s[i]
        /\ new[n] = e /\ new[n + 1] = f
    BY <1>1, <1>5, <1>6
  <2> QED  BY <2>1 DEF IsCall, e, f, n
<1> QED  BY <1>7, <1>8 DEF g, w, n

LEMMA ReturnStack ==
  ASSUME NEW c, IsCtl(c), c.stack # <<>>, NEW a
  PROVE  LET g == Return(c, a)
         IN  IsCtl(g) /\ g.pc = c.pc /\ g.i = c.i /\ IsReturn(c.stack, g.stack)
<1> DEFINE s == c.stack  n == Len(s)  new == SubSeq(s, 1, n - 1)  g == Return(c, a)
<1>1. s \in Stacks /\ n \in Nat \ {0}
  BY StackFacts DEF IsCtl
<1>2. new \in Stacks /\ Len(new) = n - 1 /\ \A i \in 1 .. n - 1 : new[i] = s[i]
  BY <1>1 DEF Stacks
<1>3. g = [c EXCEPT !.stack = new, !.ret = a]
  BY DEF Return, Popped, IsCtl
<1> HIDE DEF new, g
<1>4. IsCtl(g) /\ g.pc = c.pc /\ g.i = c.i /\ g.stack = new
  BY <1>2, <1>3 DEF IsCtl
<1> QED  BY <1>2, <1>4 DEF IsReturn, g

(* A record more, of some type.                                             *)
LEMMA XAllocBundle ==
  ASSUME NEW x, IsBundle(x), x.cnt + 1 <= XMAX, NEW t \in Type
  PROVE  LET y == XAlloc(x, t)
         IN  IsBundle(y) /\ y.cnt = x.cnt + 1 /\ y.pn = x.pn /\ y.n = x.n
<1> DEFINE k == x.cnt + 1  T == [x.type EXCEPT ![k] = t]  y == XAlloc(x, t)
<1>1. k \in RecIdx /\ k \in 0 .. XMAX /\ t \in 0 .. 4 /\ x.cnt \in Nat
  BY ParAssumption DEF IsBundle, RecIdx, Type
<1>2. T \in [RecIdx -> 0 .. 4] /\ \A j \in RecIdx : T[j] = IF j = k THEN t ELSE x.type[j]
  BY <1>1 DEF IsBundle
<1>3. y = [x EXCEPT !.cnt = k, !.type = T]
  BY DEF XAlloc, IsBundle
<1>4. \A j \in RecIdx : j <= k \/ j <= x.n => T[j] \in Type
  <2>1. \A j \in RecIdx : j # k /\ j <= k => j <= x.cnt
    BY <1>1 DEF RecIdx
  <2> QED  BY <1>2, <2>1 DEF IsBundle
<1> HIDE DEF k, T, y
<1>5. IsBundle(y) /\ y.cnt = k /\ y.pn = x.pn /\ y.n = x.n
  BY <1>1, <1>2, <1>3, <1>4 DEF IsBundle
<1> QED  BY <1>5 DEF y, k

LEMMA ConnectXBundle ==
  ASSUME NEW x, IsBundle(x), NEW p, NEW q
  PROVE  LET y == ConnectX(x, p, q)
         IN  IsBundle(y) /\ y.cnt = x.cnt /\ y.pn = x.pn /\ y.n = x.n
<1> DEFINE P == [x.port EXCEPT ![p] = q, ![q] = p]  y == ConnectX(x, p, q)
<1>1. y = [x EXCEPT !.port = P]
  BY DEF ConnectX, IsBundle
<1> HIDE DEF P, y
<1>2. IsBundle(y) /\ y.cnt = x.cnt /\ y.pn = x.pn /\ y.n = x.n
  BY <1>1 DEF IsBundle
<1> QED  BY <1>2 DEF y

-----------------------------------------------------------------------------
(* The invariant: what the VMs are at while the host exports, starts and    *)
(* joins. The export that runs is the one the host waits for, and it ends   *)
(* with ERR 1; a VM that has been started has a sound pool.                 *)

Typed == /\ DEPTH \in DEPTHS
         /\ heap = [v \in VM |-> heap[v]] /\ ctl = [v \in VM |-> ctl[v]]
         /\ xbuf = [v \in VM |-> xbuf[v]]
         /\ \A v \in VM : IsHeap(heap[v]) /\ IsCtl(ctl[v]) /\ IsBundle(xbuf[v])
         /\ host = [pc |-> host.pc, i |-> host.i]

Exporting(h, c, x) == \/ c.pc = "halted" /\ h.err = 1
                      \/ c.pc = "export" /\ Partial(c.stack, x, DEPTH[host.i])

HostInv ==
  \/ host.pc = "export" /\ host.i \in 1 .. LastVM + 1 /\ ctl[0].pc \in {"idle", "halted"}
  \/ host.pc = "exporting" /\ host.i \in 1 .. LastVM /\ Exporting(heap[0], ctl[0], xbuf[0])
  \/ host.pc = "start" /\ host.i \in 1 .. LastVM
  \/ host.pc \in {"join", "ok", "failed"}

VMInv(v) == IF Started(v) THEN ctl[v].pc \notin {"idle", "export"} /\ SoundPool(heap[v])
            ELSE v # 0 => ctl[v].pc = "idle"

ParInv == Typed /\ HostInv /\ \A v \in VM : VMInv(v)

LEMMA VMs == LastVM \in Nat /\ VM = 0 .. LastVM /\ 0 \in VM
BY ParAssumption DEF LastVM

(* The depths of exported trees, and the room for their bundles.            *)
LEMMA ExportFits ==
  ASSUME Typed, NEW i \in 1 .. LastVM
  PROVE  /\ i \in VM /\ DEPTH[i] \in Nat /\ RecsOf(DEPTH[i]) + 1 <= XMAX
         /\ AddsOf(DEPTH[i]) <= PAIRMAX
         /\ RecsOf(DEPTH[i]) \in Nat /\ AddsOf(DEPTH[i]) \in Nat
<1>1. i \in VM \ {0} /\ DEPTH \in DEPTHS
  BY VMs DEF Typed
<1>2. DEPTH[i] \in Nat
  BY <1>1, ParAssumption
<1>3. TreeSize(DEPTH[i]) <= XMAX /\ Leaves[DEPTH[i]] <= PAIRMAX + 1
  BY <1>1, BufferAssumption
<1>4. Leaves[DEPTH[i]] \in Nat /\ Leaves[DEPTH[i]] >= 1
  BY <1>2, LeavesDouble
<1> DEFINE l == Leaves[DEPTH[i]]
<1>5. 3 * l <= XMAX /\ RecsOf(DEPTH[i]) = 3 * l - 1 /\ AddsOf(DEPTH[i]) = l - 1
  BY <1>3 DEF TreeSize, RecsOf, AddsOf
<1> HIDE DEF l
<1>6. 3 * l - 1 + 1 <= XMAX /\ l - 1 <= PAIRMAX /\ 3 * l - 1 \in Nat /\ l - 1 \in Nat
  BY <1>3, <1>4, <1>5, ParAssumption DEF l
<1> QED  BY <1>1, <1>2, <1>5, <1>6

(* A step of VM v's program.                                                *)
LEMMA VMStep ==
  ASSUME ParInv, NEW v \in VM, Running(v), NEW h, NEW c, NEW x,
         heap' = [heap EXCEPT ![v] = h], ctl' = [ctl EXCEPT ![v] = c],
         xbuf' = [xbuf EXCEPT ![v] = x], UNCHANGED <<host, DEPTH>>,
         IsHeap(h), IsCtl(c), IsBundle(x),
         IF ctl[v].pc = "export" THEN v = 0 /\ host.pc = "exporting" => Exporting(h, c, x)
         ELSE c.pc \notin {"idle", "export"} /\ (SoundPool(heap[v]) => SoundPool(h))
  PROVE  ParInv'
<1>1. 0 \in VM /\ ctl[v].pc \notin {"idle", "halted"}
  BY VMs DEF Running
<1>2. ctl[v].pc = "export" => v = 0 /\ host.pc = "exporting" /\ ~Started(v)
  BY <1>1 DEF ParInv, VMInv, HostInv, Started
<1>3. ctl[v].pc # "export" => Started(v)
  BY <1>1 DEF ParInv, VMInv, HostInv, Started, Exporting
<1>4. /\ heap'[v] = h /\ ctl'[v] = c /\ xbuf'[v] = x
      /\ \A w \in VM : w # v => heap'[w] = heap[w] /\ ctl'[w] = ctl[w] /\ xbuf'[w] = xbuf[w]
  BY DEF ParInv, Typed
<1>5. Typed'
  BY <1>4 DEF ParInv, Typed
<1>6. \A w \in VM : Started(w)' <=> Started(w)
  BY DEF Started
<1>7. HostInv'
  <2>1. CASE ctl[v].pc = "export"
    <3>1. Exporting(h, c, x)' /\ host'.pc = "exporting" /\ host'.i \in 1 .. LastVM
      BY <1>2, <2>1 DEF ParInv, HostInv, Exporting
    <3> QED  BY <1>2, <1>4, <2>1, <3>1 DEF HostInv, Exporting
  <2>2. CASE ctl[v].pc # "export"
    <3>1. v # 0 \/ host.pc \in {"start", "join", "ok", "failed"}
      BY <1>3, <2>2 DEF Started
    <3>2. v # 0 => heap'[0] = heap[0] /\ ctl'[0] = ctl[0] /\ xbuf'[0] = xbuf[0]
      BY <1>1, <1>4
    <3> QED  BY <3>1, <3>2 DEF ParInv, HostInv, Exporting
  <2> QED  BY <2>1, <2>2
<1>8. ASSUME NEW w \in VM  PROVE VMInv(w)'
  <2>1. CASE w = v
    BY <1>2, <1>3, <1>4, <1>6, <2>1 DEF ParInv, VMInv
  <2>2. CASE w # v
    BY <1>4, <1>6, <2>2 DEF ParInv, VMInv
  <2> QED  BY <2>1, <2>2
<1> QED  BY <1>5, <1>7, <1>8 DEF ParInv

(* What a step leaves alone.                                                *)
LEMMA Same ==
  ASSUME Typed, NEW v \in VM
  PROVE  /\ heap = [heap EXCEPT ![v] = heap[v]] /\ ctl = [ctl EXCEPT ![v] = ctl[v]]
         /\ xbuf = [xbuf EXCEPT ![v] = xbuf[v]]
         /\ IsHeap(heap[v]) /\ IsCtl(ctl[v]) /\ IsBundle(xbuf[v])
BY DEF Typed

(* The frame a step is taken at.                                            *)
LEMMA TopFrame ==
  ASSUME Typed, NEW v \in VM, NEW at, At(v, at)
  PROVE  LET s == ctl[v].stack
         IN  /\ s \in Stacks /\ s # <<>> /\ Frame(v) = s[Len(s)] /\ Frame(v)[2] = at
             /\ Frame(v)[1] \in Nat /\ (at # "call" => Frame(v)[1] > 0)
<1>1. ctl[v].stack \in Stacks /\ ctl[v].stack # <<>> /\ Frame(v)[2] = at
  BY DEF Typed, IsCtl, At
<1>2. Len(ctl[v].stack) \in 1 .. Len(ctl[v].stack)
  BY <1>1, StackFacts
<1>3. Frame(v) \in FrameSet
  BY <1>1, <1>2 DEF Stacks, Frame
<1> QED  BY <1>1, <1>3 DEF FrameSet, Frame

(* An export that runs is the one of the host's present depth.              *)
LEMMA ExportRuns ==
  ASSUME ParInv, NEW v \in VM, ctl[v].pc = "export"
  PROVE  /\ host.i \in 1 .. LastVM /\ DEPTH[host.i] \in Nat
         /\ Partial(ctl[v].stack, xbuf[v], DEPTH[host.i])
<1>1. v = 0 /\ host.pc = "exporting"
  BY DEF ParInv, VMInv, HostInv, Started
<1>2. host.i \in 1 .. LastVM /\ Exporting(heap[0], ctl[0], xbuf[0])
  BY <1>1 DEF ParInv, HostInv
<1> QED  BY <1>1, <1>2, ExportFits DEF Exporting, ParInv

LEMMA CallLeftKeeps ==
  ASSUME ParInv, NEW v \in VM, CallLeft(v), UNCHANGED DEPTH
  PROVE  ParInv'
<1> DEFINE s == ctl[v].stack  d == Frame(v)[1]  c == Called(Waiting(ctl[v], "left"), d - 1)
<1>1. ctl[v].pc \in {"export", "build"} /\ At(v, "call") /\ d > 0 /\ Typed
  BY DEF CallLeft, ParInv
<1>2. s \in Stacks /\ s # <<>> /\ Frame(v) = s[Len(s)] /\ Frame(v)[2] = "call"
  BY <1>1, TopFrame
<1>3. IsCtl(c) /\ c.pc = ctl[v].pc /\ IsCall(s, c.stack, "left")
  BY <1>1, <1>2, Same, CallStack DEF Waits
<1>4. /\ ctl' = [ctl EXCEPT ![v] = c] /\ heap' = [heap EXCEPT ![v] = heap[v]]
      /\ xbuf' = [xbuf EXCEPT ![v] = xbuf[v]] /\ UNCHANGED host
  BY <1>1, Same DEF CallLeft
<1> HIDE DEF c
<1>5. ASSUME ctl[v].pc = "export"  PROVE Exporting(heap[v], c, xbuf[v])
  <2>1. Partial(s, xbuf[v], DEPTH[host.i]) /\ DEPTH[host.i] \in Nat
    BY <1>5, ExportRuns
  <2>2. Partial(c.stack, xbuf[v], DEPTH[host.i])
    BY <1>1, <1>2, <1>3, <2>1, PartialCall
  <2> QED  BY <1>3, <1>5, <2>2 DEF Exporting
<1> QED  BY <1>1, <1>3, <1>4, <1>5, Same, VMStep DEF Running

LEMMA CallRightKeeps ==
  ASSUME ParInv, NEW v \in VM, CallRight(v), UNCHANGED DEPTH
  PROVE  ParInv'
<1> DEFINE s == ctl[v].stack  d == Frame(v)[1]
           b == [ctl[v] EXCEPT !.slot[d].l = ctl[v].ret]
           c == Called(Waiting(b, "right"), d - 1)
<1>1. ctl[v].pc \in {"export", "build"} /\ At(v, "left") /\ Typed
  BY DEF CallRight, ParInv
<1>2. s \in Stacks /\ s # <<>> /\ Frame(v) = s[Len(s)] /\ Frame(v)[2] = "left" /\ d > 0
  BY <1>1, TopFrame
<1>3. IsCtl(b) /\ b.pc = ctl[v].pc /\ b.stack = s
  <2> DEFINE new == [ctl[v].slot EXCEPT ![d].l = ctl[v].ret]
  <2>1. IsCtl(ctl[v])
    BY <1>1, Same
  <2>2. b = [ctl[v] EXCEPT !.slot = new]
    BY <2>1 DEF IsCtl
  <2> HIDE DEF new, b
  <2> QED  BY <2>1, <2>2 DEF IsCtl
<1>4. IsCtl(c) /\ c.pc = ctl[v].pc /\ IsCall(s, c.stack, "right")
  <2> HIDE DEF b
  <2> QED  BY <1>2, <1>3, CallStack DEF Waits
<1>5. /\ ctl' = [ctl EXCEPT ![v] = c] /\ heap' = [heap EXCEPT ![v] = heap[v]]
      /\ xbuf' = [xbuf EXCEPT ![v] = xbuf[v]] /\ UNCHANGED host
  BY <1>1, Same DEF CallRight
<1> HIDE DEF c
<1>6. ASSUME ctl[v].pc = "export"  PROVE Exporting(heap[v], c, xbuf[v])
  <2>1. Partial(s, xbuf[v], DEPTH[host.i]) /\ DEPTH[host.i] \in Nat
    BY <1>6, ExportRuns
  <2>2. Partial(c.stack, xbuf[v], DEPTH[host.i])
    BY <1>2, <1>4, <2>1, PartialCall
  <2> QED  BY <1>4, <1>6, <2>2 DEF Exporting
<1> QED  BY <1>1, <1>4, <1>5, <1>6, Same, VMStep DEF Running

(* build_tree: two newags, or one, and port cells and ring besides.         *)
LEMMA BuildLeafKeeps ==
  ASSUME ParInv, NEW v \in VM, BuildLeaf(v), UNCHANGED DEPTH
  PROVE  ParInv'
<1> DEFINE h == heap[v]  z == h.free  h1 == NewAg(h, Zero)  a == h1.free  h2 == NewAg(h1, Add1)
           g == Connect(h2, <<z, 0>>, <<a, 1>>)  c == Return(ctl[v], a)
<1>1. ctl[v].pc = "build" /\ At(v, "call") /\ z # 0 /\ a # 0 /\ Typed
  BY DEF BuildLeaf, IsLeaf, ParInv
<1>2. IsCtl(c) /\ c.pc = "build"
  BY <1>1, TopFrame, ReturnStack, Same
<1>3. IsHeap(h2) /\ (SoundPool(h) => SoundPool(h2))
  <2>1. Zero \in Type /\ Add1 \in Type
    BY DEF Zero, Add1, Type
  <2>2. Started(v)
    BY <1>1 DEF ParInv, VMInv, HostInv, Started, Exporting
  <2>3. SoundPool(h)
    BY <2>2 DEF ParInv, VMInv
  <2>4. SoundPool(h1)
    BY <1>1, <2>1, <2>3, NewAgPool
  <2> HIDE DEF h1
  <2>5. SoundPool(h2)
    BY <1>1, <2>1, <2>4, NewAgPool
  <2> QED  BY <2>5 DEF SoundPool
<1> HIDE DEF h2
<1>4. IsHeap(g) /\ (SoundPool(h) => SoundPool(g))
  BY <1>3, ConnectBeside, BesidePool DEF Beside
<1>5. /\ ctl' = [ctl EXCEPT ![v] = c] /\ heap' = [heap EXCEPT ![v] = g]
      /\ xbuf' = [xbuf EXCEPT ![v] = xbuf[v]] /\ UNCHANGED host
  BY <1>1, Same DEF BuildLeaf, h2
<1> HIDE DEF c, g
<1> QED  BY <1>1, <1>2, <1>4, <1>5, Same, VMStep DEF Running

LEMMA BuildNodeKeeps ==
  ASSUME ParInv, NEW v \in VM, BuildNode(v), UNCHANGED DEPTH
  PROVE  ParInv'
<1> DEFINE h == heap[v]  d == Frame(v)[1]  l == ctl[v].slot[d].l  r == ctl[v].ret
           add == h.free  h1 == NewAg(h, Add)
           h2 == Connect(h1, <<add, 0>>, Iface(h1, l))
           h3 == Connect(h2, <<add, 1>>, Iface(h1, r))
           g == Enq(h3, add)
           b == [ctl[v] EXCEPT !.slot[d].r = r]  c == Return(b, add)
<1>1. ctl[v].pc = "build" /\ At(v, "right") /\ add # 0 /\ Typed
  BY DEF BuildNode, ParInv
<1>2. IsCtl(b) /\ b.pc = "build" /\ b.stack = ctl[v].stack
  <2> DEFINE new == [ctl[v].slot EXCEPT ![d].r = r]
  <2>1. IsCtl(ctl[v])
    BY <1>1, Same
  <2>2. b = [ctl[v] EXCEPT !.slot = new]
    BY <2>1 DEF IsCtl
  <2> HIDE DEF new, b
  <2> QED  BY <1>1, <2>1, <2>2 DEF IsCtl
<1>3. IsCtl(c) /\ c.pc = "build"
  <2>1. b.stack # <<>>
    BY <1>1, <1>2, TopFrame
  <2> HIDE DEF b
  <2> QED  BY <1>2, <2>1, ReturnStack
<1>4. SoundPool(h) /\ SoundPool(h1)
  <2>1. Started(v)
    BY <1>1 DEF ParInv, VMInv, HostInv, Started, Exporting
  <2>2. SoundPool(h) /\ Add \in Type
    BY <2>1 DEF ParInv, VMInv, Add, Type
  <2> QED  BY <1>1, <2>2, NewAgPool
<1>5. SoundPool(g)
  <2> HIDE DEF h1, add, l, r
  <2>1. SoundPool(h2)
    BY <1>4, ConnectBeside, BesidePool DEF SoundPool
  <2> HIDE DEF h2
  <2>2. SoundPool(h3)
    BY <2>1, ConnectBeside, BesidePool DEF SoundPool
  <2> HIDE DEF h3
  <2> QED  BY <2>2, EnqBeside, BesidePool DEF SoundPool
<1>6. /\ ctl' = [ctl EXCEPT ![v] = c] /\ heap' = [heap EXCEPT ![v] = g]
      /\ xbuf' = [xbuf EXCEPT ![v] = xbuf[v]] /\ UNCHANGED host
  BY <1>1, Same DEF BuildNode
<1> HIDE DEF c, g
<1> QED  BY <1>1, <1>3, <1>4, <1>5, <1>6, Same, VMStep DEF Running, SoundPool

(* A step that changes the place in the program and nothing it depends on.  *)
LEMMA AtPlace ==
  ASSUME NEW c, IsCtl(c), NEW pc
  PROVE  IsCtl([c EXCEPT !.pc = pc]) /\ [c EXCEPT !.pc = pc].pc = pc
BY DEF IsCtl

LEMMA BuildRootKeeps ==
  ASSUME ParInv, NEW v \in VM, BuildRoot(v), UNCHANGED DEPTH
  PROVE  ParInv'
<1> DEFINE h == heap[v]  root == ctl[v].ret  end == h.free  h1 == NewAg(h, End)
           h2 == Connect(h1, <<root, 2>>, <<end, 0>>)  g == Enq(h2, root)
           c == [ctl[v] EXCEPT !.pc = "driver"]
<1>1. ctl[v].pc = "build" /\ end # 0 /\ Typed
  BY DEF BuildRoot, ParInv
<1>2. IsCtl(c) /\ c.pc = "driver"
  BY <1>1, Same, AtPlace
<1>3. SoundPool(h) /\ SoundPool(h1)
  <2>1. Started(v)
    BY <1>1 DEF ParInv, VMInv, HostInv, Started, Exporting
  <2>2. SoundPool(h) /\ End \in Type
    BY <2>1 DEF ParInv, VMInv, End, Type
  <2> QED  BY <1>1, <2>2, NewAgPool
<1>4. SoundPool(g)
  <2> HIDE DEF h1, root, end
  <2>1. SoundPool(h2)
    BY <1>3, ConnectBeside, BesidePool DEF SoundPool
  <2> HIDE DEF h2
  <2> QED  BY <2>1, EnqBeside, BesidePool DEF SoundPool
<1>5. /\ ctl' = [ctl EXCEPT ![v] = c] /\ heap' = [heap EXCEPT ![v] = g]
      /\ xbuf' = [xbuf EXCEPT ![v] = xbuf[v]] /\ UNCHANGED host
  BY <1>1, Same DEF BuildRoot
<1> HIDE DEF c, g
<1> QED  BY <1>1, <1>2, <1>3, <1>4, <1>5, Same, VMStep DEF Running, SoundPool

LEMMA BuildOomKeeps ==
  ASSUME ParInv, NEW v \in VM, BuildOom(v), UNCHANGED DEPTH
  PROVE  ParInv'
<1> DEFINE h == heap[v]
           h1 == IF IsLeaf(v) /\ h.free # 0 THEN NewAg(h, Zero) ELSE h
           g == Oom(h1)  c == Halted(ctl[v])
<1>1. ctl[v].pc = "build" /\ Typed
  BY DEF BuildOom, ParInv
<1>2. IsCtl(c) /\ c.pc = "halted"
  BY <1>1, Same, AtPlace DEF Halted
<1>3. SoundPool(h) /\ SoundPool(h1)
  <2>1. Started(v)
    BY <1>1 DEF ParInv, VMInv, HostInv, Started, Exporting
  <2>2. SoundPool(h) /\ Zero \in Type
    BY <2>1 DEF ParInv, VMInv, Zero, Type
  <2> QED  BY <2>2, NewAgPool
<1>4. SoundPool(g)
  <2> HIDE DEF h1
  <2> QED  BY <1>3, OomPool DEF Oom
<1>5. /\ ctl' = [ctl EXCEPT ![v] = c] /\ heap' = [heap EXCEPT ![v] = g]
      /\ xbuf' = [xbuf EXCEPT ![v] = xbuf[v]] /\ UNCHANGED host
  BY <1>1, Same DEF BuildOom
<1> HIDE DEF c, g
<1> QED  BY <1>1, <1>2, <1>3, <1>4, <1>5, Same, VMStep DEF Running, SoundPool

(* A frame of the export returns, and there was room for what it made.      *)
LEMMA ExportReturn ==
  ASSUME ParInv, NEW v \in VM, ctl[v].pc = "export", ctl[v].stack # <<>>, NEW new,
         IsReturn(ctl[v].stack, new), NEW p \in Nat, NEW q \in Nat,
         LET top == ctl[v].stack[Len(ctl[v].stack)]
             d   == top[1]
         IN  \/ top[2] = "call" /\ d = 0 /\ p = 2 /\ q = 0
             \/ top[2] = "right" /\ d > 0 /\ p = 1 /\ q = 1
  PROVE  /\ xbuf[v].cnt + p <= XMAX /\ xbuf[v].pn + q <= PAIRMAX
         /\ \A y : y.cnt = xbuf[v].cnt + p /\ y.pn = xbuf[v].pn + q
                   => Partial(new, y, DEPTH[host.i])
<1> DEFINE s == ctl[v].stack  top == s[Len(s)]  d == top[1]  x == xbuf[v]  D == DEPTH[host.i]
           y == [cnt |-> x.cnt + p, pn |-> x.pn + q]
           R == After(top, RecsOf(d - 1))  A == After(top, AddsOf(d - 1))
<1>1. Partial(s, x, D) /\ D \in Nat /\ host.i \in 1 .. LastVM
  BY ExportRuns
<1>2. s \in Stacks /\ IsBundle(x) /\ d \in Nat /\ Typed
  <2>1. s \in Stacks /\ IsBundle(x) /\ Typed
    BY Same DEF ParInv, IsCtl
  <2> QED  BY <2>1, StackFacts
<1>3. x.cnt \in Nat /\ x.pn \in Nat
  BY <1>2 DEF IsBundle
<1>4. R \in Nat /\ A \in Nat /\ RecsOf(d) = R + p /\ AddsOf(d) = A + q
  <2>1. CASE top[2] = "call" /\ d = 0 /\ p = 2 /\ q = 0
    BY <2>1, SizesDouble DEF After
  <2>2. CASE top[2] = "right" /\ d > 0 /\ p = 1 /\ q = 1
    <3> DEFINE r == RecsOf(d - 1)  a == AddsOf(d - 1)
    <3>1. r \in Nat /\ a \in Nat /\ RecsOf(d) = 2 * r + 1 /\ AddsOf(d) = 2 * a + 1
      <4>1. d \in Nat \ {0} /\ d - 1 \in Nat
        BY <1>2, <2>2
      <4> QED  BY <4>1, SizesDouble
    <3>2. R = r + r /\ A = a + a
      BY <2>2 DEF After
    <3> HIDE DEF r, a
    <3> QED  BY <2>2, <3>1, <3>2
  <2> QED  BY <2>1, <2>2
<1> HIDE DEF R, A
<1>5. y.cnt = x.cnt - R + RecsOf(d) /\ y.pn = x.pn - A + AddsOf(d)
  <2> DEFINE m == x.cnt  n == x.pn
  <2>1. m \in Nat /\ n \in Nat /\ R \in Nat /\ A \in Nat
    BY <1>3, <1>4
  <2> HIDE DEF m, n
  <2>2. m + p = m - R + (R + p) /\ n + q = n - A + (A + q)
    BY <2>1
  <2>3. y.cnt = m + p /\ y.pn = n + q
    BY DEF m, n
  <2> QED  BY <1>4, <2>2, <2>3, Zenon DEF m, n
<1>6. Partial(new, y, D) /\ y.cnt <= RecsOf(D) /\ y.pn <= AddsOf(D)
  <2>1. LET t == s[Len(s)]
            e == t[1]
        IN  /\ y.cnt = x.cnt - After(t, RecsOf(e - 1)) + RecsOf(e)
            /\ y.pn = x.pn - After(t, AddsOf(e - 1)) + AddsOf(e)
    BY <1>5, Zenon DEF R, A
  <2> HIDE DEF y, x, s, D
  <2>2. s \in Stacks /\ s # <<>> /\ IsReturn(s, new)
    BY <1>2 DEF s
  <2> QED  BY <1>1, <2>1, <2>2, PartialReturn
<1>7. RecsOf(D) + 1 <= XMAX /\ AddsOf(D) <= PAIRMAX /\ RecsOf(D) \in Nat /\ AddsOf(D) \in Nat
  BY <1>1, <1>2, ExportFits
<1>8. x.cnt + p <= XMAX /\ x.pn + q <= PAIRMAX
  <2> DEFINE m == x.cnt + p  n == x.pn + q  e == RecsOf(D)  a == AddsOf(D)
  <2>0. y.cnt = x.cnt + p /\ y.pn = x.pn + q /\ x.cnt + p \in Nat /\ x.pn + q \in Nat
    BY <1>3
  <2>1. m \in Nat /\ n \in Nat /\ m <= e /\ n <= a /\ e + 1 <= XMAX /\ a <= PAIRMAX
        /\ e \in Nat /\ a \in Nat
    BY <1>6, <1>7, <2>0, Zenon
  <2> HIDE DEF m, n, e, a
  <2>2. m <= XMAX /\ n <= PAIRMAX
    BY <2>1, ParAssumption
  <2> QED  BY <2>2 DEF m, n
<1> QED  BY <1>6, <1>8 DEF Partial

LEMMA ExportLeafKeeps ==
  ASSUME ParInv, NEW v \in VM, ExportLeaf(v), UNCHANGED DEPTH
  PROVE  ParInv'
<1> DEFINE x == xbuf[v]  z == x.cnt + 1  a == x.cnt + 2
           x1 == XAlloc(x, Zero)  x2 == XAlloc(x1, Add1)
           y == ConnectX(x2, <<z, 0>>, <<a, 1>>)
           c == Return(ctl[v], a)
<1>1. ctl[v].pc = "export" /\ At(v, "call") /\ Frame(v)[1] = 0 /\ Typed /\ IsBundle(x)
  BY Same DEF ExportLeaf, IsLeaf, ParInv
<1>2. ctl[v].stack # <<>> /\ Frame(v) = ctl[v].stack[Len(ctl[v].stack)] /\ Frame(v)[2] = "call"
  BY <1>1, TopFrame
<1>3. IsCtl(c) /\ c.pc = "export" /\ IsReturn(ctl[v].stack, c.stack)
  BY <1>1, <1>2, ReturnStack, Same
<1> HIDE DEF c
<1>4. /\ x.cnt + 2 <= XMAX
      /\ \A w : w.cnt = x.cnt + 2 /\ w.pn = x.pn + 0 => Partial(c.stack, w, DEPTH[host.i])
  <2>1. 2 \in Nat /\ 0 \in Nat
    OBVIOUS
  <2> QED  BY <1>1, <1>2, <1>3, <2>1, ExportReturn
<1>5. x.cnt \in Nat /\ x.pn \in Nat
  BY <1>1 DEF IsBundle
<1>6. IsBundle(y) /\ y.cnt = x.cnt + 2 /\ y.pn = x.pn
  <2>1. Zero \in Type /\ Add1 \in Type
    BY DEF Zero, Add1, Type
  <2>2. x.cnt + 1 <= XMAX /\ x.cnt + 1 + 1 <= XMAX /\ x.cnt + 1 + 1 = x.cnt + 2
    BY <1>4, <1>5, ParAssumption
  <2>3. IsBundle(x1) /\ x1.cnt = x.cnt + 1 /\ x1.pn = x.pn
    BY <1>1, <2>1, <2>2, XAllocBundle
  <2> HIDE DEF x1
  <2>4. IsBundle(x2) /\ x2.cnt = x.cnt + 2 /\ x2.pn = x.pn
    BY <2>1, <2>2, <2>3, XAllocBundle
  <2> HIDE DEF x2
  <2> QED  BY <2>4, ConnectXBundle
<1>7. Exporting(heap[v], c, y)
  BY <1>3, <1>4, <1>5, <1>6 DEF Exporting
<1>8. /\ ctl' = [ctl EXCEPT ![v] = c] /\ heap' = [heap EXCEPT ![v] = heap[v]]
      /\ xbuf' = [xbuf EXCEPT ![v] = y] /\ UNCHANGED host
  BY <1>1, Same DEF ExportLeaf, c
<1> HIDE DEF y
<1> QED  BY <1>1, <1>3, <1>6, <1>7, <1>8, Same, VMStep DEF Running

LEMMA ExportNodeKeeps ==
  ASSUME ParInv, NEW v \in VM, ExportNode(v), UNCHANGED DEPTH
  PROVE  ParInv'
<1> DEFINE d == Frame(v)[1]  l == ctl[v].slot[d].l  r == ctl[v].ret
           x == xbuf[v]  add == x.cnt + 1  x1 == XAlloc(x, Add)
           x0 == ConnectX(x1, <<add, 0>>, IfaceX(x1, l))
           x2 == ConnectX(x0, <<add, 1>>, IfaceX(x1, r))
           y == [x2 EXCEPT !.pair[x2.pn] = add, !.pn = @ + 1]
           b == [ctl[v] EXCEPT !.slot[d].r = r]  c == Return(b, add)
<1>1. ctl[v].pc = "export" /\ At(v, "right") /\ Typed /\ IsBundle(x) /\ IsCtl(ctl[v])
  BY Same DEF ExportNode, ParInv
<1>2. /\ ctl[v].stack # <<>> /\ Frame(v) = ctl[v].stack[Len(ctl[v].stack)]
      /\ Frame(v)[2] = "right" /\ d > 0
  BY <1>1, TopFrame
<1>3. IsCtl(b) /\ b.pc = "export" /\ b.stack = ctl[v].stack
  <2> DEFINE new == [ctl[v].slot EXCEPT ![d].r = r]
  <2>1. b = [ctl[v] EXCEPT !.slot = new]
    BY <1>1 DEF IsCtl
  <2> HIDE DEF new, b
  <2> QED  BY <1>1, <2>1 DEF IsCtl
<1>4. IsCtl(c) /\ c.pc = "export" /\ IsReturn(ctl[v].stack, c.stack)
  <2> HIDE DEF b
  <2> QED  BY <1>2, <1>3, ReturnStack
<1>5. /\ ctl' = [ctl EXCEPT ![v] = c] /\ heap' = [heap EXCEPT ![v] = heap[v]]
      /\ xbuf' = [xbuf EXCEPT ![v] = y] /\ UNCHANGED host
  BY <1>1, Same DEF ExportNode
<1> HIDE DEF c
<1>6. /\ x.cnt + 1 <= XMAX /\ x.pn + 1 <= PAIRMAX
      /\ \A w : w.cnt = x.cnt + 1 /\ w.pn = x.pn + 1 => Partial(c.stack, w, DEPTH[host.i])
  <2>1. 1 \in Nat
    OBVIOUS
  <2> QED  BY <1>1, <1>2, <1>4, <2>1, ExportReturn
<1>7. IsBundle(y) /\ y.cnt = x.cnt + 1 /\ y.pn = x.pn + 1
  <2>1. Add \in Type
    BY DEF Add, Type
  <2>2. IsBundle(x1) /\ x1.cnt = x.cnt + 1 /\ x1.pn = x.pn
    BY <1>1, <1>6, <2>1, XAllocBundle
  <2> HIDE DEF x1, add, l, r
  <2>3. IsBundle(x0) /\ x0.cnt = x.cnt + 1 /\ x0.pn = x.pn
    BY <2>2, ConnectXBundle
  <2> HIDE DEF x0
  <2>4. IsBundle(x2) /\ x2.cnt = x.cnt + 1 /\ x2.pn = x.pn
    BY <2>3, ConnectXBundle
  <2> HIDE DEF x2
  <2> DEFINE P == [x2.pair EXCEPT ![x2.pn] = add]  n == x2.pn + 1
  <2>5. y = [x2 EXCEPT !.pair = P, !.pn = n]
    BY <2>4 DEF IsBundle
  <2>6. n \in 0 .. PAIRMAX /\ n = x.pn + 1
    <3>1. x.pn \in 0 .. PAIRMAX /\ PAIRMAX \in Nat
      BY <1>1, ParAssumption DEF IsBundle
    <3>2. n = x.pn + 1
      BY <2>4
    <3> QED  BY <1>6, <3>1, <3>2
  <2> HIDE DEF P, n, y
  <2> QED  BY <2>4, <2>5, <2>6 DEF IsBundle
<1>8. Exporting(heap[v], c, y)
  <2> HIDE DEF y
  <2> QED  BY <1>4, <1>6, <1>7 DEF Exporting
<1> HIDE DEF y
<1> QED  BY <1>1, <1>4, <1>5, <1>7, <1>8, Same, VMStep DEF Running

LEMMA ExportDoneKeeps ==
  ASSUME ParInv, NEW v \in VM, ExportDone(v), UNCHANGED DEPTH
  PROVE  ParInv'
<1> DEFINE x == xbuf[v]  end == x.cnt + 1  xa == XAlloc(x, End)
           x1 == ConnectX(xa, <<ctl[v].ret, 2>>, <<end, 0>>)
           y == [x1 EXCEPT !.n = x1.cnt]
           h == [heap[v] EXCEPT !.err = 1]
           c == Halted(ctl[v])
<1>1. /\ ctl[v].pc = "export" /\ ctl[v].stack = <<>> /\ Typed
      /\ IsBundle(x) /\ IsCtl(ctl[v]) /\ IsHeap(heap[v])
  BY Same DEF ExportDone, ParInv
<1>2. IsCtl(c) /\ c.pc = "halted"
  BY <1>1, AtPlace DEF Halted
<1>3. IsHeap(h) /\ h.err = 1
  BY <1>1 DEF IsHeap
<1>4. x.cnt + 1 <= XMAX
  <2>1. x.cnt = RecsOf(DEPTH[host.i]) /\ host.i \in 1 .. LastVM
    BY <1>1, ExportRuns DEF Partial
  <2> QED  BY <1>1, <2>1, ExportFits
<1>5. IsBundle(y)
  <2>1. End \in Type
    BY DEF End, Type
  <2>2. IsBundle(xa)
    BY <1>1, <1>4, <2>1, XAllocBundle
  <2> HIDE DEF xa
  <2>3. IsBundle(x1)
    BY <2>2, ConnectXBundle
  <2> HIDE DEF x1
  <2> QED  BY <2>3 DEF IsBundle
<1>6. /\ ctl' = [ctl EXCEPT ![v] = c] /\ heap' = [heap EXCEPT ![v] = h]
      /\ xbuf' = [xbuf EXCEPT ![v] = y] /\ UNCHANGED host
  BY <1>1, Same DEF ExportDone
<1>7. Exporting(h, c, y)
  BY <1>2, <1>3 DEF Exporting
<1> HIDE DEF c, h, y
<1> QED  BY <1>1, <1>2, <1>3, <1>5, <1>6, <1>7, VMStep DEF Running

-----------------------------------------------------------------------------
(* import_entry and the driver: the VM has been started.                    *)

LEMMA StartedRuns ==
  ASSUME ParInv, NEW v \in VM, ctl[v].pc \notin {"idle", "export", "halted"}
  PROVE  Typed /\ Started(v) /\ SoundPool(heap[v]) /\ Running(v)
<1>1. Started(v)
  BY DEF ParInv, VMInv, HostInv, Started, Exporting
<1> QED  BY <1>1 DEF ParInv, VMInv, Running

LEMMA ImportAllocKeeps ==
  ASSUME ParInv, NEW v \in VM, ImportAlloc(v), UNCHANGED DEPTH
  PROVE  ParInv'
<1> DEFINE k == ctl[v].i + 1  h == heap[v]  t == xbuf[v].type[k]  g == NewAg(h, t)
           c == [ctl[v] EXCEPT !.map[k] = h.free, !.i = @ + 1]
<1>1. /\ ctl[v].pc = "alloc" /\ ctl[v].i < xbuf[v].n /\ h.free # 0 /\ Typed /\ SoundPool(h)
      /\ Running(v) /\ IsBundle(xbuf[v]) /\ IsCtl(ctl[v])
  BY StartedRuns, Same DEF ImportAlloc
<1>2. t \in Type
  <2>1. k \in RecIdx /\ k <= xbuf[v].n
    <3> DEFINE i == ctl[v].i  n == xbuf[v].n
    <3>1. i \in Nat /\ n \in 0 .. XMAX /\ i < n
      BY <1>1 DEF IsBundle, IsCtl
    <3> HIDE DEF i, n
    <3>2. i + 1 \in 1 .. XMAX /\ i + 1 <= n
      BY <3>1, ParAssumption
    <3> QED  BY <3>2 DEF i, n, RecIdx
  <2> QED  BY <1>1, <2>1 DEF IsBundle
<1>3. IsCtl(c) /\ c.pc = "alloc"
  <2> DEFINE new == [ctl[v].map EXCEPT ![k] = h.free]
  <2>1. k \in Nat
    BY <1>1 DEF IsCtl
  <2>2. c = [ctl[v] EXCEPT !.map = new, !.i = k]
    BY <1>1 DEF IsCtl
  <2> HIDE DEF new, c, k
  <2> QED  BY <1>1, <2>1, <2>2 DEF IsCtl
<1>4. SoundPool(g)
  BY <1>1, <1>2, NewAgPool
<1>5. /\ ctl' = [ctl EXCEPT ![v] = c] /\ heap' = [heap EXCEPT ![v] = g]
      /\ xbuf' = [xbuf EXCEPT ![v] = xbuf[v]] /\ UNCHANGED host
  BY <1>1, Same DEF ImportAlloc
<1> HIDE DEF c, g
<1> QED  BY <1>1, <1>3, <1>4, <1>5, VMStep DEF SoundPool

LEMMA ImportOomKeeps ==
  ASSUME ParInv, NEW v \in VM, ImportOom(v), UNCHANGED DEPTH
  PROVE  ParInv'
<1> DEFINE g == Oom(heap[v])  c == Halted(ctl[v])
<1>1. /\ ctl[v].pc = "alloc" /\ Typed /\ SoundPool(heap[v]) /\ Running(v)
      /\ IsBundle(xbuf[v]) /\ IsCtl(ctl[v])
  BY StartedRuns, Same DEF ImportOom
<1>2. IsCtl(c) /\ c.pc = "halted"
  BY <1>1, AtPlace DEF Halted
<1>3. SoundPool(g)
  BY <1>1, OomPool DEF Oom
<1>4. /\ ctl' = [ctl EXCEPT ![v] = c] /\ heap' = [heap EXCEPT ![v] = g]
      /\ xbuf' = [xbuf EXCEPT ![v] = xbuf[v]] /\ UNCHANGED host
  BY <1>1, Same DEF ImportOom
<1> HIDE DEF c, g
<1> QED  BY <1>1, <1>2, <1>3, <1>4, VMStep DEF SoundPool

(* The loops of a pass and of the driver move the program on.               *)
Passed(c, pc, n) == [c EXCEPT !.pc = pc, !.i = n]
Leaky(c, pc, n)  == [c EXCEPT !.leaked = n, !.pc = pc]

LEMMA MovesOn ==
  ASSUME NEW c, IsCtl(c), NEW pc, NEW n
  PROVE  /\ n \in Nat => IsCtl(Passed(c, pc, n)) /\ Passed(c, pc, n).pc = pc
         /\ IsCtl(Leaky(c, pc, n)) /\ Leaky(c, pc, n).pc = pc
<1> DEFINE b == [c EXCEPT !.pc = pc]  b1 == [c EXCEPT !.leaked = n]
<1>1. Passed(c, pc, n) = [b EXCEPT !.i = n] /\ Leaky(c, pc, n) = [b1 EXCEPT !.pc = pc]
  BY DEF Passed, Leaky
<1>2. IsCtl(b) /\ b.pc = pc /\ IsCtl(b1)
  BY DEF IsCtl
<1> HIDE DEF b, b1
<1>3. n \in Nat => IsCtl(Passed(c, pc, n)) /\ Passed(c, pc, n).pc = pc
  BY <1>1, <1>2 DEF IsCtl
<1>4. IsCtl(Leaky(c, pc, n)) /\ Leaky(c, pc, n).pc = pc
  BY <1>1, <1>2, AtPlace
<1> QED  BY <1>3, <1>4

(* The next record, or pair.                                                *)
LEMMA NextItem ==
  ASSUME NEW c, IsCtl(c)
  PROVE  IsCtl([c EXCEPT !.i = @ + 1]) /\ [c EXCEPT !.i = @ + 1].pc = c.pc
<1> DEFINE n == c.i + 1
<1>1. n \in Nat /\ [c EXCEPT !.i = @ + 1] = [c EXCEPT !.i = n]
  BY DEF IsCtl
<1> HIDE DEF n
<1> QED  BY <1>1 DEF IsCtl

LEMMA ImportPortsKeeps ==
  ASSUME ParInv, NEW v \in VM, ImportPorts(v), UNCHANGED DEPTH
  PROVE  ParInv'
<1> DEFINE c == [ctl[v] EXCEPT !.i = @ + 1]
<1>1. /\ ctl[v].pc = "remap" /\ Typed /\ SoundPool(heap[v]) /\ Running(v)
      /\ IsBundle(xbuf[v]) /\ IsCtl(ctl[v])
  BY StartedRuns, Same DEF ImportPorts
<1>2. IsCtl(c) /\ c.pc = "remap"
  BY <1>1, NextItem
<1>3. PICK P : heap' = [heap EXCEPT ![v] = [heap[v] EXCEPT !.port = P]]
  <2> DEFINE a == ctl[v].map[ctl[v].i + 1]
             wired == {k \in 0 .. 2 : xbuf[v].port[<<ctl[v].i + 1, k>>] # None}
             P == [p \in Port |-> IF p[1] = a /\ p[2] \in wired
                                  THEN Remap(ctl[v], xbuf[v].port[<<ctl[v].i + 1, p[2]>>])
                                  ELSE heap[v].port[p]]
  <2>1. heap' = [heap EXCEPT ![v].port = P]
    BY DEF ImportPorts
  <2> HIDE DEF P
  <2>2. heap' = [heap EXCEPT ![v] = [heap[v] EXCEPT !.port = P]]
    BY <2>1
  <2> QED  BY <2>2
<1> DEFINE g == [heap[v] EXCEPT !.port = P]
<1>4. SoundPool(g)
  BY <1>1, PortsBeside, BesidePool DEF SoundPool
<1>5. /\ ctl' = [ctl EXCEPT ![v] = c] /\ heap' = [heap EXCEPT ![v] = g]
      /\ xbuf' = [xbuf EXCEPT ![v] = xbuf[v]] /\ UNCHANGED host
  <2>1. ctl' = [ctl EXCEPT ![v].i = @ + 1] /\ UNCHANGED <<xbuf, host>>
    BY DEF ImportPorts
  <2> QED  BY <1>1, <1>3, <2>1, Same
<1> HIDE DEF c, g
<1> QED  BY <1>1, <1>2, <1>4, <1>5, VMStep DEF SoundPool

LEMMA ImportPairKeeps ==
  ASSUME ParInv, NEW v \in VM, ImportPair(v), UNCHANGED DEPTH
  PROVE  ParInv'
<1> DEFINE c == [ctl[v] EXCEPT !.i = @ + 1]
           a == ctl[v].map[xbuf[v].pair[ctl[v].i]]
           g == Enq(heap[v], a)
<1>1. /\ ctl[v].pc = "pairs" /\ Typed /\ SoundPool(heap[v]) /\ Running(v)
      /\ IsBundle(xbuf[v]) /\ IsCtl(ctl[v])
  BY StartedRuns, Same DEF ImportPair
<1>2. IsCtl(c) /\ c.pc = "pairs"
  BY <1>1, NextItem
<1>3. SoundPool(g)
  BY <1>1, EnqBeside, BesidePool DEF SoundPool
<1>4. /\ ctl' = [ctl EXCEPT ![v] = c] /\ heap' = [heap EXCEPT ![v] = g]
      /\ xbuf' = [xbuf EXCEPT ![v] = xbuf[v]] /\ UNCHANGED host
  <2>1. /\ ctl' = [ctl EXCEPT ![v].i = @ + 1] /\ UNCHANGED <<xbuf, host>>
        /\ heap' = [heap EXCEPT ![v] = g]
    BY DEF ImportPair
  <2> QED  BY <1>1, <2>1, Same
<1> HIDE DEF c, g
<1> QED  BY <1>1, <1>2, <1>3, <1>4, VMStep DEF SoundPool

LEMMA PassDoneKeeps ==
  ASSUME ParInv, NEW v \in VM, PassDone(v), UNCHANGED DEPTH
  PROVE  ParInv'
<1> DEFINE pc == Then(ctl[v].pc)
           c == Passed(ctl[v], pc, 0)
<1>1. /\ ctl[v].pc \in {"alloc", "remap", "pairs"} /\ Typed /\ SoundPool(heap[v]) /\ Running(v)
      /\ IsBundle(xbuf[v]) /\ IsCtl(ctl[v])
  BY StartedRuns, Same DEF PassDone
<1>2. pc \in {"remap", "pairs", "driver"}
  BY <1>1 DEF Then
<1> HIDE DEF pc
<1>3. IsCtl(c) /\ c.pc = pc
  BY <1>1, MovesOn
<1>4. /\ ctl' = [ctl EXCEPT ![v] = c] /\ heap' = [heap EXCEPT ![v] = heap[v]]
      /\ xbuf' = [xbuf EXCEPT ![v] = xbuf[v]] /\ UNCHANGED host
  BY <1>1, Same DEF PassDone, pc, Passed
<1> HIDE DEF c
<1> QED  BY <1>1, <1>2, <1>3, <1>4, VMStep DEF SoundPool

LEMMA DriveKeeps ==
  ASSUME ParInv, NEW v \in VM, Drive(v), UNCHANGED DEPTH
  PROVE  ParInv'
<1> DEFINE g  == Turn(heap[v])  n == ctl[v].leaked + TurnLeak(heap[v])
           pc == IF g.err = 0 THEN ctl[v].pc ELSE "halted"
           c  == Leaky(ctl[v], pc, n)
<1>1. /\ ctl[v].pc = "driver" /\ Typed /\ SoundPool(heap[v]) /\ Running(v)
      /\ IsBundle(xbuf[v]) /\ IsCtl(ctl[v])
  BY StartedRuns, Same DEF Drive
<1>2. pc \in {"driver", "halted"}
  BY <1>1
<1>3. SoundPool(g)
  BY <1>1, TurnPool
<1>4. /\ ctl' = [ctl EXCEPT ![v] = c] /\ heap' = [heap EXCEPT ![v] = g]
      /\ xbuf' = [xbuf EXCEPT ![v] = xbuf[v]] /\ UNCHANGED host
  <2> DEFINE b == [ctl[v] EXCEPT !.leaked = @ + TurnLeak(heap[v]),
                                 !.pc = IF Turn(heap[v]).err = 0 THEN @ ELSE "halted"]
  <2>1. b = c
    BY <1>1 DEF IsCtl, Leaky
  <2>2. /\ ctl' = [ctl EXCEPT ![v] = b] /\ UNCHANGED <<xbuf, host>>
        /\ heap' = [heap EXCEPT ![v] = g]
    BY DEF Drive
  <2> HIDE DEF b, c, g
  <2> QED  BY <1>1, <2>1, <2>2, Same
<1> HIDE DEF n, pc, g
<1>5. IsCtl(c) /\ c.pc = pc
  BY <1>1, MovesOn
<1> HIDE DEF c
<1> QED  BY <1>1, <1>2, <1>3, <1>4, <1>5, VMStep DEF SoundPool

LEMMA DriverDoneKeeps ==
  ASSUME ParInv, NEW v \in VM, DriverDone(v), UNCHANGED DEPTH
  PROVE  ParInv'
<1> DEFINE n == ctl[v].leaked + 1
           c == Leaky(ctl[v], "halted", n)
<1>1. /\ ctl[v].pc = "driver" /\ Typed /\ SoundPool(heap[v]) /\ Running(v)
      /\ IsBundle(xbuf[v]) /\ IsCtl(ctl[v])
  BY StartedRuns, Same DEF DriverDone
<1>2. /\ ctl' = [ctl EXCEPT ![v] = c] /\ heap' = [heap EXCEPT ![v] = heap[v]]
      /\ xbuf' = [xbuf EXCEPT ![v] = xbuf[v]] /\ UNCHANGED host
  <2>1. Halted([ctl[v] EXCEPT !.leaked = @ + 1]) = c
    BY <1>1 DEF Halted, IsCtl, Leaky
  <2>2. /\ ctl' = [ctl EXCEPT ![v] = Halted([ctl[v] EXCEPT !.leaked = @ + 1])]
        /\ UNCHANGED <<heap, xbuf, host>>
    BY DEF DriverDone
  <2> HIDE DEF c
  <2> QED  BY <1>1, <2>1, <2>2, Same
<1>3. IsCtl(c) /\ c.pc = "halted"
  BY <1>1, MovesOn
<1> HIDE DEF c
<1> QED  BY <1>1, <1>2, <1>3, VMStep DEF SoundPool

-----------------------------------------------------------------------------
(* The host. *)

LEMMA StartCtl ==
  ASSUME NEW c, IsCtl(c), NEW pc, NEW stack \in Stacks
  PROVE  LET g == Enter(c, pc, stack)
         IN  IsCtl(g) /\ g.pc = pc /\ g.stack = stack
<1> DEFINE a == [c EXCEPT !.pc = pc]  b == [a EXCEPT !.stack = stack]  g == Enter(c, pc, stack)
<1>1. g = [b EXCEPT !.i = 0]
  BY DEF Enter
<1>2. IsCtl(b) /\ b.pc = pc /\ b.stack = stack
  <2>1. IsCtl(a) /\ a.pc = pc
    BY AtPlace
  <2> HIDE DEF a
  <2> QED  BY <2>1 DEF IsCtl
<1> HIDE DEF b, g
<1>3. IsCtl(g) /\ g.pc = pc /\ g.stack = stack
  BY <1>1, <1>2 DEF IsCtl
<1> QED  BY <1>3 DEF g

(* An entry point that builds begins with no record.                        *)
LEMMA ClearBundle ==
  ASSUME NEW x, IsBundle(x)
  PROVE  LET y == [x EXCEPT !.cnt = 0, !.pn = 0]
         IN  IsBundle(y) /\ y.cnt = 0 /\ y.pn = 0
<1> DEFINE b == [x EXCEPT !.cnt = 0]  y == [x EXCEPT !.cnt = 0, !.pn = 0]
<1>1. y = [b EXCEPT !.pn = 0]
  OBVIOUS
<1>2. 0 \in 0 .. XMAX /\ 0 \in 0 .. PAIRMAX /\ \A k \in RecIdx : ~(k <= 0)
  BY ParAssumption DEF RecIdx
<1>3. IsBundle(b) /\ b.cnt = 0
  BY <1>2 DEF IsBundle
<1> HIDE DEF b, y
<1>4. IsBundle(y) /\ y.cnt = 0 /\ y.pn = 0
  BY <1>1, <1>2, <1>3 DEF IsBundle
<1> QED  BY <1>4 DEF y

(* A frame that has made nothing yet: the first.                            *)
LEMMA FirstFrame ==
  ASSUME NEW D \in Nat, NEW x, x.cnt = 0, x.pn = 0
  PROVE  <<<<D, "call">>>> \in Stacks /\ Partial(<<<<D, "call">>>>, x, D)
<1> DEFINE f == <<D, "call">>  st == <<f>>  z == [i \in 1 .. 1 |-> 0]
<1>1. f \in FrameSet /\ f[1] = D /\ f[2] = "call"
  BY DEF FrameSet, Waits
<1>2. st # <<>> /\ Len(st) = 1 /\ st[1] = f /\ st[Len(st)] = f
  OBVIOUS
<1>3. st \in Stacks
  BY <1>1 DEF Stacks
<1> HIDE DEF f, st
<1>4. Frames(st, D, z, z)
  <2>1. RecsOf(D) \in Nat /\ AddsOf(D) \in Nat
    BY SizesDouble
  <2>2. 0 + RecsOf(D) <= RecsOf(D) /\ 0 + AddsOf(D) <= AddsOf(D)
    BY <2>1
  <2>3. z \in [1 .. 1 -> Nat] /\ \A i \in 1 .. 1 : z[i] = 0 /\ i = 1
    OBVIOUS
  <2>4. 1 .. 1 - 1 = {} /\ 1 \in 1 .. 1
    OBVIOUS
  <2> HIDE DEF z
  <2> QED  BY <1>1, <1>2, <2>2, <2>3, <2>4 DEF Frames
<1>5. After(st[Len(st)], RecsOf(st[Len(st)][1] - 1)) = 0 /\ After(st[Len(st)], AddsOf(st[Len(st)][1] - 1)) = 0
  BY <1>1, <1>2 DEF After
<1>6. z[Len(st)] = 0 /\ 0 + 0 = 0
  BY <1>2
<1> HIDE DEF z
<1>7. Partial(st, x, D)
  BY <1>2, <1>4, <1>5, <1>6 DEF Partial
<1> QED  BY <1>3, <1>7 DEF st, f

(* A VM enters an entry point; the host takes down where it is.             *)
LEMMA Enters ==
  ASSUME Typed, NEW v \in VM, NEW h, NEW c, NEW x, IsHeap(h), IsCtl(c), IsBundle(x),
         heap' = [heap EXCEPT ![v] = h], ctl' = [ctl EXCEPT ![v] = c],
         xbuf' = [xbuf EXCEPT ![v] = x], UNCHANGED DEPTH,
         NEW p, NEW n, host' = [pc |-> p, i |-> n]
  PROVE  Typed'
<1>1. /\ heap'[v] = h /\ ctl'[v] = c /\ xbuf'[v] = x
      /\ \A w \in VM : w # v => heap'[w] = heap[w] /\ ctl'[w] = ctl[w] /\ xbuf'[w] = xbuf[w]
  BY DEF Typed
<1> QED  BY <1>1 DEF Typed

LEMMA HostExportKeeps ==
  ASSUME ParInv, HostExport, UNCHANGED DEPTH
  PROVE  ParInv'
<1>0. PICK v \in VM : v = 0
  BY VMs
<1> DEFINE D == DEPTH[host.i]  s == <<<<D, "call">>>>
           h == Reset(heap[v])  c == Enter(ctl[v], "export", s)
           x == [xbuf[v] EXCEPT !.cnt = 0, !.pn = 0]
<1>1. Typed /\ host.pc = "export" /\ host.i \in 1 .. LastVM
  BY <1>0 DEF ParInv, HostInv, HostExport
<1>2. D \in Nat
  BY <1>1, ExportFits
<1>3. IsHeap(heap[v]) /\ IsCtl(ctl[v]) /\ IsBundle(xbuf[v])
  BY <1>1, Same
<1>4. IsHeap(h)
  BY <1>3, ResetPool DEF SoundPool
<1>5. IsBundle(x) /\ x.cnt = 0 /\ x.pn = 0
  BY <1>3, ClearBundle
<1>6. host' = [pc |-> "exporting", i |-> host.i]
  BY <1>1 DEF HostExport, Typed
<1>7. /\ heap' = [heap EXCEPT ![v] = h] /\ ctl' = [ctl EXCEPT ![v] = c]
      /\ xbuf' = [xbuf EXCEPT ![v] = x]
  BY <1>0, <1>1, <1>3 DEF HostExport, ExportEntry, Typed, IsBundle
<1> HIDE DEF x
<1>8. s \in Stacks /\ Partial(s, x, D)
  BY <1>2, <1>5, FirstFrame
<1> HIDE DEF s
<1>9. IsCtl(c) /\ c.pc = "export" /\ c.stack = s
  BY <1>3, <1>8, StartCtl
<1> HIDE DEF h, c
<1>10. /\ Typed' /\ heap'[v] = h /\ ctl'[v] = c /\ xbuf'[v] = x
       /\ \A w \in VM : w # v => ctl'[w] = ctl[w]
  <2>1. Typed'
    BY <1>1, <1>4, <1>5, <1>6, <1>7, <1>9, Enters
  <2>2. heap'[v] = h /\ ctl'[v] = c /\ xbuf'[v] = x
    BY <1>1, <1>7 DEF Typed
  <2>3. \A w \in VM : w # v => ctl'[w] = ctl[w]
    BY <1>1, <1>7 DEF Typed
  <2> QED  BY <2>1, <2>2, <2>3
<1>11. HostInv'
  <2>1. host'.pc = "exporting" /\ host'.i = host.i /\ DEPTH'[host'.i] = D
    BY <1>6
  <2>2. Partial(c.stack, x, DEPTH'[host'.i])
    BY <1>8, <1>9, <2>1
  <2> QED  BY <1>0, <1>1, <1>9, <1>10, <2>1, <2>2 DEF HostInv, Exporting
<1>12. ASSUME NEW w \in VM  PROVE VMInv(w)'
  BY <1>0, <1>1, <1>6, <1>10 DEF VMInv, ParInv, Started
<1> QED  BY <1>10, <1>11, <1>12 DEF ParInv

(* What the copy makes of a VM's buffer y is a bundle.                      *)
Copied(x, y) ==
  [y EXCEPT !.n = x.n, !.pn = x.pn, !.pair = x.pair,
     !.type = [k \in RecIdx |-> IF k <= x.n THEN x.type[k] ELSE @[k]],
     !.port = [p \in XPort |-> IF p[1] <= x.n THEN x.port[p] ELSE @[p]]]

LEMMA CopiedBundle ==
  ASSUME NEW x, IsBundle(x), NEW y, IsBundle(y)
  PROVE  IsBundle(Copied(x, y))
<1> DEFINE T == [k \in RecIdx |-> IF k <= x.n THEN x.type[k] ELSE y.type[k]]
           P == [p \in XPort |-> IF p[1] <= x.n THEN x.port[p] ELSE y.port[p]]
<1>1. PICK e : e = Copied(x, y)
  OBVIOUS
<1>2. e = [y EXCEPT !.n = x.n, !.pn = x.pn, !.pair = x.pair, !.type = T, !.port = P]
  BY <1>1 DEF Copied
<1>3. /\ T \in [RecIdx -> 0 .. 4]
      /\ \A k \in RecIdx : k <= y.cnt \/ k <= x.n => T[k] \in Type
  BY DEF IsBundle
<1> HIDE DEF T, P
<1>4. y = [cnt |-> y.cnt, n |-> y.n, pn |-> y.pn, pair |-> y.pair, type |-> y.type,
           port |-> y.port]
  BY DEF IsBundle
<1>5. /\ DOMAIN e = DOMAIN y /\ e.cnt = y.cnt /\ e.n = x.n /\ e.pn = x.pn
      /\ e.pair = x.pair /\ e.type = T /\ e.port = P
  BY <1>2, <1>4
<1>6. e = [cnt |-> e.cnt, n |-> e.n, pn |-> e.pn, pair |-> e.pair, type |-> e.type,
           port |-> e.port]
  BY <1>2, <1>4, <1>5
<1>7. IsBundle(e)
  BY <1>3, <1>5, <1>6 DEF IsBundle
<1> QED  BY <1>1, <1>7

LEMMA HostCopyKeeps ==
  ASSUME ParInv, HostCopy, UNCHANGED DEPTH
  PROVE  ParInv'
<1> DEFINE x == xbuf[0]  i == host.i  y == xbuf[i]
           z == Copied(x, y)
<1>1. 0 \in VM /\ Typed /\ host.pc = "exporting" /\ i \in 1 .. LastVM /\ i \in VM
  BY VMs, ExportFits DEF ParInv, HostInv, HostCopy
<1>2. ctl[0].pc = "halted" /\ heap[0].err = 1
  BY <1>1 DEF ParInv, HostInv, HostCopy, Exporting, Running
<1>3. /\ host' = [pc |-> "export", i |-> i + 1] /\ xbuf' = [xbuf EXCEPT ![i] = z]
      /\ UNCHANGED <<heap, ctl>>
  BY <1>2 DEF HostCopy, Copied
<1>4. IsBundle(z)
  BY <1>1, Same, CopiedBundle
<1>5. /\ heap' = [heap EXCEPT ![i] = heap[i]] /\ ctl' = [ctl EXCEPT ![i] = ctl[i]]
      /\ IsHeap(heap[i]) /\ IsCtl(ctl[i])
  BY <1>1, <1>3, Same
<1> HIDE DEF z
<1>6. Typed'
  BY <1>1, <1>3, <1>4, <1>5, Enters
<1>7. HostInv'
  <2>1. i + 1 \in 1 .. LastVM + 1
    BY <1>1, VMs
  <2> QED  BY <1>2, <1>3, <2>1 DEF HostInv
<1>8. ASSUME NEW v \in VM  PROVE VMInv(v)'
  BY <1>1, <1>3 DEF VMInv, ParInv, Started
<1> QED  BY <1>6, <1>7, <1>8 DEF ParInv

(* The reset leaves a VM with a sound pool, at the build or at the import.   *)
LEMMA HostStartKeeps ==
  ASSUME ParInv, NEW v \in VM, HostStart(v), UNCHANGED DEPTH
  PROVE  ParInv'
<1> DEFINE pc == IF v = 0 THEN "build" ELSE "alloc"
           s  == IF v = 0 THEN <<<<DEPTH[0], "call">>>> ELSE <<>>
           h == Reset(heap[v])  c == Enter(ctl[v], pc, s)
           x0 == [xbuf[v] EXCEPT !.cnt = 0, !.pn = 0]
           x == IF v = 0 THEN x0 ELSE xbuf[v]
           hpc == IF v = LastVM THEN "join" ELSE "start"
<1>1. /\ Typed /\ 0 \in VM /\ v \in 0 .. LastVM
      /\ \/ host.pc = "export" /\ host.i = LastVM + 1 /\ v = 0
         \/ host.pc = "start" /\ host.i = v
  BY VMs DEF ParInv, HostStart
<1>2. IsHeap(heap[v]) /\ IsCtl(ctl[v]) /\ IsBundle(xbuf[v])
  BY <1>1, Same
<1>3. SoundPool(h) /\ IsHeap(h)
  BY <1>2, ResetPool DEF SoundPool
<1>4. IsBundle(x)
  <2>1. IsBundle(x0)
    BY <1>2, ClearBundle
  <2> HIDE DEF x0
  <2> QED  BY <1>2, <2>1
<1>5. host' = [pc |-> hpc, i |-> v + 1]
  BY DEF HostStart
<1>6. /\ heap' = [heap EXCEPT ![v] = h] /\ ctl' = [ctl EXCEPT ![v] = c]
      /\ xbuf' = [xbuf EXCEPT ![v] = x]
  <2>1. CASE v = 0
    BY <1>1, <1>2, <2>1 DEF HostStart, ReduceEntry, Typed, IsBundle
  <2>2. CASE v # 0
    BY <1>1, <2>2, Same DEF HostStart, ImportEntry
  <2> QED  BY <2>1, <2>2
<1> HIDE DEF x
<1>7. s \in Stacks
  <2>1. <<>> \in Stacks
    BY DEF Stacks
  <2>2. DEPTH[0] \in Nat
    BY <1>1, ParAssumption DEF Typed
  <2>3. <<DEPTH[0], "call">> \in FrameSet
    BY <2>2 DEF FrameSet, Waits
  <2>4. <<<<DEPTH[0], "call">>>> \in Stacks
    BY <2>3 DEF Stacks
  <2> QED  BY <2>1, <2>4
<1>8. pc \in {"build", "alloc"} /\ hpc \in {"join", "start"} /\ (hpc = "join" <=> v = LastVM)
  OBVIOUS
<1> HIDE DEF s, pc, hpc
<1>9. IsCtl(c) /\ c.pc = pc
  BY <1>2, <1>7, StartCtl
<1> HIDE DEF h, c
<1>10. Typed'
  BY <1>1, <1>3, <1>4, <1>5, <1>6, <1>9, Enters
<1>11. /\ heap'[v] = h /\ ctl'[v] = c
       /\ \A w \in VM : w # v => heap'[w] = heap[w] /\ ctl'[w] = ctl[w]
  BY <1>1, <1>6 DEF Typed
<1>12. HostInv'
  <2>1. hpc = "start" => v + 1 \in 1 .. LastVM
    BY <1>1, <1>8, VMs
  <2> QED  BY <1>5, <1>8, <2>1 DEF HostInv
<1>13. ASSUME NEW w \in VM  PROVE VMInv(w)'
  <2>1. w \in 0 .. LastVM
    BY VMs
  <2>2. Started(w)' <=> w <= v
    BY <1>1, <1>5, <1>8, <2>1 DEF Started
  <2>3. Started(w) <=> w < v
    BY <1>1, <2>1, VMs DEF Started
  <2>4. CASE w = v
    BY <1>3, <1>8, <1>9, <1>11, <2>1, <2>2, <2>4 DEF VMInv
  <2>5. CASE w # v
    <3>1. Started(w)' <=> Started(w)
      BY <1>1, <2>1, <2>2, <2>3, <2>5
    <3> QED  BY <1>11, <2>5, <3>1 DEF VMInv, ParInv
  <2> QED  BY <2>4, <2>5
<1> QED  BY <1>10, <1>12, <1>13 DEF ParInv

LEMMA HostJoinKeeps ==
  ASSUME ParInv, HostJoin, UNCHANGED DEPTH
  PROVE  ParInv'
<1>1. /\ host.pc = "join" /\ host'.pc \in {"ok", "failed"}
      /\ host' = [pc |-> host'.pc, i |-> host'.i] /\ UNCHANGED <<heap, ctl, xbuf, DEPTH>>
  BY DEF HostJoin
<1>2. Typed'
  BY <1>1 DEF ParInv, Typed
<1>3. HostInv' /\ \A v \in VM : VMInv(v)'
  BY <1>1 DEF ParInv, HostInv, VMInv, Started
<1> QED  BY <1>2, <1>3 DEF ParInv

LEMMA ParInit == Init => ParInv
<1> SUFFICES ASSUME Init  PROVE ParInv
  OBVIOUS
<1>1. IsHeap(ZeroHeap)
  <2>1. 0 \in Nat
    OBVIOUS
  <2> QED  BY <2>1 DEF IsHeap, ZeroHeap
<1>2. IsCtl(Idle) /\ Idle.pc = "idle"
  <2>1. <<>> \in Stacks /\ 0 \in Nat
    BY DEF Stacks
  <2> QED  BY <2>1 DEF IsCtl, Idle
<1>3. IsBundle(EmptyBundle)
  <2>1. 0 \in 0 .. XMAX /\ 0 \in 0 .. PAIRMAX /\ \A k \in RecIdx : ~(k <= 0)
    BY ParAssumption DEF RecIdx
  <2> QED  BY <2>1 DEF IsBundle, EmptyBundle
<1>4. Typed
  BY <1>1, <1>2, <1>3 DEF Init, Typed
<1>5. host.pc = "export" /\ host.i = 1 /\ 1 \in 1 .. LastVM + 1
  BY VMs DEF Init
<1>6. \A v \in VM : ctl[v].pc = "idle"
  BY <1>2 DEF Init
<1>7. HostInv /\ \A v \in VM : VMInv(v)
  BY <1>5, <1>6, VMs DEF HostInv, VMInv, Started
<1> QED  BY <1>4, <1>7 DEF ParInv

LEMMA ParNext == ParInv /\ [Next]_vars => ParInv'
<1> SUFFICES ASSUME ParInv, [Next]_vars  PROVE ParInv'
  OBVIOUS
<1>1. CASE UNCHANGED vars
  BY <1>1 DEF vars, ParInv, Typed, HostInv, Exporting, VMInv, Started
<1>2. CASE Host /\ UNCHANGED DEPTH
  BY <1>2, HostExportKeeps, HostCopyKeeps, HostStartKeeps, HostJoinKeeps DEF Host
<1>3. CASE (\E v \in VM : Step(v)) /\ UNCHANGED DEPTH
  <2>1. PICK v \in VM : Step(v)
    BY <1>3
  <2>2. CASE CallLeft(v) \/ CallRight(v)
    BY <1>3, <2>2, CallLeftKeeps, CallRightKeeps
  <2>3. CASE BuildLeaf(v) \/ BuildNode(v) \/ BuildRoot(v) \/ BuildOom(v)
    BY <1>3, <2>3, BuildLeafKeeps, BuildNodeKeeps, BuildRootKeeps, BuildOomKeeps
  <2>4. CASE ExportLeaf(v) \/ ExportNode(v) \/ ExportDone(v)
    BY <1>3, <2>4, ExportLeafKeeps, ExportNodeKeeps, ExportDoneKeeps
  <2>5. CASE ImportAlloc(v) \/ ImportOom(v) \/ ImportPorts(v) \/ ImportPair(v) \/ PassDone(v)
    BY <1>3, <2>5, ImportAllocKeeps, ImportOomKeeps, ImportPortsKeeps, ImportPairKeeps,
       PassDoneKeeps
  <2>6. CASE Drive(v) \/ DriverDone(v)
    BY <1>3, <2>6, DriveKeeps, DriverDoneKeeps
  <2> QED  BY <2>1, <2>2, <2>3, <2>4, <2>5, <2>6 DEF Step
<1> QED  BY <1>1, <1>2, <1>3 DEF Next

LEMMA ParInvariant == Spec => []ParInv
BY ParInit, ParNext, PTL DEF Spec

(* The free list of a VM that has been entered holds every free block once,  *)
(* through build, import and every rule, whatever the bundle, the depths,    *)
(* the number of VMs, the size of pool and ring and the interleaving, and    *)
(* after a halt for want of agents too.                                      *)
THEOREM FreeListsCorrect == Spec => []FreeListsOK
<1>1. ParInv => FreeListsOK
  BY DEF ParInv, VMInv, FreeListsOK, SoundPool
<1> QED  BY <1>1, ParInvariant, PTL

(* No export writes a record or a pair past the end of the buffer: where     *)
(* there is room for the finished tree, there is room all along its          *)
(* recursion, and the next export begins at the first record again.          *)
THEOREM BundlesFit == Spec => []BundleFits
<1>1. ParInv => BundleFits
  BY ParAssumption DEF ParInv, Typed, IsBundle, BundleFits
<1> QED  BY <1>1, ParInvariant, PTL
=============================================================================
