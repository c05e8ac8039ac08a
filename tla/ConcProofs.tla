----------------------------- MODULE ConcProofs -----------------------------
(* The objects that threads share, for any number of threads: allocator.c  *)
(* with its mutex, deque.c with its spinlock, and the counters that only    *)
(* the threads' ids keep apart.                                             *)
EXTENDS Allocator, Deque, StatsCounter, Integers, SequenceTheorems, FiniteSetTheorems,
        WellFoundedInduction, TLAPS

-----------------------------------------------------------------------------
(* The allocator: each value is in one place, and with enough values no     *)
(* allocation fails, for any cache size, batch and pool.                    *)

Bit == {0, 1}

-----------------------------------------------------------------------------
(* Places *)

(* A stack has as many places as values.                                    *)
LEMMA PlacesCount ==
  ASSUME NEW s \in Seq(Bit), NEW w, NEW stack
  PROVE  IsFiniteSet(Places(w, stack, s)) /\ Cardinality(Places(w, stack, s)) = Len(s)
<1> DEFINE n == Len(s)  P == Places(w, stack, s)
           f == [j \in 1 .. n |-> <<w, stack, j, s[j]>>]
<1>1. n \in Nat /\ DOMAIN s = 1 .. n
  BY LenProperties
<1>2. P = {<<w, stack, j, s[j]>> : j \in 1 .. n}
  BY <1>1 DEF Places
<1>3. f \in Bijection(1 .. n, P)
  <2>1. f \in [1 .. n -> P] /\ \A p \in P : \E j \in 1 .. n : f[j] = p
    BY <1>2
  <2>2. \A j, k \in 1 .. n : f[j] = f[k] => j = k
    OBVIOUS
  <2> HIDE DEF f, P
  <2>3. DOMAIN f = 1 .. n
    BY <2>1
  <2> QED  BY <2>1, <2>2, <2>3 DEF Bijection, Injection, Surjection, IsInjective
<1>4. ExistsBijection(1 .. n, P)
  BY <1>3 DEF ExistsBijection
<1> HIDE DEF P
<1>5. IsFiniteSet(P) /\ Cardinality(P) = n
  BY <1>1, <1>4, FS_NatBijection, FS_CountingElements
<1> QED  BY <1>5 DEF P

(* Pushing a value adds a place at the top.                                 *)
LEMMA PlacesPush ==
  ASSUME NEW s \in Seq(Bit), NEW v \in Bit, NEW w, NEW stack
  PROVE  /\ Append(s, v) \in Seq(Bit) /\ Len(Append(s, v)) = Len(s) + 1
         /\ Places(w, stack, Append(s, v)) =
              Places(w, stack, s) \cup {<<w, stack, Len(s) + 1, v>>}
         /\ <<w, stack, Len(s) + 1, v>> \notin Places(w, stack, s)
<1> DEFINE n == Len(s)  t == Append(s, v)
<1>1. n \in Nat /\ DOMAIN s = 1 .. n
  BY LenProperties
<1>2. t \in Seq(Bit) /\ Len(t) = n + 1 /\ t[n + 1] = v /\ \A j \in 1 .. n : t[j] = s[j]
  BY AppendProperties
<1>3. DOMAIN t = 1 .. n + 1
  BY <1>2, LenProperties
<1> HIDE DEF t, n
<1>4. 1 .. n + 1 = (1 .. n) \cup {n + 1} /\ n + 1 \notin 1 .. n
  BY <1>1
<1>5. Places(w, stack, t) = Places(w, stack, s) \cup {<<w, stack, n + 1, v>>}
  BY <1>1, <1>2, <1>3, <1>4 DEF Places
<1>6. <<w, stack, n + 1, v>> \notin Places(w, stack, s)
  BY <1>1, <1>4 DEF Places
<1> QED  BY <1>2, <1>5, <1>6 DEF t, n

(* Taking the last value off removes the place at the top.                  *)
LEMMA PlacesPop ==
  ASSUME NEW s \in Seq(Bit), s # <<>>, NEW w, NEW stack
  PROVE  /\ Front(s) \in Seq(Bit) /\ Len(Front(s)) = Len(s) - 1 /\ Last(s) \in Bit
         /\ Len(s) \in Nat \ {0} /\ Front(s) = SubSeq(s, 1, Len(s) - 1)
         /\ Places(w, stack, Front(s)) =
              Places(w, stack, s) \ {<<w, stack, Len(s), Last(s)>>}
         /\ <<w, stack, Len(s), Last(s)>> \in Places(w, stack, s)
<1> DEFINE n == Len(s)  t == Front(s)
<1>1. n \in Nat \ {0} /\ DOMAIN s = 1 .. n /\ s \in [1 .. n -> Bit]
  BY EmptySeq, LenProperties
<1>2. t = SubSeq(s, 1, n - 1) /\ Last(s) = s[n]
  BY DEF Front, Last
<1>3. t \in Seq(Bit) /\ Len(t) = n - 1 /\ \A j \in 1 .. n - 1 : t[j] = s[j]
  BY <1>1, <1>2, SubSeqProperties
<1>4. DOMAIN t = 1 .. n - 1
  BY <1>3, LenProperties
<1> HIDE DEF t, n
<1>5. 1 .. n = (1 .. n - 1) \cup {n} /\ n \notin 1 .. n - 1 /\ n \in 1 .. n
  BY <1>1
<1>6. /\ Places(w, stack, t) = Places(w, stack, s) \ {<<w, stack, n, Last(s)>>}
      /\ <<w, stack, n, Last(s)>> \in Places(w, stack, s)
  BY <1>1, <1>2, <1>3, <1>4, <1>5 DEF Places
<1>7. Last(s) \in Bit
  BY <1>1, <1>2, <1>5
<1> QED  BY <1>1, <1>2, <1>3, <1>6, <1>7 DEF t, n

-----------------------------------------------------------------------------
(* One value goes from a place to another. *)
Moved(A, B) == \E x \in A, y \in B : y \notin A /\ x[4] = y[4] /\ B = (A \ {x}) \cup {y}

Ones(A) == {p \in A : p[4] = 1}

LEMMA MovedKeeps ==
  ASSUME NEW A, NEW B, IsFiniteSet(A), B = A \/ Moved(A, B)
  PROVE  /\ IsFiniteSet(B) /\ Cardinality(B) = Cardinality(A)
         /\ Cardinality(Ones(B)) = Cardinality(Ones(A))
<1>1. CASE B = A
  BY <1>1
<1>2. CASE Moved(A, B)
  <2>1. PICK x \in A, y \in B : y \notin A /\ x[4] = y[4] /\ B = (A \ {x}) \cup {y}
    BY <1>2 DEF Moved
  <2>2. IsFiniteSet(A \ {x}) /\ Cardinality(A \ {x}) = Cardinality(A) - 1
    BY <2>1, FS_RemoveElement
  <2>3. y \notin A \ {x} /\ Cardinality(A) \in Nat
    BY <2>1, FS_CardinalityType
  <2>4. IsFiniteSet(B) /\ Cardinality(B) = Cardinality(A)
    BY <2>1, <2>2, <2>3, FS_AddElement
  <2>5. Ones(A) \in SUBSET A
    BY DEF Ones
  <2>6. IsFiniteSet(Ones(A)) /\ Cardinality(Ones(A)) \in Nat
    BY <2>5, FS_Subset, FS_CardinalityType
  <2>7. CASE x[4] = 1
    <3>1. Ones(B) = (Ones(A) \ {x}) \cup {y} /\ x \in Ones(A) /\ y \notin Ones(A) \ {x}
      BY <2>1, <2>7 DEF Ones
    <3>2. /\ IsFiniteSet(Ones(A) \ {x})
          /\ Cardinality(Ones(A) \ {x}) = Cardinality(Ones(A)) - 1
      BY <2>6, <3>1, FS_RemoveElement
    <3>3. Cardinality((Ones(A) \ {x}) \cup {y}) = Cardinality(Ones(A) \ {x}) + 1
      BY <3>1, <3>2, FS_AddElement
    <3> QED  BY <2>4, <2>6, <3>1, <3>2, <3>3
  <2>8. CASE x[4] # 1
    <3>1. Ones(B) = Ones(A)
      BY <2>1, <2>8 DEF Ones
    <3> QED  BY <2>4, <3>1
  <2> QED  BY <2>7, <2>8
<1> QED  BY <1>1, <1>2

(* No place of R is on the stack. *)
Off(R, w, stack) == \A p \in R : p[1] # w \/ p[2] # stack

(* The top of one stack goes to another; R has the places of the rest.      *)
LEMMA TopMoves ==
  ASSUME NEW s \in Seq(Bit), s # <<>>, NEW t \in Seq(Bit),
         NEW w, NEW a, NEW v, NEW b, w # v \/ a # b,
         NEW R, Off(R, w, a), Off(R, v, b)
  PROVE  Moved(R \cup Places(w, a, s) \cup Places(v, b, t),
               R \cup Places(w, a, Front(s)) \cup Places(v, b, Append(t, Last(s))))
<1> DEFINE x == <<w, a, Len(s), Last(s)>>  y == <<v, b, Len(t) + 1, Last(s)>>
           S == Places(w, a, s)  T == Places(v, b, t)
           S1 == Places(w, a, Front(s))  T1 == Places(v, b, Append(t, Last(s)))
<1>1. x \in S /\ S1 = S \ {x} /\ Last(s) \in Bit
  BY PlacesPop
<1>2. y \notin T /\ T1 = T \cup {y}
  BY <1>1, PlacesPush
<1>3. x[1] = w /\ x[2] = a /\ y[1] = v /\ y[2] = b /\ x[4] = y[4]
  OBVIOUS
<1>4. (\A p \in S : p[1] = w /\ p[2] = a) /\ (\A p \in T : p[1] = v /\ p[2] = b)
  BY DEF Places
<1> HIDE DEF x, y, S, T, S1, T1
<1>5. x \notin R /\ x \notin T /\ y \notin R /\ y \notin S
  BY <1>3, <1>4 DEF Off
<1>6. R \cup S1 \cup T1 = ((R \cup S \cup T) \ {x}) \cup {y}
  BY <1>1, <1>2, <1>5
<1>7. x \in R \cup S \cup T /\ y \in R \cup S1 \cup T1 /\ y \notin R \cup S \cup T
  BY <1>1, <1>2, <1>5
<1>8. Moved(R \cup S \cup T, R \cup S1 \cup T1)
  BY <1>3, <1>6, <1>7 DEF Moved
<1> QED  BY <1>8 DEF S, T, S1, T1

(* The places seen from a thread t: the shared stack, its own three, and R. *)
Whole(R, t, s, l, h, m) ==
  R \cup Places({}, "shared", s) \cup Places({t}, "local", l)
    \cup Places({t}, "held", h) \cup Places({t}, "moving", m)

Foreign(R, t) == \A p \in R : p[1] # {} /\ p[1] # {t}

(* All the ways in which allocator.c moves a value.                         *)
LEMMA WaysToMove ==
  ASSUME NEW t, NEW R, Foreign(R, t),
         NEW s \in Seq(Bit), NEW l \in Seq(Bit), NEW h \in Seq(Bit), NEW m \in Seq(Bit)
  PROVE  /\ l # <<>> => /\ Moved(Whole(R, t, s, l, h, m),
                                 Whole(R, t, s, Front(l), Append(h, Last(l)), m))
                        /\ Moved(Whole(R, t, s, l, h, m),
                                 Whole(R, t, Append(s, Last(l)), Front(l), h, m))
         /\ s # <<>> => Moved(Whole(R, t, s, l, h, m),
                              Whole(R, t, Front(s), Append(l, Last(s)), h, m))
         /\ h # <<>> => /\ Moved(Whole(R, t, s, l, h, m),
                                 Whole(R, t, s, Append(l, Last(h)), Front(h), m))
                        /\ Moved(Whole(R, t, s, l, h, m),
                                 Whole(R, t, s, l, Front(h), Append(m, Last(h))))
         /\ m # <<>> => Moved(Whole(R, t, s, l, h, m),
                              Whole(R, t, s, Append(l, Last(m)), h, Front(m)))
<1> DEFINE S(x) == Places({}, "shared", x)  L(x) == Places({t}, "local", x)
           H(x) == Places({t}, "held", x)   M(x) == Places({t}, "moving", x)
<1>0. /\ Off(R, {}, "shared") /\ Off(R, {t}, "local") /\ Off(R, {t}, "held")
      /\ Off(R, {t}, "moving")
  BY DEF Foreign, Off
<1>1. /\ \A x : \A p \in S(x) : p[1] = {} /\ p[2] = "shared"
      /\ \A x : \A p \in L(x) : p[1] = {t} /\ p[2] = "local"
      /\ \A x : \A p \in H(x) : p[1] = {t} /\ p[2] = "held"
      /\ \A x : \A p \in M(x) : p[1] = {t} /\ p[2] = "moving"
  BY DEF Places
<1>2. {} # {t}
  OBVIOUS
<1>3. ASSUME l # <<>>
      PROVE  /\ Moved(Whole(R, t, s, l, h, m), Whole(R, t, s, Front(l), Append(h, Last(l)), m))
             /\ Moved(Whole(R, t, s, l, h, m), Whole(R, t, Append(s, Last(l)), Front(l), h, m))
  <2>1. Off(R \cup S(s) \cup M(m), {t}, "local") /\ Off(R \cup S(s) \cup M(m), {t}, "held")
    BY <1>0, <1>1, <1>2 DEF Off
  <2>2. Moved(R \cup S(s) \cup M(m) \cup L(l) \cup H(h),
              R \cup S(s) \cup M(m) \cup L(Front(l)) \cup H(Append(h, Last(l))))
    BY <1>3, <2>1, TopMoves
  <2>3. Off(R \cup H(h) \cup M(m), {t}, "local") /\ Off(R \cup H(h) \cup M(m), {}, "shared")
    BY <1>0, <1>1, <1>2 DEF Off
  <2>4. Moved(R \cup H(h) \cup M(m) \cup L(l) \cup S(s),
              R \cup H(h) \cup M(m) \cup L(Front(l)) \cup S(Append(s, Last(l))))
    BY <1>3, <2>3, TopMoves
  <2>5. \A x, y, z : /\ R \cup S(s) \cup M(m) \cup L(x) \cup H(y) = Whole(R, t, s, x, y, m)
                     /\ R \cup H(h) \cup M(m) \cup L(x) \cup S(z) = Whole(R, t, z, x, h, m)
    BY DEF Whole
  <2> HIDE DEF S, L, H, M
  <2> QED  BY <2>2, <2>4, <2>5
<1>4. ASSUME s # <<>>
      PROVE  Moved(Whole(R, t, s, l, h, m), Whole(R, t, Front(s), Append(l, Last(s)), h, m))
  <2>1. Off(R \cup H(h) \cup M(m), {t}, "local") /\ Off(R \cup H(h) \cup M(m), {}, "shared")
    BY <1>0, <1>1, <1>2 DEF Off
  <2>2. Moved(R \cup H(h) \cup M(m) \cup S(s) \cup L(l),
              R \cup H(h) \cup M(m) \cup S(Front(s)) \cup L(Append(l, Last(s))))
    BY <1>4, <2>1, TopMoves
  <2>3. \A x, z : R \cup H(h) \cup M(m) \cup S(z) \cup L(x) = Whole(R, t, z, x, h, m)
    BY DEF Whole
  <2> HIDE DEF S, L, H, M
  <2> QED  BY <2>2, <2>3
<1>5. ASSUME h # <<>>
      PROVE  /\ Moved(Whole(R, t, s, l, h, m), Whole(R, t, s, Append(l, Last(h)), Front(h), m))
             /\ Moved(Whole(R, t, s, l, h, m), Whole(R, t, s, l, Front(h), Append(m, Last(h))))
  <2>1. Off(R \cup S(s) \cup M(m), {t}, "local") /\ Off(R \cup S(s) \cup M(m), {t}, "held")
    BY <1>0, <1>1, <1>2 DEF Off
  <2>2. Moved(R \cup S(s) \cup M(m) \cup H(h) \cup L(l),
              R \cup S(s) \cup M(m) \cup H(Front(h)) \cup L(Append(l, Last(h))))
    BY <1>5, <2>1, TopMoves
  <2>3. Off(R \cup S(s) \cup L(l), {t}, "held") /\ Off(R \cup S(s) \cup L(l), {t}, "moving")
    BY <1>0, <1>1, <1>2 DEF Off
  <2>4. Moved(R \cup S(s) \cup L(l) \cup H(h) \cup M(m),
              R \cup S(s) \cup L(l) \cup H(Front(h)) \cup M(Append(m, Last(h))))
    BY <1>5, <2>3, TopMoves
  <2>5. \A x, y, z : /\ R \cup S(s) \cup M(m) \cup H(y) \cup L(x) = Whole(R, t, s, x, y, m)
                     /\ R \cup S(s) \cup L(l) \cup H(y) \cup M(z) = Whole(R, t, s, l, y, z)
    BY DEF Whole
  <2> HIDE DEF S, L, H, M
  <2> QED  BY <2>2, <2>4, <2>5
<1>6. ASSUME m # <<>>
      PROVE  Moved(Whole(R, t, s, l, h, m), Whole(R, t, s, Append(l, Last(m)), h, Front(m)))
  <2>1. Off(R \cup S(s) \cup H(h), {t}, "local") /\ Off(R \cup S(s) \cup H(h), {t}, "moving")
    BY <1>0, <1>1, <1>2 DEF Off
  <2>2. Moved(R \cup S(s) \cup H(h) \cup M(m) \cup L(l),
              R \cup S(s) \cup H(h) \cup M(Front(m)) \cup L(Append(l, Last(m))))
    BY <1>6, <2>1, TopMoves
  <2>3. \A x, z : R \cup S(s) \cup H(h) \cup M(z) \cup L(x) = Whole(R, t, s, x, h, z)
    BY DEF Whole
  <2> HIDE DEF S, L, H, M
  <2> QED  BY <2>2, <2>3
<1> QED  BY <1>3, <1>4, <1>5, <1>6

(* Of all places, those of the other threads are foreign to t; f has the    *)
(* threads and s is the shared stack.                                       *)
OthersOf(f, t) == UNION {PlacesOf(u, f[u]) : u \in Threads \ {t}}
PlacesIn(f, s) == Places({}, "shared", s) \cup UNION {PlacesOf(u, f[u]) : u \in Threads}

LEMMA SplitPlaces ==
  ASSUME NEW f, NEW s, NEW t \in Threads
  PROVE  /\ Foreign(OthersOf(f, t), t)
         /\ PlacesIn(f, s) = Whole(OthersOf(f, t), t, s, f[t].local, f[t].held, Moving(f[t]))
<1>1. \A u \in Threads \ {t} : \A p \in PlacesOf(u, f[u]) : p[1] = {u} /\ {u} # {t} /\ {u} # {}
  BY DEF PlacesOf, Places
<1>2. Foreign(OthersOf(f, t), t)
  BY <1>1 DEF Foreign, OthersOf
<1>3. UNION {PlacesOf(u, f[u]) : u \in Threads} = OthersOf(f, t) \cup PlacesOf(t, f[t])
  BY DEF OthersOf
<1>4. PlacesIn(f, s) = Places({}, "shared", s) \cup (OthersOf(f, t) \cup PlacesOf(t, f[t]))
  BY <1>3 DEF PlacesIn
<1>5. PlacesOf(t, f[t]) = Places({t}, "local", f[t].local) \cup Places({t}, "held", f[t].held)
                             \cup Places({t}, "moving", Moving(f[t]))
  BY DEF PlacesOf
<1> QED  BY <1>2, <1>4, <1>5 DEF Whole

-----------------------------------------------------------------------------
(* The invariant *)

LEMMA StackFacts ==
  /\ \A s \in Seq(Bit) : Len(s) \in Nat /\ (s = <<>> <=> Len(s) = 0)
                         /\ SubSeq(s, 1, Len(s)) = s /\ s \o <<>> = s
  /\ \A s \in Seq(Bit) : s # <<>> => /\ Front(s) \in Seq(Bit) /\ Len(Front(s)) = Len(s) - 1
                                     /\ Front(s) = SubSeq(s, 1, Len(s) - 1)
                                     /\ Last(s) \in Bit
  /\ \A s \in Seq(Bit), v \in Bit : /\ Append(s, v) \in Seq(Bit) /\ Len(Append(s, v)) = Len(s) + 1
                                    /\ s \o <<v>> = Append(s, v)
<1>1. \A s \in Seq(Bit) : Len(s) \in Nat /\ (s = <<>> <=> Len(s) = 0)
                          /\ SubSeq(s, 1, Len(s)) = s /\ s \o <<>> = s
  BY EmptySeq, LenProperties, SubSeqFull, ConcatEmptySeq
<1>2. \A s \in Seq(Bit) : s # <<>> => /\ Front(s) \in Seq(Bit) /\ Len(Front(s)) = Len(s) - 1
                                      /\ Front(s) = SubSeq(s, 1, Len(s) - 1)
                                      /\ Last(s) \in Bit
  BY PlacesPop
<1>3. \A s \in Seq(Bit), v \in Bit : Append(s, v) \in Seq(Bit) /\ Len(Append(s, v)) = Len(s) + 1
                                     /\ s \o <<v>> = Append(s, v)
  BY AppendProperties, AppendIsConcat
<1> QED  BY <1>1, <1>2, <1>3

(* A value on its way is a stack of one.                                    *)
LEMMA OneMoving ==
  /\ <<>> \in Seq(Bit) /\ Len(<<>>) = 0
  /\ \A v \in Bit : /\ <<v>> \in Seq(Bit) /\ Len(<<v>>) = 1 /\ <<v>> # <<>> /\ Append(<<>>, v) = <<v>>
                    /\ Last(<<v>>) = v /\ Front(<<v>>) = <<>>
  /\ \A s \in Seq(Bit) : Len(s) = 1 => s = <<Last(s)>>
<1>1. <<>> \in Seq(Bit) /\ Len(<<>>) = 0
  BY EmptySeq
<1>2. ASSUME NEW v \in Bit
      PROVE  /\ <<v>> \in Seq(Bit) /\ Len(<<v>>) = 1 /\ <<v>> # <<>> /\ Append(<<>>, v) = <<v>>
             /\ Last(<<v>>) = v /\ Front(<<v>>) = <<>>
  <2>1. <<v>> \in Seq(Bit) /\ Len(<<v>>) = 1 /\ <<v>>[1] = v
    OBVIOUS
  <2>2. <<v>> # <<>> /\ Last(<<v>>) = v
    BY <2>1 DEF Last
  <2>3. Front(<<v>>) \in Seq(Bit) /\ Len(Front(<<v>>)) = 0
    <3> DEFINE s == <<v>>
    <3>1. s \in Seq(Bit) /\ Len(s) = 1 /\ s # <<>>
      BY <2>1, <2>2
    <3> HIDE DEF s
    <3>2. Front(s) \in Seq(Bit) /\ Len(Front(s)) = 0
      BY <3>1, StackFacts
    <3> QED  BY <3>2 DEF s
  <2>4. Front(<<v>>) = <<>>
    BY <2>3, StackFacts
  <2>5. <<>> \o <<v>> = <<v>> /\ <<>> \o <<v>> = Append(<<>>, v)
    BY <1>1, <2>1, ConcatEmptySeq, StackFacts
  <2> QED  BY <2>1, <2>2, <2>4, <2>5
<1>3. ASSUME NEW s \in Seq(Bit), Len(s) = 1 PROVE s = <<Last(s)>>
  <2>1. s \in [1 .. 1 -> Bit] /\ Last(s) = s[1]
    BY <1>3, LenProperties DEF Last
  <2>2. <<Last(s)>> \in Seq(Bit) /\ Len(<<Last(s)>>) = 1 /\ <<Last(s)>>[1] = s[1]
    BY <2>1
  <2>3. \A i \in 1 .. Len(s) : s[i] = <<Last(s)>>[i]
    BY <1>3, <2>2
  <2> QED  BY <1>3, <2>2, <2>3, SeqEqual
<1> QED  BY <1>1, <1>2, <1>3

Allocating == {"allocate", "lock_refill", "refill", "take", "grab"}
Locked == {"refill", "take", "spill", "give"}
Pcs == Allocating \cup {"idle", "recycle", "lock_spill", "spill", "give"}

Thread == [pc : Pcs, local : Seq(Bit), held : Seq(Bit), todo : Nat, i : Nat, n : Nat,
           value : Seq(Bit), rounds : Nat]

(* What a thread knows for itself: the lengths of its stacks. It refills    *)
(* only an empty stack and holds less than its batch then, so it never has  *)
(* a batch and a refill at once. l, h and v values are local, held and read.*)
Sizes(pc, l, h, v, todo, i) ==
  /\ pc = "idle" => h = 0
  /\ pc \in Allocating => h + todo <= MAXBATCH
  /\ pc \in Allocating \ {"allocate"} => todo > 0
  /\ v = IF pc \in {"take", "lock_spill", "spill", "give"} THEN 1 ELSE 0
  /\ l + h + (IF pc = "take" THEN 0 ELSE v) < MAXBATCH + CACHE
  /\ l <= 2 * CACHE
  /\ pc = "lock_refill" => l = 0
  /\ pc \in {"refill", "take"} => l = i /\ i <= CACHE
  /\ pc = "take" => i < CACHE
  /\ pc = "lock_spill" => l = 2 * CACHE
  /\ pc \in {"spill", "give"} => l + i = 2 * CACHE /\ i <= CACHE
  /\ pc = "give" => i < CACHE

SizesOf(r) == Sizes(r.pc, Len(r.local), Len(r.held), Len(r.value), r.todo, r.i)

ThreadInv(r) == r \in Thread /\ SizesOf(r)

(* What a thread knows of the shared stack under the mutex, and that a      *)
(* refill that brings nothing had met an empty shared stack.                *)
SharedInv(t) ==
  /\ th[t].pc \in Locked => owner = {t}
  /\ th[t].pc = "take" => /\ th[t].n = Len(shared) /\ shared # <<>>
                          /\ th[t].value = <<Last(shared)>>
  /\ th[t].pc = "give" => th[t].n = Len(shared)
  /\ th[t].pc = "grab" /\ th[t].local = <<>> => pool < Enough

(* The inductive invariant: OneOwner holds because what a thread has read   *)
(* of the shared stack is still true when it writes.                        *)
Inv == /\ th = [t \in Threads |-> th[t]]
       /\ pool \in Nat /\ shared \in Seq(Bit) /\ exited \in BOOLEAN
       /\ \A t \in Threads : ThreadInv(th[t]) /\ SharedInv(t)
       /\ exited => pool < Enough
       /\ IsFiniteSet(AllPlaces) /\ Cardinality(AllPlaces) = pool
       /\ Cardinality(Ones(AllPlaces)) = 1

(* A step of one thread keeps the invariant when it keeps what that thread  *)
(* knows, moves at most one value and leaves alone what others rely on.     *)
LEMMA StepKeeps ==
  ASSUME Inv, NEW t \in Threads, NEW q, th' = [th EXCEPT ![t] = q], ThreadInv(q), SharedInv(t)',
         shared' \in Seq(Bit), pool' = pool, exited' = exited,
         (shared' = shared /\ owner' = owner) \/ owner = {} \/ owner = {t},
         LET W == Whole(OthersOf(th, t), t, shared', q.local, q.held, Moving(q))
         IN  W = AllPlaces \/ Moved(AllPlaces, W)
  PROVE  Inv'
<1>1. /\ th' = [u \in Threads |-> th'[u]] /\ th'[t] = q
      /\ \A u \in Threads \ {t} : th'[u] = th[u]
  BY DEF Inv
<1>2. AllPlaces' = Whole(OthersOf(th, t), t, shared', q.local, q.held, Moving(q))
  <2>1. AllPlaces' = PlacesIn(th', shared')
    BY DEF AllPlaces, PlacesIn
  <2>2. OthersOf(th', t) = OthersOf(th, t)
    BY <1>1 DEF OthersOf
  <2>3. PlacesIn(th', shared') =
          Whole(OthersOf(th', t), t, shared', th'[t].local, th'[t].held, Moving(th'[t]))
    BY SplitPlaces
  <2> QED  BY <1>1, <2>1, <2>2, <2>3
<1>3. IsFiniteSet(AllPlaces)' /\ (Cardinality(AllPlaces) = pool)' /\ (Cardinality(Ones(AllPlaces)) = 1)'
  <2>1. AllPlaces' = AllPlaces \/ Moved(AllPlaces, AllPlaces')
    BY <1>2
  <2>2. IsFiniteSet(AllPlaces) /\ Cardinality(AllPlaces) = pool /\ Cardinality(Ones(AllPlaces)) = 1
    BY DEF Inv
  <2>3. Ones(AllPlaces)' = Ones(AllPlaces')
    BY DEF Ones
  <2> QED  BY <2>1, <2>2, <2>3, MovedKeeps
<1>4. ASSUME NEW u \in Threads \ {t} PROVE ThreadInv(th'[u]) /\ SharedInv(u)'
  <2>1. ThreadInv(th[u]) /\ SharedInv(u) /\ th'[u] = th[u]
    BY <1>1 DEF Inv
  <2>2. th[u].pc \in Locked => owner = {u} /\ owner # {} /\ owner # {t}
    BY <2>1 DEF SharedInv
  <2>3. SharedInv(u)'
    BY <2>1, <2>2 DEF SharedInv, Locked, Enough
  <2> QED  BY <2>1, <2>3
<1>5. \A u \in Threads : ThreadInv(th'[u]) /\ SharedInv(u)'
  BY <1>1, <1>4
<1>6. pool' \in Nat /\ exited' \in BOOLEAN /\ (exited' => pool' < Enough)
  BY DEF Inv
<1> QED  BY <1>1, <1>3, <1>5, <1>6 DEF Inv

-----------------------------------------------------------------------------
(* The steps *)

LEMMA ThreadFacts ==
  ASSUME Inv, NEW t \in Threads, AllocatorAssumption
  PROVE  /\ ThreadInv(th[t]) /\ SharedInv(t) /\ th[t] \in Thread /\ shared \in Seq(Bit)
         /\ Moving(th[t]) \in Seq(Bit) /\ CACHE \in Nat \ {0} /\ MAXBATCH \in Nat
         /\ AllPlaces = Whole(OthersOf(th, t), t, shared, th[t].local, th[t].held, Moving(th[t]))
         /\ Foreign(OthersOf(th, t), t)
         /\ \A q : th' = [th EXCEPT ![t] = q] => th'[t] = q
<1>1. ThreadInv(th[t]) /\ SharedInv(t) /\ shared \in Seq(Bit) /\ th = [u \in Threads |-> th[u]]
  BY DEF Inv
<1>2. th[t] \in Thread
  BY <1>1 DEF ThreadInv
<1>3. Moving(th[t]) \in Seq(Bit)
  BY <1>2, OneMoving DEF Moving, Thread
<1>4. AllPlaces = PlacesIn(th, shared)
  BY DEF AllPlaces, PlacesIn
<1>5. /\ AllPlaces = Whole(OthersOf(th, t), t, shared, th[t].local, th[t].held, Moving(th[t]))
      /\ Foreign(OthersOf(th, t), t)
  BY <1>4, SplitPlaces
<1>6. \A q : th' = [th EXCEPT ![t] = q] => th'[t] = q
  BY <1>1
<1> QED  BY <1>1, <1>2, <1>3, <1>5, <1>6 DEF AllocatorAssumption

(* The parts of a thread's record and what is known of them.                *)
LEMMA RecordFacts ==
  ASSUME NEW r, ThreadInv(r)
  PROVE  /\ r \in Thread /\ SizesOf(r)
         /\ Len(r.local) \in Nat /\ Len(r.held) \in Nat /\ Len(r.value) \in Nat
         /\ r.local \in Seq(Bit) /\ r.held \in Seq(Bit) /\ r.value \in Seq(Bit)
         /\ r.todo \in Nat /\ r.i \in Nat /\ r.n \in Nat /\ r.rounds \in Nat
         /\ r.pc \notin {"take", "lock_spill", "spill", "give"} => r.value = <<>>
         /\ r.pc \in {"take", "lock_spill", "spill", "give"} =>
              r.value = <<Last(r.value)>> /\ Last(r.value) \in Bit
<1>1. r \in Thread /\ SizesOf(r)
  BY DEF ThreadInv
<1>2. /\ r.local \in Seq(Bit) /\ r.held \in Seq(Bit) /\ r.value \in Seq(Bit)
      /\ r.todo \in Nat /\ r.i \in Nat /\ r.n \in Nat /\ r.rounds \in Nat
  BY <1>1 DEF Thread
<1>3. Len(r.local) \in Nat /\ Len(r.held) \in Nat /\ Len(r.value) \in Nat
  BY <1>2, StackFacts
<1>4. Len(r.value) = IF r.pc \in {"take", "lock_spill", "spill", "give"} THEN 1 ELSE 0
  BY <1>1 DEF SizesOf, Sizes
<1>5. Len(r.value) = 0 => r.value = <<>>
  BY <1>2, StackFacts
<1>6. Len(r.value) = 1 => r.value = <<Last(r.value)>> /\ r.value # <<>> /\ Last(r.value) \in Bit
  BY <1>2, OneMoving, StackFacts
<1> QED  BY <1>1, <1>2, <1>3, <1>4, <1>5, <1>6

(* Every step leaves the lengths as they must be at the next one.           *)
LEMMA SizesStep ==
  ASSUME AllocatorAssumption, NEW pc, NEW l \in Nat, NEW h \in Nat, NEW v \in Nat,
         NEW todo \in Nat, NEW i \in Nat, Sizes(pc, l, h, v, todo, i)
  PROVE  /\ pc = "idle" => \A b \in 1 .. MAXBATCH : Sizes("allocate", l, h, v, b, i)
         /\ pc = "allocate" /\ todo = 0 => Sizes("recycle", l, h, v, todo, i)
         /\ pc = "allocate" /\ todo # 0 /\ l = 0 => Sizes("lock_refill", l, h, v, todo, i)
         /\ pc \in {"allocate", "grab"} /\ todo # 0 /\ l # 0 =>
              Sizes("allocate", l - 1, h + 1, v, todo - 1, i)
         /\ pc = "grab" => todo # 0
         /\ pc = "lock_refill" => Sizes("refill", l, h, v, todo, 0)
         /\ pc = "refill" /\ i < CACHE => Sizes("take", l, h, 1, todo, i)
         /\ pc = "refill" => Sizes("grab", l, h, v, todo, i)
         /\ pc = "take" => Sizes("refill", l + 1, h, 0, todo, i + 1)
         /\ pc = "recycle" /\ h = 0 => Sizes("idle", l, h, v, todo, i)
         /\ pc = "recycle" /\ h # 0 /\ l >= 2 * CACHE => Sizes("lock_spill", l, h - 1, 1, todo, i)
         /\ pc = "recycle" /\ h # 0 /\ l < 2 * CACHE => Sizes("recycle", l + 1, h - 1, 0, todo, i)
         /\ pc = "lock_spill" => Sizes("spill", l, h, v, todo, 0)
         /\ pc = "spill" /\ i < CACHE => Sizes("give", l, h, v, todo, i)
         /\ pc = "spill" /\ ~(i < CACHE) => Sizes("recycle", l + 1, h, 0, todo, i)
         /\ pc = "give" => l # 0 /\ Sizes("spill", l - 1, h, v, todo, i + 1)
<1>1. CACHE \in Nat /\ CACHE > 0 /\ MAXBATCH \in Nat
  BY DEF AllocatorAssumption
<1>2. ASSUME pc = "idle"
      PROVE  \A b \in 1 .. MAXBATCH : Sizes("allocate", l, h, v, b, i)
  BY <1>1, <1>2 DEF Sizes, Allocating
<1>3. ASSUME pc = "allocate" /\ todo = 0
      PROVE  Sizes("recycle", l, h, v, todo, i)
  BY <1>1, <1>3 DEF Sizes, Allocating
<1>4. ASSUME pc = "allocate" /\ todo # 0 /\ l = 0
      PROVE  Sizes("lock_refill", l, h, v, todo, i)
  BY <1>1, <1>4 DEF Sizes, Allocating
<1>5. ASSUME pc \in {"allocate", "grab"} /\ todo # 0 /\ l # 0
      PROVE  Sizes("allocate", l - 1, h + 1, v, todo - 1, i)
  <2>1. h + todo <= MAXBATCH /\ v = 0 /\ l + h + v < MAXBATCH + CACHE /\ l <= 2 * CACHE
    BY <1>5 DEF Sizes, Allocating
  <2>2. /\ (h + 1) + (todo - 1) <= MAXBATCH /\ (l - 1) + (h + 1) + v < MAXBATCH + CACHE
        /\ l - 1 <= 2 * CACHE
    BY <1>1, <2>1
  <2> QED  BY <2>1, <2>2 DEF Sizes, Allocating
<1>6. ASSUME pc = "grab"
      PROVE  todo # 0
  BY <1>1, <1>6 DEF Sizes, Allocating
<1>7. ASSUME pc = "lock_refill"
      PROVE  Sizes("refill", l, h, v, todo, 0)
  <2>1. /\ h + todo <= MAXBATCH /\ todo > 0 /\ v = 0 /\ l + h + v < MAXBATCH + CACHE
        /\ l <= 2 * CACHE /\ l = 0
    BY <1>7 DEF Sizes, Allocating
  <2>2. 0 <= CACHE
    BY <1>1
  <2> QED  BY <2>1, <2>2 DEF Sizes, Allocating
<1>8. ASSUME pc = "refill" /\ i < CACHE
      PROVE  Sizes("take", l, h, 1, todo, i)
  BY <1>1, <1>8 DEF Sizes, Allocating
<1>9. ASSUME pc = "refill"
      PROVE  Sizes("grab", l, h, v, todo, i)
  BY <1>1, <1>9 DEF Sizes, Allocating
<1>10. ASSUME pc = "take"
      PROVE  Sizes("refill", l + 1, h, 0, todo, i + 1)
  BY <1>1, <1>10 DEF Sizes, Allocating
<1>11. ASSUME pc = "recycle" /\ h = 0
      PROVE  Sizes("idle", l, h, v, todo, i)
  BY <1>1, <1>11 DEF Sizes, Allocating
<1>12. ASSUME pc = "recycle" /\ h # 0 /\ l >= 2 * CACHE
      PROVE  Sizes("lock_spill", l, h - 1, 1, todo, i)
  BY <1>1, <1>12 DEF Sizes, Allocating
<1>13. ASSUME pc = "recycle" /\ h # 0 /\ l < 2 * CACHE
      PROVE  Sizes("recycle", l + 1, h - 1, 0, todo, i)
  BY <1>1, <1>13 DEF Sizes, Allocating
<1>14. ASSUME pc = "lock_spill"
      PROVE  Sizes("spill", l, h, v, todo, 0)
  <2>1. v = 1 /\ l + h + v < MAXBATCH + CACHE /\ l <= 2 * CACHE /\ l = 2 * CACHE
    BY <1>14 DEF Sizes, Allocating
  <2>2. 0 <= CACHE /\ l + 0 = 2 * CACHE
    BY <1>1, <2>1
  <2> QED  BY <2>1, <2>2 DEF Sizes, Allocating
<1>15. ASSUME pc = "spill" /\ i < CACHE
      PROVE  Sizes("give", l, h, v, todo, i)
  BY <1>1, <1>15 DEF Sizes, Allocating
<1>16. ASSUME pc = "spill" /\ ~(i < CACHE)
      PROVE  Sizes("recycle", l + 1, h, 0, todo, i)
  BY <1>1, <1>16 DEF Sizes, Allocating
<1>17. ASSUME pc = "give"
      PROVE  l # 0 /\ Sizes("spill", l - 1, h, v, todo, i + 1)
  BY <1>1, <1>17 DEF Sizes, Allocating
<1> QED  BY <1>2, <1>3, <1>4, <1>5, <1>6, <1>7, <1>8, <1>9, <1>10, <1>11, <1>12, <1>13, <1>14, <1>15, <1>16, <1>17

LEMMA SizesGrab ==
  ASSUME AllocatorAssumption, NEW l \in Nat, NEW h \in Nat, NEW v \in Nat,
         NEW todo \in Nat, NEW i \in Nat, Sizes("refill", l, h, v, todo, i)
  PROVE  Sizes("grab", l, h, v, todo, i)
BY SizesStep

LEMMA SizesAside ==
  ASSUME AllocatorAssumption, NEW l \in Nat, NEW h \in Nat, NEW v \in Nat,
         NEW todo \in Nat, NEW i \in Nat, Sizes("recycle", l, h, v, todo, i),
         h # 0, l >= 2 * CACHE
  PROVE  Sizes("lock_spill", l, h - 1, 1, todo, i)
BY SizesStep

LEMMA SizesKept ==
  ASSUME AllocatorAssumption, NEW l \in Nat, NEW h \in Nat, NEW v \in Nat,
         NEW todo \in Nat, NEW i \in Nat, Sizes("spill", l, h, v, todo, i), ~(i < CACHE)
  PROVE  Sizes("recycle", l + 1, h, 0, todo, i)
BY SizesStep

(* A step that moves no value. *)
LEMMA NoMove ==
  ASSUME Inv, AllocatorAssumption, NEW t \in Threads, NEW q, th' = [th EXCEPT ![t] = q],
         ThreadInv(q), SharedInv(t)', q.local = th[t].local, q.held = th[t].held,
         Moving(q) = Moving(th[t]), shared' = shared, pool' = pool, exited' = exited,
         owner' = owner \/ owner = {} \/ owner = {t}
  PROVE  Inv'
<1>1. AllPlaces = Whole(OthersOf(th, t), t, shared', q.local, q.held, Moving(q)) /\ shared' \in Seq(Bit)
  BY ThreadFacts
<1> QED  BY <1>1, StepKeeps

LEMMA NextBatchKeeps ==
  ASSUME Inv, AllocatorAssumption, NEW t \in Threads, NextBatch(t), pool' = pool
  PROVE  Inv'
<1> DEFINE r == th[t]
<1>1. PICK b \in 1 .. MAXBATCH :
        th' = [th EXCEPT ![t] = [r EXCEPT !.pc = "allocate", !.todo = b, !.rounds = @ - 1]]
  BY DEF NextBatch, Go, AllocatorAssumption
<1> DEFINE q == [r EXCEPT !.pc = "allocate", !.todo = b, !.rounds = @ - 1]
<1>2. r.pc = "idle" /\ r.rounds > 0 /\ UNCHANGED <<shared, owner, exited>>
  BY DEF NextBatch, At, Same
<1>3. ThreadInv(r) /\ th'[t] = q
  BY <1>1, ThreadFacts
<1> HIDE DEF r
<1>4. b \in Nat /\ r.rounds - 1 \in Nat /\ r \in Thread /\ r.value = <<>>
  <2>1. r.rounds \in Nat /\ r \in Thread /\ r.value = <<>>
    BY <1>2, <1>3, RecordFacts
  <2>2. b \in Nat
    BY DEF AllocatorAssumption
  <2> QED  BY <1>2, <2>1, <2>2
<1>5. /\ q \in Thread /\ q.pc = "allocate" /\ q.local = r.local /\ q.held = r.held
      /\ q.value = r.value /\ q.todo = b /\ q.i = r.i
  BY <1>4 DEF Thread, Pcs, Allocating
<1> HIDE DEF q
<1>6. Sizes("allocate", Len(r.local), Len(r.held), Len(r.value), b, r.i)
  <2>1. /\ Len(r.local) \in Nat /\ Len(r.held) \in Nat /\ Len(r.value) \in Nat
        /\ r.todo \in Nat /\ r.i \in Nat
        /\ Sizes(r.pc, Len(r.local), Len(r.held), Len(r.value), r.todo, r.i)
    BY <1>3, RecordFacts DEF SizesOf
  <2> QED  BY <1>2, <1>3, <2>1, SizesStep
<1>7. ThreadInv(q)
  BY <1>5, <1>6 DEF ThreadInv, SizesOf
<1>8. Moving(q) = Moving(r)
  BY <1>2, <1>5 DEF Moving
<1>9. SharedInv(t)'
  BY <1>3, <1>5 DEF SharedInv, Locked
<1>10. th' = [th EXCEPT ![t] = q]
  BY <1>1 DEF q, r
<1>11. q.local = th[t].local /\ q.held = th[t].held /\ Moving(q) = Moving(th[t])
  BY <1>5, <1>8 DEF r
<1> QED  BY <1>2, <1>7, <1>9, <1>10, <1>11, NoMove

(* A thread that only goes on to another pc. *)
LEMMA RelabelKeeps ==
  ASSUME Inv, AllocatorAssumption, NEW t \in Threads, NEW pc,
         \/ th[t].pc = "allocate" /\ th[t].todo = 0 /\ pc = "recycle"
         \/ th[t].pc = "allocate" /\ th[t].todo # 0 /\ th[t].local = <<>> /\ pc = "lock_refill"
         \/ th[t].pc = "refill" /\ pc = "grab"
         \/ th[t].pc = "recycle" /\ th[t].held = <<>> /\ pc = "idle",
         th' = [th EXCEPT ![t] = [th[t] EXCEPT !.pc = pc]],
         shared' = shared, pool' = pool, exited' = exited, owner' = owner \/ owner = {t},
         pc = "grab" /\ th[t].local = <<>> => pool < Enough
  PROVE  Inv'
<1> DEFINE r == th[t]  q == [r EXCEPT !.pc = pc]
<1>1. th'[t] = q /\ ThreadInv(r)
  BY ThreadFacts
<1>2. \/ r.pc = "allocate" /\ r.todo = 0 /\ pc = "recycle"
      \/ r.pc = "allocate" /\ r.todo # 0 /\ r.local = <<>> /\ pc = "lock_refill"
      \/ r.pc = "refill" /\ pc = "grab"
      \/ r.pc = "recycle" /\ r.held = <<>> /\ pc = "idle"
  OBVIOUS
<1>3. pc = "grab" /\ r.local = <<>> => pool < Enough
  OBVIOUS
<1> HIDE DEF r
<1>4. r \in Thread /\ pc \in Pcs /\ Len(<<>>) = 0
  BY <1>1, <1>2, RecordFacts, OneMoving DEF Pcs, Allocating
<1>5. /\ q \in Thread /\ q.pc = pc /\ q.local = r.local /\ q.held = r.held
      /\ q.value = r.value /\ q.todo = r.todo /\ q.i = r.i
  BY <1>4 DEF Thread
<1> HIDE DEF q
<1>6. Sizes(pc, Len(r.local), Len(r.held), Len(r.value), r.todo, r.i)
  <2>1. /\ Len(r.local) \in Nat /\ Len(r.held) \in Nat /\ Len(r.value) \in Nat
        /\ r.todo \in Nat /\ r.i \in Nat /\ SizesOf(r)
    BY <1>1, RecordFacts
  <2>2. CASE r.pc = "allocate" /\ r.todo = 0 /\ pc = "recycle"
    BY <2>1, <2>2, SizesStep DEF SizesOf
  <2>3. CASE r.pc = "allocate" /\ r.todo # 0 /\ r.local = <<>> /\ pc = "lock_refill"
    <3>1. Len(r.local) = 0 /\ r.todo # 0
      BY <1>4, <2>3
    <3>2. Sizes("allocate", Len(r.local), Len(r.held), Len(r.value), r.todo, r.i)
      BY <2>1, <2>3 DEF SizesOf
    <3>3. Sizes("lock_refill", Len(r.local), Len(r.held), Len(r.value), r.todo, r.i)
      BY <2>1, <3>1, <3>2, SizesStep
    <3> QED  BY <2>3, <3>3
  <2>4. CASE r.pc = "refill" /\ pc = "grab"
    BY <2>1, <2>4, SizesGrab DEF SizesOf
  <2>5. CASE r.pc = "recycle" /\ r.held = <<>> /\ pc = "idle"
    <3>1. Len(r.held) = 0
      BY <1>4, <2>5
    <3>2. Sizes("recycle", Len(r.local), Len(r.held), Len(r.value), r.todo, r.i)
      BY <2>1, <2>5 DEF SizesOf
    <3>3. Sizes("idle", Len(r.local), Len(r.held), Len(r.value), r.todo, r.i)
      BY <2>1, <3>1, <3>2, SizesStep
    <3> QED  BY <2>5, <3>3
  <2> QED  BY <1>2, <2>2, <2>3, <2>4, <2>5
<1>7. ThreadInv(q)
  BY <1>5, <1>6 DEF ThreadInv, SizesOf
<1>8. Moving(q) = Moving(r)
  BY <1>2, <1>5 DEF Moving
<1>9. SharedInv(t)'
  BY <1>1, <1>2, <1>3, <1>5 DEF SharedInv, Locked, Enough
<1>10. th' = [th EXCEPT ![t] = q]
  BY DEF q, r
<1>11. q.local = th[t].local /\ q.held = th[t].held /\ Moving(q) = Moving(th[t])
  BY <1>5, <1>8 DEF r
<1> QED  BY <1>7, <1>9, <1>10, <1>11, NoMove

LEMMA TakenKeeps ==
  ASSUME Inv, AllocatorAssumption, NEW t \in Threads, th[t].pc \in {"allocate", "grab"},
         th[t].todo # 0, th[t].local # <<>>, th' = [th EXCEPT ![t] = Taken(th[t])],
         shared' = shared, pool' = pool, exited' = exited, owner' = owner
  PROVE  Inv'
<1> DEFINE r == th[t]  q == Taken(r)  l == Front(r.local)  h == Append(r.held, Last(r.local))
<1>1. /\ th'[t] = q /\ ThreadInv(r) /\ shared \in Seq(Bit) /\ Foreign(OthersOf(th, t), t)
      /\ Moving(r) \in Seq(Bit)
      /\ AllPlaces = Whole(OthersOf(th, t), t, shared, r.local, r.held, Moving(r))
  BY ThreadFacts
<1>2. r.pc \in {"allocate", "grab"} /\ r.todo # 0 /\ r.local # <<>>
  OBVIOUS
<1> HIDE DEF r
<1>3. /\ r \in Thread /\ r.todo - 1 \in Nat /\ r.local \in Seq(Bit) /\ r.held \in Seq(Bit)
  <2>1. r \in Thread /\ r.todo \in Nat /\ r.local \in Seq(Bit) /\ r.held \in Seq(Bit)
    BY <1>1, RecordFacts
  <2> QED  BY <1>2, <2>1
<1>4. l \in Seq(Bit) /\ Len(l) = Len(r.local) - 1 /\ h \in Seq(Bit) /\ Len(h) = Len(r.held) + 1
  BY <1>2, <1>3, StackFacts
<1>5. q = [r EXCEPT !.pc = "allocate", !.todo = r.todo - 1, !.held = h, !.local = l]
  BY DEF Taken
<1> HIDE DEF l, h, q
<1>6. /\ q \in Thread /\ q.pc = "allocate" /\ q.local = l /\ q.held = h
      /\ q.value = r.value /\ q.todo = r.todo - 1 /\ q.i = r.i
  BY <1>3, <1>4, <1>5 DEF Thread, Pcs, Allocating
<1>7. Sizes("allocate", Len(r.local) - 1, Len(r.held) + 1, Len(r.value), r.todo - 1, r.i)
  <2>1. /\ Len(r.local) \in Nat /\ Len(r.held) \in Nat /\ Len(r.value) \in Nat
        /\ r.todo \in Nat /\ r.i \in Nat /\ SizesOf(r)
    BY <1>1, RecordFacts
  <2>2. Len(r.local) # 0
    BY <1>2, <1>3, StackFacts
  <2> QED  BY <1>2, <2>1, <2>2, SizesStep DEF SizesOf
<1>8. ThreadInv(q)
  BY <1>4, <1>6, <1>7 DEF ThreadInv, SizesOf
<1>9. Moving(q) = Moving(r)
  BY <1>2, <1>6 DEF Moving
<1>10. SharedInv(t)'
  BY <1>1, <1>6 DEF SharedInv, Locked
<1>11. Moved(AllPlaces, Whole(OthersOf(th, t), t, shared', q.local, q.held, Moving(q)))
  <2>1. Moved(Whole(OthersOf(th, t), t, shared, r.local, r.held, Moving(r)),
              Whole(OthersOf(th, t), t, shared, l, h, Moving(r)))
    BY <1>1, <1>2, <1>3, WaysToMove DEF l, h
  <2> QED  BY <1>1, <1>6, <1>9, <2>1
<1>12. th' = [th EXCEPT ![t] = q] /\ shared' \in Seq(Bit)
  BY <1>1 DEF q, r
<1> QED  BY <1>8, <1>10, <1>11, <1>12, StepKeeps

LEMMA AllocateKeeps ==
  ASSUME Inv, AllocatorAssumption, NEW t \in Threads, Allocate(t), pool' = pool
  PROVE  Inv'
<1>1. th[t].pc = "allocate" /\ UNCHANGED <<shared, owner, exited>>
  BY DEF Allocate, At, Same
<1>2. th' = [th EXCEPT ![t] = IF th[t].todo = 0 THEN [th[t] EXCEPT !.pc = "recycle"]
                              ELSE IF th[t].local = <<>> THEN [th[t] EXCEPT !.pc = "lock_refill"]
                              ELSE Taken(th[t])]
  BY DEF Allocate, Go
<1>3. CASE th[t].todo = 0
  <2>1. th' = [th EXCEPT ![t] = [th[t] EXCEPT !.pc = "recycle"]]
    BY <1>2, <1>3
  <2> QED  BY <1>1, <1>3, <2>1, RelabelKeeps
<1>4. CASE th[t].todo # 0 /\ th[t].local = <<>>
  BY <1>1, <1>2, <1>4, RelabelKeeps
<1>5. CASE th[t].todo # 0 /\ th[t].local # <<>>
  BY <1>1, <1>2, <1>5, TakenKeeps
<1> QED  BY <1>3, <1>4, <1>5

LEMMA LockKeeps ==
  ASSUME Inv, AllocatorAssumption, NEW t \in Threads, NEW from, NEW to, Lock(t, from, to),
         <<from, to>> \in {<<"lock_refill", "refill">>, <<"lock_spill", "spill">>},
         pool' = pool
  PROVE  Inv'
<1> DEFINE r == th[t]  q == [r EXCEPT !.pc = to, !.i = 0]
<1>1. /\ th' = [th EXCEPT ![t] = q] /\ owner = {} /\ owner' = {t} /\ shared' = shared
      /\ exited' = exited /\ r.pc = from
  BY DEF Lock, At, Go
<1>2. th'[t] = q /\ ThreadInv(r)
  BY <1>1, ThreadFacts
<1>3. (from = "lock_refill" /\ to = "refill") \/ (from = "lock_spill" /\ to = "spill")
  OBVIOUS
<1> HIDE DEF r
<1>4. r \in Thread /\ to \in Pcs
  BY <1>2, <1>3, RecordFacts DEF Pcs, Allocating
<1>5. /\ q \in Thread /\ q.pc = to /\ q.local = r.local /\ q.held = r.held
      /\ q.value = r.value /\ q.todo = r.todo /\ q.i = 0
  BY <1>4 DEF Thread
<1> HIDE DEF q
<1>6. Sizes(to, Len(r.local), Len(r.held), Len(r.value), r.todo, 0)
  <2>1. /\ Len(r.local) \in Nat /\ Len(r.held) \in Nat /\ Len(r.value) \in Nat
        /\ r.todo \in Nat /\ r.i \in Nat /\ SizesOf(r)
    BY <1>2, RecordFacts
  <2>2. CASE from = "lock_refill" /\ to = "refill"
    <3>1. Sizes("lock_refill", Len(r.local), Len(r.held), Len(r.value), r.todo, r.i)
      BY <1>1, <2>1, <2>2 DEF SizesOf
    <3>2. Sizes("refill", Len(r.local), Len(r.held), Len(r.value), r.todo, 0)
      BY <2>1, <3>1, SizesStep
    <3> QED  BY <2>2, <3>2
  <2>3. CASE from = "lock_spill" /\ to = "spill"
    BY <1>1, <2>1, <2>3, SizesStep DEF SizesOf
  <2> QED  BY <1>3, <2>2, <2>3
<1>7. ThreadInv(q)
  BY <1>5, <1>6 DEF ThreadInv, SizesOf
<1>8. Moving(q) = Moving(r)
  BY <1>1, <1>3, <1>5 DEF Moving
<1>9. SharedInv(t)'
  BY <1>1, <1>2, <1>3, <1>5 DEF SharedInv, Locked
<1>10. q.local = th[t].local /\ q.held = th[t].held /\ Moving(q) = Moving(th[t])
  BY <1>5, <1>8 DEF r
<1> QED  BY <1>1, <1>7, <1>9, <1>10, NoMove

(* A round of the refill reads the top of the shared stack, ... *)
LEMMA ReadTopKeeps ==
  ASSUME Inv, AllocatorAssumption, NEW t \in Threads, th[t].pc = "refill", th[t].i < CACHE,
         shared # <<>>, UNCHANGED <<shared, owner, exited, pool>>,
         th' = [th EXCEPT ![t] = [th[t] EXCEPT !.pc = "take", !.n = Len(shared),
                                               !.value = <<Last(shared)>>]]
  PROVE  Inv'
<1> DEFINE r == th[t]  q == [r EXCEPT !.pc = "take", !.n = Len(shared), !.value = <<Last(shared)>>]
<1>1. th'[t] = q /\ ThreadInv(r) /\ SharedInv(t) /\ shared \in Seq(Bit) /\ r.pc = "refill" /\ r.i < CACHE
  BY ThreadFacts
<1> HIDE DEF r
<1>2. r \in Thread /\ Len(shared) \in Nat /\ Last(shared) \in Bit
  BY <1>1, RecordFacts, StackFacts
<1>3. <<Last(shared)>> \in Seq(Bit) /\ Len(<<Last(shared)>>) = 1
  BY <1>2, OneMoving
<1>4. /\ q \in Thread /\ q.pc = "take" /\ q.local = r.local /\ q.held = r.held
      /\ q.value = <<Last(shared)>> /\ q.todo = r.todo /\ q.i = r.i /\ q.n = Len(shared)
  BY <1>2, <1>3 DEF Thread, Pcs, Allocating
<1> HIDE DEF q
<1>5. Sizes("take", Len(r.local), Len(r.held), 1, r.todo, r.i)
  <2>1. /\ Len(r.local) \in Nat /\ Len(r.held) \in Nat /\ Len(r.value) \in Nat
        /\ r.todo \in Nat /\ r.i \in Nat
        /\ Sizes(r.pc, Len(r.local), Len(r.held), Len(r.value), r.todo, r.i)
    BY <1>1, RecordFacts DEF SizesOf
  <2> QED  BY <1>1, <2>1, SizesStep
<1>6. ThreadInv(q)
  BY <1>3, <1>4, <1>5 DEF ThreadInv, SizesOf
<1>7. Moving(q) = Moving(r)
  BY <1>1, <1>4, RecordFacts DEF Moving
<1>8. owner = {t}
  BY <1>1 DEF SharedInv, Locked, r
<1>9. SharedInv(t)'
  BY <1>1, <1>4, <1>8 DEF SharedInv, Locked
<1>10. /\ q.local = th[t].local /\ q.held = th[t].held /\ Moving(q) = Moving(th[t])
       /\ th' = [th EXCEPT ![t] = q]
  BY <1>4, <1>7 DEF r, q
<1> QED  BY <1>6, <1>9, <1>10, NoMove

(* ... and takes it off: what was read is still the top, for the mutex.     *)
LEMMA TakeKeeps ==
  ASSUME Inv, AllocatorAssumption, NEW t \in Threads, Take(t), pool' = pool
  PROVE  Inv'
<1> DEFINE r == th[t]  l == Append(r.local, Last(shared))
           q == [r EXCEPT !.pc = "refill", !.i = @ + 1, !.n = 0, !.value = <<>>,
                          !.local = @ \o r.value]
<1>1. /\ th'[t] = q /\ ThreadInv(r) /\ SharedInv(t) /\ shared \in Seq(Bit)
      /\ Foreign(OthersOf(th, t), t) /\ Moving(r) \in Seq(Bit) /\ th' = [th EXCEPT ![t] = q]
      /\ AllPlaces = Whole(OthersOf(th, t), t, shared, r.local, r.held, Moving(r))
  BY ThreadFacts DEF Take, Go
<1>2. /\ r.pc = "take" /\ UNCHANGED <<owner, exited>> /\ shared' = SubSeq(shared, 1, r.n - 1)
  BY DEF Take, At
<1>3. owner = {t} /\ r.n = Len(shared) /\ shared # <<>> /\ r.value = <<Last(shared)>>
  BY <1>1, <1>2 DEF SharedInv, Locked
<1> HIDE DEF r
<1>4. shared' = Front(shared) /\ Front(shared) \in Seq(Bit) /\ Last(shared) \in Bit
  BY <1>1, <1>2, <1>3, StackFacts
<1>5. r \in Thread /\ r.local \in Seq(Bit) /\ r.held \in Seq(Bit) /\ r.i + 1 \in Nat
  <2>1. r \in Thread /\ r.local \in Seq(Bit) /\ r.held \in Seq(Bit) /\ r.i \in Nat
    BY <1>1, RecordFacts
  <2> QED  BY <2>1
<1>6. l = r.local \o r.value /\ l \in Seq(Bit) /\ Len(l) = Len(r.local) + 1
  <2>1. r.local \o <<Last(shared)>> = l /\ l \in Seq(Bit) /\ Len(l) = Len(r.local) + 1
    BY <1>4, <1>5, StackFacts
  <2> QED  BY <1>3, <2>1
<1>7. <<>> \in Seq(Bit) /\ Len(<<>>) = 0
  BY OneMoving
<1> HIDE DEF l
<1>8. /\ q \in Thread /\ q.pc = "refill" /\ q.local = l /\ q.held = r.held
      /\ q.value = <<>> /\ q.todo = r.todo /\ q.i = r.i + 1
  BY <1>5, <1>6, <1>7 DEF Thread, Pcs, Allocating
<1> HIDE DEF q
<1>9. Sizes("refill", Len(r.local) + 1, Len(r.held), 0, r.todo, r.i + 1)
  <2>1. /\ Len(r.local) \in Nat /\ Len(r.held) \in Nat /\ Len(r.value) \in Nat
        /\ r.todo \in Nat /\ r.i \in Nat /\ SizesOf(r)
    BY <1>1, RecordFacts
  <2>2. Sizes("take", Len(r.local), Len(r.held), Len(r.value), r.todo, r.i)
    BY <1>2, <2>1 DEF SizesOf
  <2> QED  BY <2>1, <2>2, SizesStep
<1>10. ThreadInv(q)
  BY <1>6, <1>7, <1>8, <1>9 DEF ThreadInv, SizesOf
<1>11. Moving(q) = Moving(r)
  BY <1>2, <1>8 DEF Moving
<1>12. SharedInv(t)'
  BY <1>1, <1>2, <1>3, <1>8 DEF SharedInv, Locked
<1>13. Moved(AllPlaces, Whole(OthersOf(th, t), t, shared', q.local, q.held, Moving(q)))
  <2>1. Moved(Whole(OthersOf(th, t), t, shared, r.local, r.held, Moving(r)),
              Whole(OthersOf(th, t), t, Front(shared), l, r.held, Moving(r)))
    BY <1>1, <1>3, <1>5, WaysToMove DEF l
  <2> QED  BY <1>1, <1>4, <1>8, <1>11, <2>1
<1> QED  BY <1>1, <1>2, <1>3, <1>4, <1>10, <1>12, <1>13, StepKeeps

(* A value in a thread's hands is put aside for the mutex, ... *)
LEMMA AsideKeeps ==
  ASSUME Inv, AllocatorAssumption, NEW t \in Threads, th[t].pc = "recycle",
         th[t].held # <<>>, Len(th[t].local) >= 2 * CACHE, UNCHANGED <<shared, owner, exited, pool>>,
         th' = [th EXCEPT ![t] = [th[t] EXCEPT !.held = Front(@), !.value = <<Last(th[t].held)>>,
                                               !.pc = "lock_spill"]]
  PROVE  Inv'
<1> DEFINE r == th[t]  h == Front(r.held)  m == <<Last(r.held)>>
           q == [r EXCEPT !.held = Front(@), !.value = <<Last(r.held)>>, !.pc = "lock_spill"]
<1>1. /\ th'[t] = q /\ ThreadInv(r) /\ shared \in Seq(Bit) /\ Foreign(OthersOf(th, t), t)
      /\ AllPlaces = Whole(OthersOf(th, t), t, shared, r.local, r.held, Moving(r))
      /\ th' = [th EXCEPT ![t] = q]
  BY ThreadFacts
<1>2. r.pc = "recycle" /\ r.held # <<>> /\ Len(r.local) >= 2 * CACHE
  OBVIOUS
<1> HIDE DEF r
<1>3. /\ r \in Thread /\ r.local \in Seq(Bit) /\ r.held \in Seq(Bit) /\ Moving(r) = <<>>
  BY <1>1, <1>2, RecordFacts DEF Moving
<1>4. h \in Seq(Bit) /\ Len(h) = Len(r.held) - 1 /\ Last(r.held) \in Bit /\ Len(r.held) # 0
  BY <1>2, <1>3, StackFacts
<1>5. m \in Seq(Bit) /\ Len(m) = 1 /\ Append(<<>>, Last(r.held)) = m /\ <<>> \in Seq(Bit)
  BY <1>4, OneMoving
<1>6. q = [r EXCEPT !.held = h, !.value = m, !.pc = "lock_spill"]
  OBVIOUS
<1> HIDE DEF h, m, q
<1>7. /\ q \in Thread /\ q.pc = "lock_spill" /\ q.local = r.local /\ q.held = h
      /\ q.value = m /\ q.todo = r.todo /\ q.i = r.i
  BY <1>3, <1>4, <1>5, <1>6 DEF Thread, Pcs, Allocating
<1>8. Sizes("lock_spill", Len(r.local), Len(r.held) - 1, 1, r.todo, r.i)
  <2>1. /\ Len(r.local) \in Nat /\ Len(r.held) \in Nat /\ Len(r.value) \in Nat
        /\ r.todo \in Nat /\ r.i \in Nat
        /\ Sizes("recycle", Len(r.local), Len(r.held), Len(r.value), r.todo, r.i)
    BY <1>1, <1>2, RecordFacts DEF SizesOf
  <2> QED  BY <1>2, <1>4, <2>1, SizesAside
<1>9. ThreadInv(q)
  BY <1>4, <1>5, <1>7, <1>8 DEF ThreadInv, SizesOf
<1>10. Moving(q) = m
  BY <1>7 DEF Moving
<1>11. SharedInv(t)'
  BY <1>1, <1>7 DEF SharedInv, Locked
<1>12. Moved(AllPlaces, Whole(OthersOf(th, t), t, shared', q.local, q.held, Moving(q)))
  <2>1. Moved(Whole(OthersOf(th, t), t, shared, r.local, r.held, <<>>),
              Whole(OthersOf(th, t), t, shared, r.local, h, Append(<<>>, Last(r.held))))
    BY <1>1, <1>2, <1>3, <1>5, WaysToMove DEF h
  <2> QED  BY <1>1, <1>3, <1>5, <1>7, <1>10, <2>1
<1> QED  BY <1>1, <1>9, <1>11, <1>12, StepKeeps

(* ... or kept at once. *)
LEMMA KeptAtOnceKeeps ==
  ASSUME Inv, AllocatorAssumption, NEW t \in Threads, th[t].pc = "recycle",
         th[t].held # <<>>, ~(Len(th[t].local) >= 2 * CACHE), UNCHANGED <<shared, owner, exited, pool>>,
         th' = [th EXCEPT ![t] = Kept([th[t] EXCEPT !.held = Front(@), !.value = <<Last(th[t].held)>>])]
  PROVE  Inv'
<1> DEFINE r == th[t]  h == Front(r.held)  l == Append(r.local, Last(r.held))
           q == Kept([r EXCEPT !.held = Front(@), !.value = <<Last(r.held)>>])
<1>1. /\ th'[t] = q /\ ThreadInv(r) /\ shared \in Seq(Bit) /\ Foreign(OthersOf(th, t), t)
      /\ AllPlaces = Whole(OthersOf(th, t), t, shared, r.local, r.held, Moving(r))
      /\ th' = [th EXCEPT ![t] = q]
  BY ThreadFacts
<1>2. r.pc = "recycle" /\ r.held # <<>> /\ ~(Len(r.local) >= 2 * CACHE)
  OBVIOUS
<1> HIDE DEF r
<1>3. /\ r \in Thread /\ r.local \in Seq(Bit) /\ r.held \in Seq(Bit) /\ Moving(r) = <<>>
      /\ <<>> \in Seq(Bit) /\ Len(<<>>) = 0
  BY <1>1, <1>2, RecordFacts, OneMoving DEF Moving
<1>4. h \in Seq(Bit) /\ Len(h) = Len(r.held) - 1 /\ Last(r.held) \in Bit /\ Len(r.held) # 0
  BY <1>2, <1>3, StackFacts
<1>5. l \in Seq(Bit) /\ Len(l) = Len(r.local) + 1 /\ r.local \o <<Last(r.held)>> = l
  BY <1>3, <1>4, StackFacts
<1>6. q = [r EXCEPT !.held = h, !.value = <<>>, !.pc = "recycle", !.local = l]
  BY <1>3, <1>5 DEF Kept, Thread
<1> HIDE DEF h, l, q
<1>7. /\ q \in Thread /\ q.pc = "recycle" /\ q.local = l /\ q.held = h
      /\ q.value = <<>> /\ q.todo = r.todo /\ q.i = r.i
  BY <1>3, <1>4, <1>5, <1>6 DEF Thread, Pcs, Allocating
<1>8. Sizes("recycle", Len(r.local) + 1, Len(r.held) - 1, 0, r.todo, r.i)
  <2>1. /\ Len(r.local) \in Nat /\ Len(r.held) \in Nat /\ Len(r.value) \in Nat
        /\ r.todo \in Nat /\ r.i \in Nat /\ SizesOf(r) /\ CACHE \in Nat
    BY <1>1, RecordFacts DEF AllocatorAssumption
  <2>2. Len(r.local) < 2 * CACHE
    BY <1>2, <2>1
  <2> QED  BY <1>2, <1>4, <2>1, <2>2, SizesStep DEF SizesOf
<1>9. ThreadInv(q)
  BY <1>3, <1>4, <1>5, <1>7, <1>8 DEF ThreadInv, SizesOf
<1>10. Moving(q) = <<>>
  BY <1>7 DEF Moving
<1>11. SharedInv(t)'
  BY <1>1, <1>7 DEF SharedInv, Locked
<1>12. Moved(AllPlaces, Whole(OthersOf(th, t), t, shared', q.local, q.held, Moving(q)))
  <2>1. Moved(Whole(OthersOf(th, t), t, shared, r.local, r.held, <<>>),
              Whole(OthersOf(th, t), t, shared, l, h, <<>>))
    BY <1>1, <1>2, <1>3, WaysToMove DEF h, l
  <2> QED  BY <1>1, <1>3, <1>7, <1>10, <2>1
<1> QED  BY <1>1, <1>9, <1>11, <1>12, StepKeeps

LEMMA RecycleKeeps ==
  ASSUME Inv, AllocatorAssumption, NEW t \in Threads, Recycle(t), pool' = pool
  PROVE  Inv'
<1>1. th[t].pc = "recycle" /\ UNCHANGED <<shared, owner, exited, pool>>
  BY DEF Recycle, At, Same
<1> DEFINE r == [th[t] EXCEPT !.held = Front(@), !.value = <<Last(th[t].held)>>]
<1>2. th' = [th EXCEPT ![t] = IF th[t].held = <<>> THEN [th[t] EXCEPT !.pc = "idle"]
                              ELSE IF Len(r.local) >= 2 * CACHE THEN [r EXCEPT !.pc = "lock_spill"]
                              ELSE Kept(r)]
  BY DEF Recycle, Go
<1>3. th[t] \in Thread
  BY ThreadFacts
<1>4. r.local = th[t].local
  BY <1>3 DEF Thread
<1>5. CASE th[t].held = <<>>
  <2>1. th' = [th EXCEPT ![t] = [th[t] EXCEPT !.pc = "idle"]]
    BY <1>2, <1>5
  <2> QED  BY <1>1, <1>5, <2>1, RelabelKeeps
<1>6. CASE th[t].held # <<>> /\ Len(th[t].local) >= 2 * CACHE
  <2>1. th' = [th EXCEPT ![t] = [r EXCEPT !.pc = "lock_spill"]]
    BY <1>2, <1>4, <1>6
  <2>2. th' = [th EXCEPT ![t] = [th[t] EXCEPT !.held = Front(@), !.value = <<Last(th[t].held)>>,
                                              !.pc = "lock_spill"]]
    BY <2>1
  <2> QED  BY <1>1, <1>6, <2>2, AsideKeeps
<1>7. CASE th[t].held # <<>> /\ ~(Len(th[t].local) >= 2 * CACHE)
  <2>1. th' = [th EXCEPT ![t] = Kept(r)]
    BY <1>2, <1>4, <1>7
  <2> QED  BY <1>1, <1>7, <2>1, KeptAtOnceKeeps
<1> QED  BY <1>5, <1>6, <1>7

(* A round of the spill reads the length of the shared stack, ... *)
LEMMA ReadLengthKeeps ==
  ASSUME Inv, AllocatorAssumption, NEW t \in Threads, th[t].pc = "spill", th[t].i < CACHE,
         UNCHANGED <<shared, owner, exited, pool>>,
         th' = [th EXCEPT ![t] = [th[t] EXCEPT !.pc = "give", !.n = Len(shared)]]
  PROVE  Inv'
<1> DEFINE r == th[t]  q == [r EXCEPT !.pc = "give", !.n = Len(shared)]
<1>1. th'[t] = q /\ ThreadInv(r) /\ SharedInv(t) /\ shared \in Seq(Bit) /\ r.pc = "spill" /\ r.i < CACHE
  BY ThreadFacts
<1> HIDE DEF r
<1>2. r \in Thread /\ Len(shared) \in Nat
  BY <1>1, RecordFacts, StackFacts
<1>3. /\ q \in Thread /\ q.pc = "give" /\ q.local = r.local /\ q.held = r.held
      /\ q.value = r.value /\ q.todo = r.todo /\ q.i = r.i /\ q.n = Len(shared)
  BY <1>2 DEF Thread, Pcs, Allocating
<1> HIDE DEF q
<1>4. Sizes("give", Len(r.local), Len(r.held), Len(r.value), r.todo, r.i)
  <2>1. /\ Len(r.local) \in Nat /\ Len(r.held) \in Nat /\ Len(r.value) \in Nat
        /\ r.todo \in Nat /\ r.i \in Nat
        /\ Sizes(r.pc, Len(r.local), Len(r.held), Len(r.value), r.todo, r.i)
    BY <1>1, RecordFacts DEF SizesOf
  <2> QED  BY <1>1, <2>1, SizesStep
<1>5. ThreadInv(q)
  BY <1>3, <1>4 DEF ThreadInv, SizesOf
<1>6. Moving(q) = Moving(r)
  BY <1>1, <1>3 DEF Moving
<1>7. owner = {t}
  BY <1>1 DEF SharedInv, Locked, r
<1>8. SharedInv(t)'
  BY <1>1, <1>3, <1>7 DEF SharedInv, Locked
<1>9. /\ q.local = th[t].local /\ q.held = th[t].held /\ Moving(q) = Moving(th[t])
      /\ th' = [th EXCEPT ![t] = q]
  BY <1>3, <1>6 DEF r, q
<1> QED  BY <1>5, <1>8, <1>9, NoMove

(* ... and puts a value there: it is still the length, for the mutex.       *)
LEMMA GiveKeeps ==
  ASSUME Inv, AllocatorAssumption, NEW t \in Threads, Give(t), pool' = pool
  PROVE  Inv'
<1> DEFINE r == th[t]  l == Front(r.local)  s == Append(shared, Last(r.local))
           q == [r EXCEPT !.pc = "spill", !.i = @ + 1, !.n = 0, !.local = Front(@)]
<1>1. /\ th'[t] = q /\ ThreadInv(r) /\ SharedInv(t) /\ shared \in Seq(Bit)
      /\ Foreign(OthersOf(th, t), t) /\ Moving(r) \in Seq(Bit) /\ th' = [th EXCEPT ![t] = q]
      /\ AllPlaces = Whole(OthersOf(th, t), t, shared, r.local, r.held, Moving(r))
  BY ThreadFacts DEF Give, Go
<1>2. /\ r.pc = "give" /\ UNCHANGED <<owner, exited>>
      /\ shared' = Append(SubSeq(shared, 1, r.n), Last(r.local))
  BY DEF Give, At
<1>3. owner = {t} /\ r.n = Len(shared)
  BY <1>1, <1>2 DEF SharedInv, Locked
<1> HIDE DEF r
<1>4. /\ Len(r.local) \in Nat /\ Len(r.held) \in Nat /\ Len(r.value) \in Nat
      /\ r.todo \in Nat /\ r.i \in Nat /\ r \in Thread /\ r.local \in Seq(Bit) /\ r.held \in Seq(Bit)
      /\ Sizes("give", Len(r.local), Len(r.held), Len(r.value), r.todo, r.i)
  BY <1>1, <1>2, RecordFacts DEF SizesOf
<1>5. /\ Len(r.local) # 0 /\ r.i + 1 \in Nat
      /\ Sizes("spill", Len(r.local) - 1, Len(r.held), Len(r.value), r.todo, r.i + 1)
  <2>1. Len(r.local) # 0 /\ Sizes("spill", Len(r.local) - 1, Len(r.held), Len(r.value), r.todo, r.i + 1)
    BY <1>4, SizesStep
  <2> QED  BY <1>4, <2>1
<1>6. r.local # <<>>
  BY <1>4, <1>5, StackFacts
<1>7. l \in Seq(Bit) /\ Len(l) = Len(r.local) - 1 /\ Last(r.local) \in Bit
  BY <1>4, <1>6, StackFacts
<1>8. shared' = s /\ s \in Seq(Bit)
  <2>1. SubSeq(shared, 1, r.n) = shared
    BY <1>1, <1>3, StackFacts
  <2> QED  BY <1>1, <1>2, <1>7, <2>1, StackFacts
<1>9. q = [r EXCEPT !.pc = "spill", !.i = r.i + 1, !.n = 0, !.local = l]
  OBVIOUS
<1> HIDE DEF l, s, q
<1>10. /\ q \in Thread /\ q.pc = "spill" /\ q.local = l /\ q.held = r.held
       /\ q.value = r.value /\ q.todo = r.todo /\ q.i = r.i + 1
  BY <1>4, <1>5, <1>7, <1>9 DEF Thread, Pcs, Allocating
<1>11. ThreadInv(q)
  BY <1>5, <1>7, <1>10 DEF ThreadInv, SizesOf
<1>12. Moving(q) = Moving(r)
  BY <1>2, <1>10 DEF Moving
<1>13. SharedInv(t)'
  BY <1>1, <1>2, <1>3, <1>10 DEF SharedInv, Locked
<1>14. Moved(AllPlaces, Whole(OthersOf(th, t), t, shared', q.local, q.held, Moving(q)))
  <2>1. Moved(Whole(OthersOf(th, t), t, shared, r.local, r.held, Moving(r)),
              Whole(OthersOf(th, t), t, s, l, r.held, Moving(r)))
    BY <1>1, <1>4, <1>6, WaysToMove DEF l, s
  <2> QED  BY <1>1, <1>8, <1>10, <1>12, <2>1
<1> QED  BY <1>1, <1>2, <1>3, <1>8, <1>11, <1>13, <1>14, StepKeeps

(* The value put aside is kept when the spill has made room for it.         *)
LEMMA KeptAfterSpillKeeps ==
  ASSUME Inv, AllocatorAssumption, NEW t \in Threads, th[t].pc = "spill", ~(th[t].i < CACHE),
         th' = [th EXCEPT ![t] = Kept(th[t])],
         shared' = shared, exited' = exited, pool' = pool, owner' = owner \ {t}
  PROVE  Inv'
<1> DEFINE r == th[t]  v == Last(r.value)  l == Append(r.local, v)  q == Kept(r)
<1>1. /\ th'[t] = q /\ ThreadInv(r) /\ SharedInv(t) /\ shared \in Seq(Bit)
      /\ Foreign(OthersOf(th, t), t) /\ Moving(r) \in Seq(Bit) /\ th' = [th EXCEPT ![t] = q]
      /\ AllPlaces = Whole(OthersOf(th, t), t, shared, r.local, r.held, Moving(r))
  BY ThreadFacts
<1>2. r.pc = "spill" /\ ~(r.i < CACHE)
  OBVIOUS
<1>3. owner = {t}
  BY <1>1, <1>2 DEF SharedInv, Locked
<1> HIDE DEF r
<1>4. /\ Len(r.local) \in Nat /\ Len(r.held) \in Nat /\ Len(r.value) \in Nat
      /\ r.todo \in Nat /\ r.i \in Nat /\ r \in Thread /\ r.local \in Seq(Bit) /\ r.held \in Seq(Bit)
      /\ r.value = <<v>> /\ v \in Bit
      /\ Sizes("spill", Len(r.local), Len(r.held), Len(r.value), r.todo, r.i)
  BY <1>1, <1>2, RecordFacts DEF SizesOf
<1>5. Sizes("recycle", Len(r.local) + 1, Len(r.held), 0, r.todo, r.i)
  BY <1>2, <1>4, SizesKept
<1> HIDE DEF v
<1>6. /\ l \in Seq(Bit) /\ Len(l) = Len(r.local) + 1 /\ r.local \o r.value = l
      /\ <<>> \in Seq(Bit) /\ Len(<<>>) = 0
  <2>1. l \in Seq(Bit) /\ Len(l) = Len(r.local) + 1 /\ r.local \o <<v>> = l
    BY <1>4, StackFacts
  <2> QED  BY <1>4, <2>1, OneMoving
<1>7. Moving(r) = <<v>> /\ <<v>> # <<>> /\ Last(<<v>>) = v /\ Front(<<v>>) = <<>>
  BY <1>2, <1>4, OneMoving DEF Moving
<1>8. q = [r EXCEPT !.pc = "recycle", !.local = l, !.value = <<>>]
  BY <1>4, <1>6 DEF Kept, Thread
<1> HIDE DEF l, q
<1>9. /\ q \in Thread /\ q.pc = "recycle" /\ q.local = l /\ q.held = r.held
      /\ q.value = <<>> /\ q.todo = r.todo /\ q.i = r.i
  BY <1>4, <1>6, <1>8 DEF Thread, Pcs, Allocating
<1>10. ThreadInv(q)
  BY <1>5, <1>6, <1>9 DEF ThreadInv, SizesOf
<1>11. Moving(q) = <<>>
  BY <1>9 DEF Moving
<1>12. SharedInv(t)'
  BY <1>1, <1>9 DEF SharedInv, Locked
<1>13. Moved(AllPlaces, Whole(OthersOf(th, t), t, shared', q.local, q.held, Moving(q)))
  <2> DEFINE m == <<v>>
  <2>1. m \in Seq(Bit) /\ m # <<>> /\ Last(m) = v /\ Front(m) = <<>> /\ Moving(r) = m
    BY <1>1, <1>7
  <2> HIDE DEF m
  <2>2. Moved(Whole(OthersOf(th, t), t, shared, r.local, r.held, m),
              Whole(OthersOf(th, t), t, shared, Append(r.local, Last(m)), r.held, Front(m)))
    BY <1>1, <1>4, <2>1, WaysToMove
  <2>3. Append(r.local, Last(m)) = l
    BY <2>1 DEF l
  <2> QED  BY <1>1, <1>9, <1>11, <2>1, <2>2, <2>3
<1> QED  BY <1>1, <1>3, <1>10, <1>12, <1>13, StepKeeps

LEMMA SpillKeeps ==
  ASSUME Inv, AllocatorAssumption, NEW t \in Threads, Spill(t), pool' = pool
  PROVE  Inv'
<1>1. th[t].pc = "spill"
  BY DEF Spill, At
<1>2. CASE th[t].i < CACHE
  <2>1. /\ UNCHANGED <<shared, owner, exited, pool>>
        /\ th' = [th EXCEPT ![t] = [th[t] EXCEPT !.pc = "give", !.n = Len(shared)]]
    BY <1>2 DEF Spill, Go, Same
  <2> QED  BY <1>1, <1>2, <2>1, ReadLengthKeeps
<1>3. CASE ~(th[t].i < CACHE)
  <2>1. /\ shared' = shared /\ exited' = exited /\ owner' = owner \ {t}
        /\ th' = [th EXCEPT ![t] = Kept(th[t])]
    BY <1>3 DEF Spill, Go, Unlock
  <2> QED  BY <1>1, <1>3, <2>1, KeptAfterSpillKeeps
<1> QED  BY <1>2, <1>3

-----------------------------------------------------------------------------
(* The pool is large enough *)

(* The k-th place of thread t, counted through its three stacks.            *)
PlaceAt(t, r, k) ==
  LET a == Len(r.local)
      b == Len(r.local) + Len(r.held)
  IN  IF k <= a THEN <<{t}, "local", k, r.local[k]>>
      ELSE IF k <= b THEN <<{t}, "held", k - a, r.held[k - a]>>
      ELSE <<{t}, "moving", k - b, Moving(r)[k - b]>>

LEMMA EveryPlaceAt ==
  ASSUME NEW t, NEW r, r.local \in Seq(Bit), r.held \in Seq(Bit), Moving(r) \in Seq(Bit),
         NEW p \in PlacesOf(t, r)
  PROVE  \E k \in 1 .. Len(r.local) + Len(r.held) + Len(Moving(r)) : p = PlaceAt(t, r, k)
<1> DEFINE a == Len(r.local)  h == Len(r.held)  m == Len(Moving(r))
<1>1. /\ a \in Nat /\ h \in Nat /\ m \in Nat
      /\ DOMAIN r.local = 1 .. a /\ DOMAIN r.held = 1 .. h /\ DOMAIN Moving(r) = 1 .. m
  BY LenProperties
<1>2. \/ p \in Places({t}, "local", r.local) \/ p \in Places({t}, "held", r.held)
      \/ p \in Places({t}, "moving", Moving(r))
  BY DEF PlacesOf
<1>3. CASE p \in Places({t}, "local", r.local)
  <2>1. PICK k \in 1 .. a : p = <<{t}, "local", k, r.local[k]>>
    BY <1>1, <1>3 DEF Places
  <2> HIDE DEF a, h, m
  <2>2. k \in 1 .. a + h + m /\ k <= a
    BY <1>1, <2>1
  <2> QED  BY <2>1, <2>2 DEF PlaceAt, a, h, m
<1>4. CASE p \in Places({t}, "held", r.held)
  <2>1. PICK k \in 1 .. h : p = <<{t}, "held", k, r.held[k]>>
    BY <1>1, <1>4 DEF Places
  <2> HIDE DEF a, h, m
  <2>2. a + k \in 1 .. a + h + m /\ ~(a + k <= a) /\ a + k <= a + h /\ a + k - a = k
    BY <1>1, <2>1
  <2>3. PlaceAt(t, r, a + k) = p
    BY <2>1, <2>2 DEF PlaceAt, a, h
  <2> QED  BY <2>2, <2>3 DEF a, h, m
<1>5. CASE p \in Places({t}, "moving", Moving(r))
  <2>1. PICK k \in 1 .. m : p = <<{t}, "moving", k, Moving(r)[k]>>
    BY <1>1, <1>5 DEF Places
  <2> HIDE DEF a, h, m
  <2>2. /\ a + h + k \in 1 .. a + h + m /\ ~(a + h + k <= a) /\ ~(a + h + k <= a + h)
        /\ a + h + k - (a + h) = k
    BY <1>1, <2>1
  <2>3. PlaceAt(t, r, a + h + k) = p
    BY <2>1, <2>2 DEF PlaceAt, a, h
  <2> QED  BY <2>2, <2>3 DEF a, h, m
<1> QED  BY <1>2, <1>3, <1>4, <1>5

(* What a thread has: less than a batch and a refill, and less than a batch *)
(* when it refills from empty hands.                                        *)
Total(r) == Len(r.local) + Len(r.held) + Len(Moving(r))

LEMMA ThreadTotal ==
  ASSUME NEW r, ThreadInv(r), AllocatorAssumption
  PROVE  /\ Total(r) \in Nat /\ Total(r) < MAXBATCH + CACHE /\ Moving(r) \in Seq(Bit)
         /\ r.pc = "refill" /\ Len(r.local) = 0 => Total(r) < MAXBATCH
<1>1. /\ Len(r.local) \in Nat /\ Len(r.held) \in Nat /\ Len(r.value) \in Nat /\ r.todo \in Nat
      /\ r.value \in Seq(Bit) /\ SizesOf(r) /\ MAXBATCH \in Nat /\ CACHE \in Nat
  BY RecordFacts DEF AllocatorAssumption
<1>2. Moving(r) \in Seq(Bit) /\ Len(Moving(r)) = IF r.pc = "take" THEN 0 ELSE Len(r.value)
  BY <1>1, OneMoving DEF Moving
<1>3. Len(r.local) + Len(r.held) + (IF r.pc = "take" THEN 0 ELSE Len(r.value)) < MAXBATCH + CACHE
  BY <1>1 DEF SizesOf, Sizes
<1>4. Total(r) \in Nat /\ Total(r) < MAXBATCH + CACHE
  <2> DEFINE a == Len(r.local)  b == Len(r.held)  m == Len(Moving(r))
             v == IF r.pc = "take" THEN 0 ELSE Len(r.value)
  <2>1. a \in Nat /\ b \in Nat /\ v \in Nat /\ m = v /\ a + b + v < MAXBATCH + CACHE
    BY <1>1, <1>2, <1>3
  <2>2. Total(r) = a + b + m
    BY DEF Total
  <2> HIDE DEF a, b, m, v
  <2> QED  BY <2>1, <2>2
<1>5. ASSUME r.pc = "refill" /\ Len(r.local) = 0 PROVE Total(r) < MAXBATCH
  <2>1. Len(r.held) + r.todo <= MAXBATCH /\ r.todo > 0 /\ Len(r.value) = 0
    BY <1>1, <1>5 DEF SizesOf, Sizes, Allocating
  <2>2. Total(r) = 0 + Len(r.held) + 0
    BY <1>2, <1>5, <2>1 DEF Total
  <2> QED  BY <1>1, <2>1, <2>2
<1> QED  BY <1>2, <1>4, <1>5

(* A refill that brings nothing: all values are in the threads' hands, and  *)
(* counted there they are less than Enough.                                 *)
LEMMA NothingLeft ==
  ASSUME Inv, AllocatorAssumption, NEW t \in Threads, th[t].pc = "refill",
         th[t].local = <<>>, shared = <<>>
  PROVE  pool < Enough
<1> DEFINE Others == Threads \ {t}  N == Cardinality(Threads)  K == MAXBATCH + CACHE - 1
           A == Others \X (1 .. K)  B == {t} \X (1 .. MAXBATCH - 1)
           C == {d \in A \cup B : d[2] <= Total(th[d[1]])}
           f == [d \in C |-> PlaceAt(d[1], th[d[1]], d[2])]
<1>1. \A u \in Threads : /\ ThreadInv(th[u]) /\ Moving(th[u]) \in Seq(Bit) /\ Total(th[u]) \in Nat
                         /\ th[u].local \in Seq(Bit) /\ th[u].held \in Seq(Bit)
                         /\ Total(th[u]) < MAXBATCH + CACHE
  BY ThreadTotal, RecordFacts DEF Inv
<1>2. Total(th[t]) < MAXBATCH
  BY <1>1, ThreadTotal, OneMoving
<1>3. CACHE \in Nat /\ MAXBATCH \in Nat /\ MAXBATCH >= 1 /\ IsFiniteSet(Threads)
  BY <1>1, <1>2 DEF AllocatorAssumption
<1>4. AllPlaces = UNION {PlacesOf(u, th[u]) : u \in Threads}
  BY OneMoving DEF AllPlaces, Places
<1>5. ASSUME NEW p \in AllPlaces
      PROVE  \E d \in C : p = PlaceAt(d[1], th[d[1]], d[2])
  <2>1. PICK u \in Threads : p \in PlacesOf(u, th[u])
    BY <1>4, <1>5
  <2>2. PICK k \in 1 .. Total(th[u]) : p = PlaceAt(u, th[u], k)
    BY <1>1, <2>1, EveryPlaceAt DEF Total
  <2>3. <<u, k>> \in A \cup B
    <3>1. CASE u = t
      BY <1>1, <1>2, <1>3, <3>1
    <3>2. CASE u # t
      BY <1>1, <1>3, <3>2
    <3> QED  BY <3>1, <3>2
  <2>4. k <= Total(th[u])
    BY <1>1
  <2>5. <<u, k>> \in C
    BY <2>3, <2>4
  <2> QED  BY <2>2, <2>5
<1> DEFINE R == {f[d] : d \in C}
<1>6. AllPlaces \in SUBSET R
  BY <1>5
<1>7. f \in Surjection(C, R)
  <2>1. f \in [C -> R]
    OBVIOUS
  <2>2. \A y \in R : \E d \in C : f[d] = y
    OBVIOUS
  <2> HIDE DEF f, R, C
  <2> QED  BY <2>1, <2>2 DEF Surjection
<1>8. /\ IsFiniteSet(A) /\ Cardinality(A) = (N - 1) * K
      /\ IsFiniteSet(B) /\ Cardinality(B) = 1 * (MAXBATCH - 1) /\ N \in Nat \ {0}
  <2>1. IsFiniteSet(Others) /\ Cardinality(Others) = N - 1 /\ N \in Nat /\ N # 0
    BY <1>3, FS_RemoveElement, FS_CardinalityType, FS_EmptySet
  <2>2. \A n \in Nat : IsFiniteSet(1 .. n) /\ Cardinality(1 .. n) = n
    <3> SUFFICES ASSUME NEW n \in Nat PROVE IsFiniteSet(1 .. n) /\ Cardinality(1 .. n) = n
      OBVIOUS
    <3>1. IsFiniteSet(1 .. n) /\ Cardinality(1 .. n) = IF 1 > n THEN 0 ELSE n - 1 + 1
      BY FS_Interval
    <3> QED  BY <3>1
  <2>3. /\ IsFiniteSet(1 .. K) /\ Cardinality(1 .. K) = K
        /\ IsFiniteSet(1 .. MAXBATCH - 1) /\ Cardinality(1 .. MAXBATCH - 1) = MAXBATCH - 1
    BY <1>3, <2>2
  <2>4. IsFiniteSet({t}) /\ Cardinality({t}) = 1
    BY FS_Singleton
  <2>5. IsFiniteSet(A) /\ Cardinality(A) = Cardinality(Others) * Cardinality(1 .. K)
    BY <2>1, <2>3, FS_Product
  <2>6. IsFiniteSet(B) /\ Cardinality(B) = Cardinality({t}) * Cardinality(1 .. MAXBATCH - 1)
    BY <2>3, <2>4, FS_Product
  <2> HIDE DEF A, B, Others, K, N
  <2> QED  BY <2>1, <2>3, <2>4, <2>5, <2>6
<1>9. IsFiniteSet(A \cup B) /\ Cardinality(A \cup B) <= Cardinality(A) + Cardinality(B)
  <2>1. A \cap B = {}
    OBVIOUS
  <2> HIDE DEF A, B
  <2>2. IsFiniteSet(A \cup B) /\ Cardinality(A \cup B) = Cardinality(A) + Cardinality(B) - Cardinality({})
    BY <1>8, <2>1, FS_Union
  <2> QED  BY <1>8, <2>2, FS_EmptySet, FS_CardinalityType
<1>10. IsFiniteSet(C) /\ Cardinality(C) <= Cardinality(A \cup B)
  <2>1. C \in SUBSET (A \cup B)
    OBVIOUS
  <2> HIDE DEF C, A, B
  <2> QED  BY <1>9, <2>1, FS_Subset
<1> HIDE DEF R, f, C, A, B, N, K
<1>11. IsFiniteSet(R) /\ Cardinality(R) <= Cardinality(C)
  BY <1>7, <1>10, FS_Surjection
<1>12. Cardinality(AllPlaces) <= Cardinality(R) /\ Cardinality(AllPlaces) = pool
  BY <1>6, <1>11, FS_Subset DEF Inv
<1>13. pool <= (N - 1) * K + (MAXBATCH - 1)
  <2>1. /\ Cardinality(R) \in Nat /\ Cardinality(C) \in Nat /\ Cardinality(A \cup B) \in Nat
        /\ Cardinality(A) \in Nat /\ Cardinality(B) \in Nat /\ pool \in Nat
    BY <1>8, <1>9, <1>10, <1>11, FS_CardinalityType DEF Inv
  <2>2. pool <= Cardinality(A) + Cardinality(B) /\ Cardinality(B) = MAXBATCH - 1
    BY <1>3, <1>8, <1>9, <1>10, <1>11, <1>12, <2>1
  <2> QED  BY <1>8, <2>2
<1>14. (N - 1) * K + (MAXBATCH - 1) = N * (MAXBATCH - 1) + (N - 1) * CACHE
  BY <1>3, <1>8 DEF K
<1>15. (N - 1) * K \in Int /\ N * (MAXBATCH - 1) \in Int /\ (N - 1) * CACHE \in Int /\ pool \in Nat
  BY <1>3, <1>8 DEF K, Inv
<1> QED  BY <1>13, <1>14, <1>15, <1>3 DEF Enough, N

-----------------------------------------------------------------------------
LEMMA RefillKeeps ==
  ASSUME Inv, AllocatorAssumption, NEW t \in Threads, Refill(t), pool' = pool
  PROVE  Inv'
<1>1. th[t].pc = "refill" /\ ThreadInv(th[t])
  BY ThreadFacts DEF Refill, At
<1>2. CASE th[t].i < CACHE /\ shared # <<>>
  <2>1. /\ UNCHANGED <<shared, owner, exited, pool>>
        /\ th' = [th EXCEPT ![t] = [th[t] EXCEPT !.pc = "take", !.n = Len(shared),
                                                 !.value = <<Last(shared)>>]]
    BY <1>2 DEF Refill, Go, Same
  <2> QED  BY <1>1, <1>2, <2>1, ReadTopKeeps
<1>3. CASE ~(th[t].i < CACHE /\ shared # <<>>)
  <2>1. /\ shared' = shared /\ exited' = exited /\ owner' = owner \ {t}
        /\ th' = [th EXCEPT ![t] = [th[t] EXCEPT !.pc = "grab"]]
    BY <1>3 DEF Refill, Go, Unlock
  <2>2. owner = {t}
    BY <1>1, ThreadFacts DEF SharedInv, Locked
  <2>3. ASSUME th[t].local = <<>> PROVE pool < Enough
    <3>1. Len(th[t].local) = 0
      BY <2>3, OneMoving
    <3>2. th[t].i = 0
      BY <1>1, <3>1 DEF ThreadInv, SizesOf, Sizes
    <3>3. shared = <<>>
      BY <1>3, <3>2 DEF AllocatorAssumption
    <3> QED  BY <1>1, <2>3, <3>3, NothingLeft
  <2>4. \/ owner' = owner \/ owner = {t}
    BY <2>2
  <2> QED  BY <1>1, <2>1, <2>3, <2>4, RelabelKeeps
<1> QED  BY <1>2, <1>3

LEMMA GrabKeeps ==
  ASSUME Inv, AllocatorAssumption, NEW t \in Threads, Grab(t), pool' = pool
  PROVE  Inv'
<1>1. th[t].pc = "grab" /\ UNCHANGED <<shared, owner, pool>> /\ ThreadInv(th[t])
  BY ThreadFacts DEF Grab, At
<1>2. CASE th[t].local = <<>>
  <2>1. exited' = TRUE /\ th' = th
    BY <1>2 DEF Grab
  <2>2. pool < Enough
    BY <1>1, <1>2, ThreadFacts DEF SharedInv
  <2>3. AllPlaces' = AllPlaces
    BY <1>1, <2>1 DEF AllPlaces
  <2>4. \A u \in Threads : SharedInv(u)'
    BY <1>1, <2>1 DEF Inv, SharedInv, Enough
  <2> QED  BY <1>1, <2>1, <2>2, <2>3, <2>4 DEF Inv, Enough, Ones
<1>3. CASE th[t].local # <<>>
  <2>1. th' = [th EXCEPT ![t] = Taken(th[t])] /\ exited' = exited
    BY <1>3 DEF Grab, Go
  <2>2. th[t].todo # 0
    <3>1. Sizes("grab", Len(th[t].local), Len(th[t].held), Len(th[t].value), th[t].todo, th[t].i)
      BY <1>1 DEF ThreadInv, SizesOf
    <3> QED  BY <3>1 DEF Sizes, Allocating
  <2> QED  BY <1>1, <1>3, <2>1, <2>2, TakenKeeps
<1> QED  BY <1>2, <1>3

LEMMA InvStep ==
  ASSUME Inv, AllocatorAssumption, [Next]_vars
  PROVE  Inv'
<1>1. CASE UNCHANGED vars
  <2>1. UNCHANGED <<pool, shared, owner, th, exited>>
    BY <1>1 DEF vars
  <2>2. AllPlaces' = AllPlaces /\ \A u \in Threads : SharedInv(u)' = SharedInv(u)
    BY <2>1 DEF AllPlaces, SharedInv, Enough
  <2> QED  BY <2>1, <2>2 DEF Inv, Enough, Ones
<1>2. CASE Next
  <2>1. PICK t \in Threads : Step(t)
    BY <1>2 DEF Next
  <2>2. pool' = pool
    BY <2>1 DEF Step
  <2>3. CASE NextBatch(t)
    BY <2>2, <2>3, NextBatchKeeps
  <2>4. CASE Allocate(t)
    BY <2>2, <2>4, AllocateKeeps
  <2>5. CASE Lock(t, "lock_refill", "refill")
    BY <2>2, <2>5, LockKeeps
  <2>6. CASE Refill(t)
    BY <2>2, <2>6, RefillKeeps
  <2>7. CASE Take(t)
    BY <2>2, <2>7, TakeKeeps
  <2>8. CASE Grab(t)
    BY <2>2, <2>8, GrabKeeps
  <2>9. CASE Recycle(t)
    BY <2>2, <2>9, RecycleKeeps
  <2>10. CASE Lock(t, "lock_spill", "spill")
    BY <2>2, <2>10, LockKeeps
  <2>11. CASE Spill(t)
    BY <2>2, <2>11, SpillKeeps
  <2>12. CASE Give(t)
    BY <2>2, <2>12, GiveKeeps
  <2> QED  BY <2>1, <2>3, <2>4, <2>5, <2>6, <2>7, <2>8, <2>9, <2>10, <2>11, <2>12 DEF Step
<1> QED  BY <1>1, <1>2

LEMMA InvInit ==
  ASSUME Init, AllocatorAssumption
  PROVE  Inv
<1>1. /\ pool \in Nat \ {0} /\ owner = {} /\ th = [t \in Threads |-> Idle] /\ exited = FALSE
      /\ CACHE \in Nat \ {0} /\ MAXBATCH \in Nat /\ ROUNDS \in Nat
  BY DEF Init, AllocatorAssumption
<1>2. PICK k \in 1 .. pool : shared = [j \in 1 .. pool |-> IF j = k THEN 1 ELSE 0]
  BY DEF Init
<1>3. shared \in Seq(Bit) /\ Len(shared) = pool /\ DOMAIN shared = 1 .. pool
  <2>1. shared \in [1 .. pool -> Bit]
    BY <1>2 DEF Bit
  <2>2. shared \in Seq(Bit)
    BY <1>1, <2>1, SeqDef
  <2> QED  BY <1>1, <2>1, <2>2, LenProperties
<1>4. /\ \A t \in Threads : th[t] = Idle
      /\ <<>> \in Seq(Bit) /\ Len(<<>>) = 0 /\ Moving(Idle) = <<>>
  BY <1>1, OneMoving DEF Idle, Moving
<1>5. ThreadInv(Idle)
  <2>1. Idle \in Thread
    BY <1>1, <1>4 DEF Idle, Thread, Pcs, Allocating
  <2>2. 0 + 0 + 0 < MAXBATCH + CACHE /\ 0 <= 2 * CACHE
    BY <1>1
  <2>3. Sizes("idle", 0, 0, 0, 0, 0)
    BY <2>2 DEF Sizes, Allocating
  <2> QED  BY <1>4, <2>1, <2>3 DEF ThreadInv, SizesOf, Idle
<1>6. \A t \in Threads : ThreadInv(th[t]) /\ SharedInv(t)
  BY <1>4, <1>5 DEF SharedInv, Locked, Idle
<1>7. AllPlaces = Places({}, "shared", shared)
  <2>1. \A w, stack : Places(w, stack, <<>>) = {}
    BY DEF Places
  <2>2. \A t \in Threads : PlacesOf(t, th[t]) = {}
    BY <1>4, <2>1 DEF PlacesOf, Idle
  <2> QED  BY <2>2 DEF AllPlaces
<1>8. IsFiniteSet(AllPlaces) /\ Cardinality(AllPlaces) = pool
  BY <1>3, <1>7, PlacesCount
<1>9. Cardinality(Ones(AllPlaces)) = 1
  <2>1. Ones(AllPlaces) = {<<{}, "shared", k, 1>>}
    BY <1>2, <1>3, <1>7 DEF Ones, Places
  <2> QED  BY <2>1, FS_Singleton
<1>10. th = [t \in Threads |-> th[t]]
  BY <1>1
<1> QED  BY <1>1, <1>3, <1>6, <1>8, <1>9, <1>10 DEF Inv

LEMMA Invariant == Spec => []Inv
<1>1. Init => Inv
  BY Bounds, InvInit
<1>2. Inv /\ [Next]_vars => Inv'
  BY Bounds, InvStep
<1> QED  BY <1>1, <1>2, PTL DEF Spec

(* Every value is in one place, for any number of threads and values: none  *)
(* is lost between the stacks of allocator.c and none is there twice.       *)
THEOREM EachValueOnce == Spec => []OneOwner
<1>1. Inv => OneOwner
  BY DEF Inv, OneOwner, Ones
<1> QED  BY <1>1, Invariant, PTL

(* With N * (MAXBATCH - 1) + (N - 1) * CACHE + 1 values for N threads, none *)
(* exits for want of one, a local stack stays within its 2 * CACHE and the  *)
(* loop that refills runs under the mutex.                                  *)
THEOREM AllocationSucceeds == Spec => []EnoughNeverFails
<1>1. ASSUME Inv PROVE EnoughNeverFails
  <2>1. \A t \in Threads : Len(th[t].local) <= 2 * CACHE
    BY <1>1 DEF Inv, ThreadInv, SizesOf, Sizes
  <2>2. \A t \in Threads : th[t].pc \in {"refill", "take"} => owner = {t}
    BY <1>1 DEF Inv, SharedInv, Locked
  <2> QED  BY <1>1, <2>1, <2>2 DEF Inv, EnoughNeverFails
<1> QED  BY <1>1, Invariant, PTL

-----------------------------------------------------------------------------
(* The deque is linearizable for any number of calls and of values: the     *)
(* functions of the list read and then write, and the spinlock makes of     *)
(* each a step of AtomicDeque.                                              *)

-----------------------------------------------------------------------------
(* The list's functions *)

(* The first or the last value is what remains without the rest.            *)
LEMMA EndsOfSequence ==
  ASSUME NEW s \in Seq(Values), s # <<>>
  PROVE  /\ Head(s) \in Values /\ Tail(s) \in Seq(Values) /\ s = <<Head(s)>> \o Tail(s)
         /\ Last(s) \in Values /\ Front(s) \in Seq(Values) /\ s = Front(s) \o <<Last(s)>>
<1> DEFINE n == Len(s)
<1>1. n \in Nat \ {0} /\ s \in [1 .. n -> Values] /\ SubSeq(s, 1, n) = s
  BY EmptySeq, LenProperties, SubSeqFull
<1>2. 1 \in 1 .. n /\ n \in 1 .. n /\ n - 1 \in 0 .. n
  BY <1>1
<1>3. Head(s) = s[1] /\ Tail(s) = SubSeq(s, 2, n) /\ Head(s) \in Values /\ Tail(s) \in Seq(Values)
  BY <1>1, HeadTailProperties, TailIsSubSeq
<1>4. s = <<s[1]>> \o SubSeq(s, 2, n)
  <2>1. SubSeq(s, 1, n) = <<s[1]>> \o SubSeq(s, 1 + 1, n)
    BY <1>2, SubSeqRecursiveFirst
  <2> QED  BY <1>1, <2>1
<1>5. s = SubSeq(s, 1, n - 1) \o <<s[n]>>
  <2>1. SubSeq(s, 1, n) = SubSeq(s, 1, n - 1) \o <<s[n]>>
    BY <1>2, SubSeqRecursiveSecond
  <2> QED  BY <1>1, <2>1
<1>6. Front(s) = SubSeq(s, 1, n - 1) /\ Last(s) = s[n]
  BY DEF Front, Last
<1>7. SubSeq(s, 1, n - 1) \in Seq(Values)
  BY <1>1, SubSeqProperties
<1> QED  BY <1>1, <1>2, <1>3, <1>4, <1>5, <1>6, <1>7

(* A call names a function and carries a value or an index, or neither.     *)
LEMMA OpCases ==
  ASSUME NEW op \in Ops
  PROVE  \/ op[1] = "push_front" /\ op[2] \in Values
         \/ op[1] = "push_back" /\ op[2] \in Values
         \/ op[1] = "get"
         \/ op[1] = "pop_front" \/ op[1] = "pop_back"
         \/ op[1] = "length" \/ op[1] = "is_empty"
BY DEF Ops

(* What a function leaves of the list it has read, and what it answers, is  *)
(* the effect that AtomicDeque describes.                                   *)
LEMMA FunctionEffect ==
  ASSUME NEW op \in Ops, list \in Seq(Values), list' = After(op, list)
  PROVE  list' \in Seq(Values) /\ D!Effect(op, Value(op, list))
<1> DEFINE answer == Value(op, list)
<1>1. CASE op[1] = "push_front" /\ op[2] \in Values
  <2>1. list' = <<op[2]>> \o list /\ answer = <<Null>>
    BY <1>1 DEF After, Value
  <2>2. <<op[2]>> \in Seq(Values)
    BY <1>1
  <2> HIDE DEF answer
  <2>3. list' \in Seq(Values)
    BY <2>1, <2>2, ConcatProperties
  <2> QED  BY <1>1, <2>1, <2>3 DEF D!Effect, answer
<1>2. CASE op[1] = "push_back" /\ op[2] \in Values
  <2>1. list' = Append(list, op[2]) /\ answer = <<Null>>
    BY <1>2 DEF After, Value
  <2>2. list' \in Seq(Values)
    BY <1>2, <2>1, AppendProperties
  <2> HIDE DEF answer
  <2> QED  BY <1>2, <2>1, <2>2 DEF D!Effect, answer
<1>3. CASE op[1] = "get"
  <2>1. list' = list /\ answer = IF op[2] < Len(list) THEN <<list[op[2] + 1]>> ELSE <<Null>>
    BY <1>3 DEF After, Value
  <2> HIDE DEF answer
  <2> QED  BY <1>3, <2>1 DEF D!Effect, D!Keeps, answer
<1>4. CASE op[1] = "pop_front"
  <2>1. CASE list = <<>>
    <3>1. list' = list /\ answer = <<Null>>
      BY <1>4, <2>1 DEF After, Value
    <3> HIDE DEF answer
    <3> QED  BY <1>4, <2>1, <3>1 DEF D!Effect, D!Keeps, answer
  <2>2. CASE list # <<>>
    <3>1. list' = Tail(list) /\ answer = <<Head(list)>>
      BY <1>4, <2>2 DEF After, Value
    <3>2. Tail(list) \in Seq(Values) /\ list = <<Head(list)>> \o Tail(list)
      BY <2>2, EndsOfSequence
    <3> HIDE DEF answer
    <3>3. list = answer \o list' /\ list' \in Seq(Values)
      BY <3>1, <3>2
    <3> QED  BY <1>4, <2>2, <3>3 DEF D!Effect, answer
  <2> QED  BY <2>1, <2>2
<1>5. CASE op[1] = "pop_back"
  <2>1. CASE list = <<>>
    <3>1. list' = list /\ answer = <<Null>>
      BY <1>5, <2>1 DEF After, Value
    <3> HIDE DEF answer
    <3> QED  BY <1>5, <2>1, <3>1 DEF D!Effect, D!Keeps, answer
  <2>2. CASE list # <<>>
    <3>1. list' = Front(list) /\ answer = <<Last(list)>>
      BY <1>5, <2>2 DEF After, Value
    <3>2. Front(list) \in Seq(Values) /\ list = Front(list) \o <<Last(list)>>
      BY <2>2, EndsOfSequence
    <3> HIDE DEF answer
    <3>3. list = list' \o answer /\ list' \in Seq(Values)
      BY <3>1, <3>2
    <3> QED  BY <1>5, <2>2, <3>3 DEF D!Effect, answer
  <2> QED  BY <2>1, <2>2
<1>6. CASE op[1] = "length"
  <2>1. list' = list /\ answer = <<Len(list)>>
    BY <1>6 DEF After, Value
  <2> HIDE DEF answer
  <2> QED  BY <1>6, <2>1 DEF D!Effect, D!Keeps, answer
<1>7. CASE op[1] = "is_empty"
  <2>1. list' = list /\ answer = <<IF list = <<>> THEN 1 ELSE 0>>
    BY <1>7 DEF After, Value
  <2> HIDE DEF answer
  <2> QED  BY <1>7, <2>1 DEF D!Effect, D!Keeps, answer
<1> QED  BY <1>1, <1>2, <1>3, <1>4, <1>5, <1>6, <1>7, OpCases

-----------------------------------------------------------------------------
(* The lock *)

InLock(t) == caller[t].pc \in {"read", "write", "unlock"}

Shaped(r) == r = [pc |-> r.pc, op |-> r.op, left |-> r.left, read |-> r.read, ans |-> r.ans]

CallerInv(t) ==
  /\ Shaped(caller[t])
  /\ caller[t].pc \in {"idle", "load", "exchange", "read", "write", "unlock"}
  /\ caller[t].pc = "idle" => caller[t].op = <<>> /\ caller[t].ans = <<>>
  /\ caller[t].pc # "idle" => caller[t].op \in Ops
  /\ caller[t].pc # "unlock" => caller[t].ans = <<>>
  /\ caller[t].pc = "write" => caller[t].read = list
  /\ InLock(t) => locked

(* The inductive invariant. One thread at a time is past the exchange, and  *)
(* what it has read is still the list when it writes: without that a write  *)
(* would undo another's.                                                    *)
DequeInv ==
  /\ caller = [t \in Callers |-> caller[t]] /\ list \in Seq(Values) /\ locked \in BOOLEAN
  /\ \A t \in Callers : CallerInv(t)
  /\ \A t, u \in Callers : InLock(t) /\ InLock(u) => t = u

LEMMA InitDequeInv == DequeInit => DequeInv
<1> SUFFICES ASSUME DequeInit PROVE DequeInv
  OBVIOUS
<1>1. \A t \in Callers : caller[t] = NoCall
  BY DEF DequeInit
<1>2. <<>> \in Seq(Values)
  BY EmptySeq
<1> QED  BY <1>1, <1>2 DEF DequeInit, DequeInv, CallerInv, NoCall, Shaped, InLock

(* A step of t disturbs no other thread: it changes the list or gives the   *)
(* lock back only when t has the lock, and takes it only when it is free.   *)
LEMMA OthersUndisturbed ==
  ASSUME DequeInv, NEW t \in Callers, caller' = [u \in Callers |-> caller'[u]],
         \A u \in Callers \ {t} : caller'[u] = caller[u],
         list' \in Seq(Values), locked' \in BOOLEAN, CallerInv(t)',
         InLock(t) \/ (list' = list /\ (locked => locked')),
         InLock(t)' => InLock(t) \/ ~locked
  PROVE  DequeInv'
<1>1. ASSUME NEW u \in Callers \ {t}
      PROVE  CallerInv(u)' /\ (InLock(u)' => InLock(u) /\ ~InLock(t)')
  <2>1. CallerInv(u) /\ caller'[u] = caller[u] /\ InLock(u)' = InLock(u)
    BY DEF DequeInv, InLock
  <2>2. InLock(u) => locked /\ ~InLock(t)
    BY <2>1 DEF DequeInv, CallerInv
  <2>3. caller[u].pc = "write" => InLock(u)
    BY DEF InLock
  <2> QED  BY <2>1, <2>2, <2>3 DEF CallerInv
<1>2. \A u \in Callers : CallerInv(u)'
  BY <1>1
<1>3. \A u, v \in Callers : InLock(u)' /\ InLock(v)' => u = v
  BY <1>1 DEF DequeInv
<1> QED  BY <1>2, <1>3 DEF DequeInv

(* Whoever takes the lock is alone in it, and nobody else writes.           *)
LEMMA NextDequeInv == DequeInv /\ [DequeNext]_dequeVars => DequeInv'
<1> SUFFICES ASSUME DequeInv, [DequeNext]_dequeVars PROVE DequeInv'
  OBVIOUS
<1>1. CASE UNCHANGED dequeVars
  BY <1>1 DEF dequeVars, DequeInv, CallerInv, Shaped, InLock
<1>2. ASSUME NEW t \in Callers, DequeStep(t) PROVE DequeInv'
  <2>1. /\ caller = [u \in Callers |-> caller[u]] /\ Shaped(caller[t]) /\ CallerInv(t)
        /\ list \in Seq(Values) /\ locked \in BOOLEAN
    BY DEF DequeInv, CallerInv
  <2>2. CASE Call(t)
    <3>1. PICK op \in Ops : caller' = [caller EXCEPT ![t].pc = "load", ![t].op = op,
                                             ![t].left = @ - 1]
      BY <2>2 DEF Call
    <3>2. /\ caller' = [u \in Callers |-> caller'[u]]
          /\ \A u \in Callers \ {t} : caller'[u] = caller[u]
          /\ caller'[t] = [caller[t] EXCEPT !.pc = "load", !.op = op, !.left = @ - 1]
      BY <2>1, <3>1
    <3>3. /\ caller'[t].pc = "load" /\ caller'[t].op = op /\ caller'[t].ans = caller[t].ans
          /\ Shaped(caller'[t])
          /\ caller[t].pc = "idle" /\ UNCHANGED <<list, locked>>
      BY <2>1, <2>2, <3>2 DEF Shaped, Call, CallerAt
    <3>4. CallerInv(t)' /\ ~InLock(t)'
      BY <2>1, <3>3 DEF CallerInv, InLock
    <3> QED  BY <2>1, <3>2, <3>3, <3>4, OthersUndisturbed
  <2>3. CASE Load(t)
    <3>1. /\ caller' = [u \in Callers |-> caller'[u]]
          /\ \A u \in Callers \ {t} : caller'[u] = caller[u]
          /\ caller'[t] = [caller[t] EXCEPT !.pc = "exchange"]
      BY <2>1, <2>3 DEF Load, CallerTo
    <3>2. /\ caller'[t].pc = "exchange" /\ caller'[t].op = caller[t].op /\ caller'[t].ans = caller[t].ans
          /\ Shaped(caller'[t]) /\ caller[t].pc = "load" /\ UNCHANGED <<list, locked>>
      BY <2>1, <2>3, <3>1 DEF Shaped, Load, CallerAt
    <3>3. CallerInv(t)' /\ ~InLock(t)'
      BY <2>1, <3>2 DEF CallerInv, InLock
    <3> QED  BY <2>1, <3>1, <3>2, <3>3, OthersUndisturbed
  <2>4. CASE Exchange(t)
    <3>1. /\ caller' = [u \in Callers |-> caller'[u]]
          /\ \A u \in Callers \ {t} : caller'[u] = caller[u]
          /\ caller'[t] = [caller[t] EXCEPT !.pc = IF locked THEN "load" ELSE "read"]
      BY <2>1, <2>4 DEF Exchange, CallerTo
    <3>2. /\ caller'[t].pc = (IF locked THEN "load" ELSE "read")
          /\ caller'[t].op = caller[t].op /\ caller'[t].ans = caller[t].ans
          /\ Shaped(caller'[t]) /\ caller[t].pc = "exchange" /\ locked' = TRUE /\ list' = list
      BY <2>1, <2>4, <3>1 DEF Shaped, Exchange, CallerAt
    <3>3. CallerInv(t)' /\ (InLock(t)' => ~locked)
      BY <2>1, <3>2 DEF CallerInv, InLock
    <3> QED  BY <2>1, <3>1, <3>2, <3>3, OthersUndisturbed
  <2>5. CASE Read(t)
    <3>1. /\ caller' = [u \in Callers |-> caller'[u]]
          /\ \A u \in Callers \ {t} : caller'[u] = caller[u]
          /\ caller'[t] = [caller[t] EXCEPT !.pc = "write", !.read = list]
      BY <2>1, <2>5 DEF Read
    <3>2. /\ caller'[t].pc = "write" /\ caller'[t].read = list
          /\ caller'[t].op = caller[t].op /\ caller'[t].ans = caller[t].ans
          /\ Shaped(caller'[t]) /\ caller[t].pc = "read" /\ UNCHANGED <<list, locked>>
      BY <2>1, <2>5, <3>1 DEF Shaped, Read, CallerAt
    <3>3. CallerInv(t)' /\ InLock(t)
      BY <2>1, <3>2 DEF CallerInv, InLock
    <3> QED  BY <2>1, <3>1, <3>2, <3>3, OthersUndisturbed
  <2>6. CASE Write(t)
    <3>1. /\ caller' = [u \in Callers |-> caller'[u]]
          /\ \A u \in Callers \ {t} : caller'[u] = caller[u]
          /\ caller'[t] = [caller[t] EXCEPT !.pc = "unlock", !.read = <<>>,
                                    !.ans = Value(caller[t].op, caller[t].read)]
      BY <2>1, <2>6 DEF Write
    <3>2. /\ caller'[t].pc = "unlock" /\ caller'[t].op = caller[t].op
          /\ Shaped(caller'[t]) /\ caller[t].pc = "write" /\ locked' = locked
      BY <2>1, <2>6, <3>1 DEF Shaped, Write, CallerAt
    <3>3. list' \in Seq(Values)
      <4>1. caller[t].read = list /\ caller[t].op \in Ops
        BY <2>1, <3>2 DEF CallerInv
      <4> QED  BY <2>1, <2>6, <4>1, FunctionEffect DEF Write
    <3>4. CallerInv(t)' /\ InLock(t)
      BY <2>1, <3>2 DEF CallerInv, InLock
    <3> QED  BY <2>1, <3>1, <3>2, <3>3, <3>4, OthersUndisturbed
  <2>7. CASE Release(t)
    <3>1. /\ caller' = [u \in Callers |-> caller'[u]]
          /\ \A u \in Callers \ {t} : caller'[u] = caller[u]
          /\ caller'[t] = [caller[t] EXCEPT !.pc = "idle", !.op = <<>>, !.ans = <<>>]
      BY <2>1, <2>7 DEF Release
    <3>2. /\ caller'[t].pc = "idle" /\ caller'[t].op = <<>> /\ caller'[t].ans = <<>>
          /\ Shaped(caller'[t]) /\ caller[t].pc = "unlock" /\ list' = list /\ locked' = FALSE
      BY <2>1, <2>7, <3>1 DEF Shaped, Release, CallerAt
    <3>3. CallerInv(t)' /\ InLock(t)
      BY <2>1, <3>2 DEF CallerInv, InLock
    <3> QED  BY <2>1, <3>1, <3>2, <3>3, OthersUndisturbed
  <2> QED  BY <1>2, <2>2, <2>3, <2>4, <2>5, <2>6, <2>7 DEF DequeStep
<1> QED  BY <1>1, <1>2 DEF DequeNext

-----------------------------------------------------------------------------
(* Refinement *)

(* A call starts, takes effect with the write of its function and returns   *)
(* with the unlock; the steps between are invisible.                        *)
LEMMA StepRefines == DequeInv /\ [DequeNext]_dequeVars => [D!Next]_(D!vars)
<1> SUFFICES ASSUME DequeInv, [DequeNext]_dequeVars PROVE [D!Next]_(D!vars)
  OBVIOUS
<1> DEFINE Phase(r) == CASE r.pc = "idle" -> "idle" [] r.pc = "unlock" -> "done"
                         [] OTHER -> "called"
           View(r)  == <<Phase(r), r.op, r.ans>>
           at == [u \in Callers |-> View(caller[u])]
<1>1. CASE UNCHANGED dequeVars
  BY <1>1 DEF dequeVars, D!vars
<1>2. ASSUME NEW t \in Callers, DequeStep(t) PROVE [D!Next]_(D!vars)
  <2>1. /\ caller = [u \in Callers |-> caller[u]] /\ Shaped(caller[t]) /\ list \in Seq(Values)
        /\ caller[t].pc = "idle" => caller[t].op = <<>> /\ caller[t].ans = <<>>
        /\ caller[t].pc # "idle" => caller[t].op \in Ops
        /\ caller[t].pc # "unlock" => caller[t].ans = <<>>
        /\ caller[t].pc = "write" => caller[t].read = list
    BY DEF DequeInv, CallerInv
  <2>2. CASE Call(t)
    <3>1. PICK op \in Ops : caller' = [caller EXCEPT ![t].pc = "load", ![t].op = op,
                                             ![t].left = @ - 1]
      BY <2>2 DEF Call
    <3>2. /\ \A u \in Callers \ {t} : caller'[u] = caller[u]
          /\ caller'[t] = [caller[t] EXCEPT !.pc = "load", !.op = op, !.left = @ - 1]
      BY <2>1, <3>1
    <3>3. /\ caller'[t].pc = "load" /\ caller'[t].op = op /\ caller'[t].ans = <<>>
          /\ caller[t].pc = "idle" /\ caller[t].op = <<>> /\ caller[t].ans = <<>> /\ list' = list
      BY <2>1, <2>2, <3>2 DEF Shaped, Call, CallerAt
    <3>4. View(caller[t]) = <<"idle", <<>>, <<>>>> /\ View(caller'[t]) = <<"called", op, <<>>>>
      BY <3>3
    <3> HIDE DEF View
    <3>5. at[t] = <<"idle", <<>>, <<>>>> /\ at' = [at EXCEPT ![t] = <<"called", op, <<>>>>]
      BY <3>2, <3>4
    <3>6. op \in D!Ops
      BY DEF Ops, D!Ops
    <3> QED  BY <3>3, <3>5, <3>6 DEF D!Next, D!Start, D!Becomes, D!Idle, View
  <2>3. CASE Load(t) \/ Exchange(t) \/ Read(t)
    <3>1. PICK pc \in {"load", "exchange", "read", "write"}, s \in {list, caller[t].read} :
            caller' = [caller EXCEPT ![t].pc = pc, ![t].read = s]
      <4>1. CASE Load(t)
        <5>1. caller' = [caller EXCEPT ![t].pc = "exchange", ![t].read = caller[t].read]
          BY <2>1, <4>1 DEF Load, CallerTo, Shaped
        <5> QED  BY <5>1
      <4>2. CASE Exchange(t)
        <5>1. caller' = [caller EXCEPT ![t].pc = IF locked THEN "load" ELSE "read",
                               ![t].read = caller[t].read]
          BY <2>1, <4>2 DEF Exchange, CallerTo, Shaped
        <5> QED  BY <5>1
      <4>3. CASE Read(t)
        BY <4>3 DEF Read
      <4> QED  BY <2>3, <4>1, <4>2, <4>3
    <3>2. /\ \A u \in Callers \ {t} : caller'[u] = caller[u]
          /\ caller'[t] = [caller[t] EXCEPT !.pc = pc, !.read = s]
      BY <2>1, <3>1
    <3>3. /\ caller'[t].pc = pc /\ caller'[t].op = caller[t].op /\ caller'[t].ans = caller[t].ans
          /\ caller[t].pc \in {"load", "exchange", "read"} /\ list' = list
      BY <2>1, <2>3, <3>2 DEF Shaped, Load, Exchange, Read, CallerAt
    <3>4. View(caller'[t]) = View(caller[t])
      BY <3>3
    <3> HIDE DEF View
    <3>5. at' = at
      BY <3>2, <3>4
    <3> QED  BY <3>3, <3>5 DEF D!vars, View
  <2>4. CASE Write(t)
    <3> DEFINE op == caller[t].op  answer == Value(op, list)
    <3>1. caller[t].pc = "write" /\ caller[t].read = list /\ op \in Ops
      BY <2>1, <2>4 DEF Write, CallerAt
    <3>2. /\ \A u \in Callers \ {t} : caller'[u] = caller[u]
          /\ caller'[t] = [caller[t] EXCEPT !.pc = "unlock", !.read = <<>>, !.ans = answer]
          /\ list' = After(op, list)
      BY <2>1, <2>4, <3>1 DEF Write
    <3>3. D!Effect(op, answer)
      BY <2>1, <3>1, <3>2, FunctionEffect
    <3> HIDE DEF answer
    <3>4. caller'[t].pc = "unlock" /\ caller'[t].op = op /\ caller'[t].ans = answer
      BY <2>1, <3>2 DEF Shaped
    <3>5. View(caller[t]) = <<"called", op, <<>>>> /\ View(caller'[t]) = <<"done", op, answer>>
      BY <2>1, <3>1, <3>4
    <3> HIDE DEF View, op
    <3>6. /\ at[t] = <<"called", op, <<>>>> /\ at'[t] = <<"done", op, answer>>
          /\ at' = [at EXCEPT ![t] = <<"done", op, answer>>]
      BY <3>2, <3>5
    <3>7. at[t][1] = "called" /\ at[t][2] = op /\ at'[t][3] = answer
      BY <3>6
    <3> HIDE DEF at
    <3>8. D!Do(t)
      BY <3>3, <3>6, <3>7 DEF D!Do, D!Becomes, at, View
    <3> QED  BY <3>8 DEF D!Next
  <2>5. CASE Release(t)
    <3>1. caller' = [caller EXCEPT ![t].pc = "idle", ![t].op = <<>>, ![t].ans = <<>>]
      BY <2>5 DEF Release
    <3>2. /\ \A u \in Callers \ {t} : caller'[u] = caller[u]
          /\ caller'[t] = [caller[t] EXCEPT !.pc = "idle", !.op = <<>>, !.ans = <<>>]
      BY <2>1, <3>1
    <3>3. /\ caller'[t].pc = "idle" /\ caller'[t].op = <<>> /\ caller'[t].ans = <<>>
          /\ caller[t].pc = "unlock" /\ list' = list
      BY <2>1, <2>5, <3>2 DEF Shaped, Release, CallerAt
    <3>4. View(caller[t])[1] = "done" /\ View(caller'[t]) = <<"idle", <<>>, <<>>>>
      BY <3>3
    <3> HIDE DEF View
    <3>5. at[t][1] = "done" /\ at' = [at EXCEPT ![t] = <<"idle", <<>>, <<>>>>]
      BY <3>2, <3>4
    <3>6. D!Return(t)
      BY <3>3, <3>5 DEF D!Return, D!Becomes, D!Idle, View
    <3> QED  BY <3>6 DEF D!Next
  <2> QED  BY <1>2, <2>2, <2>3, <2>4, <2>5 DEF DequeStep
<1> QED  BY <1>1, <1>2 DEF DequeNext

LEMMA InitRefines == DequeInit => D!Init
BY DEF DequeInit, D!Init, NoCall, D!Idle

(* Calls that overlap take effect one at a time: with the spinlock around   *)
(* the list's functions no call sees or leaves half of another's, and each  *)
(* answer is that of the list at one moment between call and return.        *)
THEOREM DequeImplementsAtomicDeque == DequeSpec => DequeRefined
<1>1. DequeSpec => []DequeInv
  BY InitDequeInv, NextDequeInv, PTL DEF DequeSpec
<1> QED  BY <1>1, InitRefines, StepRefines, PTL DEF DequeSpec, DequeRefined, D!Spec

-----------------------------------------------------------------------------
(* Threads that count, each on the counter of its id, lose nothing, for any *)
(* number of threads and of counts.                                         *)

LEMMA LeastNat ==
  ASSUME NEW A \in SUBSET Nat, A # {}
  PROVE  \E m \in A : \A n \in A : m <= n
<1> DEFINE R == {ss \in Nat \X Nat : ss[1] < ss[2]}
<1>1. \A x, y \in Nat : <<y, x>> \in R <=> y < x
  OBVIOUS
<1> HIDE DEF R
<1>2. IsWellFoundedOn(R, Nat)
  BY NatLessThanWellFounded, Zenon DEF OpToRel, R
<1>3. PICK m \in A : \A n \in A : <<n, m>> \notin R
  BY <1>2, WFMin
<1>4. \A n \in A : ~(n < m)
  BY <1>1, <1>3
<1> QED  BY <1>3, <1>4

(* The sums of the first n values of f.                                     *)
SumsTo(g, f, n) == /\ g \in [0 .. n -> Int] /\ g[0] = 0
                   /\ \A k \in 1 .. n : g[k] = g[k - 1] + f[k - 1]

LEMMA SumsGoOn ==
  ASSUME StatsAssumption, NEW f \in [Ids -> Int], NEW n \in 1 .. COUNTERS,
         NEW g, SumsTo(g, f, n - 1)
  PROVE  \E h : SumsTo(h, f, n)
<1> DEFINE h == [k \in 0 .. n |-> IF k = n THEN g[n - 1] + f[n - 1] ELSE g[k]]
<1>1. n \in Nat \ {0} /\ n - 1 \in Ids /\ f[n - 1] \in Int
  BY DEF StatsAssumption, Ids
<1>2. n - 1 \in 0 .. n - 1 /\ \A k \in 0 .. n : k # n => k \in 0 .. n - 1
  BY <1>1
<1>3. h \in [0 .. n -> Int]
  BY <1>1, <1>2 DEF SumsTo
<1>4. h[0] = 0 /\ h[n] = g[n - 1] + f[n - 1] /\ \A k \in 0 .. n - 1 : h[k] = g[k]
  BY <1>1 DEF SumsTo
<1> HIDE DEF h
<1>5. ASSUME NEW k \in 1 .. n  PROVE h[k] = h[k - 1] + f[k - 1]
  <2>1. k - 1 \in 0 .. n - 1
    BY <1>1
  <2>2. CASE k = n
    BY <1>4, <2>1, <2>2
  <2>3. CASE k # n
    <3>1. k \in 1 .. n - 1 /\ k \in 0 .. n - 1
      BY <1>1, <2>3
    <3> QED  BY <1>4, <2>1, <3>1 DEF SumsTo
  <2> QED  BY <2>2, <2>3
<1>6. SumsTo(h, f, n)
  BY <1>3, <1>4, <1>5 DEF SumsTo
<1> QED  BY <1>6

LEMMA SumsExist ==
  ASSUME StatsAssumption, NEW f \in [Ids -> Int]
  PROVE  \E g : SumsTo(g, f, COUNTERS)
<1> DEFINE Bad == {n \in 0 .. COUNTERS : ~ \E g : SumsTo(g, f, n)}
<1>0. COUNTERS \in Nat \ {0}
  BY DEF StatsAssumption
<1>1. ASSUME Bad # {}  PROVE FALSE
  <2>1. PICK n \in Bad : \A m \in Bad : n <= m
    <3>1. Bad \in SUBSET Nat
      BY <1>0
    <3> HIDE DEF Bad
    <3> QED  BY <1>1, <3>1, LeastNat
  <2>2. n # 0
    <3>1. SumsTo([k \in 0 .. 0 |-> 0], f, 0)
      BY DEF SumsTo
    <3> QED  BY <2>1, <3>1
  <2>3. n \in 1 .. COUNTERS /\ n - 1 \in 0 .. COUNTERS /\ n - 1 \notin Bad
    BY <1>0, <2>1, <2>2
  <2>4. PICK g : SumsTo(g, f, n - 1)
    BY <2>3
  <2> QED  BY <2>1, <2>3, <2>4, SumsGoOn
<1>2. COUNTERS \in 0 .. COUNTERS
  BY <1>0
<1> QED  BY <1>1, <1>2

(* The recursion of UpTo adds up.                                           *)
LEMMA UpToSums ==
  ASSUME StatsAssumption, NEW f \in [Ids -> Int]
  PROVE  SumsTo(UpTo(f), f, COUNTERS)
<1> DEFINE Rec(s) == [n \in 0 .. COUNTERS |-> IF n = 0 THEN 0 ELSE s[n - 1] + f[n - 1]]
           u == UpTo(f)
<1>0. COUNTERS \in Nat \ {0}
  BY DEF StatsAssumption
<1>1. PICK g : SumsTo(g, f, COUNTERS)
  BY SumsExist
<1>2. g = Rec(g)
  <2>1. g = [n \in 0 .. COUNTERS |-> g[n]]
    BY <1>1 DEF SumsTo
  <2>2. \A n \in 0 .. COUNTERS : g[n] = IF n = 0 THEN 0 ELSE g[n - 1] + f[n - 1]
    <3>1. \A n \in 0 .. COUNTERS : n = 0 \/ n \in 1 .. COUNTERS
      BY <1>0
    <3> QED  BY <1>1, <3>1 DEF SumsTo
  <2> QED  BY <2>1, <2>2
<1>3. u = Rec(u)
  <2>1. \E s : s = Rec(s)
    BY <1>2
  <2> QED  BY <2>1, Zenon DEF UpTo
<1> HIDE DEF u
<1>4. \A n \in 0 .. COUNTERS : u[n] = IF n = 0 THEN 0 ELSE u[n - 1] + f[n - 1]
  BY <1>3
<1>5. \A n \in 1 .. COUNTERS : u[n] = u[n - 1] + f[n - 1]
  <2>1. \A n \in 1 .. COUNTERS : n \in 0 .. COUNTERS /\ n # 0
    BY <1>0
  <2> QED  BY <1>4, <2>1
<1>6. u[0] = 0
  BY <1>0, <1>4
<1>7. \A n \in 0 .. COUNTERS : u[n] \in Int
  <2> DEFINE Bad == {n \in 0 .. COUNTERS : u[n] \notin Int}
  <2>1. ASSUME Bad # {}  PROVE FALSE
    <3>1. PICK n \in Bad : \A m \in Bad : n <= m
      <4>1. Bad \in SUBSET Nat
        BY <1>0
      <4> HIDE DEF Bad
      <4> QED  BY <2>1, <4>1, LeastNat
    <3>2. n \in 1 .. COUNTERS /\ n - 1 \in 0 .. COUNTERS /\ n - 1 \notin Bad
      BY <1>0, <1>6, <3>1
    <3>3. u[n - 1] \in Int /\ f[n - 1] \in Int
      BY <1>0, <3>2 DEF Ids
    <3> QED  BY <1>5, <3>1, <3>2, <3>3
  <2> QED  BY <2>1
<1>8. u = [n \in 0 .. COUNTERS |-> u[n]]
  <2>1. DOMAIN u = 0 .. COUNTERS
    BY <1>3
  <2>2. u = [n \in DOMAIN u |-> u[n]]
    BY <1>3
  <2> QED  BY <2>1, <2>2
<1>9. SumsTo(u, f, COUNTERS)
  BY <1>5, <1>6, <1>7, <1>8 DEF SumsTo
<1> QED  BY <1>9 DEF u

(* The sum of n values that are at most r is at most n * r.                 *)
LEMMA SumsBounded ==
  ASSUME StatsAssumption, NEW f \in [Ids -> Int],
         \A t \in Ids : f[t] <= REPS /\ -REPS <= f[t]
  PROVE  /\ UpTo(f)[COUNTERS] \in Int
         /\ UpTo(f)[COUNTERS] <= COUNTERS * REPS /\ -(COUNTERS * REPS) <= UpTo(f)[COUNTERS]
<1> DEFINE u == UpTo(f)
           Bad == {n \in 0 .. COUNTERS : ~(u[n] <= n * REPS /\ -(n * REPS) <= u[n])}
<1>0. COUNTERS \in Nat \ {0} /\ REPS \in Nat
  BY DEF StatsAssumption
<1>1. SumsTo(u, f, COUNTERS)
  BY UpToSums
<1> HIDE DEF u
<1>2. ASSUME Bad # {}  PROVE FALSE
  <2>1. PICK n \in Bad : \A m \in Bad : n <= m
    <3>1. Bad \in SUBSET Nat
      BY <1>0
    <3> HIDE DEF Bad
    <3> QED  BY <1>2, <3>1, LeastNat
  <2>2. n # 0
    BY <1>0, <1>1, <2>1 DEF SumsTo
  <2>3. n \in 1 .. COUNTERS /\ n - 1 \in 0 .. COUNTERS /\ n - 1 \notin Bad
    BY <1>0, <2>1, <2>2
  <2>4. /\ u[n] = u[n - 1] + f[n - 1] /\ u[n - 1] \in Int /\ f[n - 1] \in Int
        /\ f[n - 1] <= REPS /\ -REPS <= f[n - 1]
    BY <1>0, <1>1, <2>3 DEF SumsTo, Ids
  <2>5. u[n - 1] <= (n - 1) * REPS /\ -((n - 1) * REPS) <= u[n - 1]
    BY <2>3
  <2>6. n * REPS = (n - 1) * REPS + REPS /\ n * REPS \in Int /\ (n - 1) * REPS \in Int
    BY <1>0, <2>3
  <2>7. u[n] <= n * REPS /\ -(n * REPS) <= u[n]
    BY <1>0, <2>4, <2>5, <2>6
  <2> QED  BY <2>1, <2>7
<1>3. COUNTERS \in 0 .. COUNTERS
  BY <1>0
<1>4. u[COUNTERS] \in Int
  BY <1>1, <1>3 DEF SumsTo
<1> QED  BY <1>2, <1>3, <1>4 DEF u

(* What a thread that is at pc knows: as long as every thread has read its  *)
(* own id, no other has stored to its counter.                              *)
CountPcs == {"none", "id", "load", "store", "exit"}

IsCounter(r) ==
  r = [pc |-> r.pc, done |-> r.done, me |-> r.me, count |-> r.count, net |-> r.net]

CounterInv(t) ==
  LET r == statsTh[t]
  IN  /\ IsCounter(r)
      /\ r.pc \in CountPcs /\ r.me \in Ids /\ r.count \in Int /\ r.net \in Int
      /\ r.done \in 0 .. REPS /\ r.net <= r.done /\ -r.done <= r.net
      /\ r.pc \in {"load", "store"} => r.done < REPS
      /\ ~misread => /\ counter[t] = r.net
                     /\ r.pc \in {"load", "store"} => r.me = t
                     /\ r.pc = "store" => r.count = counter[t]

(* The total so far is that of the first n threads' counts, up to WRAP.     *)
Totals(n) == \E q \in Int : total = UpTo(Nets)[n] + q * WRAP

MainInv ==
  /\ main = [pc |-> main.pc, i |-> main.i] /\ main.i \in 0 .. COUNTERS
  /\ main.pc \in {"start", "storing", "total", "join", "final", "done"}
  /\ main.pc = "storing" => main.i < COUNTERS
  /\ total \in Nat /\ total < WRAP
  /\ main.pc = "join" => \A t \in Ids : t < main.i => statsTh[t].pc = "exit"
  /\ main.pc \in {"final", "done"} => \A t \in Ids : statsTh[t].pc = "exit"
  /\ main.pc = "final" /\ ~misread => Totals(main.i)
  /\ main.pc = "done" /\ ~misread => Totals(COUNTERS)

StatsInv ==
  /\ statsTh = [t \in Ids |-> statsTh[t]] /\ id \in [Ids -> Ids]
  /\ counter \in [Ids -> Int] /\ misread \in BOOLEAN
  /\ \A t \in Ids : CounterInv(t)
  /\ MainInv

LEMMA StatsSizes ==
  ASSUME StatsAssumption
  PROVE  /\ COUNTERS \in Nat \ {0} /\ REPS \in Nat /\ WRAP \in Nat \ {0} /\ 0 < WRAP /\ 0 \in Ids
         /\ COUNTERS * REPS \in Nat /\ COUNTERS * REPS < WRAP \div 2
         /\ DELTAS \subseteq {1, -1}
<1>1. COUNTERS \in Nat \ {0} /\ REPS \in Nat /\ WRAP \in Nat /\ COUNTERS * REPS < WRAP \div 2
  BY DEF StatsAssumption
<1>2. COUNTERS * REPS \in Nat
  BY <1>1
<1>3. 0 < WRAP
  BY <1>1, <1>2
<1> QED  BY <1>1, <1>2, <1>3 DEF Ids, StatsAssumption

LEMMA StatsInitInv == StatsAssumption /\ StatsInit => StatsInv
<1> SUFFICES ASSUME StatsAssumption, StatsInit  PROVE StatsInv
  OBVIOUS
<1>1. COUNTERS \in Nat \ {0} /\ REPS \in Nat /\ WRAP \in Nat /\ 0 < WRAP /\ 0 \in Ids
  BY StatsSizes
<1>2. MainInv
  <2>1. main = [pc |-> "start", i |-> 0] /\ total = 0 /\ 0 \in 0 .. COUNTERS
    BY <1>1 DEF StatsInit
  <2> QED  BY <1>1, <2>1 DEF MainInv
<1>3. \A t \in Ids : CounterInv(t)
  BY <1>1 DEF StatsInit, CounterInv, CountPcs, IsCounter
<1>4. /\ statsTh = [t \in Ids |-> statsTh[t]] /\ id \in [Ids -> Ids]
      /\ counter \in [Ids -> Int] /\ misread \in BOOLEAN
  <2>1. statsTh = [t \in Ids |-> statsTh[t]]
    <3>1. DOMAIN statsTh = Ids /\ statsTh = [t \in DOMAIN statsTh |-> statsTh[t]]
      BY DEF StatsInit
    <3> QED  BY <3>1
  <2>2. id \in [Ids -> Ids]
    BY <1>1 DEF StatsInit
  <2>3. counter \in [Ids -> Int] /\ misread \in BOOLEAN
    <3>1. misread \in BOOLEAN
      BY Zenon DEF StatsInit
    <3>2. counter \in [Ids -> Int]
      BY DEF StatsInit
    <3> QED  BY <3>1, <3>2
  <2> QED  BY <2>1, <2>2, <2>3
<1> QED  BY <1>2, <1>3, <1>4 DEF StatsInv

(* x is the remainder of y.                                                 *)
LEMMA RemainderOf ==
  ASSUME NEW y \in Int, WRAP \in Nat, 0 < WRAP
  PROVE  /\ y % WRAP \in Nat /\ y % WRAP < WRAP
         /\ y \div WRAP \in Int /\ y = WRAP * (y \div WRAP) + (y % WRAP)
OBVIOUS

(* One counter more in the total.                                           *)
LEMMA SumStep ==
  ASSUME StatsAssumption, StatsInv, NEW next, Sum(next), main.pc # "storing"
  PROVE  /\ total' \in Nat /\ total' < WRAP
         /\ \/ main.i < COUNTERS /\ main' = [pc |-> main.pc, i |-> main.i + 1]
            \/ main.i = COUNTERS /\ main' = [pc |-> next, i |-> 0] /\ total' = total
         /\ \A k \in Nat : ~misread /\ Totals(k) /\ k = main.i /\ k < COUNTERS => Totals(k + 1)'
<1> DEFINE n == main.i  y == total + counter[n]  u == UpTo(Nets)
<1>1. /\ COUNTERS \in Nat \ {0} /\ WRAP \in Nat /\ 0 < WRAP /\ n \in 0 .. COUNTERS
      /\ total \in Nat /\ total < WRAP
  BY StatsSizes DEF StatsInv, MainInv
<1>2. n < COUNTERS => /\ total' = y % WRAP /\ main' = [pc |-> main.pc, i |-> n + 1]
                      /\ UNCHANGED statsTh
  BY DEF Sum, Main
<1>3. ~(n < COUNTERS) => main' = [pc |-> next, i |-> 0] /\ total' = total
  BY DEF Sum, Main
<1>4. \A k \in Nat : Totals(k) => \E q \in Int : total = u[k] + q * WRAP
  BY DEF Totals
<1>5. \A k \in Nat, q \in Int : total' = u'[k] + q * WRAP => Totals(k)'
  BY DEF Totals
<1> HIDE DEF n, u, y
<1>6. CASE n < COUNTERS
  <2>1. n \in Ids
    BY <1>1, <1>6 DEF Ids
  <2>2. counter[n] \in Int /\ Nets \in [Ids -> Int] /\ (~misread => Nets[n] = counter[n])
    BY <2>1 DEF Nets, StatsInv, CounterInv
  <2>3. y = total + counter[n] /\ y \in Int
    BY <1>1, <2>2 DEF y
  <2>4. total' \in Nat /\ total' < WRAP /\ y \div WRAP \in Int /\ y = WRAP * (y \div WRAP) + total'
    BY <1>1, <1>2, <1>6, <2>3, RemainderOf
  <2>5. ASSUME NEW k \in Nat, ~misread, Totals(k), k = n  PROVE Totals(k + 1)'
    <3>1. n + 1 \in 1 .. COUNTERS /\ n \in 0 .. COUNTERS /\ (n + 1) - 1 = n
      BY <1>1, <1>6
    <3>2. u[n + 1] = u[n] + counter[n] /\ u[n] \in Int
      <4>1. SumsTo(u, Nets, COUNTERS)
        BY <2>2, UpToSums DEF u
      <4>2. u[n + 1] = u[(n + 1) - 1] + Nets[(n + 1) - 1] /\ u[n] \in Int
        BY <3>1, <4>1 DEF SumsTo
      <4> QED  BY <2>2, <2>5, <3>1, <4>2
    <3>3. u' = u
      <4>1. Nets' = Nets
        BY <1>2, <1>6 DEF Nets
      <4> QED  BY <4>1 DEF u
    <3>4. PICK q \in Int : total = u[k] + q * WRAP
      BY <1>4, <2>5
    <3> DEFINE d == y \div WRAP
    <3>5. d \in Int /\ total' \in Int /\ y = WRAP * d + total'
      BY <2>4
    <3> HIDE DEF d
    <3> DEFINE A == q * WRAP  B == WRAP * d  C == (q - d) * WRAP
    <3>6. C = A - B /\ q - d \in Int /\ A \in Int /\ B \in Int
      BY <1>1, <3>4, <3>5
    <3>7. total = u[n] + A /\ y = B + total'
      BY <2>5, <3>4, <3>5
    <3> HIDE DEF A, B, C
    <3>8. total' = u[n + 1] + C
      <4>1. \A t, c, s, b, a, w \in Int : t + c = b + s /\ t = w + a => s = w + c + (a - b)
        OBVIOUS
      <4>2. total + counter[n] = B + total'
        BY <2>3, <3>7
      <4>3. total' = u[n] + counter[n] + (A - B)
        <5>1. total \in Int /\ counter[n] \in Int /\ total' \in Int /\ u[n] \in Int
          BY <1>1, <2>2, <3>2, <3>5
        <5>2. A \in Int /\ B \in Int
          BY <3>6
        <5>3. total = u[n] + A
          BY <3>7
        <5> QED  BY <4>1, <4>2, <5>1, <5>2, <5>3
      <4> QED  BY <3>2, <3>6, <4>3
    <3>9. k + 1 \in Nat /\ total' = u'[k + 1] + C
      BY <2>5, <3>3, <3>8
    <3> QED  BY <1>5, <3>6, <3>9 DEF C
  <2> QED  BY <1>2, <1>6, <2>4, <2>5 DEF n
<1>7. CASE ~(n < COUNTERS)
  <2>1. n = COUNTERS
    BY <1>1, <1>7
  <2> QED  BY <1>1, <1>3, <1>7, <2>1 DEF n
<1> QED  BY <1>6, <1>7

(* A thread that counts disturbs no other that uses its own counter, and    *)
(* none counts once the main thread has joined it.                          *)
LEMMA ThreadUndisturbed ==
  ASSUME StatsAssumption, StatsInv, NEW t \in Ids, statsTh[t].pc \in {"id", "load", "store"},
         statsTh' = [u \in Ids |-> statsTh'[u]], \A u \in Ids \ {t} : statsTh'[u] = statsTh[u],
         counter' \in [Ids -> Int], misread' \in BOOLEAN, misread => misread',
         \A u \in Ids \ {t} : ~misread' => counter'[u] = counter[u],
         CounterInv(t)', UNCHANGED <<main, id, total>>
  PROVE  StatsInv'
<1>1. \A u \in Ids : CounterInv(u)'
  <2>1. ASSUME NEW u \in Ids \ {t}  PROVE CounterInv(u)'
    <3>1. CounterInv(u) /\ statsTh'[u] = statsTh[u] /\ (~misread' => counter'[u] = counter[u] /\ ~misread)
      BY DEF StatsInv
    <3> QED  BY <3>1 DEF CounterInv
  <2> QED  BY <2>1
<1>2. MainInv'
  <2>1. main.pc \notin {"final", "done"}
    BY DEF StatsInv, MainInv
  <2>2. main.pc = "join" => \A u \in Ids : u < main.i => statsTh'[u].pc = "exit"
    BY DEF StatsInv, MainInv
  <2> QED  BY <2>1, <2>2 DEF StatsInv, MainInv
<1> QED  BY <1>1, <1>2 DEF StatsInv

LEMMA ThreadStepInv ==
  ASSUME StatsAssumption, StatsInv, NEW t \in Ids, ThreadStep(t)
  PROVE  StatsInv'
<1>1. /\ statsTh = [u \in Ids |-> statsTh[u]] /\ IsCounter(statsTh[t]) /\ CounterInv(t)
      /\ id[t] \in Ids /\ counter \in [Ids -> Int] /\ misread \in BOOLEAN
  BY DEF StatsInv, CounterInv
<1>2. COUNTERS \in Nat \ {0} /\ REPS \in Nat /\ 0 \in Ids /\ DELTAS \subseteq {1, -1}
  BY StatsSizes
<1>3. CASE ReadId(t)
  <2>1. CASE statsTh[t].done < REPS
    <3>1. /\ statsTh' = [u \in Ids |-> statsTh'[u]]
          /\ \A u \in Ids \ {t} : statsTh'[u] = statsTh[u]
          /\ statsTh'[t] = [statsTh[t] EXCEPT !.pc = "load", !.me = id[t]]
      <4>1. statsTh' = [statsTh EXCEPT ![t].pc = "load", ![t].me = id[t]]
        BY <1>3, <2>1 DEF ReadId
      <4> QED  BY <1>1, <4>1
    <3>2. /\ statsTh'[t].pc = "load" /\ statsTh'[t].me = id[t] /\ statsTh'[t].done = statsTh[t].done
          /\ statsTh'[t].count = statsTh[t].count /\ statsTh'[t].net = statsTh[t].net
          /\ IsCounter(statsTh'[t])
      BY <1>1, <3>1 DEF IsCounter
    <3>3. /\ statsTh[t].pc = "id" /\ UNCHANGED <<main, id, counter, total>>
          /\ misread' = (misread \/ id[t] # t)
      BY <1>3, <2>1 DEF ReadId, CountAt
    <3>4. misread' \in BOOLEAN /\ (misread => misread') /\ (~misread' => ~misread /\ id[t] = t)
      BY <3>3, Zenon
    <3>5. CounterInv(t)'
      BY <1>1, <2>1, <3>2, <3>3, <3>4 DEF CounterInv, CountPcs
    <3> QED  BY <1>1, <3>1, <3>3, <3>4, <3>5, ThreadUndisturbed
  <2>2. CASE ~(statsTh[t].done < REPS)
    <3>1. /\ statsTh' = [u \in Ids |-> statsTh'[u]]
          /\ \A u \in Ids \ {t} : statsTh'[u] = statsTh[u]
          /\ statsTh'[t] = [statsTh[t] EXCEPT !.pc = "exit"]
      BY <1>1, <1>3, <2>2 DEF ReadId
    <3>2. /\ statsTh'[t].pc = "exit" /\ statsTh'[t].me = statsTh[t].me /\ statsTh'[t].done = statsTh[t].done
          /\ statsTh'[t].count = statsTh[t].count /\ statsTh'[t].net = statsTh[t].net
          /\ IsCounter(statsTh'[t])
      BY <1>1, <3>1 DEF IsCounter
    <3>3. statsTh[t].pc = "id" /\ UNCHANGED <<main, id, counter, total, misread>>
      BY <1>3, <2>2 DEF ReadId, CountAt
    <3>4. CounterInv(t)'
      BY <1>1, <3>2, <3>3 DEF CounterInv, CountPcs
    <3> QED  BY <1>1, <3>1, <3>3, <3>4, ThreadUndisturbed
  <2> QED  BY <2>1, <2>2
<1>4. CASE LoadCount(t)
  <2>1. /\ statsTh[t].pc = "load" /\ UNCHANGED <<main, id, counter, total, misread>>
        /\ statsTh' = [statsTh EXCEPT ![t].pc = "store", ![t].count = counter[statsTh[t].me]]
    BY <1>4 DEF LoadCount, CountAt
  <2>2. /\ statsTh' = [u \in Ids |-> statsTh'[u]]
        /\ \A u \in Ids \ {t} : statsTh'[u] = statsTh[u]
        /\ statsTh'[t] = [statsTh[t] EXCEPT !.pc = "store", !.count = counter[statsTh[t].me]]
    BY <1>1, <2>1
  <2>3. /\ statsTh'[t].pc = "store" /\ statsTh'[t].me = statsTh[t].me /\ statsTh'[t].done = statsTh[t].done
        /\ statsTh'[t].count = counter[statsTh[t].me] /\ statsTh'[t].net = statsTh[t].net
        /\ IsCounter(statsTh'[t])
    BY <1>1, <2>2 DEF IsCounter
  <2>4. CounterInv(t)'
    BY <1>1, <2>1, <2>3 DEF CounterInv, CountPcs
  <2> QED  BY <1>1, <2>1, <2>2, <2>4, ThreadUndisturbed
<1>5. CASE StoreCount(t)
  <2>1. PICK d \in DELTAS :
          /\ counter' = [counter EXCEPT ![statsTh[t].me] = statsTh[t].count + d]
          /\ statsTh' = [statsTh EXCEPT ![t].pc = "id", ![t].done = @ + 1, ![t].count = 0,
                                       ![t].me = 0, ![t].net = @ + d]
    BY <1>5 DEF StoreCount
  <2>2. statsTh[t].pc = "store" /\ UNCHANGED <<main, id, total, misread>> /\ d \in {1, -1}
    BY <1>2, <1>5 DEF StoreCount, CountAt
  <2>3. /\ statsTh' = [u \in Ids |-> statsTh'[u]]
        /\ \A u \in Ids \ {t} : statsTh'[u] = statsTh[u]
        /\ statsTh'[t] = [statsTh[t] EXCEPT !.pc = "id", !.done = @ + 1, !.count = 0,
                                           !.me = 0, !.net = @ + d]
    BY <1>1, <2>1
  <2>4. /\ statsTh'[t].pc = "id" /\ statsTh'[t].me = 0 /\ statsTh'[t].done = statsTh[t].done + 1
        /\ statsTh'[t].count = 0 /\ statsTh'[t].net = statsTh[t].net + d
        /\ IsCounter(statsTh'[t])
    BY <1>1, <2>3 DEF IsCounter
  <2>5. statsTh[t].me \in Ids /\ statsTh[t].count \in Int
    BY <1>1 DEF CounterInv
  <2>6. counter' \in [Ids -> Int] /\ \A u \in Ids : u # statsTh[t].me => counter'[u] = counter[u]
    BY <1>1, <2>1, <2>2, <2>5
  <2>7. ~misread => statsTh[t].me = t /\ counter'[t] = statsTh[t].net + d
    BY <1>1, <2>1, <2>2, <2>5 DEF CounterInv
  <2>8. CounterInv(t)'
    BY <1>1, <1>2, <2>2, <2>4, <2>7 DEF CounterInv, CountPcs
  <2> QED  BY <1>1, <2>2, <2>3, <2>6, <2>7, <2>8, ThreadUndisturbed
<1> QED  BY <1>3, <1>4, <1>5 DEF ThreadStep

(* What the main thread does leaves the counts alone, and it reads the      *)
(* final total when no thread is left to change them.                       *)
LEMMA MainStepInv ==
  ASSUME StatsAssumption, StatsInv, MainStep
  PROVE  StatsInv'
<1>1. /\ COUNTERS \in Nat \ {0} /\ WRAP \in Nat /\ 0 < WRAP /\ main.i \in 0 .. COUNTERS
      /\ statsTh = [t \in Ids |-> statsTh[t]] /\ id \in [Ids -> Ids] /\ MainInv
  BY StatsSizes DEF StatsInv, MainInv
<1>2. ASSUME UNCHANGED <<counter, statsTh, misread>>, id' \in [Ids -> Ids], MainInv'
      PROVE  StatsInv'
  <2>1. \A t \in Ids : CounterInv(t)'
    BY <1>2 DEF StatsInv, CounterInv
  <2> QED  BY <1>2, <2>1 DEF StatsInv
<1>3. CASE Start
  <2>1. CASE main.i < COUNTERS
    <3>1. /\ main' = [pc |-> "storing", i |-> main.i] /\ UNCHANGED <<id, counter, misread, total>>
          /\ statsTh' = [statsTh EXCEPT ![main.i].pc = "id"]
      BY <1>3, <2>1 DEF Start, Main
    <3>2. main.i \in Ids
      BY <1>1, <2>1 DEF Ids
    <3> DEFINE t == main.i  r == statsTh[t]  r2 == [r EXCEPT !.pc = "id"]
    <3>3. statsTh' = [statsTh EXCEPT ![t] = r2]
      BY <3>1
    <3>4. IsCounter(r) /\ CounterInv(t)
      BY <3>2 DEF StatsInv, CounterInv
    <3>5. /\ r2.pc = "id" /\ r2.me = r.me /\ r2.done = r.done /\ r2.count = r.count
          /\ r2.net = r.net /\ IsCounter(r2)
      BY <3>4 DEF IsCounter
    <3> HIDE DEF r2
    <3>6. statsTh' = [u \in Ids |-> IF u = t THEN r2 ELSE statsTh[u]]
      BY <1>1, <3>3
    <3>7. \A u \in Ids : CounterInv(u)'
      <4> SUFFICES ASSUME NEW u \in Ids  PROVE CounterInv(u)'
        OBVIOUS
      <4>1. CASE u = t
        <5>1. statsTh'[u] = r2 /\ u = t
          BY <3>6, <4>1
        <5> HIDE DEF t
        <5> QED  BY <3>1, <3>4, <3>5, <5>1 DEF CounterInv, CountPcs
      <4>2. CASE u # t
        <5>1. statsTh'[u] = statsTh[u] /\ CounterInv(u)
          BY <3>6, <4>2 DEF StatsInv
        <5> QED  BY <3>1, <5>1 DEF CounterInv
      <4> QED  BY <4>1, <4>2
    <3>8. MainInv'
      BY <1>1, <2>1, <3>1 DEF MainInv
    <3>9. statsTh' = [u \in Ids |-> statsTh'[u]]
      BY <3>6
    <3> QED  BY <3>1, <3>7, <3>8, <3>9 DEF StatsInv
  <2>2. CASE ~(main.i < COUNTERS)
    <3>1. /\ main' = [pc |-> "total", i |-> 0] /\ total' = 0
          /\ UNCHANGED <<id, counter, misread, statsTh>>
      BY <1>3, <2>2 DEF Start, Main
    <3>2. MainInv'
      BY <1>1, <3>1 DEF MainInv
    <3> QED  BY <1>1, <1>2, <3>1, <3>2
  <2> QED  BY <2>1, <2>2
<1>4. CASE StoreId
  <2>1. /\ main' = [pc |-> "start", i |-> main.i + 1] /\ id' = [id EXCEPT ![main.i] = main.i]
        /\ UNCHANGED <<counter, statsTh, total, misread>> /\ main.i < COUNTERS
    BY <1>1, <1>4 DEF StoreId, Main, Is, MainInv
  <2>2. main.i \in Ids /\ main.i + 1 \in 0 .. COUNTERS
    BY <1>1, <2>1 DEF Ids
  <2>3. id' \in [Ids -> Ids]
    BY <1>1, <2>1, <2>2
  <2>4. MainInv'
    BY <1>1, <2>1, <2>2 DEF MainInv
  <2> QED  BY <1>2, <2>1, <2>3, <2>4
<1>5. CASE EarlyTotal
  <2>1. Sum("join") /\ main.pc = "total" /\ UNCHANGED <<id, counter, statsTh, misread>>
    BY <1>5 DEF EarlyTotal, Is, Sum
  <2>2. /\ total' \in Nat /\ total' < WRAP
        /\ \/ main.i < COUNTERS /\ main' = [pc |-> "total", i |-> main.i + 1]
           \/ main' = [pc |-> "join", i |-> 0]
    BY <2>1, SumStep
  <2>3. MainInv'
    <3>1. CASE main.i < COUNTERS /\ main' = [pc |-> "total", i |-> main.i + 1]
      <4>1. main.i + 1 \in 0 .. COUNTERS
        BY <1>1, <3>1
      <4> QED  BY <2>2, <3>1, <4>1 DEF MainInv
    <3>2. CASE main' = [pc |-> "join", i |-> 0]
      <4>1. \A t \in Ids : ~(t < 0) /\ 0 \in 0 .. COUNTERS
        BY <1>1 DEF Ids
      <4> QED  BY <1>1, <2>2, <3>2, <4>1 DEF MainInv
    <3> QED  BY <2>2, <3>1, <3>2
  <2> QED  BY <1>1, <1>2, <2>1, <2>3
<1>6. CASE Join
  <2>1. main.pc = "join" /\ UNCHANGED <<id, counter, statsTh, misread>>
    BY <1>6 DEF Join, Is
  <2>2. CASE main.i < COUNTERS
    <3>1. /\ main' = [pc |-> "join", i |-> main.i + 1] /\ total' = total
          /\ statsTh[main.i].pc = "exit"
      BY <1>6, <2>2 DEF Join, Main
    <3>2. main.i + 1 \in 0 .. COUNTERS
      BY <1>1, <2>2
    <3>3. \A t \in Ids : t < main.i + 1 => statsTh[t].pc = "exit"
      <4>1. \A t \in Ids : t < main.i + 1 => t < main.i \/ t = main.i
        BY <1>1 DEF Ids
      <4> QED  BY <1>1, <2>1, <3>1, <4>1 DEF MainInv
    <3>4. MainInv'
      BY <1>1, <2>1, <3>1, <3>2, <3>3 DEF MainInv
    <3> QED  BY <1>1, <1>2, <2>1, <3>4
  <2>3. CASE ~(main.i < COUNTERS)
    <3>1. main' = [pc |-> "final", i |-> 0] /\ total' = 0
      BY <1>6, <2>3 DEF Join, Main
    <3>2. \A t \in Ids : statsTh[t].pc = "exit"
      <4>1. \A t \in Ids : t < main.i
        BY <1>1, <2>3 DEF Ids
      <4> QED  BY <1>1, <2>1, <4>1 DEF MainInv
    <3>3. Totals(0)'
      <4>1. Nets \in [Ids -> Int]
        BY DEF Nets, StatsInv, CounterInv
      <4>2. UpTo(Nets)[0] = 0
        BY <4>1, UpToSums DEF SumsTo
      <4>3. UpTo(Nets)' = UpTo(Nets)
        BY <2>1 DEF Nets, UpTo
      <4>4. total' = UpTo(Nets)'[0] + 0 * WRAP
        BY <1>1, <3>1, <4>2, <4>3
      <4> QED  BY <4>4 DEF Totals
    <3>4. 0 \in 0 .. COUNTERS
      BY <1>1
    <3>5. MainInv'
      BY <1>1, <2>1, <3>1, <3>2, <3>3, <3>4 DEF MainInv
    <3> QED  BY <1>1, <1>2, <2>1, <3>5
  <2> QED  BY <2>2, <2>3
<1>7. CASE FinalTotal
  <2>1. Sum("done") /\ main.pc = "final" /\ UNCHANGED <<id, counter, statsTh, misread>>
    BY <1>7 DEF FinalTotal, Is, Sum
  <2>2. /\ total' \in Nat /\ total' < WRAP
        /\ \/ main.i < COUNTERS /\ main' = [pc |-> "final", i |-> main.i + 1]
           \/ main.i = COUNTERS /\ main' = [pc |-> "done", i |-> 0] /\ total' = total
        /\ \A k \in Nat : ~misread /\ Totals(k) /\ k = main.i /\ k < COUNTERS => Totals(k + 1)'
    BY <2>1, SumStep
  <2>3. PICK k \in 0 .. COUNTERS : k = main.i
    BY <1>1
  <2>4. (~misread => Totals(k)) /\ \A t \in Ids : statsTh[t].pc = "exit"
    BY <1>1, <2>1, <2>3 DEF MainInv
  <2>5. MainInv'
    <3>1. CASE main.i < COUNTERS /\ main' = [pc |-> "final", i |-> main.i + 1]
      <4>1. k + 1 \in 0 .. COUNTERS /\ k \in Nat /\ main'.i = k + 1 /\ main'.pc = "final"
        BY <1>1, <2>3, <3>1
      <4>2. ~misread => Totals(k + 1)'
        BY <2>2, <2>3, <2>4, <3>1, <4>1
      <4>3. ~misread' => Totals(main.i)'
        BY <2>1, <4>1, <4>2
      <4> QED  BY <2>1, <2>2, <2>4, <3>1, <4>1, <4>3 DEF MainInv
    <3>2. CASE main.i = COUNTERS /\ main' = [pc |-> "done", i |-> 0] /\ total' = total
      <4>1. ~misread => Totals(COUNTERS)
        BY <2>3, <2>4, <3>2
      <4>2. UpTo(Nets)' = UpTo(Nets)
        BY <2>1 DEF Nets, UpTo
      <4>3. ~misread' => Totals(COUNTERS)'
        BY <2>1, <3>2, <4>1, <4>2 DEF Totals
      <4>4. 0 \in 0 .. COUNTERS
        BY <1>1
      <4> QED  BY <1>1, <2>1, <2>2, <2>4, <3>2, <4>3, <4>4 DEF MainInv
    <3> QED  BY <2>2, <3>1, <3>2
  <2> QED  BY <1>1, <1>2, <2>1, <2>5
<1> QED  BY <1>3, <1>4, <1>5, <1>6, <1>7 DEF MainStep

LEMMA StatsStepInv ==
  ASSUME StatsAssumption, StatsInv, [StatsNext]_statsVars
  PROVE  StatsInv'
<1>1. CASE UNCHANGED statsVars
  <2>1. UNCHANGED <<main, id, counter, statsTh, total, misread>>
    BY <1>1 DEF statsVars
  <2>2. \A t \in Ids : CounterInv(t)'
    BY <2>1 DEF StatsInv, CounterInv
  <2>3. \A n \in Nat : Totals(n) => Totals(n)'
    BY <2>1 DEF Totals, UpTo, Nets
  <2>4. MainInv'
    <3>1. PICK k \in 0 .. COUNTERS : k = main.i
      BY DEF StatsInv, MainInv
    <3>2. k \in Nat /\ COUNTERS \in Nat
      BY StatsSizes
    <3>3. (Totals(k) => Totals(main.i)') /\ (Totals(COUNTERS) => Totals(COUNTERS)')
      BY <2>1, <2>3, <3>1, <3>2
    <3> QED  BY <2>1, <3>1, <3>3 DEF StatsInv, MainInv
  <2> QED  BY <2>1, <2>2, <2>4 DEF StatsInv
<1>2. CASE StatsNext
  BY <1>2, MainStepInv, ThreadStepInv DEF StatsNext
<1> QED  BY <1>1, <1>2

LEMMA FinalAnswer ==
  ASSUME StatsAssumption, StatsInv
  PROVE  TotalExact
<1> SUFFICES ASSUME main.pc = "done", ~misread  PROVE Answer = Net
  BY DEF TotalExact, Is
<1> DEFINE H == WRAP \div 2  M == COUNTERS * REPS  s == UpTo(Nets)[COUNTERS]
<1>1. WRAP \in Nat \ {0} /\ REPS \in Nat /\ M \in Nat /\ M < H
  BY StatsSizes
<1>2. H \in Int /\ H + H <= WRAP
  BY <1>1
<1>3. total \in Nat /\ total < WRAP /\ \E q \in Int : total = s + q * WRAP
  BY DEF StatsInv, MainInv, Totals
<1>4. s \in Int /\ s <= M /\ -M <= s
  <2>1. Nets \in [Ids -> Int] /\ \A t \in Ids : Nets[t] <= REPS /\ -REPS <= Nets[t]
    BY <1>1 DEF Nets, StatsInv, CounterInv
  <2> QED  BY <2>1, SumsBounded
<1>5. Answer = (IF total < H THEN total ELSE total - WRAP) /\ Net = s
  BY DEF Answer, Net
<1> HIDE DEF H, M, s
<1>6. PICK q \in Int : total = s + q * WRAP
  BY <1>3
<1>7. q = 0 \/ q = 1
  <2>1. CASE q >= 2
    <3>1. q * WRAP >= WRAP + WRAP
      BY <1>1, <2>1
    <3>2. q * WRAP \in Int
      BY <1>1
    <3> DEFINE A == q * WRAP
    <3> HIDE DEF A
    <3> QED  BY <1>1, <1>2, <1>3, <1>4, <1>6, <3>1, <3>2 DEF A
  <2>2. CASE q <= -1
    <3>1. q * WRAP <= -WRAP /\ q * WRAP \in Int
      BY <1>1, <2>2
    <3> QED  BY <1>1, <1>2, <1>3, <1>4, <1>6, <3>1
  <2> QED  BY <2>1, <2>2
<1>8. CASE q = 0
  BY <1>1, <1>2, <1>3, <1>4, <1>5, <1>6, <1>8
<1>9. CASE q = 1
  BY <1>1, <1>2, <1>3, <1>4, <1>5, <1>6, <1>9
<1> QED  BY <1>7, <1>8, <1>9

(* For any number of threads and counts, whatever the interleaving of the   *)
(* loads and stores of stats_counter.c, the final total is what the threads *)
(* have counted, also below zero, unless one read its id before             *)
(* thread_pool_start stored it.                                             *)
THEOREM NoCountLost == StatsSpec => []TotalExact
<1>0. StatsAssumption
  BY StatsBounds
<1>1. StatsInit => StatsInv
  BY <1>0, StatsInitInv
<1>2. StatsInv /\ [StatsNext]_statsVars => StatsInv'
  BY <1>0, StatsStepInv
<1>3. StatsInv => TotalExact
  BY <1>0, FinalAnswer
<1> QED  BY <1>1, <1>2, <1>3, PTL DEF StatsSpec
=============================================================================
