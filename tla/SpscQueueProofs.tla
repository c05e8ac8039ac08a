-------------------------- MODULE SpscQueueProofs --------------------------
(* Theorems of queue.c for every size, cursor width and set of values: the  *)
(* threads never race for a slot, the answers of the tests hold, and the    *)
(* queue implements a bounded FIFO, also when cursors wrap around.          *)
EXTENDS SpscQueue, Integers, SequenceTheorems, TLAPS

-----------------------------------------------------------------------------
(* Slots of cursors *)

(* Division with remainder by the number of slots.                          *)
LEMMA Division ==
  ASSUME NEW x \in Nat
  PROVE  /\ x = SIZE * (x \div SIZE) + (x % SIZE)
         /\ x \div SIZE \in Nat /\ x % SIZE \in 0 .. SIZE - 1
BY QueueAssumption, Z3

(* The remainder is the only one.                                           *)
LEMMA Remainder ==
  ASSUME NEW q \in Int, NEW r \in 0 .. SIZE - 1, SIZE * q + r >= 0
  PROVE  (SIZE * q + r) % SIZE = r
BY QueueAssumption, SMTT(20)

(* A positive multiple of SIZE is at least SIZE.                            *)
LEMMA Multiple ==
  ASSUME NEW q \in Int, q >= 1
  PROVE  SIZE * q >= SIZE
BY QueueAssumption

(* Two places less than SIZE apart have different slots.                    *)
LEMMA SlotsDiffer ==
  ASSUME NEW x \in Nat, NEW y \in Nat, x < y, y < x + SIZE
  PROVE  x % SIZE # y % SIZE
<1> SUFFICES ASSUME x % SIZE = y % SIZE PROVE FALSE
  OBVIOUS
<1> DEFINE p == x \div SIZE
           q == y \div SIZE
           r == x % SIZE
<1>1. x = SIZE * p + r /\ y = SIZE * q + r /\ p \in Nat /\ q \in Nat /\ r \in Nat
  BY Division
<1> HIDE DEF p, q, r
<1>2. y - x = SIZE * (q - p)
  BY <1>1, QueueAssumption
<1>3. q - p \in Int /\ (q - p >= 1 \/ q - p <= 0)
  BY <1>1
<1>4. CASE q - p >= 1
  BY <1>2, <1>3, <1>4, Multiple, QueueAssumption
<1>5. CASE q - p <= 0
  <2>1. SIZE * (q - p) <= 0
    BY <1>3, <1>5, QueueAssumption
  <2> QED  BY <1>2, <2>1
<1> QED  BY <1>3, <1>4, <1>5

(* A cursor that wraps around keeps its slot.                               *)
LEMMA SlotWraps ==
  ASSUME NEW x \in Nat
  PROVE  (x + WIDTH) % SIZE = x % SIZE
<1> DEFINE p == x \div SIZE
           k == WIDTH \div SIZE
           r == x % SIZE
<1>1. x = SIZE * p + r /\ p \in Nat /\ r \in 0 .. SIZE - 1
  BY Division
<1>2. WIDTH = SIZE * k /\ k \in Nat
  BY Division, QueueAssumption
<1> HIDE DEF p, k, r
<1>3. x + WIDTH = SIZE * (p + k) + r
  BY <1>1, <1>2, QueueAssumption
<1>4. (SIZE * (p + k) + r) % SIZE = r
  <2>1. SIZE * (p + k) + r >= 0
    BY <1>1, <1>2, <1>3, QueueAssumption
  <2> QED  BY <1>1, <1>2, <2>1, Remainder
<1>5. r = x % SIZE
  BY DEF r
<1> QED  BY <1>3, <1>4, <1>5

(* The place of back, counted from front on without wrapping, has back's    *)
(* slot.                                                                    *)
LEMMA SlotOfBack ==
  ASSUME NEW f \in Cursor, NEW b \in Cursor
  PROVE  /\ Minus(b, f) \in Nat /\ Minus(b, f) < WIDTH
         /\ (f + Minus(b, f)) % SIZE = Index(b)
<1>1. f \in Nat /\ b \in Nat /\ f < WIDTH /\ b < WIDTH
  BY QueueAssumption DEF Cursor
<1>2. f + Minus(b, f) = b \/ f + Minus(b, f) = b + WIDTH
  BY <1>1, QueueAssumption DEF Minus
<1>3. Minus(b, f) \in Nat /\ Minus(b, f) < WIDTH
  BY <1>1, QueueAssumption DEF Minus
<1> QED  BY <1>1, <1>2, <1>3, SlotWraps DEF Index

(* With fewer than SIZE values in the queue, the slot of back holds none of *)
(* them.                                                                    *)
LEMMA BackIsFree ==
  ASSUME NEW f \in Cursor, NEW b \in Cursor, Minus(b, f) < SIZE,
         NEW i \in 1 .. Minus(b, f)
  PROVE  (f + i - 1) % SIZE # Index(b)
<1>1. /\ f \in Nat /\ Minus(b, f) \in Nat /\ SIZE \in Nat
      /\ (f + Minus(b, f)) % SIZE = Index(b)
  BY SlotOfBack, QueueAssumption DEF Cursor
<1> DEFINE m == Minus(b, f)
           x == f + i - 1
           y == f + m
<1> HIDE DEF m
<1>2. m \in Nat /\ m < SIZE /\ i \in 1 .. m
  BY <1>1 DEF m
<1>3. x \in Nat /\ y \in Nat /\ x < y /\ y < x + SIZE
  BY <1>1, <1>2
<1>4. x % SIZE # y % SIZE
  BY <1>3, SlotsDiffer
<1> QED  BY <1>1, <1>4 DEF m

-----------------------------------------------------------------------------
(* The inductive invariant: a side's copy of the other's cursor is never    *)
(* ahead of what it has seen, nor that of the cursor, and a thread that has *)
(* passed its test has a slot to itself. TypeOK and RaceFree alone are not  *)
(* inductive: nothing in them relates a stale copy to the cursor.           *)

(* What the producer knows of front, and the consumer of back.              *)
CursorInv ==
  /\ Minus(back, front) <= Minus(back, seenFront)
  /\ Minus(back, seenFront) <= Minus(back, cachedFront)
  /\ Minus(back, cachedFront) <= SIZE
  /\ Minus(cachedBack, front) <= Minus(seenBack, front)
  /\ Minus(seenBack, front) <= Minus(back, front)

(* What a thread's place in its operation implies.                          *)
ProdInv ==
  /\ prod.pc \in {"write", "publish"} => Minus(back, cachedFront) < SIZE
  /\ prod.pc # "idle" => prod.v \in Value
  /\ prod.pc = "publish" => slot[Index(back)] = prod.v
  /\ prod.room => Minus(back, seenFront) < SIZE

ConsInv ==
  /\ cons.pc \in {"read", "publish"} => cachedBack # front
  /\ cons.pc = "publish" => cons.v = slot[Index(front)]
  /\ cons.any => seenBack # front

IInv == TypeOK /\ CursorInv /\ ProdInv /\ ConsInv

-----------------------------------------------------------------------------
(* Arithmetic of cursors that wrap around *)

(* The distance of two cursors is below WIDTH, and 0 for equal ones only.   *)
LEMMA MinusType ==
  ASSUME NEW b \in Cursor, NEW f \in Cursor
  PROVE  /\ Minus(b, f) \in Nat /\ Minus(b, f) < WIDTH
         /\ Minus(b, f) = 0 <=> b = f
BY QueueAssumption DEF Cursor, Minus

(* A cursor has a slot.                                                     *)
LEMMA IndexType ==
  ASSUME NEW c \in Cursor
  PROVE  Index(c) \in 0 .. SIZE - 1
BY Division, QueueAssumption DEF Cursor, Index

(* And so has the place some values ahead of it.                            *)
LEMMA IndexAhead ==
  ASSUME NEW c \in Cursor, NEW i \in 0 .. SIZE - 1
  PROVE  Index(c + i) \in 0 .. SIZE - 1
<1>1. c + i \in Nat
  BY QueueAssumption DEF Cursor
<1> QED  BY <1>1, Division DEF Index

(* A push adds 1 to the distance from any cursor that is not too far back.  *)
LEMMA PushDistance ==
  ASSUME NEW b \in Cursor, NEW f \in Cursor, Minus(b, f) < SIZE
  PROVE  /\ Plus1(b) \in Cursor
         /\ Minus(Plus1(b), f) = Minus(b, f) + 1
BY QueueAssumption DEF Cursor, Minus, Plus1

(* A pop takes 1 off the distance to any cursor ahead.                      *)
LEMMA PopDistance ==
  ASSUME NEW b \in Cursor, NEW f \in Cursor, b # f
  PROVE  /\ Plus1(f) \in Cursor
         /\ Minus(b, Plus1(f)) = Minus(b, f) - 1
BY QueueAssumption DEF Cursor, Minus, Plus1

(* A load of front lies between what was seen of it and what it is.         *)
LEMMA LoadFront ==
  ASSUME NEW b \in Cursor, NEW new \in Cursor, NEW old \in Cursor,
         Minus(b, new) <= Minus(b, old), NEW f \in Loads(old, new)
  PROVE  /\ f \in Cursor
         /\ Minus(b, new) <= Minus(b, f) /\ Minus(b, f) <= Minus(b, old)
BY QueueAssumption DEF Cursor, Minus, Loads

(* And so does a load of back.                                              *)
LEMMA LoadBack ==
  ASSUME NEW f \in Cursor, NEW new \in Cursor, NEW old \in Cursor,
         Minus(old, f) <= Minus(new, f), NEW b \in Loads(old, new)
  PROVE  /\ b \in Cursor
         /\ Minus(old, f) <= Minus(b, f) /\ Minus(b, f) <= Minus(new, f)
BY QueueAssumption DEF Cursor, Minus, Loads

(* With some values in the queue but not SIZE, the cursors' slots differ.   *)
LEMMA EndsDiffer ==
  ASSUME NEW b \in Cursor, NEW f \in Cursor, b # f, Minus(b, f) < SIZE
  PROVE  Index(f) # Index(b)
<1>1. 1 \in 1 .. Minus(b, f) /\ f \in Nat
  BY MinusType, QueueAssumption DEF Cursor
<1>2. f + 1 - 1 = f
  BY <1>1
<1> QED  BY <1>1, <1>2, BackIsFree DEF Index

-----------------------------------------------------------------------------
(* The invariant holds in the initial state.                                *)
LEMMA InitIInv == Init => IInv
<1> SUFFICES ASSUME Init PROVE IInv
  OBVIOUS
<1>1. 0 \in Cursor
  BY QueueAssumption DEF Cursor
<1>2. TypeOK
  BY <1>1, QueueAssumption DEF Init, TypeOK
<1>3. CursorInv
  BY <1>1, MinusType, QueueAssumption DEF Init, CursorInv
<1>4. ProdInv /\ ConsInv
  BY DEF Init, ProdInv, ConsInv
<1> QED  BY <1>2, <1>3, <1>4 DEF IInv

(* Every step keeps it.                                                     *)
LEMMA NextIInv == IInv /\ [Next]_vars => IInv'
<1> SUFFICES ASSUME IInv, [Next]_vars PROVE IInv'
  OBVIOUS
<1> USE DEF IInv
<1>0. /\ back \in Cursor /\ front \in Cursor
      /\ cachedFront \in Cursor /\ cachedBack \in Cursor
      /\ seenFront \in Cursor /\ seenBack \in Cursor
  BY DEF TypeOK
<1>n. /\ Minus(back, front) \in Nat /\ Minus(back, seenFront) \in Nat
      /\ Minus(back, cachedFront) \in Nat /\ Minus(cachedBack, front) \in Nat
      /\ Minus(seenBack, front) \in Nat
  BY <1>0, MinusType
<1>a. SIZE \in Nat /\ SIZE > 1
  BY QueueAssumption
<1>1. ASSUME NEW v \in Value, Push(v) PROVE IInv'
  <2>1. TypeOK'
    BY <1>1 DEF Push, consVars, TypeOK
  <2>2. CursorInv'
    BY <1>1 DEF Push, consVars, CursorInv
  <2>3. ProdInv'
    <3>1. prod'.v \in Value /\ prod'.room = prod.room /\ prod'.pc \in {"refresh", "write"}
      BY <1>1 DEF Push, TypeOK
    <3>2. prod'.pc = "write" => Minus(back, cachedFront) # SIZE
      BY <1>1 DEF Push, TypeOK, IsFull
    <3> QED  BY <1>1, <3>1, <3>2, <1>n, <1>a DEF Push, consVars, ProdInv, CursorInv
  <2>4. ConsInv'
    BY <1>1 DEF Push, consVars, ConsInv
  <2> QED  BY <2>1, <2>2, <2>3, <2>4
<1>2. ASSUME PushRefresh PROVE IInv'
  <2>0. PICK f \in Loads(seenFront, front) :
          /\ cachedFront' = f /\ seenFront' = f
          /\ prod' = [prod EXCEPT !.pc = IF IsFull(f, back) THEN "idle" ELSE "write"]
    BY <1>2 DEF PushRefresh
  <2>f. /\ f \in Cursor
        /\ Minus(back, front) <= Minus(back, f)
        /\ Minus(back, f) <= Minus(back, seenFront)
    BY <1>0, LoadFront DEF CursorInv
  <2>n. Minus(back, f) \in Nat
    BY <2>f, <1>0, MinusType
  <2>1. TypeOK'
    BY <1>2, <2>0, <2>f DEF PushRefresh, consVars, TypeOK
  <2>2. CursorInv'
    BY <1>2, <2>0, <2>f, <2>n, <1>n, <1>a DEF PushRefresh, consVars, CursorInv
  <2>3. ProdInv'
    <3>1. /\ prod'.v = prod.v /\ prod'.room = prod.room /\ prod'.pc \in {"idle", "write"}
          /\ prod'.pc = "write" => Minus(back, f) # SIZE
          /\ prod.pc = "refresh"
      BY <1>2, <2>0 DEF PushRefresh, TypeOK, IsFull
    <3> QED  BY <1>2, <2>0, <2>f, <2>n, <3>1, <1>n, <1>a
             DEF PushRefresh, consVars, ProdInv, CursorInv
  <2>4. ConsInv'
    BY <1>2 DEF PushRefresh, consVars, ConsInv
  <2> QED  BY <2>1, <2>2, <2>3, <2>4
<1>3. ASSUME PushWrite PROVE IInv'
  <2>0. /\ slot' = [slot EXCEPT ![Index(back)] = prod.v]
        /\ prod' = [prod EXCEPT !.pc = "publish"] /\ prod.pc = "write"
        /\ prod.v \in Value /\ Minus(back, front) < SIZE
        /\ Index(back) \in 0 .. SIZE - 1 /\ Index(front) \in 0 .. SIZE - 1
    BY <1>3, <1>0, <1>n, <1>a, IndexType DEF PushWrite, ProdInv, CursorInv
  <2>1. TypeOK'
    BY <1>3, <2>0 DEF PushWrite, consVars, TypeOK
  <2>2. CursorInv'
    BY <1>3 DEF PushWrite, consVars, CursorInv
  <2>3. ProdInv'
    BY <1>3, <2>0 DEF PushWrite, consVars, ProdInv, TypeOK
  <2>4. ConsInv'
    <3>1. CASE cons.pc = "publish"
      <4>1. back # front
        BY <3>1, <1>0, <1>n, MinusType DEF ConsInv, CursorInv
      <4>2. Index(front) # Index(back)
        BY <4>1, <2>0, <1>0, EndsDiffer
      <4>3. slot'[Index(front)] = slot[Index(front)]
        BY <4>2, <2>0 DEF TypeOK
      <4> QED  BY <1>3, <4>3 DEF PushWrite, consVars, ConsInv
    <3>2. CASE cons.pc # "publish"
      BY <1>3, <3>2 DEF PushWrite, consVars, ConsInv
    <3> QED  BY <3>1, <3>2
  <2> QED  BY <2>1, <2>2, <2>3, <2>4
<1>4. ASSUME PushPublish PROVE IInv'
  <2>0. /\ back' = Plus1(back) /\ prod.pc = "publish"
        /\ prod' = [prod EXCEPT !.pc = "idle", !.room = FALSE]
        /\ Minus(back, cachedFront) < SIZE
        /\ Minus(back, seenFront) < SIZE /\ Minus(back, front) < SIZE
    BY <1>4, <1>0, <1>n, <1>a DEF PushPublish, ProdInv, CursorInv
  <2>d. /\ back' \in Cursor
        /\ Minus(back', front) = Minus(back, front) + 1
        /\ Minus(back', seenFront) = Minus(back, seenFront) + 1
        /\ Minus(back', cachedFront) = Minus(back, cachedFront) + 1
    BY <2>0, <1>0, PushDistance
  <2>1. TypeOK'
    BY <1>4, <2>0, <2>d DEF PushPublish, consVars, TypeOK
  <2>2. CursorInv'
    BY <1>4, <2>0, <2>d, <1>n, <1>a DEF PushPublish, consVars, CursorInv
  <2>3. ProdInv'
    BY <2>0 DEF ProdInv, TypeOK
  <2>4. ConsInv'
    BY <1>4 DEF PushPublish, consVars, ConsInv
  <2> QED  BY <2>1, <2>2, <2>3, <2>4
<1>5. ASSUME AskFull PROVE IInv'
  <2>0. PICK f \in Loads(seenFront, front) :
          seenFront' = f /\ prod' = [prod EXCEPT !.room = ~IsFull(f, back)]
    BY <1>5 DEF AskFull
  <2>f. /\ f \in Cursor
        /\ Minus(back, front) <= Minus(back, f)
        /\ Minus(back, f) <= Minus(back, seenFront)
    BY <1>0, LoadFront DEF CursorInv
  <2>n. Minus(back, f) \in Nat
    BY <2>f, <1>0, MinusType
  <2>1. TypeOK'
    BY <1>5, <2>0, <2>f DEF AskFull, consVars, TypeOK, IsFull
  <2>2. CursorInv'
    BY <1>5, <2>0, <2>f, <2>n, <1>n, <1>a DEF AskFull, consVars, CursorInv
  <2>3. ProdInv'
    <3>1. prod'.pc = "idle" /\ (prod'.room => Minus(back, f) # SIZE)
      BY <1>5, <2>0 DEF AskFull, TypeOK, IsFull
    <3> QED  BY <1>5, <2>0, <2>f, <2>n, <3>1, <1>n, <1>a
             DEF AskFull, consVars, ProdInv, CursorInv
  <2>4. ConsInv'
    BY <1>5 DEF AskFull, consVars, ConsInv
  <2> QED  BY <2>1, <2>2, <2>3, <2>4
<1>6. ASSUME Pop PROVE IInv'
  <2>1. TypeOK'
    BY <1>6 DEF Pop, prodVars, TypeOK
  <2>2. CursorInv' /\ ProdInv'
    BY <1>6 DEF Pop, prodVars, CursorInv, ProdInv
  <2>3. ConsInv'
    <3>1. /\ cons'.pc \in {"refresh", "read"} /\ cons'.any = cons.any
          /\ cons'.pc = "read" => cachedBack # front
      BY <1>6 DEF Pop, TypeOK, IsEmpty
    <3> QED  BY <1>6, <3>1 DEF Pop, prodVars, ConsInv
  <2> QED  BY <2>1, <2>2, <2>3
<1>7. ASSUME PopRefresh PROVE IInv'
  <2>0. PICK b \in Loads(seenBack, back) :
          /\ cachedBack' = b /\ seenBack' = b
          /\ cons' = [cons EXCEPT !.pc = IF IsEmpty(front, b) THEN "idle" ELSE "read"]
    BY <1>7 DEF PopRefresh
  <2>b. /\ b \in Cursor
        /\ Minus(seenBack, front) <= Minus(b, front)
        /\ Minus(b, front) <= Minus(back, front)
    BY <1>0, LoadBack DEF CursorInv
  <2>n. Minus(b, front) \in Nat
    BY <2>b, <1>0, MinusType
  <2>1. TypeOK'
    BY <1>7, <2>0, <2>b DEF PopRefresh, prodVars, TypeOK
  <2>2. CursorInv' /\ ProdInv'
    BY <1>7, <2>0, <2>b, <2>n, <1>n DEF PopRefresh, prodVars, CursorInv, ProdInv
  <2>3. ConsInv'
    <3>1. /\ cons'.pc \in {"idle", "read"} /\ cons'.any = cons.any
          /\ cons'.pc = "read" => b # front
      BY <1>7, <2>0 DEF PopRefresh, TypeOK, IsEmpty
    <3>2. cons.any => b # front
      BY <2>b, <2>n, <1>0, <1>n, MinusType DEF ConsInv
    <3> QED  BY <1>7, <2>0, <3>1, <3>2 DEF PopRefresh, prodVars, ConsInv
  <2> QED  BY <2>1, <2>2, <2>3
<1>8. ASSUME PopRead PROVE IInv'
  <2>0. Index(front) \in 0 .. SIZE - 1
    BY <1>0, IndexType
  <2>1. TypeOK'
    BY <1>8, <2>0 DEF PopRead, prodVars, TypeOK
  <2>2. CursorInv' /\ ProdInv'
    BY <1>8 DEF PopRead, prodVars, CursorInv, ProdInv
  <2>3. ConsInv'
    <3>1. /\ cons'.pc = "publish" /\ cons'.any = cons.any /\ cons.pc = "read"
          /\ cons'.v = slot[Index(front)]
      BY <1>8 DEF PopRead, TypeOK
    <3> QED  BY <1>8, <3>1 DEF PopRead, prodVars, ConsInv
  <2> QED  BY <2>1, <2>2, <2>3
<1>9. ASSUME PopPublish PROVE IInv'
  <2>0. /\ front' = Plus1(front) /\ cons.pc = "publish"
        /\ cons' = [cons EXCEPT !.pc = "idle", !.last = cons.v, !.any = FALSE]
        /\ cachedBack # front
    BY <1>9 DEF PopPublish, ConsInv
  <2>e. seenBack # front /\ back # front
    BY <2>0, <1>0, <1>n, MinusType DEF CursorInv
  <2>d. /\ front' \in Cursor
        /\ Minus(back, front') = Minus(back, front) - 1
        /\ Minus(seenBack, front') = Minus(seenBack, front) - 1
        /\ Minus(cachedBack, front') = Minus(cachedBack, front) - 1
    BY <2>0, <2>e, <1>0, PopDistance
  <2>1. TypeOK'
    BY <1>9, <2>0, <2>d DEF PopPublish, prodVars, TypeOK
  <2>2. CursorInv'
    BY <1>9, <2>d, <1>n, <1>a DEF PopPublish, prodVars, CursorInv
  <2>3. ProdInv'
    BY <1>9 DEF PopPublish, prodVars, ProdInv
  <2>4. ConsInv'
    BY <2>0 DEF ConsInv, TypeOK
  <2> QED  BY <2>1, <2>2, <2>3, <2>4
<1>10. ASSUME AskEmpty PROVE IInv'
  <2>0. PICK b \in Loads(seenBack, back) :
          seenBack' = b /\ cons' = [cons EXCEPT !.any = ~IsEmpty(front, b)]
    BY <1>10 DEF AskEmpty
  <2>b. /\ b \in Cursor
        /\ Minus(seenBack, front) <= Minus(b, front)
        /\ Minus(b, front) <= Minus(back, front)
    BY <1>0, LoadBack DEF CursorInv
  <2>n. Minus(b, front) \in Nat
    BY <2>b, <1>0, MinusType
  <2>1. TypeOK'
    BY <1>10, <2>0, <2>b DEF AskEmpty, prodVars, TypeOK, IsEmpty
  <2>2. CursorInv' /\ ProdInv'
    BY <1>10, <2>0, <2>b, <2>n, <1>n DEF AskEmpty, prodVars, CursorInv, ProdInv
  <2>3. ConsInv'
    <3>1. cons'.pc = "idle" /\ (cons'.any => b # front)
      BY <1>10, <2>0 DEF AskEmpty, TypeOK, IsEmpty
    <3> QED  BY <2>0, <3>1, <1>10 DEF AskEmpty, prodVars, ConsInv
  <2> QED  BY <2>1, <2>2, <2>3
<1>11. ASSUME NEW i \in 0 .. SIZE - 1, Get(i) PROVE IInv'
  <2>1. TypeOK'
    BY <1>11 DEF Get, prodVars, TypeOK
  <2>2. CursorInv' /\ ProdInv'
    BY <1>11 DEF Get, prodVars, CursorInv, ProdInv
  <2>3. ConsInv'
    <3>1. cons'.pc \in {"peek", "get"} /\ cons'.any = cons.any
      BY <1>11 DEF Get, TypeOK
    <3> QED  BY <1>11, <3>1 DEF Get, prodVars, ConsInv
  <2> QED  BY <2>1, <2>2, <2>3
<1>12. ASSUME GetRefresh PROVE IInv'
  <2>0. PICK b \in Loads(seenBack, back) :
          /\ cachedBack' = b /\ seenBack' = b
          /\ cons' = [cons EXCEPT !.pc = IF IsEmpty(front, b) THEN "idle" ELSE "get"]
    BY <1>12 DEF GetRefresh
  <2>b. /\ b \in Cursor
        /\ Minus(seenBack, front) <= Minus(b, front)
        /\ Minus(b, front) <= Minus(back, front)
    BY <1>0, LoadBack DEF CursorInv
  <2>n. Minus(b, front) \in Nat
    BY <2>b, <1>0, MinusType
  <2>1. TypeOK'
    BY <1>12, <2>0, <2>b DEF GetRefresh, prodVars, TypeOK
  <2>2. CursorInv' /\ ProdInv'
    BY <1>12, <2>0, <2>b, <2>n, <1>n DEF GetRefresh, prodVars, CursorInv, ProdInv
  <2>3. ConsInv'
    <3>1. cons'.pc \in {"idle", "get"} /\ cons'.any = cons.any
      BY <2>0 DEF TypeOK
    <3>2. cons.any => b # front
      BY <2>b, <2>n, <1>0, <1>n, MinusType DEF ConsInv
    <3> QED  BY <1>12, <2>0, <3>1, <3>2 DEF GetRefresh, prodVars, ConsInv
  <2> QED  BY <2>1, <2>2, <2>3
<1>13. ASSUME GetRead PROVE IInv'
  <2>1. slot[Index(front + cons.i)] \in Value \cup {NULL}
    BY <1>0, IndexAhead DEF TypeOK
  <2>2. TypeOK'
    BY <1>13, <2>1 DEF GetRead, prodVars, TypeOK
  <2>3. CursorInv' /\ ProdInv'
    BY <1>13 DEF GetRead, prodVars, CursorInv, ProdInv
  <2>4. ConsInv'
    <3>1. cons'.pc = "idle" /\ cons'.any = cons.any
      BY <1>13 DEF GetRead, TypeOK
    <3> QED  BY <1>13, <3>1 DEF GetRead, prodVars, ConsInv
  <2> QED  BY <2>2, <2>3, <2>4
<1>14. CASE UNCHANGED vars
  BY <1>14 DEF vars, TypeOK, CursorInv, ProdInv, ConsInv
<1> QED
  BY <1>1, <1>2, <1>3, <1>4, <1>5, <1>6, <1>7, <1>8, <1>9, <1>10, <1>11, <1>12,
     <1>13, <1>14
  DEF Next, Producer, Consumer, Getter

(* A thread past its test knows of the real cursors what it has read off    *)
(* its copy: there is room for the producer, a value for the consumer.      *)
LEMMA PastTheTest ==
  ASSUME IInv
  PROVE  /\ prod.pc \in {"write", "publish"} => Minus(back, front) < SIZE
         /\ cons.pc \in {"read", "publish"} => back # front
<1>1. /\ back \in Cursor /\ front \in Cursor /\ cachedFront \in Cursor
      /\ cachedBack \in Cursor /\ seenFront \in Cursor /\ seenBack \in Cursor
  BY DEF IInv, TypeOK
<1>2. /\ Minus(back, front) \in Nat /\ Minus(back, seenFront) \in Nat
      /\ Minus(back, cachedFront) \in Nat /\ Minus(cachedBack, front) \in Nat
      /\ Minus(seenBack, front) \in Nat /\ SIZE \in Nat
  BY <1>1, MinusType, QueueAssumption
<1>3. Minus(back, front) <= Minus(back, cachedFront)
  BY <1>2 DEF IInv, CursorInv
<1>4. Minus(cachedBack, front) <= Minus(back, front)
  BY <1>2 DEF IInv, CursorInv
<1>5. ASSUME prod.pc \in {"write", "publish"} PROVE Minus(back, front) < SIZE
  <2>1. Minus(back, cachedFront) < SIZE
    BY <1>5 DEF IInv, ProdInv
  <2> QED  BY <2>1, <1>2, <1>3
<1>6. ASSUME cons.pc \in {"read", "publish"} PROVE back # front
  <2>1. cachedBack # front
    BY <1>6 DEF IInv, ConsInv
  <2>2. Minus(cachedBack, front) # 0
    BY <2>1, <1>1, MinusType
  <2>3. Minus(back, front) # 0
    BY <2>2, <1>2, <1>4
  <2> QED  BY <2>3, <1>1, MinusType
<1> QED  BY <1>5, <1>6

(* The cursors, the copies and both threads' places stay in their types,    *)
(* for every power-of-two size and cursor width.                            *)
THEOREM QueueTypeCorrect == Spec => []TypeOK
<1>1. IInv => TypeOK
  BY DEF IInv
<1> QED  BY <1>1, InitIInv, NextIInv, PTL DEF Spec

(* The producer never writes the slot the consumer is popping, nor one that *)
(* queue_get reads as long as its index is below the values of the copy.    *)
THEOREM QueueRaceFree == Spec => []RaceFree
<1>1. IInv => RaceFree
  <2> SUFFICES ASSUME IInv, prod.pc = "write"
               PROVE  /\ cons.pc = "read" => Index(back) # Index(front)
                      /\ cons.pc = "get" /\ cons.i < Known =>
                           Index(back) # Index(front + cons.i)
    BY DEF RaceFree
  <2>0. /\ back \in Cursor /\ front \in Cursor /\ cachedBack \in Cursor
        /\ seenBack \in Cursor /\ cons.i \in 0 .. SIZE - 1
    BY DEF IInv, TypeOK
  <2>1. Minus(back, front) < SIZE
    BY PastTheTest
  <2>2. ASSUME cons.pc = "read" PROVE Index(back) # Index(front)
    BY <2>0, <2>1, <2>2, PastTheTest, EndsDiffer
  <2>3. ASSUME cons.i < Known PROVE Index(back) # Index(front + cons.i)
    <3>1. Known <= Minus(back, front) /\ Known \in Nat /\ Minus(back, front) \in Nat
      <4>1. /\ Minus(cachedBack, front) \in Nat /\ Minus(seenBack, front) \in Nat
            /\ Minus(back, front) \in Nat
        BY <2>0, MinusType
      <4> QED  BY <4>1 DEF Known, IInv, CursorInv
    <3>2. cons.i + 1 \in 1 .. Minus(back, front)
      BY <2>0, <2>3, <3>1, QueueAssumption
    <3>3. (front + (cons.i + 1) - 1) % SIZE # Index(back)
      BY <2>0, <2>1, <3>2, BackIsFree
    <3>4. front + (cons.i + 1) - 1 = front + cons.i
      BY <2>0, QueueAssumption DEF Cursor
    <3> QED  BY <3>3, <3>4 DEF Index
  <2> QED  BY <2>2, <2>3
<1> QED  BY <1>1, InitIInv, NextIInv, PTL DEF Spec

(* A push after queue_is_full said no, and a pop after queue_is_empty said  *)
(* no, succeed: what one side has seen of the other's cursor is only ever   *)
(* overtaken in its favour.                                                 *)
THEOREM QueueAnswersKept == Spec => AnswersKept
<1> DEFINE Kept == /\ prod.room /\ prod.pc = "refresh" => prod'.pc # "idle"
                   /\ cons.any /\ cons.pc = "refresh" => cons'.pc # "idle"
<1>1. IInv /\ [Next]_vars => Kept
  <2> SUFFICES ASSUME IInv, [Next]_vars PROVE Kept
    OBVIOUS
  <2>0. /\ back \in Cursor /\ front \in Cursor
        /\ seenFront \in Cursor /\ seenBack \in Cursor
        /\ Minus(back, front) \in Nat /\ Minus(seenBack, front) \in Nat
    BY MinusType DEF IInv, TypeOK
  <2>1. ASSUME prod.room, prod.pc = "refresh" PROVE prod'.pc # "idle"
    <3>1. CASE PushRefresh
      <4>1. PICK f \in Loads(seenFront, front) :
              prod' = [prod EXCEPT !.pc = IF IsFull(f, back) THEN "idle" ELSE "write"]
        BY <3>1 DEF PushRefresh
      <4>2. f \in Cursor /\ Minus(back, f) <= Minus(back, seenFront)
        BY <2>0, LoadFront DEF IInv, CursorInv
      <4>3. Minus(back, f) \in Nat /\ Minus(back, seenFront) \in Nat
        BY <4>2, <2>0, MinusType
      <4>4. ~IsFull(f, back)
        BY <2>1, <4>2, <4>3, QueueAssumption DEF IInv, ProdInv, IsFull
      <4> QED  BY <4>1, <4>4 DEF IInv, TypeOK
    <3>2. CASE UNCHANGED prod
      BY <2>1, <3>2
    <3> QED
      BY <2>1, <3>1, <3>2 DEF Next, Producer, Consumer, Push, PushWrite, PushPublish,
         AskFull, Pop, PopRefresh, PopRead, PopPublish, AskEmpty, Getter, Get,
         GetRefresh, GetRead, prodVars, vars
  <2>2. ASSUME cons.any, cons.pc = "refresh" PROVE cons'.pc # "idle"
    <3>1. CASE PopRefresh
      <4>1. PICK b \in Loads(seenBack, back) :
              cons' = [cons EXCEPT !.pc = IF IsEmpty(front, b) THEN "idle" ELSE "read"]
        BY <3>1 DEF PopRefresh
      <4>2. b \in Cursor /\ Minus(seenBack, front) <= Minus(b, front)
        BY <2>0, LoadBack DEF IInv, CursorInv
      <4>3. Minus(b, front) \in Nat
        BY <4>2, <2>0, MinusType
      <4>4. ~IsEmpty(front, b)
        BY <2>2, <4>2, <4>3, <2>0, MinusType DEF IInv, ConsInv, IsEmpty
      <4> QED  BY <4>1, <4>4 DEF IInv, TypeOK
    <3>2. CASE UNCHANGED cons
      BY <2>2, <3>2
    <3> QED
      BY <2>2, <3>1, <3>2 DEF Next, Producer, Consumer, Push, PushRefresh, PushWrite,
         PushPublish, AskFull, Pop, PopRead, PopPublish, AskEmpty, Getter, Get,
         GetRefresh, GetRead, consVars, vars
  <2> QED  BY <2>1, <2>2
<1> QED  BY <1>1, InitIInv, NextIInv, PTL DEF Spec, AnswersKept

-----------------------------------------------------------------------------
(* The refinement: the values of the slots between the cursors.             *)
Values(s, f, b) == [i \in 1 .. Minus(b, f) |-> s[(f + i - 1) % SIZE]]

(* A function on 1 .. n is a sequence of length n.                          *)
LEMMA FunctionIsSeq ==
  ASSUME NEW S, NEW n \in Nat, NEW f \in [1 .. n -> S]
  PROVE  f \in Seq(S) /\ Len(f) = n
OBVIOUS

(* The slots between two cursors are a sequence, as long as they are apart. *)
LEMMA ValuesType ==
  ASSUME NEW S, NEW s \in [0 .. SIZE - 1 -> S]
  PROVE  \A f, b \in Cursor :
           /\ Values(s, f, b) \in Seq(S)
           /\ Len(Values(s, f, b)) = Minus(b, f)
           /\ \A i \in 1 .. Minus(b, f) : Values(s, f, b)[i] = s[(f + i - 1) % SIZE]
<1> TAKE f, b \in Cursor
<1>1. f \in Nat /\ Minus(b, f) \in Nat
  BY MinusType, QueueAssumption DEF Cursor
<1>2. ASSUME NEW i \in 1 .. Minus(b, f) PROVE s[(f + i - 1) % SIZE] \in S
  <2>1. f + i - 1 \in Nat
    BY <1>1
  <2>2. (f + i - 1) % SIZE \in 0 .. SIZE - 1
    BY <2>1, Division
  <2> QED  BY <2>2
<1>3. Values(s, f, b) \in [1 .. Minus(b, f) -> S]
  BY <1>2 DEF Values
<1> QED  BY <1>1, <1>3, FunctionIsSeq DEF Values

(* Storing back appends the value written to its slot.                      *)
LEMMA ValuesPush ==
  ASSUME NEW S, NEW s \in [0 .. SIZE - 1 -> S], NEW f \in Cursor, NEW b \in Cursor,
         Minus(b, f) < SIZE, s[Index(b)] \in S
  PROVE  Values(s, f, Plus1(b)) = Append(Values(s, f, b), s[Index(b)])
<1> DEFINE t == Values(s, f, Plus1(b))
           q == Values(s, f, b)
           n == Minus(b, f)
           u == Append(q, s[Index(b)])
<1>1. n \in Nat /\ f \in Nat
  BY MinusType, QueueAssumption DEF Cursor
<1>2. Plus1(b) \in Cursor /\ Minus(Plus1(b), f) = n + 1
  BY PushDistance
<1>3. /\ t \in Seq(S) /\ Len(t) = n + 1
      /\ \A i \in 1 .. n + 1 : t[i] = s[(f + i - 1) % SIZE]
  <2>1. /\ t \in Seq(S)
        /\ Len(t) = Minus(Plus1(b), f)
        /\ \A i \in 1 .. Minus(Plus1(b), f) : t[i] = s[(f + i - 1) % SIZE]
    BY <1>2, ValuesType
  <2> HIDE DEF t, n
  <2> QED  BY <2>1, <1>2
<1>4. /\ q \in Seq(S) /\ Len(q) = n
      /\ \A i \in 1 .. n : q[i] = s[(f + i - 1) % SIZE]
  BY ValuesType
<1>5. (f + n) % SIZE = Index(b)
  BY SlotOfBack
<1> HIDE DEF t, q, n
<1>6. /\ u \in Seq(S) /\ Len(u) = n + 1
      /\ \A i \in 1 .. n : u[i] = q[i]
      /\ u[n + 1] = s[Index(b)]
  BY <1>4, AppendProperties
<1> HIDE DEF u
<1>7. ASSUME NEW i \in 1 .. n + 1 PROVE t[i] = u[i]
  <2>1. CASE i \in 1 .. n
    BY <2>1, <1>1, <1>3, <1>4, <1>6
  <2>2. CASE i = n + 1
    <3>1. f + (n + 1) - 1 = f + n /\ n + 1 \in 1 .. n + 1
      BY <1>1
    <3>2. t[n + 1] = s[(f + (n + 1) - 1) % SIZE]
      BY <3>1, <1>3
    <3>3. t[n + 1] = s[Index(b)]
      BY <3>1, <3>2, <1>5
    <3> QED  BY <2>2, <3>3, <1>6
  <2> QED  BY <2>1, <2>2, <1>1
<1>8. t = u
  BY <1>3, <1>6, <1>7, SeqEqual
<1> QED  BY <1>8 DEF t, q, u

(* Storing front takes the value of its slot off the head.                  *)
LEMMA ValuesPop ==
  ASSUME NEW S, NEW s \in [0 .. SIZE - 1 -> S], NEW f \in Cursor, NEW b \in Cursor,
         b # f
  PROVE  /\ Values(s, f, b) # <<>>
         /\ Head(Values(s, f, b)) = s[Index(f)]
         /\ Tail(Values(s, f, b)) = Values(s, Plus1(f), b)
<1> DEFINE t == Values(s, Plus1(f), b)
           q == Values(s, f, b)
           n == Minus(b, f)
<1>1. n \in Nat /\ n # 0 /\ f \in Nat /\ f < WIDTH /\ WIDTH \in Nat /\ SIZE \in Nat
  BY MinusType, QueueAssumption DEF Cursor
<1>2. Plus1(f) \in Cursor /\ Minus(b, Plus1(f)) = n - 1
  BY PopDistance
<1>3. /\ t \in Seq(S) /\ Len(t) = n - 1
      /\ \A i \in 1 .. n - 1 : t[i] = s[(Plus1(f) + i - 1) % SIZE]
  <2>1. /\ t \in Seq(S)
        /\ Len(t) = Minus(b, Plus1(f))
        /\ \A i \in 1 .. Minus(b, Plus1(f)) : t[i] = s[(Plus1(f) + i - 1) % SIZE]
    BY <1>2, ValuesType
  <2> HIDE DEF t, n
  <2> QED  BY <2>1, <1>2
<1>4. /\ q \in Seq(S) /\ Len(q) = n
      /\ \A i \in 1 .. n : q[i] = s[(f + i - 1) % SIZE]
  BY ValuesType
<1> HIDE DEF t, q, n
<1>5. q # <<>>
  BY <1>1, <1>4, EmptySeq
<1>6. Head(q) = s[Index(f)]
  <2>1. f + 1 - 1 = f /\ 1 \in 1 .. n
    BY <1>1
  <2>2. q[1] = s[Index(f)]
    BY <2>1, <1>4 DEF Index
  <2> QED  BY <2>2, <1>4, <1>5
<1>7. /\ Tail(q) \in Seq(S) /\ Len(Tail(q)) = n - 1
      /\ \A i \in 1 .. n - 1 : Tail(q)[i] = q[i + 1]
  BY <1>4, <1>5, HeadTailProperties
<1>8. ASSUME NEW i \in 1 .. n - 1 PROVE Tail(q)[i] = t[i]
  <2>1. i + 1 \in 1 .. n /\ f + (i + 1) - 1 = f + i
    BY <1>1
  <2>2. (Plus1(f) + i - 1) % SIZE = (f + i) % SIZE
    <3>1. CASE f + 1 # WIDTH
      <4>1. Plus1(f) + i - 1 = f + i
        BY <3>1, <1>1 DEF Plus1
      <4> QED  BY <4>1
    <3>2. CASE f + 1 = WIDTH
      <4>1. Plus1(f) + i - 1 = i - 1 /\ i - 1 \in Nat /\ (i - 1) + WIDTH = f + i
        BY <3>2, <1>1 DEF Plus1
      <4>2. ((i - 1) + WIDTH) % SIZE = (i - 1) % SIZE
        BY <4>1, SlotWraps
      <4> QED  BY <4>1, <4>2
    <3> QED  BY <3>1, <3>2
  <2>3. Tail(q)[i] = s[(f + i) % SIZE]
    BY <2>1, <1>4, <1>7
  <2> QED  BY <2>2, <2>3, <1>3
<1>9. Tail(q) = t
  BY <1>3, <1>7, <1>8, SeqEqual
<1> QED  BY <1>5, <1>6, <1>9 DEF t, q

(* Writing the slot of back before it is published changes no value.        *)
LEMMA ValuesWrite ==
  ASSUME NEW s, NEW f \in Cursor, NEW b \in Cursor, NEW v, Minus(b, f) < SIZE
  PROVE  Values([s EXCEPT ![Index(b)] = v], f, b) = Values(s, f, b)
<1>1. \A i \in 1 .. Minus(b, f) : (f + i - 1) % SIZE # Index(b)
  BY BackIsFree
<1>2. ASSUME NEW i \in 1 .. Minus(b, f)
      PROVE [s EXCEPT ![Index(b)] = v][(f + i - 1) % SIZE] = s[(f + i - 1) % SIZE]
  BY <1>1
<1> QED  BY <1>2 DEF Values

(* The mapped queue starts empty.                                           *)
LEMMA FifoInit == Init => Fifo!Init
<1> SUFFICES ASSUME Init PROVE Fifo!Init
  OBVIOUS
<1> DEFINE S == {NULL}
<1>1. back \in Cursor /\ front \in Cursor /\ Minus(back, front) = 0
  BY MinusType, QueueAssumption DEF Init, Cursor
<1>2. slot \in [0 .. SIZE - 1 -> S]
  BY DEF Init
<1> HIDE DEF S
<1>3. Values(slot, front, back) \in Seq(S) /\ Len(Values(slot, front, back)) = 0
  BY <1>1, <1>2, ValuesType
<1>4. Values(slot, front, back) = <<>>
  BY <1>3, EmptySeq
<1> QED  BY <1>4 DEF Init, Fifo!Init, Values

(* Publishing a push is the abstract push, publishing a pop the abstract    *)
(* pop, reading a slot for a get the abstract get; every other step, the    *)
(* write of a slot included, changes nothing a user of the queue can see.   *)
LEMMA FifoNext == IInv /\ [Next]_vars => [Fifo!Next]_(Fifo!vars)
<1> SUFFICES ASSUME IInv, [Next]_vars PROVE [Fifo!Next]_(Fifo!vars)
  OBVIOUS
<1> DEFINE q == Values(slot, front, back)
           V == Value \cup {NULL}
<1>c. back \in Cursor /\ front \in Cursor
  BY DEF IInv, TypeOK
<1>s. slot \in [0 .. SIZE - 1 -> V]
  BY DEF IInv, TypeOK
<1>v. Value \subseteq V
  OBVIOUS
<1> HIDE DEF V
<1>1. CASE PushWrite
  <2>1. /\ slot' = [slot EXCEPT ![Index(back)] = prod.v]
        /\ UNCHANGED <<front, back, cons>> /\ prod.pc = "write"
    BY <1>1 DEF PushWrite, consVars
  <2>2. Minus(back, front) < SIZE
    BY <2>1, PastTheTest
  <2>3. Values([slot EXCEPT ![Index(back)] = prod.v], front, back) = q
    BY <2>2, <1>c, ValuesWrite, Zenon
  <2>4. q' = q
    BY <2>1, <2>3 DEF Values
  <2> QED  BY <2>1, <2>4 DEF Values, Fifo!vars
<1>2. CASE PushPublish
  <2>1. /\ back' = Plus1(back) /\ prod.pc = "publish"
        /\ UNCHANGED <<slot, front, cons>>
    BY <1>2 DEF PushPublish, consVars
  <2>2. /\ Minus(back, front) < SIZE
        /\ slot[Index(back)] = prod.v /\ prod.v \in Value
    BY <2>1, PastTheTest DEF IInv, ProdInv
  <2>p. Values(slot, front, Plus1(back)) = Append(q, slot[Index(back)])
    <3>1. slot[Index(back)] \in V
      BY <2>2, <1>v
    <3>2. Minus(back, front) < SIZE
      BY <2>2
    <3> QED  BY <3>1, <3>2, <1>c, <1>s, ValuesPush, Zenon
  <2>3. q' = Append(q, slot[Index(back)])
    BY <2>1, <2>p DEF Values
  <2>4. Len(q) = Minus(back, front)
    BY <1>c, <1>s, ValuesType
  <2>5. /\ Len(q) < SIZE /\ q' = Append(q, prod.v)
        /\ cons'.last = cons.last /\ cons'.got = cons.got
    BY <2>1, <2>2, <2>3, <2>4
  <2>6. \E v \in Value : Fifo!Push(v)
    BY <2>2, <2>5 DEF Fifo!Push, Values
  <2> QED  BY <2>6, Zenon DEF Fifo!Next
<1>3. CASE PopPublish
  <2>1. /\ front' = Plus1(front) /\ cons.pc = "publish"
        /\ UNCHANGED <<slot, back>> /\ cons'.last = cons.v /\ cons'.got = cons.got
    BY <1>3 DEF PopPublish, prodVars, IInv, TypeOK
  <2>2. back # front /\ cons.v = slot[Index(front)]
    BY <2>1, PastTheTest DEF IInv, ConsInv
  <2>3. /\ q # <<>> /\ Head(q) = slot[Index(front)]
        /\ Tail(q) = Values(slot, Plus1(front), back)
    BY <2>2, <1>c, <1>s, ValuesPop
  <2>4. /\ q # <<>> /\ cons'.last = Head(q) /\ q' = Tail(q) /\ cons'.got = cons.got
    BY <2>1, <2>2, <2>3 DEF Values
  <2>5. Fifo!Pop
    BY <2>4 DEF Fifo!Pop, Values
  <2> QED  BY <2>5 DEF Fifo!Next
<1>4. CASE GetRead /\ cons.i < Known
  <2>1. /\ UNCHANGED <<slot, back, front>> /\ cons'.last = cons.last
        /\ cons'.got = <<cons.i, slot[Index(front + cons.i)]>>
    BY <1>4 DEF GetRead, prodVars, IInv, TypeOK
  <2>2. /\ cachedBack \in Cursor /\ seenBack \in Cursor
        /\ cons.i \in 0 .. SIZE - 1
    BY DEF IInv, TypeOK
  <2>3. /\ Minus(cachedBack, front) \in Nat /\ Minus(seenBack, front) \in Nat
        /\ Minus(back, front) \in Nat
    BY <2>2, <1>c, MinusType
  <2>4. cons.i < Minus(back, front)
    BY <1>4, <2>2, <2>3, QueueAssumption DEF Known, IInv, CursorInv
  <2>5. /\ Len(q) = Minus(back, front)
        /\ \A i \in 1 .. Minus(back, front) : q[i] = slot[(front + i - 1) % SIZE]
    BY <1>c, <1>s, ValuesType
  <2>6. /\ cons.i + 1 \in 1 .. Minus(back, front)
        /\ front + (cons.i + 1) - 1 = front + cons.i
    BY <2>2, <2>3, <2>4, <1>c, QueueAssumption DEF Cursor
  <2>7. q[cons.i + 1] = slot[Index(front + cons.i)]
    BY <2>5, <2>6 DEF Index
  <2>8. cons.i < Len(q) /\ q' = q /\ cons'.got = <<cons.i, q[cons.i + 1]>>
    BY <2>1, <2>4, <2>5, <2>7 DEF Values
  <2>9. Fifo!Get(cons.i)
    BY <2>1, <2>8 DEF Fifo!Get, Values
  <2> QED  BY <2>2, <2>9 DEF Fifo!Next
<1>5. CASE UNCHANGED <<slot, back, front>> /\ cons'.last = cons.last /\ cons'.got = cons.got
  BY <1>5 DEF Fifo!vars
<1>6. ASSUME ~PushWrite, ~PushPublish, ~PopPublish, ~(GetRead /\ cons.i < Known)
      PROVE  UNCHANGED <<slot, back, front>> /\ cons'.last = cons.last /\ cons'.got = cons.got
  BY <1>6 DEF IInv, TypeOK, Next, Producer, Consumer, Push, PushRefresh, AskFull,
     Pop, PopRefresh, PopRead, AskEmpty, Getter, Get, GetRefresh, GetRead,
     prodVars, consVars, vars
<1> QED  BY <1>1, <1>2, <1>3, <1>4, <1>5, <1>6

(* The circular queue, its private cursor copies and its wrapping cursors   *)
(* implement the bounded FIFO: values come out in the order they went in,   *)
(* none lost, none twice, never more than SIZE of them at a time.           *)
THEOREM QueueRefinesFifo == Spec => FifoRefined
<1> QED  BY InitIInv, NextIInv, FifoInit, FifoNext, PTL DEF Spec, Fifo!Spec, FifoRefined
=============================================================================
