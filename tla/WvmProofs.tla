----------------------------- MODULE WvmProofs -----------------------------
(***************************************************************************)
(* For every program, every memory and every place of the stacks: the      *)
(* registers and the memory keep their types, SAFE keeps the stacks apart, *)
(* and the release build agrees with it until a test fails. The invariant  *)
(* Both relates the two machines; every macro keeps it, also in the middle *)
(* of an instruction, so every handler does.                               *)
(*                                                                         *)
(* The second half proves that the SAFE interpreter implements the two     *)
(* stacks of WvmStacks, when the program keeps to its data. Good says      *)
(* where the pointers of a machine are; Took, Effect and Dead say what an  *)
(* instruction has done to the stacks so far. A lemma for each macro says  *)
(* what it does to the stacks (View), and one for each instruction that    *)
(* this is a step of the stack machine (Step).                             *)
(***************************************************************************)
EXTENDS Wvm, SequenceTheorems, TLAPS

(* Sizes of a byte, half word and word.                                     *)
LEMMA Sizes ==
  /\ BYTE \in Nat \ {0} /\ HALF \in Nat \ {0} /\ WORD \in Nat \ {0}
  /\ HALF = BYTE * BYTE /\ WORD = HALF * HALF
  /\ \A x : x \in Word <=> x \in Nat /\ x < WORD
<1>1. BYTE \in Nat \ {0}
  BY BitsAssumption
<1> HIDE DEF BYTE
<1>2. HALF \in Nat \ {0} /\ HALF = BYTE * BYTE
  BY <1>1 DEF HALF
<1> HIDE DEF HALF
<1>3. WORD \in Nat \ {0} /\ WORD = HALF * HALF
  BY <1>2 DEF WORD
<1> HIDE DEF WORD
<1> QED  BY <1>1, <1>2, <1>3 DEF Word

(* Bytes cut out of a number make its value again.                          *)
LEMMA ByteRange == \A v \in Int, j \in 0 .. 3 : ByteAt(v, j) \in 0 .. BYTE - 1
<1> SUFFICES ASSUME NEW v \in Int, NEW j \in 0 .. 3 PROVE ByteAt(v, j) \in 0 .. BYTE - 1
  OBVIOUS
<1>1. HALF * BYTE \in Nat \ {0}
  <2> HIDE DEF HALF, BYTE
  <2> QED  BY Sizes
<1>2. Scale[j + 1] \in Nat \ {0}
  <2> HIDE DEF HALF, BYTE
  <2> QED  BY Sizes, <1>1 DEF Scale
<1> HIDE DEF BYTE, Scale
<1>3. v \div Scale[j + 1] \in Int
  BY <1>2
<1> QED  BY <1>3, Sizes DEF ByteAt

(* Two bytes make a half word, four a word.                                 *)
LEMMA FromBytesRange ==
  ASSUME NEW a \in 0 .. BYTE - 1, NEW b \in 0 .. BYTE - 1,
         NEW c \in 0 .. BYTE - 1, NEW d \in 0 .. BYTE - 1
  PROVE  /\ a + BYTE * b \in 0 .. HALF - 1
         /\ FromBytes(a, b, c, d) \in Word
<1> USE Sizes
<1> HIDE DEF BYTE, HALF, WORD
<1>1. \A n \in Nat \ {0}, x, y \in Nat : x < n /\ y < n => x + n * y \in Nat /\ x + n * y < n * n
  OBVIOUS
<1>2. a + BYTE * b \in Nat /\ a + BYTE * b < HALF
  BY <1>1
<1>3. c + BYTE * d \in Nat /\ c + BYTE * d < HALF
  BY <1>1
<1>4. (a + BYTE * b) + HALF * (c + BYTE * d) \in Nat /\ (a + BYTE * b) + HALF * (c + BYTE * d) < WORD
  BY <1>1, <1>2, <1>3
<1> QED  BY <1>2, <1>4 DEF FromBytes

(* The four bytes of a word make the word again.                            *)
LEMMA BytesOfWord ==
  ASSUME NEW v \in Word
  PROVE  FromBytes(ByteAt(v, 0), ByteAt(v, 1), ByteAt(v, 2), ByteAt(v, 3)) = v
<1> USE Sizes
<1> HIDE DEF BYTE, HALF, WORD
<1> DEFINE q1 == v \div BYTE  q2 == v \div HALF  q3 == v \div (HALF * BYTE)
<1>0. HALF * BYTE \in Nat \ {0}
  OBVIOUS
<1>1. /\ ByteAt(v, 0) = v % BYTE /\ ByteAt(v, 1) = q1 % BYTE
      /\ ByteAt(v, 2) = q2 % BYTE /\ ByteAt(v, 3) = q3 % BYTE
  BY <1>0 DEF ByteAt, Scale
<1>2. \A a \in Nat, b, c \in Nat \ {0} : (a \div b) \div c = a \div (b * c)
  OBVIOUS
<1>3. \A a \in Nat, b \in Nat \ {0} : a = b * (a \div b) + (a % b) /\ a \div b \in Nat /\ a % b \in Nat
  OBVIOUS
<1>4. \A a \in Nat, b, c \in Nat \ {0} : a < b * c => a \div b < c
  OBVIOUS
<1>5. v \in Nat /\ v < WORD
  OBVIOUS
<1>6. q1 \in Nat /\ q2 = q1 \div BYTE /\ q2 \in Nat /\ q3 = q2 \div BYTE /\ q3 \in Nat
  <2>1. q1 \in Nat /\ q2 \in Nat /\ q3 \in Nat
    BY <1>0, <1>3, <1>5
  <2> HIDE Sizes
  <2>0. BYTE \in Nat \ {0} /\ HALF \in Nat \ {0} /\ HALF = BYTE * BYTE
    BY Sizes
  <2>2. q2 = q1 \div BYTE
    <3>1. (v \div BYTE) \div BYTE = v \div (BYTE * BYTE)
      BY <1>2, <1>5, <2>0
    <3> QED  BY <2>0, <3>1
  <2>3. q3 = q2 \div BYTE
    BY <1>2, <1>5, <2>0
  <2> QED  BY <2>1, <2>2, <2>3
<1>7. q3 < BYTE
  <2>1. WORD = (HALF * BYTE) * BYTE
    OBVIOUS
  <2> QED  BY <1>0, <1>4, <1>5, <2>1
<1> HIDE DEF q1, q2, q3
<1>8. q3 % BYTE = q3
  BY <1>6, <1>7
<1>9. v = BYTE * q1 + (v % BYTE) /\ q1 = BYTE * q2 + (q1 % BYTE) /\ q2 = BYTE * q3 + (q2 % BYTE)
  BY <1>3, <1>5, <1>6 DEF q1
<1>10. \A x0, x1, x2, x3, n, m \in Nat :
          n * x1 + x0 + n * (n * (x2 + n * x3)) = x0 + n * x1 + (n * n) * (x2 + n * x3)
  OBVIOUS
<1> DEFINE r0 == v % BYTE  r1 == q1 % BYTE  r2 == q2 % BYTE
<1>11. r0 \in Nat /\ r1 \in Nat /\ r2 \in Nat
  BY <1>3, <1>5, <1>6
<1> HIDE DEF r0, r1, r2
<1>12. v = r0 + BYTE * (r1 + BYTE * (r2 + BYTE * q3))
  <2>1. q2 = r2 + BYTE * q3
    BY <1>6, <1>9, <1>11 DEF r2
  <2>2. q1 = r1 + BYTE * q2
    BY <1>6, <1>9, <1>11 DEF r1
  <2>3. v = r0 + BYTE * q1
    BY <1>6, <1>9, <1>11 DEF r0
  <2> QED  BY <2>1, <2>2, <2>3
<1>13. v = r0 + BYTE * r1 + HALF * (r2 + BYTE * q3)
  <2>1. r2 + BYTE * q3 \in Nat
    BY <1>6, <1>11
  <2>2. \A x, y, z, n \in Nat : x + n * (y + n * z) = x + n * y + (n * n) * z
    OBVIOUS
  <2> QED  BY <1>11, <1>12, <2>1, <2>2
<1> QED  BY <1>1, <1>8, <1>13 DEF FromBytes, r0, r1, r2

(* The two low bytes of a number make it modulo a half word.                *)
LEMMA BytesOfHalf ==
  ASSUME NEW v \in Nat
  PROVE  ByteAt(v, 0) + BYTE * ByteAt(v, 1) = v % HALF
<1> USE Sizes
<1> HIDE DEF BYTE, HALF, WORD
<1> DEFINE q == v \div BYTE
<1>1. ByteAt(v, 0) = v % BYTE /\ ByteAt(v, 1) = q % BYTE
  BY DEF ByteAt, Scale
<1>2. \A a \in Nat, b \in Nat \ {0} : a = b * (a \div b) + (a % b) /\ a \div b \in Nat /\ a % b \in 0 .. b - 1
  OBVIOUS
<1>3. q \in Nat /\ v = BYTE * q + (v % BYTE)
  BY <1>2
<1> HIDE DEF q
<1> DEFINE r0 == v % BYTE  r1 == q % BYTE  k == q \div BYTE
<1>4. q = BYTE * k + r1 /\ k \in Nat /\ r1 \in 0 .. BYTE - 1 /\ r0 \in 0 .. BYTE - 1
  BY <1>2, <1>3
<1> HIDE DEF r0, r1, k
<1>5. v = HALF * k + (r0 + BYTE * r1)
  BY <1>3, <1>4 DEF r0
<1>6. r0 + BYTE * r1 \in 0 .. HALF - 1
  BY <1>4, FromBytesRange
<1>7. \A c, r \in Nat, b \in Nat \ {0} : r < b => (b * c + r) % b = r
  OBVIOUS
<1>8. v % HALF = r0 + BYTE * r1
  <2> DEFINE x == r0 + BYTE * r1
  <2>1. x \in Nat /\ x < HALF /\ v = HALF * k + x
    BY <1>5, <1>6
  <2> HIDE DEF x
  <2>2. v % HALF = x
    BY <1>4, <1>7, <2>1
  <2> QED  BY <2>2 DEF x
<1> QED  BY <1>1, <1>8 DEF r0, r1

-----------------------------------------------------------------------------
(* Memory *)

(* An access begins in the array, its address is cut, and ends in the cells. *)
LEMMA Cells ==
  ASSUME NEW m \in Memory, NEW a \in Nat
  PROVE  /\ a % MEM \in 0 .. MEM - 1
         /\ \A j \in 0 .. 3 : (a % MEM) + j \in DOMAIN m /\ m[(a % MEM) + j] \in 0 .. BYTE - 1
         /\ a < MEM => a % MEM = a
<1>1. a % MEM \in 0 .. MEM - 1 /\ (a < MEM => a % MEM = a)
  BY WvmAssumption
<1>2. \A j \in 0 .. 3 : (a % MEM) + j \in 0 .. MEM + 2
  BY <1>1, WvmAssumption
<1> QED  BY <1>1, <1>2 DEF Memory

(* What is read has the width of the access.                                *)
LEMMA ReadRange ==
  ASSUME NEW m \in Memory, NEW a \in Nat
  PROVE  /\ Rd8(m, a) \in Word /\ Rd16(m, a) \in 0 .. HALF - 1 /\ Rd32(m, a) \in Word
         /\ Rd16(m, a) \in Word
<1> DEFINE x == a % MEM
<1>1. /\ m[x] \in 0 .. BYTE - 1 /\ m[x + 1] \in 0 .. BYTE - 1
      /\ m[x + 2] \in 0 .. BYTE - 1 /\ m[x + 3] \in 0 .. BYTE - 1
  <2>1. m[x + 0] \in 0 .. BYTE - 1 /\ x + 0 = x
    BY Cells
  <2> QED  BY <2>1, Cells
<1>2. Rd16(m, a) \in 0 .. HALF - 1 /\ Rd32(m, a) \in Word
  BY <1>1, FromBytesRange DEF Rd16, Rd32
<1>3. BYTE <= HALF /\ HALF <= WORD
  <2>1. \A n \in Nat \ {0} : n <= n * n
    OBVIOUS
  <2> HIDE DEF BYTE, HALF, WORD
  <2> QED  BY <2>1, Sizes
<1> HIDE DEF BYTE, HALF, WORD, x
<1>4. Rd8(m, a) \in 0 .. BYTE - 1
  BY <1>1 DEF Rd8, x
<1> QED  BY <1>2, <1>3, <1>4, Sizes

(* A write reaches at most three cells behind the one it begins at.         *)
LEMMA Reach ==
  ASSUME NEW m \in Memory, NEW a \in Nat, NEW n \in {1, 2, 4}, NEW v
  PROVE  LET y == a % MEM
         IN  Wr(m, a, n, v) = [x \in 0 .. MEM + 2 |->
               IF x \in y .. y + n - 1 THEN ByteAt(v, x - y) ELSE m[x]]
<1> DEFINE y == a % MEM
<1>1. y \in 0 .. MEM - 1 /\ MEM \in Nat
  BY Cells, WvmAssumption
<1>2. DOMAIN m = 0 .. MEM + 2
  BY DEF Memory
<1> HIDE DEF y, ByteAt
<1>3. y .. y + n - 1 \subseteq 0 .. MEM + 2
  BY <1>1
<1>4. DOMAIN m \cup (y .. y + n - 1) = 0 .. MEM + 2
  BY <1>2, <1>3
<1> QED  BY <1>4 DEF Wr, y

(* A write leaves bytes in every cell.                                      *)
LEMMA WriteRange ==
  ASSUME NEW m \in Memory, NEW a \in Nat, NEW n \in {1, 2, 4}, NEW v \in Int
  PROVE  Wr(m, a, n, v) \in Memory
<1> DEFINE y == a % MEM
<1>1. y \in 0 .. MEM - 1
  BY Cells
<1>2. Wr(m, a, n, v) = [x \in 0 .. MEM + 2 |-> IF x \in y .. y + n - 1 THEN ByteAt(v, x - y) ELSE m[x]]
  BY Reach
<1> HIDE DEF y
<1>3. ASSUME NEW x \in 0 .. MEM + 2
      PROVE  (IF x \in y .. y + n - 1 THEN ByteAt(v, x - y) ELSE m[x]) \in 0 .. BYTE - 1
  <2>1. CASE x \in y .. y + n - 1
    <3>1. x - y \in 0 .. 3
      BY <1>1, <2>1
    <3> QED  BY <2>1, <3>1, ByteRange
  <2>2. CASE x \notin y .. y + n - 1
    BY <2>2 DEF Memory
  <2> QED  BY <2>1, <2>2
<1> HIDE DEF BYTE
<1> QED  BY <1>2, <1>3 DEF Memory

-----------------------------------------------------------------------------
(* Arithmetic *)

(* Arithmetic modulo WORD gives words.                                      *)
LEMMA ModWord == \A v \in Int : v % WORD \in Word
<1> HIDE DEF WORD
<1> QED  BY Sizes

(* A cut to 16 bits gives a half word.                                      *)
LEMMA ModHalf == \A v \in Int : v % HALF \in 0 .. HALF - 1 /\ v % HALF \in Word
<1>1. HALF <= WORD
  BY WvmAssumption, Sizes
<1> HIDE DEF HALF, WORD
<1> QED  BY <1>1, Sizes

(* A truth value is a word.                                                 *)
LEMMA FlagWord == \A c : Flag(c) \in Word
<1>1. 1 < WORD
  BY WvmAssumption, Sizes
<1> HIDE DEF WORD
<1> QED  BY <1>1, Sizes DEF Flag

(* A word has a value with a sign.                                          *)
LEMMA SignedInt == \A v \in Word : Signed(v) \in Int
<1> HIDE DEF WORD
<1> QED  BY Sizes DEF Signed

(* C division of integers by another than 0 gives an integer.               *)
LEMMA QuotInt == \A l, r \in Int : r # 0 => Quot(l, r) \in Int
BY DEF Quot

(* The bitwise operators go byte by byte and give words.                    *)
LEMMA BitwiseWord ==
  ASSUME NEW l \in Word, NEW r \in Word, NEW op \in {"and", "or", "xor"}
  PROVE  Bitwise(op, l, r) \in Word
<1>1. l \in Int /\ r \in Int
  BY Sizes
<1>2. \A j \in 0 .. 3 : ByteAt(l, j) \in 0 .. BYTE - 1 /\ ByteAt(r, j) \in 0 .. BYTE - 1
  BY <1>1, ByteRange
<1>3. \A j \in 0 .. 3 : OnByte(op, ByteAt(l, j), ByteAt(r, j)) \in 0 .. BYTE - 1
  BY <1>2, BitsAssumption
<1> HIDE DEF BYTE
<1>4. /\ OnByte(op, ByteAt(l, 0), ByteAt(r, 0)) \in 0 .. BYTE - 1
      /\ OnByte(op, ByteAt(l, 1), ByteAt(r, 1)) \in 0 .. BYTE - 1
      /\ OnByte(op, ByteAt(l, 2), ByteAt(r, 2)) \in 0 .. BYTE - 1
      /\ OnByte(op, ByteAt(l, 3), ByteAt(r, 3)) \in 0 .. BYTE - 1
  BY <1>3
<1> QED  BY <1>4, FromBytesRange DEF Bitwise

(* Every operator of the jump table gives a word.                           *)
LEMMA AluWord ==
  ASSUME NEW op \in BinOps, NEW l \in Word, NEW r \in Word
  PROVE  Alu(op, l, r) \in Word
<1>1. l \in Nat /\ r \in Nat /\ l < WORD
  BY Sizes
<1>2. CASE op \in {"add", "sub", "mul"}
  <2>1. l + r \in Int /\ l - r \in Int /\ l * r \in Int
    BY <1>1
  <2> QED  BY <1>2, <2>1, ModWord DEF Alu
<1>3. CASE op \in {"and", "or", "xor"}
  BY <1>3, BitwiseWord DEF Alu
<1>4. CASE op \in {"shl", "shr"}
  <2> DEFINE k == r % (4 * BITS)
  <2>1. PICK s : s = 2 ^ k
    OBVIOUS
  <2>2. k \in 0 .. 4 * BITS - 1
    BY <1>1, BitsAssumption
  <2>3. s \in Nat \ {0}
    BY <2>1, <2>2, BitsAssumption
  <2>4. l * s \in Int
    BY <1>1, <2>3
  <2>5. l \div s \in Nat /\ l \div s <= l
    BY <1>1, <2>3
  <2>6. l \div s \in Word
    <3> HIDE DEF WORD
    <3> QED  BY <1>1, <2>5, Sizes
  <2> QED  BY <1>4, <2>1, <2>4, <2>6, ModWord DEF Alu
<1>5. CASE op \in {"eq", "ne", "lt", "gt", "le", "ge"}
  <2>1. 0 \in Word /\ 1 \in Word
    BY FlagWord DEF Flag
  <2>2. Alu(op, l, r) \in {0, 1}
    BY <1>5 DEF Alu, Flag
  <2> QED  BY <2>1, <2>2
<1> QED  BY <1>2, <1>3, <1>4, <1>5 DEF BinOps

-----------------------------------------------------------------------------
(* Every macro leaves a machine of its type, in both builds.                *)
LEMMA PlusWord ==
  ASSUME NEW a \in Nat, NEW n \in Int
  PROVE  Plus(a, n) \in Word /\ Plus(a, n) \in Nat
BY ModWord, Sizes DEF Plus

(* The distances the macros move a pointer by.                              *)
LEMMA PlusSteps ==
  ASSUME NEW a \in Nat
  PROVE  /\ Plus(a, 2) \in Word /\ Plus(a, 4) \in Word /\ Plus(a, 8) \in Word
         /\ Plus(a, -2) \in Word /\ Plus(a, -4) \in Word
         /\ Plus(a, 4) \in Nat /\ Plus(a, 8) \in Nat
         /\ Plus(a, -2) \in Nat /\ Plus(a, -4) \in Nat
<1>1. 2 \in Int /\ 4 \in Int /\ 8 \in Int /\ -2 \in Int /\ -4 \in Int
  OBVIOUS
<1> QED  BY <1>1, PlusWord

(* Words are natural numbers.                                               *)
LEMMA WordNat == \A a \in Word : a \in Nat
BY Sizes

(* The fields of a machine, and the words on top of its stack.              *)
LEMMA MachineFacts ==
  ASSUME NEW s \in Machine
  PROVE  /\ s.mem \in Memory /\ s.sp \in Word /\ s.rp \in Word /\ s.ip \in Word
         /\ s.sp \in Nat /\ s.rp \in Nat /\ s.ip \in Nat /\ s.status \in Status
         /\ Top(s) \in Word /\ Second(s) \in Word /\ Third(s) \in Word
<1>1. /\ s.mem \in Memory /\ s.sp \in Word /\ s.rp \in Word /\ s.ip \in Word /\ s.status \in Status
  BY DEF Machine
<1>2. s.sp \in Nat /\ s.rp \in Nat /\ s.ip \in Nat
  BY <1>1, WordNat
<1>3. Plus(s.sp, 4) \in Nat /\ Plus(s.sp, 8) \in Nat
  BY <1>2, PlusSteps
<1> QED  BY <1>1, <1>2, <1>3, ReadRange DEF Top, Second, Third

(* Every macro leaves a machine, in both builds.                            *)
LEMMA MacrosTyped ==
  ASSUME NEW b \in BOOLEAN, NEW s \in Machine
  PROVE  /\ \A st \in Status : Stop(s, st) \in Machine
         /\ \A v \in Word : Push(b, s, v) \in Machine
         /\ Pop(b, s) \in Machine
         /\ \A a \in Word : PushRet(b, s, a) \in Machine
         /\ PopRet(b, s) \in Machine
         /\ \A a : CheckAddr(b, s, a) \in Machine
         /\ \A a \in Word : Jump(s, a) \in Machine
         /\ \A a \in Word, n \in {1, 2, 4}, v \in Word : Poke(s, a, n, v) \in Machine
<1>0. /\ s.mem \in Memory /\ s.sp \in Word /\ s.rp \in Word /\ s.ip \in Word
      /\ s.sp \in Nat /\ s.rp \in Nat /\ s.ip \in Nat /\ s.status \in Status
  BY MachineFacts
<1>1. \A st \in Status : Stop(s, st) \in Machine
  BY DEF Stop, Machine
<1>2. Stop(s, "stack") \in Machine /\ Stop(s, "addr") \in Machine
  BY <1>1 DEF Status
<1>3. ASSUME NEW v \in Word  PROVE Push(b, s, v) \in Machine
  <2> DEFINE sp == Plus(s.sp, -4)  m == Wr(s.mem, Plus(s.sp, -4), 4, v)
  <2>1. sp \in Word /\ m \in Memory
    <3>1. sp \in Word /\ sp \in Nat /\ v \in Int /\ 4 \in {1, 2, 4}
      BY <1>0, PlusSteps, WordNat
    <3> QED  BY <1>0, <3>1, WriteRange
  <2> HIDE DEF sp, m
  <2>2. [s EXCEPT !.sp = sp, !.mem = m] \in Machine
    BY <2>1 DEF Machine
  <2> QED  BY <1>2, <2>2 DEF Push, sp, m
<1>4. Pop(b, s) \in Machine
  <2> DEFINE sp == Plus(s.sp, 4)
  <2>1. sp \in Word
    BY <1>0, PlusSteps
  <2> HIDE DEF sp
  <2>2. [s EXCEPT !.sp = sp] \in Machine
    BY <2>1 DEF Machine
  <2> QED  BY <1>2, <2>2 DEF Pop, sp
<1>5. ASSUME NEW a \in Word  PROVE PushRet(b, s, a) \in Machine
  <2> DEFINE rp == Plus(s.rp, 2)  m == Wr(s.mem, s.rp, 2, a)
  <2>1. rp \in Word /\ m \in Memory
    <3>1. rp \in Word /\ a \in Int /\ 2 \in {1, 2, 4}
      BY <1>0, PlusSteps, WordNat
    <3> QED  BY <1>0, <3>1, WriteRange
  <2> HIDE DEF rp, m
  <2>2. [s EXCEPT !.rp = rp, !.mem = m] \in Machine
    BY <2>1 DEF Machine
  <2> QED  BY <1>2, <2>2 DEF PushRet, rp, m
<1>6. PopRet(b, s) \in Machine
  <2> DEFINE rp == Plus(s.rp, -2)  a == Rd16(s.mem, Plus(s.rp, -2))
  <2>1. rp \in Word /\ a \in Word
    <3>1. rp \in Word /\ rp \in Nat
      BY <1>0, PlusSteps
    <3> QED  BY <1>0, <3>1, ReadRange
  <2> HIDE DEF rp, a
  <2>2. [s EXCEPT !.rp = rp, !.ip = a] \in Machine
    BY <2>1 DEF Machine
  <2> QED  BY <1>2, <2>2 DEF PopRet, rp, a
<1>7. \A a : CheckAddr(b, s, a) \in Machine
  BY <1>2 DEF CheckAddr
<1>8. \A a \in Word : Jump(s, a) \in Machine
  BY DEF Jump, Machine
<1>9. ASSUME NEW a \in Word, NEW n \in {1, 2, 4}, NEW v \in Word  PROVE Poke(s, a, n, v) \in Machine
  <2> DEFINE m == Wr(s.mem, a, n, v)
  <2>1. m \in Memory
    <3>1. a \in Nat /\ v \in Int
      BY WordNat
    <3> QED  BY <1>0, <3>1, WriteRange
  <2> HIDE DEF m
  <2>2. [s EXCEPT !.mem = m] \in Machine
    BY <2>1 DEF Machine
  <2> QED  BY <2>2 DEF Poke, m
<1> QED  BY <1>1, <1>3, <1>4, <1>5, <1>6, <1>7, <1>8, <1>9

(* So does every handler.                                                   *)
LEMMA HandlersTyped ==
  ASSUME NEW b \in BOOLEAN, NEW s \in Machine
  PROVE  /\ Swap(b, s) \in Machine /\ Over(b, s) \in Machine /\ Rot(b, s) \in Machine
         /\ \A op \in BinOps : Bin(b, s, op) \in Machine
         /\ \A op : Divide(b, s, op) \in Machine
         /\ \A n \in {1, 2, 4} : Load(b, s, n) \in Machine /\ Store(b, s, n) \in Machine
         /\ \A a \in Word : \A c : Branch(b, s, a, c) \in Machine
         /\ \A a \in Word : Call(b, s, a) \in Machine
         /\ Jmpx(b, s) \in Machine /\ Callx(b, s) \in Machine
         /\ \A k \in Int : Subk(s, k) \in Machine /\ Duple(b, s, k) \in Machine
<1> DEFINE t1 == Top(s)  t2 == Second(s)  t3 == Third(s)
<1>0. /\ s.mem \in Memory /\ s.sp \in Word /\ s.ip \in Word
      /\ t1 \in Word /\ t2 \in Word /\ t3 \in Word
  BY MachineFacts
<1> DEFINE p1 == Pop(b, s)  p2 == Pop(b, p1)  p3 == Pop(b, p2)
<1>1. p1 \in Machine
  BY MacrosTyped
<1>2. p2 \in Machine
  BY <1>1, MacrosTyped
<1>3. p3 \in Machine
  BY <1>2, MacrosTyped
<1>4. \A t \in Machine, v \in Word : Push(b, t, v) \in Machine
  BY MacrosTyped
<1>5. \A t \in Machine : \A a : CheckAddr(b, t, a) \in Machine
  BY MacrosTyped
<1>6. \A t \in Machine, a \in Word : Jump(t, a) \in Machine /\ PushRet(b, t, a) \in Machine
  BY MacrosTyped
<1>7. \A t \in Machine, a \in Word, n \in {1, 2, 4}, v \in Word : Poke(t, a, n, v) \in Machine
  BY MacrosTyped
<1>8. \A t \in Machine : Stop(t, "div") \in Machine /\ Stop(t, "trap") \in Machine
  BY MacrosTyped DEF Status
<1> HIDE DEF p1, p2, p3, t1, t2, t3
<1>9. Swap(b, s) \in Machine
  BY <1>0, <1>2, <1>4 DEF Swap, p1, p2, t1, t2
<1>10. Over(b, s) \in Machine
  BY <1>0, <1>2, <1>4 DEF Over, p1, p2, t1, t2
<1>11. Rot(b, s) \in Machine
  BY <1>0, <1>3, <1>4 DEF Rot, p1, p2, p3, t1, t2, t3
<1>12. ASSUME NEW op \in BinOps  PROVE Bin(b, s, op) \in Machine
  <2>1. Alu(op, t2, t1) \in Word
    BY <1>0, AluWord
  <2> QED  BY <1>2, <1>4, <2>1 DEF Bin, p1, p2, t1, t2
<1>13. ASSUME NEW op  PROVE Divide(b, s, op) \in Machine
  <2> DEFINE l == Signed(t2)  r == Signed(t1)  v == (IF op = "div" THEN Quot(l, r) ELSE l - r * Quot(l, r)) % WORD
  <2>1. l \in Int /\ r \in Int
    BY <1>0, SignedInt
  <2> HIDE DEF l, r
  <2>2. r # 0 => v \in Word
    <3>1. ASSUME r # 0  PROVE v \in Word
      <4>1. PICK q \in Int : q = Quot(l, r)
        BY <2>1, <3>1, QuotInt
      <4>2. (IF op = "div" THEN q ELSE l - r * q) \in Int
        BY <2>1
      <4> QED  BY <4>1, <4>2, ModWord
    <3> QED  BY <3>1
  <2> HIDE DEF v
  <2>3. r # 0 => Push(b, p2, v) \in Machine
    BY <1>2, <1>4, <2>2
  <2> QED  BY <1>2, <1>8, <2>3 DEF Divide, p1, p2, l, r, v, t1, t2
<1>14. ASSUME NEW n \in {1, 2, 4}  PROVE Load(b, s, n) \in Machine /\ Store(b, s, n) \in Machine
  <2>1. Rd8(s.mem, t1) \in Word /\ Rd16(s.mem, t1) \in Word /\ Rd32(s.mem, t1) \in Word
    BY <1>0, ReadRange, WordNat
  <2>2. CheckAddr(b, p1, t1) \in Machine /\ CheckAddr(b, p2, t1) \in Machine
    BY <1>1, <1>2, <1>5
  <2>3. Load(b, s, n) \in Machine
    BY <1>4, <2>1, <2>2 DEF Load, p1, t1
  <2>4. Store(b, s, n) \in Machine
    BY <1>0, <1>7, <2>2 DEF Store, p1, p2, t1, t2
  <2> QED  BY <2>3, <2>4
<1>15. \A a \in Word : \A c : Branch(b, s, a, c) \in Machine
  BY <1>1, <1>6 DEF Branch, p1
<1>16. \A a \in Word : Call(b, s, a) \in Machine
  BY <1>0, <1>6 DEF Call
<1>17. t1 % HALF \in Word
  BY <1>0, ModHalf, WordNat
<1>18. Jmpx(b, s) \in Machine
  BY <1>1, <1>5, <1>6, <1>17 DEF Jmpx, p1, t1
<1>19. Callx(b, s) \in Machine
  BY <1>0, <1>1, <1>5, <1>6, <1>17 DEF Callx, p1, t1
<1>20. ASSUME NEW k \in Int  PROVE Subk(s, k) \in Machine /\ Duple(b, s, k) \in Machine
  <2>1. (t1 - k) % WORD \in Word /\ Flag(Signed(t1) <= k) \in Word
    BY <1>0, ModWord, WordNat, FlagWord
  <2>2. Poke(s, s.sp, 4, (t1 - k) % WORD) \in Machine
    BY <1>0, <1>7, <2>1
  <2>3. Push(b, s, Flag(Signed(t1) <= k)) \in Machine
    BY <1>4, <2>1
  <2> QED  BY <2>2, <2>3 DEF Subk, Duple, t1
<1> QED  BY <1>9, <1>10, <1>11, <1>12, <1>13, <1>14, <1>15, <1>16, <1>18, <1>19, <1>20

(* And every instruction.                                                   *)
LEMMA ExecTyped ==
  ASSUME NEW b \in BOOLEAN, NEW m \in Machine, NEW i, i.arg \in Int,
         i.op \in {"jmp", "jz", "jnz", "call"} => i.arg \in 0 .. HALF - 1
  PROVE  Exec(b, m, i) \in Machine
<1> DEFINE s == [m EXCEPT !.ip = Plus(m.ip, Size(i.op))]
<1>1. s \in Machine
  <2>1. Size(i.op) \in Int
    BY DEF Size
  <2>2. Plus(m.ip, Size(i.op)) \in Word
    BY <2>1, MachineFacts, PlusWord
  <2> QED  BY <2>2 DEF Machine
<1> HIDE DEF s
<1>2. i.op \in {"jmp", "jz", "jnz", "call"} => i.arg \in Word
  <2>1. \A x \in 0 .. HALF - 1 : x % HALF = x
    <3> HIDE DEF HALF
    <3> QED  BY Sizes
  <2> HIDE DEF HALF
  <2> QED  BY <2>1, ModHalf
<1>3. i.arg % WORD \in Word /\ Top(s) \in Word
  BY <1>1, ModWord, MachineFacts
<1>4. /\ Stop(s, "ok") \in Machine /\ Stop(s, "opcode") \in Machine
      /\ Push(b, s, i.arg % WORD) \in Machine /\ Push(b, s, Top(s)) \in Machine
      /\ Pop(b, s) \in Machine /\ PopRet(b, s) \in Machine
      /\ i.arg \in Word => Jump(s, i.arg) \in Machine
  BY <1>1, <1>3, MacrosTyped DEF Status
<1>5. /\ Swap(b, s) \in Machine /\ Over(b, s) \in Machine /\ Rot(b, s) \in Machine
      /\ i.op \in BinOps => Bin(b, s, i.op) \in Machine
      /\ Divide(b, s, i.op) \in Machine
      /\ Jmpx(b, s) \in Machine /\ Callx(b, s) \in Machine
      /\ Subk(s, 1) \in Machine /\ Subk(s, i.arg) \in Machine /\ Duple(b, s, i.arg) \in Machine
  BY <1>1, HandlersTyped
<1>6. \A n \in {1, 2, 4} : Load(b, s, n) \in Machine /\ Store(b, s, n) \in Machine
  BY <1>1, HandlersTyped
<1>7. i.arg \in Word => /\ \A c : Branch(b, s, i.arg, c) \in Machine
                        /\ Call(b, s, i.arg) \in Machine
  BY <1>1, HandlersTyped
<1>8. CASE i.op \in {"jmp", "jz", "jnz", "call"}
  BY <1>2, <1>4, <1>7, <1>8 DEF Exec, s, BinOps
<1>9. CASE i.op \in BinOps
  BY <1>5, <1>9 DEF Exec, s, BinOps
<1>10. CASE i.op \in {"halt", "nop", "lit8", "lit16", "lit32", "dup", "drop", "ret"}
  BY <1>1, <1>4, <1>10 DEF Exec, s, BinOps
<1>11. CASE i.op \in {"swap", "over", "rot", "div", "mod", "jmpx", "callx", "dec", "subk", "duple"}
  BY <1>5, <1>11 DEF Exec, s, BinOps
<1>12. CASE i.op \in {"load", "load8", "load16", "store", "store8", "store16"}
  BY <1>6, <1>12 DEF Exec, s, BinOps
<1>13. CASE /\ i.op \notin {"jmp", "jz", "jnz", "call"} \cup BinOps
            /\ i.op \notin {"halt", "nop", "lit8", "lit16", "lit32", "dup", "drop", "ret"}
            /\ i.op \notin {"swap", "over", "rot", "div", "mod", "jmpx", "callx", "dec", "subk", "duple"}
            /\ i.op \notin {"load", "load8", "load16", "store", "store8", "store16"}
  BY <1>4, <1>13 DEF Exec, s, BinOps
<1> QED  BY <1>8, <1>9, <1>10, <1>11, <1>12, <1>13

(* The loaded machines have their type.                                     *)
LEMMA TypeInit == Init => TypeOK
<1> SUFFICES Loaded \in Machine
  BY DEF Init, TypeOK
<1>1. SP0 \in Word /\ RP0 \in Word /\ 0 \in Word /\ Image \in Memory
  <2> HIDE DEF HALF, WORD
  <2> QED  BY WvmAssumption, Sizes
<1> QED  BY <1>1 DEF Loaded, Machine, Status

(* Every step of both builds keeps the type of the machines.                *)
LEMMA TypeNext == TypeOK /\ [Next]_vars => TypeOK'
<1> SUFFICES ASSUME TypeOK, [Next]_vars PROVE TypeOK'
  OBVIOUS
<1>0. safe \in Machine /\ rel \in Machine
  BY DEF TypeOK
<1>1. ASSUME Step  PROVE TypeOK'
  <2>1. safe.ip % MEM \in Addr
    BY <1>0, MachineFacts, WvmAssumption DEF Addr
  <2>2. PICK i \in Code[safe.ip % MEM] : safe' = Exec(TRUE, safe, i) /\ rel' = Exec(FALSE, rel, i)
    BY <1>1 DEF Step
  <2>3. i.arg \in Int /\ (i.op \in {"jmp", "jz", "jnz", "call"} => i.arg \in 0 .. HALF - 1)
    BY <2>1, <2>2, WvmAssumption
  <2> QED  BY <1>0, <2>2, <2>3, ExecTyped DEF TypeOK
<1>2. \A t \in Machine, e \in Entry : Reenter(t, e) \in Machine
  <2> SUFFICES ASSUME NEW t \in Machine, NEW e \in Entry PROVE Reenter(t, e) \in Machine
    OBVIOUS
  <2>1. e \in Word
    <3> HIDE DEF HALF, WORD
    <3> QED  BY WvmAssumption, Sizes DEF Addr
  <2>2. t.sp % HALF \in Word /\ t.rp % HALF \in Word
    BY MachineFacts, ModHalf
  <2> QED  BY <2>1, <2>2 DEF Reenter, Machine, Status
<1>3. ASSUME NEW e \in Entry, Run(e)  PROVE TypeOK'
  BY <1>0, <1>2, <1>3 DEF Run, TypeOK
<1>4. ASSUME NEW e \in Entry, NEW v \in Args, RunWith(e, v)  PROVE TypeOK'
  <2>1. SP0 - 4 \in Word /\ SP0 - 4 \in Nat /\ RP0 \in Word /\ v \in Word /\ v \in Int
    <3> HIDE DEF HALF, WORD
    <3> QED  BY WvmAssumption, Sizes
  <2>2. \A t \in Machine : [t EXCEPT !.sp = SP0 - 4, !.rp = RP0, !.mem = Wr(@, SP0 - 4, 4, v)] \in Machine
    <3> SUFFICES ASSUME NEW t \in Machine
                 PROVE  [t EXCEPT !.sp = SP0 - 4, !.rp = RP0, !.mem = Wr(@, SP0 - 4, 4, v)] \in Machine
      OBVIOUS
    <3>1. Wr(t.mem, SP0 - 4, 4, v) \in Memory
      BY <2>1, WriteRange, MachineFacts
    <3> QED  BY <2>1, <3>1 DEF Machine
  <2> DEFINE W(t) == [t EXCEPT !.sp = SP0 - 4, !.rp = RP0, !.mem = Wr(@, SP0 - 4, 4, v)]
  <2>3. safe' = Reenter(W(safe), e) /\ rel' = Reenter(W(rel), e)
    BY <1>4 DEF RunWith
  <2>4. W(safe) \in Machine /\ W(rel) \in Machine
    BY <1>0, <2>2
  <2> HIDE DEF W
  <2> QED  BY <1>2, <2>3, <2>4 DEF TypeOK
<1>5. CASE UNCHANGED vars
  BY <1>0, <1>5 DEF vars, TypeOK
<1> QED  BY <1>1, <1>3, <1>4, <1>5 DEF Next

(* Every field of both machines stays in its type: bytes in memory, words in *)
(* the registers, a status the interpreter has. No access ends more than    *)
(* three bytes past the array.                                              *)
THEOREM WvmTypeCorrect == Spec => []TypeOK
BY TypeInit, TypeNext, PTL DEF Spec

-----------------------------------------------------------------------------
Fields == {"mem", "sp", "rp", "ip", "status"}

Apart(t) == /\ t.sp \in Nat /\ t.rp \in Nat
            /\ RP0 <= t.rp /\ t.rp <= t.sp /\ t.sp <= SP0

Agree(t, u) == t.status \notin {"stack", "addr"} => u = t

(* t is a SAFE machine and u the release machine that did the same. *)
Both(t, u) == DOMAIN t = Fields /\ Apart(t) /\ Agree(t, u)

BothInv == Both(safe, rel)

(* Within the region of the stacks the pointers do not wrap. *)
LEMMA NoWrap ==
  \A x \in Nat : x <= SP0 + 4 => x % WORD = x /\ (x <= SP0 => x % HALF = x)
<1> SUFFICES ASSUME NEW x \in Nat, x <= SP0 + 4
             PROVE  x % WORD = x /\ (x <= SP0 => x % HALF = x)
    OBVIOUS
<1>1. x < WORD /\ (x <= SP0 => x < HALF)
  <2> HIDE DEF WORD, HALF
  <2> QED  BY WvmAssumption, Sizes
<1>2. WORD \in Nat \ {0} /\ HALF \in Nat \ {0}  BY Sizes
<1> HIDE DEF WORD, HALF
<1> QED BY <1>1, <1>2

(* PUSH tests before it moves the pointer, so it keeps the relation.        *)
LEMMA PushKeeps ==
  ASSUME NEW t, NEW u, NEW v, Both(t, u)
  PROVE  Both(Push(TRUE, t, v), Push(FALSE, u, v))
<1>1. CASE ~Running(t)
  BY <1>1 DEF Both, Agree, Apart, Push, Running
<1>2. CASE Running(t) /\ Plus(t.sp, -4) < t.rp
  BY <1>2 DEF Both, Agree, Apart, Push, Running, Stop, Fields
<1>3. CASE Running(t) /\ ~(Plus(t.sp, -4) < t.rp)
  <2>1. u = t  BY <1>3 DEF Both, Agree, Running
  <2> DEFINE w == [t EXCEPT !.sp = Plus(t.sp, -4), !.mem = Wr(t.mem, Plus(t.sp, -4), 4, v)]
  <2>2. Push(TRUE, t, v) = w /\ Push(FALSE, u, v) = w  BY <1>3, <2>1 DEF Push, Running
  <2>3. DOMAIN w = Fields /\ w.sp = Plus(t.sp, -4) /\ w.rp = t.rp /\ w.status = t.status
    BY DEF Both, Fields
  <2>4. Plus(t.sp, -4) = t.sp - 4
    <3>1. t.sp - 4 \in Nat /\ t.sp - 4 <= SP0  BY WvmAssumption DEF Both, Apart
    <3> QED BY <3>1, NoWrap, WvmAssumption DEF Plus, Both, Apart
  <2>5. Apart(w)  BY <1>3, <2>3, <2>4, WvmAssumption DEF Apart, Both
  <2> QED BY <2>2, <2>3, <2>5 DEF Both, Agree
<1> QED BY <1>1, <1>2, <1>3

(* POP keeps it.                                                            *)
LEMMA PopKeeps ==
  ASSUME NEW t, NEW u, Both(t, u)
  PROVE  Both(Pop(TRUE, t), Pop(FALSE, u))
<1>1. CASE ~Running(t)
  BY <1>1 DEF Both, Agree, Apart, Pop, Running
<1>2. CASE Running(t) /\ Plus(t.sp, 4) > SP0
  BY <1>2 DEF Both, Agree, Apart, Pop, Running, Stop, Fields
<1>3. CASE Running(t) /\ ~(Plus(t.sp, 4) > SP0)
  <2>1. u = t  BY <1>3 DEF Both, Agree, Running
  <2> DEFINE w == [t EXCEPT !.sp = Plus(t.sp, 4)]
  <2>2. Pop(TRUE, t) = w /\ Pop(FALSE, u) = w  BY <1>3, <2>1 DEF Pop, Running
  <2>3. DOMAIN w = Fields /\ w.sp = Plus(t.sp, 4) /\ w.rp = t.rp /\ w.status = t.status
    BY DEF Both, Fields
  <2>4. Plus(t.sp, 4) = t.sp + 4
    <3>1. t.sp + 4 \in Nat /\ t.sp + 4 <= SP0 + 4  BY WvmAssumption DEF Both, Apart
    <3> QED BY <3>1, NoWrap, WvmAssumption DEF Plus, Both, Apart
  <2>5. Apart(w)  BY <1>3, <2>3, <2>4, WvmAssumption DEF Apart, Both
  <2> QED BY <2>2, <2>3, <2>5 DEF Both, Agree
<1> QED BY <1>1, <1>2, <1>3

(* PUSHRET keeps it.                                                        *)
LEMMA PushRetKeeps ==
  ASSUME NEW t, NEW u, NEW a, Both(t, u)
  PROVE  Both(PushRet(TRUE, t, a), PushRet(FALSE, u, a))
<1>1. CASE ~Running(t)
  BY <1>1 DEF Both, Agree, Apart, PushRet, Running
<1>2. CASE Running(t) /\ Plus(t.rp, 2) > t.sp
  BY <1>2 DEF Both, Agree, Apart, PushRet, Running, Stop, Fields
<1>3. CASE Running(t) /\ ~(Plus(t.rp, 2) > t.sp)
  <2>1. u = t  BY <1>3 DEF Both, Agree, Running
  <2> DEFINE w == [t EXCEPT !.rp = Plus(t.rp, 2), !.mem = Wr(t.mem, t.rp, 2, a)]
  <2>2. PushRet(TRUE, t, a) = w /\ PushRet(FALSE, u, a) = w  BY <1>3, <2>1 DEF PushRet, Running
  <2>3. DOMAIN w = Fields /\ w.rp = Plus(t.rp, 2) /\ w.sp = t.sp /\ w.status = t.status
    BY DEF Both, Fields
  <2>4. Plus(t.rp, 2) = t.rp + 2
    <3>1. t.rp + 2 \in Nat /\ t.rp + 2 <= SP0 + 4  BY WvmAssumption DEF Both, Apart
    <3> QED BY <3>1, NoWrap, WvmAssumption DEF Plus, Both, Apart
  <2>5. Apart(w)  BY <1>3, <2>3, <2>4, WvmAssumption DEF Apart, Both
  <2> QED BY <2>2, <2>3, <2>5 DEF Both, Agree
<1> QED BY <1>1, <1>2, <1>3

(* POPRET keeps it.                                                         *)
LEMMA PopRetKeeps ==
  ASSUME NEW t, NEW u, Both(t, u)
  PROVE  Both(PopRet(TRUE, t), PopRet(FALSE, u))
<1>1. CASE ~Running(t)
  BY <1>1 DEF Both, Agree, Apart, PopRet, Running
<1>2. CASE Running(t) /\ Plus(t.rp, -2) < RP0
  BY <1>2 DEF Both, Agree, Apart, PopRet, Running, Stop, Fields
<1>3. CASE Running(t) /\ ~(Plus(t.rp, -2) < RP0)
  <2>1. u = t  BY <1>3 DEF Both, Agree, Running
  <2> DEFINE w == [t EXCEPT !.rp = Plus(t.rp, -2), !.ip = Rd16(t.mem, Plus(t.rp, -2))]
  <2>2. PopRet(TRUE, t) = w /\ PopRet(FALSE, u) = w  BY <1>3, <2>1 DEF PopRet, Running
  <2>3. DOMAIN w = Fields /\ w.rp = Plus(t.rp, -2) /\ w.sp = t.sp /\ w.status = t.status
    BY DEF Both, Fields
  <2>4. Plus(t.rp, -2) = t.rp - 2
    <3>1. t.rp - 2 \in Nat /\ t.rp - 2 <= SP0  BY WvmAssumption DEF Both, Apart
    <3> QED BY <3>1, NoWrap, WvmAssumption DEF Plus, Both, Apart
  <2>5. Apart(w)  BY <1>3, <2>3, <2>4, WvmAssumption DEF Apart, Both
  <2> QED BY <2>2, <2>3, <2>5 DEF Both, Agree
<1> QED BY <1>1, <1>2, <1>3

(* What does not touch the pointers and does the same in both builds. *)
LEMMA OthersKeep ==
  ASSUME NEW t, NEW u, NEW a, NEW n, NEW v, Both(t, u)
  PROVE  /\ Both(CheckAddr(TRUE, t, a), CheckAddr(FALSE, u, a))
         /\ Both(Jump(t, a), Jump(u, a))
         /\ Both(Poke(t, a, n, v), Poke(u, a, n, v))
<1>1. Both(CheckAddr(TRUE, t, a), CheckAddr(FALSE, u, a))
  BY DEF Both, Agree, Apart, CheckAddr, Running, Stop, Fields
<1>2. Both(Jump(t, a), Jump(u, a))
  BY DEF Both, Agree, Apart, Jump, Running, Fields
<1>3. Both(Poke(t, a, n, v), Poke(u, a, n, v))
  BY DEF Both, Agree, Apart, Poke, Running, Fields
<1> QED BY <1>1, <1>2, <1>3

(* A stop that both builds make keeps it.                                   *)
LEMMA StopKeeps ==
  ASSUME NEW t, NEW u, NEW st, Both(t, u), t.status \notin {"stack", "addr"}
  PROVE  Both(Stop(t, st), Stop(u, st))
BY DEF Both, Agree, Apart, Stop, Fields

(* The handlers made of several macros. *)
LEMMA HandlersKeep ==
  ASSUME NEW s, NEW op, NEW k, NEW n, Both(s, s)
  PROVE  /\ Both(Swap(TRUE, s), Swap(FALSE, s))
         /\ Both(Over(TRUE, s), Over(FALSE, s))
         /\ Both(Rot(TRUE, s), Rot(FALSE, s))
         /\ Both(Bin(TRUE, s, op), Bin(FALSE, s, op))
         /\ Both(Divide(TRUE, s, op), Divide(FALSE, s, op))
         /\ Both(Load(TRUE, s, n), Load(FALSE, s, n))
         /\ Both(Store(TRUE, s, n), Store(FALSE, s, n))
         /\ Both(Branch(TRUE, s, k, op), Branch(FALSE, s, k, op))
         /\ Both(Call(TRUE, s, k), Call(FALSE, s, k))
         /\ Both(Jmpx(TRUE, s), Jmpx(FALSE, s))
         /\ Both(Callx(TRUE, s), Callx(FALSE, s))
<1>1. Both(Pop(TRUE, s), Pop(FALSE, s))  BY PopKeeps
<1>2. Both(Pop(TRUE, Pop(TRUE, s)), Pop(FALSE, Pop(FALSE, s)))  BY <1>1, PopKeeps
<1>3. Both(Pop(TRUE, Pop(TRUE, Pop(TRUE, s))), Pop(FALSE, Pop(FALSE, Pop(FALSE, s))))
  BY <1>2, PopKeeps
<1>4. \A t, u, v : Both(t, u) => Both(Push(TRUE, t, v), Push(FALSE, u, v))  BY PushKeeps
<1>a. Both(Swap(TRUE, s), Swap(FALSE, s))  BY <1>2, <1>4 DEF Swap
<1>b. Both(Over(TRUE, s), Over(FALSE, s))  BY <1>2, <1>4 DEF Over
<1>c. Both(Rot(TRUE, s), Rot(FALSE, s))    BY <1>3, <1>4 DEF Rot
<1>d. Both(Bin(TRUE, s, op), Bin(FALSE, s, op))  BY <1>2, <1>4 DEF Bin
<1>e. Both(Divide(TRUE, s, op), Divide(FALSE, s, op))
  <2> DEFINE t == Pop(TRUE, Pop(TRUE, s))
             u == Pop(FALSE, Pop(FALSE, s))
             w == (IF op = "div" THEN Quot(Signed(Second(s)), Signed(Top(s)))
                   ELSE Signed(Second(s)) - Signed(Top(s)) * Quot(Signed(Second(s)), Signed(Top(s)))) % WORD
  <2>1. Both(t, u)  BY <1>2
  <2> HIDE DEF t, u, w
  <2>2. CASE t.status \in {"stack", "addr"}
    <3>1. ~Running(t)  BY <2>2 DEF Running
    <3>2. Divide(TRUE, s, op) = t  BY <3>1 DEF Divide, t
    <3> QED BY <2>1, <2>2, <3>2 DEF Both, Agree
  <2>3. CASE t.status \notin {"stack", "addr"}
    <3>1. u = t  BY <2>1, <2>3 DEF Both, Agree
    <3>2. Both(Stop(t, "div"), Stop(u, "div")) /\ Both(Stop(t, "trap"), Stop(u, "trap"))
      BY <2>1, <2>3, StopKeeps
    <3>3. Both(Push(TRUE, t, w), Push(FALSE, u, w))  BY <2>1, <1>4
    <3>4. CASE ~Running(t)
      BY <3>1, <3>4, <2>1 DEF Divide, t, u
    <3>5. CASE Running(t) /\ Signed(Top(s)) = 0
      BY <3>1, <3>2, <3>5 DEF Divide, t, u
    <3>6. CASE Running(t) /\ Signed(Top(s)) # 0 /\ Signed(Top(s)) = -1 /\ Signed(Second(s)) = -(WORD \div 2)
      BY <3>1, <3>2, <3>6 DEF Divide, t, u
    <3>7. CASE /\ Running(t) /\ Signed(Top(s)) # 0
               /\ ~(Signed(Top(s)) = -1 /\ Signed(Second(s)) = -(WORD \div 2))
      BY <3>1, <3>3, <3>7 DEF Divide, t, u, w
    <3> QED BY <3>4, <3>5, <3>6, <3>7
  <2> QED BY <2>2, <2>3
<1>f. Both(Load(TRUE, s, n), Load(FALSE, s, n))
  <2>1. Both(CheckAddr(TRUE, Pop(TRUE, s), Top(s)), CheckAddr(FALSE, Pop(FALSE, s), Top(s)))
    BY <1>1, OthersKeep
  <2> QED BY <2>1, <1>4 DEF Load
<1>g. Both(Store(TRUE, s, n), Store(FALSE, s, n))
  <2>1. Both(CheckAddr(TRUE, Pop(TRUE, Pop(TRUE, s)), Top(s)),
             CheckAddr(FALSE, Pop(FALSE, Pop(FALSE, s)), Top(s)))
    BY <1>2, OthersKeep
  <2> QED BY <2>1, OthersKeep DEF Store
<1>h. Both(Branch(TRUE, s, k, op), Branch(FALSE, s, k, op))
  <2>1. Both(Jump(Pop(TRUE, s), k), Jump(Pop(FALSE, s), k))  BY <1>1, OthersKeep
  <2> QED BY <2>1, <1>1 DEF Branch
<1>i. Both(Call(TRUE, s, k), Call(FALSE, s, k))
  <2>1. Both(PushRet(TRUE, s, s.ip), PushRet(FALSE, s, s.ip))  BY PushRetKeeps
  <2> QED BY <2>1, OthersKeep DEF Call
<1>j. Both(Jmpx(TRUE, s), Jmpx(FALSE, s))
  <2>1. Both(Jump(Pop(TRUE, s), Top(s) % HALF), Jump(Pop(FALSE, s), Top(s) % HALF))
    BY <1>1, OthersKeep
  <2> QED BY <2>1, OthersKeep DEF Jmpx
<1>k. Both(Callx(TRUE, s), Callx(FALSE, s))
  <2>1. Both(CheckAddr(TRUE, Pop(TRUE, s), Top(s) % HALF), CheckAddr(FALSE, Pop(FALSE, s), Top(s) % HALF))
    BY <1>1, OthersKeep
  <2>2. Both(PushRet(TRUE, CheckAddr(TRUE, Pop(TRUE, s), Top(s) % HALF), s.ip),
             PushRet(FALSE, CheckAddr(FALSE, Pop(FALSE, s), Top(s) % HALF), s.ip))
    BY <2>1, PushRetKeeps
  <2> QED BY <2>2, OthersKeep DEF Callx
<1> QED BY <1>a, <1>b, <1>c, <1>d, <1>e, <1>f, <1>g, <1>h, <1>i, <1>j, <1>k

(* Every instruction keeps it: it is made of the macros.                    *)
LEMMA ExecKeeps ==
  ASSUME NEW m, NEW i, Both(m, m), Running(m)
  PROVE  Both(Exec(TRUE, m, i), Exec(FALSE, m, i))
<1> DEFINE s == [m EXCEPT !.ip = Plus(m.ip, Size(i.op))]
<1>1. Both(s, s) /\ s.status = "run"  BY DEF Both, Agree, Apart, Running, Fields
<1> HIDE DEF s
<1>2. \A st : Both(Stop(s, st), Stop(s, st))  BY <1>1, StopKeeps
<1>3. \A v : Both(Push(TRUE, s, v), Push(FALSE, s, v))  BY <1>1, PushKeeps
<1>4. Both(Pop(TRUE, s), Pop(FALSE, s))  BY <1>1, PopKeeps
<1>5. Both(PopRet(TRUE, s), PopRet(FALSE, s))  BY <1>1, PopRetKeeps
<1>6. Both(Jump(s, i.arg), Jump(s, i.arg))  BY <1>1, OthersKeep
<1>7. \A k : Both(Subk(s, k), Subk(s, k))  BY <1>1, OthersKeep DEF Subk
<1>8. Both(Duple(TRUE, s, i.arg), Duple(FALSE, s, i.arg))  BY <1>3 DEF Duple
<1>9. /\ Both(Swap(TRUE, s), Swap(FALSE, s))
      /\ Both(Over(TRUE, s), Over(FALSE, s))
      /\ Both(Rot(TRUE, s), Rot(FALSE, s))
      /\ Both(Bin(TRUE, s, i.op), Bin(FALSE, s, i.op))
      /\ Both(Divide(TRUE, s, i.op), Divide(FALSE, s, i.op))
      /\ Both(Call(TRUE, s, i.arg), Call(FALSE, s, i.arg))
      /\ Both(Jmpx(TRUE, s), Jmpx(FALSE, s))
      /\ Both(Callx(TRUE, s), Callx(FALSE, s))
  BY <1>1, HandlersKeep
<1>10. \A n : Both(Load(TRUE, s, n), Load(FALSE, s, n)) /\ Both(Store(TRUE, s, n), Store(FALSE, s, n))
  BY <1>1, HandlersKeep
<1>11. /\ Both(Branch(TRUE, s, i.arg, Top(s) = 0), Branch(FALSE, s, i.arg, Top(s) = 0))
       /\ Both(Branch(TRUE, s, i.arg, Top(s) # 0), Branch(FALSE, s, i.arg, Top(s) # 0))
  BY <1>1, HandlersKeep
<1>a. CASE i.op \in {"jz", "jnz"}
  <2>1. CASE i.op = "jz"   BY <2>1, <1>11 DEF Exec, s, BinOps
  <2>2. CASE i.op = "jnz"  BY <2>2, <1>11 DEF Exec, s, BinOps
  <2> QED BY <1>a, <2>1, <2>2
<1>b. CASE i.op \in {"halt", "nop", "dup", "drop", "ret"}
  BY <1>b, <1>1, <1>2, <1>3, <1>4, <1>5 DEF Exec, s, BinOps
<1>c. CASE i.op \in {"lit8", "lit16", "lit32"}
  BY <1>c, <1>3 DEF Exec, s, BinOps
<1>d. CASE i.op \in {"swap", "over", "rot"}
  BY <1>d, <1>9 DEF Exec, s, BinOps
<1>e. CASE i.op \in BinOps
  BY <1>e, <1>9 DEF Exec, s, BinOps
<1>f. CASE i.op \in {"div", "mod"}
  BY <1>f, <1>9 DEF Exec, s, BinOps
<1>g. CASE i.op \in {"load", "load8", "load16", "store", "store8", "store16"}
  BY <1>g, <1>10 DEF Exec, s, BinOps
<1>h. CASE i.op \in {"jmp", "call", "jmpx", "callx"}
  BY <1>h, <1>6, <1>9 DEF Exec, s, BinOps
<1>i. CASE i.op \in {"dec", "subk", "duple"}
  BY <1>i, <1>7, <1>8 DEF Exec, s, BinOps
<1>j. CASE /\ i.op \notin BinOps \cup {"halt", "nop", "dup", "drop", "ret", "lit8", "lit16", "lit32"}
           /\ i.op \notin {"swap", "over", "rot", "div", "mod", "jmp", "call", "jmpx", "callx"}
           /\ i.op \notin {"load", "load8", "load16", "store", "store8", "store16"}
           /\ i.op \notin {"dec", "subk", "duple", "jz", "jnz"}
  BY <1>j, <1>2 DEF Exec, s, BinOps
<1> QED BY <1>a, <1>b, <1>c, <1>d, <1>e, <1>f, <1>g, <1>h, <1>i, <1>j

(* A new run starts from pointers cut to 16 bits, or from those of the host. *)
LEMMA ReenterKeeps ==
  ASSUME NEW t, NEW e, Both(t, t)
  PROVE  Both(Reenter(t, e), Reenter(t, e))
<1>1. t.sp % HALF = t.sp /\ t.rp % HALF = t.rp
  <2>1. t.sp \in Nat /\ t.rp \in Nat /\ t.sp <= SP0 /\ t.rp <= SP0  BY WvmAssumption DEF Both, Apart
  <2> QED BY <2>1, NoWrap, WvmAssumption
<1> QED BY <1>1 DEF Reenter, Both, Agree, Apart, Fields

(* The loaded machines are related.                                         *)
LEMMA BothInvInit == Init => BothInv
BY WvmAssumption DEF Init, Loaded, BothInv, Both, Agree, Apart, Fields

(* Every step keeps the two machines related.                               *)
LEMMA BothInvNext == BothInv /\ [Next]_vars => BothInv'
<1> SUFFICES ASSUME BothInv, [Next]_vars PROVE BothInv'
    OBVIOUS
<1>0. safe.status \in {"run", "ok"} => rel = safe /\ Both(safe, safe)
  BY DEF BothInv, Both, Agree
<1>1. CASE Step
  <2>1. PICK i : safe' = Exec(TRUE, safe, i) /\ rel' = Exec(FALSE, rel, i)  BY <1>1 DEF Step
  <2>2. Running(safe)  BY <1>1 DEF Step
  <2> QED BY <1>0, <2>1, <2>2, ExecKeeps DEF BothInv, Running
<1>2. ASSUME NEW e \in Entry, Run(e) PROVE BothInv'
  BY <1>0, <1>2, ReenterKeeps DEF Run, BothInv
<1>3. ASSUME NEW e \in Entry, NEW v \in Args, RunWith(e, v) PROVE BothInv'
  <2> DEFINE w == [safe EXCEPT !.sp = SP0 - 4, !.rp = RP0, !.mem = Wr(@, SP0 - 4, 4, v)]
  <2>1. rel = safe /\ Both(safe, safe)  BY <1>0, <1>3 DEF RunWith
  <2>2. safe' = Reenter(w, e) /\ rel' = Reenter(w, e)  BY <1>3, <2>1 DEF RunWith
  <2>3. Both(w, w)  BY <2>1, WvmAssumption DEF Both, Agree, Apart, Fields
  <2> HIDE DEF w
  <2> QED BY <2>2, <2>3, ReenterKeeps DEF BothInv
<1>4. CASE UNCHANGED vars
  BY <1>4 DEF vars, BothInv, Both, Agree, Apart
<1> QED BY <1>1, <1>2, <1>3, <1>4 DEF Next

(* The two machines are related in every state.                             *)
LEMMA BothInvHolds == Spec => []BothInv
BY BothInvInit, BothInvNext, PTL DEF Spec

(* No program and no run makes the stacks of the SAFE interpreter leave     *)
(* their region or meet.                                                    *)
THEOREM WvmStacksApart == Spec => []StacksApart
<1>1. BothInv => StacksApart  BY DEF BothInv, Both, Apart, StacksApart
<1> QED BY <1>1, BothInvHolds, PTL

(* The release interpreter computes what the SAFE one computes until a test *)
(* of the SAFE one fails.                                                   *)
THEOREM WvmSameAsSafe == Spec => []SameAsSafe
<1>1. BothInv => SameAsSafe  BY DEF BothInv, Both, Agree, SameAsSafe
<1> QED BY <1>1, BothInvHolds, PTL

-----------------------------------------------------------------------------
(* The two stacks *)

(* The words of the stack machine are those of the interpreter.             *)
LEMMA SameWords ==
  /\ Stacks!BYTE = BYTE /\ Stacks!HALF = HALF /\ Stacks!WORD = WORD /\ Stacks!Word = Word
  /\ Stacks!BinOps = BinOps
  /\ \A v, j : Stacks!ByteAt(v, j) = ByteAt(v, j)
  /\ \A a, b, c, d : Stacks!FromBytes(a, b, c, d) = FromBytes(a, b, c, d)
  /\ \A v : Stacks!Signed(v) = Signed(v)
  /\ \A c : Stacks!Flag(c) = Flag(c)
  /\ \A l, r : Stacks!Quot(l, r) = Quot(l, r)
  /\ \A o : Stacks!Size(o) = Size(o)
<1>1. Stacks!BYTE = BYTE  BY DEF BYTE, Stacks!BYTE
<1> HIDE DEF BYTE
<1>2. Stacks!HALF = HALF BY <1>1 DEF HALF, Stacks!HALF
<1> HIDE DEF HALF
<1>3. Stacks!WORD = WORD  BY <1>2 DEF WORD, Stacks!WORD
<1>4. Stacks!Word = Word  BY <1>3 DEF Word, Stacks!Word
<1>5. Stacks!BinOps = BinOps  BY DEF BinOps, Stacks!BinOps
<1>6. \A v, j : Stacks!ByteAt(v, j) = ByteAt(v, j)
  BY <1>1, <1>2 DEF ByteAt, Scale, Stacks!ByteAt, Stacks!Scale
<1>7. \A a, b, c, d : Stacks!FromBytes(a, b, c, d) = FromBytes(a, b, c, d)
  BY <1>1, <1>2 DEF FromBytes, Stacks!FromBytes
<1>8. \A v : Stacks!Signed(v) = Signed(v)  BY <1>3 DEF Signed, Stacks!Signed
<1>9. \A c : Stacks!Flag(c) = Flag(c) BY DEF Flag, Stacks!Flag
<1>10. \A l, r : Stacks!Quot(l, r) = Quot(l, r)  BY DEF Quot, Stacks!Quot
<1>11. \A o : Stacks!Size(o) = Size(o) BY DEF Size, Stacks!Size
<1> QED  BY <1>1, <1>2, <1>3, <1>4, <1>5, <1>6, <1>7, <1>8, <1>9, <1>10, <1>11
(* Its bitwise operators are too.                                           *)
LEMMA SameByte == \A op, x, y : Stacks!OnByte(op, x, y) = OnByte(op, x, y)
BY DEF Stacks!OnByte, OnByte, Stacks!OnBits, OnBits, Stacks!Bit, Bit, Stacks!MapThenSumSet, MapThenSumSet, Stacks!MapThenFoldSet, MapThenFoldSet

(* What a write changes.                                                    *)
LEMMA Written ==
  ASSUME NEW m \in Memory, NEW a \in Addr, NEW n \in {1, 2, 4}, NEW v
  PROVE  \A x \in 0 .. MEM + 2 :
           /\ x \in a .. a + n - 1 => Wr(m, a, n, v)[x] = ByteAt(v, x - a)
           /\ x \notin a .. a + n - 1 => Wr(m, a, n, v)[x] = m[x]
<1>1. a % MEM = a /\ MEM \in Nat \ {0}  BY WvmAssumption DEF Addr
<1>2. a \in Nat  BY DEF Addr
<1> HIDE DEF ByteAt
<1> QED  BY <1>1, <1>2, Reach

(* What a read at a place of the memory reads.                              *)
LEMMA ReadAt ==
  ASSUME NEW m, NEW a \in Addr
  PROVE  /\ Rd8(m, a) = m[a]
         /\ Rd16(m, a) = m[a] + BYTE * m[a + 1]
         /\ Rd32(m, a) = FromBytes(m[a], m[a + 1], m[a + 2], m[a + 3])
<1>1. a % MEM = a  BY WvmAssumption DEF Addr
<1> HIDE DEF BYTE
<1> QED  BY <1>1 DEF Rd8, Rd16, Rd32

(* A word or a half word that was just written is what is read.             *)
LEMMA ReadBack ==
  ASSUME NEW m \in Memory, NEW a \in Addr, NEW v \in Word
  PROVE  /\ Rd32(Wr(m, a, 4, v), a) = v
         /\ Rd16(Wr(m, a, 2, v), a) = v % HALF
<1>0. a \in Nat /\ a < MEM /\ MEM \in Nat  BY WvmAssumption DEF Addr
<1>1. /\ a \in 0 .. MEM + 2 /\ a + 1 \in 0 .. MEM + 2
      /\ a + 2 \in 0 .. MEM + 2 /\ a + 3 \in 0 .. MEM + 2
  BY <1>0
<1>2. /\ a \in a .. a + 4 - 1 /\ a + 1 \in a .. a + 4 - 1
      /\ a + 2 \in a .. a + 4 - 1 /\ a + 3 \in a .. a + 4 - 1
      /\ a \in a .. a + 2 - 1 /\ a + 1 \in a .. a + 2 - 1
      /\ a - a = 0 /\ (a + 1) - a = 1 /\ (a + 2) - a = 2 /\ (a + 3) - a = 3
  BY <1>0
<1> DEFINE w == Wr(m, a, 4, v)  h == Wr(m, a, 2, v)
<1>w. 2 \in {1, 2, 4} /\ 4 \in {1, 2, 4} OBVIOUS
<1>3. \A x \in 0 .. MEM + 2 : x \in a .. a + 4 - 1 => w[x] = ByteAt(v, x - a)
  BY Written, <1>w
<1>4. \A x \in 0 .. MEM + 2 : x \in a .. a + 2 - 1 => h[x] = ByteAt(v, x - a)
  BY Written, <1>w
<1> HIDE DEF w, h
<1>5. /\ w[a] = ByteAt(v, 0) /\ w[a + 1] = ByteAt(v, 1)
      /\ w[a + 2] = ByteAt(v, 2) /\ w[a + 3] = ByteAt(v, 3)
  <2> HIDE DEF ByteAt
  <2> QED BY <1>1, <1>2, <1>3
<1>6. h[a] = ByteAt(v, 0) /\ h[a + 1] = ByteAt(v, 1)
  <2> HIDE DEF ByteAt
  <2> QED BY <1>1, <1>2, <1>4
<1>7. Rd32(w, a) = v
  <2>1. Rd32(w, a) = FromBytes(w[a], w[a + 1], w[a + 2], w[a + 3])  BY ReadAt
  <2> QED  BY <2>1, <1>5, BytesOfWord
<1>8. Rd16(h, a) = v % HALF
  <2>1. Rd16(h, a) = h[a] + BYTE * h[a + 1]  BY ReadAt
  <2>2. v \in Nat  BY Sizes
  <2> QED  BY <2>1, <2>2, <1>6, BytesOfHalf
<1> QED  BY <1>7, <1>8 DEF w, h

(* A write leaves what is read elsewhere alone.                             *)
LEMMA ReadElsewhere ==
  ASSUME NEW m \in Memory, NEW a \in Addr, NEW n \in {1, 2, 4}, NEW v, NEW b \in Addr
  PROVE  /\ b + 4 <= a \/ a + n <= b => Rd32(Wr(m, a, n, v), b) = Rd32(m, b)
         /\ b + 2 <= a \/ a + n <= b => Rd16(Wr(m, a, n, v), b) = Rd16(m, b)
<1>0. a \in Nat /\ b \in Nat /\ b < MEM /\ MEM \in Nat /\ n \in Nat
  BY WvmAssumption DEF Addr
<1> DEFINE w == Wr(m, a, n, v)
<1>1. \A x \in 0 .. MEM + 2 : x \notin a .. a + n - 1 => w[x] = m[x]
  BY Written
<1> HIDE DEF w
<1>2. Rd32(w, b) = FromBytes(w[b], w[b + 1], w[b + 2], w[b + 3])
      /\ Rd32(m, b) = FromBytes(m[b], m[b + 1], m[b + 2], m[b + 3])
      /\ Rd16(w, b) = w[b] + BYTE * w[b + 1] /\ Rd16(m, b) = m[b] + BYTE * m[b + 1]
  BY ReadAt
<1>3. ASSUME b + 4 <= a \/ a + n <= b
      PROVE  w[b] = m[b] /\ w[b + 1] = m[b + 1] /\ w[b + 2] = m[b + 2] /\ w[b + 3] = m[b + 3]
  BY <1>0, <1>1, <1>3
<1>4. ASSUME b + 2 <= a \/ a + n <= b
      PROVE  w[b] = m[b] /\ w[b + 1] = m[b + 1]
  BY <1>0, <1>1, <1>4
<1> QED  BY <1>2, <1>3, <1>4 DEF w

(* A machine between two macros of the SAFE build: its stacks hold whole    *)
(* entries, inside their region and apart.                                  *)
Good(s) ==
  /\ s \in Machine
  /\ Depth(s) \in Nat /\ RDepth(s) \in Nat
  /\ s.sp = SP0 - 4 * Depth(s) /\ s.rp = RP0 + 2 * RDepth(s)
  /\ s.rp <= s.sp

(* A machine with d words and e return addresses is good.                   *)
LEMMA GoodIs ==
  ASSUME NEW s \in Machine, NEW d \in Nat, NEW e \in Nat,
         s.sp = SP0 - 4 * d, s.rp = RP0 + 2 * e, s.rp <= s.sp
  PROVE  Good(s) /\ Depth(s) = d /\ RDepth(s) = e
<1>1. SP0 \in Nat /\ RP0 \in Nat  BY WvmAssumption
<1>2. Depth(s) = d  BY <1>1 DEF Depth
<1>3. RDepth(s) = e  BY <1>1 DEF RDepth
<1> HIDE DEF Depth, RDepth
<1> QED  BY <1>2, <1>3 DEF Good

(* The sizes of both stacks and where their entries are.                    *)
LEMMA Places ==
  ASSUME NEW s, Good(s)
  PROVE  /\ 4 * Depth(s) + 2 * RDepth(s) <= SP0 - RP0
         /\ \A j \in 1 .. Depth(s) :
              /\ s.sp + 4 * (j - 1) \in Addr /\ RP0 + 4 <= s.sp + 4 * (j - 1) + 4
              /\ s.rp <= s.sp + 4 * (j - 1) /\ s.sp + 4 * (j - 1) + 4 <= SP0
         /\ \A j \in 1 .. RDepth(s) :
              /\ RP0 + 2 * (j - 1) \in Addr
              /\ RP0 <= RP0 + 2 * (j - 1) /\ RP0 + 2 * (j - 1) + 2 <= s.rp
<1>1. SP0 \in Nat /\ RP0 \in Nat /\ SP0 < MEM /\ MEM \in Nat  BY WvmAssumption
<1>2. Depth(s) \in Nat /\ RDepth(s) \in Nat /\ s.sp = SP0 - 4 * Depth(s)
      /\ s.rp = RP0 + 2 * RDepth(s) /\ s.rp <= s.sp
  BY DEF Good
<1> HIDE DEF Depth, RDepth
<1> QED  BY <1>1, <1>2 DEF Addr

(* The two stacks of a good machine, entry by entry.                        *)
LEMMA Views ==
  ASSUME NEW s, Good(s)
  PROVE  /\ Params(s) \in Seq(Word) /\ Len(Params(s)) = Depth(s)
         /\ \A j \in 1 .. Depth(s) : Params(s)[j] = Rd32(s.mem, s.sp + 4 * (j - 1))
         /\ Rets(s) \in Seq(Word) /\ Len(Rets(s)) = RDepth(s)
         /\ \A j \in 1 .. RDepth(s) : Rets(s)[j] = Rd16(s.mem, RP0 + 2 * (j - 1))
<1>1. s.mem \in Memory /\ Depth(s) \in Nat /\ RDepth(s) \in Nat  BY DEF Good, Machine
<1>2. \A a \in Addr : a \in Nat  BY DEF Addr
<1>3. \A j \in 1 .. Depth(s) : Rd32(s.mem, s.sp + 4 * (j - 1)) \in Word
  BY <1>1, <1>2, Places, ReadRange
<1>4. \A j \in 1 .. RDepth(s) : Rd16(s.mem, RP0 + 2 * (j - 1)) \in Word
  BY <1>1, <1>2, Places, ReadRange
<1> HIDE DEF Depth, RDepth, Word
<1>5. Params(s) \in [1 .. Depth(s) -> Word] /\ Rets(s) \in [1 .. RDepth(s) -> Word]
  BY <1>3, <1>4 DEF Params, Rets
<1>6. \A n \in Nat : \A f \in [1 .. n -> Word] : f \in Seq(Word) /\ Len(f) = n
  <2> TAKE n \in Nat
  <2> TAKE f \in [1 .. n -> Word]
  <2>1. f \in Seq(Word)  BY SeqDef
  <2> QED  BY <2>1, LenProperties
<1>7. Params(s) \in Seq(Word) /\ Len(Params(s)) = Depth(s)
      /\ Rets(s) \in Seq(Word) /\ Len(Rets(s)) = RDepth(s)
  BY <1>1, <1>5, <1>6
<1>8. /\ \A j \in 1 .. Depth(s) : Params(s)[j] = Rd32(s.mem, s.sp + 4 * (j - 1))
      /\ \A j \in 1 .. RDepth(s) : Rets(s)[j] = Rd16(s.mem, RP0 + 2 * (j - 1))
  BY DEF Params, Rets
<1> QED  BY <1>7, <1>8

(* Two machines whose entries read the same have the same stacks.           *)
LEMMA SameParams ==
  ASSUME NEW s, NEW t, Depth(t) = Depth(s),
         \A j \in 1 .. Depth(s) : Rd32(t.mem, t.sp + 4 * (j - 1)) = Rd32(s.mem, s.sp + 4 * (j - 1))
  PROVE  Params(t) = Params(s)
BY DEF Params

(* And the same return addresses.                                           *)
LEMMA SameRets ==
  ASSUME NEW s, NEW t, RDepth(t) = RDepth(s),
         \A j \in 1 .. RDepth(s) : Rd16(t.mem, RP0 + 2 * (j - 1)) = Rd16(s.mem, RP0 + 2 * (j - 1))
  PROVE  Rets(t) = Rets(s)
BY DEF Rets

(* A write inside the region of the stacks leaves the rest of the memory.   *)
LEMMA SameRest ==
  ASSUME NEW m \in Memory, NEW a \in Nat, NEW n \in {1, 2, 4}, NEW v, NEW s, NEW t,
         s.mem = m, t.mem = Wr(m, a, n, v), RP0 <= a, a + n <= SP0
  PROVE  Rest(t) = Rest(s)
<1>0. SP0 \in Nat /\ RP0 \in Nat /\ SP0 < MEM /\ MEM \in Nat  BY WvmAssumption
<1>1. a \in Addr  BY <1>0 DEF Addr
<1>2. DOMAIN m = 0 .. MEM + 2 /\ DOMAIN Wr(m, a, n, v) = 0 .. MEM + 2  BY Reach DEF Memory
<1>3. \A x \in 0 .. MEM + 2 : x \notin RP0 .. SP0 - 1 => Wr(m, a, n, v)[x] = m[x]
  <2>1. \A x \in 0 .. MEM + 2 : x \notin RP0 .. SP0 - 1 => x \notin a .. a + n - 1
    BY <1>0
  <2> QED  BY <1>1, <2>1, Written
<1> QED  BY <1>2, <1>3 DEF Rest

(* What a machine shows besides its parameter stack is as in another.       *)
Else(t, s) == Rets(t) = Rets(s) /\ Rest(t) = Rest(s) /\ t.ip = s.ip /\ t.status = s.status

(* A push writes one entry, or stops when the stacks would meet.            *)
LEMMA PushView ==
  ASSUME NEW s, Good(s), Running(s), NEW v \in Word
  PROVE  LET t == Push(TRUE, s, v) IN
         /\ 4 * (Depth(s) + 1) + 2 * RDepth(s) <= SP0 - RP0 =>
              /\ Good(t) /\ Depth(t) = Depth(s) + 1 /\ RDepth(t) = RDepth(s)
              /\ Params(t) = <<v>> \o Params(s) /\ Else(t, s)
         /\ 4 * (Depth(s) + 1) + 2 * RDepth(s) > SP0 - RP0 => t = Stop(s, "stack")
<1>0. /\ SP0 \in Nat /\ RP0 \in Nat /\ RP0 >= 4 /\ SP0 < MEM /\ MEM \in Nat
      /\ s \in Machine /\ s.mem \in Memory
      /\ Depth(s) \in Nat /\ RDepth(s) \in Nat /\ s.sp = SP0 - 4 * Depth(s)
      /\ s.rp = RP0 + 2 * RDepth(s) /\ s.rp <= s.sp
  BY WvmAssumption DEF Good, Machine
<1> DEFINE t == Push(TRUE, s, v)  a == s.sp - 4
<1>1. Plus(s.sp, -4) = a /\ a \in Nat /\ a \in Addr
  <2>1. a \in Nat /\ a <= SP0 + 4 /\ a < MEM
    <3> HIDE DEF Depth, RDepth
    <3> QED  BY <1>0
  <2>2. a % WORD = a  BY <2>1, NoWrap
  <2>3. a \in Addr  BY <2>1, <1>0 DEF Addr
  <2>4. Plus(s.sp, -4) = a
    <3>1. s.sp + (-4) = s.sp - 4  BY <1>0, MachineFacts
    <3> QED  BY <3>1, <2>2 DEF Plus
  <2> QED  BY <2>1, <2>3, <2>4
<1>2. ASSUME 4 * (Depth(s) + 1) + 2 * RDepth(s) > SP0 - RP0
      PROVE  t = Stop(s, "stack")
  <2>1. a < s.rp
    <3> HIDE DEF Depth, RDepth
    <3> QED  BY <1>0, <1>2
  <2> QED  BY <1>1, <2>1 DEF Push
<1>3. ASSUME 4 * (Depth(s) + 1) + 2 * RDepth(s) <= SP0 - RP0
      PROVE  /\ Good(t) /\ Depth(t) = Depth(s) + 1 /\ RDepth(t) = RDepth(s)
             /\ Params(t) = <<v>> \o Params(s) /\ Else(t, s)
  <2>0. a >= s.rp /\ a = SP0 - 4 * (Depth(s) + 1) /\ RP0 <= a /\ a + 4 <= SP0
    <3> HIDE DEF Depth, RDepth
    <3> QED  BY <1>0, <1>3
  <2>1. t = [s EXCEPT !.sp = a, !.mem = Wr(s.mem, a, 4, v)]
    <3>1. ~(a < s.rp)  BY <2>0, <1>0, <1>1
    <3> QED  BY <1>1, <3>1 DEF Push
  <2>2. t.sp = a /\ t.mem = Wr(s.mem, a, 4, v) /\ t.rp = s.rp /\ t.ip = s.ip /\ t.status = s.status
    BY <1>0, <2>1 DEF Machine
  <2>3. t \in Machine  BY <1>0, MacrosTyped
  <2> HIDE DEF t
  <2>4. Good(t) /\ Depth(t) = Depth(s) + 1 /\ RDepth(t) = RDepth(s)
    <3>1. Depth(s) + 1 \in Nat  BY <1>0
    <3> HIDE DEF Depth, RDepth
    <3> QED  BY <1>0, <2>0, <2>2, <2>3, <3>1, GoodIs
  <2>5. Rest(t) = Rest(s)
    BY <1>0, <1>1, <2>0, <2>2, SameRest
  <2>6. Rets(t) = Rets(s)
    <3>1. ASSUME NEW j \in 1 .. RDepth(s)
          PROVE  Rd16(t.mem, RP0 + 2 * (j - 1)) = Rd16(s.mem, RP0 + 2 * (j - 1))
      <4> DEFINE b == RP0 + 2 * (j - 1)
      <4>1. b \in Addr /\ b + 2 <= s.rp  BY Places
      <4>2. b + 2 <= a
        <5>1. b \in Nat  BY <4>1 DEF Addr
        <5> HIDE DEF b
        <5> QED  BY <4>1, <5>1, <2>0, <1>0, <1>1, MachineFacts
      <4> QED  BY <1>0, <1>1, <2>2, <4>1, <4>2, ReadElsewhere
    <3> QED  BY <2>4, <3>1, SameRets
  <2>7. Params(t) = <<v>> \o Params(s)
    <3>1. /\ Params(t) \in Seq(Word) /\ Len(Params(t)) = Depth(s) + 1
          /\ Params(s) \in Seq(Word) /\ Len(Params(s)) = Depth(s)
          /\ \A j \in 1 .. Depth(s) + 1 : Params(t)[j] = Rd32(t.mem, t.sp + 4 * (j - 1))
          /\ \A j \in 1 .. Depth(s) : Params(s)[j] = Rd32(s.mem, s.sp + 4 * (j - 1))
      BY <2>4, Views
    <3>2. <<v>> \in Seq(Word) /\ Len(<<v>>) = 1 /\ <<v>>[1] = v  OBVIOUS
    <3>3. /\ <<v>> \o Params(s) \in Seq(Word) /\ Len(<<v>> \o Params(s)) = 1 + Depth(s)
          /\ \A j \in 1 .. 1 + Depth(s) :
               (<<v>> \o Params(s))[j] = IF j <= 1 THEN <<v>>[j] ELSE Params(s)[j - 1]
      BY <3>1, <3>2, ConcatProperties
    <3>4. ASSUME NEW j \in 1 .. Depth(s) + 1
          PROVE  Params(t)[j] = (<<v>> \o Params(s))[j]
      <4>1. CASE j = 1
        <5>1. t.sp + 4 * (j - 1) = a  BY <4>1, <2>2, <1>1
        <5>2. Params(t)[j] = v  BY <3>1, <5>1, <2>2, <1>0, <1>1, ReadBack
        <5> QED  BY <3>2, <3>3, <4>1, <5>2
      <4>2. CASE j # 1
        <5>0. j - 1 \in 1 .. Depth(s) /\ j \in Nat /\ ~(j <= 1) /\ j \in 1 .. 1 + Depth(s)
          <6> HIDE DEF Depth
          <6> QED  BY <1>0, <4>2
        <5> DEFINE b == s.sp + 4 * ((j - 1) - 1)
        <5>1. t.sp + 4 * (j - 1) = b
          BY <5>0, <2>2, <1>0, MachineFacts
        <5>2. b \in Addr /\ s.sp <= b /\ a + 4 = s.sp
          <6>1. b \in Addr  BY <5>0, Places
          <6> QED  BY <6>1, <5>0, <1>0, MachineFacts
        <5>3. a + 4 <= b  BY <5>2
        <5>4. Rd32(t.mem, b) = Rd32(s.mem, b)
          BY <1>0, <1>1, <2>2, <5>2, <5>3, ReadElsewhere
        <5>5. Params(t)[j] = Rd32(t.mem, b) /\ Params(s)[j - 1] = Rd32(s.mem, b)
          BY <3>1, <5>0, <5>1
        <5> QED  BY <3>3, <5>0, <5>4, <5>5
      <4> QED  BY <4>1, <4>2
    <3>5. Len(<<v>> \o Params(s)) = Depth(s) + 1  BY <3>3, <1>0
    <3> HIDE DEF Depth
    <3> QED  BY <3>1, <3>3, <3>4, <3>5, SeqEqual
  <2> QED  BY <2>2, <2>4, <2>5, <2>6, <2>7 DEF Else
<1> QED  BY <1>2, <1>3

(* A pop drops the first entry, or stops when there is none.                *)
LEMMA PopView ==
  ASSUME NEW s, Good(s), Running(s)
  PROVE  LET t == Pop(TRUE, s) IN
         /\ Depth(s) > 0 =>
              /\ Good(t) /\ Depth(t) = Depth(s) - 1 /\ RDepth(t) = RDepth(s)
              /\ Params(t) = SubSeq(Params(s), 2, Depth(s)) /\ Else(t, s)
         /\ Depth(s) = 0 => t = Stop(s, "stack")
<1>0. /\ SP0 \in Nat /\ RP0 \in Nat /\ SP0 < MEM /\ MEM \in Nat
      /\ s \in Machine /\ s.mem \in Memory
      /\ Depth(s) \in Nat /\ RDepth(s) \in Nat /\ s.sp = SP0 - 4 * Depth(s)
      /\ s.rp = RP0 + 2 * RDepth(s) /\ s.rp <= s.sp
  BY WvmAssumption DEF Good, Machine
<1> DEFINE t == Pop(TRUE, s)
<1>1. Plus(s.sp, 4) = s.sp + 4
  <2>1. s.sp + 4 \in Nat /\ s.sp + 4 <= SP0 + 4
    <3> HIDE DEF Depth, RDepth
    <3> QED  BY <1>0, MachineFacts
  <2> QED  BY <2>1, NoWrap DEF Plus
<1>2. ASSUME Depth(s) = 0 PROVE t = Stop(s, "stack")
  BY <1>0, <1>1, <1>2 DEF Pop
<1>3. ASSUME Depth(s) > 0
      PROVE  /\ Good(t) /\ Depth(t) = Depth(s) - 1 /\ RDepth(t) = RDepth(s)
             /\ Params(t) = SubSeq(Params(s), 2, Depth(s)) /\ Else(t, s)
  <2>0. Depth(s) - 1 \in Nat /\ s.sp + 4 = SP0 - 4 * (Depth(s) - 1) /\ s.sp + 4 <= SP0
    <3> HIDE DEF Depth, RDepth
    <3> QED  BY <1>0, <1>3
  <2>1. t = [s EXCEPT !.sp = s.sp + 4]
    <3>1. ~(s.sp + 4 > SP0)  BY <2>0, <1>0, MachineFacts
    <3> QED  BY <1>1, <3>1 DEF Pop
  <2>2. t.sp = s.sp + 4 /\ t.mem = s.mem /\ t.rp = s.rp /\ t.ip = s.ip /\ t.status = s.status
    BY <1>0, <2>1 DEF Machine
  <2>3. t \in Machine  BY <1>0, MacrosTyped
  <2> HIDE DEF t
  <2>4. Good(t) /\ Depth(t) = Depth(s) - 1 /\ RDepth(t) = RDepth(s)
    <3>1. s.rp <= s.sp + 4  BY <1>0, MachineFacts
    <3> HIDE DEF Depth, RDepth
    <3> QED  BY <1>0, <2>0, <2>2, <2>3, <3>1, GoodIs
  <2>5. Rest(t) = Rest(s) /\ Rets(t) = Rets(s)
    BY <2>2, <2>4, SameRets DEF Rest
  <2>6. Params(t) = SubSeq(Params(s), 2, Depth(s))
    <3>1. /\ Params(t) \in Seq(Word) /\ Len(Params(t)) = Depth(s) - 1
          /\ Params(s) \in Seq(Word) /\ Len(Params(s)) = Depth(s)
          /\ \A j \in 1 .. Depth(s) - 1 : Params(t)[j] = Rd32(t.mem, t.sp + 4 * (j - 1))
          /\ \A j \in 1 .. Depth(s) : Params(s)[j] = Rd32(s.mem, s.sp + 4 * (j - 1))
      BY <2>4, Views
    <3> DEFINE q == SubSeq(Params(s), 2, Depth(s))
    <3>2. /\ q \in Seq(Word) /\ Len(q) = Depth(s) - 1
          /\ \A j \in 1 .. Depth(s) - 1 : q[j] = Params(s)[j + 1]
      <4>1. \A j \in 2 .. Depth(s) : Params(s)[j] \in Word  BY <3>1, ElementOfSeq
      <4>2. Depth(s) \in Int /\ 2 \in Int  BY <1>0
      <4> HIDE DEF Depth
      <4>3. /\ q \in Seq(Word)
            /\ Len(q) = IF 2 <= Depth(s) THEN Depth(s) - 2 + 1 ELSE 0
            /\ \A j \in 1 .. Depth(s) - 2 + 1 : q[j] = Params(s)[2 + j - 1]
        BY <4>1, <4>2, SubSeqProperties
      <4> HIDE DEF q
      <4>4. \A j \in 1 .. Depth(s) - 1 : j \in 1 .. Depth(s) - 2 + 1 /\ 2 + j - 1 = j + 1
        BY <4>2
      <4> QED  BY <1>3, <4>2, <4>3, <4>4
    <3> HIDE DEF q
    <3>3. ASSUME NEW j \in 1 .. Depth(s) - 1
          PROVE  Params(t)[j] = q[j]
      <4>1. j + 1 \in 1 .. Depth(s) /\ t.sp + 4 * (j - 1) = s.sp + 4 * ((j + 1) - 1)
        BY <1>0, <2>2, MachineFacts
      <4> QED  BY <2>2, <3>1, <3>2, <4>1
    <3>4. Params(t) = q
      <4> HIDE DEF Depth
      <4> QED  BY <3>1, <3>2, <3>3, SeqEqual
    <3> QED  BY <3>4 DEF q
  <2> QED  BY <2>2, <2>4, <2>5, <2>6 DEF Else
<1> QED  BY <1>0, <1>2, <1>3

(* The three words on top.                                                  *)
LEMMA TopView ==
  ASSUME NEW s, Good(s)
  PROVE  /\ Depth(s) >= 1 => Top(s) = Params(s)[1]
         /\ Depth(s) >= 2 => Second(s) = Params(s)[2]
         /\ Depth(s) >= 3 => Third(s) = Params(s)[3]
<1>0. /\ SP0 \in Nat /\ RP0 \in Nat
      /\ s \in Machine /\ Depth(s) \in Nat /\ s.sp = SP0 - 4 * Depth(s) /\ s.sp \in Nat
  BY WvmAssumption, MachineFacts DEF Good
<1>1. \A j \in 1 .. Depth(s) : Params(s)[j] = Rd32(s.mem, s.sp + 4 * (j - 1))  BY Views
<1>2. Depth(s) >= 1 => Top(s) = Params(s)[1]
  <2>1. s.sp + 4 * (1 - 1) = s.sp  BY <1>0
  <2>2. Depth(s) >= 1 => 1 \in 1 .. Depth(s)  BY <1>0
  <2> HIDE DEF Depth
  <2> QED  BY <1>1, <2>1, <2>2 DEF Top
<1>3. Depth(s) >= 2 => Second(s) = Params(s)[2]
  <2>1. s.sp + 4 * (2 - 1) = s.sp + 4  BY <1>0
  <2>2. Depth(s) >= 2 => 2 \in 1 .. Depth(s) /\ s.sp + 4 <= SP0 /\ s.sp + 4 \in Nat
    <3> HIDE DEF Depth
    <3> QED  BY <1>0
  <2>3. Depth(s) >= 2 => Plus(s.sp, 4) = s.sp + 4
    BY <1>0, <2>2, NoWrap DEF Plus
  <2> HIDE DEF Depth
  <2> QED  BY <1>1, <2>1, <2>2, <2>3 DEF Second
<1>4. Depth(s) >= 3 => Third(s) = Params(s)[3]
  <2>1. s.sp + 4 * (3 - 1) = s.sp + 8  BY <1>0
  <2>2. Depth(s) >= 3 => 3 \in 1 .. Depth(s) /\ s.sp + 8 <= SP0 /\ s.sp + 8 \in Nat
    <3> HIDE DEF Depth
    <3> QED  BY <1>0
  <2>3. Depth(s) >= 3 => Plus(s.sp, 8) = s.sp + 8
    BY <1>0, <2>2, NoWrap DEF Plus
  <2> HIDE DEF Depth
  <2> QED  BY <1>1, <2>1, <2>2, <2>3 DEF Third
<1> QED  BY <1>2, <1>3, <1>4

(* A push of a return address writes half a word, or stops when the stacks  *)
(* would meet.                                                              *)
LEMMA PushRetView ==
  ASSUME NEW s, Good(s), Running(s), NEW a \in Word
  PROVE  LET t == PushRet(TRUE, s, a) IN
         /\ 4 * Depth(s) + 2 * (RDepth(s) + 1) <= SP0 - RP0 =>
              /\ Good(t) /\ Params(t) = Params(s) /\ Rets(t) = Append(Rets(s), a % HALF)
              /\ Rest(t) = Rest(s) /\ t.ip = s.ip /\ t.status = s.status
         /\ 4 * Depth(s) + 2 * (RDepth(s) + 1) > SP0 - RP0 => t = Stop(s, "stack")
<1>0. /\ SP0 \in Nat /\ RP0 \in Nat /\ RP0 >= 4 /\ SP0 < MEM /\ MEM \in Nat
      /\ s \in Machine /\ s.mem \in Memory
      /\ Depth(s) \in Nat /\ RDepth(s) \in Nat /\ s.sp = SP0 - 4 * Depth(s)
      /\ s.rp = RP0 + 2 * RDepth(s) /\ s.rp <= s.sp
  BY WvmAssumption DEF Good, Machine
<1>s. s.sp \in Nat /\ s.rp \in Nat  BY <1>0, MachineFacts
<1> DEFINE t == PushRet(TRUE, s, a)
<1>1. Plus(s.rp, 2) = s.rp + 2 /\ s.rp \in Addr
  <2>1. s.rp + 2 \in Nat /\ s.rp + 2 <= SP0 + 4 /\ s.rp < MEM
    <3> HIDE DEF Depth, RDepth
    <3> QED  BY <1>0, <1>s
  <2> QED  BY <1>0, <1>s, <2>1, NoWrap DEF Plus, Addr
<1>2. ASSUME 4 * Depth(s) + 2 * (RDepth(s) + 1) > SP0 - RP0
      PROVE  t = Stop(s, "stack")
  <2>1. s.rp + 2 > s.sp
    <3> HIDE DEF Depth, RDepth
    <3> QED  BY <1>0, <1>2
  <2> QED  BY <1>1, <2>1 DEF PushRet
<1>3. ASSUME 4 * Depth(s) + 2 * (RDepth(s) + 1) <= SP0 - RP0
      PROVE  /\ Good(t) /\ Params(t) = Params(s) /\ Rets(t) = Append(Rets(s), a % HALF)
             /\ Rest(t) = Rest(s) /\ t.ip = s.ip /\ t.status = s.status
  <2>0. /\ s.rp + 2 <= s.sp /\ s.rp + 2 = RP0 + 2 * (RDepth(s) + 1)
        /\ RP0 <= s.rp /\ s.rp + 2 <= SP0
    <3> HIDE DEF Depth, RDepth
    <3> QED  BY <1>0, <1>3
  <2>1. t = [s EXCEPT !.rp = s.rp + 2, !.mem = Wr(s.mem, s.rp, 2, a)]
    <3>1. ~(s.rp + 2 > s.sp)  BY <2>0, <1>s
    <3> QED  BY <1>1, <3>1 DEF PushRet
  <2>2. t.rp = s.rp + 2 /\ t.mem = Wr(s.mem, s.rp, 2, a) /\ t.sp = s.sp /\ t.ip = s.ip /\ t.status = s.status
    BY <1>0, <2>1 DEF Machine
  <2>3. t \in Machine  BY <1>0, MacrosTyped
  <2> HIDE DEF t
  <2>4. Good(t) /\ Depth(t) = Depth(s) /\ RDepth(t) = RDepth(s) + 1
    <3>1. RDepth(s) + 1 \in Nat  BY <1>0
    <3> HIDE DEF Depth, RDepth
    <3> QED  BY <1>0, <2>0, <2>2, <2>3, <3>1, GoodIs
  <2>5. Rest(t) = Rest(s)
    BY <1>0, <1>s, <2>0, <2>2, SameRest
  <2>6. Params(t) = Params(s)
    <3>1. ASSUME NEW j \in 1 .. Depth(s)
          PROVE  Rd32(t.mem, t.sp + 4 * (j - 1)) = Rd32(s.mem, s.sp + 4 * (j - 1))
      <4> DEFINE b == s.sp + 4 * (j - 1)
      <4>1. b \in Addr /\ s.sp <= b
        <5>1. b \in Addr  BY Places
        <5> QED  BY <5>1, <1>0, <1>s
      <4>2. s.rp + 2 <= b
        <5>1. b \in Nat  BY <4>1 DEF Addr
        <5> HIDE DEF b
        <5> QED  BY <4>1, <5>1, <2>0, <1>s
      <4>3. 2 \in {1, 2, 4}  OBVIOUS
      <4> QED  BY <1>0, <1>1, <2>2, <4>1, <4>2, <4>3, ReadElsewhere
    <3> QED  BY <2>4, <3>1, SameParams
  <2>7. Rets(t) = Append(Rets(s), a % HALF)
    <3>1. /\ Rets(t) \in Seq(Word) /\ Len(Rets(t)) = RDepth(s) + 1
          /\ Rets(s) \in Seq(Word) /\ Len(Rets(s)) = RDepth(s)
          /\ \A j \in 1 .. RDepth(s) + 1 : Rets(t)[j] = Rd16(t.mem, RP0 + 2 * (j - 1))
          /\ \A j \in 1 .. RDepth(s) : Rets(s)[j] = Rd16(s.mem, RP0 + 2 * (j - 1))
      BY <2>4, Views
    <3>2. a % HALF \in Word  BY ModHalf, Sizes
    <3> DEFINE q == Append(Rets(s), a % HALF)
    <3>3. /\ q \in Seq(Word) /\ Len(q) = RDepth(s) + 1
          /\ \A j \in 1 .. RDepth(s) : q[j] = Rets(s)[j]
          /\ q[RDepth(s) + 1] = a % HALF
      BY <3>1, <3>2, AppendProperties
    <3> HIDE DEF q
    <3>4. ASSUME NEW j \in 1 .. RDepth(s) + 1
          PROVE  Rets(t)[j] = q[j]
      <4>1. CASE j = RDepth(s) + 1
        <5>1. RP0 + 2 * (j - 1) = s.rp  BY <4>1, <1>0
        <5>2. Rets(t)[j] = a % HALF  BY <3>1, <5>1, <2>2, <1>0, <1>1, ReadBack
        <5> QED  BY <3>3, <4>1, <5>2
      <4>2. CASE j # RDepth(s) + 1
        <5>0. j \in 1 .. RDepth(s)
          <6> HIDE DEF RDepth
          <6> QED  BY <1>0, <4>2
        <5> DEFINE b == RP0 + 2 * (j - 1)
        <5>1. b \in Addr /\ b + 2 <= s.rp  BY <5>0, Places
        <5>2. Rd16(t.mem, b) = Rd16(s.mem, b)
          <6>1. 2 \in {1, 2, 4}  OBVIOUS
          <6> QED  BY <1>0, <1>1, <2>2, <5>1, <6>1, ReadElsewhere
        <5> QED  BY <3>1, <3>3, <5>0, <5>2
      <4> QED  BY <4>1, <4>2
    <3>5. Rets(t) = q
      <4> HIDE DEF RDepth
      <4> QED  BY <3>1, <3>3, <3>4, SeqEqual
    <3> QED  BY <3>5 DEF q
  <2> QED  BY <2>2, <2>4, <2>5, <2>6, <2>7
<1> QED  BY <1>2, <1>3

(* A pop of a return address jumps to it, or stops when there is none.      *)
LEMMA PopRetView ==
  ASSUME NEW s, Good(s), Running(s)
  PROVE  LET t == PopRet(TRUE, s) IN
         /\ RDepth(s) > 0 =>
              /\ Good(t) /\ Params(t) = Params(s) /\ Rets(t) = SubSeq(Rets(s), 1, RDepth(s) - 1)
              /\ Rest(t) = Rest(s) /\ t.ip = Rets(s)[RDepth(s)] /\ t.status = s.status
         /\ RDepth(s) = 0 => t = Stop(s, "stack")
<1>0. /\ SP0 \in Nat /\ RP0 \in Nat /\ RP0 >= 4 /\ SP0 < MEM /\ MEM \in Nat
      /\ s \in Machine /\ s.mem \in Memory
      /\ Depth(s) \in Nat /\ RDepth(s) \in Nat /\ s.sp = SP0 - 4 * Depth(s)
      /\ s.rp = RP0 + 2 * RDepth(s) /\ s.rp <= s.sp
  BY WvmAssumption DEF Good, Machine
<1>s. s.sp \in Nat /\ s.rp \in Nat  BY <1>0, MachineFacts
<1> DEFINE t == PopRet(TRUE, s)
<1>1. Plus(s.rp, -2) = s.rp - 2
  <2>1. s.rp - 2 \in Nat /\ s.rp - 2 <= SP0 + 4 /\ s.rp + (-2) = s.rp - 2
    <3> HIDE DEF Depth, RDepth
    <3> QED  BY <1>0, <1>s
  <2> QED  BY <2>1, NoWrap DEF Plus
<1>2. ASSUME RDepth(s) = 0 PROVE t = Stop(s, "stack")
  BY <1>0, <1>1, <1>2 DEF PopRet
<1>3. ASSUME RDepth(s) > 0
      PROVE  /\ Good(t) /\ Params(t) = Params(s) /\ Rets(t) = SubSeq(Rets(s), 1, RDepth(s) - 1)
             /\ Rest(t) = Rest(s) /\ t.ip = Rets(s)[RDepth(s)] /\ t.status = s.status
  <2>0. RDepth(s) - 1 \in Nat /\ s.rp - 2 = RP0 + 2 * (RDepth(s) - 1) /\ RP0 <= s.rp - 2
        /\ s.rp - 2 <= s.sp
    <3> HIDE DEF Depth, RDepth
    <3> QED  BY <1>0, <1>s, <1>3
  <2>1. t = [s EXCEPT !.rp = s.rp - 2, !.ip = Rd16(s.mem, s.rp - 2)]
    <3>1. ~(s.rp - 2 < RP0)  BY <1>0, <1>s, <2>0
    <3> QED  BY <1>1, <3>1 DEF PopRet
  <2>2. /\ t.rp = s.rp - 2 /\ t.mem = s.mem /\ t.sp = s.sp /\ t.status = s.status
        /\ t.ip = Rd16(s.mem, RP0 + 2 * (RDepth(s) - 1))
    BY <1>0, <2>0, <2>1 DEF Machine
  <2>3. t \in Machine  BY <1>0, MacrosTyped
  <2> HIDE DEF t
  <2>4. Good(t) /\ Depth(t) = Depth(s) /\ RDepth(t) = RDepth(s) - 1
    <3> HIDE DEF Depth, RDepth
    <3> QED  BY <1>0, <2>0, <2>2, <2>3, GoodIs
  <2>5. Rest(t) = Rest(s) /\ Params(t) = Params(s)
    BY <2>2, <2>4, SameParams DEF Rest
  <2>6. Rets(t) = SubSeq(Rets(s), 1, RDepth(s) - 1) /\ t.ip = Rets(s)[RDepth(s)]
    <3>1. /\ Rets(t) \in Seq(Word) /\ Len(Rets(t)) = RDepth(s) - 1
          /\ Rets(s) \in Seq(Word) /\ Len(Rets(s)) = RDepth(s)
          /\ \A j \in 1 .. RDepth(s) - 1 : Rets(t)[j] = Rd16(t.mem, RP0 + 2 * (j - 1))
          /\ \A j \in 1 .. RDepth(s) : Rets(s)[j] = Rd16(s.mem, RP0 + 2 * (j - 1))
      BY <2>4, Views
    <3> DEFINE q == SubSeq(Rets(s), 1, RDepth(s) - 1)
    <3>2. /\ q \in Seq(Word) /\ Len(q) = RDepth(s) - 1
          /\ \A j \in 1 .. RDepth(s) - 1 : q[j] = Rets(s)[j]
      <4>1. \A j \in 1 .. RDepth(s) - 1 : j \in 1 .. RDepth(s) /\ Rets(s)[j] \in Word
        BY <3>1, <1>0, ElementOfSeq
      <4>2. RDepth(s) - 1 \in Int /\ 1 \in Int  BY <1>0
      <4> HIDE DEF RDepth
      <4>3. /\ q \in Seq(Word)
            /\ Len(q) = IF 1 <= RDepth(s) - 1 THEN (RDepth(s) - 1) - 1 + 1 ELSE 0
            /\ \A j \in 1 .. (RDepth(s) - 1) - 1 + 1 : q[j] = Rets(s)[1 + j - 1]
        BY <4>1, <4>2, SubSeqProperties
      <4> HIDE DEF q
      <4>4. \A j \in 1 .. RDepth(s) - 1 : j \in 1 .. (RDepth(s) - 1) - 1 + 1 /\ 1 + j - 1 = j
        BY <4>2
      <4> QED  BY <2>0, <4>2, <4>3, <4>4
    <3> HIDE DEF q
    <3>3. ASSUME NEW j \in 1 .. RDepth(s) - 1
          PROVE  Rets(t)[j] = q[j]
      <4>1. j \in 1 .. RDepth(s)  BY <1>0
      <4> QED  BY <2>2, <3>1, <3>2, <4>1
    <3>4. Rets(t) = q
      <4> HIDE DEF RDepth
      <4> QED  BY <3>1, <3>2, <3>3, SeqEqual
    <3>5. RDepth(s) \in 1 .. RDepth(s)
      <4> HIDE DEF RDepth
      <4> QED  BY <1>0, <1>3
    <3> QED  BY <2>2, <3>1, <3>4, <3>5 DEF q
  <2> QED  BY <2>2, <2>4, <2>5, <2>6
<1> QED  BY <1>0, <1>2, <1>3

(* What does not touch the stacks.                                          *)
LEMMA PlainView ==
  ASSUME NEW s, Good(s), NEW a \in Word, NEW st \in Status
  PROVE  /\ LET t == [s EXCEPT !.ip = a] IN
              /\ Good(t) /\ Params(t) = Params(s) /\ Rets(t) = Rets(s) /\ Rest(t) = Rest(s)
              /\ t.ip = a /\ t.status = s.status /\ t.mem = s.mem /\ t.sp = s.sp /\ t.rp = s.rp
              /\ Depth(t) = Depth(s) /\ RDepth(t) = RDepth(s)
         /\ LET t == Stop(s, st) IN
              /\ Good(t) /\ Params(t) = Params(s) /\ Rets(t) = Rets(s) /\ Rest(t) = Rest(s)
              /\ t.ip = s.ip /\ t.status = st
<1>1. \A t \in Machine : t.mem = s.mem /\ t.sp = s.sp /\ t.rp = s.rp =>
        /\ Good(t) /\ Params(t) = Params(s) /\ Rets(t) = Rets(s) /\ Rest(t) = Rest(s)
        /\ Depth(t) = Depth(s) /\ RDepth(t) = RDepth(s)
  BY DEF Good, Params, Rets, Rest, Depth, RDepth
<1>2. s \in Machine  BY DEF Good
<1> DEFINE j == [s EXCEPT !.ip = a]  h == Stop(s, st)
<1>3. j \in Machine /\ j.mem = s.mem /\ j.sp = s.sp /\ j.rp = s.rp /\ j.ip = a /\ j.status = s.status
  BY <1>2 DEF Machine
<1>4. h \in Machine /\ h.mem = s.mem /\ h.sp = s.sp /\ h.rp = s.rp /\ h.ip = s.ip /\ h.status = st
  BY <1>2 DEF Machine, Stop
<1> HIDE DEF j, h
<1> QED  BY <1>1, <1>3, <1>4 DEF j, h

(* The data after a store of n bytes.                                       *)
Stored(f, a, n, v) ==
  [x \in DOMAIN f |-> IF x - a \in 0 .. n - 1 THEN ByteAt(v, x - a) ELSE f[x]]

(* t is s after a store of n bytes of v at a.                               *)
Poked(t, s, a, n, v) ==
  /\ Good(t) /\ Params(t) = Params(s) /\ Rets(t) = Rets(s)
  /\ t.ip = s.ip /\ t.status = s.status
  /\ Rest(t) = Stored(Rest(s), a, n, v)

(* A write to the data leaves the stacks.                                   *)
LEMMA PokeView ==
  ASSUME NEW s, Good(s), Running(s), NEW a \in Nat, NEW n \in {1, 2, 4}, NEW v \in Word,
         a .. a + 3 \subseteq Data
  PROVE  Poked(Poke(s, a, n, v), s, a, n, v)
<1>0. /\ SP0 \in Nat /\ RP0 \in Nat /\ SP0 < MEM /\ MEM \in Nat
      /\ s \in Machine /\ s.mem \in Memory
      /\ Data \subseteq Addr \ (RP0 .. SP0 - 1)
      /\ Depth(s) \in Nat /\ RDepth(s) \in Nat
      /\ s.sp = SP0 - 4 * Depth(s) /\ s.rp = RP0 + 2 * RDepth(s) /\ s.rp <= s.sp
  BY WvmAssumption DEF Good, Machine
<1>s. s.sp \in Nat /\ s.rp \in Nat  BY <1>0, MachineFacts
<1> DEFINE t == Poke(s, a, n, v)
<1>1. \A x \in a .. a + n - 1 : x \in Addr /\ x \notin RP0 .. SP0 - 1
  <2>1. \A x \in a .. a + n - 1 : x \in a .. a + 3  OBVIOUS
  <2> QED  BY <1>0, <2>1
<1>2. a \in Addr
  <2>1. a \in a .. a + n - 1  OBVIOUS
  <2> QED  BY <1>1, <2>1
<1>3. t = [s EXCEPT !.mem = Wr(s.mem, a, n, v)]  BY DEF Poke
<1>4. t.mem = Wr(s.mem, a, n, v) /\ t.sp = s.sp /\ t.rp = s.rp /\ t.ip = s.ip /\ t.status = s.status
  BY <1>0, <1>3 DEF Machine
<1>5. t \in Machine
  <2>1. a \in Word
    <3>1. a < WORD
      <4> HIDE DEF WORD, HALF
      <4> QED  BY <1>2, WvmAssumption, Sizes DEF Addr
    <3> QED  BY <3>1, Sizes
  <2> QED  BY <1>0, <2>1, MacrosTyped
<1> HIDE DEF t
<1>6. Good(t) /\ Depth(t) = Depth(s) /\ RDepth(t) = RDepth(s)
  <2> HIDE DEF Depth, RDepth
  <2> QED  BY <1>0, <1>4, <1>5, GoodIs
<1>7. \A b, k \in Nat : RP0 <= b /\ b + k <= SP0 /\ k > 0 => b + k <= a \/ a + n <= b
  <2> SUFFICES ASSUME NEW b \in Nat, NEW k \in Nat, RP0 <= b, b + k <= SP0, k > 0
               PROVE  b + k <= a \/ a + n <= b
      OBVIOUS
  <2>1. \A x \in a .. a + n - 1 : x < RP0 \/ x >= SP0
    BY <1>0, <1>1
  <2>2. n \in Nat /\ n <= 4 /\ n >= 1  OBVIOUS
  <2>3. CASE a >= SP0  BY <1>0, <2>3
  <2>4. CASE a < RP0
    <3>1. CASE RP0 <= a + n - 1
      <4>1. RP0 \in a .. a + n - 1  BY <1>0, <2>2, <2>4, <3>1
      <4>2. RP0 < SP0  BY <1>0
      <4> QED  BY <1>0, <2>1, <4>1, <4>2
    <3>2. CASE RP0 > a + n - 1  BY <1>0, <2>2, <3>2
    <3> QED  BY <1>0, <2>2, <3>1, <3>2
  <2>5. a \in a .. a + n - 1  BY <2>2
  <2> QED  BY <1>0, <2>1, <2>3, <2>4, <2>5
<1>8. Params(t) = Params(s)
  <2>1. ASSUME NEW j \in 1 .. Depth(s)
        PROVE  Rd32(t.mem, t.sp + 4 * (j - 1)) = Rd32(s.mem, s.sp + 4 * (j - 1))
    <3> DEFINE b == s.sp + 4 * (j - 1)
    <3>1. b \in Addr /\ s.rp <= b /\ b + 4 <= SP0  BY Places
    <3>2. b \in Nat  BY <3>1 DEF Addr
    <3>3. RP0 <= b
      <4> HIDE DEF b, Depth, RDepth
      <4> QED  BY <1>0, <1>s, <3>1, <3>2
    <3>4. b + 4 <= a \/ a + n <= b
      <4>1. 4 \in Nat /\ 4 > 0  OBVIOUS
      <4> QED  BY <1>7, <3>1, <3>2, <3>3, <4>1
    <3> QED  BY <1>0, <1>2, <1>4, <3>1, <3>4, ReadElsewhere
  <2> QED  BY <1>6, <2>1, SameParams
<1>9. Rets(t) = Rets(s)
  <2>1. ASSUME NEW j \in 1 .. RDepth(s)
        PROVE  Rd16(t.mem, RP0 + 2 * (j - 1)) = Rd16(s.mem, RP0 + 2 * (j - 1))
    <3> DEFINE b == RP0 + 2 * (j - 1)
    <3>1. b \in Addr /\ RP0 <= b /\ b + 2 <= s.rp  BY Places
    <3>2. b \in Nat /\ s.sp <= SP0  BY <3>1, <1>0 DEF Addr
    <3>3. b + 2 <= SP0
      <4> HIDE DEF b, Depth, RDepth
      <4> QED  BY <1>0, <1>s, <3>1, <3>2
    <3>4. b + 2 <= a \/ a + n <= b
      <4>1. 2 \in Nat /\ 2 > 0  OBVIOUS
      <4> QED  BY <1>7, <3>1, <3>2, <3>3, <4>1
    <3> QED  BY <1>0, <1>2, <1>4, <3>1, <3>4, ReadElsewhere
  <2> QED  BY <1>6, <2>1, SameRets
<1>10. Rest(t) = Stored(Rest(s), a, n, v)
  <2>1. DOMAIN t.mem = 0 .. MEM + 2 /\ DOMAIN s.mem = 0 .. MEM + 2
    BY <1>0, <1>5 DEF Machine, Memory
  <2>2. \A x \in 0 .. MEM + 2 : t.mem[x] =
          IF x - a \in 0 .. n - 1 THEN ByteAt(v, x - a) ELSE s.mem[x]
    <3>1. \A x \in 0 .. MEM + 2 :
           /\ x \in a .. a + n - 1 => t.mem[x] = ByteAt(v, x - a)
           /\ x \notin a .. a + n - 1 => t.mem[x] = s.mem[x]
      BY <1>0, <1>2, <1>4, Written
    <3>2. \A x \in 0 .. MEM + 2 : x - a \in 0 .. n - 1 <=> x \in a .. a + n - 1
      BY <1>0
    <3> HIDE DEF ByteAt
    <3> QED  BY <3>1, <3>2
  <2> HIDE DEF ByteAt
  <2> QED  BY <2>1, <2>2 DEF Rest, Stored
<1>11. Poked(t, s, a, n, v)  BY <1>4, <1>6, <1>8, <1>9, <1>10 DEF Poked
<1> QED  BY <1>11 DEF t

(* A write to the word on top changes that word alone.                      *)
LEMMA PokeTop ==
  ASSUME NEW s, Good(s), Running(s), NEW v \in Word, Depth(s) >= 1
  PROVE  LET t == Poke(s, s.sp, 4, v) IN
         /\ Good(t) /\ Params(t) = <<v>> \o SubSeq(Params(s), 2, Depth(s)) /\ Else(t, s)
<1>0. /\ SP0 \in Nat /\ RP0 \in Nat /\ SP0 < MEM /\ MEM \in Nat
      /\ s \in Machine /\ s.mem \in Memory
      /\ Depth(s) \in Nat /\ RDepth(s) \in Nat
      /\ s.sp = SP0 - 4 * Depth(s) /\ s.rp = RP0 + 2 * RDepth(s) /\ s.rp <= s.sp
  BY WvmAssumption DEF Good, Machine
<1>s. s.sp \in Nat /\ s.rp \in Nat /\ s.sp \in Word  BY <1>0, MachineFacts
<1> DEFINE t == Poke(s, s.sp, 4, v)
<1>1. s.sp \in Addr /\ RP0 <= s.sp /\ s.sp + 4 <= SP0
  <2> HIDE DEF Depth, RDepth
  <2> QED  BY <1>0, <1>s DEF Addr
<1>w. 4 \in {1, 2, 4}  OBVIOUS
<1>2. t = [s EXCEPT !.mem = Wr(s.mem, s.sp, 4, v)]  BY DEF Poke
<1>3. t.mem = Wr(s.mem, s.sp, 4, v) /\ t.sp = s.sp /\ t.rp = s.rp /\ t.ip = s.ip /\ t.status = s.status
  BY <1>0, <1>2 DEF Machine
<1>4. t \in Machine  BY <1>0, <1>s, <1>w, MacrosTyped
<1> HIDE DEF t
<1>5. Good(t) /\ Depth(t) = Depth(s) /\ RDepth(t) = RDepth(s)
  <2> HIDE DEF Depth, RDepth
  <2> QED  BY <1>0, <1>3, <1>4, GoodIs
<1>6. Rest(t) = Rest(s)  BY <1>0, <1>s, <1>1, <1>3, <1>w, SameRest
<1>7. Rets(t) = Rets(s)
  <2>1. ASSUME NEW j \in 1 .. RDepth(s)
        PROVE  Rd16(t.mem, RP0 + 2 * (j - 1)) = Rd16(s.mem, RP0 + 2 * (j - 1))
    <3> DEFINE b == RP0 + 2 * (j - 1)
    <3>1. b \in Addr /\ b + 2 <= s.rp  BY Places
    <3>2. b + 2 <= s.sp
      <4>1. b \in Nat  BY <3>1 DEF Addr
      <4> HIDE DEF b
      <4> QED  BY <1>0, <1>s, <3>1, <4>1
    <3> QED  BY <1>0, <1>1, <1>3, <1>w, <3>1, <3>2, ReadElsewhere
  <2> QED  BY <1>5, <2>1, SameRets
<1>8. Params(t) = <<v>> \o SubSeq(Params(s), 2, Depth(s))
  <2>1. /\ Params(t) \in Seq(Word) /\ Len(Params(t)) = Depth(s)
        /\ Params(s) \in Seq(Word) /\ Len(Params(s)) = Depth(s)
        /\ \A j \in 1 .. Depth(s) : Params(t)[j] = Rd32(t.mem, t.sp + 4 * (j - 1))
        /\ \A j \in 1 .. Depth(s) : Params(s)[j] = Rd32(s.mem, s.sp + 4 * (j - 1))
    BY <1>5, Views
  <2>2. 1 \in 1 .. Depth(s) /\ Depth(s) \in 1 .. Depth(s)
    <3> HIDE DEF Depth
    <3> QED  BY <1>0
  <2>3. Params(t)[1] = v
    <3>1. t.sp + 4 * (1 - 1) = s.sp  BY <1>s, <1>3
    <3>2. Rd32(t.mem, s.sp) = v  BY <1>0, <1>1, <1>3, ReadBack
    <3> QED  BY <2>1, <2>2, <3>1, <3>2
  <2>4. ASSUME NEW j \in 1 .. Depth(s), j # 1 PROVE Params(t)[j] = Params(s)[j]
    <3> DEFINE b == s.sp + 4 * (j - 1)
    <3>1. b \in Addr  BY Places
    <3>2. s.sp + 4 <= b
      <4> HIDE DEF Depth
      <4> QED  BY <1>0, <1>s, <2>4
    <3>3. Rd32(t.mem, b) = Rd32(s.mem, b)  BY <1>0, <1>1, <1>3, <1>w, <3>1, <3>2, ReadElsewhere
    <3> QED  BY <1>3, <2>1, <3>3
  <2>5. Params(t) = SubSeq(Params(t), 1, Depth(s))  BY <2>1, SubSeqFull
  <2>6. SubSeq(Params(t), 1, Depth(s)) = <<Params(t)[1]>> \o SubSeq(Params(t), 1 + 1, Depth(s))
    BY <2>1, <2>2, SubSeqRecursiveFirst
  <2>7. SubSeq(Params(t), 2, Depth(s)) = SubSeq(Params(s), 2, Depth(s))
    <3>0. 2 \in Int /\ Depth(s) \in Int  BY <1>0
    <3>1. \A j \in 2 .. Depth(s) : j \in 1 .. Depth(s) /\ j # 1
      <4> HIDE DEF Depth
      <4> QED  BY <1>0
    <3>2. \A j \in 2 .. Depth(s) : Params(t)[j] = Params(s)[j] /\ Params(t)[j] \in Word
      BY <2>1, <2>4, <3>1, ElementOfSeq
    <3> DEFINE x == SubSeq(Params(t), 2, Depth(s))  y == SubSeq(Params(s), 2, Depth(s))
    <3>3. /\ x \in Seq(Word) /\ Len(x) = IF 2 <= Depth(s) THEN Depth(s) - 2 + 1 ELSE 0
          /\ \A j \in 1 .. Depth(s) - 2 + 1 : x[j] = Params(t)[2 + j - 1]
      BY <3>0, <3>2, SubSeqProperties
    <3>4. /\ y \in Seq(Word) /\ Len(y) = IF 2 <= Depth(s) THEN Depth(s) - 2 + 1 ELSE 0
          /\ \A j \in 1 .. Depth(s) - 2 + 1 : y[j] = Params(s)[2 + j - 1]
      BY <3>0, <3>2, SubSeqProperties
    <3> HIDE DEF x, y
    <3>5. ASSUME NEW j \in 1 .. Len(x) PROVE x[j] = y[j]
      <4> HIDE DEF Depth
      <4>1. j \in 1 .. Depth(s) - 2 + 1 /\ 2 + j - 1 \in 2 .. Depth(s)
        BY <3>0, <3>3
      <4> QED  BY <3>2, <3>3, <3>4, <4>1
    <3>6. x = y  BY <3>3, <3>4, <3>5, SeqEqual
    <3> QED  BY <3>6 DEF x, y
  <2>8. 1 + 1 = 2  OBVIOUS
  <2> QED  BY <2>3, <2>5, <2>6, <2>7, <2>8
<1> QED  BY <1>3, <1>5, <1>6, <1>7, <1>8 DEF t, Else

-----------------------------------------------------------------------------
(* t has taken the first n - 1 entries of s and left g in their place.      *)
Took(t, s, g, n) ==
  /\ Good(t) /\ Else(t, s) /\ g \in Seq(Word) /\ n \in 1 .. Depth(s) + 1
  /\ Params(t) = g \o SubSeq(Params(s), n, Depth(s))

(* t stopped with st after it took some entries of s.                       *)
Dead(t, s, st) ==
  /\ Good(t) /\ Rets(t) = Rets(s) /\ Rest(t) = Rest(s) /\ t.status = st
  /\ \E n \in 1 .. Depth(s) + 1 : Params(t) = SubSeq(Params(s), n, Depth(s))

(* The sizes of the stacks after an instruction took and gave.              *)
LEMMA TookSizes ==
  ASSUME NEW s, Good(s), NEW t, NEW g, NEW n, Took(t, s, g, n)
  PROVE  /\ Depth(t) = Len(g) + Depth(s) + 1 - n /\ RDepth(t) = RDepth(s)
         /\ Len(g) \in Nat /\ Depth(s) \in Nat /\ n \in Nat /\ RDepth(s) \in Nat
         /\ SubSeq(Params(s), n, Depth(s)) \in Seq(Word)
         /\ Len(SubSeq(Params(s), n, Depth(s))) = Depth(s) + 1 - n
<1>0. /\ Good(t) /\ Rets(t) = Rets(s) /\ g \in Seq(Word) /\ n \in 1 .. Depth(s) + 1
      /\ Params(t) = g \o SubSeq(Params(s), n, Depth(s))
  BY DEF Took, Else
<1>1. /\ Params(s) \in Seq(Word) /\ Len(Params(s)) = Depth(s) /\ Depth(s) \in Nat
      /\ Len(Rets(s)) = RDepth(s) /\ Len(Rets(t)) = RDepth(t) /\ Len(Params(t)) = Depth(t)
      /\ RDepth(s) \in Nat
  BY <1>0, Views DEF Good
<1> HIDE DEF Depth, RDepth, Word
<1>2. n \in Nat /\ n >= 1 /\ n <= Depth(s) + 1  BY <1>0, <1>1
<1>3. \A j \in n .. Depth(s) : j \in 1 .. Len(Params(s))  BY <1>1, <1>2
<1>4. \A j \in n .. Depth(s) : Params(s)[j] \in Word
  BY <1>1, <1>3, ElementOfSeq
<1>5. n \in Int /\ Depth(s) \in Int  BY <1>1, <1>2
<1> DEFINE q == SubSeq(Params(s), n, Depth(s))
<1>6. q \in Seq(Word) /\ Len(q) = IF n <= Depth(s) THEN Depth(s) - n + 1 ELSE 0
  BY <1>4, <1>5, SubSeqProperties
<1>7. Len(g \o q) = Len(g) + Len(q) /\ Len(g) \in Nat
  BY <1>0, <1>6, ConcatProperties, LenProperties
<1>8. Len(q) = Depth(s) + 1 - n  BY <1>1, <1>2, <1>6
<1>9. Depth(t) = Len(g) + Len(q)  BY <1>0, <1>1, <1>7
<1>10. Depth(t) = Len(g) + Depth(s) + 1 - n  BY <1>1, <1>2, <1>7, <1>8, <1>9
<1>11. RDepth(t) = RDepth(s)  BY <1>0, <1>1
<1> QED  BY <1>1, <1>2, <1>6, <1>7, <1>8, <1>10, <1>11

(* A machine is itself with nothing taken and nothing given.                *)
LEMMA TookNone ==
  ASSUME NEW s, Good(s)
  PROVE  Took(s, s, <<>>, 1)
<1>1. Params(s) \in Seq(Word) /\ Len(Params(s)) = Depth(s) /\ Depth(s) \in Nat  BY Views DEF Good
<1>2. <<>> \o SubSeq(Params(s), 1, Depth(s)) = Params(s)
  BY <1>1, SubSeqFull, ConcatEmptySeq
<1>3. <<>> \in Seq(Word)  BY EmptySeq
<1>4. 1 \in 1 .. Depth(s) + 1
  <2> HIDE DEF Depth
  <2> QED  BY <1>1
<1> QED  BY <1>2, <1>3, <1>4 DEF Took, Else

(* A POP takes one word more, or finds the stack empty.                     *)
LEMMA TookPop ==
  ASSUME NEW s, Good(s), NEW t, NEW n, Took(t, s, <<>>, n), Running(t)
  PROVE  /\ n <= Depth(s) => Took(Pop(TRUE, t), s, <<>>, n + 1)
         /\ n > Depth(s) => Pop(TRUE, t) = Stop(t, "stack")
<1>0. /\ Good(t) /\ Else(t, s) /\ n \in 1 .. Depth(s) + 1
      /\ Params(t) = <<>> \o SubSeq(Params(s), n, Depth(s))
  BY DEF Took
<1>1. /\ Depth(t) = Len(<<>>) + Depth(s) + 1 - n
      /\ Depth(s) \in Nat /\ n \in Nat
      /\ SubSeq(Params(s), n, Depth(s)) \in Seq(Word)
  BY TookSizes
<1>2. /\ Params(s) \in Seq(Word) /\ Len(Params(s)) = Depth(s)
      /\ Params(t) \in Seq(Word) /\ Len(Params(t)) = Depth(t)  BY <1>0, Views
<1>3. Params(t) = SubSeq(Params(s), n, Depth(s))
  BY <1>0, <1>1, ConcatEmptySeq
<1>4. Len(<<>>) = 0 /\ <<>> \in Seq(Word)  BY EmptySeq
<1>5. Depth(t) = Depth(s) + 1 - n /\ n <= Depth(s) + 1 /\ n >= 1
  <2> HIDE DEF Depth
  <2> QED  BY <1>0, <1>1, <1>4
<1>6. ASSUME n > Depth(s) PROVE Pop(TRUE, t) = Stop(t, "stack")
  <2>1. Depth(t) = 0
    <3> HIDE DEF Depth
    <3> QED  BY <1>1, <1>5, <1>6
  <2> QED  BY <1>0, <2>1, PopView
<1>7. ASSUME n <= Depth(s) PROVE Took(Pop(TRUE, t), s, <<>>, n + 1)
  <2> DEFINE u == Pop(TRUE, t)
  <2>1. Depth(t) > 0 /\ n + 1 \in 1 .. Depth(s) + 1 /\ n \in 1 .. Depth(s) /\ Depth(s) \in 1 .. Depth(s)
        /\ Depth(s) \in n .. Depth(s) /\ n \in Int
    <3> HIDE DEF Depth
    <3> QED  BY <1>1, <1>5, <1>7
  <2>2. Good(u) /\ Params(u) = SubSeq(Params(t), 2, Depth(t)) /\ Else(u, t)
    BY <1>0, <2>1, PopView
  <2>3. SubSeq(Params(t), 2, Depth(t)) = SubSeq(Params(s), n + 1, Depth(s))
    <3>1. Params(t) # <<>>
      <4> HIDE DEF Depth
      <4> QED  BY <1>2, <1>4, <2>1
    <3>2. Tail(Params(t)) = SubSeq(Params(t), 2, Depth(t))
      BY <1>2, <3>1, TailIsSubSeq
    <3>3. Tail(SubSeq(Params(s), n, Depth(s))) = SubSeq(Params(s), n + 1, Depth(s))
      BY <1>2, <2>1, HeadTailOfSubSeq
    <3> QED  BY <1>3, <3>2, <3>3
  <2>4. SubSeq(Params(s), n + 1, Depth(s)) \in Seq(Word)
    <3>1. SubSeq(Params(t), 2, Depth(t)) \in Seq(Word)  BY <2>2, Views
    <3> QED  BY <2>3, <3>1
  <2>5. Params(u) = <<>> \o SubSeq(Params(s), n + 1, Depth(s))
    BY <2>2, <2>3, <2>4, ConcatEmptySeq
  <2>6. Else(u, s)  BY <1>0, <2>2 DEF Else
  <2> QED  BY <1>4, <2>1, <2>2, <2>5, <2>6 DEF Took
<1> QED  BY <1>6, <1>7

(* A PUSH gives one word more, or finds no room.                            *)
LEMMA TookPush ==
  ASSUME NEW s, Good(s), NEW t, NEW g, NEW n, Took(t, s, g, n), Running(t), NEW v \in Word
  PROVE  /\ 4 * (Len(g) + Depth(s) + 2 - n) + 2 * RDepth(s) <= SP0 - RP0 =>
              Took(Push(TRUE, t, v), s, <<v>> \o g, n)
         /\ 4 * (Len(g) + Depth(s) + 2 - n) + 2 * RDepth(s) > SP0 - RP0 =>
              Push(TRUE, t, v) = Stop(t, "stack")
<1>0. /\ Good(t) /\ Else(t, s) /\ n \in 1 .. Depth(s) + 1 /\ g \in Seq(Word)
      /\ Params(t) = g \o SubSeq(Params(s), n, Depth(s))
  BY DEF Took
<1>1. /\ Depth(t) = Len(g) + Depth(s) + 1 - n
      /\ Len(g) \in Nat /\ Depth(s) \in Nat /\ n \in Nat /\ RDepth(s) \in Nat /\ RDepth(t) = RDepth(s)
      /\ SubSeq(Params(s), n, Depth(s)) \in Seq(Word)
  BY TookSizes
<1>2. 4 * (Depth(t) + 1) + 2 * RDepth(t) = 4 * (Len(g) + Depth(s) + 2 - n) + 2 * RDepth(s)
  <2> HIDE DEF Depth, RDepth
  <2> QED  BY <1>1
<1> DEFINE u == Push(TRUE, t, v)  q == SubSeq(Params(s), n, Depth(s))
<1>3. ASSUME 4 * (Len(g) + Depth(s) + 2 - n) + 2 * RDepth(s) > SP0 - RP0
      PROVE  u = Stop(t, "stack")
  <2>1. 4 * (Depth(t) + 1) + 2 * RDepth(t) > SP0 - RP0  BY <1>2, <1>3
  <2> HIDE DEF Depth, RDepth
  <2> QED  BY <1>0, <2>1, PushView
<1>4. ASSUME 4 * (Len(g) + Depth(s) + 2 - n) + 2 * RDepth(s) <= SP0 - RP0
      PROVE  Took(u, s, <<v>> \o g, n)
  <2>1. Good(u) /\ Params(u) = <<v>> \o Params(t) /\ Else(u, t)
    BY <1>0, <1>2, <1>4, PushView
  <2>2. <<v>> \in Seq(Word)  OBVIOUS
  <2>3. <<v>> \o g \in Seq(Word)  BY <1>0, <2>2, ConcatProperties
  <2>4. <<v>> \o (g \o q) = (<<v>> \o g) \o q
    <3>1. \A a, b, c \in Seq(Word) : (a \o b) \o c = a \o (b \o c)  BY ConcatAssociative
    <3>2. q \in Seq(Word)  BY <1>1
    <3> HIDE DEF q
    <3> QED  BY <1>0, <2>2, <3>1, <3>2
  <2>5. Else(u, s)  BY <1>0, <2>1 DEF Else
  <2> QED  BY <1>0, <2>1, <2>3, <2>4, <2>5 DEF Took
<1> QED  BY <1>3, <1>4

(* A stop in the middle leaves what was not taken yet.                      *)
LEMMA TookStop ==
  ASSUME NEW s, Good(s), NEW t, NEW n, Took(t, s, <<>>, n), NEW st \in Status
  PROVE  Dead(Stop(t, st), s, st)
<1>0. /\ Good(t) /\ Else(t, s) /\ n \in 1 .. Depth(s) + 1
      /\ Params(t) = <<>> \o SubSeq(Params(s), n, Depth(s))
  BY DEF Took
<1>1. SubSeq(Params(s), n, Depth(s)) \in Seq(Word)  BY TookSizes
<1>2. Params(t) = SubSeq(Params(s), n, Depth(s))  BY <1>0, <1>1, ConcatEmptySeq
<1>3. 0 \in Word  BY Sizes
<1>4. LET h == Stop(t, st) IN
      Good(h) /\ Params(h) = Params(t) /\ Rets(h) = Rets(t) /\ Rest(h) = Rest(t) /\ h.status = st
  BY <1>0, <1>3, PlainView
<1> QED  BY <1>0, <1>2, <1>4 DEF Dead, Else

(* A machine that stopped does nothing any more.                            *)
LEMMA Frozen ==
  ASSUME NEW t, ~Running(t)
  PROVE  /\ \A v : Push(TRUE, t, v) = t /\ PushRet(TRUE, t, v) = t
         /\ Pop(TRUE, t) = t /\ PopRet(TRUE, t) = t
         /\ \A a : CheckAddr(TRUE, t, a) = t /\ Jump(t, a) = t
         /\ \A a, n, v : Poke(t, a, n, v) = t
<1>1. \A v : Push(TRUE, t, v) = t /\ PushRet(TRUE, t, v) = t  BY DEF Push, PushRet
<1>2. Pop(TRUE, t) = t /\ PopRet(TRUE, t) = t  BY DEF Pop, PopRet
<1>3. \A a : CheckAddr(TRUE, t, a) = t /\ Jump(t, a) = t  BY DEF CheckAddr, Jump
<1>4. \A a, n, v : Poke(t, a, n, v) = t  BY DEF Poke
<1> QED  BY <1>1, <1>2, <1>3, <1>4

(* A machine that stopped does not run.                                     *)
LEMMA DeadFrozen ==
  ASSUME NEW t, NEW s, NEW st \in Status \ {"run"}, Dead(t, s, st)
  PROVE  ~Running(t)
BY DEF Dead, Running, Status

(* One that took and gave runs on.                                          *)
LEMMA TookRuns ==
  ASSUME NEW t, NEW s, NEW g, NEW n, Took(t, s, g, n), Running(s)
  PROVE  Running(t) /\ Good(t)
BY DEF Took, Else, Running

(* Short sequences of words.                                                *)
LEMMA Tuples ==
  /\ \A a \in Word : <<a>> \in Seq(Word) /\ Len(<<a>>) = 1 /\ <<a>> \o <<>> = <<a>>
  /\ \A a, b \in Word : <<a, b>> \in Seq(Word) /\ Len(<<a, b>>) = 2 /\ <<a>> \o <<b>> = <<a, b>>
  /\ \A a, b, c \in Word : /\ <<a, b, c>> \in Seq(Word) /\ Len(<<a, b, c>>) = 3
                           /\ <<a>> \o <<b, c>> = <<a, b, c>>
  /\ <<>> \in Seq(Word) /\ Len(<<>>) = 0
<1>1. \A a \in Word : <<a>> \in Seq(Word) /\ Len(<<a>>) = 1  OBVIOUS
<1>2. \A a \in Word : <<a>> \o <<>> = <<a>>  BY <1>1, ConcatEmptySeq
<1>3. \A a, b \in Word : <<a, b>> \in Seq(Word) /\ Len(<<a, b>>) = 2  OBVIOUS
<1>4. ASSUME NEW a \in Word, NEW b \in Word PROVE <<a>> \o <<b>> = <<a, b>>
  <2> DEFINE x == <<a>> \o <<b>>  y == <<a, b>>
  <2>1. <<a>> \in Seq(Word) /\ <<b>> \in Seq(Word) /\ Len(<<a>>) = 1 /\ Len(<<b>>) = 1
        /\ <<a>>[1] = a /\ <<b>>[1] = b
    OBVIOUS
  <2>2. y \in Seq(Word) /\ Len(y) = 2 /\ y[1] = a /\ y[2] = b  OBVIOUS
  <2>3. /\ x \in Seq(Word) /\ Len(x) = 1 + 1
        /\ \A i \in 1 .. 1 + 1 : x[i] = IF i <= 1 THEN <<a>>[i] ELSE <<b>>[i - 1]
    BY <2>1, ConcatProperties
  <2>4. x[1] = a /\ x[2] = b
    <3>1. 1 \in 1 .. 1 + 1 /\ 2 \in 1 .. 1 + 1 /\ ~(2 <= 1) /\ 1 <= 1 /\ 2 - 1 = 1  OBVIOUS
    <3> HIDE DEF x
    <3> QED  BY <2>1, <2>3, <3>1
  <2>5. \A i \in 1 .. Len(x) : x[i] = y[i]
    <3>1. \A i \in 1 .. 1 + 1 : i = 1 \/ i = 2  OBVIOUS
    <3> HIDE DEF x, y
    <3> QED  BY <2>2, <2>3, <2>4, <3>1
  <2>6. Len(x) = Len(y)
    <3> HIDE DEF x, y
    <3> QED  BY <2>2, <2>3
  <2> HIDE DEF x, y
  <2>7. x = y  BY <2>2, <2>3, <2>5, <2>6, SeqEqual
  <2> QED  BY <2>7 DEF x, y
<1>5. \A a, b, c \in Word : <<a, b, c>> \in Seq(Word) /\ Len(<<a, b, c>>) = 3  OBVIOUS
<1>6. ASSUME NEW a \in Word, NEW b \in Word, NEW c \in Word PROVE <<a>> \o <<b, c>> = <<a, b, c>>
  <2> DEFINE x == <<a>> \o <<b, c>>  y == <<a, b, c>>
  <2>1. <<a>> \in Seq(Word) /\ <<b, c>> \in Seq(Word) /\ Len(<<a>>) = 1 /\ Len(<<b, c>>) = 2
        /\ <<a>>[1] = a /\ <<b, c>>[1] = b /\ <<b, c>>[2] = c
    OBVIOUS
  <2>2. y \in Seq(Word) /\ Len(y) = 3 /\ y[1] = a /\ y[2] = b /\ y[3] = c  OBVIOUS
  <2>3. /\ x \in Seq(Word) /\ Len(x) = 1 + 2
        /\ \A i \in 1 .. 1 + 2 : x[i] = IF i <= 1 THEN <<a>>[i] ELSE <<b, c>>[i - 1]
    BY <2>1, ConcatProperties
  <2>4. x[1] = a /\ x[2] = b /\ x[3] = c
    <3>1. /\ 1 \in 1 .. 1 + 2 /\ 2 \in 1 .. 1 + 2 /\ 3 \in 1 .. 1 + 2
          /\ ~(2 <= 1) /\ ~(3 <= 1) /\ 1 <= 1 /\ 2 - 1 = 1 /\ 3 - 1 = 2
      OBVIOUS
    <3> HIDE DEF x
    <3> QED  BY <2>1, <2>3, <3>1
  <2>5. \A i \in 1 .. Len(x) : x[i] = y[i]
    <3>1. \A i \in 1 .. 1 + 2 : i = 1 \/ i = 2 \/ i = 3  OBVIOUS
    <3> HIDE DEF x, y
    <3> QED  BY <2>2, <2>3, <2>4, <3>1
  <2>6. Len(x) = Len(y)
    <3> HIDE DEF x, y
    <3> QED  BY <2>2, <2>3
  <2> HIDE DEF x, y
  <2>7. x = y  BY <2>2, <2>3, <2>5, <2>6, SeqEqual
  <2> QED  BY <2>7 DEF x, y
<1>7. <<>> \in Seq(Word) /\ Len(<<>>) = 0  BY EmptySeq
<1> QED  BY <1>1, <1>2, <1>3, <1>4, <1>5, <1>6, <1>7

(* The pops of an instruction: all of them, or a stop.                      *)
LEMMA Pops ==
  ASSUME NEW s, Good(s), Running(s)
  PROVE  /\ Depth(s) >= 1 => Took(Pop(TRUE, s), s, <<>>, 2)
         /\ Depth(s) < 1  => Dead(Pop(TRUE, s), s, "stack")
         /\ Depth(s) >= 2 => Took(Pop(TRUE, Pop(TRUE, s)), s, <<>>, 3)
         /\ Depth(s) < 2  => Dead(Pop(TRUE, Pop(TRUE, s)), s, "stack")
         /\ Depth(s) >= 3 => Took(Pop(TRUE, Pop(TRUE, Pop(TRUE, s))), s, <<>>, 4)
         /\ Depth(s) < 3  => Dead(Pop(TRUE, Pop(TRUE, Pop(TRUE, s))), s, "stack")
<1> DEFINE t1 == Pop(TRUE, s)  t2 == Pop(TRUE, t1)  t3 == Pop(TRUE, t2)  d == Depth(s)
<1>0. d \in Nat /\ "stack" \in Status /\ "stack" \in Status \ {"run"}  BY DEF Good, Status
<1>1. Took(s, s, <<>>, 1)  BY TookNone
<1>2. /\ 1 <= d => Took(t1, s, <<>>, 1 + 1)
      /\ 1 > d => t1 = Stop(s, "stack")
  BY <1>1, TookPop
<1>3. \A t, n : Took(t, s, <<>>, n) => Dead(Stop(t, "stack"), s, "stack")
  BY <1>0, TookStop
<1>4. \A t : Dead(t, s, "stack") => Pop(TRUE, t) = t
  BY <1>0, DeadFrozen, Frozen
<1>5. \A t, n : Took(t, s, <<>>, n) =>
         /\ n <= d => Took(Pop(TRUE, t), s, <<>>, n + 1)
         /\ n > d => Pop(TRUE, t) = Stop(t, "stack")
  BY TookPop, TookRuns
<1> HIDE DEF t1, t2, t3, d
<1>6. (d >= 1 => Took(t1, s, <<>>, 2)) /\ (d < 1 => Dead(t1, s, "stack"))
  <2>1. 1 + 1 = 2  OBVIOUS
  <2> QED  BY <1>0, <1>1, <1>2, <1>3, <2>1
<1>7. (d >= 2 => Took(t2, s, <<>>, 3)) /\ (d < 2 => Dead(t2, s, "stack"))
  <2>1. CASE d < 1
    <3>1. t2 = t1  BY <1>4, <1>6, <2>1 DEF t2
    <3> QED  BY <1>0, <1>6, <2>1, <3>1
  <2>2. CASE d >= 1
    <3>1. (2 <= d => Took(t2, s, <<>>, 2 + 1)) /\ (2 > d => t2 = Stop(t1, "stack"))
      BY <1>5, <1>6, <2>2 DEF t2
    <3>2. 2 + 1 = 3 /\ (d >= 2 <=> 2 <= d) /\ (d < 2 <=> 2 > d)  BY <1>0
    <3> QED  BY <1>3, <1>6, <2>2, <3>1, <3>2
  <2> QED  BY <1>0, <2>1, <2>2
<1>8. (d >= 3 => Took(t3, s, <<>>, 4)) /\ (d < 3 => Dead(t3, s, "stack"))
  <2>1. CASE d < 2
    <3>1. t3 = t2  BY <1>4, <1>7, <2>1 DEF t3
    <3> QED  BY <1>0, <1>7, <2>1, <3>1
  <2>2. CASE d >= 2
    <3>1. (3 <= d => Took(t3, s, <<>>, 3 + 1)) /\ (3 > d => t3 = Stop(t2, "stack"))
      BY <1>5, <1>7, <2>2 DEF t3
    <3>2. 3 + 1 = 4 /\ (d >= 3 <=> 3 <= d) /\ (d < 3 <=> 3 > d)  BY <1>0
    <3> QED  BY <1>3, <1>7, <2>2, <3>1, <3>2
  <2> QED  BY <1>0, <2>1, <2>2
<1> QED  BY <1>6, <1>7, <1>8 DEF t1, t2, t3, d

(* What there is room for after an instruction.                             *)
Room(s, k) == 4 * k + 2 * RDepth(s) <= SP0 - RP0

(* There is room for what is there already.                                 *)
LEMMA Rooms ==
  ASSUME NEW s, Good(s)
  PROVE  \A k \in Int : k <= Depth(s) => Room(s, k)
<1>1. 4 * Depth(s) + 2 * RDepth(s) <= SP0 - RP0 /\ Depth(s) \in Nat /\ RDepth(s) \in Nat
  BY Places DEF Good
<1>2. SP0 \in Nat /\ RP0 \in Nat  BY WvmAssumption
<1> HIDE DEF Depth, RDepth
<1> QED  BY <1>1, <1>2 DEF Room

(* A push on what an instruction has done so far, by what is left.          *)
LEMMA Pushes ==
  ASSUME NEW s, Good(s), Running(s), NEW t, NEW g, NEW n, Took(t, s, g, n), NEW v \in Word
  PROVE  /\ Room(s, Len(g) + Depth(s) + 2 - n) => Took(Push(TRUE, t, v), s, <<v>> \o g, n)
         /\ ~Room(s, Len(g) + Depth(s) + 2 - n) => Push(TRUE, t, v) = Stop(t, "stack")
<1>1. Running(t)  BY TookRuns
<1>2. Len(g) \in Nat /\ Depth(s) \in Nat /\ n \in Nat /\ RDepth(s) \in Nat  BY TookSizes
<1>3. SP0 \in Nat /\ RP0 \in Nat  BY WvmAssumption
<1> DEFINE k == Len(g) + Depth(s) + 2 - n
<1>4. k \in Int
  <2> HIDE DEF Depth
  <2> QED  BY <1>2
<1>5. /\ 4 * k + 2 * RDepth(s) <= SP0 - RP0 => Took(Push(TRUE, t, v), s, <<v>> \o g, n)
      /\ 4 * k + 2 * RDepth(s) > SP0 - RP0 => Push(TRUE, t, v) = Stop(t, "stack")
  BY <1>1, TookPush
<1> HIDE DEF k, RDepth
<1>6. ~(4 * k + 2 * RDepth(s) <= SP0 - RP0) <=> 4 * k + 2 * RDepth(s) > SP0 - RP0
  BY <1>2, <1>3, <1>4
<1>7. /\ Room(s, k) => Took(Push(TRUE, t, v), s, <<v>> \o g, n)
      /\ ~Room(s, k) => Push(TRUE, t, v) = Stop(t, "stack")
  BY <1>5, <1>6 DEF Room
<1> QED  BY <1>7 DEF k

(* The macros of the SAFE build.                                            *)
SPush(t, v) == Push(TRUE, t, v)
SPop(t)     == Pop(TRUE, t)

(* The same with the length of what is left given.                          *)
LEMMA PushOn ==
  ASSUME NEW s, Good(s), Running(s), NEW t, NEW g, NEW n, Took(t, s, g, n), NEW v \in Word,
         NEW k \in Int, k = Len(g) + Depth(s) + 2 - n
  PROVE  /\ Room(s, k) => Took(SPush(t, v), s, <<v>> \o g, n)
         /\ ~Room(s, k) => SPush(t, v) = Stop(t, "stack")
BY Pushes DEF SPush

(* A machine that stopped ignores the pushes that follow.                   *)
LEMMA DeadPushes ==
  ASSUME NEW t, NEW s, Dead(t, s, "stack"), NEW u, NEW v, NEW w
  PROVE  /\ SPush(t, u) = t /\ SPush(SPush(t, u), v) = t
         /\ SPush(SPush(SPush(t, u), v), w) = t
<1>1. "stack" \in Status \ {"run"}  BY DEF Status
<1>2. ~Running(t)  BY <1>1, DeadFrozen
<1>3. \A x : SPush(t, x) = t  BY <1>2, Frozen DEF SPush
<1> QED  BY <1>3

(* One, two and three POPs.                                                 *)
LEMMA PopsOf ==
  ASSUME NEW s, Good(s), Running(s)
  PROVE  /\ Depth(s) >= 1 => Took(SPop(s), s, <<>>, 2)
         /\ Depth(s) < 1  => Dead(SPop(s), s, "stack")
         /\ Depth(s) >= 2 => Took(SPop(SPop(s)), s, <<>>, 3)
         /\ Depth(s) < 2  => Dead(SPop(SPop(s)), s, "stack")
         /\ Depth(s) >= 3 => Took(SPop(SPop(SPop(s))), s, <<>>, 4)
         /\ Depth(s) < 3  => Dead(SPop(SPop(SPop(s))), s, "stack")
BY Pops DEF SPop

(* The words on top are words, those of an empty stack too.                 *)
LEMMA TopWords ==
  ASSUME NEW s, Good(s)
  PROVE  Top(s) \in Word /\ Second(s) \in Word /\ Third(s) \in Word /\ s \in Machine
BY MachineFacts DEF Good

(* SWAP gives back the two words it took the other way round.               *)
LEMMA SwapView ==
  ASSUME NEW s, Good(s), Running(s)
  PROVE  /\ Depth(s) >= 2 => Took(Swap(TRUE, s), s, <<Second(s), Top(s)>>, 3)
         /\ Depth(s) < 2 => Dead(Swap(TRUE, s), s, "stack")
<1> DEFINE w == Swap(TRUE, s)  d == Depth(s)  t == SPop(SPop(s))  a == Top(s)  b == Second(s)
<1>0. d \in Nat /\ a \in Word /\ b \in Word /\ "stack" \in Status \ {"run"}
  BY TopWords DEF Good, Status
<1>1. (d >= 2 => Took(t, s, <<>>, 3)) /\ (d < 2 => Dead(t, s, "stack"))  BY PopsOf
<1>2. w = SPush(SPush(t, a), b)  BY DEF w, Swap, SPush, SPop
<1>3. Len(<<>>) = 0 /\ <<a>> \o <<>> = <<a>> /\ Len(<<a>>) = 1 /\ <<b>> \o <<a>> = <<b, a>>
  BY <1>0, Tuples
<1>4. /\ Room(s, d - 1) /\ Room(s, d) /\ d \in Int /\ d - 1 \in Int
      /\ d - 1 = 0 + d + 2 - 3 /\ d = 1 + d + 2 - 3
  <2>1. d \in Int /\ d - 1 \in Int /\ d - 1 <= d /\ d <= d /\ d - 1 = 0 + d + 2 - 3 /\ d = 1 + d + 2 - 3  BY <1>0
  <2> QED  BY <2>1, Rooms
<1> HIDE DEF w, t, a, b
<1>5. ASSUME d >= 2 PROVE Took(w, s, <<b, a>>, 3)
  <2>1. Took(SPush(t, a), s, <<a>>, 3)  BY <1>0, <1>1, <1>3, <1>4, <1>5, PushOn
  <2> DEFINE t1 == SPush(t, a)
  <2> HIDE DEF t1
  <2>2. Took(SPush(t1, b), s, <<b, a>>, 3)
    <3>1. d = Len(<<a>>) + Depth(s) + 2 - 3  BY <1>3, <1>4
    <3>2. Took(t1, s, <<a>>, 3)  BY <2>1 DEF t1
    <3>3. Took(SPush(t1, b), s, <<b>> \o <<a>>, 3)  BY <1>0, <1>4, <3>1, <3>2, PushOn
    <3> QED  BY <1>3, <3>3
  <2> QED  BY <1>2, <2>2 DEF t1
<1>6. ASSUME d < 2 PROVE Dead(w, s, "stack")
  <2>1. w = t  BY <1>1, <1>2, <1>6, DeadPushes
  <2> QED  BY <1>1, <1>6, <2>1
<1> QED  BY <1>5, <1>6 DEF w, a, b

(* The two words on top and what is below them.                             *)
LEMMA TopTwo ==
  ASSUME NEW s, Good(s), Depth(s) >= 2
  PROVE  Params(s) = <<Top(s), Second(s)>> \o SubSeq(Params(s), 3, Depth(s))
<1> DEFINE d == Depth(s)  q == SubSeq(Params(s), 3, d)
<1>0. d \in Nat /\ Top(s) \in Word /\ Second(s) \in Word  BY TopWords DEF Good
<1>1. Params(s) \in Seq(Word) /\ Len(Params(s)) = d  BY Views
<1>2. 1 \in 1 .. d /\ 2 \in 1 .. d /\ d \in 1 .. d /\ d \in 2 .. d /\ 1 + 1 = 2 /\ 2 + 1 = 3 /\ d >= 1
  <2> HIDE DEF Depth
  <2> QED  BY <1>0
<1>3. Top(s) = Params(s)[1] /\ Second(s) = Params(s)[2]  BY <1>2, TopView
<1>4. Params(s) = SubSeq(Params(s), 1, d)  BY <1>1, SubSeqFull
<1>5. SubSeq(Params(s), 1, d) = <<Params(s)[1]>> \o SubSeq(Params(s), 2, d)
  BY <1>1, <1>2, SubSeqRecursiveFirst
<1>6. SubSeq(Params(s), 2, d) = <<Params(s)[2]>> \o q
  BY <1>1, <1>2, SubSeqRecursiveFirst
<1>7. q \in Seq(Word)
  <2>1. \A j \in 3 .. d : j \in 1 .. d /\ Params(s)[j] \in Word
    <3>1. \A j \in 3 .. d : j \in 1 .. d
      <4> HIDE DEF Depth
      <4> QED  BY <1>0
    <3> QED  BY <1>1, <3>1, ElementOfSeq
  <2>2. 3 \in Int /\ d \in Int  BY <1>0
    <2> QED  BY <2>1, <2>2, SubSeqProperties
<1>8. \A x, y, z \in Seq(Word) : (x \o y) \o z = x \o (y \o z)  BY ConcatAssociative
<1>9. <<Top(s)>> \in Seq(Word) /\ <<Second(s)>> \in Seq(Word) /\ <<Top(s)>> \o <<Second(s)>> = <<Top(s), Second(s)>>
  BY <1>0, Tuples
<1> HIDE DEF q
<1> QED  BY <1>3, <1>4, <1>5, <1>6, <1>7, <1>8, <1>9 DEF q

(* OVER needs room for one word more.                                       *)
LEMMA OverView ==
  ASSUME NEW s, Good(s), Running(s)
  PROVE  /\ Depth(s) >= 2 /\ Room(s, Depth(s) + 1) =>
              Took(Over(TRUE, s), s, <<Second(s), Top(s), Second(s)>>, 3)
         /\ Depth(s) < 2 \/ ~Room(s, Depth(s) + 1) => Dead(Over(TRUE, s), s, "stack")
<1> DEFINE w == Over(TRUE, s)  d == Depth(s)  t == SPop(SPop(s))  a == Top(s)  b == Second(s)
           u == SPush(SPush(t, b), a)
<1>0. d \in Nat /\ a \in Word /\ b \in Word /\ "stack" \in Status \ {"run"} /\ "stack" \in Status
  BY TopWords DEF Good, Status
<1>1. (d >= 2 => Took(t, s, <<>>, 3)) /\ (d < 2 => Dead(t, s, "stack"))  BY PopsOf
<1>2. w = SPush(u, b)  BY DEF w, Over, SPush, SPop
<1>3. /\ Len(<<>>) = 0 /\ <<b>> \o <<>> = <<b>> /\ Len(<<b>>) = 1 /\ <<a>> \o <<b>> = <<a, b>>
      /\ Len(<<a, b>>) = 2 /\ <<b>> \o <<a, b>> = <<b, a, b>>
  BY <1>0, Tuples
<1>4. /\ Room(s, d - 1) /\ Room(s, d) /\ d \in Int /\ d - 1 \in Int /\ d + 1 \in Int
      /\ d - 1 = 0 + d + 2 - 3 /\ d = 1 + d + 2 - 3 /\ d + 1 = 2 + d + 2 - 3
  <2>1. /\ d \in Int /\ d - 1 \in Int /\ d + 1 \in Int /\ d - 1 <= d /\ d <= d
        /\ d - 1 = 0 + d + 2 - 3 /\ d = 1 + d + 2 - 3 /\ d + 1 = 2 + d + 2 - 3
    BY <1>0
  <2> QED  BY <2>1, Rooms
<1>t. d >= 2 => Params(s) = <<a, b>> \o SubSeq(Params(s), 3, d)  BY TopTwo
<1> HIDE DEF w, t, a, b, u
<1>5. ASSUME d >= 2 PROVE Took(u, s, <<a, b>>, 3)
  <2>1. Took(SPush(t, b), s, <<b>>, 3)  BY <1>0, <1>1, <1>3, <1>4, <1>5, PushOn
  <2> DEFINE t1 == SPush(t, b)
  <2> HIDE DEF t1
  <2>2. d = Len(<<b>>) + Depth(s) + 2 - 3  BY <1>3, <1>4
  <2>3. Took(t1, s, <<b>>, 3)  BY <2>1 DEF t1
  <2>4. Took(SPush(t1, a), s, <<a>> \o <<b>>, 3)  BY <1>0, <1>4, <2>2, <2>3, PushOn
  <2> QED  BY <1>3, <2>4 DEF u, t1
<1>6. ASSUME d >= 2, Room(s, d + 1) PROVE Took(w, s, <<b, a, b>>, 3)
  <2>1. Took(SPush(u, b), s, <<b, a, b>>, 3)  BY <1>0, <1>3, <1>4, <1>5, <1>6, PushOn
  <2> QED  BY <1>2, <2>1
<1>7. ASSUME d < 2 PROVE Dead(w, s, "stack")
  <2>1. w = t  BY <1>1, <1>2, <1>7, DeadPushes DEF u
  <2> QED  BY <1>1, <1>7, <2>1
<1>8. ASSUME ~Room(s, d + 1) PROVE Dead(w, s, "stack")
  <2>1. CASE d < 2  BY <1>7, <2>1
  <2>2. CASE d >= 2
    <3>1. SPush(u, b) = Stop(u, "stack")  BY <1>0, <1>3, <1>4, <1>5, <1>8, <2>2, PushOn
    <3>2. Good(u) /\ Else(u, s) /\ Params(u) = Params(s)  BY <1>t, <1>5, <2>2 DEF Took
    <3>3. Took(u, s, <<>>, 1)
      <4>1. Took(s, s, <<>>, 1)  BY TookNone
      <4> QED  BY <3>2, <4>1 DEF Took
    <3>4. Dead(Stop(u, "stack"), s, "stack")  BY <1>0, <3>3, TookStop
    <3> QED  BY <1>2, <3>1, <3>4
  <2> QED  BY <1>0, <2>1, <2>2
<1> QED  BY <1>6, <1>7, <1>8 DEF w, a, b

(* ROT turns three words.                                                   *)
LEMMA RotView ==
  ASSUME NEW s, Good(s), Running(s)
  PROVE  /\ Depth(s) >= 3 => Took(Rot(TRUE, s), s, <<Third(s), Top(s), Second(s)>>, 4)
         /\ Depth(s) < 3 => Dead(Rot(TRUE, s), s, "stack")
<1> DEFINE w == Rot(TRUE, s)  d == Depth(s)  t == SPop(SPop(SPop(s)))
           a == Top(s)  b == Second(s)  c == Third(s)
           u == SPush(SPush(t, b), a)
<1>0. d \in Nat /\ a \in Word /\ b \in Word /\ c \in Word /\ "stack" \in Status \ {"run"}
  BY TopWords DEF Good, Status
<1>1. (d >= 3 => Took(t, s, <<>>, 4)) /\ (d < 3 => Dead(t, s, "stack"))  BY PopsOf
<1>2. w = SPush(u, c)  BY DEF w, Rot, SPush, SPop
<1>3. /\ Len(<<>>) = 0 /\ <<b>> \o <<>> = <<b>> /\ Len(<<b>>) = 1 /\ <<a>> \o <<b>> = <<a, b>>
      /\ Len(<<a, b>>) = 2 /\ <<c>> \o <<a, b>> = <<c, a, b>>
  BY <1>0, Tuples
<1>4. /\ Room(s, d - 2) /\ Room(s, d - 1) /\ Room(s, d)
      /\ d \in Int /\ d - 1 \in Int /\ d - 2 \in Int
      /\ d - 2 = 0 + d + 2 - 4 /\ d - 1 = 1 + d + 2 - 4 /\ d = 2 + d + 2 - 4
  <2>1. /\ d \in Int /\ d - 1 \in Int /\ d - 2 \in Int /\ d - 1 <= d /\ d - 2 <= d /\ d <= d
        /\ d - 2 = 0 + d + 2 - 4 /\ d - 1 = 1 + d + 2 - 4 /\ d = 2 + d + 2 - 4
    BY <1>0
  <2> QED  BY <2>1, Rooms
<1> HIDE DEF w, t, a, b, c, u
<1>5. ASSUME d >= 3 PROVE Took(w, s, <<c, a, b>>, 4)
  <2>1. Took(SPush(t, b), s, <<b>>, 4)  BY <1>0, <1>1, <1>3, <1>4, <1>5, PushOn
  <2>2. Took(u, s, <<a, b>>, 4)
    <3> DEFINE t1 == SPush(t, b)
    <3> HIDE DEF t1
    <3>1. d - 1 = Len(<<b>>) + Depth(s) + 2 - 4  BY <1>3, <1>4
    <3>2. Took(t1, s, <<b>>, 4)  BY <2>1 DEF t1
    <3>3. Took(SPush(t1, a), s, <<a>> \o <<b>>, 4)  BY <1>0, <1>4, <3>1, <3>2, PushOn
    <3> QED  BY <1>3, <3>3 DEF u, t1
  <2>3. Took(SPush(u, c), s, <<c, a, b>>, 4)  BY <1>0, <1>3, <1>4, <2>2, PushOn
  <2> QED  BY <1>2, <2>3
<1>6. ASSUME d < 3 PROVE Dead(w, s, "stack")
  <2>1. w = t  BY <1>1, <1>2, <1>6, DeadPushes DEF u
  <2> QED  BY <1>1, <1>6, <2>1
<1> QED  BY <1>5, <1>6 DEF w, a, b, c

(* An instruction done: it took n - 1 entries of s, left g in their place   *)
(* and rets, rest and a as return addresses, data and ip.                   *)
Effect(t, s, g, n, rets, rest, a) ==
  /\ Good(t) /\ Params(t) = g \o SubSeq(Params(s), n, Depth(s))
  /\ Rets(t) = rets /\ Rest(t) = rest /\ t.ip = a /\ t.status = s.status

(* An instruction that only takes and gives.                                *)
LEMMA TookEffect ==
  ASSUME NEW t, NEW s, NEW g, NEW n, Took(t, s, g, n)
  PROVE  Effect(t, s, g, n, Rets(s), Rest(s), s.ip)
BY DEF Took, Else, Effect

(* One word in the place of none, one or two.                               *)
LEMMA OneLeft ==
  ASSUME NEW s, Good(s), Running(s), NEW v \in Word
  PROVE  /\ Room(s, Depth(s) + 1) => Took(SPush(s, v), s, <<v>>, 1)
         /\ ~Room(s, Depth(s) + 1) => Dead(SPush(s, v), s, "stack")
         /\ Depth(s) >= 1 => Took(SPush(SPop(s), v), s, <<v>>, 2)
         /\ Depth(s) < 1 => Dead(SPush(SPop(s), v), s, "stack")
         /\ Depth(s) >= 2 => Took(SPush(SPop(SPop(s)), v), s, <<v>>, 3)
         /\ Depth(s) < 2 => Dead(SPush(SPop(SPop(s)), v), s, "stack")
<1> DEFINE d == Depth(s)  t1 == SPop(s)  t2 == SPop(SPop(s))
<1>0. d \in Nat /\ "stack" \in Status  BY DEF Good, Status
<1>1. Len(<<>>) = 0 /\ <<v>> \o <<>> = <<v>>  BY Tuples
<1>2. Took(s, s, <<>>, 1)  BY TookNone
<1>3. /\ d >= 1 => Took(t1, s, <<>>, 2)
      /\ d < 1 => Dead(t1, s, "stack")
      /\ d >= 2 => Took(t2, s, <<>>, 3)
      /\ d < 2 => Dead(t2, s, "stack")
  BY PopsOf
<1>4. /\ d + 1 \in Int /\ d \in Int /\ d - 1 \in Int /\ d <= d /\ d - 1 <= d
      /\ d + 1 = 0 + Depth(s) + 2 - 1 /\ d = 0 + Depth(s) + 2 - 2 /\ d - 1 = 0 + Depth(s) + 2 - 3
  BY <1>0
<1>5. Room(s, d) /\ Room(s, d - 1)  BY <1>4, Rooms
<1> HIDE DEF t1, t2
<1>6. /\ Room(s, d + 1) => Took(SPush(s, v), s, <<v>>, 1)
      /\ ~Room(s, d + 1) => SPush(s, v) = Stop(s, "stack")
  BY <1>1, <1>2, <1>4, PushOn
<1>7. d >= 1 => Took(SPush(t1, v), s, <<v>>, 2)
  BY <1>1, <1>3, <1>4, <1>5, PushOn
<1>8. d >= 2 => Took(SPush(t2, v), s, <<v>>, 3)
  BY <1>1, <1>3, <1>4, <1>5, PushOn
<1>9. \A t : Dead(t, s, "stack") => Dead(SPush(t, v), s, "stack")  BY DeadPushes
<1>10. Dead(Stop(s, "stack"), s, "stack")  BY <1>0, <1>2, TookStop
<1> QED  BY <1>3, <1>6, <1>7, <1>8, <1>9, <1>10 DEF t1, t2

(* A binary operator takes two words and gives one.                         *)
LEMMA BinView ==
  ASSUME NEW s, Good(s), Running(s), NEW op \in BinOps
  PROVE  /\ Depth(s) >= 2 => Took(Bin(TRUE, s, op), s, <<Alu(op, Second(s), Top(s))>>, 3)
         /\ Depth(s) < 2 => Dead(Bin(TRUE, s, op), s, "stack")
<1> DEFINE v == Alu(op, Second(s), Top(s))  w == Bin(TRUE, s, op)
<1>1. v \in Word  BY TopWords, AluWord
<1>2. w = SPush(SPop(SPop(s)), v)  BY DEF Bin, SPush, SPop
<1> HIDE DEF v, w
<1>3. /\ Depth(s) >= 2 => Took(w, s, <<v>>, 3)
      /\ Depth(s) < 2 => Dead(w, s, "stack")
  BY <1>1, <1>2, OneLeft
<1> QED  BY <1>3 DEF v, w

(* What a division computes.                                                *)
Divided(op, l, r) == (IF op = "div" THEN Quot(l, r) ELSE l - r * Quot(l, r)) % WORD
Overflows(l, r)   == r = -1 /\ l = -(WORD \div 2)

(* DIV and MOD stop on 0 and on the quotient that overflows.                *)
LEMMA DivideView ==
  ASSUME NEW s, Good(s), Running(s), NEW op
  PROVE  LET l == Signed(Second(s))  r == Signed(Top(s)) IN
         /\ Depth(s) >= 2 /\ r # 0 /\ ~Overflows(l, r) =>
              Took(Divide(TRUE, s, op), s, <<Divided(op, l, r)>>, 3)
         /\ Depth(s) >= 2 /\ r = 0 => Dead(Divide(TRUE, s, op), s, "div")
         /\ Depth(s) >= 2 /\ r # 0 /\ Overflows(l, r) => Dead(Divide(TRUE, s, op), s, "trap")
         /\ Depth(s) < 2 => Dead(Divide(TRUE, s, op), s, "stack")
<1> DEFINE l == Signed(Second(s))  r == Signed(Top(s))  w == Divide(TRUE, s, op)
           t == SPop(SPop(s))  v == Divided(op, l, r)
<1>0. "div" \in Status /\ "trap" \in Status /\ "stack" \in Status \ {"run"}  BY DEF Status
<1>1. w = IF ~Running(t) THEN t ELSE IF r = 0 THEN Stop(t, "div")
          ELSE IF Overflows(l, r) THEN Stop(t, "trap") ELSE SPush(t, v)
  BY DEF Divide, SPush, SPop, Overflows, Divided
<1>2. /\ Depth(s) >= 2 => Took(t, s, <<>>, 3)
      /\ Depth(s) < 2 => Dead(t, s, "stack")
  BY PopsOf
<1>3. r # 0 => v \in Word
  <2>1. l \in Int /\ r \in Int  BY TopWords, SignedInt
  <2> HIDE DEF l, r
  <2>2. r # 0 => Quot(l, r) \in Int  BY <2>1, QuotInt
  <2>3. r # 0 => l - r * Quot(l, r) \in Int  BY <2>1, <2>2
  <2> QED  BY <2>2, <2>3, ModWord DEF Divided
<1>4. Depth(s) >= 2 => Running(t)  BY <1>2, TookRuns
<1>5. Depth(s) < 2 => ~Running(t)  BY <1>0, <1>2, DeadFrozen
<1>6. Depth(s) >= 2 /\ r # 0 => Took(SPush(t, v), s, <<v>>, 3)  BY <1>3, OneLeft
<1>7. Depth(s) >= 2 => Dead(Stop(t, "div"), s, "div") /\ Dead(Stop(t, "trap"), s, "trap")
  BY <1>0, <1>2, TookStop
<1> HIDE DEF l, r, w, t, v
<1>8. /\ Depth(s) >= 2 /\ r # 0 /\ ~Overflows(l, r) => Took(w, s, <<v>>, 3)
      /\ Depth(s) >= 2 /\ r = 0 => Dead(w, s, "div")
      /\ Depth(s) >= 2 /\ r # 0 /\ Overflows(l, r) => Dead(w, s, "trap")
      /\ Depth(s) < 2 => Dead(w, s, "stack")
  BY <1>1, <1>2, <1>4, <1>5, <1>6, <1>7
<1> QED  BY <1>8 DEF l, r, w, v

(* The addresses of a load and of a store are tested after the pops.        *)
SCheck(t, a) == CheckAddr(TRUE, t, a)

(* CHECKADDR stops a running machine on an address behind the universe.     *)
LEMMA Checked ==
  ASSUME NEW t, NEW a
  PROVE  /\ Running(t) /\ a >= UNIVERSE => SCheck(t, a) = Stop(t, "addr")
         /\ Running(t) /\ ~(a >= UNIVERSE) => SCheck(t, a) = t
         /\ ~Running(t) => SCheck(t, a) = t
BY DEF SCheck, CheckAddr

(* LOAD takes an address, tests it and gives what is there.                 *)
LEMMA LoadView ==
  ASSUME NEW s, Good(s), Running(s), NEW n \in {1, 2, 4}
  PROVE  LET a == Top(s)
             v == IF n = 1 THEN Rd8(s.mem, a) ELSE IF n = 2 THEN Rd16(s.mem, a) ELSE Rd32(s.mem, a)
         IN  /\ Depth(s) >= 1 /\ ~(a >= UNIVERSE) => Took(Load(TRUE, s, n), s, <<v>>, 2)
             /\ Depth(s) >= 1 /\ a >= UNIVERSE => Dead(Load(TRUE, s, n), s, "addr")
             /\ Depth(s) < 1 => Dead(Load(TRUE, s, n), s, "stack")
<1> DEFINE a == Top(s)
           v == IF n = 1 THEN Rd8(s.mem, a) ELSE IF n = 2 THEN Rd16(s.mem, a) ELSE Rd32(s.mem, a)
           w == Load(TRUE, s, n)  t == SPop(s)  c == SCheck(t, a)
<1>0. "addr" \in Status \ {"run"} /\ "stack" \in Status \ {"run"} /\ "addr" \in Status  BY DEF Status
<1>1. w = SPush(c, v)  BY DEF Load, SPush, SPop, SCheck
<1>2. v \in Word
  <2>1. a \in Nat /\ s.mem \in Memory  BY TopWords, Sizes DEF Machine
  <2> HIDE DEF a
  <2> QED  BY <2>1, ReadRange
<1>3. /\ Depth(s) >= 1 => Took(t, s, <<>>, 2)
      /\ Depth(s) < 1 => Dead(t, s, "stack")
  BY PopsOf
<1>4. Depth(s) >= 1 => Running(t)  BY <1>3, TookRuns
<1>5. Depth(s) < 1 => ~Running(t)  BY <1>0, <1>3, DeadFrozen
<1>6. /\ Running(t) /\ a >= UNIVERSE => c = Stop(t, "addr")
      /\ Running(t) /\ ~(a >= UNIVERSE) => c = t
      /\ ~Running(t) => c = t
  BY Checked
<1>7. Depth(s) >= 1 => Took(SPush(t, v), s, <<v>>, 2)  BY <1>2, OneLeft
<1>8. Depth(s) >= 1 => Dead(Stop(t, "addr"), s, "addr")  BY <1>0, <1>3, TookStop
<1>9. \A x : ~Running(x) => SPush(x, v) = x  BY Frozen DEF SPush
<1>10. \A x : Dead(x, s, "addr") => ~Running(x)  BY <1>0, DeadFrozen
<1> HIDE DEF a, v, w, t, c
<1>11. /\ Depth(s) >= 1 /\ ~(a >= UNIVERSE) => Took(w, s, <<v>>, 2)
       /\ Depth(s) >= 1 /\ a >= UNIVERSE => Dead(w, s, "addr")
       /\ Depth(s) < 1 => Dead(w, s, "stack")
  BY <1>1, <1>3, <1>4, <1>5, <1>6, <1>7, <1>8, <1>9, <1>10
<1> QED  BY <1>11 DEF a, v, w

(* STORE takes an address and a word and writes outside of the stacks.      *)
LEMMA StoreView ==
  ASSUME NEW s, Good(s), Running(s), NEW n \in {1, 2, 4},
         Depth(s) >= 2 /\ ~(Top(s) >= UNIVERSE) => Top(s) .. Top(s) + 3 \subseteq Data
  PROVE  /\ Depth(s) >= 2 /\ ~(Top(s) >= UNIVERSE) =>
              Effect(Store(TRUE, s, n), s, <<>>, 3, Rets(s), Stored(Rest(s), Top(s), n, Second(s)), s.ip)
         /\ Depth(s) >= 2 /\ Top(s) >= UNIVERSE => Dead(Store(TRUE, s, n), s, "addr")
         /\ Depth(s) < 2 => Dead(Store(TRUE, s, n), s, "stack")
<1> DEFINE a == Top(s)  v == Second(s)
           w == Store(TRUE, s, n)  t == SPop(SPop(s))  c == SCheck(t, a)
<1>0. "addr" \in Status \ {"run"} /\ "stack" \in Status \ {"run"} /\ "addr" \in Status  BY DEF Status
<1>1. w = Poke(c, a, n, v)  BY DEF Store, SPop, SCheck
<1>2. a \in Nat /\ v \in Word  BY TopWords, Sizes
<1>3. /\ Depth(s) >= 2 => Took(t, s, <<>>, 3)
      /\ Depth(s) < 2 => Dead(t, s, "stack")
  BY PopsOf
<1>4. Depth(s) >= 2 => Running(t) /\ Good(t)  BY <1>3, TookRuns
<1>5. Depth(s) < 2 => ~Running(t)  BY <1>0, <1>3, DeadFrozen
<1>6. /\ Running(t) /\ a >= UNIVERSE => c = Stop(t, "addr")
      /\ Running(t) /\ ~(a >= UNIVERSE) => c = t
      /\ ~Running(t) => c = t
  BY Checked
<1>7. Depth(s) >= 2 => Dead(Stop(t, "addr"), s, "addr")  BY <1>0, <1>3, TookStop
<1>8. \A x : ~Running(x) => Poke(x, a, n, v) = x  BY DEF Poke
<1>9. \A x : Dead(x, s, "addr") => ~Running(x)  BY <1>0, DeadFrozen
<1>10. Depth(s) >= 2 /\ ~(Top(s) >= UNIVERSE) => a .. a + 3 \subseteq Data  OBVIOUS
<1> HIDE DEF a, v, w, t, c
<1>11. ASSUME Depth(s) >= 2, ~(Top(s) >= UNIVERSE)
       PROVE  Effect(Poke(t, a, n, v), s, <<>>, 3, Rets(s), Stored(Rest(s), a, n, v), s.ip)
  <2>1. Running(t) /\ Good(t)  BY <1>4, <1>11
  <2>2. a .. a + 3 \subseteq Data  BY <1>10, <1>11
  <2> DEFINE u == Poke(t, a, n, v)
  <2>3. Poked(u, t, a, n, v)  BY <1>2, <2>1, <2>2, PokeView
  <2>4. Took(t, s, <<>>, 3)  BY <1>3, <1>11
  <2> HIDE DEF u
  <2>5. /\ Good(u) /\ Params(u) = Params(t) /\ Rets(u) = Rets(t) /\ u.ip = t.ip
        /\ u.status = t.status /\ Rest(u) = Stored(Rest(t), a, n, v)
    BY <2>3 DEF Poked
  <2>6. /\ Rest(t) = Rest(s) /\ Rets(t) = Rets(s) /\ t.ip = s.ip /\ t.status = s.status
        /\ Params(t) = <<>> \o SubSeq(Params(s), 3, Depth(s))
    BY <2>4 DEF Took, Else
  <2>7. Effect(u, s, <<>>, 3, Rets(s), Stored(Rest(s), a, n, v), s.ip)
    BY <2>5, <2>6 DEF Effect
  <2> QED  BY <2>7 DEF u
<1>12. /\ Depth(s) >= 2 /\ ~(a >= UNIVERSE) =>
            Effect(w, s, <<>>, 3, Rets(s), Stored(Rest(s), a, n, v), s.ip)
       /\ Depth(s) >= 2 /\ a >= UNIVERSE => Dead(w, s, "addr")
       /\ Depth(s) < 2 => Dead(w, s, "stack")
  <2>1. Depth(s) >= 2 /\ ~(a >= UNIVERSE) => w = Poke(t, a, n, v)  BY <1>1, <1>4, <1>6
  <2>2. Depth(s) >= 2 /\ ~(a >= UNIVERSE) => Depth(s) >= 2 /\ ~(Top(s) >= UNIVERSE)  BY DEF a
  <2>3. Depth(s) >= 2 /\ a >= UNIVERSE => Dead(w, s, "addr")
    BY <1>1, <1>4, <1>6, <1>7, <1>8, <1>9
  <2>4. Depth(s) < 2 => Dead(w, s, "stack")  BY <1>1, <1>3, <1>5, <1>6, <1>8
  <2> QED  BY <1>11, <2>1, <2>2, <2>3, <2>4
<1> QED  BY <1>12 DEF a, v, w

-----------------------------------------------------------------------------
(* A jump sets the ip alone.                                                *)
LEMMA JumpTo ==
  ASSUME NEW t, Good(t), Running(t), NEW a \in Word
  PROVE  LET u == Jump(t, a) IN
         /\ Good(u) /\ Params(u) = Params(t) /\ Rets(u) = Rets(t) /\ Rest(u) = Rest(t)
         /\ u.ip = a /\ u.status = t.status /\ Running(u)
<1>1. "run" \in Status  BY DEF Status
<1>2. Jump(t, a) = [t EXCEPT !.ip = a]  BY DEF Jump
<1>3. LET u == [t EXCEPT !.ip = a] IN
      Good(u) /\ Params(u) = Params(t) /\ Rets(u) = Rets(t) /\ Rest(u) = Rest(t)
      /\ u.ip = a /\ u.status = t.status
  BY <1>1, PlainView
<1> QED  BY <1>2, <1>3 DEF Running

(* JZ and JNZ take the word they test.                                      *)
LEMMA BranchView ==
  ASSUME NEW s, Good(s), Running(s), NEW a \in Word, NEW c
  PROVE  /\ Depth(s) >= 1 =>
              Effect(Branch(TRUE, s, a, c), s, <<>>, 2, Rets(s), Rest(s), IF c THEN a ELSE s.ip)
         /\ Depth(s) < 1 => Dead(Branch(TRUE, s, a, c), s, "stack")
<1> DEFINE t == SPop(s)  w == Branch(TRUE, s, a, c)
<1>0. "stack" \in Status \ {"run"}  BY DEF Status
<1>1. (c => w = Jump(t, a)) /\ (~c => w = t)  BY DEF Branch, SPop
<1>2. /\ Depth(s) >= 1 => Took(t, s, <<>>, 2)
      /\ Depth(s) < 1 => Dead(t, s, "stack")
  BY PopsOf
<1>3. Depth(s) < 1 => Jump(t, a) = t
  <2>1. Depth(s) < 1 => ~Running(t)  BY <1>0, <1>2, DeadFrozen
  <2> QED  BY <2>1 DEF Jump
<1>4. Depth(s) >= 1 => Running(t) /\ Good(t)  BY <1>2, TookRuns
<1> HIDE DEF t, w
<1>5. ASSUME Depth(s) >= 1
      PROVE  Effect(w, s, <<>>, 2, Rets(s), Rest(s), IF c THEN a ELSE s.ip)
  <2>1. /\ Rest(t) = Rest(s) /\ Rets(t) = Rets(s) /\ t.ip = s.ip /\ t.status = s.status /\ Good(t)
        /\ Params(t) = <<>> \o SubSeq(Params(s), 2, Depth(s))
    BY <1>2, <1>5 DEF Took, Else
  <2>2. CASE c
    <3>1. LET u == Jump(t, a) IN
          Good(u) /\ Params(u) = Params(t) /\ Rets(u) = Rets(t) /\ Rest(u) = Rest(t)
          /\ u.ip = a /\ u.status = t.status
      BY <1>4, <1>5, JumpTo
    <3>2. Effect(w, s, <<>>, 2, Rets(s), Rest(s), a)  BY <1>1, <2>1, <2>2, <3>1 DEF Effect
    <3> QED  BY <2>2, <3>2
  <2>3. CASE ~c
    <3>1. Effect(w, s, <<>>, 2, Rets(s), Rest(s), s.ip)  BY <1>1, <2>1, <2>3 DEF Effect
    <3> QED  BY <2>3, <3>1
  <2> QED  BY <2>2, <2>3
<1>6. ASSUME Depth(s) < 1 PROVE Dead(w, s, "stack")
  BY <1>1, <1>2, <1>3, <1>6
<1> QED  BY <1>5, <1>6 DEF w

SPushRet(t, a) == PushRet(TRUE, t, a)

(* A return address pushed after the pops of an instruction.                *)
LEMMA PushRetOn ==
  ASSUME NEW s, Good(s), Running(s), NEW t, NEW n, Took(t, s, <<>>, n), NEW a \in Word
  PROVE  LET u == SPushRet(t, a) IN
         /\ 4 * Depth(t) + 2 * (RDepth(t) + 1) <= SP0 - RP0 =>
              /\ Good(u) /\ Running(u)
              /\ Params(u) = <<>> \o SubSeq(Params(s), n, Depth(s))
              /\ Rets(u) = Append(Rets(s), a % HALF) /\ Rest(u) = Rest(s)
              /\ u.ip = s.ip /\ u.status = s.status
         /\ 4 * Depth(t) + 2 * (RDepth(t) + 1) > SP0 - RP0 => Dead(u, s, "stack")
<1>1. Running(t) /\ Good(t)  BY TookRuns
<1>2. /\ Rest(t) = Rest(s) /\ Rets(t) = Rets(s) /\ t.ip = s.ip /\ t.status = s.status
      /\ Params(t) = <<>> \o SubSeq(Params(s), n, Depth(s))
  BY DEF Took, Else
<1> DEFINE u == SPushRet(t, a)
<1>3. /\ 4 * Depth(t) + 2 * (RDepth(t) + 1) <= SP0 - RP0 =>
              /\ Good(u) /\ Params(u) = Params(t) /\ Rets(u) = Append(Rets(t), a % HALF)
              /\ Rest(u) = Rest(t) /\ u.ip = t.ip /\ u.status = t.status
      /\ 4 * Depth(t) + 2 * (RDepth(t) + 1) > SP0 - RP0 => u = Stop(t, "stack")
  BY <1>1, PushRetView DEF SPushRet
<1>4. Dead(Stop(t, "stack"), s, "stack")
  <2>1. "stack" \in Status  BY DEF Status
  <2> QED  BY <2>1, TookStop
<1> HIDE DEF u
<1>5. /\ 4 * Depth(t) + 2 * (RDepth(t) + 1) <= SP0 - RP0 =>
              /\ Good(u) /\ Running(u)
              /\ Params(u) = <<>> \o SubSeq(Params(s), n, Depth(s))
              /\ Rets(u) = Append(Rets(s), a % HALF) /\ Rest(u) = Rest(s)
              /\ u.ip = s.ip /\ u.status = s.status
      /\ 4 * Depth(t) + 2 * (RDepth(t) + 1) > SP0 - RP0 => Dead(u, s, "stack")
  BY <1>2, <1>3, <1>4 DEF Running
<1> QED  BY <1>5 DEF u

(* CALL leaves the address behind it on the return stack.                   *)
LEMMA CallView ==
  ASSUME NEW s, Good(s), Running(s), NEW a \in Word
  PROVE  /\ 4 * Depth(s) + 2 * (RDepth(s) + 1) <= SP0 - RP0 =>
              Effect(Call(TRUE, s, a), s, <<>>, 1, Append(Rets(s), s.ip % HALF), Rest(s), a)
         /\ 4 * Depth(s) + 2 * (RDepth(s) + 1) > SP0 - RP0 => Dead(Call(TRUE, s, a), s, "stack")
<1> DEFINE u == SPushRet(s, s.ip)  w == Call(TRUE, s, a)
<1>0. "stack" \in Status \ {"run"} /\ s.ip \in Word  BY TopWords, MachineFacts DEF Status
<1>1. w = Jump(u, a)  BY DEF Call, SPushRet
<1>2. Took(s, s, <<>>, 1)  BY TookNone
<1>3. /\ 4 * Depth(s) + 2 * (RDepth(s) + 1) <= SP0 - RP0 =>
              /\ Good(u) /\ Running(u)
              /\ Params(u) = <<>> \o SubSeq(Params(s), 1, Depth(s))
              /\ Rets(u) = Append(Rets(s), s.ip % HALF) /\ Rest(u) = Rest(s)
              /\ u.ip = s.ip /\ u.status = s.status
      /\ 4 * Depth(s) + 2 * (RDepth(s) + 1) > SP0 - RP0 => Dead(u, s, "stack")
  BY <1>0, <1>2, PushRetOn
<1> HIDE DEF u, w
<1>4. Dead(u, s, "stack") => Jump(u, a) = u
  <2>1. Dead(u, s, "stack") => ~Running(u)  BY <1>0, DeadFrozen
  <2> QED  BY <2>1 DEF Jump
<1>5. ASSUME 4 * Depth(s) + 2 * (RDepth(s) + 1) <= SP0 - RP0
      PROVE  Effect(w, s, <<>>, 1, Append(Rets(s), s.ip % HALF), Rest(s), a)
  <2>1. LET j == Jump(u, a) IN
         Good(j) /\ Params(j) = Params(u) /\ Rets(j) = Rets(u) /\ Rest(j) = Rest(u)
         /\ j.ip = a /\ j.status = u.status
    BY <1>3, <1>5, JumpTo
  <2> QED  BY <1>1, <1>3, <1>5, <2>1 DEF Effect
<1> QED  BY <1>1, <1>3, <1>4, <1>5 DEF w

(* JMPX takes the address it jumps to and tests it.                         *)
LEMMA JmpxView ==
  ASSUME NEW s, Good(s), Running(s)
  PROVE  LET a == Top(s) % HALF IN
         /\ Depth(s) >= 1 /\ ~(a >= UNIVERSE) =>
              Effect(Jmpx(TRUE, s), s, <<>>, 2, Rets(s), Rest(s), a)
         /\ Depth(s) >= 1 /\ a >= UNIVERSE => Dead(Jmpx(TRUE, s), s, "addr")
         /\ Depth(s) < 1 => Dead(Jmpx(TRUE, s), s, "stack")
<1> DEFINE a == Top(s) % HALF  t == SPop(s)  u == Jump(t, a)  w == Jmpx(TRUE, s)
<1>0. "stack" \in Status \ {"run"} /\ "addr" \in Status /\ 0 \in Word  BY Sizes DEF Status
<1>1. w = SCheck(u, a)  BY DEF Jmpx, SPop, SCheck
<1>2. a \in Word
  <2>1. Top(s) \in Int  BY TopWords, Sizes
  <2> QED  BY <2>1, ModHalf
<1>3. /\ Depth(s) >= 1 => Took(t, s, <<>>, 2)
      /\ Depth(s) < 1 => Dead(t, s, "stack")
  BY PopsOf
<1>4. Depth(s) >= 1 => Running(t) /\ Good(t)  BY <1>3, TookRuns
<1> HIDE DEF t, a, w
<1>5. ASSUME Depth(s) < 1 PROVE Dead(w, s, "stack")
  <2>1. ~Running(t)  BY <1>0, <1>3, <1>5, DeadFrozen
  <2>2. u = t  BY <2>1 DEF Jump
  <2> HIDE DEF u
  <2>3. SCheck(u, a) = u  BY <2>1, <2>2, Checked
  <2> QED  BY <1>1, <1>3, <1>5, <2>2, <2>3
<1>6. ASSUME Depth(s) >= 1
      PROVE  /\ ~(a >= UNIVERSE) => Effect(w, s, <<>>, 2, Rets(s), Rest(s), a)
             /\ a >= UNIVERSE => Dead(w, s, "addr")
  <2>1. /\ Rest(t) = Rest(s) /\ Rets(t) = Rets(s) /\ t.status = s.status /\ Good(t)
        /\ Params(t) = <<>> \o SubSeq(Params(s), 2, Depth(s))
    BY <1>3, <1>6 DEF Took, Else
  <2>2. Good(u) /\ Params(u) = Params(t) /\ Rets(u) = Rets(t) /\ Rest(u) = Rest(t)
        /\ u.ip = a /\ u.status = t.status /\ Running(u)
    BY <1>2, <1>4, <1>6, JumpTo
  <2> HIDE DEF u
  <2>3. ASSUME ~(a >= UNIVERSE) PROVE Effect(w, s, <<>>, 2, Rets(s), Rest(s), a)
    <3>1. w = u  BY <1>1, <2>2, <2>3, Checked
    <3> QED  BY <2>1, <2>2, <3>1 DEF Effect
  <2>4. ASSUME a >= UNIVERSE PROVE Dead(w, s, "addr")
    <3>1. w = Stop(u, "addr")  BY <1>1, <2>2, <2>4, Checked
    <3>2. LET h == Stop(u, "addr") IN
          /\ Good(h) /\ Params(h) = Params(u) /\ Rets(h) = Rets(u) /\ Rest(h) = Rest(u)
          /\ h.status = "addr"
      BY <1>0, <2>2, PlainView
    <3>3. SubSeq(Params(s), 2, Depth(s)) \in Seq(Word) /\ Took(t, s, <<>>, 2)
      BY <1>3, <1>6, TookSizes
    <3>4. Params(t) = SubSeq(Params(s), 2, Depth(s)) /\ 2 \in 1 .. Depth(s) + 1
      BY <2>1, <3>3, ConcatEmptySeq DEF Took
    <3> QED  BY <2>1, <2>2, <3>1, <3>2, <3>4 DEF Dead
  <2> QED  BY <2>3, <2>4
<1> QED  BY <1>5, <1>6 DEF a, w

(* CALLX always finds room for the return address: it took a word first.    *)
LEMMA CallxView ==
  ASSUME NEW s, Good(s), Running(s)
  PROVE  LET a == Top(s) % HALF IN
         /\ Depth(s) >= 1 /\ ~(a >= UNIVERSE) =>
              Effect(Callx(TRUE, s), s, <<>>, 2, Append(Rets(s), s.ip % HALF), Rest(s), a)
         /\ Depth(s) >= 1 /\ a >= UNIVERSE => Dead(Callx(TRUE, s), s, "addr")
         /\ Depth(s) < 1 => Dead(Callx(TRUE, s), s, "stack")
<1> DEFINE a == Top(s) % HALF  t == SPop(s)  c == SCheck(t, a)  u == SPushRet(c, s.ip)
           w == Callx(TRUE, s)
<1>0. "stack" \in Status \ {"run"} /\ "addr" \in Status \ {"run"} /\ "addr" \in Status
  BY DEF Status
<1>1. w = Jump(u, a)  BY DEF Callx, SPop, SCheck, SPushRet
<1>2. a \in Word /\ s.ip \in Word
  <2>1. Top(s) \in Int  BY TopWords, Sizes
  <2> QED  BY <2>1, ModHalf, MachineFacts, TopWords
<1>3. /\ Depth(s) >= 1 => Took(t, s, <<>>, 2)
      /\ Depth(s) < 1 => Dead(t, s, "stack")
  BY PopsOf
<1>4. Depth(s) >= 1 => Running(t) /\ Good(t)  BY <1>3, TookRuns
<1>5. \A x : ~Running(x) => SPushRet(x, s.ip) = x /\ Jump(x, a) = x
  BY DEF SPushRet, PushRet, Jump
<1> HIDE DEF t, a, c, u, w
<1>6. ASSUME Depth(s) < 1 PROVE Dead(w, s, "stack")
  <2>1. ~Running(t)  BY <1>0, <1>3, <1>6, DeadFrozen
  <2>2. c = t  BY <2>1, Checked DEF c
  <2> QED  BY <1>1, <1>3, <1>5, <1>6, <2>1, <2>2 DEF u
<1>7. ASSUME Depth(s) >= 1, a >= UNIVERSE PROVE Dead(w, s, "addr")
  <2>1. c = Stop(t, "addr")  BY <1>4, <1>7, Checked DEF c
  <2>2. Dead(c, s, "addr")  BY <1>0, <1>3, <1>7, <2>1, TookStop
  <2>3. ~Running(c)  BY <1>0, <2>2, DeadFrozen
  <2> QED  BY <1>1, <1>5, <2>2, <2>3 DEF u
<1>8. ASSUME Depth(s) >= 1, ~(a >= UNIVERSE)
      PROVE  Effect(w, s, <<>>, 2, Append(Rets(s), s.ip % HALF), Rest(s), a)
  <2>1. c = t  BY <1>4, <1>8, Checked DEF c
  <2>2. Took(t, s, <<>>, 2)  BY <1>3, <1>8
  <2>3. 4 * Depth(t) + 2 * (RDepth(t) + 1) <= SP0 - RP0
    <3>1. /\ Depth(t) = Len(<<>>) + Depth(s) + 1 - 2 /\ RDepth(t) = RDepth(s) /\ Depth(s) \in Nat
          /\ RDepth(s) \in Nat
      BY <2>2, TookSizes
    <3>2. Len(<<>>) = 0  BY EmptySeq
    <3>3. 4 * Depth(s) + 2 * RDepth(s) <= SP0 - RP0  BY Places
    <3>4. SP0 \in Nat /\ RP0 \in Nat  BY WvmAssumption
    <3>5. Depth(t) = Depth(s) - 1  BY <3>1, <3>2
    <3> HIDE DEF Depth, RDepth
    <3> QED  BY <3>1, <3>3, <3>4, <3>5
  <2>4. u = SPushRet(t, s.ip)  BY <2>1 DEF u
  <2>5. /\ Good(u) /\ Running(u) /\ Params(u) = <<>> \o SubSeq(Params(s), 2, Depth(s))
        /\ Rets(u) = Append(Rets(s), s.ip % HALF) /\ Rest(u) = Rest(s)
        /\ u.ip = s.ip /\ u.status = s.status
    BY <1>2, <2>2, <2>3, <2>4, PushRetOn
  <2>6. LET j == Jump(u, a) IN
         Good(j) /\ Params(j) = Params(u) /\ Rets(j) = Rets(u) /\ Rest(j) = Rest(u)
         /\ j.ip = a /\ j.status = u.status
    BY <1>2, <2>5, JumpTo
  <2> QED  BY <1>1, <2>5, <2>6 DEF Effect
<1> QED  BY <1>6, <1>7, <1>8 DEF a, w

(* RET takes the last return address.                                       *)
LEMMA RetView ==
  ASSUME NEW s, Good(s), Running(s)
  PROVE  /\ RDepth(s) > 0 =>
              Effect(PopRet(TRUE, s), s, <<>>, 1, SubSeq(Rets(s), 1, RDepth(s) - 1), Rest(s),
                     Rets(s)[RDepth(s)])
         /\ RDepth(s) = 0 => Dead(PopRet(TRUE, s), s, "stack")
<1> DEFINE t == PopRet(TRUE, s)
<1>1. /\ RDepth(s) > 0 =>
              /\ Good(t) /\ Params(t) = Params(s) /\ Rets(t) = SubSeq(Rets(s), 1, RDepth(s) - 1)
              /\ Rest(t) = Rest(s) /\ t.ip = Rets(s)[RDepth(s)] /\ t.status = s.status
      /\ RDepth(s) = 0 => t = Stop(s, "stack")
  BY PopRetView
<1> HIDE DEF t
<1>2. Took(s, s, <<>>, 1) /\ "stack" \in Status  BY TookNone DEF Status
<1>3. Params(s) = <<>> \o SubSeq(Params(s), 1, Depth(s))  BY <1>2 DEF Took
<1>4. Dead(Stop(s, "stack"), s, "stack")  BY <1>2, TookStop
<1>5. /\ RDepth(s) > 0 =>
              Effect(t, s, <<>>, 1, SubSeq(Rets(s), 1, RDepth(s) - 1), Rest(s), Rets(s)[RDepth(s)])
      /\ RDepth(s) = 0 => Dead(t, s, "stack")
  BY <1>1, <1>3, <1>4 DEF Effect
<1> QED  BY <1>5 DEF t

(* DEC and SUBK write over the top.                                         *)
LEMMA SubkView ==
  ASSUME NEW s, Good(s), Running(s), NEW k \in Int, Depth(s) >= 1
  PROVE  Effect(Subk(s, k), s, <<(Top(s) - k) % WORD>>, 2, Rets(s), Rest(s), s.ip)
<1> DEFINE v == (Top(s) - k) % WORD
<1>1. v \in Word
  <2>1. Top(s) \in Int  BY TopWords, Sizes
  <2>2. Top(s) - k \in Int  BY <2>1
  <2> QED  BY <2>2, ModWord
<1>2. Subk(s, k) = Poke(s, s.sp, 4, v)  BY DEF Subk
<1> HIDE DEF v
<1>3. LET t == Poke(s, s.sp, 4, v) IN
      Good(t) /\ Params(t) = <<v>> \o SubSeq(Params(s), 2, Depth(s)) /\ Else(t, s)
  BY <1>1, PokeTop
<1>4. Effect(Subk(s, k), s, <<v>>, 2, Rets(s), Rest(s), s.ip)
  BY <1>2, <1>3 DEF Effect, Else
<1> QED  BY <1>4 DEF v

(* The word on top and what is below it.                                    *)
LEMMA TopOne ==
  ASSUME NEW s, Good(s), Depth(s) >= 1, NEW v \in Word
  PROVE  <<v>> \o SubSeq(Params(s), 1, Depth(s)) = <<v, Top(s)>> \o SubSeq(Params(s), 2, Depth(s))
<1> DEFINE d == Depth(s)  q == SubSeq(Params(s), 2, d)
<1>0. d \in Nat /\ Top(s) \in Word  BY TopWords DEF Good
<1>1. Params(s) \in Seq(Word) /\ Len(Params(s)) = d  BY Views
<1>2. 1 \in 1 .. d /\ d \in 1 .. d /\ 1 + 1 = 2
  <2> HIDE DEF Depth
  <2> QED  BY <1>0
<1>3. Top(s) = Params(s)[1]  BY TopView
<1>4. SubSeq(Params(s), 1, d) = <<Params(s)[1]>> \o q  BY <1>1, <1>2, SubSeqRecursiveFirst
<1>5. q \in Seq(Word)
  <2>1. \A j \in 2 .. d : j \in 1 .. d  BY <1>0
  <2>2. \A j \in 2 .. d : Params(s)[j] \in Word  BY <1>1, <2>1, ElementOfSeq
  <2>3. 2 \in Int /\ d \in Int  BY <1>0
  <2> HIDE DEF d
  <2> QED  BY <2>2, <2>3, SubSeqProperties
<1>6. \A x, y, z \in Seq(Word) : (x \o y) \o z = x \o (y \o z)  BY ConcatAssociative
<1>7. <<Top(s)>> \in Seq(Word) /\ <<v>> \in Seq(Word) /\ <<v>> \o <<Top(s)>> = <<v, Top(s)>>
  BY <1>0, Tuples
<1> HIDE DEF q
<1>8. (<<v>> \o <<Top(s)>>) \o q = <<v>> \o (<<Top(s)>> \o q)  BY <1>5, <1>6, <1>7
<1> QED  BY <1>3, <1>4, <1>7, <1>8 DEF q

(* The arithmetic of the stack machine is that of the interpreter.          *)
LEMMA SameAlu == \A op \in BinOps : \A l, r : Stacks!Alu(op, l, r) = Alu(op, l, r)
<1> SUFFICES ASSUME NEW op \in BinOps, NEW l, NEW r PROVE Stacks!Alu(op, l, r) = Alu(op, l, r)
  OBVIOUS
<1>1. Stacks!Bitwise(op, l, r) = Bitwise(op, l, r)
  <2>1. \A v, j : Stacks!ByteAt(v, j) = ByteAt(v, j)  BY SameWords
  <2>2. \A a, b, c, d : Stacks!FromBytes(a, b, c, d) = FromBytes(a, b, c, d)  BY SameWords
  <2>3. \A o, x, y : Stacks!OnByte(o, x, y) = OnByte(o, x, y)  BY SameByte
  <2> QED  BY <2>1, <2>2, <2>3 DEF Bitwise, Stacks!Bitwise
<1>2. /\ Stacks!WORD = WORD
      /\ \A v : Stacks!Signed(v) = Signed(v)
      /\ \A c : Stacks!Flag(c) = Flag(c)
  BY SameWords
<1> HIDE DEF WORD, Signed, Flag, Bitwise
<1>3. /\ Stacks!Flag(l = r) = Flag(l = r) /\ Stacks!Flag(l # r) = Flag(l # r)
      /\ Stacks!Flag(Stacks!Signed(l) < Stacks!Signed(r)) = Flag(Signed(l) < Signed(r))
      /\ Stacks!Flag(Stacks!Signed(l) > Stacks!Signed(r)) = Flag(Signed(l) > Signed(r))
      /\ Stacks!Flag(Stacks!Signed(l) <= Stacks!Signed(r)) = Flag(Signed(l) <= Signed(r))
      /\ Stacks!Flag(Stacks!Signed(l) >= Stacks!Signed(r)) = Flag(Signed(l) >= Signed(r))
  BY <1>2
<1>a. CASE op \in {"and", "or", "xor"}  BY <1>a, <1>1 DEF Alu, Stacks!Alu
<1>b. CASE op \in {"add", "sub", "mul", "shl", "shr"}  BY <1>b, <1>2 DEF Alu, Stacks!Alu
<1>c. CASE op = "eq"  BY <1>c, <1>3 DEF Alu, Stacks!Alu
<1>d. CASE op = "ne"  BY <1>d, <1>3 DEF Alu, Stacks!Alu
<1>e. CASE op = "lt"  BY <1>e, <1>3 DEF Alu, Stacks!Alu
<1>f. CASE op = "gt"  BY <1>f, <1>3 DEF Alu, Stacks!Alu
<1>g. CASE op = "le"  BY <1>g, <1>3 DEF Alu, Stacks!Alu
<1>h. CASE op = "ge"  BY <1>h, <1>3 DEF Alu, Stacks!Alu
<1> QED  BY <1>a, <1>b, <1>c, <1>d, <1>e, <1>f, <1>g, <1>h DEF BinOps

(* What the stack view has of the machine before an instruction.            *)
LEMMA Before ==
  ASSUME Good(safe)
  PROVE  /\ Len(Params(safe)) = Depth(safe) /\ Len(Rets(safe)) = RDepth(safe)
         /\ Params(safe) \in Seq(Word) /\ Rets(safe) \in Seq(Word)
         /\ Depth(safe) \in Nat /\ RDepth(safe) \in Nat
         /\ (Params(safe) = <<>> <=> Depth(safe) = 0)
         /\ (Rets(safe) = <<>> <=> RDepth(safe) = 0)
<1>1. /\ Len(Params(safe)) = Depth(safe) /\ Len(Rets(safe)) = RDepth(safe)
      /\ Params(safe) \in Seq(Word) /\ Rets(safe) \in Seq(Word)
      /\ Depth(safe) \in Nat /\ RDepth(safe) \in Nat
  BY Views DEF Good
<1>2. Params(safe) = <<>> <=> Depth(safe) = 0  BY <1>1, EmptySeq
<1>3. Rets(safe) = <<>> <=> RDepth(safe) = 0  BY <1>1, EmptySeq
<1> QED  BY <1>1, <1>2, <1>3

(* An instruction done is a step of the stack machine.                      *)
LEMMA DoStep ==
  ASSUME Good(safe), NEW i, NEW x, NEW g, NEW n,
         Params(x) = Params(safe), Depth(x) = Depth(safe), x.status = safe.status,
         i.op \in Stacks!Known, Stacks!Has(i), ~Stacks!BadAddr(i), ~Stacks!BadDiv(i),
         Stacks!After(i) = g \o SubSeq(Params(safe), n, Depth(safe)),
         Effect(safe', x, g, n, Stacks!RetsAfter(i), Stacks!DataAfter(i), Stacks!Target(i))
  PROVE  Stacks!Do(i)
<1>1. /\ Good(safe') /\ Params(safe') = Stacks!After(i) /\ Rets(safe') = Stacks!RetsAfter(i)
      /\ Rest(safe') = Stacks!DataAfter(i) /\ (safe').ip = Stacks!Target(i)
      /\ (safe').status = safe.status
  BY DEF Effect
<1>2. Stacks!Fits(i)
  <2>1. 4 * Depth(safe') + 2 * RDepth(safe') <= SP0 - RP0  BY <1>1, Places
  <2>2. Len(Params(safe')) = Depth(safe') /\ Len(Rets(safe')) = RDepth(safe')  BY <1>1, Views
  <2> QED  BY <1>1, <2>1, <2>2 DEF Stacks!Fits
<1> QED  BY <1>1, <1>2 DEF Stacks!Do

(* A stop is one of the stack machine.                                      *)
LEMMA HaltStep ==
  ASSUME Good(safe), NEW x, NEW st, Params(x) = Params(safe), Depth(x) = Depth(safe),
         Rets(x) = Rets(safe), Rest(x) = Rest(safe), Dead(safe', x, st)
  PROVE  Stacks!Halt(st)
<1>1. /\ Good(safe') /\ Rets(safe') = Rets(safe) /\ Rest(safe') = Rest(safe) /\ (safe').status = st
      /\ \E n \in 1 .. Depth(safe) + 1 : Params(safe') = SubSeq(Params(safe), n, Depth(safe))
  BY DEF Dead
<1>2. Len(Params(safe)) = Depth(safe)  BY Before
<1>3. (safe').ip \in Stacks!Word  BY <1>1, SameWords DEF Good, Machine
<1> QED  BY <1>1, <1>2, <1>3 DEF Stacks!Halt

-----------------------------------------------------------------------------
(* The machine x after the fetch of an instruction i.                       *)
Fetched(i, x) ==
  /\ Good(safe) /\ Running(safe) /\ Good(x) /\ Running(x) /\ x.status = safe.status
  /\ Params(x) = Params(safe) /\ Rets(x) = Rets(safe) /\ Rest(x) = Rest(safe)
  /\ Depth(x) = Depth(safe) /\ RDepth(x) = RDepth(safe) /\ x.mem = safe.mem
  /\ x.ip = Stacks!Behind(i) /\ x.ip \in Word /\ i.arg \in Int
  /\ Top(x) = Top(safe) /\ Second(x) = Second(safe) /\ Third(x) = Third(safe)

(* A fetch moves the instruction pointer only.                              *)
LEMMA FetchView ==
  ASSUME Good(safe), Running(safe), NEW i, i.arg \in Int
  PROVE  Fetched(i, [safe EXCEPT !.ip = Plus(safe.ip, Size(i.op))])
<1> DEFINE a == Plus(safe.ip, Size(i.op))  x == [safe EXCEPT !.ip = a]
<1>0. "run" \in Status  BY DEF Status
<1>1. a \in Word
  <2>1. Size(i.op) \in Int  BY DEF Size
  <2>2. safe.ip \in Nat  BY MachineFacts DEF Good
  <2> QED  BY <2>1, <2>2, PlusWord
<1>2. a = Stacks!Behind(i)
  <2>1. Stacks!Size(i.op) = Size(i.op) /\ Stacks!WORD = WORD  BY SameWords
  <2> QED  BY <2>1 DEF Plus, Stacks!Behind
<1> HIDE DEF a
<1>3. /\ Good(x) /\ Params(x) = Params(safe) /\ Rets(x) = Rets(safe) /\ Rest(x) = Rest(safe)
      /\ x.ip = a /\ x.status = safe.status /\ x.mem = safe.mem /\ x.sp = safe.sp /\ x.rp = safe.rp
      /\ Depth(x) = Depth(safe) /\ RDepth(x) = RDepth(safe)
  BY <1>0, <1>1, PlainView
<1> HIDE DEF x
<1>4. Top(x) = Top(safe) /\ Second(x) = Second(safe) /\ Third(x) = Third(safe)
  BY <1>3 DEF Top, Second, Third
<1>5. Fetched(i, x)  BY <1>1, <1>2, <1>3, <1>4 DEF Fetched, Running
<1> QED  BY <1>5 DEF x, a

(* What the stack machine does with i is a step of it, to a good machine.    *)
Steps(i) == (Stacks!Do(i) \/ Stacks!Fail(i)) /\ Good(safe')

(* A machine that stopped for a reason the stack machine has.               *)
LEMMA Fails ==
  ASSUME NEW i, NEW x, Fetched(i, x), i.op \in Stacks!Known
  PROVE  /\ ~Stacks!Has(i) /\ Dead(safe', x, "stack") => Steps(i)
         /\ Stacks!Has(i) /\ Stacks!BadAddr(i) /\ Dead(safe', x, "addr") => Steps(i)
         /\ /\ Stacks!Has(i) /\ Stacks!BadDiv(i) /\ Params(safe)[1] = 0 /\ Dead(safe', x, "div")
            => Steps(i)
         /\ /\ Stacks!Has(i) /\ Stacks!BadDiv(i) /\ Params(safe)[1] # 0 /\ Dead(safe', x, "trap")
            => Steps(i)
         /\ /\ Stacks!Has(i) /\ ~Stacks!BadAddr(i) /\ ~Stacks!BadDiv(i) /\ ~Stacks!Fits(i)
            /\ Dead(safe', x, "stack")
            => Steps(i)
<1>1. \A st : Dead(safe', x, st) => Stacks!Halt(st)
  BY HaltStep DEF Fetched
<1>2. Dead(safe', x, "stack") => Stacks!Halt("stack")  BY <1>1
<1>3. Dead(safe', x, "addr") => Stacks!Halt("addr")  BY <1>1
<1>4. Dead(safe', x, "div") => Stacks!Halt("div")  BY <1>1
<1>5. Dead(safe', x, "trap") => Stacks!Halt("trap")  BY <1>1
<1>6. \A st : Dead(safe', x, st) => Good(safe')  BY DEF Dead
<1> QED  BY <1>2, <1>3, <1>4, <1>5, <1>6 DEF Steps, Stacks!Fail

(* The words on top in the two views.                                       *)
LEMMA Tops ==
  ASSUME NEW i, NEW x, Fetched(i, x)
  PROVE  /\ Depth(x) >= 1 => Top(x) = Params(safe)[1]
         /\ Depth(x) >= 2 => Second(x) = Params(safe)[2]
         /\ Depth(x) >= 3 => Third(x) = Params(safe)[3]
         /\ Depth(x) \in Nat /\ Len(Params(safe)) = Depth(x)
         /\ RDepth(x) \in Nat /\ Len(Rets(safe)) = RDepth(x)
         /\ (Params(safe) = <<>> <=> Depth(x) = 0) /\ (Rets(safe) = <<>> <=> RDepth(x) = 0)
BY TopView, Before DEF Fetched

(* An instruction with the effect that the stack machine gives it.          *)
LEMMA EffectStep ==
  ASSUME NEW i, NEW x, Fetched(i, x), i.op \in Stacks!Known, Stacks!Has(i),
         ~Stacks!BadAddr(i), ~Stacks!BadDiv(i), NEW g, NEW n,
         Stacks!Gives(i) = g, Stacks!Takes(i.op) + 1 = n,
         Effect(safe', x, g, n, Stacks!RetsAfter(i), Stacks!DataAfter(i), Stacks!Target(i))
  PROVE  Steps(i)
<1>1. Stacks!After(i) = g \o SubSeq(Params(safe), n, Depth(safe))
  BY Before DEF Stacks!After, Fetched
<1>2. Stacks!Do(i)  BY <1>1, DoStep DEF Fetched
<1>3. Good(safe')  BY DEF Effect
<1> QED  BY <1>2, <1>3 DEF Steps

(* The same for one that leaves return stack and data alone.                *)
LEMMA TookStep ==
  ASSUME NEW i, NEW x, Fetched(i, x), i.op \in Stacks!Known, Stacks!Has(i),
         ~Stacks!BadAddr(i), ~Stacks!BadDiv(i), NEW g, NEW n,
         Stacks!Gives(i) = g, Stacks!Takes(i.op) + 1 = n, Took(safe', x, g, n),
         Stacks!RetsAfter(i) = Rets(safe), Stacks!DataAfter(i) = Rest(safe),
         Stacks!Target(i) = Stacks!Behind(i)
  PROVE  Steps(i)
<1>1. Effect(safe', x, g, n, Rets(x), Rest(x), x.ip)  BY TookEffect
<1>2. Rets(x) = Stacks!RetsAfter(i) /\ Rest(x) = Stacks!DataAfter(i) /\ x.ip = Stacks!Target(i)
  BY DEF Fetched
<1>3. Effect(safe', x, g, n, Stacks!RetsAfter(i), Stacks!DataAfter(i), Stacks!Target(i))
  BY <1>1, <1>2
<1> QED  BY <1>3, EffectStep

(* swap                                                                     *)
LEMMA SwapStep ==
  ASSUME NEW i, NEW x, Fetched(i, x), i.op = "swap", safe' = Swap(TRUE, x)
  PROVE  Steps(i)
<1> DEFINE P == Params(safe)  d == Depth(x)
<1>1. /\ i.op \in Stacks!Known /\ Stacks!Takes(i.op) = 2 /\ Stacks!Gives(i) = <<P[2], P[1]>>
      /\ ~Stacks!BadAddr(i) /\ ~Stacks!BadDiv(i) /\ Stacks!RetsAfter(i) = Rets(safe)
      /\ Stacks!DataAfter(i) = Rest(safe) /\ Stacks!Target(i) = Stacks!Behind(i)
      /\ i.op # "ret"
  BY DEF Stacks!Known, Stacks!Takes, Stacks!Gives, Stacks!BadAddr, Stacks!BadDiv,
         Stacks!RetsAfter, Stacks!DataAfter, Stacks!Target, Stacks!BinOps, Stacks!Loads,
         Stacks!Stores, Stacks!Divs, Stacks!Lits, Stacks!Peeks
<1>2. /\ d >= 2 => Took(safe', x, <<Second(x), Top(x)>>, 2 + 1)
      /\ d < 2 => Dead(safe', x, "stack")
  <2>1. 2 + 1 = 3  OBVIOUS
  <2> QED  BY <2>1, SwapView DEF Fetched
<1>3. d \in Nat /\ Len(P) = d /\ (d >= 2 => <<Second(x), Top(x)>> = <<P[2], P[1]>>)  BY Tops
<1> HIDE DEF d
<1>4. ASSUME d >= 2 PROVE Steps(i)
  <2>1. Stacks!Has(i)  BY <1>1, <1>3, <1>4 DEF Stacks!Has
  <2>2. Took(safe', x, <<P[2], P[1]>>, 2 + 1)  BY <1>2, <1>3, <1>4
  <2> QED  BY <1>1, <2>1, <2>2, TookStep
<1>5. ASSUME d < 2 PROVE Steps(i)
  <2>1. ~Stacks!Has(i)  BY <1>1, <1>3, <1>5 DEF Stacks!Has
  <2> QED  BY <1>1, <1>2, <1>5, <2>1, Fails
<1> QED  BY <1>3, <1>4, <1>5

(* rot                                                                      *)
LEMMA RotStep ==
  ASSUME NEW i, NEW x, Fetched(i, x), i.op = "rot", safe' = Rot(TRUE, x)
  PROVE  Steps(i)
<1> DEFINE P == Params(safe)  d == Depth(x)
<1>1. /\ i.op \in Stacks!Known /\ Stacks!Takes(i.op) = 3 /\ Stacks!Gives(i) = <<P[3], P[1], P[2]>>
      /\ ~Stacks!BadAddr(i) /\ ~Stacks!BadDiv(i) /\ Stacks!RetsAfter(i) = Rets(safe)
      /\ Stacks!DataAfter(i) = Rest(safe) /\ Stacks!Target(i) = Stacks!Behind(i)
      /\ i.op # "ret"
  BY DEF Stacks!Known, Stacks!Takes, Stacks!Gives, Stacks!BadAddr, Stacks!BadDiv,
         Stacks!RetsAfter, Stacks!DataAfter, Stacks!Target, Stacks!BinOps, Stacks!Loads,
         Stacks!Stores, Stacks!Divs, Stacks!Lits, Stacks!Peeks
<1>2. /\ d >= 3 => Took(safe', x, <<Third(x), Top(x), Second(x)>>, 3 + 1)
      /\ d < 3 => Dead(safe', x, "stack")
  <2>1. 3 + 1 = 4  OBVIOUS
  <2> QED  BY <2>1, RotView DEF Fetched
<1>3. d \in Nat /\ Len(P) = d /\ (d >= 3 => <<Third(x), Top(x), Second(x)>> = <<P[3], P[1], P[2]>>)  BY Tops
<1> HIDE DEF d
<1>4. ASSUME d >= 3 PROVE Steps(i)
  <2>1. Stacks!Has(i)  BY <1>1, <1>3, <1>4 DEF Stacks!Has
  <2>2. Took(safe', x, <<P[3], P[1], P[2]>>, 3 + 1)  BY <1>2, <1>3, <1>4
  <2> QED  BY <1>1, <2>1, <2>2, TookStep
<1>5. ASSUME d < 3 PROVE Steps(i)
  <2>1. ~Stacks!Has(i)  BY <1>1, <1>3, <1>5 DEF Stacks!Has
  <2> QED  BY <1>1, <1>2, <1>5, <2>1, Fails
<1> QED  BY <1>3, <1>4, <1>5

(* drop                                                                     *)
LEMMA DropStep ==
  ASSUME NEW i, NEW x, Fetched(i, x), i.op = "drop", safe' = Pop(TRUE, x)
  PROVE  Steps(i)
<1> DEFINE P == Params(safe)  d == Depth(x)
<1>1. /\ i.op \in Stacks!Known /\ Stacks!Takes(i.op) = 1 /\ Stacks!Gives(i) = <<>>
      /\ ~Stacks!BadAddr(i) /\ ~Stacks!BadDiv(i) /\ Stacks!RetsAfter(i) = Rets(safe)
      /\ Stacks!DataAfter(i) = Rest(safe) /\ Stacks!Target(i) = Stacks!Behind(i)
      /\ i.op # "ret"
  BY DEF Stacks!Known, Stacks!Takes, Stacks!Gives, Stacks!BadAddr, Stacks!BadDiv,
         Stacks!RetsAfter, Stacks!DataAfter, Stacks!Target, Stacks!BinOps, Stacks!Loads,
         Stacks!Stores, Stacks!Divs, Stacks!Lits, Stacks!Peeks
<1>2. /\ d >= 1 => Took(safe', x, <<>>, 1 + 1)
      /\ d < 1 => Dead(safe', x, "stack")
  <2>1. 1 + 1 = 2  OBVIOUS
  <2> QED  BY <2>1, PopsOf DEF Fetched, SPop
<1>3. d \in Nat /\ Len(P) = d /\ (d >= 1 => <<>> = <<>>)  BY Tops
<1> HIDE DEF d
<1>4. ASSUME d >= 1 PROVE Steps(i)
  <2>1. Stacks!Has(i)  BY <1>1, <1>3, <1>4 DEF Stacks!Has
  <2>2. Took(safe', x, <<>>, 1 + 1)  BY <1>2, <1>3, <1>4
  <2> QED  BY <1>1, <2>1, <2>2, TookStep
<1>5. ASSUME d < 1 PROVE Steps(i)
  <2>1. ~Stacks!Has(i)  BY <1>1, <1>3, <1>5 DEF Stacks!Has
  <2> QED  BY <1>1, <1>2, <1>5, <2>1, Fails
<1> QED  BY <1>3, <1>4, <1>5

(* The binary operators.                                                    *)
LEMMA BinStep ==
  ASSUME NEW i, NEW x, Fetched(i, x), i.op \in BinOps, safe' = Bin(TRUE, x, i.op)
  PROVE  Steps(i)
<1> DEFINE P == Params(safe)  d == Depth(x)
<1>0. i.op \in Stacks!BinOps  BY SameWords
<1>1. /\ i.op \in Stacks!Known /\ Stacks!Takes(i.op) = 2
      /\ Stacks!Gives(i) = <<Stacks!Alu(i.op, P[2], P[1])>>
      /\ ~Stacks!BadAddr(i) /\ ~Stacks!BadDiv(i) /\ Stacks!RetsAfter(i) = Rets(safe)
      /\ Stacks!DataAfter(i) = Rest(safe) /\ Stacks!Target(i) = Stacks!Behind(i)
      /\ i.op # "ret"
  BY <1>0 DEF Stacks!Known, Stacks!Takes, Stacks!Gives, Stacks!BadAddr, Stacks!BadDiv,
         Stacks!RetsAfter, Stacks!DataAfter, Stacks!Target, Stacks!BinOps, Stacks!Loads,
         Stacks!Stores, Stacks!Divs, Stacks!Lits, Stacks!Peeks
<1>2. /\ d >= 2 => Took(safe', x, <<Alu(i.op, Second(x), Top(x))>>, 2 + 1)
      /\ d < 2 => Dead(safe', x, "stack")
  <2>1. 2 + 1 = 3  OBVIOUS
  <2> QED  BY <2>1, BinView DEF Fetched
<1>3. d \in Nat /\ Len(P) = d
      /\ (d >= 2 => <<Alu(i.op, Second(x), Top(x))>> = <<Stacks!Alu(i.op, P[2], P[1])>>)
  <2>1. d \in Nat /\ Len(P) = d /\ (d >= 2 => Second(x) = P[2] /\ Top(x) = P[1])  BY Tops
  <2>2. \A l, r : Stacks!Alu(i.op, l, r) = Alu(i.op, l, r)  BY SameAlu
  <2> QED  BY <2>1, <2>2
<1> HIDE DEF d
<1>4. ASSUME d >= 2 PROVE Steps(i)
  <2>1. Stacks!Has(i)  BY <1>1, <1>3, <1>4 DEF Stacks!Has
  <2>2. Took(safe', x, <<Stacks!Alu(i.op, P[2], P[1])>>, 2 + 1)  BY <1>2, <1>3, <1>4
  <2> QED  BY <1>1, <2>1, <2>2, TookStep
<1>5. ASSUME d < 2 PROVE Steps(i)
  <2>1. ~Stacks!Has(i)  BY <1>1, <1>3, <1>5 DEF Stacks!Has
  <2> QED  BY <1>1, <1>2, <1>5, <2>1, Fails
<1> QED  BY <1>3, <1>4, <1>5

(* div and mod: the order of the tests decides which stop is seen.          *)
LEMMA DivStep ==
  ASSUME NEW i, NEW x, Fetched(i, x), i.op \in {"div", "mod"}, safe' = Divide(TRUE, x, i.op)
  PROVE  Steps(i)
<1> DEFINE P == Params(safe)  d == Depth(x)  l == Signed(P[2])  r == Signed(P[1])
<1>0. /\ Stacks!Signed(P[2]) = l /\ Stacks!Signed(P[1]) = r /\ Stacks!WORD = WORD
      /\ Stacks!Quot(l, r) = Quot(l, r)
  BY SameWords
<1>1. /\ i.op \in Stacks!Known /\ Stacks!Takes(i.op) = 2
      /\ Stacks!Gives(i) = <<Divided(i.op, l, r)>>
      /\ ~Stacks!BadAddr(i) /\ Stacks!RetsAfter(i) = Rets(safe)
      /\ (Stacks!BadDiv(i) <=> (P[1] # 0 => Overflows(l, r)))
      /\ Stacks!DataAfter(i) = Rest(safe) /\ Stacks!Target(i) = Stacks!Behind(i)
      /\ i.op # "ret"
  <2> HIDE DEF l, r, WORD
  <2>1. CASE i.op = "div"
    BY <1>0, <2>1 DEF Stacks!Known, Stacks!Takes, Stacks!Gives, Stacks!BadAddr, Stacks!BadDiv,
         Stacks!RetsAfter, Stacks!DataAfter, Stacks!Target, Stacks!BinOps, Stacks!Loads,
         Stacks!Stores, Stacks!Divs, Stacks!Lits, Stacks!Peeks, Divided, Overflows
  <2>2. CASE i.op = "mod"
    BY <1>0, <2>2 DEF Stacks!Known, Stacks!Takes, Stacks!Gives, Stacks!BadAddr, Stacks!BadDiv,
         Stacks!RetsAfter, Stacks!DataAfter, Stacks!Target, Stacks!BinOps, Stacks!Loads,
         Stacks!Stores, Stacks!Divs, Stacks!Lits, Stacks!Peeks, Divided, Overflows
  <2> QED  BY <2>1, <2>2
<1>2. LET y == Signed(Second(x))  z == Signed(Top(x)) IN
      /\ d >= 2 /\ z # 0 /\ ~Overflows(y, z) => Took(safe', x, <<Divided(i.op, y, z)>>, 3)
      /\ d >= 2 /\ z = 0 => Dead(safe', x, "div")
      /\ d >= 2 /\ z # 0 /\ Overflows(y, z) => Dead(safe', x, "trap")
      /\ d < 2 => Dead(safe', x, "stack")
  BY DivideView DEF Fetched
<1>3. d \in Nat /\ Len(P) = d /\ (d >= 2 => Second(x) = P[2] /\ Top(x) = P[1])  BY Tops
<1>4. d >= 2 => (r = 0 <=> P[1] = 0)
  <2>1. Top(x) \in Word  BY TopWords DEF Fetched
  <2>2. \A v \in Word : Signed(v) = 0 <=> v = 0
    <3>1. WORD \in Nat /\ WORD > 1  BY WvmAssumption, Sizes
    <3>2. \A v \in Word : v \in Nat /\ v < WORD  BY Sizes
    <3> HIDE DEF WORD, Word
    <3> QED  BY <3>1, <3>2 DEF Signed
  <2> QED  BY <1>3, <2>1, <2>2
<1>5. d >= 2 =>
      /\ r # 0 /\ ~Overflows(l, r) => Took(safe', x, <<Divided(i.op, l, r)>>, 2 + 1)
      /\ r = 0 => Dead(safe', x, "div")
      /\ r # 0 /\ Overflows(l, r) => Dead(safe', x, "trap")
  <2>1. 2 + 1 = 3  OBVIOUS
  <2> QED  BY <1>2, <1>3, <2>1
<1> HIDE DEF d, l, r
<1>6. ASSUME d >= 2 PROVE Steps(i)
  <2>1. Stacks!Has(i)  BY <1>1, <1>3, <1>6 DEF Stacks!Has
  <2>2. CASE r # 0 /\ ~Overflows(l, r)
    <3>1. ~Stacks!BadDiv(i)  BY <1>1, <1>4, <1>6, <2>2
    <3> QED  BY <1>1, <1>5, <1>6, <2>1, <2>2, <3>1, TookStep
  <2>3. CASE r = 0
    <3>1. P[1] = 0 /\ Stacks!BadDiv(i)  BY <1>1, <1>4, <1>6, <2>3
    <3>2. Dead(safe', x, "div")  BY <1>5, <1>6, <2>3
    <3> QED  BY <1>1, <2>1, <3>1, <3>2, Fails
  <2>4. CASE r # 0 /\ Overflows(l, r)
    <3>1. P[1] # 0 /\ Stacks!BadDiv(i)  BY <1>1, <1>4, <1>6, <2>4
    <3>2. Dead(safe', x, "trap")  BY <1>5, <1>6, <2>4
    <3> QED  BY <1>1, <2>1, <3>1, <3>2, Fails
  <2> QED  BY <2>2, <2>3, <2>4
<1>7. ASSUME d < 2 PROVE Steps(i)
  <2>1. ~Stacks!Has(i)  BY <1>1, <1>3, <1>7 DEF Stacks!Has
  <2>2. Dead(safe', x, "stack")  BY <1>2, <1>7
  <2> QED  BY <1>1, <2>1, <2>2, Fails
<1> QED  BY <1>3, <1>6, <1>7

-----------------------------------------------------------------------------
(* An instruction that leaves the return stack alone fits when its words do. *)
LEMMA FitsIs ==
  ASSUME NEW i, NEW x, Fetched(i, x), NEW g \in Seq(Word), NEW k \in Nat, k <= Depth(x),
         Stacks!Gives(i) = g, Stacks!Takes(i.op) = k, Stacks!RetsAfter(i) = Rets(safe)
  PROVE  Stacks!Fits(i) <=> Room(x, Len(g) + Depth(x) - k)
<1> DEFINE P == Params(safe)  q == SubSeq(P, k + 1, Len(P))  d == Depth(x)
<1>1. /\ P \in Seq(Word) /\ Len(P) = d /\ d \in Nat /\ Depth(safe) = d
      /\ RDepth(x) \in Nat /\ Len(Rets(safe)) = RDepth(x)
  BY Before DEF Fetched
<1> HIDE DEF P, d
<1>2. q \in Seq(Word) /\ Len(q) = d - k  BY <1>1 DEF d
<1> HIDE DEF q
<1>3. Len(g \o q) = Len(g) + Len(q) /\ Len(g) \in Nat  BY <1>2
<1>4. Stacks!After(i) = g \o q  BY DEF Stacks!After, q, P
<1>5. Len(Stacks!After(i)) = Len(g) + d - k  BY <1>2, <1>3, <1>4, <1>1
<1> QED  BY <1>1, <1>3, <1>5 DEF Stacks!Fits, Room, d

(* over                                                                     *)
LEMMA OverStep ==
  ASSUME NEW i, NEW x, Fetched(i, x), i.op = "over", safe' = Over(TRUE, x)
  PROVE  Steps(i)
<1> DEFINE P == Params(safe)  d == Depth(x)  g == <<P[2], P[1], P[2]>>
<1>1. /\ i.op \in Stacks!Known /\ Stacks!Takes(i.op) = 2 /\ Stacks!Gives(i) = g
      /\ ~Stacks!BadAddr(i) /\ ~Stacks!BadDiv(i) /\ Stacks!RetsAfter(i) = Rets(safe)
      /\ Stacks!DataAfter(i) = Rest(safe) /\ Stacks!Target(i) = Stacks!Behind(i)
      /\ i.op # "ret"
  BY DEF Stacks!Known, Stacks!Takes, Stacks!Gives, Stacks!BadAddr, Stacks!BadDiv,
         Stacks!RetsAfter, Stacks!DataAfter, Stacks!Target, Stacks!BinOps, Stacks!Loads,
         Stacks!Stores, Stacks!Divs, Stacks!Lits, Stacks!Peeks
<1>2. /\ d >= 2 /\ Room(x, d + 1) => Took(safe', x, <<Second(x), Top(x), Second(x)>>, 2 + 1)
      /\ d < 2 \/ ~Room(x, d + 1) => Dead(safe', x, "stack")
  <2>1. 2 + 1 = 3  OBVIOUS
  <2> QED  BY <2>1, OverView DEF Fetched
<1>3. d \in Nat /\ Len(P) = d /\ (d >= 2 => <<Second(x), Top(x), Second(x)>> = g)  BY Tops
<1>4. <<Second(x), Top(x), Second(x)>> \in Seq(Word) /\ Len(<<Second(x), Top(x), Second(x)>>) = 3
  BY TopWords, Tuples DEF Fetched
<1> HIDE DEF g
<1>5. ASSUME d >= 2 PROVE Steps(i)
  <2>1. Stacks!Has(i)  BY <1>1, <1>3, <1>5 DEF Stacks!Has
  <2>2. g \in Seq(Word) /\ Len(g) = 3  BY <1>3, <1>4, <1>5
  <2>3. Stacks!Fits(i) <=> Room(x, Len(g) + d - 2)
    <3>1. 2 \in Nat /\ 2 <= d  BY <1>5, <1>3
    <3> QED  BY <1>1, <2>2, <3>1, FitsIs
  <2> HIDE DEF d
  <2>4. Len(g) + d - 2 = d + 1  BY <2>2, <1>3
  <2>5. CASE Room(x, d + 1)
    <3>1. Took(safe', x, g, 2 + 1)  BY <1>2, <1>3, <1>5, <2>5
    <3> QED  BY <1>1, <2>1, <3>1, TookStep
  <2>6. CASE ~Room(x, d + 1)
    <3>1. ~Stacks!Fits(i)  BY <2>3, <2>4, <2>6
    <3>2. Dead(safe', x, "stack")  BY <1>2, <2>6
    <3> QED  BY <1>1, <2>1, <3>1, <3>2, Fails
  <2> QED  BY <2>5, <2>6
<1> HIDE DEF d
<1>6. ASSUME d < 2 PROVE Steps(i)
  <2>1. ~Stacks!Has(i)  BY <1>1, <1>3, <1>6 DEF Stacks!Has
  <2> QED  BY <1>1, <1>2, <1>6, <2>1, Fails
<1> QED  BY <1>3, <1>5, <1>6

(* A push of one word in front of what is there.                            *)
LEMMA PushStep ==
  ASSUME NEW i, NEW x, Fetched(i, x), NEW v \in Word, safe' = SPush(x, v),
         NEW g \in Seq(Word), NEW k \in {0, 1}, k <= Depth(x), Len(g) = k + 1,
         <<v>> \o SubSeq(Params(x), 1, Depth(x)) = g \o SubSeq(Params(x), k + 1, Depth(x)),
         i.op \in Stacks!Known, Stacks!Takes(i.op) = k, Stacks!Gives(i) = g, i.op # "ret",
         ~Stacks!BadAddr(i), ~Stacks!BadDiv(i), Stacks!RetsAfter(i) = Rets(safe),
         Stacks!DataAfter(i) = Rest(safe), Stacks!Target(i) = Stacks!Behind(i)
  PROVE  Steps(i)
<1> DEFINE d == Depth(x)
<1>0. Good(x) /\ Running(x) /\ k \in Nat /\ d \in Nat /\ Len(Params(safe)) = d
  BY Tops DEF Fetched
<1>1. Stacks!Has(i)  BY <1>0 DEF Stacks!Has
<1>2. /\ Room(x, d + 1) => Took(safe', x, <<v>>, 1)
      /\ ~Room(x, d + 1) => Dead(safe', x, "stack")
  BY <1>0, OneLeft
<1>3. Stacks!Fits(i) <=> Room(x, Len(g) + d - k)
  BY <1>0, FitsIs
<1>4. Len(g) + d - k = d + 1  BY <1>0
<1>5. CASE Room(x, d + 1)
  <2>1. Took(safe', x, <<v>>, 1)  BY <1>2, <1>5
  <2>2. k + 1 \in 1 .. d + 1  BY <1>0 DEF d
  <2>3. Took(safe', x, g, k + 1)  BY <2>1, <2>2 DEF Took
  <2> QED  BY <1>1, <2>3, TookStep
<1>6. CASE ~Room(x, d + 1)
  <2>1. ~Stacks!Fits(i)  BY <1>3, <1>4, <1>6
  <2>2. Dead(safe', x, "stack")  BY <1>2, <1>6
  <2> QED  BY <1>1, <2>1, <2>2, Fails
<1> QED  BY <1>5, <1>6

(* The literals.                                                            *)
LEMMA LitStep ==
  ASSUME NEW i, NEW x, Fetched(i, x), i.op \in {"lit8", "lit16", "lit32"},
         safe' = Push(TRUE, x, i.arg % WORD)
  PROVE  Steps(i)
<1> DEFINE v == i.arg % WORD
<1>1. Stacks!WORD = WORD  BY SameWords
<1>2. v \in Word
  <2>1. i.arg \in Int  BY DEF Fetched
  <2> QED  BY <2>1, ModWord
<1>3. /\ i.op \in Stacks!Known /\ Stacks!Takes(i.op) = 0 /\ Stacks!Gives(i) = <<v>>
      /\ ~Stacks!BadAddr(i) /\ ~Stacks!BadDiv(i) /\ Stacks!RetsAfter(i) = Rets(safe)
      /\ Stacks!DataAfter(i) = Rest(safe) /\ Stacks!Target(i) = Stacks!Behind(i)
      /\ i.op # "ret"
  <2> HIDE DEF WORD
  <2> QED
  BY <1>1 DEF Stacks!Known, Stacks!Takes, Stacks!Gives, Stacks!BadAddr, Stacks!BadDiv,
         Stacks!RetsAfter, Stacks!DataAfter, Stacks!Target, Stacks!BinOps, Stacks!Loads,
         Stacks!Stores, Stacks!Divs, Stacks!Lits, Stacks!Peeks
<1>4. safe' = SPush(x, v)  BY DEF SPush
<1> HIDE DEF v
<1>5. <<v>> \in Seq(Word) /\ Len(<<v>>) = 0 + 1 /\ 0 \in {0, 1} /\ 0 + 1 = 1  BY <1>2, Tuples
<1>6. 0 <= Depth(x)  BY Tops
<1>7. <<v>> \o SubSeq(Params(x), 1, Depth(x)) = <<v>> \o SubSeq(Params(x), 0 + 1, Depth(x))
  BY <1>5
<1> QED  BY <1>2, <1>3, <1>4, <1>5, <1>6, <1>7, PushStep

(* The bytes outside of the stacks read the same in the two views.          *)
LEMMA ReadRest ==
  ASSUME Good(safe), NEW a \in Nat, a .. a + 3 \subseteq Data \/ a = SP0
  PROVE  /\ Stacks!Value(a, 1) = Rd8(safe.mem, a)
         /\ Stacks!Value(a, 2) = Rd16(safe.mem, a)
         /\ Stacks!Value(a, 4) = Rd32(safe.mem, a)
<1> DEFINE m == safe.mem
<1>1. m \in Memory  BY MachineFacts DEF Good
<1>2. /\ a \in Addr /\ a + 1 \in Int /\ a + 2 \in Int /\ a + 3 \in Int
      /\ \A j \in 0 .. 3 : a + j \in 0 .. MEM + 2 /\ a + j \notin RP0 .. SP0 - 1
  <2>1. CASE a .. a + 3 \subseteq Data
    <3>1. \A j \in 0 .. 3 : a + j \in Data  BY <2>1
    <3>2. a + 0 \in Data  BY <3>1
    <3> QED  BY <3>1, <3>2, WvmAssumption DEF Addr
  <2>2. CASE a = SP0
    BY <2>2, WvmAssumption DEF Addr
  <2> QED  BY <2>1, <2>2
<1>3. DOMAIN m = 0 .. MEM + 2  BY <1>1 DEF Memory
<1>4. \A j \in 0 .. 3 : Rest(safe)[a + j] = m[a + j]
  BY <1>2, <1>3 DEF Rest
<1> HIDE DEF m
<1>5. /\ Rest(safe)[a + 0] = m[a] /\ Rest(safe)[a + 1] = m[a + 1]
      /\ Rest(safe)[a + 2] = m[a + 2] /\ Rest(safe)[a + 3] = m[a + 3]
  <2>1. a + 0 = a  OBVIOUS
  <2> QED  BY <1>4, <2>1
<1>6. /\ Rd8(m, a) = m[a] /\ Rd16(m, a) = m[a] + BYTE * m[a + 1]
      /\ Rd32(m, a) = FromBytes(m[a], m[a + 1], m[a + 2], m[a + 3])
  BY <1>2, ReadAt
<1>7. \A b, c, d, e : Stacks!FromBytes(b, c, d, e) = FromBytes(b, c, d, e)  BY SameWords
<1>8. /\ Stacks!Value(a, 1) = FromBytes(m[a], 0, 0, 0)
      /\ Stacks!Value(a, 2) = FromBytes(m[a], m[a + 1], 0, 0)
      /\ Stacks!Value(a, 4) = FromBytes(m[a], m[a + 1], m[a + 2], m[a + 3])
  BY <1>5, <1>7 DEF Stacks!Value
<1>9. m[a] \in Int /\ m[a + 1] \in Int
  <2>1. \A j \in 0 .. 3 : m[a + j] \in 0 .. BYTE - 1  BY <1>1, <1>2 DEF Memory
  <2>2. m[a + 0] \in 0 .. BYTE - 1 /\ m[a + 1] \in 0 .. BYTE - 1 /\ a + 0 = a  BY <2>1
  <2> QED  BY <2>2
<1>10. FromBytes(m[a], 0, 0, 0) = m[a] /\ FromBytes(m[a], m[a + 1], 0, 0) = m[a] + BYTE * m[a + 1]
  <2>1. BYTE \in Int /\ HALF \in Int  BY Sizes
  <2> HIDE DEF BYTE, HALF
  <2>2. HALF * (0 + BYTE * 0) = 0 /\ BYTE * 0 = 0  BY <2>1
  <2> QED  BY <1>9, <2>1, <2>2 DEF FromBytes
<1> QED  BY <1>6, <1>8, <1>10 DEF m

(* The top, or on an empty stack the bytes above it.                        *)
LEMMA FirstIs ==
  ASSUME NEW i, NEW x, Fetched(i, x)
  PROVE  Stacks!First = Top(x)
<1>1. Depth(safe) = Depth(x) /\ Good(safe) /\ Top(x) = Top(safe)  BY DEF Fetched
<1>2. CASE Depth(x) = 0
  <2>1. safe.sp = SP0
    <3>1. safe.sp = SP0 - 4 * Depth(safe)  BY <1>1 DEF Good
    <3>2. SP0 \in Nat  BY WvmAssumption
    <3> HIDE DEF Depth
    <3> QED  BY <1>1, <1>2, <3>1, <3>2
  <2>2. Stacks!Value(SP0, 4) = Rd32(safe.mem, SP0)
    BY <1>1, ReadRest, WvmAssumption
  <2>3. Params(safe) = <<>>  BY <1>2, Tops
  <2> QED  BY <1>1, <2>1, <2>2, <2>3 DEF Stacks!First, Top
<1>3. CASE Depth(x) # 0
  <2>1. Depth(x) \in Nat /\ Params(safe) # <<>> /\ (Depth(x) >= 1 => Top(x) = Params(safe)[1])
    BY <1>3, Tops
  <2> HIDE DEF Depth
  <2>2. Depth(x) >= 1  BY <1>3, <2>1
  <2> QED  BY <2>1, <2>2 DEF Stacks!First
<1> QED  BY <1>2, <1>3

(* dup                                                                      *)
LEMMA DupStep ==
  ASSUME NEW i, NEW x, Fetched(i, x), i.op = "dup", safe' = Push(TRUE, x, Top(x))
  PROVE  Steps(i)
<1> DEFINE v == Top(x)  P == Params(safe)
<1>0. v \in Word /\ Good(x) /\ Running(x) /\ Depth(x) \in Nat /\ Params(x) = P
      /\ (P = <<>> <=> Depth(x) = 0)
  BY TopWords, Tops DEF Fetched
<1>1. Stacks!First = v  BY FirstIs
<1>2. safe' = SPush(x, v)  BY DEF SPush
<1> HIDE DEF v, P, Depth
<1>3. /\ i.op \in Stacks!Known /\ i.op # "ret"
      /\ ~Stacks!BadAddr(i) /\ ~Stacks!BadDiv(i) /\ Stacks!RetsAfter(i) = Rets(safe)
      /\ Stacks!DataAfter(i) = Rest(safe) /\ Stacks!Target(i) = Stacks!Behind(i)
  BY DEF Stacks!Known, Stacks!BadAddr, Stacks!BadDiv,
         Stacks!RetsAfter, Stacks!DataAfter, Stacks!Target, Stacks!BinOps, Stacks!Loads,
         Stacks!Stores, Stacks!Divs, Stacks!Lits, Stacks!Peeks
<1>4. CASE P = <<>>
  <2>1. Stacks!Takes(i.op) = 0 /\ Stacks!Gives(i) = <<v>>
    BY <1>1, <1>4 DEF Stacks!Takes, Stacks!Gives, Stacks!BinOps, Stacks!Loads,
         Stacks!Stores, Stacks!Divs, Stacks!Lits, Stacks!Peeks, P
  <2>2. <<v>> \in Seq(Word) /\ Len(<<v>>) = 0 + 1 /\ 0 \in {0, 1} /\ 0 + 1 = 1 /\ 0 <= Depth(x)
    BY <1>0, Tuples
  <2> QED  BY <1>0, <1>2, <1>3, <2>1, <2>2, PushStep
<1>5. CASE P # <<>>
  <2>1. Stacks!Takes(i.op) = 1 /\ Stacks!Gives(i) = <<v, v>>
    BY <1>1, <1>5 DEF Stacks!Takes, Stacks!Gives, Stacks!BinOps, Stacks!Loads,
         Stacks!Stores, Stacks!Divs, Stacks!Lits, Stacks!Peeks, P
  <2>2. <<v, v>> \in Seq(Word) /\ Len(<<v, v>>) = 1 + 1 /\ 1 \in {0, 1} /\ 1 + 1 = 2 /\ 1 <= Depth(x)
    BY <1>0, <1>5, Tuples
  <2>3. <<v>> \o SubSeq(Params(x), 1, Depth(x)) = <<v, v>> \o SubSeq(Params(x), 1 + 1, Depth(x))
    BY <1>0, <2>2, TopOne DEF v
  <2> QED  BY <1>0, <1>2, <1>3, <2>1, <2>2, <2>3, PushStep
<1> QED  BY <1>4, <1>5

(* duple                                                                    *)
LEMMA DupleStep ==
  ASSUME NEW i, NEW x, Fetched(i, x), i.op = "duple", safe' = Duple(TRUE, x, i.arg)
  PROVE  Steps(i)
<1> DEFINE t == Top(x)  v == Flag(Signed(t) <= i.arg)  P == Params(safe)
<1>0. t \in Word /\ v \in Word /\ Good(x) /\ Running(x) /\ Depth(x) \in Nat /\ Params(x) = P
      /\ (P = <<>> <=> Depth(x) = 0)
  BY TopWords, Tops, FlagWord DEF Fetched
<1>1. Stacks!First = t  BY FirstIs
<1>2. safe' = SPush(x, v)  BY DEF SPush, Duple
<1>3. Stacks!Flag(Stacks!Signed(t) <= i.arg) = v  BY SameWords
<1> HIDE DEF v, P, Depth, t
<1>4. /\ i.op \in Stacks!Known /\ i.op # "ret"
      /\ ~Stacks!BadAddr(i) /\ ~Stacks!BadDiv(i) /\ Stacks!RetsAfter(i) = Rets(safe)
      /\ Stacks!DataAfter(i) = Rest(safe) /\ Stacks!Target(i) = Stacks!Behind(i)
  BY DEF Stacks!Known, Stacks!BadAddr, Stacks!BadDiv,
         Stacks!RetsAfter, Stacks!DataAfter, Stacks!Target, Stacks!BinOps, Stacks!Loads,
         Stacks!Stores, Stacks!Divs, Stacks!Lits, Stacks!Peeks
<1>5. CASE P = <<>>
  <2>1. Stacks!Takes(i.op) = 0 /\ Stacks!Gives(i) = <<v>> \o <<>>
    BY <1>1, <1>3, <1>5 DEF Stacks!Takes, Stacks!Gives, Stacks!BinOps, Stacks!Loads,
         Stacks!Stores, Stacks!Divs, Stacks!Lits, Stacks!Peeks, P
  <2>2. <<v>> \in Seq(Word) /\ Len(<<v>>) = 0 + 1 /\ 0 \in {0, 1} /\ 0 + 1 = 1 /\ 0 <= Depth(x)
        /\ <<v>> \o <<>> = <<v>>
    BY <1>0, Tuples
  <2> QED  BY <1>0, <1>2, <1>4, <2>1, <2>2, PushStep
<1>6. CASE P # <<>>
  <2>1. Stacks!Takes(i.op) = 1 /\ Stacks!Gives(i) = <<v>> \o <<t>>
    BY <1>1, <1>3, <1>6 DEF Stacks!Takes, Stacks!Gives, Stacks!BinOps, Stacks!Loads,
         Stacks!Stores, Stacks!Divs, Stacks!Lits, Stacks!Peeks, P
  <2>2. <<v, t>> \in Seq(Word) /\ Len(<<v, t>>) = 1 + 1 /\ 1 \in {0, 1} /\ 1 + 1 = 2 /\ 1 <= Depth(x)
        /\ <<v>> \o <<t>> = <<v, t>>
    BY <1>0, <1>6, Tuples
  <2>3. <<v>> \o SubSeq(Params(x), 1, Depth(x)) = <<v, t>> \o SubSeq(Params(x), 1 + 1, Depth(x))
    BY <1>0, <2>2, TopOne DEF t
  <2> QED  BY <1>0, <1>2, <1>4, <2>1, <2>2, <2>3, PushStep
<1> QED  BY <1>5, <1>6

(* dec and subk.                                                            *)
LEMMA SubkStep ==
  ASSUME NEW i, NEW x, Fetched(i, x), i.op \in {"dec", "subk"}, Depth(x) >= 1,
         safe' = Subk(x, IF i.op = "dec" THEN 1 ELSE i.arg)
  PROVE  Steps(i)
<1> DEFINE k == IF i.op = "dec" THEN 1 ELSE i.arg  t == Top(x)  v == (t - k) % WORD  P == Params(safe)
<1>0. k \in Int /\ Good(x) /\ Running(x) /\ Depth(x) \in Nat /\ Len(P) = Depth(x) /\ P # <<>>
  BY Tops DEF Fetched
<1>1. Stacks!First = t /\ Stacks!WORD = WORD  BY FirstIs, SameWords
<1>2. Effect(safe', x, <<v>>, 2, Rets(x), Rest(x), x.ip)  BY <1>0, SubkView
<1>3. Rets(x) = Rets(safe) /\ Rest(x) = Rest(safe) /\ x.ip = Stacks!Behind(i)  BY DEF Fetched
<1> HIDE DEF t, P, Depth, WORD
<1>4. /\ i.op \in Stacks!Known /\ i.op # "ret"
      /\ ~Stacks!BadAddr(i) /\ ~Stacks!BadDiv(i) /\ Stacks!RetsAfter(i) = Rets(safe)
      /\ Stacks!Target(i) = Stacks!Behind(i)
  BY DEF Stacks!Known, Stacks!BadAddr, Stacks!BadDiv,
         Stacks!RetsAfter, Stacks!Target, Stacks!BinOps, Stacks!Loads,
         Stacks!Stores, Stacks!Divs, Stacks!Lits, Stacks!Peeks
<1>5. Stacks!DataAfter(i) = Rest(safe)
  BY <1>0 DEF Stacks!DataAfter, Stacks!Stores, P
<1>6. Stacks!Takes(i.op) = 1 /\ Stacks!Gives(i) = <<v>>
  BY <1>0, <1>1 DEF Stacks!Takes, Stacks!Gives, Stacks!BinOps, Stacks!Loads,
         Stacks!Stores, Stacks!Divs, Stacks!Lits, Stacks!Peeks, P
<1> HIDE DEF v, k
<1>7. Stacks!Has(i)  BY <1>0, <1>4, <1>6 DEF Stacks!Has, P
<1>8. Effect(safe', x, <<v>>, 2, Stacks!RetsAfter(i), Stacks!DataAfter(i), Stacks!Target(i))
  BY <1>2, <1>3, <1>4, <1>5
<1>9. Stacks!Takes(i.op) + 1 = 2  BY <1>6
<1> QED  BY <1>4, <1>6, <1>7, <1>8, <1>9, EffectStep

(* The loads.                                                               *)
LEMMA LoadStep ==
  ASSUME NEW i, NEW x, Fetched(i, x), NEW n \in {1, 2, 4},
         i.op = (IF n = 1 THEN "load8" ELSE IF n = 2 THEN "load16" ELSE "load"),
         Depth(x) < 1 \/ Top(x) >= UNIVERSE \/ Top(x) .. Top(x) + 3 \subseteq Data,
         safe' = Load(TRUE, x, n)
  PROVE  Steps(i)
<1> DEFINE P == Params(safe)  d == Depth(x)  a == Top(x)
           v == IF n = 1 THEN Rd8(x.mem, a) ELSE IF n = 2 THEN Rd16(x.mem, a) ELSE Rd32(x.mem, a)
<1>1. /\ i.op \in Stacks!Known /\ Stacks!Takes(i.op) = 1
      /\ Stacks!Gives(i) = <<Stacks!Value(P[1], n)>>
      /\ (Stacks!BadAddr(i) <=> P[1] >= UNIVERSE) /\ ~Stacks!BadDiv(i)
      /\ Stacks!RetsAfter(i) = Rets(safe)
      /\ Stacks!DataAfter(i) = Rest(safe) /\ Stacks!Target(i) = Stacks!Behind(i)
      /\ i.op # "ret"
  <2> USE DEF Stacks!Known, Stacks!Takes, Stacks!Gives, Stacks!BadAddr, Stacks!BadDiv,
         Stacks!RetsAfter, Stacks!DataAfter, Stacks!Target, Stacks!BinOps, Stacks!Loads,
         Stacks!Stores, Stacks!Divs, Stacks!Lits, Stacks!Peeks, Stacks!Bytes
  <2>1. CASE n = 1  BY <2>1
  <2>2. CASE n = 2  BY <2>2
  <2>3. CASE n = 4  BY <2>3
  <2> QED  BY <2>1, <2>2, <2>3
<1>2. /\ d >= 1 /\ ~(a >= UNIVERSE) => Took(safe', x, <<v>>, 1 + 1)
      /\ d >= 1 /\ a >= UNIVERSE => Dead(safe', x, "addr")
      /\ d < 1 => Dead(safe', x, "stack")
  <2>1. 1 + 1 = 2 /\ Good(x) /\ Running(x)  BY DEF Fetched
  <2> QED  BY <2>1, LoadView
<1>3. d \in Nat /\ Len(P) = d /\ (d >= 1 => a = P[1])  BY Tops
<1>4. d >= 1 /\ ~(a >= UNIVERSE) => Stacks!Value(P[1], n) = v
  <2> SUFFICES ASSUME d >= 1, ~(a >= UNIVERSE) PROVE Stacks!Value(P[1], n) = v
    OBVIOUS
  <2>1. a \in Nat /\ x.mem = safe.mem /\ Good(safe)  BY TopWords, WordNat DEF Fetched
  <2>2. a .. a + 3 \subseteq Data  BY <1>3
  <2> HIDE DEF a, d
  <2>3. /\ Stacks!Value(a, 1) = Rd8(safe.mem, a) /\ Stacks!Value(a, 2) = Rd16(safe.mem, a)
        /\ Stacks!Value(a, 4) = Rd32(safe.mem, a)
    BY <2>1, <2>2, ReadRest
  <2> QED  BY <1>3, <2>1, <2>3
<1> HIDE DEF v, d, a
<1>5. ASSUME d >= 1 PROVE Steps(i)
  <2>1. Stacks!Has(i)  BY <1>1, <1>3, <1>5 DEF Stacks!Has
  <2>2. CASE ~(a >= UNIVERSE)
    <3>1. ~Stacks!BadAddr(i) /\ Stacks!Gives(i) = <<v>>  BY <1>1, <1>3, <1>4, <1>5, <2>2
    <3>2. Took(safe', x, <<v>>, 1 + 1)  BY <1>2, <1>5, <2>2
    <3> QED  BY <1>1, <2>1, <3>1, <3>2, TookStep
  <2>3. CASE a >= UNIVERSE
    <3>1. Stacks!BadAddr(i)  BY <1>1, <1>3, <1>5, <2>3
    <3> QED  BY <1>1, <1>2, <1>5, <2>1, <2>3, <3>1, Fails
  <2> QED  BY <2>2, <2>3
<1>6. ASSUME d < 1 PROVE Steps(i)
  <2>1. ~Stacks!Has(i)  BY <1>1, <1>3, <1>6 DEF Stacks!Has
  <2> QED  BY <1>1, <1>2, <1>6, <2>1, Fails
<1> QED  BY <1>3, <1>5, <1>6

(* The stores.                                                              *)
LEMMA StoreStep ==
  ASSUME NEW i, NEW x, Fetched(i, x), NEW n \in {1, 2, 4},
         i.op = (IF n = 1 THEN "store8" ELSE IF n = 2 THEN "store16" ELSE "store"),
         Depth(x) < 2 \/ Top(x) >= UNIVERSE \/ Top(x) .. Top(x) + 3 \subseteq Data,
         safe' = Store(TRUE, x, n)
  PROVE  Steps(i)
<1> DEFINE P == Params(safe)  d == Depth(x)  a == Top(x)
           m == Stored(Rest(x), a, n, Second(x))
<1>1. /\ i.op \in Stacks!Known /\ Stacks!Takes(i.op) = 2 /\ Stacks!Gives(i) = <<>>
      /\ (Stacks!BadAddr(i) <=> P[1] >= UNIVERSE) /\ ~Stacks!BadDiv(i)
      /\ Stacks!RetsAfter(i) = Rets(safe)
      /\ Stacks!DataAfter(i) = Stacks!Put(P[1], n, P[2]) /\ Stacks!Target(i) = Stacks!Behind(i)
      /\ i.op # "ret"
  <2> USE DEF Stacks!Known, Stacks!Takes, Stacks!Gives, Stacks!BadAddr, Stacks!BadDiv,
         Stacks!RetsAfter, Stacks!DataAfter, Stacks!Target, Stacks!BinOps, Stacks!Loads,
         Stacks!Stores, Stacks!Divs, Stacks!Lits, Stacks!Peeks, Stacks!Bytes
  <2>1. CASE n = 1  BY <2>1
  <2>2. CASE n = 2  BY <2>2
  <2>3. CASE n = 4  BY <2>3
  <2> QED  BY <2>1, <2>2, <2>3
<1>2. /\ d >= 2 /\ ~(a >= UNIVERSE) => Effect(safe', x, <<>>, 3, Rets(x), m, x.ip)
      /\ d >= 2 /\ a >= UNIVERSE => Dead(safe', x, "addr")
      /\ d < 2 => Dead(safe', x, "stack")
  <2>1. Good(x) /\ Running(x)  BY DEF Fetched
  <2>2. d \in Nat  BY Tops
  <2>3. d >= 2 /\ ~(a >= UNIVERSE) => a .. a + 3 \subseteq Data  BY <2>2
  <2> QED  BY <2>1, <2>3, StoreView
<1>3. d \in Nat /\ Len(P) = d /\ (d >= 2 => a = P[1] /\ Second(x) = P[2])  BY Tops
<1>4. d >= 2 => Stacks!Put(P[1], n, P[2]) = m
  <2>1. Rest(x) = Rest(safe)  BY DEF Fetched
  <2>2. \A v, j : Stacks!ByteAt(v, j) = ByteAt(v, j)  BY SameWords
  <2> HIDE DEF d, a, P
  <2> QED  BY <1>3, <2>1, <2>2 DEF Stacks!Put, Stored
<1>5. Rets(x) = Rets(safe) /\ x.ip = Stacks!Behind(i)  BY DEF Fetched
<1> HIDE DEF m, d, a
<1>6. ASSUME d >= 2 PROVE Steps(i)
  <2>1. Stacks!Has(i)  BY <1>1, <1>3, <1>6 DEF Stacks!Has
  <2>2. CASE ~(a >= UNIVERSE)
    <3>1. ~Stacks!BadAddr(i)  BY <1>1, <1>3, <1>6, <2>2
    <3>2. Effect(safe', x, <<>>, 3, Stacks!RetsAfter(i), Stacks!DataAfter(i), Stacks!Target(i))
      BY <1>1, <1>2, <1>4, <1>5, <1>6, <2>2
    <3>3. Stacks!Takes(i.op) + 1 = 3  BY <1>1
    <3> QED  BY <1>1, <2>1, <3>1, <3>2, <3>3, EffectStep
  <2>3. CASE a >= UNIVERSE
    <3>1. Stacks!BadAddr(i)  BY <1>1, <1>3, <1>6, <2>3
    <3> QED  BY <1>1, <1>2, <1>6, <2>1, <2>3, <3>1, Fails
  <2> QED  BY <2>2, <2>3
<1>7. ASSUME d < 2 PROVE Steps(i)
  <2>1. ~Stacks!Has(i)  BY <1>1, <1>3, <1>7 DEF Stacks!Has
  <2> QED  BY <1>1, <1>2, <1>7, <2>1, Fails
<1> QED  BY <1>3, <1>6, <1>7

(* nop                                                                      *)
LEMMA NopStep ==
  ASSUME NEW i, NEW x, Fetched(i, x), i.op = "nop", safe' = x
  PROVE  Steps(i)
<1>1. /\ i.op \in Stacks!Known /\ Stacks!Takes(i.op) = 0 /\ Stacks!Gives(i) = <<>>
      /\ ~Stacks!BadAddr(i) /\ ~Stacks!BadDiv(i) /\ Stacks!RetsAfter(i) = Rets(safe)
      /\ Stacks!DataAfter(i) = Rest(safe) /\ Stacks!Target(i) = Stacks!Behind(i)
      /\ i.op # "ret"
  BY DEF Stacks!Known, Stacks!Takes, Stacks!Gives, Stacks!BadAddr, Stacks!BadDiv,
         Stacks!RetsAfter, Stacks!DataAfter, Stacks!Target, Stacks!BinOps, Stacks!Loads,
         Stacks!Stores, Stacks!Divs, Stacks!Lits, Stacks!Peeks
<1>2. Took(safe', x, <<>>, 1)  BY TookNone DEF Fetched
<1>3. Stacks!Has(i)
  <2>1. Len(Params(safe)) \in Nat  BY Tops
  <2> QED  BY <1>1, <2>1 DEF Stacks!Has
<1>4. Stacks!Takes(i.op) + 1 = 1  BY <1>1
<1> QED  BY <1>1, <1>2, <1>3, <1>4, TookStep

(* An instruction that stops the machine before it takes anything.          *)
LEMMA StopStep ==
  ASSUME NEW i, NEW x, Fetched(i, x), NEW st \in {"ok", "opcode"}, safe' = Stop(x, st),
         st = "ok" => i.op = "halt", st = "opcode" => i.op \notin Stacks!Known \cup {"halt"}
  PROVE  Steps(i)
<1>1. Good(x) /\ Good(safe) /\ x.ip \in Word /\ st \in Status /\ Params(x) = Params(safe)
  BY DEF Fetched, Status
<1>2. Took(x, x, <<>>, 1)  BY <1>1, TookNone
<1>3. Dead(safe', x, st)  BY <1>1, <1>2, TookStop
<1>4. Stacks!Halt(st)  BY <1>3, HaltStep DEF Fetched
<1>5. Params(safe') = Params(safe)  BY <1>1, PlainView
<1>6. Params(safe)' = Params(safe)  BY <1>5 DEF Params, Depth
<1>7. Good(safe')  BY <1>3 DEF Dead
<1>8. CASE st = "ok"  BY <1>4, <1>6, <1>7, <1>8 DEF Steps, Stacks!Fail
<1>9. CASE st = "opcode"  BY <1>4, <1>6, <1>7, <1>9 DEF Steps, Stacks!Fail
<1> QED  BY <1>8, <1>9

(* jmp                                                                      *)
LEMMA JmpStep ==
  ASSUME NEW i, NEW x, Fetched(i, x), i.op = "jmp", i.arg \in Word, safe' = Jump(x, i.arg)
  PROVE  Steps(i)
<1>1. /\ i.op \in Stacks!Known /\ Stacks!Takes(i.op) = 0 /\ Stacks!Gives(i) = <<>>
      /\ ~Stacks!BadAddr(i) /\ ~Stacks!BadDiv(i) /\ Stacks!RetsAfter(i) = Rets(safe)
      /\ Stacks!DataAfter(i) = Rest(safe) /\ Stacks!Target(i) = i.arg
      /\ i.op # "ret"
  BY DEF Stacks!Known, Stacks!Takes, Stacks!Gives, Stacks!BadAddr, Stacks!BadDiv,
         Stacks!RetsAfter, Stacks!DataAfter, Stacks!Target, Stacks!BinOps, Stacks!Loads,
         Stacks!Stores, Stacks!Divs, Stacks!Lits, Stacks!Peeks
<1>2. Params(x) = <<>> \o SubSeq(Params(x), 1, Depth(x))
  BY TookNone DEF Fetched, Took
<1>3. Effect(safe', x, <<>>, 1, Rets(x), Rest(x), i.arg)
  BY <1>2, JumpTo DEF Fetched, Effect
<1>4. Rets(x) = Rets(safe) /\ Rest(x) = Rest(safe)  BY DEF Fetched
<1>5. Stacks!Has(i)
  <2>1. Len(Params(safe)) \in Nat  BY Tops
  <2> QED  BY <1>1, <2>1 DEF Stacks!Has
<1>6. Stacks!Takes(i.op) + 1 = 1  BY <1>1
<1>7. Effect(safe', x, <<>>, 1, Stacks!RetsAfter(i), Stacks!DataAfter(i), Stacks!Target(i))
  BY <1>1, <1>3, <1>4
<1> QED  BY <1>1, <1>5, <1>6, <1>7, EffectStep

(* jz and jnz.                                                              *)
LEMMA BranchStep ==
  ASSUME NEW i, NEW x, Fetched(i, x), i.op \in {"jz", "jnz"}, i.arg \in Word,
         safe' = Branch(TRUE, x, i.arg, IF i.op = "jz" THEN Top(x) = 0 ELSE Top(x) # 0)
  PROVE  Steps(i)
<1> DEFINE P == Params(safe)  d == Depth(x)
           c == IF i.op = "jz" THEN Top(x) = 0 ELSE Top(x) # 0
           e == IF i.op = "jz" THEN P[1] = 0 ELSE P[1] # 0
           q == Stacks!Behind(i)
<1>1. /\ i.op \in Stacks!Known /\ Stacks!Takes(i.op) = 1 /\ Stacks!Gives(i) = <<>>
      /\ ~Stacks!BadAddr(i) /\ ~Stacks!BadDiv(i) /\ Stacks!RetsAfter(i) = Rets(safe)
      /\ Stacks!DataAfter(i) = Rest(safe) /\ Stacks!Target(i) = (IF e THEN i.arg ELSE q)
      /\ i.op # "ret"
  <2>1. CASE i.op = "jz"
    BY <2>1 DEF Stacks!Known, Stacks!Takes, Stacks!Gives, Stacks!BadAddr, Stacks!BadDiv,
         Stacks!RetsAfter, Stacks!DataAfter, Stacks!Target, Stacks!BinOps, Stacks!Loads,
         Stacks!Stores, Stacks!Divs, Stacks!Lits, Stacks!Peeks
  <2>2. CASE i.op = "jnz"
    BY <2>2 DEF Stacks!Known, Stacks!Takes, Stacks!Gives, Stacks!BadAddr, Stacks!BadDiv,
         Stacks!RetsAfter, Stacks!DataAfter, Stacks!Target, Stacks!BinOps, Stacks!Loads,
         Stacks!Stores, Stacks!Divs, Stacks!Lits, Stacks!Peeks
  <2> QED  BY <2>1, <2>2
<1>2. d \in Nat /\ Len(P) = d /\ (d >= 1 => Top(x) = P[1])  BY Tops
<1>3. d >= 1 => (c <=> e)  BY <1>2
<1> HIDE DEF c
<1>4. /\ d >= 1 => Effect(safe', x, <<>>, 2, Rets(x), Rest(x), IF c THEN i.arg ELSE x.ip)
      /\ d < 1 => Dead(safe', x, "stack")
  <2>1. safe' = Branch(TRUE, x, i.arg, c)  BY DEF c
  <2> QED  BY <2>1, BranchView DEF Fetched
<1>5. Rets(x) = Rets(safe) /\ Rest(x) = Rest(safe) /\ x.ip = q  BY DEF Fetched
<1> HIDE DEF d, e, q
<1>6. ASSUME d >= 1 PROVE Steps(i)
  <2>1. Stacks!Has(i)  BY <1>1, <1>2, <1>6 DEF Stacks!Has
  <2>2. (IF c THEN i.arg ELSE x.ip) = Stacks!Target(i)  BY <1>1, <1>3, <1>5, <1>6
  <2>3. Effect(safe', x, <<>>, 2, Stacks!RetsAfter(i), Stacks!DataAfter(i), Stacks!Target(i))
    BY <1>1, <1>4, <1>5, <1>6, <2>2
  <2>4. Stacks!Takes(i.op) + 1 = 2  BY <1>1
  <2> QED  BY <1>1, <2>1, <2>3, <2>4, EffectStep
<1>7. ASSUME d < 1 PROVE Steps(i)
  <2>1. ~Stacks!Has(i)  BY <1>1, <1>2, <1>7 DEF Stacks!Has
  <2> QED  BY <1>1, <1>4, <1>7, <2>1, Fails
<1> QED  BY <1>2, <1>6, <1>7

(* ret                                                                      *)
LEMMA RetStep ==
  ASSUME NEW i, NEW x, Fetched(i, x), i.op = "ret", safe' = PopRet(TRUE, x)
  PROVE  Steps(i)
<1> DEFINE R == Rets(safe)  e == RDepth(x)
<1>1. /\ i.op \in Stacks!Known /\ Stacks!Takes(i.op) = 0 /\ Stacks!Gives(i) = <<>>
      /\ ~Stacks!BadAddr(i) /\ ~Stacks!BadDiv(i) /\ Stacks!RetsAfter(i) = SubSeq(R, 1, Len(R) - 1)
      /\ Stacks!DataAfter(i) = Rest(safe) /\ Stacks!Target(i) = R[Len(R)]
  BY DEF Stacks!Known, Stacks!Takes, Stacks!Gives, Stacks!BadAddr, Stacks!BadDiv,
         Stacks!RetsAfter, Stacks!DataAfter, Stacks!Target, Stacks!BinOps, Stacks!Loads,
         Stacks!Stores, Stacks!Divs, Stacks!Lits, Stacks!Peeks
<1>2. e \in Nat /\ Len(R) = e /\ (R = <<>> <=> e = 0) /\ Len(Params(safe)) \in Nat  BY Tops
<1>3. /\ e > 0 => Effect(safe', x, <<>>, 1, SubSeq(Rets(x), 1, e - 1), Rest(x), Rets(x)[e])
      /\ e = 0 => Dead(safe', x, "stack")
  BY RetView DEF Fetched
<1>4. Rets(x) = R /\ Rest(x) = Rest(safe)  BY DEF Fetched
<1> HIDE DEF e, R
<1>5. ASSUME e > 0 PROVE Steps(i)
  <2>1. Stacks!Has(i)  BY <1>1, <1>2, <1>5 DEF Stacks!Has, R
  <2>2. Effect(safe', x, <<>>, 1, Stacks!RetsAfter(i), Stacks!DataAfter(i), Stacks!Target(i))
    BY <1>1, <1>2, <1>3, <1>4, <1>5
  <2>3. Stacks!Takes(i.op) + 1 = 1  BY <1>1
  <2> QED  BY <1>1, <2>1, <2>2, <2>3, EffectStep
<1>6. ASSUME e = 0 PROVE Steps(i)
  <2>1. ~Stacks!Has(i)  BY <1>2, <1>6 DEF Stacks!Has, R
  <2> QED  BY <1>1, <1>3, <1>6, <2>1, Fails
<1> QED  BY <1>2, <1>5, <1>6

(* call                                                                     *)
LEMMA CallStep ==
  ASSUME NEW i, NEW x, Fetched(i, x), i.op = "call", i.arg \in Word, safe' = Call(TRUE, x, i.arg)
  PROVE  Steps(i)
<1> DEFINE R == Rets(safe)  d == Depth(x)  e == RDepth(x)  r == Append(R, Stacks!Behind(i) % HALF)
           room == 4 * d + 2 * (e + 1) <= SP0 - RP0
<1>0. Stacks!HALF = HALF  BY SameWords
<1>1. /\ i.op \in Stacks!Known /\ Stacks!Takes(i.op) = 0 /\ Stacks!Gives(i) = <<>>
      /\ ~Stacks!BadAddr(i) /\ ~Stacks!BadDiv(i) /\ Stacks!RetsAfter(i) = r
      /\ Stacks!DataAfter(i) = Rest(safe) /\ Stacks!Target(i) = i.arg
      /\ i.op # "ret"
  <2> HIDE DEF HALF
  <2> QED
  BY <1>0 DEF Stacks!Known, Stacks!Takes, Stacks!Gives, Stacks!BadAddr, Stacks!BadDiv,
         Stacks!RetsAfter, Stacks!DataAfter, Stacks!Target, Stacks!BinOps, Stacks!Loads,
         Stacks!Stores, Stacks!Divs, Stacks!Lits, Stacks!Peeks
<1>2. /\ d \in Nat /\ e \in Nat /\ Len(R) = e /\ Len(Params(safe)) = d
      /\ Params(safe) \in Seq(Word) /\ R \in Seq(Word) /\ Depth(safe) = d
  BY Tops, Before DEF Fetched
<1>3. Rets(x) = R /\ Rest(x) = Rest(safe) /\ x.ip = Stacks!Behind(i)  BY DEF Fetched
<1>4. /\ room => Effect(safe', x, <<>>, 1, r, Rest(x), i.arg)
      /\ ~room => Dead(safe', x, "stack")
  <2>1. /\ room => Effect(safe', x, <<>>, 1, Append(Rets(x), x.ip % HALF), Rest(x), i.arg)
        /\ 4 * d + 2 * (e + 1) > SP0 - RP0 => Dead(safe', x, "stack")
    BY CallView DEF Fetched
  <2>2. ~room => 4 * d + 2 * (e + 1) > SP0 - RP0
    <3>1. SP0 \in Nat /\ RP0 \in Nat  BY WvmAssumption
    <3> HIDE DEF d, e
    <3> QED  BY <1>2, <3>1
  <2> QED  BY <1>3, <2>1, <2>2
<1>5. Stacks!Has(i)  BY <1>1, <1>2 DEF Stacks!Has
<1>6. Stacks!Fits(i) <=> room
  <2>1. Stacks!After(i) = <<>> \o SubSeq(Params(safe), 0 + 1, Len(Params(safe)))
    BY <1>1 DEF Stacks!After
  <2>2. Len(<<>> \o SubSeq(Params(safe), 0 + 1, Len(Params(safe)))) = d
    <3> DEFINE P == Params(safe)
    <3> HIDE DEF P, d
    <3> QED  BY <1>2 DEF P
  <2>3. Len(r) = e + 1
    <3> HIDE DEF R, e, HALF
    <3> QED  BY <1>2
  <2> HIDE DEF r, d, e
  <2> QED  BY <1>1, <2>1, <2>2, <2>3 DEF Stacks!Fits
<1> HIDE DEF room
<1>7. CASE room
  <2>1. Effect(safe', x, <<>>, 1, Stacks!RetsAfter(i), Stacks!DataAfter(i), Stacks!Target(i))
    BY <1>1, <1>3, <1>4, <1>7
  <2>2. Stacks!Takes(i.op) + 1 = 1  BY <1>1
  <2> QED  BY <1>1, <1>5, <2>1, <2>2, EffectStep
<1>8. CASE ~room  BY <1>1, <1>4, <1>5, <1>6, <1>8, Fails
<1> QED  BY <1>7, <1>8

(* jmpx and callx.                                                          *)
LEMMA JmpxStep ==
  ASSUME NEW i, NEW x, Fetched(i, x), i.op \in {"jmpx", "callx"},
         safe' = (IF i.op = "jmpx" THEN Jmpx(TRUE, x) ELSE Callx(TRUE, x))
  PROVE  Steps(i)
<1> DEFINE P == Params(safe)  R == Rets(safe)  d == Depth(x)  a == Top(x) % HALF
           r == IF i.op = "jmpx" THEN R ELSE Append(R, Stacks!Behind(i) % HALF)
<1>0. Stacks!HALF = HALF  BY SameWords
<1>1. /\ i.op \in Stacks!Known /\ Stacks!Takes(i.op) = 1 /\ Stacks!Gives(i) = <<>>
      /\ (Stacks!BadAddr(i) <=> P[1] % HALF >= UNIVERSE)
      /\ ~Stacks!BadDiv(i) /\ Stacks!RetsAfter(i) = r
      /\ Stacks!DataAfter(i) = Rest(safe) /\ Stacks!Target(i) = P[1] % HALF
      /\ i.op # "ret"
  <2> HIDE DEF HALF
  <2>1. CASE i.op = "jmpx"
    BY <1>0, <2>1 DEF Stacks!Known, Stacks!Takes, Stacks!Gives, Stacks!BadAddr, Stacks!BadDiv,
         Stacks!RetsAfter, Stacks!DataAfter, Stacks!Target, Stacks!BinOps, Stacks!Loads,
         Stacks!Stores, Stacks!Divs, Stacks!Lits, Stacks!Peeks
  <2>2. CASE i.op = "callx"
    BY <1>0, <2>2 DEF Stacks!Known, Stacks!Takes, Stacks!Gives, Stacks!BadAddr, Stacks!BadDiv,
         Stacks!RetsAfter, Stacks!DataAfter, Stacks!Target, Stacks!BinOps, Stacks!Loads,
         Stacks!Stores, Stacks!Divs, Stacks!Lits, Stacks!Peeks
  <2> QED  BY <2>1, <2>2
<1>2. d \in Nat /\ Len(P) = d /\ (d >= 1 => Top(x) = P[1])  BY Tops
<1>3. Rets(x) = R /\ Rest(x) = Rest(safe) /\ x.ip = Stacks!Behind(i)  BY DEF Fetched
<1>4. /\ d >= 1 /\ ~(a >= UNIVERSE) => Effect(safe', x, <<>>, 2, r, Rest(x), a)
      /\ d >= 1 /\ a >= UNIVERSE => Dead(safe', x, "addr")
      /\ d < 1 => Dead(safe', x, "stack")
  <2>0. Good(x) /\ Running(x)  BY DEF Fetched
  <2>1. CASE i.op = "jmpx"
    <3>1. safe' = Jmpx(TRUE, x) /\ r = Rets(x)  BY <1>3, <2>1
    <3> QED  BY <2>0, <3>1, JmpxView
  <2>2. CASE i.op = "callx"
    <3>1. safe' = Callx(TRUE, x) /\ r = Append(Rets(x), x.ip % HALF)  BY <1>3, <2>2
    <3> QED  BY <2>0, <3>1, CallxView
  <2> QED  BY <2>1, <2>2
<1>5. d >= 1 => a = P[1] % HALF  BY <1>2
<1> HIDE DEF d, a, r
<1>6. ASSUME d >= 1 PROVE Steps(i)
  <2>1. Stacks!Has(i)  BY <1>1, <1>2, <1>6 DEF Stacks!Has
  <2>2. CASE ~(a >= UNIVERSE)
    <3>1. ~Stacks!BadAddr(i)  BY <1>1, <1>5, <1>6, <2>2
    <3>2. Effect(safe', x, <<>>, 2, Stacks!RetsAfter(i), Stacks!DataAfter(i), Stacks!Target(i))
      BY <1>1, <1>3, <1>4, <1>5, <1>6, <2>2
    <3>3. Stacks!Takes(i.op) + 1 = 2  BY <1>1
    <3> QED  BY <1>1, <2>1, <3>1, <3>2, <3>3, EffectStep
  <2>3. CASE a >= UNIVERSE
    <3>1. Stacks!BadAddr(i)  BY <1>1, <1>5, <1>6, <2>3
    <3> QED  BY <1>1, <1>4, <1>6, <2>1, <2>3, <3>1, Fails
  <2> QED  BY <2>2, <2>3
<1>7. ASSUME d < 1 PROVE Steps(i)
  <2>1. ~Stacks!Has(i)  BY <1>1, <1>2, <1>7 DEF Stacks!Has
  <2> QED  BY <1>1, <1>4, <1>7, <2>1, Fails
<1> QED  BY <1>2, <1>6, <1>7

-----------------------------------------------------------------------------
(* Every instruction of a program that keeps to its data is a step of the   *)
(* two stacks.                                                               *)
LEMMA ExecStep ==
  ASSUME Good(safe), Running(safe), NEW i \in Code[safe.ip % MEM], DataOnly(safe, i),
         safe' = Exec(TRUE, safe, i)
  PROVE  Steps(i)
<1> DEFINE x == [safe EXCEPT !.ip = Plus(safe.ip, Size(i.op))]
<1>1. i.arg \in Int /\ (i.op \in {"jmp", "jz", "jnz", "call"} => i.arg \in Word)
  <2>1. safe.ip % MEM \in Addr
    <3>1. safe \in Machine /\ safe.ip \in Nat /\ safe.mem \in Memory
      BY MachineFacts DEF Good
    <3> QED  BY <3>1, Cells DEF Addr
  <2>2. i.arg \in Int /\ (i.op \in {"jmp", "jz", "jnz", "call"} => i.arg \in 0 .. HALF - 1)
    BY <2>1, WvmAssumption
  <2>3. \A a \in 0 .. HALF - 1 : a \in Word
    <3>1. \A a \in 0 .. HALF - 1 : a \in Int /\ a % HALF = a
      <4>1. HALF \in Nat \ {0}  BY Sizes
      <4> HIDE DEF HALF
      <4> QED  BY <4>1
    <3> QED  BY <3>1, ModHalf
  <2> QED  BY <2>2, <2>3
<1>2. Fetched(i, x)  BY <1>1, FetchView
<1>3. Depth(x) \in Nat /\ Depth(safe) = Depth(x) /\ Top(safe) = Top(x) /\ safe.sp = SP0 - 4 * Depth(x)
  BY <1>2, Tops DEF Fetched, Good
<1>4. /\ i.op \in {"load", "load8", "load16"} =>
           Depth(x) < 1 \/ Top(x) >= UNIVERSE \/ Top(x) .. Top(x) + 3 \subseteq Data
      /\ i.op \in {"store", "store8", "store16"} =>
           Depth(x) < 2 \/ Top(x) >= UNIVERSE \/ Top(x) .. Top(x) + 3 \subseteq Data
      /\ i.op \in {"dec", "subk"} => Depth(x) >= 1
  <2> DEFINE d == Depth(x)  sp == safe.sp  t == Top(x)
  <2> HIDE DEF d, t, sp
  <2>1. SP0 \in Nat /\ d \in Nat /\ sp = SP0 - 4 * d  BY <1>3, WvmAssumption DEF d, sp
  <2>2. (sp + 4 > SP0 <=> d < 1) /\ (sp + 8 > SP0 <=> d < 2) /\ (sp < SP0 <=> d >= 1)  BY <2>1
  <2>3. CASE i.op \in {"load", "load8", "load16"}
    <3>1. sp + 4 > SP0 \/ t >= UNIVERSE \/ t .. t + 3 \subseteq Data
      BY <1>3, <2>3 DEF DataOnly, t, sp
    <3> QED  BY <2>2, <2>3, <3>1 DEF d, t
  <2>4. CASE i.op \in {"store", "store8", "store16"}
    <3>1. sp + 8 > SP0 \/ t >= UNIVERSE \/ t .. t + 3 \subseteq Data
      BY <1>3, <2>4 DEF DataOnly, t, sp
    <3> QED  BY <2>2, <2>4, <3>1 DEF d, t
  <2>5. CASE i.op \in {"dec", "subk"}
    <3>1. sp < SP0  BY <2>5 DEF DataOnly, sp
    <3> QED  BY <2>2, <2>5, <3>1 DEF d
  <2>6. CASE i.op \notin {"load", "load8", "load16", "store", "store8", "store16", "dec", "subk"}
    BY <2>6
  <2> QED  BY <2>3, <2>4, <2>5, <2>6
<1>5. CASE i.op = "swap"
  <2>1. safe' = Swap(TRUE, x)  BY <1>5 DEF Exec, x, BinOps
  <2> HIDE DEF x
  <2> QED  BY <1>1, <1>2, <1>4, <1>5, <2>1, SwapStep
<1>6. CASE i.op = "over"
  <2>1. safe' = Over(TRUE, x)  BY <1>6 DEF Exec, x, BinOps
  <2> HIDE DEF x
  <2> QED  BY <1>1, <1>2, <1>4, <1>6, <2>1, OverStep
<1>7. CASE i.op = "rot"
  <2>1. safe' = Rot(TRUE, x)  BY <1>7 DEF Exec, x, BinOps
  <2> HIDE DEF x
  <2> QED  BY <1>1, <1>2, <1>4, <1>7, <2>1, RotStep
<1>8. CASE i.op = "drop"
  <2>1. safe' = Pop(TRUE, x)  BY <1>8 DEF Exec, x, BinOps
  <2> HIDE DEF x
  <2> QED  BY <1>1, <1>2, <1>4, <1>8, <2>1, DropStep
<1>9. CASE i.op = "dup"
  <2>1. safe' = Push(TRUE, x, Top(x))  BY <1>9 DEF Exec, x, BinOps
  <2> HIDE DEF x
  <2> QED  BY <1>1, <1>2, <1>4, <1>9, <2>1, DupStep
<1>10. CASE i.op = "duple"
  <2>1. safe' = Duple(TRUE, x, i.arg)  BY <1>10 DEF Exec, x, BinOps
  <2> HIDE DEF x
  <2> QED  BY <1>1, <1>2, <1>4, <1>10, <2>1, DupleStep
<1>11. CASE i.op = "nop"
  <2>1. safe' = x  BY <1>11 DEF Exec, x, BinOps
  <2> HIDE DEF x
  <2> QED  BY <1>1, <1>2, <1>4, <1>11, <2>1, NopStep
<1>12. CASE i.op = "ret"
  <2>1. safe' = PopRet(TRUE, x)  BY <1>12 DEF Exec, x, BinOps
  <2> HIDE DEF x
  <2> QED  BY <1>1, <1>2, <1>4, <1>12, <2>1, RetStep
<1>13. CASE i.op = "jmp"
  <2>1. safe' = Jump(x, i.arg)  BY <1>13 DEF Exec, x, BinOps
  <2> HIDE DEF x
  <2> QED  BY <1>1, <1>2, <1>4, <1>13, <2>1, JmpStep
<1>14. CASE i.op = "call"
  <2>1. safe' = Call(TRUE, x, i.arg)  BY <1>14 DEF Exec, x, BinOps
  <2> HIDE DEF x
  <2> QED  BY <1>1, <1>2, <1>4, <1>14, <2>1, CallStep
<1>15. CASE i.op \in {"lit8", "lit16", "lit32"}
  <2>1. safe' = Push(TRUE, x, i.arg % WORD)  BY <1>15 DEF Exec, x, BinOps
  <2> HIDE DEF x
  <2> QED  BY <1>1, <1>2, <1>4, <1>15, <2>1, LitStep
<1>16. CASE i.op \in BinOps
  <2>1. safe' = Bin(TRUE, x, i.op)  BY <1>16 DEF Exec, x, BinOps
  <2> HIDE DEF x
  <2> QED  BY <1>1, <1>2, <1>4, <1>16, <2>1, BinStep
<1>17. CASE i.op \in {"div", "mod"}
  <2>1. safe' = Divide(TRUE, x, i.op)  BY <1>17 DEF Exec, x, BinOps
  <2> HIDE DEF x
  <2> QED  BY <1>1, <1>2, <1>4, <1>17, <2>1, DivStep
<1>18. CASE i.op \in {"dec", "subk"}
  <2>1. safe' = Subk(x, IF i.op = "dec" THEN 1 ELSE i.arg)  BY <1>18 DEF Exec, x, BinOps
  <2> HIDE DEF x
  <2> QED  BY <1>1, <1>2, <1>4, <1>18, <2>1, SubkStep
<1>19. CASE i.op = "load"
  <2>1. safe' = Load(TRUE, x, 4) /\ 4 \in {1, 2, 4}
         /\ i.op = (IF 4 = 1 THEN "load8" ELSE IF 4 = 2 THEN "load16" ELSE "load")
     BY <1>19 DEF Exec, x, BinOps
  <2> HIDE DEF x
  <2> QED  BY <1>1, <1>2, <1>4, <1>19, <2>1, LoadStep
<1>20. CASE i.op = "load8"
  <2>1. safe' = Load(TRUE, x, 1) /\ 1 \in {1, 2, 4}
         /\ i.op = (IF 1 = 1 THEN "load8" ELSE IF 1 = 2 THEN "load16" ELSE "load")
     BY <1>20 DEF Exec, x, BinOps
  <2> HIDE DEF x
  <2> QED  BY <1>1, <1>2, <1>4, <1>20, <2>1, LoadStep
<1>21. CASE i.op = "load16"
  <2>1. safe' = Load(TRUE, x, 2) /\ 2 \in {1, 2, 4}
         /\ i.op = (IF 2 = 1 THEN "load8" ELSE IF 2 = 2 THEN "load16" ELSE "load")
     BY <1>21 DEF Exec, x, BinOps
  <2> HIDE DEF x
  <2> QED  BY <1>1, <1>2, <1>4, <1>21, <2>1, LoadStep
<1>22. CASE i.op = "store"
  <2>1. safe' = Store(TRUE, x, 4) /\ 4 \in {1, 2, 4}
         /\ i.op = (IF 4 = 1 THEN "store8" ELSE IF 4 = 2 THEN "store16" ELSE "store")
     BY <1>22 DEF Exec, x, BinOps
  <2> HIDE DEF x
  <2> QED  BY <1>1, <1>2, <1>4, <1>22, <2>1, StoreStep
<1>23. CASE i.op = "store8"
  <2>1. safe' = Store(TRUE, x, 1) /\ 1 \in {1, 2, 4}
         /\ i.op = (IF 1 = 1 THEN "store8" ELSE IF 1 = 2 THEN "store16" ELSE "store")
     BY <1>23 DEF Exec, x, BinOps
  <2> HIDE DEF x
  <2> QED  BY <1>1, <1>2, <1>4, <1>23, <2>1, StoreStep
<1>24. CASE i.op = "store16"
  <2>1. safe' = Store(TRUE, x, 2) /\ 2 \in {1, 2, 4}
         /\ i.op = (IF 2 = 1 THEN "store8" ELSE IF 2 = 2 THEN "store16" ELSE "store")
     BY <1>24 DEF Exec, x, BinOps
  <2> HIDE DEF x
  <2> QED  BY <1>1, <1>2, <1>4, <1>24, <2>1, StoreStep
<1>25. CASE i.op \in {"jz", "jnz"}
  <2>1. safe' = Branch(TRUE, x, i.arg, IF i.op = "jz" THEN Top(x) = 0 ELSE Top(x) # 0)  BY <1>25 DEF Exec, x, BinOps
  <2> HIDE DEF x
  <2> QED  BY <1>1, <1>2, <1>4, <1>25, <2>1, BranchStep
<1>26. CASE i.op \in {"jmpx", "callx"}
  <2>1. safe' = (IF i.op = "jmpx" THEN Jmpx(TRUE, x) ELSE Callx(TRUE, x))  BY <1>26 DEF Exec, x, BinOps
  <2> HIDE DEF x
  <2> QED  BY <1>1, <1>2, <1>4, <1>26, <2>1, JmpxStep
<1>27. CASE i.op = "halt"
  <2>1. safe' = Stop(x, "ok")  BY <1>27 DEF Exec, x, BinOps
  <2> HIDE DEF x
  <2> QED  BY <1>1, <1>2, <1>4, <1>27, <2>1, StopStep
<1>28. CASE i.op \notin Stacks!Known \cup {"halt"}
  <2>1. i.op \notin BinOps  BY <1>28, SameWords DEF Stacks!Known
  <2>2. safe' = Stop(x, "opcode")
    BY <1>28, <2>1 DEF Exec, x, Stacks!Known, Stacks!Loads, Stacks!Stores, Stacks!Divs, Stacks!Lits, Stacks!Peeks
  <2> HIDE DEF x
  <2> QED  BY <1>2, <1>28, <2>2, StopStep
<1> HIDE DEF x
<1>29. i.op \in Stacks!BinOps <=> i.op \in BinOps  BY SameWords
<1> QED  BY <1>5, <1>6, <1>7, <1>8, <1>9, <1>10, <1>11, <1>12, <1>13, <1>14, <1>15, <1>16, <1>17, <1>18, <1>19, <1>20, <1>21, <1>22, <1>23, <1>24, <1>25, <1>26, <1>27, <1>28, <1>29
         DEF Stacks!Known, Stacks!Loads, Stacks!Stores, Stacks!Divs, Stacks!Lits, Stacks!Peeks

-----------------------------------------------------------------------------
(* The loaded machine has two empty stacks.                                 *)
LEMMA GoodInit == Init => Good(safe) /\ Stacks!Init
<1> SUFFICES ASSUME Init PROVE Good(safe) /\ Stacks!Init
  OBVIOUS
<1>0. TypeOK  BY TypeInit
<1>1. /\ safe \in Machine /\ safe.sp = SP0 /\ safe.rp = RP0 /\ safe.mem = Image
      /\ safe.ip = 0 /\ safe.status = "ok"
  BY <1>0 DEF TypeOK, Init, Loaded
<1>2. 0 \in Nat /\ safe.sp = SP0 - 4 * 0 /\ safe.rp = RP0 + 2 * 0 /\ safe.rp <= safe.sp
  BY <1>1, WvmAssumption
<1>3. Good(safe) /\ Depth(safe) = 0 /\ RDepth(safe) = 0  BY <1>1, <1>2, GoodIs
<1>4. Params(safe) = <<>> /\ Rets(safe) = <<>>  BY <1>3, Before
<1>5. DOMAIN Rest(safe) \subseteq DOMAIN Image /\ \A a \in DOMAIN Rest(safe) : Rest(safe)[a] = Image[a]
  BY <1>1 DEF Rest
<1> QED  BY <1>1, <1>3, <1>4, <1>5 DEF Stacks!Init

(* The pointers of a good machine fit in the 16 bits they are kept in.      *)
LEMMA Kept ==
  ASSUME NEW s, Good(s)
  PROVE  s.sp % HALF = s.sp /\ s.rp % HALF = s.rp
<1>1. s.sp \in Nat /\ s.rp \in Nat  BY MachineFacts DEF Good
<1>2. s.sp <= SP0 /\ s.rp <= SP0 /\ SP0 \in Nat
  <2> DEFINE d == Depth(s)  e == RDepth(s)
  <2>1. d \in Nat /\ s.sp = SP0 - 4 * d /\ s.rp <= s.sp /\ SP0 \in Nat
    BY WvmAssumption DEF Good
  <2> HIDE DEF d, e
  <2> QED  BY <1>1, <2>1
<1> HIDE DEF HALF, WORD
<1> QED  BY <1>1, <1>2, NoWrap

(* A run on the stacks as they are.                                         *)
LEMMA RunStep ==
  ASSUME Good(safe), NEW e \in Entry, Run(e)
  PROVE  Good(safe') /\ Stacks!Run(e)
<1>1. safe' = [safe EXCEPT !.ip = e, !.sp = safe.sp, !.rp = safe.rp, !.status = "run"]
  BY Kept DEF Run, Reenter
<1>2. e \in Word
  <2>1. WORD \in Nat /\ MEM <= WORD  BY WvmAssumption, Sizes
  <2>2. e \in Nat /\ e < MEM  BY WvmAssumption DEF Addr
  <2> HIDE DEF WORD, Word
  <2> QED  BY <2>1, <2>2, Sizes, WvmAssumption
<1>3. /\ safe' \in Machine /\ safe'.mem = safe.mem /\ safe'.sp = safe.sp /\ safe'.rp = safe.rp
      /\ safe'.ip = e /\ safe'.status = "run"
  <2>1. safe \in Machine /\ "run" \in Status  BY DEF Good, Status
  <2> HIDE DEF Word, Memory
  <2> QED  BY <1>1, <1>2, <2>1 DEF Machine
<1>4. Depth(safe') = Depth(safe) /\ RDepth(safe') = RDepth(safe)  BY <1>3 DEF Depth, RDepth
<1>5. Good(safe')  BY <1>3, <1>4 DEF Good
<1>6. Params(safe)' = Params(safe) /\ Rets(safe)' = Rets(safe) /\ Rest(safe)' = Rest(safe)
  <2>1. Params(safe') = Params(safe)  BY <1>3, <1>4, SameParams
  <2>2. Rets(safe') = Rets(safe)  BY <1>3, <1>4, SameRets
  <2>3. Rest(safe') = Rest(safe)  BY <1>3 DEF Rest
  <2> QED  BY <2>1, <2>2, <2>3 DEF Params, Rets, Rest, Depth, RDepth
<1>7. safe.status = "ok"  BY DEF Run
<1> QED  BY <1>3, <1>5, <1>6, <1>7 DEF Stacks!Run

(* A run on empty stacks with an argument.                                  *)
LEMMA RunWithStep ==
  ASSUME Good(safe), NEW e \in Entry, NEW v \in Args, RunWith(e, v)
  PROVE  Good(safe') /\ Stacks!Run(e)
<1> DEFINE m == Wr(safe.mem, SP0 - 4, 4, v)
<1>0. /\ safe \in Machine /\ safe.mem \in Memory /\ safe.status = "ok"
      /\ SP0 - 4 \in Nat /\ SP0 - 4 \in Addr /\ SP0 - 4 <= SP0 /\ RP0 \in Nat /\ RP0 <= SP0
      /\ v \in Word /\ v \in Int /\ 4 \in {1, 2, 4} /\ SP0 \in Nat /\ RP0 + 4 <= SP0
  <2>1. safe \in Machine /\ safe.mem \in Memory /\ safe.status = "ok"
    BY MachineFacts DEF Good, RunWith
  <2>2. v \in Word /\ v \in Int
    <3>1. v \in Word  BY WvmAssumption
    <3> QED  BY <3>1, WordNat
  <2>3. /\ SP0 - 4 \in Nat /\ SP0 - 4 \in Addr /\ SP0 - 4 <= SP0 /\ RP0 \in Nat /\ RP0 <= SP0
        /\ SP0 \in Nat /\ RP0 + 4 <= SP0
    <3> HIDE DEF HALF, WORD
    <3> QED  BY WvmAssumption DEF Addr
  <2> QED  BY <2>1, <2>2, <2>3
<1>1. (SP0 - 4) % HALF = SP0 - 4 /\ RP0 % HALF = RP0
  <2> HIDE DEF HALF, WORD
  <2> QED  BY <1>0, NoWrap
<1>2. m \in Memory  BY <1>0, WriteRange
<1>3. safe' = [safe EXCEPT !.ip = e, !.sp = SP0 - 4, !.rp = RP0, !.status = "run", !.mem = m]
  <2> DEFINE w == [safe EXCEPT !.sp = SP0 - 4, !.rp = RP0, !.mem = m]
  <2>1. safe' = Reenter(w, e)  BY DEF RunWith
  <2>2. w.sp = SP0 - 4 /\ w.rp = RP0  BY <1>0 DEF Machine
  <2>3. Reenter(w, e) = [w EXCEPT !.ip = e, !.sp = SP0 - 4, !.rp = RP0, !.status = "run"]
    <3> HIDE DEF w, HALF
    <3> QED  BY <1>1, <2>2 DEF Reenter
  <2> QED  BY <1>0, <2>1, <2>3 DEF Machine
<1>4. e \in Word
  <2>1. WORD \in Nat /\ MEM <= WORD  BY WvmAssumption, Sizes
  <2>2. e \in Nat /\ e < MEM  BY WvmAssumption DEF Addr
  <2> HIDE DEF WORD, Word
  <2> QED  BY <2>1, <2>2, Sizes, WvmAssumption
<1>5. SP0 - 4 \in Word /\ RP0 \in Word
  <2>1. WORD \in Nat /\ SP0 < WORD  BY WvmAssumption, Sizes
  <2> HIDE DEF WORD, Word
  <2> QED  BY <1>0, <2>1, Sizes, WvmAssumption
<1> HIDE DEF m
<1>6. /\ safe' \in Machine /\ safe'.mem = m /\ safe'.sp = SP0 - 4 /\ safe'.rp = RP0
      /\ safe'.ip = e /\ safe'.status = "run"
  <2>1. "run" \in Status  BY DEF Status
  <2> HIDE DEF Word, Memory
  <2> QED  BY <1>0, <1>2, <1>3, <1>4, <1>5, <2>1 DEF Machine
<1>7. /\ safe'.sp = SP0 - 4 * 1 /\ safe'.rp = RP0 + 2 * 0 /\ safe'.rp <= safe'.sp
      /\ 0 \in Nat /\ 1 \in Nat
  BY <1>0, <1>6
<1>8. Good(safe') /\ Depth(safe') = 1 /\ RDepth(safe') = 0
  BY <1>6, <1>7, GoodIs
<1>9. Params(safe') = <<v>> /\ Rets(safe') = <<>>
  <2>1. Params(safe') \in Seq(Word) /\ Len(Params(safe')) = 1 /\ Params(safe')[1] = Top(safe')
    <3>1. Params(safe') \in Seq(Word) /\ Len(Params(safe')) = 1  BY <1>8, Views
    <3>2. Depth(safe') >= 1  BY <1>8
    <3>3. Params(safe')[1] = Top(safe')  BY <1>8, <3>2, TopView
    <3> QED  BY <3>1, <3>3
  <2>2. Top(safe') = v
    <3>1. Rd32(m, SP0 - 4) = v  BY <1>0, ReadBack DEF m
    <3> QED  BY <1>6, <3>1 DEF Top
  <2>3. Rets(safe') \in Seq(Word) /\ Len(Rets(safe')) = 0  BY <1>8, Views
  <2> QED  BY <2>1, <2>2, <2>3
<1>10. Rest(safe') = Rest(safe)
  <2>1. RP0 <= SP0 - 4 /\ SP0 - 4 + 4 <= SP0 /\ safe'.mem = Wr(safe.mem, SP0 - 4, 4, v)
    BY <1>0, <1>6 DEF m
  <2> QED  BY <1>0, <2>1, SameRest
<1>11. Params(safe)' = <<v>> /\ Rets(safe)' = <<>> /\ Rest(safe)' = Rest(safe)
  BY <1>9, <1>10 DEF Params, Rets, Rest, Depth, RDepth
<1> QED  BY <1>0, <1>6, <1>8, <1>11 DEF Stacks!Run

(* Every step of the interpreter is a step of the stack machine or none.    *)
LEMMA RefStep == Good(safe) /\ [Next]_vars => Good(safe') /\ [Stacks!Next]_(Stacks!vars)
<1> SUFFICES ASSUME Good(safe), [Next]_vars
             PROVE  Good(safe') /\ [Stacks!Next]_(Stacks!vars)
  OBVIOUS
<1>1. CASE Step
  <2>1. PICK i \in Code[safe.ip % MEM] : DataOnly(safe, i) /\ safe' = Exec(TRUE, safe, i)
    BY <1>1 DEF Step
  <2>2. Running(safe)  BY <1>1 DEF Step
  <2>3. Steps(i)  BY <2>1, <2>2, ExecStep
  <2>4. Stacks!Step  BY <2>2, <2>3 DEF Stacks!Step, Steps, Running
  <2> QED  BY <2>3, <2>4 DEF Steps, Stacks!Next
<1>2. ASSUME NEW e \in Entry, Run(e)
      PROVE  Good(safe') /\ Stacks!Next
  BY <1>2, RunStep DEF Stacks!Next
<1>3. ASSUME NEW e \in Entry, NEW v \in Args, RunWith(e, v)
      PROVE  Good(safe') /\ Stacks!Next
  BY <1>3, RunWithStep DEF Stacks!Next
<1>4. CASE UNCHANGED vars
  <2>1. safe' = safe  BY <1>4 DEF vars
  <2> QED  BY <2>1 DEF Stacks!vars, Params, Rets, Rest, Depth, RDepth
<1> QED  BY <1>1, <1>2, <1>3, <1>4 DEF Next

(* Under SAFE a program has two separate stacks of its own: no push of one  *)
(* ever changes an entry of the other, and each handler, made of macros that may *)
(* stop it half way, has the effect its instruction has, in every memory layout. *)
THEOREM WvmTwoStacks == Spec => TwoStacks
<1>1. Init => Good(safe) /\ Stacks!Init  BY GoodInit
<1>2. Good(safe) /\ [Next]_vars => Good(safe)' /\ [Stacks!Next]_(Stacks!vars)
  <2>1. Good(safe)' <=> Good(safe')  BY DEF Good, Depth, RDepth
  <2> QED  BY <2>1, RefStep
<1> QED  BY <1>1, <1>2, PTL DEF Spec, TwoStacks, Stacks!Spec
=============================================================================
