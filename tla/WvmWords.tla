------------------------------ MODULE WvmWords ------------------------------
(* Words of the warmvm and the arithmetic of wvm.c on them. BITS is 8; a    *)
(* smaller byte keeps the carries, signs and overflows of words small.      *)
EXTENDS Integers, FiniteSetsExt

CONSTANT BITS      \* bits of a byte

BYTE == 2 ^ BITS
HALF == BYTE * BYTE
WORD == HALF * HALF

Word == 0 .. WORD - 1

(* The bytes of a word in memory order, the lowest first.                   *)
Scale == <<1, BYTE, HALF, HALF * BYTE>>
ByteAt(v, j) == (v \div Scale[j + 1]) % BYTE
FromBytes(b0, b1, b2, b3) == b0 + BYTE * b1 + HALF * (b2 + BYTE * b3)

Signed(v) == IF v < WORD \div 2 THEN v ELSE v - WORD

(* The bitwise operators, on bytes and then on words.                       *)
Bit(v, k) == (v \div 2 ^ k) % 2
OnBits(op, x, y) == CASE op = "and" -> x * y
                      [] op = "or"  -> x + y - x * y
                      [] op = "xor" -> (x + y) % 2
OnByte(op, x, y) ==
  MapThenSumSet(LAMBDA k : OnBits(op, Bit(x, k), Bit(y, k)) * 2 ^ k, 0 .. BITS - 1)
Bitwise(op, l, r) ==
  LET b(j) == OnByte(op, ByteAt(l, j), ByteAt(r, j))
  IN  FromBytes(b(0), b(1), b(2), b(3))

(* Facts of binary numbers, true for every BITS, that take an induction     *)
(* over BITS to show.                                                       *)
ASSUME BitsAssumption ==
  /\ BITS \in Nat \ {0} /\ BYTE \in Nat \ {0}
  /\ \A k \in 0 .. 4 * BITS - 1 : 2 ^ k \in Nat \ {0}
  /\ \A op \in {"and", "or", "xor"} : \A x, y \in 0 .. BYTE - 1 :
       OnByte(op, x, y) \in 0 .. BYTE - 1

Flag(c)   == IF c THEN 1 ELSE 0

(* C division truncates towards zero. *)
Quot(l, r) == LET q == (IF l < 0 THEN -l ELSE l) \div (IF r < 0 THEN -r ELSE r)
              IN  IF (l < 0) = (r < 0) THEN q ELSE -q

BinOps == {"add", "sub", "mul", "and", "or", "xor", "shl", "shr",
           "eq", "ne", "lt", "gt", "le", "ge"}

Alu(op, l, r) ==
  CASE op = "add" -> (l + r) % WORD
    [] op = "sub" -> (l - r) % WORD
    [] op = "mul" -> (l * r) % WORD
    [] op \in {"and", "or", "xor"} -> Bitwise(op, l, r)
    [] op = "shl" -> (l * 2 ^ (r % (4 * BITS))) % WORD
    [] op = "shr" -> l \div 2 ^ (r % (4 * BITS))
    [] op = "eq"  -> Flag(l = r)
    [] op = "ne"  -> Flag(l # r)
    [] op = "lt"  -> Flag(Signed(l) < Signed(r))
    [] op = "gt"  -> Flag(Signed(l) > Signed(r))
    [] op = "le"  -> Flag(Signed(l) <= Signed(r))
    [] op = "ge"  -> Flag(Signed(l) >= Signed(r))

(* Lengths of instructions, operands included. *)
Size(op) == CASE op \in {"lit8", "duple", "subk"} -> 2
              [] op \in {"lit16", "jmp", "jz", "jnz", "call"} -> 3
              [] op = "lit32" -> 5
              [] OTHER -> 1
=============================================================================
