----------------------------- MODULE WvmStacks -----------------------------
(***************************************************************************)
(* What a program sees of the SAFE interpreter: a stack p of words, its    *)
(* top first, a stack r of return addresses, its top last, and the rest of *)
(* the memory. Both stacks share ROOM bytes. One instruction is one step.  *)
(***************************************************************************)
EXTENDS WvmWords, Sequences

CONSTANTS ROOM, MEM, UNIVERSE, SP0, Image, Entry, Args, Code

VARIABLES p, r, ip, data, status

vars == <<p, r, ip, data, status>>

Value(a, n)    == LET b(j) == IF j < n THEN data[a + j] ELSE 0
                  IN  FromBytes(b(0), b(1), b(2), b(3))
Put(a, n, v)   == [x \in DOMAIN data |->
                     IF x - a \in 0 .. n - 1 THEN ByteAt(v, x - a) ELSE data[x]]
Bytes(op)      == CASE op \in {"load8", "store8"} -> 1
                    [] op \in {"load16", "store16"} -> 2
                    [] OTHER -> 4

Loads   == {"load", "load8", "load16"}
Stores  == {"store", "store8", "store16"}
Divs    == {"div", "mod"}
Lits    == {"lit8", "lit16", "lit32"}
(* What reads the top without a test: on an empty stack, the bytes above it. *)
Peeks   == {"dup", "dec", "subk", "duple"}
Known   == BinOps \cup Loads \cup Stores \cup Divs \cup Lits \cup Peeks \cup
           {"nop", "drop", "swap", "over", "rot", "jmp", "jz", "jnz",
            "call", "ret", "jmpx", "callx"}

(* How many words an instruction takes. *)
Takes(op) == CASE op \in BinOps \cup Divs \cup Stores \cup {"swap", "over"} -> 2
               [] op = "rot" -> 3
               [] op \in Loads \cup {"drop", "jz", "jnz", "jmpx", "callx"} -> 1
               [] op \in Peeks /\ p # <<>> -> 1
               [] OTHER -> 0

First == IF p = <<>> THEN Value(SP0, 4) ELSE p[1]

(* And what it leaves in their place, the top first. *)
Gives(i) ==
  CASE i.op \in Lits   -> <<i.arg % WORD>>
    [] i.op \in BinOps -> <<Alu(i.op, p[2], p[1])>>
    [] i.op = "div"    -> <<Quot(Signed(p[2]), Signed(p[1])) % WORD>>
    [] i.op = "mod"    -> <<(Signed(p[2]) - Signed(p[1]) * Quot(Signed(p[2]), Signed(p[1]))) % WORD>>
    [] i.op \in Loads  -> <<Value(p[1], Bytes(i.op))>>
    [] i.op = "dup"    -> IF p = <<>> THEN <<First>> ELSE <<First, First>>
    [] i.op \in {"dec", "subk"} /\ p # <<>> ->
         <<(First - (IF i.op = "dec" THEN 1 ELSE i.arg)) % WORD>>
    [] i.op = "duple"  -> <<Flag(Signed(First) <= i.arg)>> \o (IF p = <<>> THEN <<>> ELSE <<First>>)
    [] i.op = "swap"   -> <<p[2], p[1]>>
    [] i.op = "over"   -> <<p[2], p[1], p[2]>>
    [] i.op = "rot"    -> <<p[3], p[1], p[2]>>
    [] OTHER -> <<>>

DataAfter(i) ==
  CASE i.op \in Stores -> Put(p[1], Bytes(i.op), p[2])
    [] i.op = "dec"  /\ p = <<>> -> Put(SP0, 4, (First - 1) % WORD)
    [] i.op = "subk" /\ p = <<>> -> Put(SP0, 4, (First - i.arg) % WORD)
    [] OTHER -> data

Behind(i) == (ip + Size(i.op)) % WORD

Target(i) ==
  CASE i.op \in {"jmp", "call"} -> i.arg
    [] i.op \in {"jmpx", "callx"} -> p[1] % HALF
    [] i.op = "jz"  -> IF p[1] = 0 THEN i.arg ELSE Behind(i)
    [] i.op = "jnz" -> IF p[1] # 0 THEN i.arg ELSE Behind(i)
    [] i.op = "ret" -> r[Len(r)]
    [] OTHER -> Behind(i)

RetsAfter(i) ==
  CASE i.op \in {"call", "callx"} -> Append(r, Behind(i) % HALF)
    [] i.op = "ret" -> SubSeq(r, 1, Len(r) - 1)
    [] OTHER -> r

(* When an instruction finds what it takes, and its effect finds room.      *)
Has(i)  == Len(p) >= Takes(i.op) /\ (i.op = "ret" => r # <<>>)
After(i) == Gives(i) \o SubSeq(p, Takes(i.op) + 1, Len(p))
Fits(i) == 4 * Len(After(i)) + 2 * Len(RetsAfter(i)) <= ROOM

BadAddr(i) == \/ i.op \in Loads \cup Stores /\ p[1] >= UNIVERSE
              \/ i.op \in {"jmpx", "callx"} /\ p[1] % HALF >= UNIVERSE
BadDiv(i)  == /\ i.op \in Divs
              /\ p[1] # 0 => Signed(p[1]) = -1 /\ Signed(p[2]) = -(WORD \div 2)

-----------------------------------------------------------------------------
Init == p = <<>> /\ r = <<>> /\ ip = 0 /\ status = "ok" /\ DOMAIN data \subseteq DOMAIN Image
        /\ \A a \in DOMAIN data : data[a] = Image[a]

Do(i) == /\ i.op \in Known /\ Has(i) /\ ~BadAddr(i) /\ ~BadDiv(i) /\ Fits(i)
         /\ p' = After(i) /\ r' = RetsAfter(i) /\ ip' = Target(i)
         /\ data' = DataAfter(i)
         /\ UNCHANGED status

(* A stop leaves of p what the instruction had not taken yet, r and the     *)
(* data whole.                                                              *)
Halt(st) == /\ status' = st /\ ip' \in Word
            /\ \E n \in 1 .. Len(p) + 1 : p' = SubSeq(p, n, Len(p))
            /\ UNCHANGED <<r, data>>

Fail(i) ==
  \/ i.op = "halt" /\ p' = p /\ Halt("ok")
  \/ i.op \notin Known \cup {"halt"} /\ p' = p /\ Halt("opcode")
  \/ i.op \in Known /\ ~Has(i) /\ Halt("stack")
  \/ i.op \in Known /\ Has(i) /\ BadAddr(i) /\ Halt("addr")
  \/ i.op \in Known /\ Has(i) /\ BadDiv(i) /\ Halt(IF p[1] = 0 THEN "div" ELSE "trap")
  \/ i.op \in Known /\ Has(i) /\ ~BadAddr(i) /\ ~BadDiv(i) /\ ~Fits(i) /\ Halt("stack")

Step == status = "run" /\ \E i \in Code[ip % MEM] : Do(i) \/ Fail(i)

(* The host enters the program again, on the stacks as they are or on empty *)
(* ones with an argument.                                                   *)
Run(e) == /\ status = "ok" /\ status' = "run" /\ ip' = e
          /\ r' \in {r, <<>>} /\ UNCHANGED data
          /\ IF r' = r THEN p' = p \/ \E v \in Args : p' = <<v>>
                       ELSE \E v \in Args : p' = <<v>>

Next == Step \/ \E e \in Entry : Run(e)

Spec == Init /\ [][Next]_vars
=============================================================================
