-------------------------------- MODULE Wvm --------------------------------
(***************************************************************************)
(* wvm.c: the interpreter, in its two builds. The parameter stack grows    *)
(* down from SP0 and the return stack up from RP0, towards each other in   *)
(* one region of the memory. The SAFE build tests every push and pop and   *)
(* every address and halts with an error; the release build tests nothing  *)
(* and masks addresses.                                                    *)
(*                                                                         *)
(* A machine is a record; a handler of the interpreter is an operator on   *)
(* it, made of the macros PUSH, POP, PUSH_RET and POP_RET, which do        *)
(* nothing once a test has failed (goto STOP). The module runs one program *)
(* on both builds at once. Code[a] holds the instructions that may stand   *)
(* at address a: one for a given program, many for an arbitrary one.       *)
(*                                                                         *)
(* Left out: a program that changes its own code or the control block, the *)
(* ip and the status left there, and the two machines once a test failed.  *)
(***************************************************************************)
EXTENDS WvmWords

CONSTANTS MEM,       \* bytes of the host's array (0x8000); mask MEM - 1
          UNIVERSE,  \* end of the addresses SAFE lets through (0x7000)
          RP0, SP0,  \* where the stacks start
          Image,     \* the memory wvm_load leaves
          Entry,     \* entry points the host uses
          Args,      \* arguments it pushes
          Data,      \* where the program keeps its data
          Code       \* Code[a]: the instructions that may be at address a

Addr == 0 .. MEM - 1

(* The array has the bytes of Addr. The mask is on the first byte of an     *)
(* access only, so one of two or four bytes at the array's end goes on into *)
(* the bytes of the host behind it: MEM .. MEM + 2 are these.               *)
Host   == MEM .. MEM + 2
Memory == [0 .. MEM + 2 -> 0 .. BYTE - 1]

ASSUME WvmAssumption ==
  /\ MEM \in Nat \ {0} /\ UNIVERSE \in Nat
  /\ UNIVERSE <= MEM /\ MEM <= HALF /\ HALF + 4 <= WORD
  /\ RP0 \in Nat /\ SP0 \in Nat /\ RP0 >= 4 /\ RP0 + 4 <= SP0 /\ SP0 < UNIVERSE
  /\ Image \in Memory
  /\ Data \subseteq Addr \ (RP0 .. SP0 - 1)
  /\ Entry \subseteq Addr /\ Args \subseteq Word
  /\ DOMAIN Code = Addr
  /\ \A a \in Addr : \A i \in Code[a] :
       /\ i.arg \in Int
       /\ i.op \in {"jmp", "jz", "jnz", "call"} => i.arg \in 0 .. HALF - 1

Plus(a, n)  == (a + n) % WORD

VARIABLES safe,   \* the machine as the SAFE build runs it
          rel     \* as the release build runs it

vars == <<safe, rel>>

-----------------------------------------------------------------------------
(* wvm.h: memory *)

Rd8(m, a)  == m[a % MEM]
Rd16(m, a) == m[a % MEM] + BYTE * m[(a % MEM) + 1]
Rd32(m, a) == LET x == a % MEM IN FromBytes(m[x], m[x + 1], m[x + 2], m[x + 3])

(* A write changes the bytes it reaches, wherever they are. *)
(* Mutant: the mask is left out. *)
WrUnmasked(m, a, n, v) ==
  [x \in DOMAIN m \cup (a .. a + n - 1) |->
     IF x \in a .. a + n - 1 THEN ByteAt(v, x - a) ELSE m[x]]

Wr(m, a, n, v) ==
  LET y == a % MEM
  IN  [x \in DOMAIN m \cup (y .. y + n - 1) |->
         IF x \in y .. y + n - 1 THEN ByteAt(v, x - y) ELSE m[x]]

-----------------------------------------------------------------------------
(* The stack macros. b = TRUE in the SAFE build. *)

Running(s)  == s.status = "run"
Stop(s, st) == [s EXCEPT !.status = st]
Top(s)      == Rd32(s.mem, s.sp)
Second(s)   == Rd32(s.mem, Plus(s.sp, 4))
Third(s)    == Rd32(s.mem, Plus(s.sp, 8))

(* Mutants: the test lets the push in that meets the return stack; it looks *)
(* at the pointer, not at the end of the new address; SAFE moves the pointer *)
(* before it writes.                                                         *)
PushMeets(b, s, v) ==
  IF ~Running(s) THEN s
  ELSE IF b /\ Plus(s.sp, -2) < s.rp THEN Stop(s, "stack")
  ELSE [s EXCEPT !.sp = Plus(s.sp, -4), !.mem = Wr(s.mem, Plus(s.sp, -4), 4, v)]

PushRetMeets(b, s, a) ==
  IF ~Running(s) THEN s
  ELSE IF b /\ s.rp > s.sp THEN Stop(s, "stack")
  ELSE [s EXCEPT !.rp = Plus(s.rp, 2), !.mem = Wr(s.mem, s.rp, 2, a)]

PushRetAfter(b, s, a) ==
  IF ~Running(s) THEN s
  ELSE IF b /\ Plus(s.rp, 2) > s.sp THEN Stop(s, "stack")
  ELSE [s EXCEPT !.rp = Plus(s.rp, 2),
                 !.mem = Wr(s.mem, IF b THEN Plus(s.rp, 2) ELSE s.rp, 2, a)]

Push(b, s, v) ==
  IF ~Running(s) THEN s
  ELSE IF b /\ Plus(s.sp, -4) < s.rp THEN Stop(s, "stack")
  ELSE [s EXCEPT !.sp = Plus(s.sp, -4), !.mem = Wr(s.mem, Plus(s.sp, -4), 4, v)]

Pop(b, s) ==
  IF ~Running(s) THEN s
  ELSE IF b /\ Plus(s.sp, 4) > SP0 THEN Stop(s, "stack")
  ELSE [s EXCEPT !.sp = Plus(s.sp, 4)]

PushRet(b, s, a) ==
  IF ~Running(s) THEN s
  ELSE IF b /\ Plus(s.rp, 2) > s.sp THEN Stop(s, "stack")
  ELSE [s EXCEPT !.rp = Plus(s.rp, 2), !.mem = Wr(s.mem, s.rp, 2, a)]

PopRet(b, s) ==
  IF ~Running(s) THEN s
  ELSE IF b /\ Plus(s.rp, -2) < RP0 THEN Stop(s, "stack")
  ELSE [s EXCEPT !.rp = Plus(s.rp, -2), !.ip = Rd16(s.mem, Plus(s.rp, -2))]

CheckAddr(b, s, a) == IF Running(s) /\ b /\ a >= UNIVERSE THEN Stop(s, "addr") ELSE s

Jump(s, a)     == IF Running(s) THEN [s EXCEPT !.ip = a] ELSE s
Poke(s, a, n, v) == IF Running(s) THEN [s EXCEPT !.mem = Wr(s.mem, a, n, v)] ELSE s

-----------------------------------------------------------------------------
(* The handlers; s.ip is behind the instruction already. *)

Swap(b, s) == Push(b, Push(b, Pop(b, Pop(b, s)), Top(s)), Second(s))

Over(b, s) ==
  Push(b, Push(b, Push(b, Pop(b, Pop(b, s)), Second(s)), Top(s)), Second(s))

Rot(b, s) ==
  Push(b, Push(b, Push(b, Pop(b, Pop(b, Pop(b, s))), Second(s)), Top(s)), Third(s))

Bin(b, s, op) == Push(b, Pop(b, Pop(b, s)), Alu(op, Second(s), Top(s)))

(* The smallest word divided by -1 overflows: the process is stopped by     *)
(* the processor's trap.                                                    *)
Divide(b, s, op) ==
  LET t == Pop(b, Pop(b, s))
      l == Signed(Second(s))
      r == Signed(Top(s))
  IN  IF ~Running(t) THEN t
      ELSE IF r = 0 THEN Stop(t, "div")
      ELSE IF r = -1 /\ l = -(WORD \div 2) THEN Stop(t, "trap")
      ELSE Push(b, t, (IF op = "div" THEN Quot(l, r) ELSE l - r * Quot(l, r)) % WORD)

Load(b, s, n) ==
  LET a == Top(s)
  IN  Push(b, CheckAddr(b, Pop(b, s), a),
           IF n = 1 THEN Rd8(s.mem, a) ELSE IF n = 2 THEN Rd16(s.mem, a) ELSE Rd32(s.mem, a))

Store(b, s, n) ==
  Poke(CheckAddr(b, Pop(b, Pop(b, s)), Top(s)), Top(s), n, Second(s))

Branch(b, s, t, taken) == IF taken THEN Jump(Pop(b, s), t) ELSE Pop(b, s)

Call(b, s, t) == Jump(PushRet(b, s, s.ip), t)

Jmpx(b, s) == LET t == Top(s) % HALF IN CheckAddr(b, Jump(Pop(b, s), t), t)

Callx(b, s) == LET t == Top(s) % HALF
               IN  Jump(PushRet(b, CheckAddr(b, Pop(b, s), t), s.ip), t)

(* dec, subk and duple, like dup, read the top without a test. *)
Subk(s, k)     == Poke(s, s.sp, 4, (Top(s) - k) % WORD)
Duple(b, s, k) == Push(b, s, Flag(Signed(Top(s)) <= k))

(* FETCH and the jump table *)
Exec(b, m, i) ==
  LET s == [m EXCEPT !.ip = Plus(m.ip, Size(i.op))]
  IN  CASE i.op = "halt"  -> Stop(s, "ok")
        [] i.op = "nop"   -> s
        [] i.op \in {"lit8", "lit16", "lit32"} -> Push(b, s, i.arg % WORD)
        [] i.op = "dup"   -> Push(b, s, Top(s))
        [] i.op = "drop"  -> Pop(b, s)
        [] i.op = "swap"  -> Swap(b, s)
        [] i.op = "over"  -> Over(b, s)
        [] i.op = "rot"   -> Rot(b, s)
        [] i.op \in BinOps -> Bin(b, s, i.op)
        [] i.op \in {"div", "mod"} -> Divide(b, s, i.op)
        [] i.op = "load"   -> Load(b, s, 4)
        [] i.op = "load8"  -> Load(b, s, 1)
        [] i.op = "load16" -> Load(b, s, 2)
        [] i.op = "store"  -> Store(b, s, 4)
        [] i.op = "store8" -> Store(b, s, 1)
        [] i.op = "store16" -> Store(b, s, 2)
        [] i.op = "jmp"   -> Jump(s, i.arg)
        [] i.op = "jz"    -> Branch(b, s, i.arg, Top(s) = 0)
        [] i.op = "jnz"   -> Branch(b, s, i.arg, Top(s) # 0)
        [] i.op = "call"  -> Call(b, s, i.arg)
        [] i.op = "ret"   -> PopRet(b, s)
        [] i.op = "jmpx"  -> Jmpx(b, s)
        [] i.op = "callx" -> Callx(b, s)
        [] i.op = "dec"   -> Subk(s, 1)
        [] i.op = "subk"  -> Subk(s, i.arg)
        [] i.op = "duple" -> Duple(b, s, i.arg)
        [] OTHER -> Stop(s, "opcode")

-----------------------------------------------------------------------------
(* wvm_load and wvm_run *)

Loaded == [mem |-> Image, sp |-> SP0, rp |-> RP0, ip |-> 0, status |-> "ok"]

Init == safe = Loaded /\ rel = Loaded

(* The stack pointers of a run are those the last one stored, in 16 bits.   *)
Reenter(s, e) == [s EXCEPT !.ip = e, !.sp = @ % HALF, !.rp = @ % HALF, !.status = "run"]

(* The host sets the entry and runs the machine: par-run.c.                 *)
Run(e) == /\ safe.status = "ok"
          /\ safe' = Reenter(safe, e) /\ rel' = Reenter(rel, e)

(* Or empties the stacks and pushes an argument first: bench.c.             *)
RunWith(e, v) ==
  /\ safe.status = "ok"
  /\ \E s \in {[safe EXCEPT !.sp = SP0 - 4, !.rp = RP0, !.mem = Wr(@, SP0 - 4, 4, v)]} :
       safe' = Reenter(s, e)
  /\ \E s \in {[rel EXCEPT !.sp = SP0 - 4, !.rp = RP0, !.mem = Wr(@, SP0 - 4, 4, v)]} :
       rel' = Reenter(s, e)

(* Programs address their data, or nothing in the universe, and leave their *)
(* own code alone, which begins at SP0.                                      *)
DataOnly(s, i) ==
  /\ i.op \in {"load", "load8", "load16", "store", "store8", "store16"} =>
       \/ s.sp + (IF i.op \in {"load", "load8", "load16"} THEN 4 ELSE 8) > SP0
       \/ Top(s) >= UNIVERSE
       \/ Top(s) .. Top(s) + 3 \subseteq Data
  /\ i.op \in {"dec", "subk"} => s.sp < SP0

Step == /\ Running(safe)
        /\ \E i \in Code[safe.ip % MEM] :
             /\ DataOnly(safe, i)
             /\ safe' = Exec(TRUE, safe, i)
             /\ rel' = Exec(FALSE, rel, i)

Next == Step \/ \E e \in Entry : Run(e) \/ \E v \in Args : RunWith(e, v)

Spec == Init /\ [][Next]_vars

-----------------------------------------------------------------------------
(* Properties *)

Status == {"run", "ok", "div", "trap", "stack", "addr", "opcode"}

(* Every field of both machines stays in its type: no access reaches more   *)
(* than three bytes past the array.                                         *)
Machine == [mem: Memory, sp: Word, rp: Word, ip: Word, status: Status]
TypeOK  == safe \in Machine /\ rel \in Machine

(* The SAFE build keeps the stacks inside their region and apart, through   *)
(* every instruction, also those that pop and push several times, and       *)
(* through every new run on the stacks the last one left.                   *)
StacksApart == RP0 <= safe.rp /\ safe.rp <= safe.sp /\ safe.sp <= SP0

(* wvm.h:8 and 44, README.md:32: the mask keeps every access inside the     *)
(* host's array. A run that writes behind it shows that it does not.        *)
HostInBounds == \A a \in Host : rel.mem[a] = Image[a] /\ safe.mem[a] = Image[a]

(* The release build does without the tests of stacks and addresses what    *)
(* the SAFE build does with them, as long as none of them fails. A division *)
(* by zero stops both: wvm.c:124 and 127 test the divisor in either build,  *)
(* although wvm.c:5 and README.md:33 count the test among those of SAFE.    *)
SameAsSafe == safe.status \notin {"stack", "addr"} => rel = safe

(* What the program sees of a machine: how many words and return addresses  *)
(* are on its stacks, the two stacks, and the memory outside of them.       *)
Depth(s)  == (SP0 - s.sp) \div 4
RDepth(s) == (s.rp - RP0) \div 2
Params(s) == [j \in 1 .. Depth(s) |-> Rd32(s.mem, s.sp + 4 * (j - 1))]
Rets(s)   == [j \in 1 .. RDepth(s) |-> Rd16(s.mem, RP0 + 2 * (j - 1))]
Rest(s)   == [a \in DOMAIN s.mem \ (RP0 .. SP0 - 1) |-> s.mem[a]]

Stacks == INSTANCE WvmStacks WITH
  ROOM <- SP0 - RP0, p <- Params(safe), r <- Rets(safe), data <- Rest(safe),
  ip <- safe.ip, status <- safe.status

(* Under SAFE a program has two separate stacks of its own: no push of one  *)
(* ever changes an entry of the other, and each handler leaves the effect   *)
(* on them that its instruction has.                                        *)
TwoStacks == Stacks!Spec
=============================================================================
