------------------------------- MODULE MCWvm -------------------------------
(* An arbitrary program in slots that loop: a literal and a one-byte        *)
(* operation, a branch or a call, a return; at 23 an address of data, one   *)
(* past the universe or one of code, for an access or an indirect branch;   *)
(* at 30 arithmetic, brought back to 0 or 1. Bytes have three bits; the     *)
(* stacks share twelve bytes: three words, or two and two return addresses. *)
EXTENDS Wvm

Ins(op)        == [op |-> op, arg |-> 0]
With(op, args) == {[op |-> op, arg |-> a] : a \in args}

MCImage == [a \in 0 .. MEM + 2 |-> IF a = SP0 THEN 1 ELSE 0]
MCData  == 48 .. 51

(* The smallest word, which no word of its sign negates. *)
MCArgs  == {WORD \div 2}

MCCode == [a \in 0 .. MEM - 1 |->
  CASE a = 0  -> {Ins("illegal")}
    [] a = 16 -> With("lit8", {-1}) \cup With("duple", {0})
    [] a = 18 -> {Ins(op) : op \in {"dup", "drop", "swap", "over", "rot", "and",
                                    "halt"}}
    [] a = 19 -> With("call", {16}) \cup With("jz", {22}) \cup With("jnz", {16})
                   \cup With("jmp", {22, 23, 30})
    [] a = 22 -> {Ins("ret"), Ins("jmpx"), Ins("callx")}
    [] a = 23 -> With("lit16", {18, 48, -1})
    [] a = 26 -> {Ins("load8"), Ins("store8"), Ins("jmpx"), Ins("callx")}
    [] a = 27 -> With("jmp", {16})
    [] a = 30 -> {Ins("sub"), Ins("div")}
    [] a = 31 -> With("lit8", {0})
    [] a = 33 -> {Ins("ge")}
    [] a = 34 -> With("jmp", {16})
    [] OTHER  -> {}]

(* A store to the array's last address. *)
MCEdgeCode == [a \in 0 .. MEM - 1 |->
  CASE a = 16 -> With("lit8", {-1})
    [] a = 18 -> {Ins("dup")}
    [] a = 19 -> {Ins("store")}
    [] a = 20 -> {Ins("halt")}
    [] OTHER  -> {}]
=============================================================================
