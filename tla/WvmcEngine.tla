----------------------------- MODULE WvmcEngine -----------------------------
(***************************************************************************)
(* The compiled program on the generated engine (compile_wvm.c, the string *)
(* engine_asm, and the code Wvmc makes). The machine is one record m; an   *)
(* agent is its number, a wire its number and kind. m.wild says that a     *)
(* word was used as what it is not: from there on memory is garbage. What  *)
(* the instruction and return pointers say is the code that is left.       *)
(***************************************************************************)
EXTENDS Wvmc, Bitwise

CONSTANTS PROGRAMS,      \* programs: [stmts, value]
          MAX_AGENTS     \* 192, the blocks from AGENTS to 0x5C00

VARIABLES prog,          \* the program
          image,         \* what the compiler made of it
          m,             \* the machine
          at             \* the top expressions begun so far

engineVars == <<prog, image, m, at>>

Fresh(slots) ==
  [ds |-> <<>>, slot |-> [s \in 1 .. slots |-> Zero], ag |-> <<>>, wires |-> <<>>,
   q |-> <<>>, qhead |-> 0, err |-> 0, result |-> Zero, halt |-> FALSE, wild |-> FALSE,
   c1 |-> Zero, c2 |-> Zero, f |-> 0, g |-> 0, fired |-> <<>>, code |-> <<>>]

IsNum(w)  == w[1] = "int"
IsWire(w) == w[1] = "wire"
IsPort(w) == w[1] = "port"
Val(w)    == IF IsNum(w) THEN w[2] ELSE 0

Wild(x)     == [x EXCEPT !.wild = TRUE]
Stop(x, e)  == [x EXCEPT !.err = e, !.halt = TRUE]
Leave(x, w) == [x EXCEPT !.ds = Append(@, w)]
Top(x)      == IF x.ds = <<>> THEN Zero ELSE Last(x.ds)
Drop(x)     == IF x.ds = <<>> THEN Wild(x) ELSE [x EXCEPT !.ds = Front(@)]

(* pc_addr: the cell of a port. A fourth auxiliary port has none of its own. *)
HasCell(x, w) == IsPort(w) /\ w[2] \in DOMAIN x.ag /\ w[3] \in 0 .. 2
Cell(x, w)    == x.ag[w[2]].cell[w[3]]
Write(x, w, val) == IF HasCell(x, w) THEN [x EXCEPT !.ag[w[2]].cell[w[3]] = val] ELSE Wild(x)

Deref(x, w) == IF IsWire(w) THEN x.wires[w[3]].cell ELSE w

(* An int from 2^30 on has the bit by which wires are told. *)
Huge(w) == IsNum(w) /\ w[2] >= 2 ^ 30

(* An address below the code at which no int is read, nor what leads to one: *)
(* it is not among the words of the control block (0x00 to 0x0F) whose       *)
(* bytes look like one, and no part of 32 return addresses (from 0x80) or of *)
(* 64 words of the data stack (down from 0x1000).                            *)
Blank(k) == k \in {4, 6, 7, 13} \cup 15 .. 124 \cup 192 .. 3840
Unknown  == <<"unknown">>
At(k)    == IF Blank(k % 32768) THEN Zero ELSE Unknown

(* drefv: up to three steps. A port is shifted twice on the way to its cell, *)
(* and what is read for it is at an address far from AGENTS.                 *)
Pointed(x, w) ==
  CASE IsWire(w) -> x.wires[w[3]].cell
    [] IsPort(w) -> At(256 * (w[2] - 1) + 4 * w[3] + 4)
    [] w = Zero  -> Zero
    [] OTHER     -> Unknown

RECURSIVE DerefTo(_, _, _)
DerefTo(x, w, steps) ==
  IF (IsNum(w) /\ ~Huge(w)) \/ w = Unknown \/ steps = 0 THEN w
  ELSE DerefTo(x, Pointed(x, w), steps - 1)
DeepDeref(x, w) == DerefTo(x, w, 3)

(* emit_prim_ready: the inputs are tested in order, up to one without int.  *)
Inputs(x, a, F)  == [i \in 1 .. F.nin |-> DeepDeref(x, x.ag[a].cell[i - 1])]
Missing(in)      == SelectInSeq(in, LAMBDA w : ~IsNum(w))
Ready(in)        == Missing(in) = 0
Undefined(in)    == ~Ready(in) /\ in[Missing(in)] = Unknown

Truth(b) == IF b THEN 1 ELSE 0
Word31   == 2147483647

(* emit_prim_calc: ints have 31 bits. A zero divisor stops the machine with *)
(* no error; assert drops a word that nobody pushed.                        *)
Result(name, a, b) ==
  CASE name = "iadd" -> IF a > Word31 - b THEN a - (Word31 - b) - 1 ELSE a + b
    [] name = "isub" -> IF a >= b THEN a - b ELSE Word31 - (b - a) + 1
    [] name = "imul" -> a * b          \* of operands whose product has 31 bits
    [] name = "idiv" -> a \div b
    [] name = "imod" -> a % b
    [] name = "eq?"  -> Truth(a = b)
    [] name = "not"  -> a ^^ 1
    [] name = "and"  -> a & b
    [] name = "or"   -> a | b

Calc(x, a, F) ==
  LET in == Inputs(x, a, F)  p == Val(in[1])  q == IF F.nin > 1 THEN Val(in[2]) ELSE 0 IN
  CASE F.name = "assert" -> IF p = 0 THEN Stop(x, 6) ELSE Drop(x)
    [] F.name \in {"idiv", "imod"} /\ q = 0 -> [x EXCEPT !.halt = TRUE]
    [] OTHER -> Leave(x, Num(Result(F.name, p, q)))

(* A call: its code comes before what is left.                              *)
Enter(x, ops) == [x EXCEPT !.code = ops \o @]

(* pcheck: the agents of the primitives it knows have a block each, in the  *)
(* order of their types. *)
Block(img, type) == SelectInSeq(img.watched, LAMBDA t : t = type)
Pcheck(x, img, w) ==
  IF IsPort(w) /\ Block(img, x.ag[w[2]].type) # 0
  THEN Enter(x, <<<<"block", Block(img, x.ag[w[2]].type), Addr(w[2])>>>>) ELSE x

(* What a block's primitive reads as its inputs, from a base that need not   *)
(* be an agent's: of any other word the first input is read alone.           *)
InputsFrom(x, w, F) ==
  CASE w[1] = "addr" -> Inputs(x, w[2], F)
    [] IsWire(w)     -> <<DeepDeref(x, x.wires[w[3]].hold)>>
    [] IsPort(w)     -> <<At(256 * (w[2] - 1) + w[3] + 4)>>
    [] IsNum(w)      -> <<At(w[2] + 4)>>
    [] w = Zero      -> <<At(4)>>

Computed(x, a, F) == F.nout > 0 /\ IsNum(x.ag[a].cell[F.nin])
Runs(x, img, k, w) ==
  LET F == img.types[img.watched[k]]
  IN  w[1] = "addr" /\ Ready(Inputs(x, w[2], F)) /\ ~Computed(x, w[2], F)

(* A block: a primitive that has become ready, and has no result, is run.    *)
(* Otherwise the code falls into the next block, which takes a word from the *)
(* stack as its base.                                                        *)
PrimBlock(x, img, k, w) ==
  LET t == img.watched[k]  F == img.types[t] IN
  IF Undefined(InputsFrom(x, w, F)) THEN Wild(x)
  ELSE IF Runs(x, img, k, w)
  THEN Enter(x, IF F.nout > 0 THEN <<<<"calc", w[2], t>>, <<"out", w[2], t>>>>
                              ELSE <<<<"calc", w[2], t>>>>)
  ELSE IF k < Len(img.watched) THEN Enter(Drop(x), <<<<"block", k + 1, Top(x)>>>>) ELSE x

(* wropp: the old word stays on the stack, unless it is a port.             *)
Wropp(x, v, val) ==
  LET y == [x EXCEPT !.c1 = v, !.c2 = val]
      old == IF IsWire(v) THEN x.wires[v[3]].cell ELSE Cell(x, v)
      z == IF IsWire(v) THEN [y EXCEPT !.wires[v[3]].cell = val] ELSE Write(y, v, val)
  IN  IF IsNum(v) THEN y
      ELSE IF ~IsWire(v) /\ ~HasCell(x, v) THEN Wild(y)
      ELSE IF IsNum(old) \/ IsWire(old) THEN Leave(z, old) ELSE Enter(z, <<<<"pcheck", old>>>>)

(* emit_prim_out: the result is put into the output's cell and then written *)
(* once more through its port.                                              *)
Out(x, a, F) ==
  LET port == Port(a, F.nin)
  IN  Wropp(Write(Drop(x), port, Top(x)), port, Top(x))

(* enq: what is not the address of an agent is queued too, as 0.            *)
Enq(x, w) == [x EXCEPT !.q = Append(@, IF IsPort(w) THEN w[2] ELSE 0)]

(* Mutant: the holder of the wire is not put on the queue. *)
FirstWriteSilent(x) ==
  LET y == [x EXCEPT !.wires[x.c1[3]].cell = x.c2] IN
  IF IsNum(x.c2) \/ IsWire(x.c2) THEN y ELSE Leave(Write(y, x.c2, x.c1), x.c2)

(* Mutant: the holder is put on the queue twice. *)
FirstWriteTwice(x) ==
  LET y == [x EXCEPT !.wires[x.c1[3]].cell = x.c2]
      z == Leave(Write(y, x.c2, x.c1), x.c2)
  IN  IF IsNum(x.c2) \/ IsWire(x.c2) THEN y
      ELSE IF z.wild \/ x.c2[3] # 0 THEN z
      ELSE Enq(Enq(z, x.wires[x.c1[3]].hold), x.wires[x.c1[3]].hold)

(* connectx on CSLOT and CSLOT+4: a wire that leads nowhere yet.            *)
FirstWrite(x) ==
  LET y == [x EXCEPT !.wires[x.c1[3]].cell = x.c2]
      z == Leave(Write(y, x.c2, x.c1), x.c2)
  IN  IF IsNum(x.c2) \/ IsWire(x.c2) THEN y
      ELSE IF z.wild \/ x.c2[3] # 0 THEN z ELSE Enq(z, x.wires[x.c1[3]].hold)

ConnectPorts(x) ==
  LET y == Leave(Leave(Write(Write(x, x.c1, x.c2), x.c2, x.c1), x.c1), x.c2) IN
  IF ~y.wild /\ x.c1[3] = 0 /\ x.c2[3] = 0 THEN Enq(y, x.c1) ELSE y
IntInto(x, n, w) == Enter(Leave(Write(x, w, n), w), <<<<"pcheck", w>>>>)

(* What is done after wropp on a wire, which may have run primitives.       *)
AfterWropp(x) == IF IsPort(x.c1) THEN Leave(Write(x, x.c1, x.c2), x.c1) ELSE x

Connect(x) ==
  IF Huge(x.c1) \/ Huge(x.c2) THEN Wild(x)
  ELSE IF IsWire(x.c1)
  THEN LET old == x.wires[x.c1[3]].cell IN
       IF old = Zero THEN FirstWrite(x) ELSE Enter([x EXCEPT !.c1 = old], <<<<"connect">>>>)
  ELSE IF IsNum(x.c1) THEN IntInto(x, x.c1, x.c2)
  ELSE IF IsWire(x.c2) THEN Wropp(Enter(x, <<<<"after wropp">>>>), x.c2, x.c1)
  ELSE IF IsNum(x.c2) THEN IntInto(x, x.c2, x.c1)
  ELSE ConnectPorts(x)

Connectx(x) ==
  IF Len(x.ds) < 2 THEN Wild(x)
  ELSE Enter([Drop(Drop(x)) EXCEPT !.c1 = Top(Drop(x)), !.c2 = Top(x)], <<<<"connect">>>>)

NewAgent(x, type) ==
  IF Len(x.ag) >= MAX_AGENTS THEN Stop(x, 2)
  ELSE [x EXCEPT !.ag = Append(@, [type |-> type, cell |-> [p \in 0 .. 2 |-> Zero]]),
                 !.ds = Append(@, Addr(Len(x.ag) + 1))]
NewWire(x, principal) ==
  [x EXCEPT !.wires = Append(@, [cell |-> Zero, hold |-> Zero]),
            !.ds = Append(@, Wire(principal, Len(x.wires) + 1))]

BaseOf(x, slot) == x.slot[slot][2]
Of(a, t, ops) == [i \in DOMAIN ops |-> IF ops[i][1] \in {"calc", "out"} THEN <<ops[i][1], a, t>> ELSE ops[i]]

(* A primitive that is applied: it is computed if its inputs are ints.      *)
WhenReady(x, img, a, ops) ==
  LET t == x.ag[a].type  in == Inputs(x, a, img.types[t]) IN
  IF Undefined(in) THEN Wild(x) ELSE IF Ready(in) THEN Enter(x, Of(a, t, ops)) ELSE x
PortAt(x, slot, p) == Port(BaseOf(x, slot), p)

Step(x, img, op) ==
  CASE op[1] = "word"     -> Leave(x, op[2])
    [] op[1] = "load"     -> Leave(x, x.slot[op[2]])
    [] op[1] = "store"    -> [Drop(x) EXCEPT !.slot[op[2]] = Top(x)]
    [] op[1] = "drop"     -> Drop(x)
    [] op[1] = "connectx" -> Connectx(x)
    [] op[1] = "connect"  -> Connect(x)
    [] op[1] = "after wropp" -> AfterWropp(x)
    [] op[1] = "pcheck"   -> Pcheck(x, img, op[2])
    [] op[1] = "newag"    -> NewAgent(x, op[2])
    [] op[1] = "new_wire" -> NewWire(x, op[2])
    [] op[1] = "portv"    -> Leave(x, PortAt(x, op[2], op[3]))
    [] op[1] = "setport"  -> Write(Drop(x), PortAt(x, op[2], op[3]), Top(x))
    [] op[1] = "peer"     -> IF IsNum(Top(x)) \/ IsWire(Top(x)) THEN x
                             ELSE Write(x, Top(x), PortAt(x, op[2], op[3]))
    [] op[1] = "hold"     -> [x EXCEPT !.wires[x.slot[op[2]][3]].hold = PortAt(x, op[3], op[4])]
    [] op[1] = "block"    -> PrimBlock(x, img, op[2], op[3])
    [] op[1] = "ready"    -> WhenReady(x, img, BaseOf(x, op[2]), op[3])
    [] op[1] = "calc"     -> Calc(x, op[2], img.types[op[3]])
    [] op[1] = "out"      -> Out(x, op[2], img.types[op[3]])
    [] op[1] = "call"     -> Enter(x, img.funcs[op[2]].code)
    [] op[1] = "cellF"    -> Leave(x, x.ag[x.f].cell[op[2]])
    [] op[1] = "cellG"    -> Leave(x, x.ag[x.g].cell[op[2]])
    [] op[1] = "result"   -> [Drop(x) EXCEPT !.result = Top(x)]

-----------------------------------------------------------------------------
EngineInit ==
  /\ prog \in PROGRAMS
  /\ image = Compile(prog.stmts)
  /\ m = Fresh(image.slots)
  /\ at = 0

Running(rest) == ~m.halt /\ ~m.wild /\ image.ok /\ (m.code # <<>>) = rest

Instruction ==
  /\ Running(TRUE)
  /\ m' = Step([m EXCEPT !.code = Tail(@)], image, Head(m.code))
  /\ UNCHANGED <<prog, image, at>>

(* main: the values that a top expression is said to leave are dropped, or, *)
(* for the last one, stored as the RESULT.                                  *)
RunTop ==
  /\ Running(FALSE) /\ at < Len(image.tops)
  /\ LET top == image.tops[at + 1] IN
     m' = Enter(m, top.code \o (IF at + 1 < Len(image.tops) THEN Drops(top.n) ELSE <<<<"result">>>>))
  /\ at' = at + 1
  /\ UNCHANGED <<prog, image>>

(* driver: an entry whose principal port leads to an agent that leads back, *)
(* to itself or to the entry, is rewritten by the rule of the two types.    *)
Fire(x, e, b) ==
  LET key == <<x.ag[e].type, x.ag[b].type>> IN
  IF key \notin DOMAIN image.table THEN Stop(x, 3)
  ELSE LET rule == image.table[key]
           straight == x.ag[b].type = rule.f
           f == IF straight THEN b ELSE e  g == IF straight THEN e ELSE b
       IN  Enter([x EXCEPT !.f = f, !.g = g, !.fired = @ \o <<e, b>>],
                 rule.code \o <<<<"word", Addr(f)>>, <<"word", Addr(g)>>>>)

Turn(x, e) ==
  LET to == Deref(x, x.ag[e].cell[0])
      back == IF IsPort(to) THEN Deref(x, x.ag[to[2]].cell[0]) ELSE Zero
  IN  IF ~IsPort(to) THEN IF to = Zero THEN Leave(x, Port(e, 0)) ELSE x
      ELSE LET y == IF back = Port(to[2], 0) THEN Leave(x, Port(e, 0)) ELSE x
           IN  IF back \in {Port(to[2], 0), Port(e, 0)} /\ to[2] # e /\ x.ag[to[2]].type < 16
               THEN Fire(y, e, to[2]) ELSE y

Driver ==
  /\ Running(FALSE) /\ at = Len(image.tops)
  /\ m' = IF m.qhead = Len(m.q) THEN [Leave(m, Zero) EXCEPT !.halt = TRUE]
          ELSE LET e == m.q[m.qhead + 1]  x == [m EXCEPT !.qhead = @ + 1] IN
               IF e = 0 THEN Leave(x, Zero)
               ELSE IF m.ag[e].type > 15 THEN Leave(x, Addr(e))
               ELSE Turn(x, e)
  /\ UNCHANGED <<prog, image, at>>

EngineNext == Instruction \/ RunTop \/ Driver

-----------------------------------------------------------------------------
Halted == m.halt /\ m.err = 0

(* run-wvmc.c: from the RESULT to an int or to an agent, over wires and the *)
(* cells of ports.                                                          *)
RECURSIVE Follow(_, _)
Follow(w, steps) ==
  IF steps = 0 \/ IsNum(w) THEN w
  ELSE IF IsWire(w) THEN Follow(Deref(m, w), steps - 1)
  ELSE IF ~HasCell(m, w) \/ Cell(m, w) = w THEN w
  ELSE Follow(Cell(m, w), steps - 1)
ReadResult == Follow(m.result, 16)

(* An agent takes part in one rewriting at most. Agents are not freed and   *)
(* their cells keep their words, so the driver cannot tell an entry that    *)
(* was served from one that was not: every pair has to be queued once.      *)
FiresOnce == IsInjective(m.fired)

(* A block of pcheck whose primitive is not ready, or has its result.       *)
Skips == /\ m.code # <<>> /\ Head(m.code)[1] = "block"
         /\ ~Runs(m, image, Head(m.code)[2], Head(m.code)[3])
SkipLeavesStack == Skips => m'.ds = m.ds
=============================================================================
