-------------------------------- MODULE Wvmc --------------------------------
(***************************************************************************)
(* The compiler of inet-c/compile_wvm.c: from statements to code for the   *)
(* engine. The code is kept as sequences of operations, one for each group *)
(* of emitted instructions that does one thing; labels and addresses are   *)
(* the operations' structure. The compiler's tables are one record c; c.ok *)
(* is FALSE once it has given up.                                          *)
(***************************************************************************)
EXTENDS Integers, SequencesExt

CONSTANTS PRINCIPAL,     \* the port names that end in "!"
          MAX_TYPES,     \* 16
          VAR_SLOTS      \* 361, the words from VARS to AGENTS

(* Words: ints, ports, wires, addresses of agents, and the word 0.          *)
Zero       == <<"zero">>
Num(n)     == <<"int", n>>
Port(a, p) == <<"port", a, p>>
Wire(p, i) == <<"wire", p, i>>
Addr(a)    == <<"addr", a>>

(* prim_find's table: the inputs and outputs of each primitive.             *)
Binary   == {"iadd", "isub", "imul", "idiv", "imod", "eq?", "and", "or"}
Prims    == Binary \cup {"not", "assert"}
PrimType(name) ==
  LET in == IF name \in Binary THEN 2 ELSE 1  out == IF name = "assert" THEN 0 ELSE 1 IN
  [name |-> name, prim |-> TRUE, nin |-> in, nout |-> out, arity |-> in + out,
   enc |-> [i \in 1 .. in + out |-> i - 1], principal |-> [i \in 1 .. in + out |-> i <= in]]

(* collect_stmt: principal ports are encoded as 0, the others as 1, 2, 3.   *)
NodeType(st) ==
  LET principal == [i \in DOMAIN st.ports |-> st.ports[i] \in PRINCIPAL] IN
  [name |-> st.name, prim |-> FALSE, nin |-> 0, nout |-> 0, arity |-> Len(st.ports),
   enc |-> [i \in DOMAIN st.ports |->
              IF principal[i] THEN 0 ELSE Cardinality({j \in 1 .. i : ~principal[j]})],
   principal |-> principal]

Mapped(seq, f(_)) == [i \in DOMAIN seq |-> f(seq[i])]
Named(seq, name) == SelectInSeq(seq, LAMBDA x : x.name = name)

(* ctor_find: a primitive becomes a type when it is first looked for.       *)
CtorFind(c, name) ==
  IF Named(c.types, name) = 0 /\ name \in Prims
  THEN [c EXCEPT !.types = Append(@, PrimType(name))] ELSE c
CtorId(c, name) == Named(CtorFind(c, name).types, name)

Fail(c)      == [c EXCEPT !.ok = FALSE]
Emit(c, ops) == [c EXCEPT !.code = @ \o ops]
Residue(c, n) == [c EXCEPT !.n = n]
Push(c, w)   == Residue(Emit(c, <<<<"word", w>>>>), 1)
Drops(n)     == [i \in 1 .. n |-> <<"drop">>]

(* var_add: slots are never given back. var_find takes the latest of a name. *)
VarAdd(c, name) == IF Len(c.vars) >= VAR_SLOTS THEN Fail(c) ELSE [c EXCEPT !.vars = Append(@, name)]
Slot(c)         == Len(c.vars)
VarFind(c, name) == CHOOSE s \in DOMAIN c.vars :
                      c.vars[s] = name /\ \A t \in s + 1 .. Len(c.vars) : c.vars[t] # name
Bind(c, name)   == LET c1 == VarAdd(c, name)
                   IN  [Emit(c1, <<<<"store", Slot(c1)>>>>) EXCEPT !.binds = @ \cup {name}]

RECURSIVE CompileExp(_, _), CompileArgs(_, _, _), CompileCall(_, _), CompileBinds(_, _)

(* The arguments of a node: each is one value, kept in a slot of its own.   *)
(* The slots are the result's "args".                                       *)
CompileArgs(c, args, slots) ==
  IF args = <<>> \/ ~c.ok THEN [c |-> c, slots |-> slots]
  ELSE LET c1 == VarAdd(c, "")
           c2 == CompileExp(c1, Head(args))
       IN  IF c2.n # 1 THEN [c |-> Fail(c2), slots |-> slots]
           ELSE CompileArgs(Emit(c2, <<<<"store", Slot(c1)>>>>), Tail(args), Append(slots, Slot(c1)))

(* A primitive: its inputs are connected, and if all are ints it is         *)
(* computed at once. The value is only pushed on that path.                 *)
CompilePrim(c, id, slots, base) ==
  LET F == c.types[id]
      inputs == FlattenSeq([i \in DOMAIN slots |->
                  <<<<"load", slots[i]>>, <<"portv", base, i - 1>>, <<"connectx">>>>])
      res == VarAdd(c, "")  r == Slot(res)
      xy(d) == VarAdd(VarAdd(d, ""), "")
  IN  IF F.nout > 0
      THEN Residue(Emit(xy(res), inputs \o <<<<"ready", base,
             <<<<"calc">>, <<"store", r>>, <<"load", r>>, <<"out">>, <<"load", r>>>>>>>>), 1)
      ELSE Residue(Emit(xy(c), inputs \o <<<<"ready", base, <<<<"calc">>>>>>>>), 0)

(* The inputs of a node: principal ones are connected, others only written. *)
InputCode(F, i, slot, base) ==
  IF F.principal[i] THEN <<<<"load", slot>>, <<"portv", base, F.enc[i]>>, <<"connectx">>>>
  ELSE <<<<"load", slot>>, <<"setport", base, F.enc[i]>>, <<"load", slot>>, <<"peer", base, F.enc[i]>>>>

(* Its outputs: a fresh wire each, which knows the port that holds it.      *)
RECURSIVE CompileOutputs(_, _, _, _)
CompileOutputs(c, F, i, base) ==
  IF i > F.arity THEN c
  ELSE LET c1 == VarAdd(c, "")  w == Slot(c1) IN
       CompileOutputs(Emit(c1, <<<<"new_wire", IF F.enc[i] = 0 THEN 1 ELSE 0>>, <<"store", w>>,
                                 <<"load", w>>, <<"setport", base, F.enc[i]>>,
                                 <<"hold", w, base, F.enc[i]>>, <<"load", w>>>>), F, i + 1, base)

CompileNode(c0, id, args) ==
  LET F == c0.types[id] IN
  IF Len(args) > F.arity THEN Fail(c0)
  ELSE LET res  == CompileArgs(c0, args, <<>>)
           c1   == VarAdd(res.c, "")
           base == Slot(c1)
           c2   == Emit(c1, <<<<"newag", id>>, <<"store", base>>>>)
       IN  IF ~c1.ok THEN c1
           ELSE IF F.prim THEN CompilePrim(c2, id, res.slots, base)
           ELSE Residue(CompileOutputs(
                  Emit(c2, FlattenSeq([i \in DOMAIN args |-> InputCode(F, i, res.slots[i], base)])),
                  F, Len(args) + 1, base), F.arity - Len(args))

(* The operands of a call or of connect stay on the stack, one on another.  *)
CompileCall(c, args) ==
  IF args = <<>> \/ ~c.ok THEN c ELSE CompileCall(CompileExp(c, Head(args)), Tail(args))

CompileApply(c0, name, args) ==
  LET c == CtorFind(c0, name)  f == Named(c.funcs, name) IN
  IF name = "connect"
  THEN IF Len(args) # 2 THEN Fail(c0)
       ELSE Residue(Emit(CompileCall(c0, args), <<<<"connectx">>>>), 0)
  ELSE IF CtorId(c, name) # 0 THEN CompileNode(c, CtorId(c, name), args)
  ELSE IF f = 0 \/ c.funcs[f].count = -1 THEN Fail(c)
  ELSE Residue(Emit(CompileCall(c, args), <<<<"call", f>>>>), c.funcs[f].count)

CompileVar(c, name) ==
  LET f == Named(c.funcs, name) IN
  CASE name = "true"       -> Push(c, Num(1))
    [] name = "false"      -> Push(c, Num(0))
    [] name \notin {"true", "false"} /\ name \in c.binds ->
         Residue(Emit(c, <<<<"load", VarFind(c, name)>>>>), 1)
    [] OTHER -> IF CtorId(c, name) # 0 THEN CompileApply(c, name, <<>>)
                ELSE IF f # 0 /\ c.funcs[f].count = 0 THEN Residue(Emit(c, <<<<"call", f>>>>), 0)
                ELSE Fail(c)

(* Names are stored from the last to the first, as values leave the stack.  *)
CompileBinds(c, names) ==
  IF names = <<>> THEN c ELSE CompileBinds(Bind(c, Last(names)), Front(names))

(* compile_exp: the code, and the number of values it is said to leave. The *)
(* two values of link are two wires, which nothing joins.                   *)
CompileExp(c, e) ==
  IF ~c.ok THEN c
  ELSE CASE e.kind = "var"    -> CompileVar(c, e.name)
         [] e.kind = "int"    -> Push(c, Num(e.value))
         [] e.kind = "float"  -> Fail(c)
         [] e.kind = "ap"     ->
              IF e.target.name = "link"
              THEN Residue(Emit(c, <<<<"new_wire", 0>>, <<"new_wire", 0>>>>), 2)
              ELSE CompileApply(c, e.target.name, e.args)
         [] e.kind = "assign" ->
              LET c1 == CompileExp(c, e.exp) IN
              IF ~c1.ok \/ c1.n # Len(e.names) THEN Fail(c1)
              ELSE Residue(CompileBinds(c1, e.names), 0)

(* Expressions whose values are dropped; the last one's are, if "last".     *)
RECURSIVE CompileBody(_, _, _)
CompileBody(c, body, last) ==
  IF body = <<>> \/ ~c.ok THEN c
  ELSE LET c1 == CompileExp(c, Head(body)) IN
       CompileBody(IF Len(body) > 1 \/ last THEN Emit(c1, Drops(c1.n)) ELSE c1, Tail(body), last)

(* compile_function: without a body it has no count, and cannot be called.  *)
CompileFunction(c, f) ==
  LET fn == c.funcs[f]
      c1 == CompileBody(CompileBinds([c EXCEPT !.code = <<>>], fn.args), fn.body, FALSE)
  IN  [c1 EXCEPT !.funcs[f].count = IF fn.body = <<>> THEN -1 ELSE c1.n, !.funcs[f].code = c1.code, !.binds = c.binds]

RECURSIVE BindCells(_, _, _, _)
BindCells(c, op, cells, names) ==
  IF names = <<>> THEN c
  ELSE BindCells(Bind(Emit(c, <<<<op, Head(cells)>>>>), Head(names)), op, Tail(cells), Tail(names))

(* compile_rule: (F (G p1 .. pj) a1 .. ak). The names of the pattern are     *)
(* bound to the words of the agents' cells, F's before G's.                 *)
BoundRule(c, F, G, cells, names, auxs, aux) ==
  BindCells(BindCells([c EXCEPT !.code = <<>>],
                      "cellF", Mapped(cells, LAMBDA i : F.enc[i]), names),
            "cellG", Mapped(auxs, LAMBDA i : G.enc[i]), aux)

AddRule(c0, c, fid, gid) ==
  [c EXCEPT !.rules = Append(@, [f |-> fid, g |-> gid, code |-> c.code]), !.binds = c0.binds]

AreVars(exps)  == \A i \in DOMAIN exps : exps[i].kind = "var"
NamesOf(exps)  == Mapped(exps, LAMBDA e : e.name)
Indices(n)     == [i \in 1 .. n |-> i]
Shorter(s, n)  == SubSeq(s, 1, IF Len(s) < n THEN Len(s) ELSE n)

RuleOfCells(c0, c, rule, fid, gid, fpos, aux, gargs) ==
  LET pats == Mapped(fpos, LAMBDA i : rule.pattern.args[i]) IN
  IF ~AreVars(pats) \/ ~AreVars(gargs) THEN Fail(c0)
  ELSE AddRule(c0, CompileBody(BoundRule(c, c.types[fid], c.types[gid], fpos, NamesOf(pats),
                                         aux, NamesOf(gargs)), rule.body, TRUE), fid, gid)

RuleOfTypes(c0, c, rule, at, fid, gid) ==
  LET pats == rule.pattern.args
      F == c.types[fid]  G == c.types[gid]
      aux == SelectSeq(Indices(G.arity), LAMBDA i : ~G.principal[i])
      gargs == pats[at].args
  IN  RuleOfCells(c0, c, rule, fid, gid,
                  SelectSeq(Indices(F.arity), LAMBDA i : i # at /\ i <= Len(pats)),
                  Shorter(aux, Len(gargs)), Shorter(gargs, Len(aux)))

RuleAt(c0, c, rule, at, fid) ==
  IF at > c.types[fid].arity THEN Fail(c0)
  ELSE IF c.types[fid].enc[at] # 0 THEN Fail(c0)
  ELSE LET name == rule.pattern.args[at].target.name  gid == CtorId(c, name) IN
       IF gid = 0 THEN Fail(c0) ELSE RuleOfTypes(c0, CtorFind(c, name), rule, at, fid, gid)

CompileRule(c, rule) ==
  LET name == rule.pattern.target.name
      nested == {i \in DOMAIN rule.pattern.args : rule.pattern.args[i].kind = "ap"}
  IN  IF CtorId(c, name) = 0 \/ Cardinality(nested) # 1 THEN Fail(c)
      ELSE RuleAt(c, CtorFind(c, name), rule, CHOOSE i \in nested : TRUE, CtorId(c, name))

(* collect_stmt *)
CollectStmt(c, st) ==
  CASE st.stmt = "define-node" ->
         IF Len(c.types) >= MAX_TYPES \/ st.ports = <<>> \/ Len(st.ports) > 4 THEN Fail(c)
         ELSE [c EXCEPT !.types = Append(@, NodeType(st))]
    [] st.stmt = "define" ->
         [c EXCEPT !.funcs = Append(@, [name |-> st.name, args |-> <<>>, body |-> <<st.exp>>,
                                        count |-> -1, code |-> <<>>])]
    [] st.stmt = "define-function" ->
         [c EXCEPT !.funcs = Append(@, [name |-> st.name, args |-> st.args, body |-> st.body,
                                        count |-> -1, code |-> <<>>])]
    [] st.stmt \in {"define-rule", "run"} -> c
    [] OTHER -> Fail(c)

Start == [types |-> <<>>, funcs |-> <<>>, rules |-> <<>>, vars |-> <<>>, binds |-> {},
          code |-> <<>>, n |-> 0, ok |-> TRUE]

Only(stmts, kind) == SelectSeq(stmts, LAMBDA st : st.stmt = kind)

(* The types of which pcheck knows: the primitives that functions and rules *)
(* have used by the time it is emitted, each with a slot for its base.      *)
Watched(c) == SelectSeq(Indices(Len(c.types)), LAMBDA i : c.types[i].prim)
PcheckSlots(c) == FoldLeft(VarAdd, c, [i \in 1 .. 3 * Len(Watched(c)) |-> ""])

RECURSIVE CompileTops(_, _, _)
CompileTops(c, tops, acc) ==
  IF tops = <<>> \/ ~c.ok THEN [c |-> c, tops |-> acc]
  ELSE LET c1 == CompileExp([c EXCEPT !.code = <<>>], Head(tops).exp)
       IN  CompileTops(IF Len(tops) = 1 /\ c1.n # 1 THEN Fail(c1) ELSE c1, Tail(tops),
                       Append(acc, [code |-> c1.code, n |-> c1.n]))

(* compile_wvm_main: functions, then rules, then pcheck, then main. A later *)
(* rule for the same two types replaces an earlier one in TABLE.            *)
Table(rules) ==
  [key \in UNION {{<<rules[r].f, rules[r].g>>, <<rules[r].g, rules[r].f>>} : r \in DOMAIN rules} |->
     rules[Max({r \in DOMAIN rules : {rules[r].f, rules[r].g} = {key[1], key[2]}})]]

Image(c, main) ==
  [ok    |-> main.c.ok /\ main.tops # <<>>,
   types |-> main.c.types, funcs |-> main.c.funcs, watched |-> Watched(c), tops |-> main.tops,
   slots |-> Len(main.c.vars), table |-> Table(c.rules)]

WithMain(c, stmts) == Image(c, CompileTops(PcheckSlots(c), Only(stmts, "run"), <<>>))

Compile(stmts) ==
  LET c == FoldLeft(CollectStmt, Start, stmts) IN
  WithMain(FoldLeft(CompileRule,
                    FoldLeft(CompileFunction, c, [f \in 1 .. Len(c.funcs) |-> f]),
                    Only(stmts, "define-rule")), stmts)
=============================================================================
