------------------------------- MODULE MCLisp -------------------------------
(***************************************************************************)
(* The way of an inet-lisp program: text to s-expressions, s-expressions   *)
(* to statements, imports, and statements to a run of the engine. Which of *)
(* them a behaviour is about is chosen at the start; programs go through   *)
(* the parser, the compiler and the engine.                                *)
(***************************************************************************)
EXTENDS Parser

CONSTANTS KINDS,         \* of "text", "tree", "path", "project", "program"
          MAX_TEXT,      \* the length of texts
          WIDE           \* programs whose functions use three primitives, and no others

VARIABLES kind,
          text, cursor, lineno, column, tokens, lexing, reads, open, next,  \* the reader
          tree, pair,                                              \* parser, path
          files, stack, loaded, merged, here, rest, loading,       \* imports
          prog, image, m, at                            \* the engine

Upto(S, n) == UNION {[1 .. k -> S] : k \in 0 .. n}

(* Texts of every kind of character, and longer ones of lists. *)
Texts == Upto({" ", "\n", ";", "(", ")", "\"", "\\", "n", "0"}, MAX_TEXT)
         \cup Upto({" ", "(", ")", "n"}, MAX_TEXT + 2)

(* Statements and what nearly is one. *)
Float(clear, plain) == Atom("FLOAT", [clear |-> clear, plain |-> plain])
Exps == {Name("x"), Atom("INT", 3), Atom("INT", 4), Float(TRUE, TRUE), Float(FALSE, TRUE),
         Float(TRUE, FALSE), List(<<Name("f")>>), List(<<Name("f"), Name("x"), Float(TRUE, TRUE)>>),
         List(<<Name("="), Name("x"), Name("y")>>)}
Trees == {List(<<Name(head)>> \o args) :
            head \in {"define", "define-node", "define-rule", "define-rule*", "import", "=", "f"},
            args \in Upto(Exps \cup {Atom("STRING", <<"lib", ".", "a">>)}, 3)} \cup Exps

(* Pairs of paths, absolute and relative, with "." and "..".                *)
Parts == Upto({"a", "b", ".", ".."}, 2) \cup {<<"">> \o s : s \in Upto({"a", "..", ""}, 2)}
Pairs == Parts \X Parts

(* Four files in two directories, which import one another in every way the *)
(* sets allow; "./a" and "lib/./c" are other names of files, "lib/d" is     *)
(* none, and b may climb back to the directory it was imported from.        *)
A == <<"a">>
B == <<"lib", "b">>
Import(names) == [i \in DOMAIN names |-> [import |-> names[i]]]
File(id, names) == <<[id |-> id]>> \o Import(names)
Projects ==
  {(<<"main">> :> File("main", main)) @@ (A :> File("a", a)) @@ (B :> File("b", b))
   @@ (<<"lib", "c">> :> File("c", c)) :
     main \in {<<A>>, <<B, A>>, <<<<".", "a">>>>, <<A, B>>},
     a \in Upto({<<"main">>, B, <<"lib", ".", "c">>}, 2),
     b \in {<<>>, <<<<"c">>>>, <<<<"c">>, <<"b">>>>, <<<<"..", "a">>>>, <<<<"..", "a">>, <<"c">>>>},
     c \in {<<>>, <<<<"b">>>>, <<<<"d">>>>}}

-----------------------------------------------------------------------------
(* Programs, with the value they should have, or None.                      *)
None == -1
Lit(n) == Atom("INT", n)
Ap(f, args) == List(<<Name(f)>> \o args)
Program(sexps, value) == [stmts |-> Mapped(sexps, ParseStmt), value |-> value]

Ops == {"iadd", "isub", "imul", "idiv", "imod", "eq?", "and", "or"}
Truth(b) == IF b THEN 1 ELSE 0

(* What an integer expression means; None when it has no value, or one that *)
(* another operation could not take. and, or: of truth values.              *)
Apply(op, a, b) ==
  CASE op = "iadd" -> a + b
    [] op = "isub" -> IF a >= b THEN a - b ELSE None
    [] op = "imul" -> a * b
    [] op = "idiv" -> IF b = 0 THEN None ELSE a \div b
    [] op = "imod" -> IF b = 0 THEN None ELSE a % b
    [] op = "eq?"  -> Truth(a = b)
    [] op = "and"  -> IF {a, b} \subseteq {0, 1} THEN a * b ELSE None
    [] op = "or"   -> IF {a, b} \subseteq {0, 1} THEN Truth(a + b > 0) ELSE None

RECURSIVE Eval(_)
Eval(s) == IF IsAtom(s) THEN s.string
           ELSE LET a == Eval(s.items[2])  b == Eval(s.items[3]) IN
                IF None \in {a, b} THEN None ELSE Apply(s.items[1].string, a, b)

Calls(ops, S) == {Ap(op, <<a, b>>) : op \in ops, a \in S, b \in S}
Simple == {Lit(0), Lit(1), Lit(3)}
Nested == Calls(Ops, Simple \cup Calls({"isub", "imul"}, {Lit(1), Lit(2)}))
Valued == {e \in Nested : Eval(e) # None}
Small  == {e \in Calls(Ops, Simple) : Eval(e) # None}

(* The expression alone; through a variable, a function, a value, an end of *)
(* a link. What is connected to the one end does not reach the other.       *)
With1(name, value) == Ap(name, <<value, Lit(1)>>)
Arithmetic ==
  {Program(<<e>>, Eval(e)) : e \in Valued}
  \cup UNION {{Program(<<Ap("=", <<Name("x"), e>>), With1("iadd", Name("x"))>>, Eval(e) + 1),
               Program(<<Ap("define", <<Ap("f", <<Name("x")>>), Ap("imul", <<Name("x"), Name("x")>>)>>),
                         With1("iadd", Ap("f", <<e>>))>>, Eval(e) * Eval(e) + 1),
               Program(<<Ap("define", <<Name("x"), e>>), With1("eq?", Ap("x", <<>>))>>, Truth(Eval(e) = 1))} : e \in Small}
  \cup {Program(<<Ap("=", <<Name("a"), Name("b"), Ap("link", <<>>)>>),
                  Ap("connect", <<Name("a"), v>>), With1("iadd", Name("a"))>>, Eval(v) + 1) : v \in Simple}
  \cup {Program(<<Ap("=", <<Name("a"), Name("b"), Ap("link", <<>>)>>),
                  Ap("connect", <<Name("a"), v>>), With1("iadd", Name("b"))>>, None) : v \in Simple}

(* Unary numbers, counted by a rule that adds one for each add1.            *)
Node(name, ports) == Ap("define-node", <<Name(name)>> \o Names(ports))
Rule(pattern, body) == Ap("define-rule", <<pattern>> \o body)
RECURSIVE Nat2(_)
Nat2(n) == IF n = 0 THEN Ap("zero", <<>>) ELSE Ap("add1", <<Nat2(n - 1)>>)

Count == <<Node("zero", <<"value!">>), Node("add1", <<"prev", "value!">>),
           Node("count", <<"target!", "acc", "result">>),
           Rule(Ap("count", <<Ap("zero", <<>>), Name("acc"), Name("result")>>),
                <<Ap("connect", <<Name("result"), Name("acc")>>)>>),
           Rule(Ap("count", <<Ap("add1", <<Name("prev")>>), Name("acc"), Name("result")>>),
                <<Ap("connect", <<Ap("count", <<Name("prev"), With1("iadd", Name("acc"))>>), Name("result")>>)>>)>>
Counting == {Program(Count \o <<Ap("count", <<Nat2(n), Lit(k)>>)>>, n + k) : n \in 0 .. 3, k \in {0, 5}}

(* Nets of README's natural numbers: only how they are rewritten matters.   *)
Add == <<Node("zero", <<"value!">>), Node("add1", <<"prev", "value!">>),
         Node("add", <<"target!", "addend", "result">>),
         Rule(Ap("add", <<Ap("zero", <<>>), Name("addend"), Name("result")>>),
              <<Ap("connect", <<Name("addend"), Name("result")>>)>>),
         Rule(Ap("add", <<Ap("add1", <<Name("prev")>>), Name("addend"), Name("result")>>),
              <<Ap("connect", <<Ap("add1", <<Ap("add", <<Name("prev"), Name("addend")>>)>>), Name("result")>>)>>)>>
Adding == {Program(Add \o <<Ap("add", <<Nat2(i), Nat2(j)>>)>>, None) : i \in 0 .. 2, j \in 0 .. 2}
          \cup {Program(Add \o <<Ap("=", <<Name("a"), Name("b"), Ap("link", <<>>)>>),
                                 Ap("connect", <<Name("a"), Nat2(i)>>), Ap("add", <<Name("b"), Nat2(j)>>)>>, None) :
                  i \in 0 .. 1, j \in 0 .. 1}

(* A wire used twice, and two ends joined late: connectx finds occupied     *)
(* wires, ports on both sides, and pairs for which there is no rule.        *)
Sharing == {Program(Count \o <<Ap("=", <<Name("z"), Nat2(n)>>)>> \o uses, None) :
              n \in 0 .. 1,
              uses \in {<<Ap("count", <<Name("z"), Lit(0)>>), Ap("count", <<Name("z"), Lit(5)>>)>>,
                        <<Ap("connect", <<Name("z"), Ap("zero", <<>>)>>), Name("z")>>,
                        <<Ap("=", <<Name("r"), Ap("count", <<Name("z"), Lit(0)>>)>>),
                          Ap("connect", <<Name("z"), Name("r")>>), Name("r")>>}}

(* Functions of two primitives, called alone and one on the other's result: *)
(* pcheck has two blocks, and falls from the first into the second when the *)
(* one input of a primitive has come and the other has not.                 *)
FunctionF(op) == Ap("define", <<Ap("f", <<Name("x")>>), Ap(op, <<Name("x"), Name("x")>>)>>)
FunctionG(op, k) == Ap("define", <<Ap("g", <<Name("x")>>), Ap(op, <<Name("x"), Lit(k)>>)>>)
Functions(f, g, k) == <<FunctionF(f), FunctionG(g, k)>>
FValue(f, n)    == Apply(f, n, n)
GValue(g, k, n) == Apply(g, n, k)
Called(f, g, k, n) ==
  {Program(Functions(f, g, k) \o <<Ap("f", <<Lit(n)>>)>>, FValue(f, n)),
   Program(Functions(f, g, k) \o <<Ap("g", <<Lit(n)>>)>>, GValue(g, k, n)),
   Program(Functions(f, g, k) \o <<Ap("f", <<Ap("g", <<Lit(n)>>)>>)>>, FValue(f, GValue(g, k, n))),
   Program(Functions(f, g, k) \o <<Ap("g", <<Ap("f", <<Lit(n)>>)>>)>>, GValue(g, k, FValue(f, n))),
   Program(Functions(f, g, k) \o <<Ap("iadd", <<Ap("f", <<Lit(n)>>), Ap("g", <<Lit(n)>>)>>)>>,
           FValue(f, n) + GValue(g, k, n))}
TwoPrimitives == UNION {Called(f, g, k, n) : f \in {"imul", "eq?"}, g \in {"iadd", "isub", "imul"},
                                             k \in {1, 2}, n \in {2, 3}}

Define(f, args, body) == Ap("define", <<Ap(f, Names(args)), body>>)
Mixed ==
  LET eq  == Define("f", <<"x">>, Ap("eq?", <<Name("x"), Name("x")>>))
      no  == Define("g", <<"x">>, Ap("not", <<Name("x")>>))
      sum == Define("h", <<"x", "y", "z">>, Ap("iadd", <<Ap("imul", <<Name("x"), Name("y")>>), Name("z")>>))
  IN  {Program(<<eq, no, Ap("g", <<Ap("f", <<v>>)>>)>>, 0) : v \in Simple}
      \cup {Program(<<no, eq, Ap("f", <<Ap("g", <<Lit(1)>>)>>)>>, 1)}
      \cup {Program(<<sum, Ap("h", <<Lit(i), Lit(j), v>>)>>, i * j + v.string) :
               i \in 2 .. 3, j \in 0 .. 2, v \in Simple}

(* A primitive that waits for the result of a count: it has no value when   *)
(* it is applied, and pcheck finds it, and falls through, as the rules run. *)
Waiting == {Program(Count \o <<FunctionF("imul"), Ap("=", <<Name("r"), Ap("count", <<Nat2(n), Lit(k)>>)>>),
                                Ap("f", <<Name("r")>>), Name("r")>>, n + k) : n \in 0 .. 2, k \in {0, 5}}

(* With a function of a third primitive, that is not even called.           *)
ThreePrimitives ==
  {Program(Functions("imul", "iadd", 1)
           \o <<Ap("define", <<Ap("h", <<Name("x")>>), Ap("isub", <<Name("x"), Lit(1)>>)>>)>>
           \o <<Ap("f", <<Lit(n)>>)>>, n * n) : n \in 1 .. 5}

Programs == IF WIDE THEN ThreePrimitives
            ELSE Arithmetic \cup TwoPrimitives \cup Mixed \cup Counting \cup Adding \cup Waiting \cup Sharing

-----------------------------------------------------------------------------
R == INSTANCE Reader WITH TEXTS <- Texts, MAX_TOKEN_LENGTH <- 3, phase <- lexing
I == INSTANCE Imports WITH PROJECTS <- Projects, MAIN <- <<"main">>, MAX_NAME <- 8, phase <- loading
Path == INSTANCE Path
E == INSTANCE WvmcEngine WITH PROGRAMS <- Programs, PRINCIPAL <- {"value!", "target!"},
                              MAX_TYPES <- 16, VAR_SLOTS <- 361, MAX_AGENTS <- 192

readerVars == <<text, cursor, lineno, column, tokens, lexing, reads, open, next>>
importVars == <<files, stack, loaded, merged, here, rest, loading>>
engineVars == <<prog, image, m, at>>
vars == <<kind, readerVars, tree, pair, importVars, engineVars>>

NoReader  == /\ text = <<>> /\ cursor = 0 /\ lineno = 1 /\ column = 1 /\ tokens = <<>>
             /\ lexing = "idle" /\ reads = <<>> /\ open = <<>> /\ next = 0
NoImports == /\ files = <<>> /\ stack = <<>> /\ loaded = {} /\ merged = <<>>
             /\ here = <<>> /\ rest = <<>> /\ loading = "idle"
NoEngine  == prog = <<>> /\ image = <<>> /\ m = <<>> /\ at = 0

Init == /\ kind \in KINDS
        /\ IF kind = "text" THEN R!ReaderInit ELSE NoReader
        /\ IF kind = "tree" THEN tree \in Trees ELSE tree = Name("x")
        /\ IF kind = "path" THEN pair \in Pairs ELSE pair = <<<<>>, <<>>>>
        /\ IF kind = "project" THEN I!Init ELSE NoImports
        /\ IF kind = "program" THEN E!EngineInit ELSE NoEngine

Read    == kind = "text" /\ R!ReaderNext /\ UNCHANGED <<kind, tree, pair, importVars, engineVars>>
Expand  == kind = "project" /\ I!Next /\ UNCHANGED <<kind, readerVars, tree, pair, engineVars>>
Execute == kind = "program" /\ E!EngineNext /\ UNCHANGED <<kind, readerVars, tree, pair, importVars>>

Next == Read \/ Expand \/ Execute

(* The compiler and the machine are programs that run until they end.       *)
Spec == Init /\ [][Next]_vars /\ WF_vars(Read) /\ WF_vars(Expand) /\ WF_vars(Execute)

-----------------------------------------------------------------------------
(* The lexer cuts a text as the grammar says (lexer.c).                     *)
Tokenised == kind = "text" => R!Tokenised

(* What is printed reads as what it was printed from: s-expressions and     *)
(* statements (sexp.c, stmt.c, exp.c).                                      *)
ReadsBack == /\ kind = "text" => R!ReadsBack
             /\ kind = "tree" => ParsesBack(tree)

(* A relative path leads from the one path to the other (path.c).           *)
RelativeResolves == kind = "path" => Path!RelatesBack(pair[1], pair[2])

(* Imports are expanded, every name of a file once (wvmc_main.c).           *)
EachNameOnce == kind = "project" => I!EachNameOnce

(* A program that has a value computes it, and stops (compile_wvm.c).       *)
ComputesValue == <>(kind = "program" /\ prog.value # None
                      => E!Halted /\ E!ReadResult = E!Num(prog.value))

(* No agent is rewritten twice: every pair is queued once (compile_wvm.c).  *)
FiresOnce == kind = "program" => E!FiresOnce

(* A primitive of pcheck that is not ready, or has its result, is skipped:  *)
(* nothing is taken from the stack (compile_wvm.c:203, 1012).               *)
SkipsPrimitive == [][kind = "program" => E!SkipLeavesStack]_m
=============================================================================
