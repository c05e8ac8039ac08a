------------------------------- MODULE Parser -------------------------------
(***************************************************************************)
(* inet-c/lang: s-expressions to statements and expressions (parse_stmt.c, *)
(* parse_exp.c), and the printers (stmt.c, exp.c), whose output is given   *)
(* as the s-expressions it reads as. An s-expression on which the parser   *)
(* would fail an assertion or follow NULL is not Ok.                       *)
(*                                                                         *)
(* An int is a number of INT_BITS bits. Of a float only two things matter: *)
(* whether the lowest bits of its mantissa are clear, and whether %.17g    *)
(* writes it plainly, or as an exponent behind digits without a point.     *)
(***************************************************************************)
EXTENDS Integers, SequencesExt

CONSTANT INT_BITS    \* 64

LOCAL P == INSTANCE Path

Atom(kind, string) == [sexp |-> "atom", kind |-> kind, string |-> string]
List(items)        == [sexp |-> "list", items |-> items]
Name(string)       == Atom("GENERIC", string)

IsAtom(s) == s.sexp = "atom"
IsList(s) == s.sexp = "list"
Is(s, string) == IsAtom(s) /\ s.kind \in {"GENERIC", "STRING"} /\ s.string = string

(* sexp_starts_with *)
StartsWith(s, string) == IsList(s) /\ s.items # <<>> /\ Is(s.items[1], string)

After(s, n)   == SubSeq(s.items, n + 1, Len(s.items))
Strings(seq)  == [i \in DOMAIN seq |-> seq[i].string]
AllAtoms(seq) == \A i \in DOMAIN seq : IsAtom(seq[i])
Mapped(seq, f(_)) == [i \in DOMAIN seq |-> f(seq[i])]

IsAssign(s) == StartsWith(s, "=") \/ StartsWith(s, "assign")

RECURSIVE ExpOk(_)
ExpOk(s) ==
  IF IsAssign(s) THEN Len(s.items) > 1 /\ AllAtoms(Front(s.items)) /\ ExpOk(Last(s.items))
  ELSE IF IsAtom(s) THEN TRUE
  ELSE s.items # <<>> /\ \A i \in DOMAIN s.items : ExpOk(s.items[i])

RECURSIVE ParseExp(_)
ParseExp(s) ==
  IF IsAssign(s)
  THEN [kind |-> "assign", names |-> Strings(Front(Tail(s.items))), exp |-> ParseExp(Last(s.items))]
  ELSE IF IsAtom(s)
  THEN CASE s.kind = "INT"   -> [kind |-> "int", value |-> s.string]
         [] s.kind = "FLOAT" -> [kind |-> "float", value |-> s.string]
         [] OTHER            -> [kind |-> "var", name |-> s.string]
  ELSE [kind |-> "ap", target |-> ParseExp(s.items[1]), args |-> Mapped(After(s, 1), ParseExp)]

ExpsOk(seq) == \A i \in DOMAIN seq : ExpOk(seq[i])

StmtOk(s) ==
  CASE StartsWith(s, "define-node")  -> Len(s.items) > 1 /\ AllAtoms(s.items)
    [] StartsWith(s, "define-rule")  -> Len(s.items) > 1 /\ ExpsOk(After(s, 1))
    [] StartsWith(s, "define-rule*") -> /\ Len(s.items) > 1 /\ IsList(s.items[2])
                                        /\ ExpsOk(s.items[2].items) /\ ExpsOk(After(s, 2))
    [] StartsWith(s, "define") ->
         /\ Len(s.items) > 1
         /\ IF IsAtom(s.items[2]) THEN Len(s.items) = 3 /\ ExpOk(s.items[3])
            ELSE /\ s.items[2].items # <<>> /\ AllAtoms(s.items[2].items)
                 /\ ExpsOk(After(s, 2))
    [] StartsWith(s, "import")       -> Len(s.items) > 1 /\ AllAtoms(s.items)
    [] OTHER                         -> ExpOk(s)

(* make_path cuts the string of an import's last atom, whatever its kind. A *)
(* string in quotes is the sequence of its parts here; another atom has one. *)
PathParts(a) == CASE a.kind = "STRING"  -> a.string
                  [] a.kind = "GENERIC" -> <<a.string>>
                  [] OTHER              -> <<ToString(a.string)>>

ParseStmt(s) ==
  CASE StartsWith(s, "define-node") ->
         [stmt |-> "define-node", name |-> s.items[2].string, ports |-> Strings(After(s, 2))]
    [] StartsWith(s, "define-rule") ->
         [stmt |-> "define-rule", pattern |-> ParseExp(s.items[2]), body |-> Mapped(After(s, 2), ParseExp)]
    [] StartsWith(s, "define-rule*") ->
         [stmt |-> "define-rule*", patterns |-> Mapped(s.items[2].items, ParseExp),
          body |-> Mapped(After(s, 2), ParseExp)]
    [] StartsWith(s, "define") ->
         IF IsAtom(s.items[2])
         THEN [stmt |-> "define", name |-> s.items[2].string, exp |-> ParseExp(s.items[3])]
         ELSE [stmt |-> "define-function", name |-> s.items[2].items[1].string,
               args |-> Strings(After(s.items[2], 1)), body |-> Mapped(After(s, 2), ParseExp)]
    [] StartsWith(s, "import") ->
         [stmt |-> "import", names |-> Strings(Front(Tail(s.items))),
          path |-> P!Make(PathParts(Last(s.items)))]
    [] OTHER -> [stmt |-> "run", exp |-> ParseExp(s)]

-----------------------------------------------------------------------------
Names(strings) == Mapped(strings, Name)
Flat(seq, f(_)) == FlattenSeq(Mapped(seq, f))

(* Numbers are printed through values. xint drops the three highest bits.   *)
XInt(n) == LET r == n % 2 ^ (INT_BITS - 3)
           IN  Atom("INT", IF r < 2 ^ (INT_BITS - 4) THEN r ELSE r - 2 ^ (INT_BITS - 3))

(* xfloat clears the three lowest bits, and ".0" goes behind a print that   *)
(* has no point: 1e+30.0 is no number, and is read as a name.               *)
XFloat(f) == IF f.plain THEN Atom("FLOAT", [f EXCEPT !.clear = TRUE]) ELSE Name("1e+30.0")

(* exp_print, into stdout or another file: floats always go to stdout, and  *)
(* of an assignment only the names are printed.                             *)
RECURSIVE ExpSexps(_, _)
ExpSexps(e, file) ==
  CASE e.kind = "var"    -> <<Name(e.name)>>
    [] e.kind = "int"    -> <<XInt(e.value)>>
    [] e.kind = "float"  -> IF file = "stdout" THEN <<XFloat(e.value)>> ELSE <<>>
    [] e.kind = "ap"     -> <<List(ExpSexps(e.target, file)
                                   \o Flat(e.args, LAMBDA a : ExpSexps(a, file)))>>
    [] e.kind = "assign" -> <<List(<<Name("=")>> \o Names(e.names))>>

(* stmt_print *)
StmtSexps(st, file) ==
  LET Exp(e)  == ExpSexps(e, file)
      Exps(s) == Flat(s, Exp)
  IN
  CASE st.stmt = "define-node"     -> <<List(<<Name(st.stmt), Name(st.name)>> \o Names(st.ports))>>
    [] st.stmt = "define-rule"     -> <<List(<<Name(st.stmt)>> \o Exp(st.pattern) \o Exps(st.body))>>
    [] st.stmt = "define-rule*"    -> <<List(<<Name(st.stmt), List(Exps(st.patterns))>> \o Exps(st.body))>>
    [] st.stmt = "define"          -> <<List(<<Name(st.stmt), Name(st.name)>> \o Exp(st.exp))>>
    [] st.stmt = "define-function" -> <<List(<<Name("define"), List(<<Name(st.name)>> \o Names(st.args))>>
                                             \o Exps(st.body))>>
    [] st.stmt = "import"          -> <<List(<<Name(st.stmt)>> \o Names(st.names)
                                             \o <<Atom("STRING", P!PathString(st.path))>>)>>
    [] st.stmt = "run"             -> Exp(st.exp)

-----------------------------------------------------------------------------
RECURSIVE HasAssign(_)
HasAssign(s) == IsAssign(s) \/ (IsList(s) /\ \E i \in DOMAIN s.items : HasAssign(s.items[i]))

(* The expressions of a statement. *)
ExpsOf(st) ==
  CASE st.stmt = "define-rule"     -> <<st.pattern>> \o st.body
    [] st.stmt = "define-rule*"    -> st.patterns \o st.body
    [] st.stmt = "define-function" -> st.body
    [] st.stmt \in {"define", "run"} -> <<st.exp>>
    [] OTHER                       -> <<>>

(* The numbers that survive: ints of 61 bits, and on stdout the floats that *)
(* have 49 bits of mantissa and are printed plainly.                        *)
RECURSIVE Survives(_, _)
Survives(e, file) ==
  CASE e.kind = "int"   -> -(2 ^ (INT_BITS - 4)) <= e.value /\ e.value < 2 ^ (INT_BITS - 4)
    [] e.kind = "float" -> file = "stdout" /\ e.value.clear /\ e.value.plain
    [] e.kind = "ap"    -> /\ Survives(e.target, file)
                           /\ \A i \in DOMAIN e.args : Survives(e.args[i], file)
    [] OTHER            -> TRUE

Reread(st, file) == LET printed == StmtSexps(st, file)
                    IN  IF \A i \in DOMAIN printed : StmtOk(printed[i])
                        THEN Mapped(printed, ParseStmt) ELSE <<>>

(* A statement without assignments is printed so that it reads as itself,   *)
(* if and only if each of its numbers survives.                             *)
ParsesBack(s) ==
  StmtOk(s) /\ ~HasAssign(s) =>
    \A file \in {"stdout", "other"} :
      Reread(ParseStmt(s), file) = <<ParseStmt(s)>>
        <=> \A i \in DOMAIN ExpsOf(ParseStmt(s)) : Survives(ExpsOf(ParseStmt(s))[i], file)
=============================================================================
