------------------------------- MODULE Reader -------------------------------
(***************************************************************************)
(* inet-c/helpers/sexp/sexp.c on top of the lexer: a text is read, what    *)
(* was read is printed, and the print is read again.                       *)
(***************************************************************************)
EXTENDS Lexer

VARIABLES reads,         \* what each of the two readings gave
          open,          \* the lists that are being read, the outermost first
          next           \* the tokens consumed

lexerVars  == vars
readerVars == <<vars, reads, open, next>>

ReaderInit == Init /\ reads = <<>> /\ open = <<<<>>>> /\ next = 0

Token  == tokens[next + 1]
AtEnd  == next = Len(tokens)
Closes == ~AtEnd => Token.string = <<")">>

(* A finished s-expression goes to the end of the innermost open list.      *)
Add(lists, sexp) == Append(Front(lists), Append(Last(lists), sexp))

(* parse_sexp: what a list starts with is told by the token's string only.  *)
OpenList == /\ ~AtEnd /\ Token.string = <<"(">>
            /\ open' = Append(open, <<>>) /\ next' = next + 1 /\ UNCHANGED <<lexerVars, reads>>
ReadAtom == /\ ~Closes /\ Token.string # <<"(">>
            /\ open' = Add(open, [sexp |-> "atom", kind |-> Token.kind, string |-> Token.string])
            /\ next' = next + 1 /\ UNCHANGED <<lexerVars, reads>>

(* parse_list: a list may end with the text.                                *)
CloseList == /\ Closes /\ Len(open) > 1
             /\ open' = Add(Front(open), [sexp |-> "list", items |-> Last(open)])
             /\ next' = IF AtEnd THEN next ELSE next + 1
             /\ UNCHANGED <<lexerVars, reads>>

(* atom_sexp_print: characters are not escaped again.                       *)
AtomText(a) == IF a.kind = "STRING" THEN <<"\"">> \o a.string \o <<"\"">> ELSE a.string

(* Mutant: elements are printed without a space between them. *)
RECURSIVE SexpTextTight(_)
SexpTextTight(s) ==
  IF s.sexp = "atom" THEN AtomText(s)
  ELSE <<"(">> \o FlattenSeq([i \in DOMAIN s.items |-> SexpTextTight(s.items[i])]) \o <<")">>

(* sexp_print: spaces stand between the elements of a list.                 *)
RECURSIVE SexpText(_)
SexpText(s) ==
  IF s.sexp = "atom" THEN AtomText(s)
  ELSE <<"(">> \o FlattenSeq([i \in DOMAIN s.items |->
                    SexpText(s.items[i]) \o (IF i < Len(s.items) THEN <<" ">> ELSE <<>>)]) \o <<")">>

(* sexp_parse_list: a closing parenthesis too many fails its assertion; the *)
(* first reading is printed and read again.                                 *)
TooMany == /\ ~AtEnd /\ Closes /\ Len(open) = 1 /\ phase' = "abort"
           /\ UNCHANGED <<text, cursor, lineno, column, tokens, reads, open, next>>

SexpParseList ==
  /\ AtEnd /\ Len(open) = 1
  /\ reads' = Append(reads, open[1]) /\ open' = <<<<>>>> /\ next' = 0
  /\ IF reads = <<>>
     THEN /\ text' = FlattenSeq([i \in DOMAIN open[1] |-> SexpText(open[1][i]) \o <<"\n">>])
          /\ cursor' = 0 /\ lineno' = 1 /\ column' = 1 /\ tokens' = <<>> /\ phase' = "lex"
     ELSE UNCHANGED lexerVars

Parse == /\ phase = "done" /\ Len(reads) < 2
         /\ OpenList \/ ReadAtom \/ CloseList \/ TooMany \/ SexpParseList

ReaderNext == (Next /\ UNCHANGED <<reads, open, next>>) \/ Parse

(* The strings that print as what they are: no quote, no backslash in them. *)
RECURSIVE Plain(_)
Plain(s) == IF s.sexp = "list" THEN \A i \in DOMAIN s.items : Plain(s.items[i])
            ELSE s.kind = "STRING" => {"\"", "\\"} \cap Range(s.string) = {}

(* What was printed reads as what was printed from, and reading it does not *)
(* fail.                                                                    *)
ReadsBack == reads # <<>> /\ (\A i \in DOMAIN reads[1] : Plain(reads[1][i]))
               => phase # "abort" /\ (Len(reads) = 2 => reads[2] = reads[1])
=============================================================================
