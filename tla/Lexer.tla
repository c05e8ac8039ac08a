------------------------------- MODULE Lexer --------------------------------
(***************************************************************************)
(* inet-c/helpers/lexer/lexer.c as sexp_parse_list configures it: comments *)
(* run from ";" to the end of the line, "(" and ")" are delimiters, ints   *)
(* and double-quoted strings are recognised. A text is a sequence of       *)
(* one-character strings; one step is one call of lexer_step.              *)
(***************************************************************************)
EXTENDS Integers, SequencesExt

CONSTANTS TEXTS,         \* the texts that are read
          MAX_TOKEN_LENGTH

VARIABLES text, cursor, lineno, column, tokens,
          phase          \* "lex", then "done"; "abort" once an assertion failed

vars == <<text, cursor, lineno, column, tokens, phase>>

Space      == {" ", "\n"}
Delimiters == {"(", ")"}
Digits     == {"0"}
NUL        == "nul"      \* the character that ends a C string

(* The characters that may follow a backslash, and what they stand for. *)
Escapes == [c \in {"n", "0", "\"", "\\"} |->
              CASE c = "n" -> "\n" [] c = "0" -> NUL [] OTHER -> c]

Init == /\ text \in TEXTS /\ cursor = 0 /\ lineno = 1 /\ column = 1
        /\ tokens = <<>> /\ phase = "lex"

Finished == cursor = Len(text)
Char     == text[cursor + 1]

(* The first position from p on, or the end, where the text leaves S.       *)
RunEnd(p, S) == CHOOSE q \in p .. Len(text) :
                  /\ q = Len(text) \/ text[q + 1] \notin S
                  /\ \A r \in p .. q - 1 : text[r + 1] \in S

(* What strcpy and strlen see of a buffer. *)
CString(buf) == IF Contains(buf, NUL) THEN SubSeq(buf, 1, SelectInSeq(buf, LAMBDA c : c = NUL) - 1)
                ELSE buf

(* forward and step: newlines are counted, columns start again after one.   *)
Advance(to) ==
  LET newlines == {p \in cursor .. to - 1 : text[p + 1] = "\n"} IN
  /\ cursor' = to
  /\ lineno' = lineno + Cardinality(newlines)
  /\ column' = IF newlines = {} THEN column + to - cursor ELSE to - Max(newlines)

Emit(kind, buf, end) ==
  tokens' = Append(tokens, [kind |-> kind, string |-> CString(buf),
                            start |-> end - Len(CString(buf)), end |-> end,
                            lineno |-> lineno', column |-> column'])

IgnoreSpace == /\ Char \in Space
               /\ Advance(RunEnd(cursor, Space)) /\ UNCHANGED <<tokens, phase>>

IgnoreComment ==
  /\ Char = ";" /\ UNCHANGED <<tokens, phase>>
  /\ LET eol == RunEnd(cursor, Range(text) \ {"\n"})
     IN  Advance(IF eol < Len(text) THEN eol + 1 ELSE eol)

CollectDelimiter == /\ Char \in Delimiters
                    /\ Advance(cursor + 1) /\ Emit("DELIMITER", <<Char>>, cursor + 1)
                    /\ UNCHANGED phase

(* Where the string that is open at p ends, and its characters; ok is FALSE *)
(* at the assertions: no closing quote, an unknown escape.                  *)
RECURSIVE StringFrom(_, _)
StringFrom(p, buf) ==
  IF p = Len(text) THEN [ok |-> FALSE, end |-> p, buf |-> buf]
  ELSE LET c == text[p + 1] IN
       CASE c = "\"" -> [ok |-> TRUE, end |-> p, buf |-> buf]
         [] c = "\\" -> IF p + 1 < Len(text) /\ text[p + 2] \in DOMAIN Escapes
                        THEN StringFrom(p + 2, Append(buf, Escapes[text[p + 2]]))
                        ELSE [ok |-> FALSE, end |-> p, buf |-> buf]
         [] OTHER    -> StringFrom(p + 1, Append(buf, c))

Abort == phase' = "abort" /\ UNCHANGED <<cursor, lineno, column, tokens>>

(* The token is made before the closing quote is stepped over. *)
CollectString ==
  /\ Char = "\""
  /\ LET s == StringFrom(cursor + 1, <<>>) IN
     IF s.ok /\ Len(s.buf) <= MAX_TOKEN_LENGTH
     THEN /\ Advance(s.end + 1) /\ UNCHANGED phase
          /\ tokens' = Append(tokens, [kind |-> "STRING", string |-> CString(s.buf),
                        start |-> s.end - Len(CString(s.buf)), end |-> s.end,
                        lineno |-> lineno', column |-> column' - 1])
     ELSE Abort

(* Mutant: a delimiter does not end a token. *)
CollectGenericGreedy ==
  /\ Char \notin Space \cup Delimiters \cup {"\"", ";"}
  /\ LET end == RunEnd(cursor, Range(text) \ Space) IN
     IF end - cursor <= MAX_TOKEN_LENGTH
     THEN /\ Advance(end) /\ Emit("GENERIC", SubSeq(text, cursor + 1, end), end)
          /\ UNCHANGED phase
     ELSE Abort

CollectGeneric ==
  /\ Char \notin Space \cup Delimiters \cup {"\"", ";"}
  /\ LET end == RunEnd(cursor, Range(text) \ (Space \cup Delimiters)) IN
     IF end - cursor <= MAX_TOKEN_LENGTH
     THEN /\ Advance(end) /\ Emit("GENERIC", SubSeq(text, cursor + 1, end), end)
          /\ UNCHANGED phase
     ELSE Abort

LexerStep == IgnoreSpace \/ IgnoreComment \/ CollectDelimiter \/ CollectString \/ CollectGeneric

(* postprocess_int: string_is_xint, without signs and bases. *)
IsXint(s) == s # <<>> /\ Range(s) \subseteq Digits

Postprocess ==
  /\ phase' = "done" /\ UNCHANGED <<cursor, lineno, column>>
  /\ tokens' = [i \in DOMAIN tokens |->
                  IF tokens[i].kind = "GENERIC" /\ IsXint(tokens[i].string)
                  THEN [tokens[i] EXCEPT !.kind = "INT"] ELSE tokens[i]]

Next == /\ phase = "lex" /\ UNCHANGED text
        /\ IF Finished THEN Postprocess ELSE LexerStep

-----------------------------------------------------------------------------
(***************************************************************************)
(* The grammar. A text is a sequence of chunks, each as long as it can be; *)
(* what stands in the text at [from, to) is told by the chunk's first      *)
(* character, and the tokens are the chunks that are not blank.            *)
(***************************************************************************)
Part(from, to) == SubSeq(text, from + 1, to)
Opens(c)       == c \in Delimiters \cup {";", "\""}

(* Quotes that a backslash does not protect, in a string that opens at p.   *)
Protected(p, q) == \* an odd number of backslashes stands before q
  LET first == CHOOSE r \in p + 1 .. q : /\ \A b \in r .. q - 1 : text[b + 1] = "\\"
                                         /\ r = p + 1 \/ text[r] # "\\"
  IN (q - first) % 2 = 1

IsChunk(from, to) ==
  LET c == text[from + 1]  s == Part(from, to) IN
  CASE c \in Space      -> Range(s) \subseteq Space /\ (to < Len(text) => text[to + 1] \notin Space)
    [] c = ";"          -> /\ "\n" \notin Range(Front(s))
                           /\ to = Len(text) \/ Last(s) = "\n"
    [] c \in Delimiters -> to = from + 1
    [] c = "\""         -> /\ to > from + 1 /\ Last(s) = "\"" /\ ~Protected(from, to - 1)
                           /\ \A q \in from + 1 .. to - 2 : text[q + 1] = "\"" => Protected(from, q)
    [] OTHER            -> /\ Range(s) \cap (Space \cup Delimiters) = {}
                           /\ to = Len(text) \/ text[to + 1] \in Space \cup Delimiters

RECURSIVE Chunks(_)
Chunks(from) ==
  IF from = Len(text) THEN <<>>
  ELSE LET to == CHOOSE q \in from + 1 .. Len(text) : IsChunk(from, q)
       IN  <<<<from, to>>>> \o Chunks(to)

(* Where a token is said to be: its last line, and the column after it.     *)
LineAt(p)   == 1 + Cardinality({q \in 0 .. p - 1 : text[q + 1] = "\n"})
ColumnAt(p) == p - Max({-1} \cup {q \in 0 .. p - 1 : text[q + 1] = "\n"})

(* A string without a backslash stands in the text as it is; of one with    *)
(* escapes only its end is where the text has it.                           *)
Denotes(token, chunk) ==
  LET from == chunk[1]  to == chunk[2]  raw == Part(from, to) IN
  IF text[from + 1] = "\""
  THEN /\ token.kind = "STRING" /\ token.end = to - 1
       /\ Len(token.string) <= Len(raw) - 2
       /\ "\\" \notin Range(raw) => token.start = from + 1 /\ token.string = Part(from + 1, to - 1)
       /\ token.lineno = LineAt(to - 1) /\ token.column = ColumnAt(to - 1)
  ELSE /\ token.string = raw /\ token.start = from /\ token.end = to
       /\ token.kind = IF text[from + 1] \in Delimiters THEN "DELIMITER"
                       ELSE IF Range(raw) \subseteq Digits THEN "INT" ELSE "GENERIC"
       /\ token.lineno = LineAt(to) /\ token.column = ColumnAt(to)

(* A text that is read without a failed assertion has been cut as the       *)
(* grammar cuts it: nothing is lost, joined or split, and the tokens are    *)
(* where they say they are.                                                 *)
Tokenised ==
  phase = "done" =>
    LET shown == SelectSeq(Chunks(0), LAMBDA c : text[c[1] + 1] \notin Space \cup {";"})
    IN  /\ Len(tokens) = Len(shown)
        /\ \A i \in DOMAIN tokens : Denotes(tokens[i], shown[i])
=============================================================================
