-------------------------------- MODULE Path --------------------------------
(***************************************************************************)
(* inet-c/helpers/path/path.c: a path is a stack of segments, without      *)
(* empty ones and ".", and a mark that it is absolute. A string is the     *)
(* sequence of its parts between the slashes.                              *)
(***************************************************************************)
EXTENDS Integers, SequencesExt

(* path_execute: what one part does to the stack of segments. *)
Execute(stack, part) ==
  CASE part \in {"", "."} -> stack
    [] part = ".."        -> IF stack = <<>> \/ Last(stack) = ".." THEN Append(stack, part)
                             ELSE Front(stack)
    [] OTHER              -> Append(stack, part)

Join(path, parts) == [path EXCEPT !.segments = FoldLeft(Execute, path.segments, parts)]

(* make_path; a string that starts with a slash has an empty first part.    *)
IsAbsolute(parts) == Len(parts) > 1 /\ parts[1] = ""
Make(parts)       == Join([absolute |-> IsAbsolute(parts), segments |-> <<>>], parts)

(* path_update_string *)
PathString(path) == IF ~path.absolute THEN path.segments
                    ELSE <<"">> \o (IF path.segments = <<>> THEN <<"">> ELSE path.segments)

Resolve(path, parts) ==
  IF IsAbsolute(parts) THEN Join([absolute |-> TRUE, segments |-> <<>>], parts)
  ELSE Join(path, parts)

(* find_relative_index: how many segments two paths have in common.         *)
RelativeIndex(from, to) == Len(LongestCommonPrefix({from.segments, to.segments}))

(* Mutant: one segment too many is climbed. *)
RelativeFar(from, to) ==
  LET i == RelativeIndex(from, to) IN
  [absolute |-> FALSE,
   segments |-> [k \in 1 .. Len(from.segments) - i + 1 |-> ".."]
                \o SubSeq(to.segments, i + 1, Len(to.segments))]

Relative(from, to) ==
  LET i == RelativeIndex(from, to) IN
  [absolute |-> FALSE,
   segments |-> [k \in 1 .. Len(from.segments) - i |-> ".."]
                \o SubSeq(to.segments, i + 1, Len(to.segments))]

(* Following the relative path from the one leads to the other, as long as  *)
(* the climb does not pass a "..", which has no inverse.                    *)
RelatesBack(a, b) ==
  LET from == Make(a)  to == Make(b)
      below == SubSeq(from.segments, RelativeIndex(from, to) + 1, Len(from.segments))
  IN  from.absolute = to.absolute /\ ".." \notin Range(below)
        => /\ Resolve(from, PathString(Relative(from, to))) = to
           /\ Make(PathString(to)) = to
=============================================================================
