------------------------------- MODULE Imports ------------------------------
(***************************************************************************)
(* The import expansion of inet-c/wvmc_main.c: the files a program imports *)
(* are read from an explicit stack, each under the name that the importing *)
(* file's directory and the import's path make, and the statements of all  *)
(* of them are merged. A name is a string of the program: one that climbs, *)
(* "./lib/../a", is another name than "./a". It is opened out of a buffer  *)
(* of 1024 characters; what a name that was cut there may happen to name   *)
(* is left out.                                                            *)
(***************************************************************************)
EXTENDS Integers, SequencesExt

CONSTANTS PROJECTS,      \* functions from the paths of files to their statements
          MAIN,          \* the file that is compiled
          MAX_NAME       \* the parts of a name that fit the buffer

LOCAL P == INSTANCE Path

VARIABLES files, stack, loaded, merged,
          here, rest,    \* the file being read and its statements that are left
          phase

vars == <<files, stack, loaded, merged, here, rest, phase>>

Dir(name) == Front(name)

(* The file an operating system finds under a name. *)
Normal(name) == P!Make(name).segments

Init == /\ files \in PROJECTS
        /\ stack = <<<<".">> \o MAIN>> /\ loaded = {<<".">> \o MAIN}
        /\ merged = <<>> /\ here = <<>> /\ rest = <<>> /\ phase = "load"

Opens(name) == Len(name) <= MAX_NAME /\ Normal(name) \in DOMAIN files

IsImport(st) == "import" \in DOMAIN st

(* The last file that was put on the stack is read first.                   *)
Load ==
  /\ phase = "load" /\ rest = <<>> /\ stack # <<>> /\ UNCHANGED <<files, loaded, merged>>
  /\ stack' = Front(stack) /\ here' = Last(stack)
  /\ IF Opens(here') THEN rest' = files[Normal(here')] /\ UNCHANGED phase
     ELSE phase' = "cannot open" /\ UNCHANGED rest

Merge == /\ rest # <<>> /\ ~IsImport(Head(rest)) /\ rest' = Tail(rest)
         /\ merged' = Append(merged, Head(rest))
         /\ UNCHANGED <<files, stack, loaded, here, phase>>

NameOf(importer, st) == Dir(importer) \o P!PathString(P!Make(st.import))
ImportedName == NameOf(here, Head(rest))

(* Mutant: a file is only marked once it is read. *)
ExpandLate ==
  /\ rest # <<>> /\ IsImport(Head(rest)) /\ rest' = Tail(rest)
  /\ loaded' = loaded \cup {here}
  /\ stack' = IF ImportedName \in loaded THEN stack ELSE Append(stack, ImportedName)
  /\ UNCHANGED <<files, merged, here, phase>>

(* An import that was not loaded under this very name is put on the stack.  *)
Expand ==
  /\ rest # <<>> /\ IsImport(Head(rest)) /\ rest' = Tail(rest)
  /\ loaded' = loaded \cup {ImportedName}
  /\ stack' = IF ImportedName \in loaded THEN stack ELSE Append(stack, ImportedName)
  /\ UNCHANGED <<files, merged, here, phase>>

Done == /\ phase = "load" /\ rest = <<>> /\ stack = <<>> /\ phase' = "done"
        /\ UNCHANGED <<files, stack, loaded, merged, here, rest>>

Next == Load \/ Merge \/ Expand \/ Done

-----------------------------------------------------------------------------
(* The names that MAIN needs: closed under importing, as far as they open.  *)
Imports(name) == {NameOf(name, files[Normal(name)][i]) :
                    i \in {j \in DOMAIN files[Normal(name)] : IsImport(files[Normal(name)][j])}}

RECURSIVE Closure(_)
Closure(names) == LET more == names \cup UNION {Imports(n) : n \in {o \in names : Opens(o)}}
                  IN  IF more = names THEN names ELSE Closure(more)
Needed == Closure({<<".">> \o MAIN})

Own(f)     == SelectSeq(files[f], LAMBDA st : ~IsImport(st))
Climbing   == \E f \in DOMAIN files : \E i \in DOMAIN files[f] :
                IsImport(files[f][i]) /\ ".." \in Range(P!Make(files[f][i].import).segments)
Count(st)  == Len(SelectSeq(merged, LAMBDA other : other = st))

(* Whatever imports what, in circles too, the expansion ends: with every    *)
(* statement of a file as often as the file has names among those needed,   *)
(* which is once in a project in which no import climbs; or with a name     *)
(* that does not open, as in a circle that climbs.                          *)
EachNameOnce ==
  <>(/\ phase # "load"
     /\ LET names == Needed
        IN  IF \A n \in names : Opens(n)
            THEN /\ phase = "done"
                 /\ \A f \in DOMAIN files : \A i \in DOMAIN Own(f) :
                      Count(Own(f)[i]) = Cardinality({n \in names : Normal(n) = f})
                 /\ ~Climbing => IsInjective(merged)
            ELSE phase = "cannot open")
=============================================================================
