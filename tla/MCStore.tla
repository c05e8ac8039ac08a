------------------------------ MODULE MCStore ------------------------------
(***************************************************************************)
(* The three containers, each on its own: which one a behaviour uses is    *)
(* chosen at the start. Keys 0 and 35 are in one chain at the first two    *)
(* sizes.                                                                  *)
(***************************************************************************)
EXTENDS Integers, Sequences

VARIABLES kind,
          t, walk, hashAns,          \* the hash table
          l, node, used, listAns,    \* the list
          a, arrayAns                \* the array

Null == 0
Values == {Null, 4}

H == INSTANCE Hash WITH Keys <- {0, 4, 35}, None <- 99, Primes <- <<5, 7, 11>>,
                        WRAP <- 65536, ans <- hashAns
N == INSTANCE List WITH MAXNODES <- 3, ans <- listAns
A == INSTANCE Array WITH Values <- {Null, 1, 2}, SIZE <- 2, MAXSIZE <- 4,
                         Indices <- 0 .. 5, ans <- arrayAns

ASSUME Bounds == H!HashAssumption /\ N!ListAssumption /\ A!ArrayAssumption

hashVars  == <<t, walk, hashAns>>
listVars  == <<l, node, used, listAns>>
arrayVars == <<a, arrayAns>>
vars == <<kind, hashVars, listVars, arrayVars>>

Init == kind \in {"hash", "list", "array"} /\ H!Init /\ N!Init /\ A!Init

HashStep  == kind = "hash" /\ H!Next /\ UNCHANGED <<kind, listVars, arrayVars>>
ListStep  == kind = "list" /\ N!Next /\ UNCHANGED <<kind, hashVars, arrayVars>>
ArrayStep == kind = "array" /\ A!Next /\ UNCHANGED <<kind, hashVars, listVars>>

Next == HashStep \/ ListStep \/ ArrayStep

Spec == Init /\ [][Next]_vars

(* The hash table is a dictionary whose iterations return each entry once:  *)
(* chains, growth, and a used_indexes_size that removals make too small or  *)
(* wrap around, are not seen by its callers.                                *)
HashRefined == H!HashRefined

(* The linked nodes are a sequence with one cursor that never dangles.      *)
ListRefined == N!ListRefined

(* The growing block of cells is a sequence with NULL wherever nothing was  *)
(* stored, also after it shrank and grew again.                             *)
ArrayRefined == A!ArrayRefined
=============================================================================
