-------------------------------- MODULE Dict --------------------------------
(***************************************************************************)
(* What a hash_t promises its callers: a dictionary that answers, and an   *)
(* iteration that returns every entry once, also when values are replaced  *)
(* and entries deleted meanwhile. After an entry was added it still only   *)
(* returns entries of the dictionary, but some perhaps twice or not at     *)
(* all; once the entry it would return next is deleted, it must begin      *)
(* anew.                                                                   *)
(***************************************************************************)
EXTENDS Naturals, Sequences, FiniteSets, Functions, TLC

CONSTANTS Keys, Values,
          Null           \* the NULL pointer; it may be a stored value too

VARIABLES dict,          \* the entries, a function of the keys that are present
          walk,          \* how the iteration goes on: "exact", "loose", "freed"
          todo,          \* the keys an exact one has yet to return
          length,        \* the number of entries
          ans            \* the last call's answer

vars == <<dict, walk, todo, length, ans>>

Present == DOMAIN dict
With(k, v) == (k :> v) @@ dict

Init == /\ dict = [k \in {} |-> Null] /\ length = 0
        /\ walk = "loose" /\ todo = {} /\ ans = <<"made">>

Loosen == todo' = {} /\ walk' = IF walk = "freed" THEN walk ELSE "loose"

Add(k, v) == dict' = With(k, v) /\ Loosen

(* set keeps an entry that is there, put replaces its value; set may move   *)
(* the entries even so.                                                     *)
Set(k, v) == \/ ans' = <<"set", TRUE>> /\ k \notin Present /\ Add(k, v)
             \/ /\ ans' = <<"set", FALSE>> /\ k \in Present
                /\ Loosen \/ UNCHANGED <<walk, todo>>
                /\ UNCHANGED dict

Put(k, v) == /\ ans' = <<"put">>
             /\ \/ k \notin Present /\ Add(k, v)
                \/ k \in Present /\ dict' = With(k, v) /\ UNCHANGED <<walk, todo>>

(* The entry deleted may be the one that would be returned next, unless it  *)
(* has been returned.                                                       *)
Delete(k) == /\ ans'[1] = "delete" /\ ans'[2] = (k \in Present)
             /\ dict' = Restrict(dict, Present \ {k})
             /\ \/ walk' = walk /\ todo' = todo \ {k}
                \/ /\ k \in Present /\ (walk = "exact" => k \in todo)
                   /\ walk' = "freed" /\ todo' = {}

Purge == /\ ans' = <<"purge">>
         /\ dict' = [k \in {} |-> Null]
         /\ walk' = "loose" /\ todo' = {}

(* The entry returned is the cursor's key and its value; at the end, NULL. *)
Return(k) == ans' = <<"next", k, dict[k]>>
End       == ans' = <<"next">>

ReturnOf(S) == \/ End /\ S = {} /\ todo' = {}
               \/ \E k \in S : Return(k) /\ todo' = S \ {k}

First == ans'[1] = "next" /\ walk' = "exact" /\ ReturnOf(Present) /\ UNCHANGED dict
More  == /\ ans'[1] = "next" /\ UNCHANGED <<walk, dict>>
         /\ \/ walk = "exact" /\ ReturnOf(todo)
            \/ walk = "loose" /\ (End \/ \E k \in Present : Return(k)) /\ UNCHANGED todo

(* A list of the values, each as often as it is stored, or cut short where  *)
(* NULL is one of them.                                                     *)
ListValues ==
  LET list == ans'[2]
      Listed(v) == Cardinality({i \in 1 .. Len(list) : list[i] = v})
      Stored(v) == Cardinality({k \in Present : dict[k] = v})
  IN  /\ ans'[1] = "list"
      /\ walk' = "loose" /\ todo' = {} /\ UNCHANGED dict
      /\ \A i \in 1 .. Len(list) : list[i] \in Values \ {Null}
      /\ \A v \in Values \ {Null} :
           IF Stored(Null) = 0 THEN Listed(v) = Stored(v) ELSE Listed(v) <= Stored(v)

Next == /\ \/ \E k \in Keys, v \in Values : Set(k, v) \/ Put(k, v)
           \/ \E k \in Keys : Delete(k)
           \/ Purge \/ First \/ More \/ ListValues
        /\ length' = Cardinality(Present')

Spec == Init /\ [][Next]_vars
=============================================================================
