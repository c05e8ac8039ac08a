-------------------------------- MODULE Hash --------------------------------
(***************************************************************************)
(* hash.c, and set.c on top of it: buckets of chains, as many as the       *)
(* current prime, with the cursor of an iteration inside the table. Keys   *)
(* are their own hash values (no hash_fn).                                 *)
(*                                                                         *)
(* A table t has prime_index, used_indexes_size and length; entries[i], a  *)
(* chain as the sequence of its entries <<key, value>> from the top; and   *)
(* the cursor: its bucket, the key of the entry that is next in it (the    *)
(* entry's address; None for NULL), the key returned last.                 *)
(***************************************************************************)
EXTENDS Naturals, SequencesExt

CONSTANTS Keys, Values, Null,
          None,          \* no entry
          Primes,        \* hash_primes
          WRAP           \* 2^64, the range of size_t

HashAssumption == /\ Keys \subseteq Nat /\ Null \in Values /\ None \notin Keys
                  /\ \A i \in 1 .. Len(Primes) : Primes[i] \in Nat \ {0}

VARIABLES t,             \* the table
          walk,          \* what the cursor is good for, as in Dict
          ans            \* the last call's answer

vars == <<t, walk, ans>>

Limit(p) == Primes[p + 1]
Buckets(p) == 0 .. Limit(p) - 1

(* make_hash; hash_purge starts again from here, cursor_key aside. *)
Fresh == [prime |-> 0, used |-> 0, length |-> 0, entries |-> [i \in Buckets(0) |-> <<>>],
          at |-> 0, entry |-> None, key |-> None]

KeyIndex(h, k) == k % Limit(h.prime)
Chain(h, k)    == h.entries[KeyIndex(h, k)]
Position(c, k) == SelectInSeq(c, LAMBDA e : e[1] = k)

Has(h, k) == \E e \in ToSet(Chain(h, k)) : e[1] = k
Get(h, k) == LET found == SelectSeq(Chain(h, k), LAMBDA e : e[1] = k)
             IN  IF found = <<>> THEN Null ELSE Head(found)[2]

(* Mutant: the entries stay in the buckets they are in. *)
RehashInPlace(h) ==
  LET p == h.prime + 1
  IN  [h EXCEPT !.prime = p,
         !.entries = [j \in Buckets(p) |-> IF j < Limit(h.prime) THEN h.entries[j] ELSE <<>>]]

(* Every entry, in the order of the old table, goes on top of its new chain. *)
Rehash(h) ==
  LET p   == h.prime + 1
      all == FlattenSeq([i \in 1 .. Limit(h.prime) |-> h.entries[i - 1]])
      new == [j \in Buckets(p) |->
                Reverse(SelectSeq(all, LAMBDA e : e[1] % Limit(p) = j))]
  IN  [h EXCEPT !.prime = p, !.entries = new,
                !.used = Cardinality({j \in Buckets(p) : new[j] # <<>>})]

Overload(h) == \/ h.length >= (Limit(h.prime) * 75) \div 100
               \/ h.used >= (Limit(h.prime) * 50) \div 100

PutIfNotExists(h, k, v) ==
  IF Has(h, k) THEN h
  ELSE [h EXCEPT !.entries[KeyIndex(h, k)] = <<<<k, v>>>> \o @,
                 !.used = IF Chain(h, k) = <<>> THEN (@ + 1) % WRAP ELSE @,
                 !.length = @ + 1]

(* An entry found at the top of its chain counts as the chain's last one:   *)
(* used_indexes_size may fall below the buckets in use, and below zero.     *)
DeleteEntry(h, k) ==
  LET at == Position(Chain(h, k), k)
  IN  [h EXCEPT !.entries[KeyIndex(h, k)] = RemoveAt(@, at),
                !.length = @ - 1,
                !.used = IF at = 1 THEN (@ + WRAP - 1) % WRAP ELSE @]

HashSet(h, k, v) == PutIfNotExists(IF Overload(h) THEN Rehash(h) ELSE h, k, v)

PutValue(h, k, v) ==
  IF Has(h, k) THEN [h EXCEPT !.entries[KeyIndex(h, k)][Position(Chain(h, k), k)][2] = v]
  ELSE HashSet(h, k, v)

(* hash_next: the entry under the cursor, wherever it is linked by now, or  *)
(* the top of the next bucket in use; past the last one the cursor stays.   *)
Scan(h) ==
  LET later == {i \in h.at + 1 .. Limit(h.prime) - 1 : h.entries[i] # <<>>}
      i     == IF h.entry # None THEN h.at
               ELSE IF later = {} THEN Limit(h.prime) - 1 ELSE Min(later)
      c     == IF h.entry # None THEN Chain(h, h.entry) ELSE h.entries[i]
      pos   == IF h.entry # None THEN Position(c, h.entry)
               ELSE IF later = {} THEN 0 ELSE 1
  IN  IF pos = 0 THEN [h EXCEPT !.at = i]
      ELSE [h EXCEPT !.at = i, !.key = c[pos][1],
                     !.entry = IF pos < Len(c) THEN c[pos + 1][1] ELSE None]

Rewind(h) == [h EXCEPT !.at = 0, !.entry = IF h.entries[0] = <<>> THEN None
                                           ELSE h.entries[0][1][1]]

AtEnd(h) == h.entry = None /\ \A i \in h.at + 1 .. Limit(h.prime) - 1 : h.entries[i] = <<>>

(* hash_value_list, set_to_list and set_to_array: iterate until a NULL. *)
RECURSIVE ValuesFrom(_)
ValuesFrom(h) == IF AtEnd(h) \/ Get(Scan(h), Scan(h).key) = Null THEN <<>>
                 ELSE <<Get(Scan(h), Scan(h).key)>> \o ValuesFrom(Scan(h))

RECURSIVE Exhausted(_)
Exhausted(h) == IF AtEnd(h) THEN Scan(h)
                ELSE IF Get(Scan(h), Scan(h).key) = Null THEN Scan(h)
                ELSE Exhausted(Scan(h))

-----------------------------------------------------------------------------
(* The calls. A table at its largest prime is not given another entry that  *)
(* would make it grow: the code's bound is the 60 primes of hash_primes.h.  *)

Room == Overload(t) => t.prime + 1 < Len(Primes)

Init == t = Fresh /\ walk = "loose" /\ ans = <<"made">>

(* An entry more, or a table that grew, may stand behind the cursor or      *)
(* before it.                                                               *)
Loosen == walk' = IF walk = "freed" THEN walk ELSE "loose"

Set(k, v) == /\ Room /\ t' = HashSet(t, k, v) /\ ans' = <<"set", ~Has(t, k)>>
             /\ IF Has(t, k) /\ ~Overload(t) THEN UNCHANGED walk ELSE Loosen
Put(k, v) == /\ Has(t, k) \/ Room
             /\ t' = PutValue(t, k, v) /\ ans' = <<"put">>
             /\ IF Has(t, k) THEN UNCHANGED walk ELSE Loosen

(* set_add and set_put: the value is its own key. *)
SetAdd(v) == Set(v, v)
SetPut(v) == Put(v, v)

Delete(k) == /\ ans' = <<"delete", Has(t, k)>>
             /\ t' = IF Has(t, k) THEN DeleteEntry(t, k) ELSE t
             /\ walk' = IF Has(t, k) /\ t.entry = k THEN "freed" ELSE walk

Purge == /\ t' = [Fresh EXCEPT !.key = t.key] /\ walk' = "loose" /\ ans' = <<"purge">>

Step(h) == /\ t' = Scan(h)
           /\ ans' = IF AtEnd(h) THEN <<"next">> ELSE <<"next", Scan(h).key, Get(h, Scan(h).key)>>

First == Step(Rewind(t)) /\ walk' = "exact"
More  == walk # "freed" /\ Step(t) /\ UNCHANGED walk

ListValues == /\ ans' = <<"list", ValuesFrom(Rewind(t))>> /\ t' = Exhausted(Rewind(t))
              /\ walk' = "loose"

Next == \/ \E k \in Keys, v \in Values : Set(k, v) \/ Put(k, v)
        \/ \E k \in Keys \cap Values : SetAdd(k) \/ SetPut(k)
        \/ \E k \in Keys : Delete(k)
        \/ Purge \/ First \/ More \/ ListValues

Spec == Init /\ [][Next]_vars

-----------------------------------------------------------------------------
(* Whatever the chains, the growth of the table and a used_indexes_size     *)
(* that removals make too small or wrap around, the table is a dictionary   *)
(* with the right length, an iteration returns each entry once, and one     *)
(* that goes on after the table grew returns entries of the table.          *)
Pending ==
  IF walk # "exact" THEN {}
  ELSE {e[1] : e \in UNION {ToSet(t.entries[i]) : i \in t.at + 1 .. Limit(t.prime) - 1}}
       \cup (IF t.entry = None THEN {}
             ELSE {Chain(t, t.entry)[i][1] : i \in
                     Position(Chain(t, t.entry), t.entry) .. Len(Chain(t, t.entry))})

D == INSTANCE Dict WITH
       dict <- [k \in {j \in Keys : Has(t, j)} |-> Get(t, k)],
       todo <- Pending,
       length <- t.length
HashRefined == D!Spec
=============================================================================
