----------------------------- MODULE Allocator -----------------------------
(***************************************************************************)
(* allocator.c with mutex.c: threads take values from a stack of their own *)
(* and go to the shared one, behind a mutex, for CACHE values at a time.   *)
(* The client is the thread of test_allocator_thread_safe.c: it allocates  *)
(* a batch, then gives it back.                                            *)
(*                                                                         *)
(* Only one value, 1, is told from the others, which are all 0: what is    *)
(* true of it is true of each. Stacks grow to the right.                   *)
(***************************************************************************)
EXTENDS Naturals, SequencesExt, FiniteSetsExt

CONSTANTS Threads,
          CACHE,         \* cache_size
          MAXBATCH,      \* the largest batch a thread holds
          BATCHES,       \* the sizes of batches
          ROUNDS,        \* batches of a thread
          POOLS          \* the sizes of the pool to start with

AllocatorAssumption == /\ IsFiniteSet(Threads) /\ CACHE \in Nat \ {0}
                       /\ MAXBATCH \in Nat /\ ROUNDS \in Nat
                       /\ BATCHES \subseteq 1 .. MAXBATCH
                       /\ POOLS \subseteq Nat \ {0}
ASSUME Bounds == AllocatorAssumption

VARIABLES pool,          \* how many values there are
          shared,        \* the shared stack
          owner,         \* who holds the mutex, a set of at most one
          th,            \* the threads
          exited         \* allocator_allocate has called exit(1)

vars == <<pool, shared, owner, th, exited>>

(* A thread is at pc; it has its local stack and the values it holds, todo  *)
(* of its batch to allocate, i rounds of a loop under the mutex done, a     *)
(* stack length n it has read, and a value between two stacks.              *)
Idle == [pc |-> "idle", local |-> <<>>, held |-> <<>>, todo |-> 0, i |-> 0,
         n |-> 0, value |-> <<>>, rounds |-> ROUNDS]

Init == /\ pool \in POOLS
        /\ \E k \in 1 .. pool : shared = [j \in 1 .. pool |-> IF j = k THEN 1 ELSE 0]
        /\ owner = {} /\ th = [t \in Threads |-> Idle] /\ exited = FALSE

At(t, pc)   == ~exited /\ th[t].pc = pc
Go(t, r)    == th' = [th EXCEPT ![t] = r]
Same        == UNCHANGED <<shared, owner, exited>>

NextBatch(t) == /\ At(t, "idle") /\ th[t].rounds > 0 /\ Same
                /\ \E b \in BATCHES :
                     Go(t, [th[t] EXCEPT !.pc = "allocate", !.todo = b, !.rounds = @ - 1])

Taken(r) == [r EXCEPT !.pc = "allocate", !.todo = @ - 1,
                      !.held = Append(@, Last(r.local)), !.local = Front(@)]

(* allocator_maybe_allocate, up to the mutex or with no need of it. *)
Allocate(t) ==
  LET r == th[t]
  IN  /\ At(t, "allocate") /\ Same
      /\ Go(t, IF r.todo = 0 THEN [r EXCEPT !.pc = "recycle"]
               ELSE IF r.local = <<>> THEN [r EXCEPT !.pc = "lock_refill"]
               ELSE Taken(r))

(* Mutant: the mutex is not taken. *)
LockNever(t, from, to) == /\ At(t, from) /\ Go(t, [th[t] EXCEPT !.pc = to, !.i = 0])
                          /\ UNCHANGED <<shared, owner, exited>>

Lock(t, from, to) == /\ At(t, from) /\ owner = {} /\ owner' = {t}
                     /\ Go(t, [th[t] EXCEPT !.pc = to, !.i = 0])
                     /\ UNCHANGED <<shared, exited>>

Unlock(t) == owner' = owner \ {t} /\ UNCHANGED <<shared, exited>>

(* Mutant: the loop runs once more. *)
RefillMore(t) ==
  LET r == th[t]
  IN  /\ At(t, "refill")
      /\ IF r.i <= CACHE /\ shared # <<>>
         THEN Go(t, [r EXCEPT !.pc = "take", !.n = Len(shared), !.value = <<Last(shared)>>]) /\ Same
         ELSE Go(t, [r EXCEPT !.pc = "grab"]) /\ Unlock(t)

(* One round of the loop that refills: the top is read, then taken off.     *)
Refill(t) ==
  LET r == th[t]
  IN  /\ At(t, "refill")
      /\ IF r.i < CACHE /\ shared # <<>>
         THEN Go(t, [r EXCEPT !.pc = "take", !.n = Len(shared), !.value = <<Last(shared)>>]) /\ Same
         ELSE Go(t, [r EXCEPT !.pc = "grab"]) /\ Unlock(t)

Take(t) == /\ At(t, "take") /\ shared' = SubSeq(shared, 1, th[t].n - 1)
           /\ Go(t, [th[t] EXCEPT !.pc = "refill", !.i = @ + 1, !.n = 0, !.value = <<>>,
                                  !.local = @ \o th[t].value])
           /\ UNCHANGED <<owner, exited>>

(* Still empty after a refill: "not enough value", and the process exits. *)
Grab(t) == /\ At(t, "grab") /\ UNCHANGED <<shared, owner>>
           /\ IF th[t].local = <<>> THEN exited' = TRUE /\ UNCHANGED th
              ELSE Go(t, Taken(th[t])) /\ UNCHANGED exited

Kept(r) == [r EXCEPT !.pc = "recycle", !.local = @ \o r.value, !.value = <<>>]

Recycle(t) ==
  LET r == [th[t] EXCEPT !.held = Front(@), !.value = <<Last(th[t].held)>>]
  IN  /\ At(t, "recycle") /\ Same
      /\ Go(t, IF th[t].held = <<>> THEN [th[t] EXCEPT !.pc = "idle"]
               ELSE IF Len(r.local) >= 2 * CACHE THEN [r EXCEPT !.pc = "lock_spill"]
               ELSE Kept(r))

(* One round of the loop that spills: the length is read, the value stored. *)
Spill(t) ==
  LET r == th[t]
  IN  /\ At(t, "spill")
      /\ IF r.i < CACHE THEN Go(t, [r EXCEPT !.pc = "give", !.n = Len(shared)]) /\ Same
         ELSE Go(t, Kept(r)) /\ Unlock(t)

Give(t) == /\ At(t, "give") /\ shared' = Append(SubSeq(shared, 1, th[t].n), Last(th[t].local))
           /\ Go(t, [th[t] EXCEPT !.pc = "spill", !.i = @ + 1, !.n = 0, !.local = Front(@)])
           /\ UNCHANGED <<owner, exited>>

Step(t) == /\ \/ NextBatch(t) \/ Allocate(t) \/ Lock(t, "lock_refill", "refill")
              \/ Refill(t) \/ Take(t) \/ Grab(t) \/ Recycle(t)
              \/ Lock(t, "lock_spill", "spill") \/ Spill(t) \/ Give(t)
           /\ UNCHANGED pool

Next == \E t \in Threads : Step(t)

Spec == Init /\ [][Next]_vars

-----------------------------------------------------------------------------
(* The places of the values, each with its stack's owner (the shared stack  *)
(* has none), its stack, its height there and its value. What Take has read *)
(* is still on the shared stack.                                            *)
Places(who, stack, s) == {<<who, stack, j, s[j]>> : j \in DOMAIN s}
Moving(r) == IF r.pc = "take" THEN <<>> ELSE r.value
PlacesOf(t, r) == Places({t}, "local", r.local) \cup Places({t}, "held", r.held)
                    \cup Places({t}, "moving", Moving(r))
AllPlaces == Places({}, "shared", shared) \cup UNION {PlacesOf(t, th[t]) : t \in Threads}

(* Every value is in one place: the shared stack, a local one, a thread's   *)
(* hands, or on its way between two stacks; none is lost and none is there  *)
(* twice, although a stack operation reads first and writes later.          *)
OneOwner == /\ Cardinality(AllPlaces) = pool
            /\ Cardinality({p \in AllPlaces : p[4] = 1}) = 1

(* What a thread keeps from the others is less than its batch and one       *)
(* refill, because it refills only when its own stack is empty: with that   *)
(* much for each of the others and a batch for itself, no allocation fails. *)
Enough == Cardinality(Threads) * (MAXBATCH - 1) + (Cardinality(Threads) - 1) * CACHE + 1
EnoughNeverFails == /\ exited => pool < Enough
                    /\ \A t \in Threads : /\ Len(th[t].local) <= 2 * CACHE
                                          /\ th[t].pc \in {"refill", "take"} => owner = {t}

Finished == exited \/ \A t \in Threads : th[t].pc = "idle" /\ th[t].rounds = 0
=============================================================================
