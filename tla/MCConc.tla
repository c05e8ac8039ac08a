------------------------------- MODULE MCConc -------------------------------
(***************************************************************************)
(* The objects threads share, each on its own: which one a behaviour is    *)
(* about is chosen at the start. Every thread does a bounded number of     *)
(* calls, and keeps running while it can. OneOwner and EnoughNeverFails    *)
(* are those of Allocator, DequeRefined is that of Deque, TotalExact and   *)
(* AssertedTotal are those of StatsCounter.                                *)
(***************************************************************************)
EXTENDS Integers, Allocator, Deque, StatsCounter

CONSTANT KINDS           \* which of them: "allocator", "deque", "stats"

UpAndDown == {1, -1}     \* add1 and sub1

VARIABLE kind

allVars == <<kind, vars, dequeVars, statsVars>>

MCInit == /\ kind \in KINDS /\ Init /\ DequeInit /\ StatsInit
          /\ kind # "allocator" => pool = Max(POOLS) /\ shared[1] = 1

MCAllocator(t) == kind = "allocator" /\ Step(t) /\ UNCHANGED <<kind, dequeVars, statsVars>>
MCDeque(t)     == kind = "deque" /\ DequeStep(t) /\ UNCHANGED <<kind, vars, statsVars>>
MCMain         == kind = "stats" /\ MainStep /\ UNCHANGED <<kind, vars, dequeVars>>
MCCount(t)     == kind = "stats" /\ ThreadStep(t) /\ UNCHANGED <<kind, vars, dequeVars>>

MCNext == \/ \E t \in Threads : MCAllocator(t)
          \/ \E t \in Callers : MCDeque(t)
          \/ MCMain \/ \E t \in Ids : MCCount(t)

(* The operating system runs every thread that can run; a mutex that is     *)
(* free is given to one that waits, and no thread waits for ever on a lock  *)
(* because each of the others takes it a bounded number of times.           *)
Fairness == /\ \A t \in Threads : WF_allVars(MCAllocator(t))
            /\ \A t \in Callers : WF_allVars(MCDeque(t))
            /\ WF_allVars(MCMain) /\ \A t \in Ids : WF_allVars(MCCount(t))

MCSpec == MCInit /\ [][MCNext]_allVars /\ Fairness

(* All threads get through: locks are given back, joins return.             *)
Finishes == <>(CASE kind = "allocator" -> Finished
                 [] kind = "deque"     -> CallsReturned
                 [] kind = "stats"     -> AllCounted)
=============================================================================
