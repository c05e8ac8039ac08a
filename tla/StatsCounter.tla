---------------------------- MODULE StatsCounter ----------------------------
(***************************************************************************)
(* thread.c, thread_pool.c and stats_counter.c, as test_stats_counter.c    *)
(* puts them together: the pool starts threads that count, each on the     *)
(* counter of its id; the main thread reads the total, joins, and reads it *)
(* again. A counter is loaded and stored, both relaxed and each atomic.    *)
(***************************************************************************)
EXTENDS Integers

CONSTANTS COUNTERS,      \* threads, and counters
          REPS,          \* how often a thread counts
          DELTAS,        \* add1 and sub1: a subset of {1, -1}
          WRAP           \* 2^64, the range of size_t

StatsAssumption == COUNTERS \in Nat \ {0} /\ REPS \in Nat /\ DELTAS \subseteq {1, -1}
                   /\ WRAP \in Nat /\ COUNTERS * REPS < WRAP \div 2

ASSUME StatsBounds == StatsAssumption

VARIABLES main,          \* where the main thread is, and its loop index
          id,            \* thread->id, zero from calloc until it is stored
          counter,       \* the atomic counters
          statsTh,       \* the threads
          total,         \* the sum a call of stats_counter_total has so far
          misread        \* a thread has used its id before it was stored

statsVars == <<main, id, counter, statsTh, total, misread>>

Ids == 0 .. COUNTERS - 1

StatsInit ==
  /\ main = [pc |-> "start", i |-> 0] /\ id = [t \in Ids |-> 0]
  /\ counter = [t \in Ids |-> 0] /\ total = 0 /\ misread = FALSE
  /\ statsTh = [t \in Ids |-> [pc |-> "none", done |-> 0, me |-> 0, count |-> 0, net |-> 0]]

Main(pc, i) == main' = [pc |-> pc, i |-> i]
Is(pc)      == main.pc = pc

(* thread_start: a thread that is created may run before its creator goes on. *)
Start == /\ Is("start") /\ UNCHANGED <<id, counter, misread>>
         /\ IF main.i < COUNTERS
            THEN /\ statsTh' = [statsTh EXCEPT ![main.i].pc = "id"] /\ Main("storing", main.i)
                 /\ UNCHANGED total
            ELSE Main("total", 0) /\ total' = 0 /\ UNCHANGED statsTh

StoreId == /\ Is("storing") /\ id' = [id EXCEPT ![main.i] = main.i]
           /\ Main("start", main.i + 1) /\ UNCHANGED <<counter, statsTh, total, misread>>

(* Mutant: the last counter is left out. *)
SumShort(next) ==
  /\ UNCHANGED <<id, counter, statsTh, misread>>
  /\ IF main.i < COUNTERS - 1
     THEN total' = (total + counter[main.i]) % WRAP /\ Main(main.pc, main.i + 1)
     ELSE Main(next, 0) /\ UNCHANGED total

Sum(next) ==
  /\ UNCHANGED <<id, counter, statsTh, misread>>
  /\ IF main.i < COUNTERS
     THEN total' = (total + counter[main.i]) % WRAP /\ Main(main.pc, main.i + 1)
     ELSE Main(next, 0) /\ UNCHANGED total

EarlyTotal == Is("total") /\ Sum("join")
FinalTotal == Is("final") /\ Sum("done")

(* thread_pool_join_all. *)
Join == /\ Is("join") /\ UNCHANGED <<id, counter, statsTh, misread>>
        /\ IF main.i < COUNTERS
           THEN statsTh[main.i].pc = "exit" /\ Main("join", main.i + 1) /\ UNCHANGED total
           ELSE Main("final", 0) /\ total' = 0

MainStep == Start \/ StoreId \/ EarlyTotal \/ Join \/ FinalTotal

-----------------------------------------------------------------------------
CountAt(t, pc) == statsTh[t].pc = pc

(* The thread's loop reads its id again every time. *)
ReadId(t) ==
  /\ CountAt(t, "id") /\ UNCHANGED <<main, id, counter, total>>
  /\ IF statsTh[t].done < REPS
     THEN /\ statsTh' = [statsTh EXCEPT ![t].pc = "load", ![t].me = id[t]]
          /\ misread' = (misread \/ id[t] # t)
     ELSE statsTh' = [statsTh EXCEPT ![t].pc = "exit"] /\ UNCHANGED misread

LoadCount(t) ==
  /\ CountAt(t, "load") /\ UNCHANGED <<main, id, counter, total, misread>>
  /\ statsTh' = [statsTh EXCEPT ![t].pc = "store", ![t].count = counter[statsTh[t].me]]

(* per_thread_add1 and per_thread_sub1; net is what the thread has counted. *)
StoreCount(t) ==
  /\ CountAt(t, "store") /\ UNCHANGED <<main, id, total, misread>>
  /\ \E d \in DELTAS :
       /\ counter' = [counter EXCEPT ![statsTh[t].me] = statsTh[t].count + d]
       /\ statsTh' = [statsTh EXCEPT ![t].pc = "id", ![t].done = @ + 1, ![t].count = 0,
                                      ![t].me = 0, ![t].net = @ + d]

ThreadStep(t) == ReadId(t) \/ LoadCount(t) \/ StoreCount(t)

StatsNext == MainStep \/ \E t \in Ids : ThreadStep(t)

StatsSpec == StatsInit /\ [][StatsNext]_statsVars

-----------------------------------------------------------------------------
(* The answer, an int64_t again. *)
Answer == IF total < WRAP \div 2 THEN total ELSE total - WRAP
Nets   == [t \in Ids |-> statsTh[t].net]
UpTo(f) == LET sum[n \in 0 .. COUNTERS] == IF n = 0 THEN 0 ELSE sum[n - 1] + f[n - 1]
           IN  sum
Net    == UpTo(Nets)[COUNTERS]

(* When all threads saw their own ids, none of what they counted is lost,   *)
(* also below zero, although nothing but the ids keeps them apart.          *)
TotalExact == Is("done") /\ ~misread => Answer = Net

(* The assertion of test_stats_counter.c on its final total.                *)
AssertedTotal == Is("done") => Answer = Net

AllCounted == Is("done")
=============================================================================
