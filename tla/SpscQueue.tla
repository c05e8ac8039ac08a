----------------------------- MODULE SpscQueue -----------------------------
(***************************************************************************)
(* queue.c: a circular queue for one producer and one consumer thread.     *)
(* Each side owns a cursor, which only it stores, and a private copy of    *)
(* the other side's cursor, which it refreshes only when the copy says     *)
(* that the queue is full (empty). One atomic access, or one access to a   *)
(* slot, is one step.                                                      *)
(*                                                                         *)
(* Cursors are unsigned numbers of WIDTH values (2^64 for size_t) that     *)
(* wrap around. A load of the other side's cursor may return any value     *)
(* that cursor has had since the last one this thread saw: neither relaxed *)
(* nor acquire loads promise the newest one. Slots are plain memory; a     *)
(* release store of a cursor and the acquire load that sees it order the   *)
(* accesses to them.                                                       *)
(***************************************************************************)
EXTENDS Naturals

CONSTANTS SIZE,       \* slots, a power of two above 1
          WIDTH,      \* number of values of a cursor, a larger power of two
          Value,      \* what is pushed; NULL may be among it
          NULL

ASSUME QueueAssumption ==
  /\ SIZE \in Nat /\ SIZE > 1
  /\ WIDTH \in Nat /\ WIDTH > SIZE /\ WIDTH % SIZE = 0

Cursor == 0 .. WIDTH - 1

VARIABLES slot,       \* values
          back, front,                 \* back_cursor, front_cursor
          cachedFront, cachedBack,     \* the private copies
          seenFront, seenBack,         \* newest value a side has loaded
          prod, cons                   \* where each thread is

vars == <<slot, back, front, cachedFront, cachedBack, seenFront, seenBack, prod, cons>>
prodVars == <<back, cachedFront, seenFront, prod>>
consVars == <<front, cachedBack, seenBack, cons>>

(* Unsigned arithmetic and slot addressing. *)
(* Mutants: a cursor does not wrap; one value more than there are slots is  *)
(* let in.                                                                  *)
Plus1Wide(c)     == c + 1
IsFullLate(f, b) == IF f <= b THEN b - f = SIZE + 1 ELSE b + WIDTH - f = SIZE + 1

Plus1(c)    == IF c + 1 = WIDTH THEN 0 ELSE c + 1
Minus(b, f) == IF f <= b THEN b - f ELSE b + WIDTH - f
Index(c)    == c % SIZE

IsFull(f, b)  == Minus(b, f) = SIZE
IsEmpty(f, b) == b = f

(* What a load of a cursor may return when this thread last saw the value   *)
(* old and the cursor is at new.                                            *)
Loads(old, new) == {c \in Cursor : Minus(c, old) <= Minus(new, old)}

(* prod.room: queue_is_full has told the producer that there is room.       *)
(* cons.any: queue_is_empty has told the consumer that there is a value.    *)
(* cons.i, cons.got: the index of a get; the last index and its answer.     *)
Init == /\ slot = [i \in 0 .. SIZE - 1 |-> NULL]
        /\ back = 0 /\ front = 0
        /\ cachedFront = 0 /\ cachedBack = 0 /\ seenFront = 0 /\ seenBack = 0
        /\ prod = [pc |-> "idle", v |-> NULL, room |-> FALSE]
        /\ cons = [pc |-> "idle", v |-> NULL, last |-> NULL, any |-> FALSE,
                   i |-> 0, got |-> <<0, NULL>>]

-----------------------------------------------------------------------------
(* queue_push_back *)

Push(v) ==
  /\ prod.pc = "idle"
  /\ prod' = [prod EXCEPT !.pc = IF IsFull(cachedFront, back) THEN "refresh" ELSE "write",
                          !.v = v]
  /\ UNCHANGED <<slot, back, cachedFront, seenFront, consVars>>

(* Mutant: the second test still reads the old copy. *)
PushRefreshStale ==
  /\ prod.pc = "refresh"
  /\ prod' = [prod EXCEPT !.pc = IF IsFull(cachedFront, back) THEN "idle" ELSE "write"]
  /\ UNCHANGED <<slot, back, cachedFront, seenFront, consVars>>

PushRefresh ==
  /\ prod.pc = "refresh"
  /\ \E f \in Loads(seenFront, front) :
       /\ cachedFront' = f /\ seenFront' = f
       /\ prod' = [prod EXCEPT !.pc = IF IsFull(f, back) THEN "idle" ELSE "write"]
  /\ UNCHANGED <<slot, back, consVars>>

PushWrite ==
  /\ prod.pc = "write"
  /\ slot' = [slot EXCEPT ![Index(back)] = prod.v]
  /\ prod' = [prod EXCEPT !.pc = "publish"]
  /\ UNCHANGED <<back, cachedFront, seenFront, consVars>>

PushPublish ==
  /\ prod.pc = "publish"
  /\ back' = Plus1(back)
  /\ prod' = [prod EXCEPT !.pc = "idle", !.room = FALSE]
  /\ UNCHANGED <<slot, cachedFront, seenFront, consVars>>

(* queue_is_full, called by the producer *)
AskFull ==
  /\ prod.pc = "idle"
  /\ \E f \in Loads(seenFront, front) :
       /\ seenFront' = f
       /\ prod' = [prod EXCEPT !.room = ~IsFull(f, back)]
  /\ UNCHANGED <<slot, back, cachedFront, consVars>>

-----------------------------------------------------------------------------
(* queue_pop_front; queue_purge is a loop of queue_is_empty and this *)

Pop ==
  /\ cons.pc = "idle"
  /\ cons' = [cons EXCEPT !.pc = IF IsEmpty(front, cachedBack) THEN "refresh" ELSE "read"]
  /\ UNCHANGED <<slot, front, cachedBack, seenBack, prodVars>>

PopRefresh ==
  /\ cons.pc = "refresh"
  /\ \E b \in Loads(seenBack, back) :
       /\ cachedBack' = b /\ seenBack' = b
       /\ cons' = [cons EXCEPT !.pc = IF IsEmpty(front, b) THEN "idle" ELSE "read"]
  /\ UNCHANGED <<slot, front, prodVars>>

PopRead ==
  /\ cons.pc = "read"
  /\ cons' = [cons EXCEPT !.pc = "publish", !.v = slot[Index(front)]]
  /\ UNCHANGED <<slot, front, cachedBack, seenBack, prodVars>>

PopPublish ==
  /\ cons.pc = "publish"
  /\ front' = Plus1(front)
  /\ cons' = [cons EXCEPT !.pc = "idle", !.last = cons.v, !.any = FALSE]
  /\ UNCHANGED <<slot, cachedBack, seenBack, prodVars>>

(* queue_is_empty, called by the consumer *)
AskEmpty ==
  /\ cons.pc = "idle"
  /\ \E b \in Loads(seenBack, back) :
       /\ seenBack' = b
       /\ cons' = [cons EXCEPT !.any = ~IsEmpty(front, b)]
  /\ UNCHANGED <<slot, front, cachedBack, prodVars>>

(* queue_get: any index is taken, modulo the size, once the copy does not   *)
(* say empty.                                                               *)
Get(i) ==
  /\ cons.pc = "idle"
  /\ cons' = [cons EXCEPT !.pc = IF IsEmpty(front, cachedBack) THEN "peek" ELSE "get",
                          !.i = i]
  /\ UNCHANGED <<slot, front, cachedBack, seenBack, prodVars>>

GetRefresh ==
  /\ cons.pc = "peek"
  /\ \E b \in Loads(seenBack, back) :
       /\ cachedBack' = b /\ seenBack' = b
       /\ cons' = [cons EXCEPT !.pc = IF IsEmpty(front, b) THEN "idle" ELSE "get"]
  /\ UNCHANGED <<slot, front, prodVars>>

(* How many values the consumer's own copy shows: those whose writes the    *)
(* acquire load has ordered before its reads.                               *)
Known == Minus(cachedBack, front)

(* Mutant: the index is one into the array of slots. *)
GetReadAtIndex ==
  /\ cons.pc = "get"
  /\ cons' = [cons EXCEPT !.pc = "idle",
                          !.got = IF cons.i < Known THEN <<cons.i, slot[cons.i]>> ELSE @]
  /\ UNCHANGED <<slot, front, cachedBack, seenBack, prodVars>>

(* An index that is not below Known reads a slot that the producer may be   *)
(* writing, or has just written: the answer may be anything, and got keeps  *)
(* the last one that means something.                                       *)
GetRead ==
  /\ cons.pc = "get"
  /\ cons' = [cons EXCEPT !.pc = "idle",
                          !.got = IF cons.i < Known
                                  THEN <<cons.i, slot[Index(front + cons.i)]>> ELSE @]
  /\ UNCHANGED <<slot, front, cachedBack, seenBack, prodVars>>

-----------------------------------------------------------------------------
Producer == PushRefresh \/ PushWrite \/ PushPublish \/ \E v \in Value : Push(v)
Consumer == Pop \/ PopRefresh \/ PopRead \/ PopPublish
Getter   == GetRefresh \/ GetRead \/ \E i \in 0 .. SIZE - 1 : Get(i)

Next == Producer \/ Consumer \/ AskFull \/ AskEmpty \/ Getter

Spec == Init /\ [][Next]_vars

(* Both threads run, each in the loop of the tests: a push or a pop that    *)
(* fails is tried again. A get returns, and the consumer pops again and     *)
(* again, whatever it looks at in between. A store becomes visible to the   *)
(* other thread in finite time: a refresh that is repeated sees the newest  *)
(* value some time.                                                         *)
FairSpec == /\ Spec /\ WF_vars(Producer) /\ WF_vars(Consumer)
            /\ WF_vars(GetRefresh \/ GetRead) /\ SF_vars(Pop)
            /\ SF_vars(PushRefresh /\ cachedFront' = front)
            /\ SF_vars(PopRefresh /\ cachedBack' = back)

-----------------------------------------------------------------------------
(* Properties *)

(* Every variable stays in its type, the cursors also when they wrap.       *)
TypeOK ==
  /\ slot \in [0 .. SIZE - 1 -> Value \cup {NULL}]
  /\ back \in Cursor /\ front \in Cursor
  /\ cachedFront \in Cursor /\ cachedBack \in Cursor
  /\ seenFront \in Cursor /\ seenBack \in Cursor
  /\ prod \in [pc: {"idle", "refresh", "write", "publish"},
               v: Value \cup {NULL}, room: BOOLEAN]
  /\ cons \in [pc: {"idle", "refresh", "read", "publish", "peek", "get"},
               v: Value \cup {NULL}, last: Value \cup {NULL}, any: BOOLEAN,
               i: 0 .. SIZE - 1, got: (0 .. SIZE - 1) \X (Value \cup {NULL})]

(* The threads never access one slot at the same time, one of them to       *)
(* write: however stale the copies are, they err on the safe side. For a    *)
(* get this is so as long as its index is below the number of values its    *)
(* own copy shows: queue_get makes no such test.                            *)
RaceFree ==
  prod.pc = "write" =>
    /\ cons.pc = "read" => Index(back) # Index(front)
    /\ cons.pc = "get" /\ cons.i < Known => Index(back) # Index(front + cons.i)

(* An answer of queue_is_full or queue_is_empty can be relied on by the     *)
(* side that asked: a push after "not full" and a pop after "not empty" do  *)
(* not fail, as the tests assert after their waiting loops.                 *)
AnswersKept ==
  [][/\ prod.room /\ prod.pc = "refresh" => prod'.pc # "idle"
     /\ cons.any /\ cons.pc = "refresh" => cons'.pc # "idle"]_vars

(* The queue is a FIFO: the values are those between the cursors, a push    *)
(* takes effect when back is stored and a pop when front is. A get answers  *)
(* the value at its index, when its copy shows that there is one.           *)
Fifo == INSTANCE SpscFifo WITH
          q <- [i \in 1 .. Minus(back, front) |-> slot[(front + i - 1) % SIZE]],
          last <- cons.last, got <- cons.got
FifoRefined == Fifo!Spec

(* The producer is never shut out for good, and neither is the consumer.    *)
Progress == /\ prod.pc = "refresh" ~> prod.pc = "publish"
            /\ cons.pc = "refresh" ~> cons.pc = "publish"
=============================================================================
