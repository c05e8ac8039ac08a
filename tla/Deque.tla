-------------------------------- MODULE Deque --------------------------------
(***************************************************************************)
(* deque.c with fast_spinlock.h: a list, every call of which is made under *)
(* a spinlock: a relaxed load first, then an exchange, and a sleep when    *)
(* either finds it taken. The list's own functions read and then write.    *)
(***************************************************************************)
EXTENDS Naturals, SequencesExt

CONSTANTS Callers, Values, Null, Indices,
          CALLS          \* the calls a thread makes

VARIABLES list,
          locked,        \* atomic_is_locked
          caller         \* the threads: pc, call, calls left, list read, answer

dequeVars == <<list, locked, caller>>

Ops == ({"push_front", "push_back"} \X Values) \cup ({"get"} \X Indices)
       \cup {<<"pop_front">>, <<"pop_back">>, <<"length">>, <<"is_empty">>}

(* What the list's function leaves and answers. *)
After(op, s) == CASE op[1] = "push_front" -> <<op[2]>> \o s
                  [] op[1] = "push_back"  -> Append(s, op[2])
                  [] op[1] = "pop_front"  -> IF s = <<>> THEN s ELSE Tail(s)
                  [] op[1] = "pop_back"   -> IF s = <<>> THEN s ELSE Front(s)
                  [] OTHER                -> s
Value(op, s) == CASE op[1] = "pop_front" /\ s # <<>> -> <<Head(s)>>
                  [] op[1] = "pop_back" /\ s # <<>>  -> <<Last(s)>>
                  [] op[1] = "length"                -> <<Len(s)>>
                  [] op[1] = "is_empty"              -> <<IF s = <<>> THEN 1 ELSE 0>>
                  [] op[1] = "get" /\ op[2] < Len(s) -> <<s[op[2] + 1]>>
                  [] OTHER                           -> <<Null>>

NoCall == [pc |-> "idle", op |-> <<>>, left |-> CALLS, read |-> <<>>, ans |-> <<>>]
DequeInit == list = <<>> /\ locked = FALSE /\ caller = [t \in Callers |-> NoCall]

CallerAt(t, pc) == caller[t].pc = pc
CallerTo(t, pc) == caller' = [caller EXCEPT ![t].pc = pc]

Call(t) == /\ CallerAt(t, "idle") /\ caller[t].left > 0
           /\ UNCHANGED <<list, locked>>
           /\ \E op \in Ops : caller' = [caller EXCEPT ![t].pc = "load", ![t].op = op,
                                                   ![t].left = @ - 1]

(* A load that finds the lock taken only sleeps and loads again. *)
Load(t) == /\ CallerAt(t, "load") /\ ~locked /\ UNCHANGED <<list, locked>>
           /\ CallerTo(t, "exchange")

(* Mutant: the answer of the exchange is not looked at. *)
ExchangeAnyway(t) == /\ CallerAt(t, "exchange") /\ locked' = TRUE /\ UNCHANGED list
                     /\ CallerTo(t, "read")

Exchange(t) == /\ CallerAt(t, "exchange") /\ locked' = TRUE /\ UNCHANGED list
               /\ CallerTo(t, IF locked THEN "load" ELSE "read")

Read(t)  == /\ CallerAt(t, "read") /\ UNCHANGED <<list, locked>>
            /\ caller' = [caller EXCEPT ![t].pc = "write", ![t].read = list]
Write(t) == /\ CallerAt(t, "write") /\ UNCHANGED locked
            /\ list' = After(caller[t].op, caller[t].read)
            /\ caller' = [caller EXCEPT ![t].pc = "unlock", ![t].read = <<>>,
                                        ![t].ans = Value(caller[t].op, caller[t].read)]

(* Mutant: the lock is kept. *)
ReleaseNot(t) == /\ CallerAt(t, "unlock") /\ UNCHANGED <<list, locked>>
                 /\ caller' = [caller EXCEPT ![t].pc = "idle", ![t].op = <<>>, ![t].ans = <<>>]

Release(t) == /\ CallerAt(t, "unlock") /\ locked' = FALSE /\ UNCHANGED list
              /\ caller' = [caller EXCEPT ![t].pc = "idle", ![t].op = <<>>, ![t].ans = <<>>]

DequeStep(t) == Call(t) \/ Load(t) \/ Exchange(t) \/ Read(t) \/ Write(t) \/ Release(t)

DequeNext == \E t \in Callers : DequeStep(t)

DequeSpec == DequeInit /\ [][DequeNext]_dequeVars

-----------------------------------------------------------------------------
(* Whatever calls meet, each takes effect at once: the lock covers the       *)
(* whole of the list's functions, which by themselves would lose updates.   *)
D == INSTANCE AtomicDeque WITH
       Threads <- Callers, seq <- list,
       at <- [t \in Callers |->
                <<CASE caller[t].pc = "idle" -> "idle" [] caller[t].pc = "unlock" -> "done"
                    [] OTHER -> "called", caller[t].op, caller[t].ans>>]
DequeRefined == D!Spec

CallsReturned == \A t \in Callers : caller[t].pc = "idle" /\ caller[t].left = 0
=============================================================================
