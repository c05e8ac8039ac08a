------------------------------- MODULE InetPar -------------------------------
(***************************************************************************)
(* inet-par.asm on several warmvms and the host of par-run.c that drives   *)
(* them. VM 0 builds one addition tree after another as a serialized       *)
(* bundle in its export buffer and halts; the host copies each bundle to   *)
(* the VM that is to reduce it. Then one thread per VM runs: VM 0 builds a *)
(* tree of its own in its agent area, the others import their bundle, and  *)
(* all reduce. The VMs share no memory.                                    *)
(*                                                                         *)
(* build_tree calls itself; its frames are on the VM's stacks and its      *)
(* results in one slot per depth. A frame is <<d, at>>, at telling which   *)
(* of the two recursive calls the frame waits for.                         *)
(***************************************************************************)
EXTENDS InetHeap, Sequences, FiniteSets

CONSTANTS DEPTHS,    \* the depths (DEPTHG) the VMs may be given: DEPTH[v] for VM v
          XMAX,      \* records the export buffer has room for
          PAIRMAX    \* entries of its pair table (64 in the code)

VM == DOMAIN (CHOOSE d \in DEPTHS : TRUE)

ASSUME ParAssumption ==
  /\ Cardinality(VM) \in Nat \ {0} /\ VM = 0 .. Cardinality(VM) - 1
  /\ DEPTHS \subseteq [VM -> Nat \ {0}]
  /\ XMAX \in Nat /\ PAIRMAX \in Nat \ {0}

LastVM == Cardinality(VM) - 1
Slots  == UNION {0 .. d[v] : d \in DEPTHS, v \in VM}

(* Leaves of a tree of depth d, and the blocks it takes with its end.       *)
Leaves[d \in Nat] == IF d = 0 THEN 1 ELSE 2 * Leaves[d - 1]
TreeSize(d) == 3 * Leaves[d]

(* The export buffer is laid out for the trees that are exported: there is  *)
(* a record for each agent and an entry for each add.                       *)
ASSUME BufferAssumption ==
  \A d \in DEPTHS : \A v \in VM \ {0} :
    TreeSize(d[v]) <= XMAX /\ Leaves[d[v]] <= PAIRMAX + 1

RecIdx == 1 .. XMAX
XPort  == RecIdx \X (0 .. 2)

VARIABLES DEPTH,     \* the depth each VM is given; no step changes it
          heap,      \* heap[v]: agents, ring and counters of VM v
          ctl,       \* ctl[v]: where VM v's program is
          xbuf,      \* xbuf[v]: the bundle buffer of VM v
          host       \* where the host is

vars == <<DEPTH, heap, ctl, xbuf, host>>

Bundle == [cnt: Nat, n: Nat, pn: Nat, pair: [0 .. PAIRMAX - 1 -> 0 .. XMAX],
           type: [RecIdx -> 0 .. 4], port: [XPort -> XPort \cup {None}]]

EmptyBundle == [cnt |-> 0, n |-> 0, pn |-> 0, pair |-> [i \in 0 .. PAIRMAX - 1 |-> 0],
                type |-> [i \in RecIdx |-> 0], port |-> [p \in XPort |-> None]]

Idle == [pc |-> "idle", stack |-> <<>>, ret |-> 0, i |-> 0, leaked |-> 0,
         slot |-> [d \in Slots |-> [l |-> 0, r |-> 0]],
         map |-> [i \in RecIdx |-> 0]]

Init == /\ DEPTH \in DEPTHS
        /\ heap = [v \in VM |-> ZeroHeap]
        /\ ctl = [v \in VM |-> Idle]
        /\ xbuf = [v \in VM |-> EmptyBundle]
        /\ host = [pc |-> "export", i |-> 1]

-----------------------------------------------------------------------------
(* Recursion of build_tree and build_tree_x. *)

Frame(v)   == ctl[v].stack[Len(ctl[v].stack)]
At(v, at)  == ctl[v].stack # <<>> /\ Frame(v)[2] = at
IsLeaf(v)  == At(v, "call") /\ Frame(v)[1] = 0
Popped(c)  == SubSeq(c.stack, 1, Len(c.stack) - 1)
Return(c, a) == [c EXCEPT !.stack = Popped(c), !.ret = a]
Called(c, d) == [c EXCEPT !.stack = Append(@, <<d, "call">>)]
Waiting(c, at) == [c EXCEPT !.stack[Len(c.stack)][2] = at]
Halted(c)  == [c EXCEPT !.pc = "halted"]

(* The two calls for the subtrees of a frame of depth d > 0. *)
CallLeft(v) ==
  /\ ctl[v].pc \in {"export", "build"} /\ At(v, "call") /\ Frame(v)[1] > 0
  /\ ctl' = [ctl EXCEPT ![v] = Called(Waiting(@, "left"), Frame(v)[1] - 1)]
  /\ UNCHANGED <<heap, xbuf, host>>

CallRight(v) ==
  /\ ctl[v].pc \in {"export", "build"} /\ At(v, "left")
  /\ LET d == Frame(v)[1]
     IN  ctl' = [ctl EXCEPT ![v] =
                   Called(Waiting([@ EXCEPT !.slot[d].l = ctl[v].ret], "right"), d - 1)]
  /\ UNCHANGED <<heap, xbuf, host>>

-----------------------------------------------------------------------------
(* build_tree: the tree in the agent area. A newag that finds the list      *)
(* empty halts the VM with what was built so far.                           *)

(* child_iface: the port that carries a subtree's value. *)
Iface(h, a) == IF h.word[a] = Add1 THEN <<a, 0>> ELSE <<a, 2>>

BuildLeaf(v) ==
  LET h  == heap[v]
      z  == h.free
      h1 == NewAg(h, Zero)
      a  == h1.free
      h2 == NewAg(h1, Add1)
  IN  /\ ctl[v].pc = "build" /\ IsLeaf(v) /\ z # 0 /\ a # 0
      /\ heap' = [heap EXCEPT ![v] = Connect(h2, <<z, 0>>, <<a, 1>>)]
      /\ ctl' = [ctl EXCEPT ![v] = Return(@, a)]
      /\ UNCHANGED <<xbuf, host>>

(* Both subtrees are there: the add over them, also an entry of the ring. *)
BuildNode(v) ==
  LET h   == heap[v]
      d   == Frame(v)[1]
      l   == ctl[v].slot[d].l
      r   == ctl[v].ret
      add == h.free
      h1  == NewAg(h, Add)
  IN  /\ ctl[v].pc = "build" /\ At(v, "right") /\ add # 0
      /\ heap' = [heap EXCEPT ![v] =
                    Enq(Connect(Connect(h1, <<add, 0>>, Iface(h1, l)),
                                <<add, 1>>, Iface(h1, r)), add)]
      /\ ctl' = [ctl EXCEPT ![v] = Return([@ EXCEPT !.slot[d].r = r], add)]
      /\ UNCHANGED <<xbuf, host>>

(* The end of reduce_entry before the driver: the root enters the ring once *)
(* more.                                                                    *)
BuildRoot(v) ==
  LET h    == heap[v]
      root == ctl[v].ret
      end  == h.free
  IN  /\ ctl[v].pc = "build" /\ ctl[v].stack = <<>> /\ end # 0
      /\ heap' = [heap EXCEPT ![v] =
                    Enq(Connect(NewAg(h, End), <<root, 2>>, <<end, 0>>), root)]
      /\ ctl' = [ctl EXCEPT ![v].pc = "driver"]
      /\ UNCHANGED <<xbuf, host>>

BuildOom(v) ==
  LET h  == heap[v]
      h1 == IF IsLeaf(v) /\ h.free # 0 THEN NewAg(h, Zero) ELSE h
  IN  /\ ctl[v].pc = "build"
      /\ IsLeaf(v) \/ At(v, "right") \/ ctl[v].stack = <<>>
      /\ h1.free = 0
      /\ heap' = [heap EXCEPT ![v] = Oom(h1)]
      /\ ctl' = [ctl EXCEPT ![v] = Halted(@)]
      /\ UNCHANGED <<xbuf, host>>

-----------------------------------------------------------------------------
(* build_tree_x: the same tree as records of the export buffer. *)

XAlloc(x, t) == [x EXCEPT !.cnt = @ + 1, !.type[x.cnt + 1] = t]
ConnectX(x, p, q) == [x EXCEPT !.port[p] = q, !.port[q] = p]
IfaceX(x, a) == IF x.type[a] = Add1 THEN <<a, 0>> ELSE <<a, 2>>

ExportLeaf(v) ==
  LET x == xbuf[v]
      z == x.cnt + 1
      a == x.cnt + 2
  IN  /\ ctl[v].pc = "export" /\ IsLeaf(v)
      /\ xbuf' = [xbuf EXCEPT ![v] =
                    ConnectX(XAlloc(XAlloc(x, Zero), Add1), <<z, 0>>, <<a, 1>>)]
      /\ ctl' = [ctl EXCEPT ![v] = Return(@, a)]
      /\ UNCHANGED <<heap, host>>

ExportNode(v) ==
  LET d   == Frame(v)[1]
      l   == ctl[v].slot[d].l
      r   == ctl[v].ret
      add == xbuf[v].cnt + 1
      x1  == XAlloc(xbuf[v], Add)
      x2  == ConnectX(ConnectX(x1, <<add, 0>>, IfaceX(x1, l)),
                      <<add, 1>>, IfaceX(x1, r))
  IN  /\ ctl[v].pc = "export" /\ At(v, "right")
      /\ xbuf' = [xbuf EXCEPT ![v] =
                    [x2 EXCEPT !.pair[x2.pn] = add, !.pn = @ + 1]]
      /\ ctl' = [ctl EXCEPT ![v] = Return([@ EXCEPT !.slot[d].r = r], add)]
      /\ UNCHANGED <<heap, host>>

(* The root gets its end, the header its record count; ERR = 1 says the     *)
(* bundle is ready.                                                         *)
ExportDone(v) ==
  LET x   == xbuf[v]
      end == x.cnt + 1
      x1  == ConnectX(XAlloc(x, End), <<ctl[v].ret, 2>>, <<end, 0>>)
  IN  /\ ctl[v].pc = "export" /\ ctl[v].stack = <<>>
      /\ xbuf' = [xbuf EXCEPT ![v] = [x1 EXCEPT !.n = x1.cnt]]
      /\ heap' = [heap EXCEPT ![v].err = 1]
      /\ ctl' = [ctl EXCEPT ![v] = Halted(@)]
      /\ UNCHANGED host

-----------------------------------------------------------------------------
(* import_entry: records to agents, then ports, then the pairs of the ring. *)

(* Pass 1: one agent per record; MAP holds its address.                     *)
ImportAlloc(v) ==
  LET c == ctl[v]
      h == heap[v]
  IN  /\ c.pc = "alloc" /\ c.i < xbuf[v].n /\ h.free # 0
      /\ heap' = [heap EXCEPT ![v] = NewAg(h, xbuf[v].type[c.i + 1])]
      /\ ctl' = [ctl EXCEPT ![v] = [c EXCEPT !.map[c.i + 1] = h.free, !.i = @ + 1]]
      /\ UNCHANGED <<xbuf, host>>

ImportOom(v) ==
  /\ ctl[v].pc = "alloc" /\ ctl[v].i < xbuf[v].n /\ heap[v].free = 0
  /\ heap' = [heap EXCEPT ![v] = Oom(@)]
  /\ ctl' = [ctl EXCEPT ![v] = Halted(@)]
  /\ UNCHANGED <<xbuf, host>>

(* Pass 2: the ports of a record that are wired, with the map applied; a    *)
(* port value 0 leaves the agent's cell as it is.                           *)
Remap(c, p) == <<c.map[p[1]], p[2]>>

ImportPorts(v) ==
  LET c == ctl[v]
      x == xbuf[v]
      a == c.map[c.i + 1]
      wired == {k \in 0 .. 2 : x.port[<<c.i + 1, k>>] # None}
  IN  /\ c.pc = "remap" /\ c.i < x.n
      /\ heap' = [heap EXCEPT ![v].port =
                    [p \in Port |-> IF p[1] = a /\ p[2] \in wired
                                    THEN Remap(c, x.port[<<c.i + 1, p[2]>>])
                                    ELSE @[p]]]
      /\ ctl' = [ctl EXCEPT ![v].i = @ + 1]
      /\ UNCHANGED <<xbuf, host>>

(* Pass 3: the bundle's active pairs enter the ring. *)
ImportPair(v) ==
  LET c == ctl[v]
  IN  /\ c.pc = "pairs" /\ c.i < xbuf[v].pn
      /\ heap' = [heap EXCEPT ![v] = Enq(@, c.map[xbuf[v].pair[c.i]])]
      /\ ctl' = [ctl EXCEPT ![v].i = @ + 1]
      /\ UNCHANGED <<xbuf, host>>

Then(pc) == CASE pc = "alloc" -> "remap" [] pc = "remap" -> "pairs"
              [] pc = "pairs" -> "driver"

(* Mutant: pass 3 waits for n pairs. *)
PassDoneAtN(v) ==
  LET c == ctl[v]
  IN  /\ c.pc \in {"alloc", "remap", "pairs"} /\ c.i = xbuf[v].n
      /\ ctl' = [ctl EXCEPT ![v] = [c EXCEPT !.pc = Then(c.pc), !.i = 0]]
      /\ UNCHANGED <<heap, xbuf, host>>

PassDone(v) ==
  LET c == ctl[v]
  IN  /\ c.pc \in {"alloc", "remap", "pairs"}
      /\ c.i = IF c.pc = "pairs" THEN xbuf[v].pn ELSE xbuf[v].n
      /\ ctl' = [ctl EXCEPT ![v] = [c EXCEPT !.pc = Then(c.pc), !.i = 0]]
      /\ UNCHANGED <<heap, xbuf, host>>

-----------------------------------------------------------------------------
(* The driver loop; its halt leaves a copy of QTAIL on the stack.           *)

Drive(v) ==
  LET c == ctl[v]
      h == heap[v]
  IN  /\ c.pc = "driver" /\ h.head # h.tail
      /\ heap' = [heap EXCEPT ![v] = Turn(h)]
      /\ ctl' = [ctl EXCEPT ![v] =
                   [c EXCEPT !.leaked = @ + TurnLeak(h),
                             !.pc = IF Turn(h).err = 0 THEN @ ELSE "halted"]]
      /\ UNCHANGED <<xbuf, host>>

DriverDone(v) ==
  LET c == ctl[v]
  IN  /\ c.pc = "driver" /\ heap[v].head = heap[v].tail
      /\ ctl' = [ctl EXCEPT ![v] = Halted([c EXCEPT !.leaked = @ + 1])]
      /\ UNCHANGED <<heap, xbuf, host>>

-----------------------------------------------------------------------------
(* The host: main of par-run.c *)

Running(v) == ctl[v].pc \notin {"idle", "halted"}

(* A VM is entered at one of its entry points; the stack pointers it starts *)
(* with are those its last run stored.                                      *)
Enter(c, pc, stack) == [c EXCEPT !.pc = pc, !.stack = stack, !.i = 0]

(* What the three entry points do before their build or import: globals,    *)
(* free list and rule table anew, whatever the last run left, but not the   *)
(* records of the bundle; import_entry leaves its header alone too.         *)
ExportEntry(v, d) ==
  /\ heap' = [heap EXCEPT ![v] = Reset(@)]
  /\ xbuf' = [xbuf EXCEPT ![v].cnt = 0, ![v].pn = 0]
  /\ ctl' = [ctl EXCEPT ![v] = Enter(@, "export", <<<<d, "call">>>>)]

ReduceEntry(v, d) ==
  /\ heap' = [heap EXCEPT ![v] = Reset(@)]
  /\ xbuf' = [xbuf EXCEPT ![v].cnt = 0, ![v].pn = 0]
  /\ ctl' = [ctl EXCEPT ![v] = Enter(@, "build", <<<<d, "call">>>>)]

ImportEntry(v) ==
  /\ heap' = [heap EXCEPT ![v] = Reset(@)]
  /\ ctl' = [ctl EXCEPT ![v] = Enter(@, "alloc", <<>>)]
  /\ UNCHANGED xbuf

(* Mutant: the second export goes on after the records of the first. *)
HostExportAppends ==
  /\ host.pc = "export" /\ host.i <= LastVM
  /\ heap' = [heap EXCEPT ![0] = Reset(@)]
  /\ ctl' = [ctl EXCEPT ![0] = Enter(@, "export", <<<<DEPTH[host.i], "call">>>>)]
  /\ host' = [host EXCEPT !.pc = "exporting"]
  /\ UNCHANGED xbuf

(* DEPTHG and the entry point are written and VM 0 runs export_entry.       *)
HostExport ==
  /\ host.pc = "export" /\ host.i <= LastVM
  /\ ExportEntry(0, DEPTH[host.i])
  /\ host' = [host EXCEPT !.pc = "exporting"]

(* Mutant: the last record is not copied. *)
HostCopyShort ==
  LET x == xbuf[0]
      i == host.i
      y == xbuf[i]
  IN  /\ host.pc = "exporting" /\ ~Running(0)
      /\ host' = [pc |-> "export", i |-> i + 1]
      /\ xbuf' = [xbuf EXCEPT ![i] =
           [y EXCEPT !.n = x.n, !.pn = x.pn, !.pair = x.pair,
              !.type = [k \in RecIdx |-> IF k < x.n THEN x.type[k] ELSE @[k]],
              !.port = [p \in XPort |-> IF p[1] < x.n THEN x.port[p] ELSE @[p]]]]
      /\ UNCHANGED <<heap, ctl>>

(* VM 0 has halted: the bundle - header, pair table and n records - goes to *)
(* the VM it is for, unless ERR is not 1.                                   *)
HostCopy ==
  LET x == xbuf[0]
      i == host.i
      y == xbuf[i]
  IN  /\ host.pc = "exporting" /\ ~Running(0)
      /\ IF heap[0].err # 1
         THEN host' = [host EXCEPT !.pc = "failed"] /\ UNCHANGED xbuf
         ELSE /\ host' = [pc |-> "export", i |-> i + 1]
              /\ xbuf' = [xbuf EXCEPT ![i] =
                   [y EXCEPT !.n = x.n, !.pn = x.pn, !.pair = x.pair,
                      !.type = [k \in RecIdx |-> IF k <= x.n THEN x.type[k] ELSE @[k]],
                      !.port = [p \in XPort |-> IF p[1] <= x.n THEN x.port[p] ELSE @[p]]]]
      /\ UNCHANGED <<heap, ctl>>

(* pthread_create, one VM after another; each thread runs at once.          *)
HostStart(v) ==
  /\ \/ host.pc = "export" /\ host.i = LastVM + 1 /\ v = 0
     \/ host.pc = "start" /\ host.i = v
  /\ IF v = 0 THEN ReduceEntry(v, DEPTH[0]) ELSE ImportEntry(v)
  /\ host' = [pc |-> IF v = LastVM THEN "join" ELSE "start", i |-> v + 1]

(* Mutant: the run is accepted without a look at the total. *)
HostJoinAccepts ==
  /\ host.pc = "join" /\ \A v \in VM : ~Running(v)
  /\ host' = [pc |-> "ok", i |-> 0]
  /\ UNCHANGED <<heap, ctl, xbuf>>

(* All threads are joined and the counts added up, VM by VM.                *)
AddedUp(count) ==
  LET total[n \in 0 .. LastVM + 1] == IF n = 0 THEN 0 ELSE total[n - 1] + count[n - 1]
  IN  total[LastVM + 1]

HostJoin ==
  /\ host.pc = "join" /\ \A v \in VM : ~Running(v)
  /\ LET count  == [v \in VM |-> heap[v].count]
         expect == [v \in VM |-> Leaves[DEPTH[v]]]
     IN  host' = [pc |-> IF AddedUp(count) = AddedUp(expect) THEN "ok" ELSE "failed",
                  i |-> 0]
  /\ UNCHANGED <<heap, ctl, xbuf>>

-----------------------------------------------------------------------------
Step(v) == \/ CallLeft(v) \/ CallRight(v)
           \/ BuildLeaf(v) \/ BuildNode(v) \/ BuildRoot(v) \/ BuildOom(v)
           \/ ExportLeaf(v) \/ ExportNode(v) \/ ExportDone(v)
           \/ ImportAlloc(v) \/ ImportOom(v) \/ ImportPorts(v) \/ ImportPair(v)
           \/ PassDone(v) \/ Drive(v) \/ DriverDone(v)

Host == HostExport \/ HostCopy \/ (\E v \in VM : HostStart(v)) \/ HostJoin

Next == (Host \/ \E v \in VM : Step(v)) /\ UNCHANGED DEPTH

Spec == Init /\ [][Next]_vars

(* Some thread that can run does run; nothing is assumed of which one, so   *)
(* a thread may be kept off its processor as long as another can go on.     *)
FairSpec == Spec /\ WF_vars(Next)

-----------------------------------------------------------------------------
(* Properties *)

(* Blocks for the tree and what one rule needs on top of them.              *)
Enough == \A v \in VM : NAGENTS >= TreeSize(DEPTH[v]) + 2

(* Room in the ring for two entries per leaf: one for each add of a tree and  *)
(* one for each pair that is still to come. enq has no test for a full ring.  *)
RingFits == \A d \in DEPTHS, v \in VM : 2 * Leaves[d[v]] <= QSIZE

Started(v) == host.pc \in {"join", "ok", "failed"} \/ (host.pc = "start" /\ v < host.i)
Reducing(v) == /\ Started(v) /\ heap[v].err = 0
               /\ ctl[v].pc \in {"driver", "pairs", "halted"}

(* The free list of a VM that has been entered holds free blocks only, none *)
(* twice, through build, import and rules.                                  *)
FreeListsOK == \A v \in VM : Started(v) => FreeListSound(heap[v])

(* A run the host accepts has counted every leaf of every tree by reducing  *)
(* it to nothing: no VM that ran out of agents is hidden by the total.      *)
AcceptedIsComplete == host.pc = "ok" =>
  \A v \in VM : heap[v].err = 0 /\ LiveAgents(heap[v]) = {}

(* With blocks for each tree and two more for a rule, par-run accepts.      *)
EnoughAccepted == Enough => host.pc # "failed" /\ \A v \in VM : heap[v].err < 2

(* A stale entry whose agent is free costs one word of the parameter stack  *)
(* for good. Of the adds build_tree enqueues, only one for every four       *)
(* leaves is met that way; the root's second entry and the halt leave one   *)
(* word each. The stack of 992 words cannot grow into the return stack.     *)
LeakBounded == \A v \in VM : ctl[v].leaked <= Leaves[DEPTH[v]] \div 4 + 2

(* The buffer and its pair table are large enough for every bundle, so      *)
(* no pair is written over a record.                                        *)
BundleFits == \A v \in VM : xbuf[v].pn <= PAIRMAX /\ xbuf[v].cnt <= XMAX

(* Each VM reduces an interaction net of the value of its tree, whatever    *)
(* the threads' interleaving and up to a halt for want of agents: VM 0 the  *)
(* one it built, the others the net that arrived in their buffer, although  *)
(* the records of one export are written over those of the one before.      *)
Net(v, n) == INSTANCE InetNet WITH
               VALUE  <- Leaves[n],
               type   <- IF Reducing(v)
                         THEN [a \in Agent |-> IF Live(heap[v], a)
                                               THEN heap[v].word[a] ELSE 0]
                         ELSE [a \in Agent |-> 0],
               wires  <- IF Reducing(v)
                         THEN {{p, heap[v].port[p]} : p \in UsedPorts(heap[v])} ELSE {},
               count  <- heap[v].count,
               loaded <- Reducing(v)
ReducesNets ==
  /\ \A v \in VM, n \in Slots : DEPTH[v] = n => Net(v, n)!Init
  /\ [][\A v \in VM, n \in Slots :
          DEPTH[v] = n /\ heap'[v].err # 2
            => UNCHANGED Net(v, n)!vars \/ Net(v, n)!Next]_vars

(* The host always gets past its joins. *)
Terminates == <>(host.pc \in {"ok", "failed"})
=============================================================================
