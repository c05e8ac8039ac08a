# Verification of warmvm

warmvm is a 32 KB virtual machine meant to stay in an L1 cache, together with
programs for it: an engine for interaction nets written in its assembly
(`inet.asm`, `inet-par.asm`), hosts that load and run VMs, a compiler from a
small Lisp to that engine (`inet-c/`), and a library of C helpers. This
directory holds TLA+ models of its core logic, the TLC configurations that check
them and proofs checked by TLAPS.

## 1. Inventory

| Part | State | Operations | Hard behaviour |
|---|---|---|---|
| Net engine (`inet.asm`, `inet-par.asm`) | 16-byte agents (a type word, three port cells), free list threaded through the type words, ring of 512 candidate pairs, PEAK, COUNT, ERR | newag, freeag, connect, enq, four rules, driver loop | blocks reused while stale addresses wait in the ring; cells rewired one at a time; no overflow test; a halt in the middle of a rule |
| Program K + K (`inet.asm` main, `inet-run.c`) | the chain being built | build, reduce, check count = 2K | the ring and the pool are reused many times over; exact bound of the pool |
| Parallel reduction (`inet-par.asm` entries, `par-run.c`) | one heap and bundle buffer per VM, a recursion over depth slots, the host's phase | export, copy, import, build, reduce, join | threads of several VMs; one export over an earlier one; index remapping; a VM that fails half-way |
| Interpreter (`wvm.c`, `wvm.h`) | memory, ip, sp, rp | 42 instructions, load, run | stacks that meet, re-entry with old stack pointers, masked accesses |
| Assembler (`warmasm.py`) | symbol table | two passes, peephole fusion | fusion across labels and branch targets |
| Compiler and its engine (`inet-c/compile_wvm.c`, `run-wvmc.c`) | tables of types, functions, rules, variables and bindings; the emitted engine's agents, wires, queue and data stack | collect, compile expression, function, rule, main; emitted connectx, wropp, pcheck, newag, new_wire, enq, driver; reading the RESULT | words left on the stack, primitives that become ready later, agents that are never freed and queue entries that may be met twice |
| Front end (`inet-c/lang`, `wvmc_main.c`) | syntax trees; the stack and set of imported files | parse and print statements and expressions; expand imports | circular imports, a file that gets a second name |
| Lexer and s-expressions (`helpers/lexer`, `helpers/sexp`) | cursor, line and column, tokens; open lists | one step per token; read, print | where tokens end, what escapes, comments and unclosed lists do |
| Paths (`helpers/path`) | a stack of segments | make, join, resolve, relate, print | `..` above the start, absolute and relative forms |
| SPSC queue (`helpers/queue`) | two atomic cursors, two cached ones, slots | push, pop, get, is_full, is_empty, length | two threads, stale cached cursors, wrap-around |
| Allocator (`helpers/allocator`, `lock/mutex.c`) | shared stack behind a mutex, local stacks | allocate, free, recycle | batches moving between threads |
| Deque (`helpers/deque`, `lock/fast_spinlock.h`) | a list, a lock | push, pop and get at both ends, length | calls of two threads interleaved inside the lock's load and exchange |
| Threads, pool, counters | thread array, one counter per thread | start, join, add, sub, total | id stored after the thread runs, totals read while threads count |
| Hash, set | buckets with chains, a cursor of iteration | put, set, get, delete, purge, first, next | growth that moves entries, removals during an iteration, a used-index count that goes wrong |
| List | linked nodes, a cursor | push, pop, shift, unshift, find, remove, first, next, prev, last, copy | the cursor on a node that is removed |
| Array, stack | a block of cells | push, pop, set, get, pick, resize, tuck | what a shrunk and grown block holds |
| Strings, UTF-8, files, values | - | conversions, wrappers of libc | - |

How they interact: a host loads a program image into a VM (`wvm_load`), writes
an entry point and parameters into the VM's memory and calls `wvm_run`, which
returns when the program halts; VMs share no memory, and only the host moves
data between them. `wvmc` compiles a Lisp file to assembly that contains its own
copy of the engine; `warmasm.py` turns assembly into an image.

`PROJECT.json` lists the hazards of this code, each at its line, and the property
that would show it going wrong; those with none have a note that says why.

## 2. Modules

| Module | What it is |
|---|---|
| `InetHeap` | The engine's part of one VM's memory as a record, each subroutine and rule as a function of it, the driver's checks, and the predicates the properties use. Both programs extend it: their engine code is the same. |
| `Inet` | `main` and the driver of `inet.asm` as a state machine. |
| `InetNet` | The abstract specification: reduction of an interaction net as a set of typed agents and a set of wires, any active pair at any time, no memory, list or ring. |
| `MCInetNet` | `InetNet` started from the nets the two programs build, at value 4. |
| `InetPar`, `MCInetPar` | The entry points of `inet-par.asm` on several VMs under the host of `par-run.c`; and the sizes for TLC. |
| `InetHeapProofs` | Lemmas on the engine: what each subroutine and rule keeps of the heap, and what newag, connect and freeag do to the net in it. |
| `InetReduction` | What each rule does to a net of any size without circles, each turn of the driver to the net of K + K, and what main's stores build; the trees of `par-run` as they grow, as they are moved and as nets. |
| `InetProofs` | The theorems about `Inet`. |
| `InetParProofs` | The theorems about `InetPar`: what every subroutine and rule does to the pool alone, the frames of `build_tree_x`, the host. |
| `InetParComplete` | The theorems about what the host of `par-run.c` accepts: the net of a tree through build, record, import and driver; and the refinement of `InetNet` by each VM. |
| `SpscQueue` | `queue.c`: push, pop, get and the length tests as their atomic accesses and those of the slots, for one producer and one consumer thread. |
| `SpscFifo` | Abstract specification of the queue: a bounded FIFO. |
| `SpscQueueProofs` | Cursor arithmetic, the inductive invariant of the queue, its refinement. |
| `WvmWords`, `Wvm` | `wvm.c`: words and arithmetic; every handler, in the SAFE and in the release build, which run the same program side by side. |
| `WvmStacks` | Abstract specification of the SAFE interpreter: two separate stacks, a data memory, one step per instruction. |
| `MCWvm` | The program and sizes for TLC. |
| `WvmProofs` | The theorems about types and about the two builds, and the refinement of `WvmStacks`, macro by macro and instruction by instruction. |
| `Hash`, `List`, `Array` | `hash.c` (with `set.c`), `list.c`, `array.c` (with the operations of `stack.h`): the data structure and one action per call. |
| `Dict`, `CursorList`, `Vector` | What their callers rely on: a dictionary with an iteration, a sequence with a cursor, a growing sequence. |
| `MCStore` | The three, one at a time, with their sizes. |
| `Allocator` | `allocator.c` with its mutex, a step per access, used as in `test_allocator_thread_safe.c`. |
| `Deque`, `AtomicDeque` | `deque.c` under `fast_spinlock.h`; and its specification, a deque on which each call takes effect at one moment. |
| `StatsCounter` | `thread.c`, `thread_pool.c` and `stats_counter.c`, used as in `test_stats_counter.c`. |
| `ConcProofs` | Theorems of these three: the inductive invariants, and the refinement of `AtomicDeque`. |
| `MCConc` | The three, one at a time, with their threads and fairness: it extends `Allocator`, `Deque` and `StatsCounter`. |
| `Lexer`, `Reader` | `lexer.c` with a step per `lexer_step`, together with the grammar it is checked against; `sexp.c` with a step per token, which reads a text, prints it and reads it again. |
| `Path` | `path.c` as operators. |
| `Parser` | `parse_stmt.c` and `parse_exp.c`, and the printers of `stmt.c` and `exp.c`, with what `value.c`, `xint.c` and `xfloat.c` make of numbers, as operators. |
| `Imports` | The import expansion of `wvmc_main.c`, a statement per step. |
| `Wvmc` | `compile_wvm.c`: from statements to code. |
| `WvmcEngine` | The code on the engine that is emitted with it, an instruction group per step, and the reading of the result by `run-wvmc.c`. |
| `MCLisp` | The five parts of the way of a Lisp program, one at a time, with texts, trees, paths, projects and programs. |

Compositions: `Inet` and `InetPar` extend `InetHeap`; `Inet` and `InetPar` implement
`InetNet`, `SpscQueue` implements `SpscFifo`, `Wvm` implements `WvmStacks`, `Hash`, `List`,
`Array` and `Deque` implement `Dict`, `CursorList`, `Vector` and `AtomicDeque`. `Reader` extends
`Lexer`; `WvmcEngine` extends `Wvmc`; `MCLisp` sends programs through `Parser`, `Wvmc` and
`WvmcEngine`; `Parser` and `Imports` take paths from `Path`. The engine models rest on what `Wvm` shows of the VM: the two stacks of a program are
separate as long as they do not meet.

### From code to model

An agent is its address in units of a block (`AGENTS` is 0x4AC0/16 = 1196 in
`inet.asm`, 0x4B00/16 = 1200 in `inet-par.asm`), a port value `(base<<4)|i` the pair
`<<base, i>>`, and 0 ("no wire") `<<0, 0>>`. `word[a]` is the word at the block's base:
its type while the agent is live and its free link while it is not, exactly as
the driver sees it, which is why the model needs `AGENTS > 4`. The scratch cells
(`SCR`, `CSLOT`) are the LET names of an operator; `SLOT`, which the recursion of
`build_tree` relies on, is kept (`ctl[v].slot`).

Granularity: one VM is one thread and shares nothing, so a step of the model is
a run of instructions up to the next point where the properties look: a newag
with its connect, a node of the tree, one record of an import, one turn of the
driver. A rule that runs out of memory half-way leaves what it had changed
until then (`Oom` after the first `NewAg`). Steps of different VMs and of the
host interleave freely.

The parameter stack is modelled by the words the driver leaves on it
(`leaked`): an entry whose own agent is free reaches `.drop` with its address still
on the stack, the later checks do not, and the final test leaves QTAIL.

In `InetPar` an entry point starts with the reset of the globals and the free list
(`ExportEntry`, `ReduceEntry`, `ImportEntry`); the host's steps run it when they start
a VM. The bundle buffer is not part of the reset, which is why a second export
finds the first one's records there.

The queue's cursors are numbers of `WIDTH` values that wrap; `cachedFront` and
`cachedBack` are the private copies. A load of the other side's cursor returns any
value that cursor has had since the last one this thread has seen: C11's
coherence of one atomic, and nothing more. Slots are plain memory, ordered by the
release store and the acquire load of a cursor: a side that knows a cursor value
sees the slots as they were when it was stored. `queue_get` reads the slot at `front` plus
its index, and tests nothing but that the copy is not empty. An index below what the
consumer's copy shows (`Known`) names a slot whose write is ordered before the read; any other
index may name the slot the producer is writing. Such a read is a data race with an
arbitrary answer, so `got` keeps the last answer that means something, and `RaceFree` and
`FifoRefined` speak of the others (section 6).

In `Wvm` memory is what an access can reach: `Host` is the array of `wvm_t` and the three bytes
after it, as only the first byte of an access is masked. `TypeOK` says that no access reaches
further, `HostInBounds` that none reaches past the array, which is false (section 6). A
machine is a record (memory, sp, rp, ip, status). `PUSH`, `POP`, `PUSH_RET`
and `POP_RET` are operators with the build as a flag; a failed test (`goto STOP`) sets
the status, after which the macros still to come in the handler do nothing. `Code[a]`
is the set of instructions that may be at address `a`, so one module covers a given
program and an arbitrary one. Bytes have `BITS` bits, as carries, signs and the
division overflow do not depend on there being eight. A run ends with its stack
pointers stored in 16 bits, and the next one starts from them (`Reenter`), or from
the host's (`RunWith`, as `bench.c` does). Not modelled: programs that write their own
code or the control block, and the release build after a test has failed in SAFE.
`WvmAssumption` has `RP0 >= 4`: `sp - 4` is unsigned, and with a return stack starting
below 4 it would wrap and pass the test; images start it at 0x80. It also has the
operands of jumps and calls in 16 bits, which is the width they are fetched in, and the
data of the program outside of the stacks. `DataOnly` keeps loads and stores to that data
or to addresses behind the universe, and keeps `dec` and `subk` from an empty stack,
where they would write over the first bytes of the code. `BitsAssumption` states three
facts of binary numbers (powers of two are positive, and, or and xor of two bytes are
bytes) that hold for every `BITS` and would take an induction over it; TLC evaluates them.

The containers are their C structures with addresses replaced by names: a chain is
the sequence of its entries, a cursor the key of the entry it points at; a list is
its nodes with their links, taken from a store of `MAXNODES`, so that a link to a freed
node is visible. `used_indexes_size` and `length` are kept as counters that wrap.
`walk` says what the cursor of an iteration is good for: nothing was put since `hash_first`
(`exact`: each entry comes once); an insertion or a growth has moved entries (`loose`: every
answer is an entry, but one may come twice or not at all; callers in the repository never
insert while they walk); or the entry it stands on was freed (`freed`: `hash_next` would read it,
and no caller goes on).

The allocator, the deque and the counter have a step per access of shared memory:
load and exchange of a lock are two steps, load and store of a counter are two,
and so are reading and writing the data that the lock protects, so that a broken
lock shows. In the allocator one value is told from the others; what holds of
it holds of each.

A text is a sequence of characters from an alphabet that has one of every class
the lexer treats differently. A string with slashes is the sequence of its parts.
In `Wvmc` code is a sequence of operations, each one group of emitted instructions;
labels and addresses are the nesting of operations, and a slot is its number. In
`WvmcEngine` words are tagged (`int`, `port`, `wire`, `addr`), as the encoding does with bits;
the return stack and instruction pointer are the code still to be run. A word that
is used as what it is not - a port that is none, an int of more than 30 bits taken for
a wire - would make the machine read or write elsewhere: `m.wild` ends the run there.
`drefv` shifts a port twice and reads at an address far from the agents; so does a block of
`pcheck` whose base is a word that the block before it took from the data stack. `Blank` names
the addresses below the code at which there is no int: they belong neither to the control
block's words that look like one nor to the stacks, as far as 32 return addresses and 64
words go, which no program of the run exceeds. A read there gives no int; any other ends
the run. `imul` is applied to operands whose product has 31 bits. The blocks of `pcheck` are
steps of their own (`Block`, `PrimBlock`): one that does not run its primitive falls into the next,
as the emitted code does. The counter of each rule is left out (section 6).

### Agreement with the program

The models were compared with the assembled programs run by `wvm.c`; these
numbers agree in every field (COUNT, QTAIL, PEAK, words left on the stack):
K = 24: count 48, QTAIL 74, one word left; K = 250: count 500, QTAIL 752;
K = 297: ERR = 2. `inet-par`, depth 6 in VM 0: count 64, QTAIL 352, PEAK 68, 18
words; imports of depth 6, 5, 4: QTAIL 351, 159, 71 and 17, 9, 5 words;
bundles of 192, 96 and 48 records with 63, 31 and 15 pairs. For the compiler, some thirty
programs of all the families of `MCLisp` were compiled by `wvmc` and run: the result word
and the words left on the stack agree for every one that does not run wild. The program of `PcheckFalls`,
`(define (f x) (imul x x)) (define (g x) (iadd x 1)) (define (h x) (isub x 1)) (f 3)`,
stops with status 5 (illegal opcode); without `h`, which it does not call, it gives 9.

## 3. Runs

All runs set `CHECK_DEADLOCK FALSE`: the programs, threads and hosts really stop.

| Run | Instance | Question and result |
|---|---|---|
| `Inet` | 54 blocks, ring of 2, chains of 0, 1, 24, 25 and 40 | 24 is the longest chain the pool is meant for (54 = 2*24+6), 25 fails in a rule, 40 in the build; 2 is the smallest ring. Types, free list, lost and stale pairs, the count, the pool; refinement of `InetNet`; halting. 266 states: one behaviour for each chain, but each state is a large heap, and 24 rounds reuse blocks and ring cells often. |
| `InetNet` | 12 agents, value 4 | All orders of reduction: every one ends, in the same result, and nets stay wired. 6025 states. |
| `InetPar` | 3 VMs, 14 blocks, ring of 16 (two cells for each of eight leaves; the entries of four leaves wrap); trees of 2, 4, 2, of 8, 2, 2 and of 2, 8, 2 leaves | All interleavings of three threads after two exports, the second over the first, with pools that suffice (14 = 12 + 2 blocks is the smallest for four leaves), one too small where the tree is built, and one too small where it is imported. Free lists, acceptance, bundles, refinement of `InetNet` in every VM, and the host gets past its joins. 32223 states. |
| `InetParFull` | VM 0, 64 leaves, 272 blocks, ring of 512 | The program's sizes: accepted, and at most 18 words left on the stack, which is what the program leaves. |
| `SpscQueue` | 2 slots, cursors of 4 values, 2 values, one of them NULL | Types, no two threads in one slot, answers of is_full and is_empty, FIFO, progress. |
| `Wvm` | 3-bit bytes, 12 bytes of stack, 64 of memory | An arbitrary program in a loop of slots: separate stacks, both builds the same, all the ways to stop. 112678 states. |
| `WvmBounds` | `Wvm` with a program that loads and stores at the end of memory | Finds an access past the host's array (section 6). |
| `Store` | hash: 5, then 7 and 11 buckets, 3 keys of which two are in one chain at the first two sizes; list: 3 nodes; array: 4 cells, indices to 5 | Every sequence of calls; each implements its abstract container. 35940 states. |
| `Conc` | 2 threads; allocator: batches of 3 and 5 of 10 or 11 values, caches of 2; deque: 2 calls each; counters: 2 threads that count 3 times | Every interleaving: no value in two places or none, the exact size of a pool that never fails (11; with 10 a thread does fail), the deque's calls one at a time, exact totals once the ids are known, everybody finishes. 373149 states. |
| `StatsRace` | the counters of `Conc` | Finds a lost update when a thread counts before its id is stored (section 6). |
| `Lisp` | texts of up to 4 characters of 9 (6 of 4 for lists), 7784 statement trees, all pairs of paths of two parts, 780 projects of 4 files, 914 programs | Tokens against the grammar, print and read back, relative paths, imports, results of programs, no pair rewritten twice. 183914 states. |
| `PcheckFalls` | 5 programs of three functions with a primitive each | Finds a primitive that is not skipped cleanly (section 6). |

Deep trees and long chains add repetitions of the same few rules; the cases
that differ - an add over two leaves, over two adds, over a leaf and a
normalised sum, a root that is queued twice, an import over records of a larger
tree - all occur with four leaves. `InetParFull` covers what depends on the sizes
themselves. Two slots are the fewest a queue can have (one slot would make
the mask 0), and 4 cursor values make every cursor wrap every two rounds of the
ring, with full and empty both seen on each side of the wrap. Twelve bytes of stack
hold the three words `rot` needs, and let every push and call be tried against a
full stack at every distance of the two pointers; `MCWvm` keeps the values few by
turning each arithmetic result into a comparison.

Three keys are enough for a chain of two and a bucket of its own, and for two growths:
the table grows at three entries or with two used buckets, the first growth moves up to three
entries and turns a chain round, and removals from a chain make `used_indexes_size` fall behind
and wrap before a growth is decided. Three nodes are enough for a removal at either end and
between. The counts of the allocator are the smallest at which a thread goes to the
shared stack for a second batch, gives one back while the other waits (a free that finds its
local stack full), and, with 10 values, finds the shared stack short. `MAX_TEXT` is 4 because an escape in
a string takes four characters; the longer texts have nested lists. The files include
each circle of two and of three, several spellings of one name, a file that gets a second name by an
import that climbs, a circle that climbs and so never ends, a file that does not exist, and
imports from a subdirectory. `INT_BITS` is 6 in place of 64: the ints 3 and 4 are on either side of
the range that survives printing. `VAR_SLOTS` (361), `MAX_TYPES` (16) and `MAX_AGENTS` (192) of the compiler are the
program's own; no program of `MCLisp` reaches them. Programs whose functions and rules use three
primitives or more are kept apart (`WIDE`): `pcheck` then takes more words from the stack than
there are, and they have no result. The programs reach every branch of
`Connect` except the last step after a `wropp` that has left a port in CSLOT.

### Fairness

`Inet`: `WF_vars(Next)`. `wvm_run` executes until the program halts. `InetPar`:
`WF_vars(Next)` on the whole system only: some thread that can run does. Nothing is
assumed about which one, so the host's termination does not depend on a fair
scheduler. `InetNet`: `WF` on `Interact`, the engine reduces while there is a pair.
`SpscQueue`: `WF` on each thread's operations (a caller tries again until it succeeds,
as the loops of `test_queue_multi_thread.c` do), and `SF` on a refresh that sees the
newest cursor: C11 asks that a store becomes visible in finite time. Without it a
thread could see an old cursor for ever, and nothing in the code prevents that.
`Wvm` states no liveness: programs may loop. `MCConc`: `WF` on each thread, as the operating
system runs every thread that can run; a thread that waits for a lock takes it in the
end because the others take it a bounded number of times. `MCLisp`: `WF` on the steps of
the one part that runs, which is a sequential program. `MCStore` has no liveness.

### Mutants

For every property of a passing run, `PROJECT.json` names an operator that is a
plausible bug in a modelled definition; with it in place TLC reports the
property violated. They stand before the definition they alter, marked
`Mutant`.

## 4. The properties that matter most

* `ReducesNet`, `ReducesNets`: the engine with its memory, list and ring implements
  the abstract reduction, step by step, also for a net that was serialized,
  copied and imported. `Confluent` then says that the order in which a ring
  happens to reduce does not matter.
* `FreeListOK`: no block in use is handed out. The driver's validation of stale
  entries reads the words of blocks that may have been freed and reused, and
  depends on it.
* `NoLostPair`, `NoStaleEntry`: the rules look at ports while they rewrite them; a
  missed pair shows only many turns later, and an entry met twice or written over in
  the ring is a pair too many or too few.
* `SumAtHalt`, `AcceptedIsComplete`: what the hosts check.
* `EnoughAgents`, `EnoughAccepted`: the exact sizes from which a run cannot run out.
* `LeakBounded`: the words a stale entry costs.
* `FifoRefined`, `RaceFree`: stale copies of a cursor err on the safe side, also
  when cursors have wrapped, and `queue_get` answers the value at its index as far as the
  consumer's copy goes. `AnswersKept`: what the multi-thread test asserts right
  after waiting for "not full" and "not empty"; as a NULL may be in the queue, the second is
  the only way to tell an empty queue from a pushed NULL.
* `TwoStacks`: under SAFE a program has two stacks that cannot damage each other,
  although an instruction is several tested pops and pushes. It also records that
  `dup`, `duple`, `dec` and `subk` do not test for an empty stack, in either build: they
  read the first bytes of the code.
* `SameAsSafe`: what was tested with SAFE is what runs without it. SAFE adds the tests of the
  stacks and of addresses only: a zero divisor stops either build (section 6).
* `HashRefined`, `ListRefined`: cursors inside the containers survive what their callers
  do in the middle of a walk, entries keep their values when a table grows, with chains turned
  round and in the middle of a walk too; a wrong `used_indexes_size` is never seen.
* `OneOwner`, `EnoughNeverFails`: every value of the allocator is in one place - the shared
  stack, the stack or the hands of one thread - also while a batch moves, and the exact
  pool size below which a thread may fail although others have values in their caches.
* `DequeRefined`, `TotalExact`, `Finishes`: calls take effect one at a time; counting loses
  nothing when every thread knows its id; no one is left waiting.
* `ComputesValue`: a compiled program computes what its text means, through variables,
  functions, links, rules and primitives that become ready late, whatever words the
  engine leaves on the stack. `FiresOnce`: the driver cannot tell a served entry from a
  new one, so nothing may be queued twice.
* `EachNameOnce`: whatever imports what, in circles too, the expansion ends, with each file merged
  once for each name it has, or with a name that does not open. Only an import that climbs
  gives a second name.
* `Tokenised`, `ReadsBack`, `RelativeResolves`: the conversions of the front end against an
  independent statement of what they should give. A statement without
  assignments reads back if and only if its numbers survive (`Survives`): ints of 61 bits, as `xint`
  drops three, and on stdout floats with the three lowest bits of the mantissa clear that
  `%.17g` does not write as an exponent without a point (`1e+30.0` is read as a name). Any other
  file than stdout gets no floats at all, `value_print` sends them to stdout. Assignments are
  excepted, of which `exp_print` prints the names only; so are strings with quotes or
  backslashes, which `atom_sexp_print` does not escape again.

## 5. Proofs

### The engine

`InetProofs` proves, for every `K`, pool and ring size:

* `TypeCorrect` (`TypeOK`) and `FreeListCorrect` (`FreeListOK`): `main` and the driver never
  leave the agent area and never hand out a block in use.
* `NoPairLost` (`NoLostPair`) and `NoEntryStale` (`NoStaleEntry`): between two turns the ring
  holds exactly the active pairs of the net, each once, by one of its two agents.
* `SumCorrect` (`SumAtHalt`): a run that halts without an error has counted 2K and given
  every agent back.
* `AgentsSuffice` (`EnoughAgents`): 2K + 6 blocks always do.
* `ReducesTheNet` (`ReducesNet`): `inet.asm` implements `InetNet`.

Assumptions: `HeapAssumption` (block addresses lie above the type codes, pool and
ring are not empty), `InetAssumption` (`K` is a natural number) and, for the last five,
`RingAssumption` (the ring has two cells: one rule can put two pairs into an empty
ring, and `enq` does not test for room). Nothing is assumed of the pool, so they hold
also of runs that end for want of agents.

The first two need `IInv == TypeOK /\ SoundHeap(h)`. A type invariant by
itself is not inductive: `newag` returns whatever `FREE` holds and the next `FREE`
is that block's word, so that word has to be a free block or 0. `FreeListSound`
states the list locally - `FREE` and the links of free blocks are free blocks or
0, and all different - so no induction along the list is needed: taking the head
off and putting a live block on keep it by case analysis. `InetHeapProofs` proves it
of the reset and, one lemma each, of `newag`, `freeag`, `connect`, `enq`, every rule (for two
different live agents, which is what the driver's checks establish) and of a turn.

The others need to know what net the heap holds. `NetInv` says that it is `Growing` while
main builds and `Reducible` between two turns (`InetReduction`). Both contain `Flow`: every
wire joins a port that gives a value to one that takes it (`Wired`), and there is a rank
of the agents that falls along every wire (`Downhill`). Ranks are what excludes circles:
a net without a pair has no agent, because an agent of smallest rank that has no pair
cannot exist, and because no agent faces itself a rule never rewires the two agents it is
about to free. `Reducible` adds that there is at most one add and one end (`Single`), that
the ring holds the pairs (`Queued`), that every unit is an `add1` or counted
(`Add1s + count = 2K`), and that there are at most 2K + 4 agents.

One lemma for each of the four rules follows the order of the code: take from the ring,
make the new agents, connect them - where a port of an agent still to be freed is *open* -
and free the pair. What these lemmas say (`Fired`) holds in a net of any size, so `Inet` and
`InetPar` both use them: the net is one again, the other pairs have kept their agents, and
each new pair has entered the ring once. A new pair can only be one of the rule's new
wires, and `connect` enqueues exactly those whose two ports are principal: that is why none
is lost. The rank of the abstract net is found by the least number of a set, not by
induction over data.

For the refinement the heap is mapped to the agents' types and the set of wires. The
net becomes visible when the root is built (before, it is not loaded yet), and a turn of
the driver is one `Interact` of the pair it took. A rule that stops in `newag` half-way leaves
a net that is nobody's: `ReducesNet` excepts that one step.

### par-run

`InetParProofs` proves, for any number of VMs, any depths, pool, ring and interleaving:

* `FreeListsCorrect` (`FreeListsOK`): the free list of every VM that has been started is right, through
  build, import and rules, and after a halt for want of agents.
* `BundlesFit` (`BundleFits`): no export writes a record or a pair past the end of its buffer.

Assumptions: `HeapAssumption`, `ParAssumption` (the VMs are numbered from 0, depths are at least
1) and `BufferAssumption`: the buffer has a record for each agent of a tree that is exported and
an entry for each of its adds, as the layout at the head of `inet-par.asm` has for 64 leaves.
Nothing is assumed of pool and ring: with two cells too few, entries are written over,
and the free list is right all the same.

That is the point of the first theorem. In `inet.asm` the free list was shown right along with
ports and ring; here the pool is taken alone (`SoundPool`: the words and `FREE`). Whatever the
port cells and the ring hold - the cells of a freed agent keep their old wires, an import
leaves some as they were, the root of a built tree is in the ring twice - only `newag` and
`freeag` change the pool, and `freeag` is only called in a rule, behind the driver's check that
both agents are live. The lemmas follow each rule through its `newag`s, any of which may find
the list empty.

For the second, `ParInv` holds what the recursion of `build_tree_x` has made. `Partial` gives each
frame of the stack the number of records and of entries there were when it was called,
and says that its whole tree still fits from there on; what has been made is what the top
frame began with and the subtrees it has finished. A call passes part of the room on,
a return adds a tree of the size the frame below waits for (`PartialCall`, `PartialReturn`).
The sizes need `Leaves[d] = 2 * Leaves[d - 1]`, a recursive function, whose equation is
proved by the least depth at which two candidates would differ (`LeavesDouble`). The rest of
`ParInv` is the host's: at most one VM exports, it is the one the host waits for, it ends with
ERR 1, and a bundle that is copied has a type in each of its records, which is what an
import makes agents of.

`InetParComplete` goes on to the nets, and proves, with the same generality:

* `AcceptedRunsAreComplete` (`AcceptedIsComplete`): when the host accepts, every VM has halted
  without an error and has no agent left.
* `EnoughIsAccepted` (`EnoughAccepted`): where each VM has two blocks more than its tree has
  agents, the host accepts, and no VM ends with an error.
* `EveryVMReducesItsNet` (`ReducesNets`): each VM implements the abstract reduction.

All three add the hypothesis `RingFits` to the assumptions: two cells of the ring for each leaf. `par-run`
has 64 leaves and a ring of 512; nothing in the code tests it, and in a ring that is too
small an entry would be written over before it is read. `MCInetPar` checks that it
holds in both runs (`RingHolds`).

The first is not obvious because the host compares two totals and nothing else: a VM that
has failed might be made up for by one that counted too much. The invariant `CompleteInv`
excludes it. It says of each VM, by its place in the program (`Place`), what its heap holds:

* Before the driver starts, `Building`, or `Importing` for a bundle. `Seeds` says that the agents
  have been taken from the list in order, so that they are numbered as they were made.
  `Grown` is the part of a tree that exists: in-ports are wired to out-ports of earlier
  agents (`Sapling`), and only the values of the subtrees whose parents are still to be
  built are open. Where those roots are is in the frames (`Heads`, `Recursing`): in the slot
  of a frame that waits for its right subtree, and in the return value. A frame keeps its
  left root in a slot named by its depth, so no frame above it may have the same
  depth (`Levels`). A whole tree with its end is `Planted`. The numbers are its ranks, so a
  planted tree is a net without circles.
* The same of an export (`Recording`), with records for agents, and of the bundle that the
  host has copied (`Delivery`). An import makes agents of records and ports of indices;
  its remapping carries the planted tree over (`Moved`), and the list of pairs becomes the ring.
* In the driver, `Driving`. It differs from `Reducible`: the adds of a tree are queued when they
  are built, long before they are pairs, and the root twice, so an entry need not be a
  pair. What is kept is that every pair is in the ring (`Covered`) and that there are at most
  L entries, L being the leaves, more than pairs (`Roomy`). As at most L agents can be in a
  pair (`Sized`), two cells a leaf are enough. An entry that fails the driver's checks is no
  pair, so dropping it loses nothing; one that passes them is a pair, and a rule fires.
* After it, `Ended`: without an error the net is empty and L units are counted. With error 2 an
  agent was missing: then the pool was short, and a unit was still in the net, so fewer
  than L are counted.

So no VM counts more than its leaves, and the totals are equal only if each count is the
expected one (`TotalsCompare`). `AddedUp`, the host's loop over the VMs, is a recursive
function, whose equation is proved as that of `Leaves` is.

The third theorem rests on the same invariant and follows one VM through a run. `NetOf` is
the state of the abstract net that a heap stands for. Until the net is complete (`Early`) there
is no net and nothing is counted, so building, recording and importing are invisible. The step
that makes the end of a built tree, and the one that ends the remapping of an import, are the
`Load` of the abstract net (`BuildRootLoads`, `PassDoneNet`): a planted tree is well wired
(`PlantedLoads`). Importing the list of pairs touches the ring alone. A turn of the driver
is an interaction, or nothing where the entry is no pair (`TurnRewrites`, `NetInteracts`);
excepted is the turn in which `newag` finds no agent, which halts the VM halfway through a rule
and leaves no net to speak of. The steps of other VMs and of the host leave a net that is
being reduced as it is (`StepIsLocal`, `HostNet`), which is where the order in which the VMs
take their turns drops out.

### The queue

`SpscQueueProofs` proves, for every number of slots, cursor width and set of values,
`QueueTypeCorrect`, `QueueRaceFree`, `QueueAnswersKept` and `QueueRefinesFifo`
(`Spec => FifoRefined`). Assumption: `QueueAssumption` (two slots or more, a width that
is a larger multiple of the size). NULL may be pushed. The inductive invariant is
`IInv == TypeOK /\ CursorInv /\ ProdInv /\ ConsInv`. `CursorInv` orders the cursors along
the ring - what a side has cached is no newer than what it has seen, which is no
newer than the cursor - as distances modulo the width, the only form in which the
order survives wrapping; that the oldest copy is at most `SIZE` behind is what keeps
a stale copy on the safe side. `ProdInv` and `ConsInv` say what the tests passed so far
guarantee at the step the thread is at. The refinement maps the queue to the slots
between the cursors; its lemmas show that these sequences are appended to by the
store of back and shortened by the store of front, and that the write to the slot
behind them is invisible (`BackIsFree`).

### The interpreter

For every program (`Code`), image, word size and place of the stacks, from `WvmAssumption`
and `BitsAssumption`:

* `WvmTypeCorrect` (`TypeOK`): both builds stay in their types. In particular no access
  ends more than three bytes past the array, the bound that holds in place of the claimed
  one (`HostInBounds`).
* `WvmStacksApart` (`StacksApart`) and `WvmSameAsSafe` (`SameAsSafe`).
* `WvmTwoStacks` (`TwoStacks`): the SAFE interpreter implements `WvmStacks`.

For `StacksApart` and `SameAsSafe` the invariant relates the two machines: `Both(t, u)` says
that the SAFE machine `t` has its pointers in order and that the release machine `u`
equals it unless a test has failed. It is stated of any two machines, not of the
variables, because it has to hold in the middle of an instruction: one lemma per macro
shows that the macro keeps it, so each handler, a composition of macros, keeps it too
(`HandlersKeep`), then every instruction (`ExecKeeps`) and every re-entry, where cutting
the pointers to 16 bits must not change them (`NoWrap`).

The second half of `WvmProofs` is the refinement. Its invariant `Good` places the pointers: `sp` is a
whole number of words below `SP0`, `rp` a whole number of return addresses above `RP0`, and they
have not passed each other. `Params`, `Rets` and `Rest` map a machine to its two stacks and
its other memory. A lemma for each macro says what it does to these three (`PushView`,
`PopView`, ...): a push writes below the last word and above the last return address, so
it adds one entry and changes no other. A handler is followed macro by macro with
`Took(t, s, g, n)` (since the fetch, in `s`, the first `n - 1` words have been taken and the words
`g` put in their place) and `Dead(t, s, st)` (it has stopped; some words may be gone, return
stack and data are whole). `Effect` is the whole of an instruction, which may also change
return stack, data and instruction pointer. One lemma per instruction then shows that
the outcome is the step that `WvmStacks` has for it, and that the interpreter's order of
tests gives the same reason to stop: missing words before a bad address or divisor, and
room last.

### The allocator, the deque and the counters

`ConcProofs` proves of `Allocator`, for any set of threads, any cache, batch and pool:

* `EachValueOnce` (`OneOwner`): each value is in exactly one place at every step.
* `AllocationSucceeds` (`EnoughNeverFails`): `N(MAXBATCH - 1) + (N - 1)CACHE + 1` values are
  enough for N threads, and a local stack never has more than twice the cache.

Assumption: `AllocatorAssumption`, which has the set of threads finite. A step reads or
writes one shared location, so the invariant `Inv` says for each place in the code what
the thread has read (`Sizes`, `ThreadInv`), and that a copy of the shared stack which a thread has
in its hands is the shared stack as long as it holds the mutex (`SharedInv`). A value is
followed as the one marked among indistinguishable others; its places form a set of one
element, which every step moves (`Moved`) or leaves. `AllocationSucceeds` is a count: a thread
looks at the shared stack only when its own is empty, so all the others, full, hold less
than the pool (`NothingLeft`).

Of `Deque` it proves `DequeImplementsAtomicDeque` (`DequeRefined`) for any number of threads, calls
and values: the invariant is that at most one thread is between the exchange that took
the lock and the store that gives it back, and that what this thread has read of the
list is still the list. The call takes effect at the write under the lock
(`FunctionEffect`); every other step is invisible.

Of `StatsCounter` it proves `NoCountLost` (`TotalExact`) for any number of threads and counts,
assuming `StatsAssumption`: the counts of all threads together stay below half the range of
`size_t`, and 2^63 counts are never made. The invariant `StatsInv` says that as long
as no thread has read its id too early, each thread's counter holds what that thread has
counted and the value it has loaded is still there; that all threads are joined when the
main thread reads the final total; and that this total is, modulo `WRAP`, the sum over the
threads read so far (`Totals`). The range then leaves one signed number that it can be.
`UpTo` adds with a recursive function, whose equation follows from its having a solution:
the least index without one would have a predecessor (`SumsExist`, with `LeastNat`).

### Only model-checked

* All termination and progress (liveness under fairness is beyond the prover): `Terminates`
  of `Inet` and `InetPar`, `Confluent`, `Finishes`, `Progress`.
* `InetPar`: `LeakBounded`, which is a count over the levels of a tree: which entries are
  stale depends on the order in which whole subtrees are reduced.
* `StaysWired` of the abstract net started from the nets of the two programs. It does not hold of
  every net: where two ports of one add are joined to each other, a rule leaves a port without
  a partner. For nets without circles, which are all the programs build, it is what is
  proved of the heaps of `Inet` and `InetPar` (`Reducible`, `Driving`) for the nets they run through.
* The containers (`Hash`, `List`, `Array`): not yet attempted.
* The front end, the compiler and its engine: `Lexer`, `Reader`, `Parser`, `Imports`, `Wvmc` and
  `WvmcEngine` use recursive operators, of which the prover cannot reason.

## 6. Findings

`WvmBounds`: `wvm.h` lines 8 and 44 and `README.md` line 32 say that the host is never accessed out of
bounds because every address is masked with 0x7FFF. The mask is applied to the first byte; an
access of four bytes from 0x7FFD on, or of two from 0x7FFF, ends up to three bytes past the
array. SAFE tests the address first; the release build is the one the claim is about.

`PcheckFalls`: in the `pcheck` that the compiler emits, a primitive that is not ready or has its result
jumps to a label that stands in front of the next primitive's block, whose first
instructions store the top of the data stack as a base. The comments (`compile_wvm.c` lines 203
and 1012) say that it is skipped. The run shows the step that takes the word. A function of
one primitive has nothing to fall into; with two, `ComputesValue` shows for the programs of `Lisp`
that the word taken is one nobody needs, one of those that `connectx` leaves. With three
`ComputesValue` is false: the stack runs empty, and what is pushed next is written over the code.

`StatsRace`: `thread_pool_start` stores `thread->id` after `thread_start` has created the thread.
A thread that is quick reads the 0 that `calloc` left, counts on counter 0 together with
thread 0, and since an increment is a load and a store, counts are lost: the final
assertion of `test_stats_counter.c` can fail. `TotalExact` shows that this is the only way.

Disagreements and oddities that no run states:

* `inet.asm` lines 509-510 describe `rule_end_zero` as "counter++". The rule does not touch `COUNT`, and
  is right not to: `inet-run` expects `count = 2K`, one per add1 (`SumAtHalt`).
* `wvm.c` lines 4-5 and `README.md` line 33 list division by zero among the tests of SAFE. `H_DIV` and
  `H_MOD` (`wvm.c` lines 124 and 127) test it in both builds, and both stop with the same status; so
  `SameAsSafe` need not except it.
* `wvmc_main.c` line 33 says that imports are deduplicated by path. They are by name: a file
  that is also imported through a `..` is merged twice, its definitions with it, and files that import
  one another by climbing end with a name too long to open (`EachNameOnce` says exactly when).
* `compile_wvm.c` lines 142-143 say that `compile_exp` returns the number of values left on the stack.
  `connectx` and `wropp` leave more: the copies of ports that their `dup`s before `pc_addr` made, and the
  old contents of a cell.
* `queue.c` calls the queue thread safe. `queue_get` is, for an index below what the consumer's own copy
  of `back` shows. `queue_length` counts with the newest cursors, so an index below it may
  name a slot whose write is not ordered before the read.
* `link` gives two wires that nothing joins (`compile_wvm.c` lines 493-498): what is connected to
  one end does not reach the other. The programs of `Lisp` have both uses.
* The driver counts rules at `0x7FE0 + 4 * key` (`compile_wvm.c` lines 885-887), which for every key lies
  past 0x7FFF: the release build increments a word between 0x24 and 0x3DC, where nothing is kept while
  the driver runs (its return stack is empty), and SAFE stops with an address error.
* A function without a body keeps the count -1 (lines 563-575), and a call of it is
  refused as a recursion.
* `README.md` line 145 lists imports and number literals as missing; both are there.

## 7. Plan and what is not modelled

Modelled: the engine, its two programs, the queue, the interpreter, the containers,
the allocator, the deque, threads and counters, the lexer, reader, parser, imports,
paths, the compiler and its engine.

Left, in this order:

1. Proofs: the refinements of `Array` and `List`, `StaysWired` of `InetNet` for every net without circles,
   `LeakBounded`.
2. `Warmasm`: the two passes and the peephole, the plain and the fused assembly of one
   program run on `Wvm` one after the other (`fib.asm`).
3. The memory layout of compiled programs: the limit of `new_wire`, which compares a
   count with an address, the queue's ring of 512, and what a wild word does.

Not modelled and why: strings, UTF-8, files and values are conversions or wrappers of
libc; benchmarks measure; perf counters and thread pinning in the hosts do not affect
results; `spinlock.c` has no caller in the program; floats, and signed and
prefixed integers, in the lexer need an alphabet for number syntax and differ in
nothing but that.
