# TLA+ models of DataflowSim

DataflowSim simulates a dataflow accelerator cycle by cycle. A program is a graph
of channels; loads and stores go through Lses (load/store elements) into a banked
memory system with a coalescer, a cache and a DRAM model. The simulator is one
thread: what makes it hard is not threads but that hundreds of small state
machines are called in a fixed order every round, see each other's state half
updated, and pass data on over several rounds, some of which do not advance the
clock. This directory models that core, checks it with TLC and proves most of its
safety properties with TLAPS. Paths below are relative to `src/DataflowSim/src/module`.

## Inventory

| part | state | operations | interacts with |
|---|---|---|---|
| MemSystem `mem/MemSystem.cpp` | bank recorder, request and acknowledge queue per bank, `coalescerFreeEntryNum`, round-robin pointers | `getLseReq`, `sendBack2Lse`, `send2Cache`, `getFromCache`, `returnReqAck`, `dramUpdate`, in the order of `MemSystemUpdate` | takes requests from Lses, answers by `ackCallback`; pushes into the cache, polls it |
| Coalescer `mem/Coalescer.cpp` | table of (block, waiting requests) | `send2Coalescer`, `searchCoalescer`, `popCoalescerEntry` | called by MemSystem |
| Cache, Mshr `mem/Cache.cpp`, `mem/Mshr.cpp` | lines; per level the request and acknowledge banks, Mshr entries, conflict flags, pointers; queue to DRAM | `addTransaction`, `callBack`, `mem_req_complete`, `updateAckQueue`, `sendMshrOutstandingReq`, `updateReqQueue`, `sendReq2Mem` | MemSystem above, DRAM and bus below, level to level |
| MemoryDataBus `mem/MemoryDataBus.cpp`, DRAMSim3 | transactions and their delay | completions | hand completions to MemSystem |
| Channel, ChanBase `execution/Channel.cpp` | input buffer and back-pressure bit per upstream, one matched datum, `valid`, last tags of a keepMode channel, instance counter | `get`: `parallelize`, `pop`, `push`, `statusUpdate`, `bpUpdate`; `sendLastTag` | reads `valid` and the datum of its upstreams and `bp` of its downstreams |
| Lse `execution/Lse.cpp` | channel state and a ring of request slots | `pushReqQ`, `setInflight`, `ackCallback`, `pushChannel` | a channel to the graph, a client to MemSystem |
| Lc, Mux `execution/Lc.cpp`, `Mux.cpp` | loop variable, `sel`, `loopNumQ`, `loopEnd` | `muxUpdate`, `lcUpdate` | drive loop variables, count the ends of inner loops |
| ClkDomain `ClkSys.cpp` | clock, `clkStall`, `clkAdd` | `clkUpdate`, `addClkStall` | a channel with `speedup > 1` stalls the clock; MemSystem looks at `clkAdd` |
| GraphScheduler, ChanDGSF | subgraph table, current subgraph, counters | `graphUpdate`, `configChan` | enables and disables channels |
| ChanSGMF, LcSGMF, MuxSGMF, ChanPartialMux | tagged buffers | tag matching, branch merging | as Channel |
| Spm, Arbiter | scratchpad queues | - | not connected (calls commented out, `spm_enable` 0) |
| Registry, graph, control tree | the program graph | build modules, check connection rules, generate code | set up before the simulation |
| Watchdog, Profiler, Debug, configuration, readers | counters, files | - | observe |

What is hard, by part:

* MemSystem: room is checked when a request is recorded and used when the clock
  advances; a cached free count; acknowledges that find their coalescer entry by
  address only; round-robin loops whose pointer step grows.
* Cache: several entries and fetches of one block under way at once, entries reused
  before their own completion is back, three sources competing for one
  acknowledge place, evictions that fail half way, write-backs in the same queues
  as reads.
* Channels: each handshake reads a mixture of this round's and the last round's
  state, depending on program order; keepMode channels must stay in step with an
  inner loop across several consumers; clocks stall for other channels' instances.
* Loops: several inner loops under way, whose ends must be counted in order; the two
  paths of a branch, which data of both kinds travel.
* Lse: answers in any order, slots reused, instances that share one ring.
* GraphScheduler: channels are opened and shut in the middle of a handshake; one
  subgraph runs at a time and may wait for another that does not run.

The properties that make the parts correct: requests are neither lost nor answered
twice and are answered in the end; no queue overflows, no assertion is met; a
channel gets the iterations of its loops in order and once, never mixes
iterations, and the program ends exactly when all work is done.

## Modules

| module | models | size of the step |
|---|---|---|
| `MemPort` | the abstract port between a load/store element and memory | one request |
| `MemSystem` | MemSystem, Coalescer, the Lses' request slots | one iteration of each loop of `MemSystemUpdate` |
| `MemSystem_proofs`, `MemSystemPort_proofs` | theorems about `MemSystem`: reservations, where requests are; the port | |
| `Lse` | a whole Lse between the graph and the memory system | one function called by `Channel::get`, or one part of `MemSystemUpdate` |
| `Lse_proofs` | theorems about `Lse` | |
| `Cache` | Cache with Mshr, one or two levels, DRAM and bus below | one function, or one iteration where iterations depend on each other |
| `Cache_proofs`, `CacheTypes_proofs` | theorems about `Cache`: lines and requests; types and fetches | |
| `QueueLemmas`, `RingLemmas` | counting in families of queues; arithmetic of ring positions | |
| `Channel` | the parts of `Channel::get` (with branchMode and ChanDGSF), the Lse's input side, the clock | operators on one channel |
| `Loop` (extends `Channel`) | Lc, Mux and the main loop of a simulation (`test/gemm/gemm_Base_auto_sim.cpp`) | one statement of the main loop |
| `GraphScheduler` (extends `Loop`) | GraphScheduler; the main loop of `test/gemm/Gemm_DGSF.cpp` | one statement of the main loop |
| `Loop_proofs` (extends `GraphScheduler`) | theorems about `Loop` and `GraphScheduler` | |
| `MCMemSystem`, `MCCache`, `MCLoop`, `MCGraphScheduler` | constants for TLC; the last two hold the small programs | |

**MemPort.** A queue of accepted requests, each answered once, in any order, and
handed on in the order of acceptance. `Lse` and `MemSystem` both implement it
(`ImplementsPort` of each), from the two sides: for `Lse` the memory is a bag that
answers at will, for `MemSystem` the graph issues and pops at will. What each
assumes of the other is a step of the port.

**MemSystem.** `phase`, `i`, `ptr` are the running function and its loop variables,
so the code's order is the only order. Between two updates (`phase = "lse"`) an Lse
may put a request into its next slot (`LseIssue`) and pop an answered one
(`LsePop`); `BeginUpdate(advance)` starts a round with or without an advanced
clock. `status` is the life of a slot: free, suspended, inflight, ready. An address
is its cache block. The cache is a sequence of accepted transactions per bank that it
returns in any order (a sequence, as two transactions of one coalescer entry may be
equal). Where the code calls `throwError` the action is disabled.

**Lse.** `pc` is the function that runs, in the order pop, push, pushReqQ, statusUpdate
(`Select`), pushChannel, then `sendBack2Lse` and `getLseReq` as far as they touch this
Lse. The ring `reqQueue` keeps its three pointers and two order counters. A datum is its
number; `valueQueue` holds the numbers of a store's values. The code's `throwError`
in pushChannel is a guard, and `SendPtrConsistent` says it never matters.

**Cache.** A line is (way, block, dirty). `count` is written only when a line is
filled, so LRU is FIFO here and a set is the sequence of its lines in fill order.
Requests of the memory system carry an id; the default requests with which
`init` fills the acknowledge banks and the DRAM queue are in `Init` as well. DRAM
and bus are a bag: they may refuse transactions and complete them in any order.

**Channel, Loop.** A datum's value is the set of (loop, index) pairs it was computed
from, which tells a proper operand pair from one that mixes iterations. A datum's
ready time is kept relative to the clock. `pc` walks through the program's
statements; the only choices are whether an Lse's slot is free. Values `popped`
are history. In an Lc the Mux's own true and false channels never hold data that is
read; they are left out. Data travel on both paths of a branch; `cond` marks those
whose iteration takes the path (`PathCond`), which decides their latency.

**GraphScheduler.** `graphUpdate` is one more statement, at the end of the main loop. It
evaluates the conditions on the current subgraph's producer and consumer channels,
selects a subgraph (in order or O3, both are initial values of `graphSwitchO3`) and
sets the two gates of every ChanDGSF (`configChan`). `Gemm_DGSF.cpp` calls it in every round, as the model does;
`gemm_Base_auto_sim.cpp` only when the clock advanced, which is the same where no channel stalls it, as in the run.

## Runs

| run | question | bounds |
|---|---|---|
| `memsystem_mix` | safety: nothing lost, doubled or overflowing, with loads and stores and stalled rounds; a port for every Lse | 3 Lses (one stores), 1 slot, 2 banks, 3 blocks, queues 1, one coalescer entry of 2 |
| `memsystem_live` | every sent request is answered; a port with answers out of order | 1 Lse with 2 slots, 4 banks, blocks in the second and the last, `cache_all_hit` |
| `lse_port` | pointers, counters and values of a store stay in step; an in-order port; everything is handed on | 3 slots, 5 requests, buffers of 1, branchMode |
| `lse_speedup` (violation) | the check disabled in `ackCallback` | 4 slots, 2 instances, loads |
| `cache_one_level` | requests exactly once, no entry without a fetch, queues in bounds, a block in one line | 4 blocks, 2 ways, 2 banks, latency 1, reads |
| `cache_two_level` | the first three for two levels, with writes and write-backs that find the queue to DRAM full | one line and bank per level, 2 Mshr entries above, 1 below, queue to DRAM of 1 |
| `cache_live` | every accepted read is answered | 2 blocks, 1 line, 1 bank, latency 0 |
| `cache_write_back` (violation) | what the comment says of evictions | the smallest cache that shows it |
| `loop_branch` | order, conditions, back-pressure, end of one loop with a branch, and that it ends | 5 iterations, body buffers of 1, latencies 0, 1 and 2, speedups 1, 2 and 3, channels called downstream first |
| `loop_nest` | order, keepMode, end of two loops, and that the program ends | 3 x 3 iterations, buffers of 2, channels called upstream first |
| `loop_poison` (violation) | keepMode with a stalled second consumer | 2 x 3 iterations |
| `scheduler` | no datum lost or doubled by a switch, subgraphs over only when done, and that the program ends | 3 subgraphs in a chain, 5 iterations, buffers of 2, both selections |

Why the bounds are enough: queues of size one are full after one request, so
every full/empty corner is met with two or three requests; four blocks on one set of
two ways evict each other in every order; two Mshr entries let an entry be reused while another
of the same block is open; three Lses on two banks contend and coalesce in the
same round, with one coalescer entry to share; four banks make the growing step of the
acknowledge round-robin visit them out of order (0, 1, 3, 2); five requests go round a ring of three slots and reuse each; five
iterations over buffers of one fill the whole pipeline and drain it; three by
three iterations put two inner loops in flight; five iterations over buffers of two
make every subgraph run at least three times, the last time with a rest.
Requests are symmetric in the safety runs of the cache.
`CHECK_DEADLOCK FALSE` is set in the loop and scheduler runs, as the program ends, and in
`cache_two_level`, where the assertion of `updateAckQueue` (`Cache.cpp:731`) ends it.

### What the violations show

1. `cache_write_back`: a dirty block evicted from the last level reaches DRAM as a
   read (`Cache.cpp:251`, `transCacheReq2MemReq`).
2. `loop_poison`: a keepMode buffer may run one datum ahead, so that an outer value
   meets inner data of the next outer iteration (`Channel.cpp:385`, `:446`); in that
   state the buffer also exceeds its size by one, as a keepMode channel ignores
   back-pressure.
3. `lse_speedup`: with two instances a request that one instance has on offer can be
   selected again by the other when `sendMemPtr` wraps (`Lse.cpp:324`); it is sent twice, and
   the second answer meets a slot that is not inflight. With one instance this cannot
   happen (`lse_port`).

### Met while modelling

The models do here what the code does; no run of its own is kept.

* Memory: the write-back address uses the line index in place of the set index
  (`Cache.cpp:273`), which `cache_write_back` does not look at; a completion that meets a dirty victim and a full queue to DRAM gets
  line index -1 and uses it (`Cache.cpp:259`, `:542`): the model, like the code, goes on without a new line, the
  entries are readied, and in `cache_two_level` no request is lost by it; a write-back that hits below is
  acknowledged against the comment at `Cache.cpp:744`; a refill can run into its own
  assertion (`Cache.cpp:731`); the acknowledge round-robin (`MemSystem.cpp:247`) visits banks
  0, 1, 3, 6, ..., which are all banks when their number is a power of two, as the
  shipped 32, and not otherwise; the request round-robin also moves in stalled rounds.
* Lse: below a keepMode channel it sends its last tag more than once (`Lse.cpp:177`), and the
  channel drops a datum early; with `lse_O3`, which the shipped configuration does not set, the loop at `Lse.cpp:403` looks at one slot only.
* GraphScheduler: `checkProducerChanFinish` (`GraphScheduler.cpp:692`) lets a subgraph go while it
  has sent fewer than `DGSF_input_buffer_size` data, where the comment at `:103` asks for enough.
  In the chain of `scheduler` this is harmless. When two consumer channels of a subgraph
  have one common upstream channel (the two paths of a branch, or an edge that skips a
  subgraph as in `test/aes/Aes_DGSF.cpp`), the next subgraph can leave them drained unequally;
  the fuller one then blocks their upstream channel, the other is never full, and the
  in-order selection never switches again: `Completes` fails on such a network.
* A keepMode ChanDGSF whose last tag arrives while its output is shut is not popped (`pop`
  needs `valid`) and serves one more inner datum when it is opened again: `KeptForOneLoop`
  fails on a nest cut there.
* Branches: `test/aes/Aes_Base.cpp:168` overwrites the `cond` of the condition's datum with its
  value, which makes it 0 for every datum of the false path; generated programs do not,
  and `loop_branch` follows them.

## Fairness

* MemSystem: `MemSystemUpdate` runs to its end and is called every round (weak);
  the clock advances again and again (strong: `parallelize` stalls it only until the
  last instance has run); the graph pops answers; a cache keeps accepting fronts and
  answers each Lse, which `cache_live` shows of `Cache` (`memsystem_live` runs with
  `cache_all_hit`, where a front is answered as soon as its acknowledge queue has room).
* Cache: rounds go on (weak); the memory system takes answers, DRAM accepts and
  completes (strong, what DRAMSim3 and `memsystem_live` provide).
* Lse: rounds go on (weak); the memory system takes the request on offer and answers every
  slot (strong, `SentIsAnswered`); the downstream channels take data again and again (strong).
* Loop, GraphScheduler: the main loop goes on (weak); an Lse's slot is free again and again
  (strong, from `memsystem_live` and `HandedOn` of `lse_port`).

## Proofs

All theorems hold for every value of the constants that the modules' assumptions allow. Most
assumptions only exclude empty configurations and sizes of zero. Those of `Channel` and `Loop`
say what the Registry and the tests' main loops provide: the shapes of an Lc's channels, and that
a main loop updates each channel once per round, and an Lc's Mux, loop variable and `lcUpdate`
one after the other (`ProgramAssumption`; every run of `Loop` and `GraphScheduler` evaluates it).
`OrAssumption` of `Cache` says that the bitwise or of two block ids is a block id, which holds when there is a power
of two of them; provers know nothing of powers of two, and TLC evaluates it on every run of `Cache`.

### MemSystem

`MemSystem_proofs`:

* `TypeCorrect`: `Spec => []TypeOK`. Loop variables and ring pointers stay in range.
* `OverflowNever`: `Spec => []NoOverflow`. The two `throwError`s of `addTransaction` and
  `send2Coalescer` cannot be reached.
* `ReservationKept`: `Spec => []CoalescerReservation`.

The inductive invariant is `IInv = TypeOK /\ RecorderOK /\ ReservationOK`. NoOverflow is
not inductive: it speaks of the moment of use, and the check was rounds before.
`RecorderOK` carries the check along (a valid recorder entry's bank still has
room, since only `addTransaction` fills request queues and it empties the
recorder). `ReservationOK` counts the free number, the occupied entries and the
reservations that the running loop has not yet turned into entries (`Unsent`); it
holds in the middle of that loop too, which `CoalescerReservation` does not. There is
one step per action (`TypeStep`, `RecorderStep`, `ReservationStep`), with lemmas on
the helpers they share.

The second part of `MemSystem_proofs`, on where a request is:

* `EachInflightOnce`: `Spec => []InflightExactlyOnce`. An inflight slot is at one place of
  the memory system, another one at none.
* `EntriesMatchTransactions`: `Spec => []CoalescerMatchesTransactions`. A block has
  as many coalescer entries as transactions under way that stand for one.

The invariant is `PInv = IInv /\ OnceOK /\ OfferOK /\ HeadsOK /\ MatchOK`. `OnceOK` is the
first property as a sum of counts, one per family of queues (recorder, coalescer, request
queues, cache, acknowledges), so that a step is an equation: what one family loses
another gains. It holds during the handover too, which the property excludes: there a
request counts in the coalescer as soon as its bank has been sent. `QueueLemmas` has the
equations for appending, removing, and moving a whole queue. `OfferOK` says that what an
Lse offers is its own request in a suspended slot, so that sending it adds a place to a
slot that had none; `HeadsOK` that the transaction leaving a recorder entry stands for the
entry's block, and for its only request unless a coalescer entry is reserved; `MatchOK`
is the second property with the recorder entries in the middle of the handover (`Handed`),
whose coalescer entry exists before their transaction. The first property needs it too: an acknowledge
that found no entry would lose its requests. Model-checking `PInv` on one bank with two entries of
two showed that two equal transactions can be in the cache at once, which a set per
bank did not count; `inCache` is a sequence since.

`MemSystemPort_proofs`: `MemSystemIsPort`, `Spec => ImplementsPort`: the request ring of
every Lse implements `MemPort`. `RingInv` says that the push
pointer is some n slots after the pop pointer and exactly the n slots from the pop pointer on
are not free; with `PInv` (an answer is for an inflight
slot) each step is a step of the port or leaves it alone. `RingLemmas` turns pointers
modulo the ring's size into numbers of requests.

### Lse

`Lse_proofs`, for every ring size and number of requests:

* `SendPtrAlwaysConsistent`: `Spec => []SendPtrConsistent`, and `StoreValueAlwaysMatches`:
  `Spec => []StoreValueMatches`, for every speedup.
* `AnswersAlwaysFindInflight`: `Speedup = 1 => (Spec => []AnswersFindInflight)`, and
  `LseIsPort`: `Speedup = 1 => (Spec => ImplementsPort)`. With more instances the first
  is false (run `lse_speedup`), so the hypothesis is needed.

The invariant is `TypeOK /\ RingOK /\ ValuesOK /\ (Speedup = 1 => AnswersOK)`. The ring holds
the requests `First .. orderId - 1`, each in the slot of its number modulo the ring's size, and
those before `currReqId`, and no others, are in the output channel in order (`RingOK`). The inputs
and the store values wait in the order of their numbers (`ValuesOK`). With one instance a request is
on offer, taken or answered, never two of these (`AnswersOK`).

### Cache

`Cache_proofs`, for one and two levels and every number of sets, ways, banks, entries and
requests:

* `NoBlockTwice`: `Spec => []OneLinePerBlock`. The invariant `LinesInv` adds that the ways of
  a set that is not full are the first ones (`WaysInOrder`), which is why `get_cache_free_line`
  never gives a way twice.
* `NoRequestLost`: `Spec => []EachRequestOnce`. The invariant `OnceInv` says for each request
  that it has at most one position in each of the three families of queues of level 0, is in one
  family at most, and in one exactly when the memory system waits for it (`OnceIn`). It needs
  that a valid entry has a request (`Level0OK`), that level 0 never holds a write-back
  (which `updateAckQueue` would drop), and that a bank answers one entry at a time: entries
  have different turns (`TurnsDiffer`), since `mshrRdPtr` is in range (`WalkOK`).

`CacheTypes_proofs`, for the same caches:

* `CacheTypes`: `Spec => []TypeOK`. No queue exceeds its configured size (the one to DRAM may start beyond it,
  with a default transaction per bank of the last level, and does not grow then), no set its ways, no Mshr entry its
  number of requests; loop variables and pointers stay in range; every address, those of written-back blocks
  included, is one of a block.
* `EntriesAreFetched`: `Spec => []FetchOnTheWay`. An entry that is neither ready nor still to be sent has a fetch
  of its block below. This is what keeps the entries from waiting for ever when several of one block
  are under way and one is answered, cleared and used again.

`TypeInv` adds to `TypeOK` what a phase takes from the one before it: that there are acknowledges to complete
(`PhaseOK`), and that an entry in use has requests, at least one, all of its own block, while one that is not
is empty (`EntryOK`), so that answering an entry answers its block. The address written back is within the
blocks because a line index, set times ways plus way, is less than the number of lines, and by `OrAssumption`.
The order in which the banks and entries of a round are taken is `InOrder`, and `InOrderIs` proves
that it lists every element of a finite set once, behind those of smaller keys; so many entries come before
one that is sent to DRAM that the queue has room for it and for them (`ReqQueue2MemOK`).

The invariant of the second is `TypeInv /\ OnceInv /\ FetchInv`. `FetchInv` says more than the property: what an entry waits for is not a
write-back, since the level below drops those when they are done. That the request sent down is none is where
`OnceInv` is used. Each step then either leaves the fetch somewhere below (`MemStays`, `CacheStays`)
or readies every entry that waits for its block, and starts no wait without a fetch (`WaitingWas`).

### Channel, Loop, GraphScheduler

`Loop_proofs`, for every graph, every latency, speedup and size of each channel, every bound of
a loop and every order in which the main loop calls the channels:

* `BuffersAreBounded`: `KeepMode = {} => (Spec => []BufferWithinSize)`, for any nest of loops, and
  `ScheduledBuffersAreBounded`, the same of `SchedSpec`: the scheduler may open and shut the channels
  of any cut into subgraphs between two rounds. A keepMode channel ignores back-pressure
  (run `loop_poison`), so the hypothesis is needed.
* `IterationsInOrder`: `PlainNetwork => (Spec => []InIterationOrder)`. `PlainNetwork` says that
  no channel is in keepMode, drainMode or a ChanDGSF, and that each observed channel is in
  the body of one outermost loop and fed by that body only. In a nest the
  property rests on keepMode and on the sizes of the buffers: it fails for some (`loop_poison`).
* `CondsFollowPaths`: `BranchNetwork => (Spec => []CondOfIteration)`. `BranchNetwork` adds
  that a channel on a path is fed by the condition of the branch and by channels of its path.
* `EndMeansAllDone`: `EndNetwork => (Spec => []EndMeansDone)`. `EndNetwork` adds that all observed channels are
  in the body of one loop, that all of them but the Lses feed the channel whose data its Lc counts, and that
  Chan_end waits for that Lc. A channel that leads nowhere may still be at work when the program
  ends, so this is needed too. `FedByAll` says it with sets that contain every upstream channel of
  their members, for which the proof needs no induction along the paths of the graph.

`MCLoop` assumes `BranchNetwork` and `EndNetwork` of the network of `loop_branch`, so that TLC evaluates all three
hypotheses.

The invariant of the first two is `LoopInv = NetInv /\ PcOK /\ LcOK /\ IndexOK`. BufferWithinSize is
not inductive, since the check and the push are in different calls: a channel becomes valid
after looking at `bp` of its downstream channels, which they computed in this round or the last one, and a downstream channel
pushes, in its own call, whatever is valid. `RoomOK` links the two: a buffer whose `bp` is clear has room, and so
has a buffer whose upstream channel is valid when its own turn in the round is still to come (`Due`). That each channel is updated once
per round is what makes `Due` a promise for one datum only. The rest is types: a Mux's datum is an index of its own
loop (`IndexOK`), which `lcUpdate` reads back.

`OrderInv` is the invariant of the third: row k of a buffer is iteration `popped + k - 1` (`RowsOK`), a
valid channel offers iteration `popped` (`ValueOK`), and a channel has taken everything its upstream channels
have offered, but for the datum that is due (`TakenOK`); two operands of a row then have the same
number whatever the latencies of the paths they took. `LoopsOK` is about the wires between Mux,
loop variable and Lc, in which one datum goes round: at each of the three statements of an Lc (`Circle`), where it is and
that `lc.var` and `sel` agree with the number of iterations begun (`Known`). `CondOK` carries the cond of each datum
along the path: in the buffers, and in the matched datum between `push` and `pop`.

`EndOK` carries the count of the iterations round the loop of the last theorem: no channel takes more than `Bound` data
(`BoundedOK`), `loopNum` is at least what the loopVar has sent, but for the datum that became valid since the Lc last ran
(`CountedOK`), so that only counts of `Bound` enter `loopNumQ`; `loopEnd` is at most what `getEnd` has
given up or is about to (`ReturnedOK`), since it has no downstream channel and drops in every round what it got
in the last; and `sendEnd` and Chan_end hold data only when that is `Bound` (`EndedOK`). Then `TakenOK` leads back
from `getEnd` to every channel of the body.

### Only model-checked

* Liveness: fairness and ENABLED are out of the prover's reach.
* `KeptUntilLast` and `KeptForOneLoop`, and `InIterationOrder` and `EndMeansDone` of a nest: they depend on keepMode and on how far its consumers may be apart, and do not
  hold of every network (`loop_poison`).
* `InIterationOrder`, `EndMeansDone` and `OverMeansDone` under the scheduler (`scheduler`): a shut ChanDGSF takes and offers data in
  rounds of its own, which `TakenOK` does not describe.

## Not modelled

* ChanSGMF, LcSGMF, MuxSGMF (tag matching). The one program that uses them is
  `test/bfs/Bfs_SGMF.cpp`; its loops push every iteration with tag 0 (`Mux.cpp:533`), which the loop
  variable turns into 1, so that no two tags are ever under way and nothing is matched. A
  model with several tags would be of a program that does not exist. Read on the way:
  `pushBuffer` declares its datum twice (`Channel.cpp:1703`, `:1708`), so that `last` and `cond` of the
  upstream datum are lost.
* ChanPartialMux: it pops the selected path only while both paths deliver every datum,
  since the code that dropped the others is commented out (`Channel.cpp:1281-1290`); no
  statement about it would hold.
* Cuts of a program into subgraphs with keepMode channels between them, as
  `test/gemm/Gemm_DGSF.cpp` writes them: some of its channels have three upstream channels, one
  of them in keepMode, which `pushBuffer` rejects.
* An Lse next to a channel of larger speedup: `currId` exceeds the size of `suspendReqVec`
  (`Lse.cpp:287`), an access out of range.
* Write-through, no-allocate, random replacement and line locking of the cache (not
  selected by the configuration); cache contents (lines carry no data); bus and DRAM timing.
* Spm and Arbiter (unused); graph construction and code generation (compile time); profiling,
  printing and file input; the Watchdog, which only observes.
* DRAMSim2 and DRAMSim3 are third-party. They and their vendored libraries are nearly all of
  the repository's lines.

## Plan

1. Done: `MemSystem`, `Cache`, `Channel` with branchMode and ChanDGSF, `Loop`, `Lse`,
   `GraphScheduler`, `MemPort`; proofs of the two refinements of `MemPort`, of the safety properties of `MemSystem`, `Lse`
   and `Cache`, and of those of `Loop` for networks without keepMode.
2. An abstract cache (accept, answer in any order, each once), shown to be implemented
   by `Cache`, and to be what `MemSystem` assumes of its box.
3. Proofs of `InIterationOrder` and `OverMeansDone` under the scheduler, for chains of subgraphs; of `KeptUntilLast` for
   nests whose keepMode channels have one consumer.
4. MemoryDataBus timing; connection rules and pathBalance of the
   Registry as operators checked against their purpose.
