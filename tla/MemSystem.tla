----------------------------- MODULE MemSystem -----------------------------
(***************************************************************************)
(* The memory system's front end (src/DataflowSim/src/module/mem):         *)
(* MemSystem::MemSystemUpdate with its bank recorder, per-bank request and *)
(* acknowledge queues and the Coalescer, between the load/store elements   *)
(* (Lses) and the cache.                                                   *)
(*                                                                         *)
(* The simulator is one thread.  Every round the channels run (phase       *)
(* "lse") and then MemSystemUpdate runs to its end.  The loops of          *)
(* MemSystemUpdate that carry state from one iteration to the next are     *)
(* modelled one iteration per step; `phase', `i' and `ptr' are the         *)
(* function that is executing and its loop variables, so the order of the  *)
(* code is the only order.  Where the code calls Debug::throwError, which  *)
(* asserts, the action's guard is false; NoOverflow and                    *)
(* CoalescerMatchesTransactions say that this is never met.                *)
(*                                                                         *)
(* An address is represented by its cache block: neither the bank          *)
(* (getBankId) nor the coalescing tag (getAddrTag) looks below it.  The    *)
(* cache is a box that may refuse a transaction, and returns accepted ones *)
(* in any order; module Cache says what is inside.  Of an Lse only its     *)
(* ring of request slots is kept.                                          *)
(***************************************************************************)
EXTENDS Integers, Sequences, FiniteSets

CONSTANTS
    NumLse,        \* lseRegistry.size()
    StoreLses,     \* the Lses with isWrite = 1
    NumSlots,      \* Lse::size, slots of an Lse's reqQueue
    NumBanks,      \* memSystem_queue_bank_num = cache_bank_num_L1
    Blocks,        \* block ids that requests touch
    ReqQueueSize,  \* memSystem_req_queue_size_per_bank
    AckQueueSize,  \* memSystem_ack_queue_size_per_bank
    EntryNum,      \* memSys_coalescer_entry_num
    EntrySize,     \* memSys_coalescer_size_per_entry
    CacheAllHit,   \* Global::cache_all_hit
    NoReq          \* "no request": the first component of a pair is false

Lses  == 0 .. NumLse - 1
Slots == 0 .. NumSlots - 1
Banks == 0 .. NumBanks - 1

\* MemReq: whose it is, the slot the answer goes to, the block, and whether
\* it stands for a whole coalescer entry.
MemReq == [lse : Lses, slot : Slots, blk : Blocks, coalesced : BOOLEAN]

ASSUME MemSystemAssumption ==
    /\ NumLse \in Nat \ {0} /\ NumSlots \in Nat \ {0} /\ NumBanks \in Nat \ {0}
    /\ ReqQueueSize \in Nat \ {0} /\ AckQueueSize \in Nat \ {0}
    /\ EntryNum \in Nat /\ EntrySize \in Nat
    /\ Blocks \subseteq Nat
    /\ StoreLses \subseteq Lses
    /\ CacheAllHit \in BOOLEAN
    /\ NoReq \notin MemReq

VARIABLES
    phase,      \* the function of MemSystemUpdate that is running
    i, ptr,     \* loop counter and round-robin pointer of that function
    clkAdd,     \* ClkDomain::clkAdd of this round: the clock advanced
    lseRecorder,            \* Lses answered so far by this sendBack2Lse
    status,                 \* life of each slot of each Lse's reqQueue
    suspendReq,             \* Lse::suspendReqVec of the current instance
    pushPtr, popPtr,        \* Lse::pushQueuePtr, and the next slot to pop
    bankRecorder, reqQueue, ackQueue,
    inCache,                \* transactions in the cache, by bank, as accepted
    coalescerTable, coalescerFreeEntryNum, reqQueueWritePtr

control == <<phase, i, ptr, clkAdd>>
lseVars == <<status, suspendReq, pushPtr, popPtr>>
coalVars == <<coalescerTable, coalescerFreeEntryNum>>
vars == <<control, lseRecorder, lseVars, bankRecorder, reqQueue, ackQueue,
          inCache, coalVars, reqQueueWritePtr>>

-----------------------------------------------------------------------------
getBankId(blk) == blk % NumBanks

\* resetBankRecorder; the tag of an invalid entry is not read, and is 0 here
EmptyEntry == [valid |-> FALSE, addrTag |-> 0, hasRegisteredCoalescer |-> FALSE,
               reqQueue |-> <<>>]

isWrite(req) == req.lse \in StoreLses

\* searchCoalescer(blk) returns e: the first coalescer entry of the block.
searchCoalescer(blk, e) ==
    /\ e \in DOMAIN coalescerTable
    /\ coalescerTable[e].blockAddr = blk
    /\ \A d \in 1 .. e - 1 : coalescerTable[d].blockAddr # blk

Drop(seq, k) == SubSeq(seq, 1, k - 1) \o SubSeq(seq, k + 1, Len(seq))

\* MemSystem's member ackQueueReadPtr: initialised to 0 and never assigned.
ackQueueReadPtr == 0

\* Mutant of RoundRobin: one bank further.
RoundRobinSkewed(p, k, size) == (p + k + 1) % size

\* The step of both round-robin loops: ptr = (ptr + i) % size, with i growing.
RoundRobin(p, k, size) == (p + k) % size

\* Mutant of NextSlot: no modulo.
NextSlotNoWrap(p) == p + 1

NextSlot(p) == (p + 1) % NumSlots

Init ==
    /\ phase = "lse" /\ i = 0 /\ ptr = 0 /\ clkAdd = FALSE
    /\ lseRecorder = {}
    /\ status = [l \in Lses |-> [s \in Slots |-> "free"]]
    /\ suspendReq = [l \in Lses |-> NoReq]
    /\ pushPtr = [l \in Lses |-> 0]
    /\ popPtr = [l \in Lses |-> 0]
    /\ bankRecorder = [b \in Banks |-> EmptyEntry]
    /\ reqQueue = [b \in Banks |-> <<>>]
    /\ ackQueue = [b \in Banks |-> <<>>]
    /\ inCache = [b \in Banks |-> <<>>]
    /\ coalescerTable = <<>>
    /\ coalescerFreeEntryNum = 0
    /\ reqQueueWritePtr = 0

-----------------------------------------------------------------------------
(***************************************************************************)
(* What the Lses do between two updates.                                   *)
(***************************************************************************)

\* A request enters the slot at pushQueuePtr and is put up for MemSystem.
LseIssue(l, blk) ==
    /\ phase = "lse"
    /\ suspendReq[l] = NoReq
    /\ status[l][pushPtr[l]] = "free"
    /\ status' = [status EXCEPT ![l][pushPtr[l]] = "suspended"]
    /\ suspendReq' = [suspendReq EXCEPT ![l] =
           [lse |-> l, slot |-> pushPtr[l], blk |-> blk, coalesced |-> FALSE]]
    /\ pushPtr' = [pushPtr EXCEPT ![l] = NextSlot(@)]
    /\ UNCHANGED <<control, lseRecorder, popPtr, bankRecorder, reqQueue,
                   ackQueue, inCache, coalVars, reqQueueWritePtr>>

\* An answered request leaves its slot, in request order.
LsePop(l) ==
    /\ phase = "lse"
    /\ status[l][popPtr[l]] = "ready"
    /\ status' = [status EXCEPT ![l][popPtr[l]] = "free"]
    /\ popPtr' = [popPtr EXCEPT ![l] = NextSlot(@)]
    /\ UNCHANGED <<control, lseRecorder, suspendReq, pushPtr, bankRecorder,
                   reqQueue, ackQueue, inCache, coalVars, reqQueueWritePtr>>

\* The round's channel work is over; clkUpdate has said whether the clock
\* advanced or is stalled for another pass of the unrolled instances.
BeginUpdate(advance) ==
    /\ phase = "lse"
    /\ clkAdd' = advance
    /\ phase' = "sendBack" /\ i' = 0 /\ ptr' = ackQueueReadPtr
    /\ lseRecorder' = {}
    /\ UNCHANGED <<lseVars, bankRecorder, reqQueue, ackQueue, inCache, coalVars,
                   reqQueueWritePtr>>

-----------------------------------------------------------------------------
(***************************************************************************)
(* sendBack2Lse: one answer per Lse and call, from the fronts of the       *)
(* acknowledge queues; a coalesced front answers its coalescer entry.      *)
(***************************************************************************)

StartCollect == phase' = "collect" /\ i' = 0 /\ ptr' = reqQueueWritePtr

\* The loop header: ptr advances by i, which itself grows.  The set of served
\* Lses is a local of the function and dies with it.
NextAckBank(served) ==
    /\ UNCHANGED clkAdd
    /\ \/ /\ i + 1 < NumBanks
          /\ i' = i + 1 /\ ptr' = RoundRobin(ptr, i + 1, NumBanks) /\ UNCHANGED phase
          /\ lseRecorder' = served
       \/ /\ i + 1 = NumBanks
          /\ lseRecorder' = {}
          /\ \/ clkAdd /\ phase' = "getFromCache" /\ i' = 0 /\ ptr' = 0
             \/ ~clkAdd /\ StartCollect

\* Lse::ackCallback, which does not look at the slot's state.
ackCallback(req) ==
    /\ status' = [status EXCEPT ![req.lse][req.slot] = "ready"]
    /\ UNCHANGED <<suspendReq, pushPtr, popPtr>>

\* Mutant of PopAck: the answered acknowledge stays.
KeepAck == UNCHANGED ackQueue

PopAck == ackQueue' = [ackQueue EXCEPT ![ptr] = Tail(@)]

SkipEmptyBank ==
    /\ phase = "sendBack" /\ ackQueue[ptr] = <<>>
    /\ NextAckBank(lseRecorder)
    /\ UNCHANGED <<lseVars, bankRecorder, reqQueue, ackQueue, inCache, coalVars,
                   reqQueueWritePtr>>

AckSingle ==
    /\ phase = "sendBack" /\ ackQueue[ptr] # <<>>
    /\ LET req == Head(ackQueue[ptr]) IN
       /\ ~req.coalesced
       /\ \/ req.lse \notin lseRecorder /\ ackCallback(req) /\ PopAck
          \/ req.lse \in lseRecorder /\ UNCHANGED <<lseVars, ackQueue>>
       /\ NextAckBank(lseRecorder \cup {req.lse})
    /\ UNCHANGED <<bankRecorder, reqQueue, inCache, coalVars, reqQueueWritePtr>>

\* Mutant of popCoalescerEntry: the empty entry stays.
KeepEntry(e) == UNCHANGED coalescerTable

popCoalescerEntry(e) == coalescerTable' = Drop(coalescerTable, e)

Waiting(e) == coalescerTable[e].coalescerQueue
Unserved(e) == {k \in DOMAIN Waiting(e) : Waiting(e)[k].lse \notin lseRecorder}

\* One pass over the entry's queue answers the first request of every Lse
\* not yet answered.
AnswerWaiting(e, k) ==
    /\ \A j \in Unserved(e) : k <= j
    /\ ackCallback(Waiting(e)[k])
    /\ lseRecorder' = lseRecorder \cup {Waiting(e)[k].lse}
    /\ coalescerTable' = [coalescerTable EXCEPT ![e].coalescerQueue = Drop(@, k)]
    /\ UNCHANGED <<control, ackQueue>>

\* After the pass the entry, and the acknowledge, go if the queue is empty.
LeaveEntry(e) ==
    /\ Unserved(e) = {}
    /\ \/ Waiting(e) = <<>> /\ popCoalescerEntry(e) /\ PopAck
       \/ Waiting(e) # <<>> /\ UNCHANGED <<coalescerTable, ackQueue>>
    /\ NextAckBank(lseRecorder)
    /\ UNCHANGED lseVars

AckEntry(e) == LeaveEntry(e) \/ \E k \in Unserved(e) : AnswerWaiting(e, k)

AckCoalesced ==
    /\ phase = "sendBack" /\ ackQueue[ptr] # <<>>
    /\ Head(ackQueue[ptr]).coalesced
    /\ \E e \in DOMAIN coalescerTable :
          searchCoalescer(Head(ackQueue[ptr]).blk, e)      \* none: throwError
          /\ AckEntry(e)
    /\ UNCHANGED <<bankRecorder, reqQueue, inCache, coalescerFreeEntryNum,
                   reqQueueWritePtr>>

-----------------------------------------------------------------------------
(***************************************************************************)
(* The part that runs only when the clock advanced: answers from the cache *)
(* into the acknowledge queues, then requests into the cache.              *)
(***************************************************************************)

GetFromCache ==
    /\ phase = "getFromCache"
    /\ \/ /\ Len(ackQueue[i]) < AckQueueSize
          /\ \E k \in DOMAIN inCache[i] :
                /\ ackQueue' = [ackQueue EXCEPT ![i] = Append(@, inCache[i][k])]
                /\ inCache' = [inCache EXCEPT ![i] = Drop(@, k)]
       \/ UNCHANGED <<ackQueue, inCache>>
    /\ \/ i + 1 < NumBanks /\ i' = i + 1 /\ UNCHANGED phase
       \/ i + 1 = NumBanks /\ i' = 0 /\ phase' = "send2Cache"
    /\ UNCHANGED <<ptr, clkAdd, lseRecorder, lseVars, bankRecorder, reqQueue,
                   coalVars, reqQueueWritePtr>>

send2Cache ==
    /\ phase = "send2Cache"
    /\ \/ /\ reqQueue[i] # <<>>
          /\ reqQueue' = [reqQueue EXCEPT ![i] = Tail(@)]
          /\ \/ /\ CacheAllHit
                /\ Len(ackQueue[i]) < AckQueueSize
                /\ ackQueue' = [ackQueue EXCEPT ![i] = Append(@, Head(reqQueue[i]))]
                /\ UNCHANGED inCache
             \/ /\ ~CacheAllHit
                /\ inCache' = [inCache EXCEPT ![i] = Append(@, Head(reqQueue[i]))]
                /\ UNCHANGED ackQueue
       \/ /\ \/ reqQueue[i] = <<>>
             \/ ~CacheAllHit                     \* Cache::addTransaction refuses
             \/ Len(ackQueue[i]) >= AckQueueSize
          /\ UNCHANGED <<reqQueue, ackQueue, inCache>>
    /\ \/ i + 1 < NumBanks /\ i' = i + 1 /\ UNCHANGED <<phase, ptr>>
       \/ i + 1 = NumBanks /\ StartCollect
    /\ UNCHANGED <<clkAdd, lseRecorder, lseVars, bankRecorder, coalVars,
                   reqQueueWritePtr>>

-----------------------------------------------------------------------------
(***************************************************************************)
(* getLseReq: at most one new transaction per bank until the clock         *)
(* advances, further loads of the same block coalescing with it.           *)
(***************************************************************************)

NextLse ==
    /\ UNCHANGED clkAdd
    /\ \/ /\ i + 1 < NumLse
          /\ i' = i + 1 /\ ptr' = RoundRobin(ptr, i + 1, NumLse)
          /\ UNCHANGED <<phase, reqQueueWritePtr>>
       \/ /\ i + 1 = NumLse
          /\ i' = 0 /\ ptr' = 0
          /\ reqQueueWritePtr' = (reqQueueWritePtr + 1) % NumLse
          /\ phase' = IF clkAdd THEN "send2Coalescer" ELSE "lse"

setInflight(req) ==
    /\ status' = [status EXCEPT ![req.lse][req.slot] = "inflight"]
    /\ suspendReq' = [suspendReq EXCEPT ![req.lse] = NoReq]
    /\ UNCHANGED <<pushPtr, popPtr>>

\* Mutant of Room: off by one.
RoomForOneMore(b) == Len(reqQueue[b]) <= ReqQueueSize

Room(b) == Len(reqQueue[b]) < ReqQueueSize

\* entry and req are loads of one block, and the coalescer has an entry for them
Coalesceable(entry, req) ==
    /\ ~isWrite(req) /\ ~isWrite(Head(entry.reqQueue))
    /\ coalescerFreeEntryNum > 0
    /\ req.blk = entry.addrTag

\* The recorder entry with its first request, with a coalescer entry reserved
\* for it, and with a further request coalesced.
FirstReq(entry, req) ==
    [entry EXCEPT !.valid = TRUE, !.addrTag = req.blk, !.reqQueue = Append(@, req)]
Reserve(entry) == [entry EXCEPT !.hasRegisteredCoalescer = TRUE]
Coalesce(entry, req) ==
    [Reserve(entry) EXCEPT !.reqQueue = Append(@, [req EXCEPT !.coalesced = TRUE])]

CollectFirst(b, req) ==
    /\ Room(b) /\ ~bankRecorder[b].valid
    /\ bankRecorder' = [bankRecorder EXCEPT ![b] = FirstReq(@, req)]
    /\ setInflight(req)
    /\ UNCHANGED coalescerFreeEntryNum

\* Mutant of ReserveEntry: the count is not taken down.
ReserveNothing(b) == UNCHANGED coalescerFreeEntryNum

\* The first coalescing in a recorder entry takes a coalescer entry for it.
ReserveEntry(b) ==
    coalescerFreeEntryNum' = IF bankRecorder[b].hasRegisteredCoalescer
                             THEN coalescerFreeEntryNum
                             ELSE coalescerFreeEntryNum - 1

CollectCoalesced(b, req) ==
    /\ Room(b) /\ bankRecorder[b].valid /\ Coalesceable(bankRecorder[b], req)
    /\ ReserveEntry(b)
    /\ \/ /\ Len(bankRecorder[b].reqQueue) < EntrySize
          /\ bankRecorder' = [bankRecorder EXCEPT ![b] = Coalesce(@, req)]
          /\ setInflight(req)
       \/ /\ Len(bankRecorder[b].reqQueue) >= EntrySize
          /\ bankRecorder' = [bankRecorder EXCEPT ![b] = Reserve(@)]
          /\ UNCHANGED lseVars

CollectBlocked(b, req) ==
    /\ \/ ~Room(b)
       \/ bankRecorder[b].valid /\ ~Coalesceable(bankRecorder[b], req)
    /\ UNCHANGED <<bankRecorder, coalescerFreeEntryNum, lseVars>>

Collect ==
    /\ phase = "collect" /\ suspendReq[ptr] # NoReq
    /\ LET req == suspendReq[ptr]
           b == getBankId(req.blk)
       IN CollectFirst(b, req) \/ CollectCoalesced(b, req) \/ CollectBlocked(b, req)
    /\ NextLse
    /\ UNCHANGED <<lseRecorder, reqQueue, ackQueue, inCache, coalescerTable>>

CollectNothing ==
    /\ phase = "collect" /\ suspendReq[ptr] = NoReq
    /\ NextLse
    /\ UNCHANGED <<lseRecorder, lseVars, bankRecorder, reqQueue, ackQueue,
                   inCache, coalVars>>

-----------------------------------------------------------------------------
(***************************************************************************)
(* The end of getLseReq when the clock advanced: registered recorder       *)
(* entries go to the coalescer, then the first request of every recorder   *)
(* entry goes to its bank's request queue for all of them.                 *)
(***************************************************************************)

Recorded == {b \in Banks : bankRecorder[b].valid}
Registered == {b \in Recorded : bankRecorder[b].hasRegisteredCoalescer}

send2Coalescer ==
    /\ phase = "send2Coalescer"
    /\ \/ /\ i \in Registered
          /\ Len(coalescerTable) < EntryNum       \* else throwError
          /\ coalescerTable' = Append(coalescerTable,
                 [blockAddr |-> bankRecorder[i].addrTag,
                  coalescerQueue |-> bankRecorder[i].reqQueue])
       \/ i \notin Registered /\ UNCHANGED coalescerTable
    /\ \/ i + 1 < NumBanks /\ i' = i + 1 /\ UNCHANGED phase
       \/ i + 1 = NumBanks /\ i' = 0 /\ phase' = "addTransaction"
    /\ UNCHANGED <<ptr, clkAdd, lseRecorder, lseVars, bankRecorder, reqQueue,
                   ackQueue, inCache, coalescerFreeEntryNum, reqQueueWritePtr>>

addTransaction ==
    /\ phase = "addTransaction"
    /\ \A b \in Recorded : Len(reqQueue[b]) < ReqQueueSize       \* else throwError
    /\ reqQueue' = [b \in Banks |->
           IF b \in Recorded
           THEN Append(reqQueue[b],
                       [Head(bankRecorder[b].reqQueue) EXCEPT
                            !.coalesced = bankRecorder[b].hasRegisteredCoalescer])
           ELSE reqQueue[b]]
    /\ bankRecorder' = [b \in Banks |->
           IF b \in Recorded THEN EmptyEntry ELSE bankRecorder[b]]
    /\ coalescerFreeEntryNum' = EntryNum - Len(coalescerTable)
    /\ phase' = "lse"
    /\ UNCHANGED <<i, ptr, clkAdd, lseRecorder, lseVars, ackQueue, inCache,
                   coalescerTable, reqQueueWritePtr>>

-----------------------------------------------------------------------------
UpdateStep ==
    \/ SkipEmptyBank \/ AckSingle \/ AckCoalesced
    \/ GetFromCache \/ send2Cache
    \/ Collect \/ CollectNothing
    \/ send2Coalescer \/ addTransaction

Next ==
    \/ \E l \in Lses, blk \in Blocks : LseIssue(l, blk)
    \/ \E l \in Lses : LsePop(l)
    \/ \E advance \in BOOLEAN : BeginUpdate(advance)
    \/ UpdateStep

Spec == Init /\ [][Next]_vars

(***************************************************************************)
(* Fairness.  The simulation loop calls MemSystemUpdate every round and    *)
(* the call terminates; Channel::parallelize stalls the clock only until   *)
(* its last instance has run, so the clock advances again and again; the   *)
(* network below an Lse takes the answers; the cache keeps accepting the   *)
(* front of a bank and answers what it accepted.                           *)
(***************************************************************************)
CacheAccepts(b) == send2Cache /\ i = b /\ reqQueue'[b] # reqQueue[b]
CacheAnswers(b, l) ==
    /\ GetFromCache /\ i = b
    /\ ackQueue'[b] # ackQueue[b] /\ ackQueue'[b][Len(ackQueue'[b])].lse = l

Fairness ==
    /\ WF_vars(UpdateStep)
    /\ SF_vars(BeginUpdate(TRUE))
    /\ \A l \in Lses : SF_vars(LsePop(l))

CacheFairness ==
    /\ \A b \in Banks : SF_vars(CacheAccepts(b))
    /\ \A b \in Banks, l \in Lses : SF_vars(CacheAnswers(b, l))

FairSpec == Spec /\ Fairness /\ CacheFairness

-----------------------------------------------------------------------------
Phases == {"lse", "sendBack", "getFromCache", "send2Cache", "collect",
           "send2Coalescer", "addTransaction"}
RecorderEntry == [valid : BOOLEAN, addrTag : Nat,
                  hasRegisteredCoalescer : BOOLEAN, reqQueue : Seq(MemReq)]
CoalescerEntry == [blockAddr : Nat, coalescerQueue : Seq(MemReq)]

ControlOK ==
    /\ phase \in Phases
    /\ i \in Nat /\ ptr \in Nat
    /\ phase \in {"sendBack", "getFromCache", "send2Cache", "send2Coalescer"} => i \in Banks
    /\ phase = "sendBack" => ptr \in Banks
    /\ phase = "collect" => i \in Lses /\ ptr \in Lses
    /\ clkAdd \in BOOLEAN
    /\ lseRecorder \subseteq Lses
    /\ reqQueueWritePtr \in Lses

LseOK ==
    /\ status \in [Lses -> [Slots -> {"free", "suspended", "inflight", "ready"}]]
    /\ suspendReq \in [Lses -> MemReq \cup {NoReq}]
    /\ pushPtr \in [Lses -> Slots] /\ popPtr \in [Lses -> Slots]

QueuesOK ==
    /\ bankRecorder \in [Banks -> RecorderEntry]
    /\ reqQueue \in [Banks -> Seq(MemReq)]
    /\ ackQueue \in [Banks -> Seq(MemReq)]
    /\ inCache \in [Banks -> Seq(MemReq)]
    /\ coalescerTable \in Seq(CoalescerEntry)
    /\ coalescerFreeEntryNum \in Nat

\* Every variable has its type; loop variables stay inside their loops.
TypeOK == ControlOK /\ LseOK /\ QueuesOK

\* Between the two loops that empty the recorder a request is in two places.
Handover == phase \in {"send2Coalescer", "addTransaction"}

(***************************************************************************)
(* The throwErrors "Try to push req into a full reqQueue" and "Try write a *)
(* full coalescer" are never reached, although room is checked when a      *)
(* request is recorded and used only when, possibly several stalled rounds *)
(* later, the clock advances.                                              *)
(***************************************************************************)
NoOverflow ==
    /\ phase = "addTransaction" => \A b \in Recorded : Len(reqQueue[b]) < ReqQueueSize
    /\ phase = "send2Coalescer" /\ i \in Registered => Len(coalescerTable) < EntryNum

(***************************************************************************)
(* A sent request is in exactly one place and an unsent or answered one in *)
(* none: no request is lost or answered twice on its way through recorder, *)
(* queues, cache and coalescer (the check disabled in Lse::ackCallback,    *)
(* "Current req is not an inflight req!", would never fire).               *)
(***************************************************************************)
Is(req, l, s) == req.lse = l /\ req.slot = s
Alone(req, l, s) == Is(req, l, s) /\ ~req.coalesced

\* The positions of a family of queues whose request matches.
At(place, queues, Match(_)) ==
    UNION {{place} \X {x} \X {k \in DOMAIN queues[x] : Match(queues[x][k])} :
           x \in DOMAIN queues}

Places(l, s) ==
    LET Own(req) == Is(req, l, s)
        Single(req) == Alone(req, l, s)
    IN At("recorder", [b \in Banks |-> bankRecorder[b].reqQueue], Own)
       \cup At("coalescer", [e \in DOMAIN coalescerTable |->
                                 coalescerTable[e].coalescerQueue], Own)
       \cup At("reqQueue", reqQueue, Single)
       \cup At("ackQueue", ackQueue, Single)
       \cup At("inCache", inCache, Single)

InflightExactlyOnce ==
    ~Handover => \A l \in Lses, s \in Slots :
        Cardinality(Places(l, s)) = IF status[l][s] = "inflight" THEN 1 ELSE 0

(***************************************************************************)
(* A block has as many coalescer entries as there are transactions below   *)
(* that will answer one.  searchCoalescer finds an entry by block alone,   *)
(* so a surplus entry would never be popped, and a missing one is the      *)
(* throwError "Not find an entry, this req is not a coalesced one".        *)
(***************************************************************************)
CoalescerMatchesTransactions ==
    LET For(blk) == {e \in DOMAIN coalescerTable : coalescerTable[e].blockAddr = blk}
        Below(blk) ==
            LET Represents(req) == req.coalesced /\ req.blk = blk
            IN At("reqQueue", reqQueue, Represents)
               \cup At("ackQueue", ackQueue, Represents)
               \cup At("inCache", inCache, Represents)
    IN ~Handover => \A blk \in Blocks : Cardinality(For(blk)) = Cardinality(Below(blk))

(***************************************************************************)
(* The cached count of free coalescer entries never promises more than     *)
(* there are: with the entries reserved by the recorder and the occupied   *)
(* ones it stays within the table, although it is recomputed only when the *)
(* clock advances.                                                         *)
(***************************************************************************)
CoalescerReservation ==
    ~Handover =>
        coalescerFreeEntryNum + Cardinality(Registered) + Len(coalescerTable) <= EntryNum

\* Every request that was sent is answered.
SentIsAnswered ==
    \A l \in Lses, s \in Slots : status[l][s] = "inflight" ~> status[l][s] = "ready"

(***************************************************************************)
(* Refinement: seen from Lse l the memory system is an in-order port.  Its *)
(* queue is the slots in use, from popPtr on.                              *)
(***************************************************************************)
PortQueue(l) ==
    LET n == Cardinality({s \in Slots : status[l][s] # "free"})
        slot(k) == (popPtr[l] + k - 1) % NumSlots
    IN [k \in 1 .. n |-> [req      |-> slot(k),
                          answered |-> status[l][slot(k)] = "ready"]]

Port(l) == INSTANCE MemPort WITH Capacity <- NumSlots, Req <- Slots, queue <- PortQueue(l)

\* Every Lse sees a port that answers each accepted request once and nothing
\* else, whatever way its answer took (alone or as part of a coalescer entry,
\* in order or not): MemSystem implements MemPort.
\* (That is \A l \in Lses : Port(l)!Spec, as one formula about all of them.)
ImplementsPort ==
    /\ \A l \in Lses : Port(l)!Init
    /\ [][\A l \in Lses : Port(l)!Next \/ UNCHANGED PortQueue(l)]_vars

=============================================================================
