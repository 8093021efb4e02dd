------------------------------- MODULE Cache -------------------------------
(***************************************************************************)
(* The cache (src/DataflowSim/src/module/mem): Cache with its Mshr, one or *)
(* two levels, between MemSystem's queues above and the memory data bus    *)
(* and DRAM below.  A behaviour repeats what MemSystemUpdate does in a     *)
(* round in which the clock advances: callBack, mem_req_complete, the bus, *)
(* addTransaction, cacheUpdate, sendReq2Mem.  `phase', `level' and `i' are *)
(* the function that runs and its loop variables.                          *)
(*                                                                         *)
(* An address is its block id, the same at every level.  Lines carry no    *)
(* data.  A line's `count' is written only by set_cache_line, so a set is  *)
(* the sequence of its lines in the order they were filled; ways are       *)
(* filled in index order.  Both levels are write-back, write-allocate.     *)
(* DRAM and bus are a bag of transactions that may refuse more and that    *)
(* completes them in any order.                                            *)
(***************************************************************************)
EXTENDS Integers, Sequences, FiniteSets

CONSTANTS
    MaxLevel,          \* cache_max_level: 1 or 2
    NumBlocks,         \* blocks of the address space, a power of two
    NumSets, Ways, NumBanks,             \* per level: set number, ways, banks
    Latency,                             \* cache_access_latency
    ReqQueueSize, AckQueueSize,          \* reqQueueSizePerBank, ackQueueSizePerBank
    EntryNum, EntrySize,                 \* mshrPara
    ReqQueue2MemSize,  \* req_queue_to_mem_size
    MemorySize,        \* transactions DRAM and bus hold before they refuse
    MaxReturn,         \* completions the bus delivers in one round
    Accesses,          \* what requests do: reads, writes or both
    Reqs, NoId         \* requests of the memory system; "none"

llc     == MaxLevel - 1
Levels  == 0 .. llc
Blocks  == 0 .. NumBlocks - 1
Banks(l)   == 0 .. NumBanks[l] - 1
Sets(l)    == 0 .. NumSets[l] - 1
Entries(l) == 0 .. EntryNum[l] - 1

Ops == {"READ", "WRITE", "WRITEBACK_DIRTY_BLOCK"}
CacheReq == [id : Reqs \cup {NoId}, blk : Blocks, op : Ops]

\* A default-constructed request: invalid, address 0, a read.
Invalid == [id |-> NoId, blk |-> 0, op |-> "READ"]

PerLevel(f) == f \in [Levels -> Nat \ {0}]

ASSUME CacheAssumption ==
    /\ MaxLevel \in {1, 2}
    /\ PerLevel(NumSets) /\ PerLevel(Ways) /\ PerLevel(NumBanks)
    /\ PerLevel(ReqQueueSize) /\ PerLevel(AckQueueSize)
    /\ PerLevel(EntryNum) /\ PerLevel(EntrySize)
    /\ Latency \in [Levels -> Nat]
    /\ NumBlocks \in Nat /\ \E k \in 0 .. NumBlocks : NumBlocks = 2^k
    /\ \A l \in Levels : NumSets[l] * Ways[l] <= NumBlocks
                        /\ \E k \in 0 .. NumBlocks : NumSets[l] = 2^k
    /\ ReqQueue2MemSize \in Nat \ {0} /\ MemorySize \in Nat \ {0} /\ MaxReturn \in Nat \ {0}
    /\ Accesses \subseteq {"READ", "WRITE"}
    /\ NoId \notin Reqs

VARIABLES
    phase, level, i,
    status,            \* the memory system's view of each request
    lines,             \* caches: per level and set, the lines in fill order
    reqQueue, ackQueue,
    mshr, mshrRdPtr,
    reqQueueBankPtr, ackQueueBankPtr,
    reqBankConflict,   \* per level, the banks that took a request this round
    cacheReqVec,       \* acknowledges of level 1 on their way to level 0
    reqQueue2Mem,      \* transactions waiting for DRAM
    inMemory,          \* how many transactions of each block DRAM and bus hold
    reqAckStack        \* completions for mem_req_complete

control == <<phase, level, i>>
queues  == <<reqQueue, ackQueue>>
ptrs    == <<mshrRdPtr, reqQueueBankPtr, ackQueueBankPtr>>
below   == <<reqQueue2Mem, inMemory, reqAckStack>>
vars == <<control, status, lines, queues, mshr, ptrs, reqBankConflict, cacheReqVec, below>>

-----------------------------------------------------------------------------
getCacheBank(blk, l) == blk % NumBanks[l]
getCacheSetIndex(blk, l) == blk % NumSets[l]
getCacheTag(blk, l) == blk \div NumSets[l]

Set(l, blk) == lines[l][getCacheSetIndex(blk, l)]

\* check_cache_hit: the positions at which the set holds the block
Hits(l, blk) == {k \in DOMAIN Set(l, blk) : Set(l, blk)[k].blk = blk}

\* a | b on block ids
Or(a, b) ==
    LET Bit(n, k) == (n \div 2^k) % 2
    IN CHOOSE c \in Blocks : \A k \in 0 .. NumBlocks :
           2^k < NumBlocks =>
              Bit(c, k) = IF Bit(a, k) = 1 \/ Bit(b, k) = 1 THEN 1 ELSE 0

\* Blocks are numbers of log2(NumBlocks) bits, and so is the or of two.
ASSUME OrAssumption == \A a, b \in Blocks : Or(a, b) \in Blocks

\* The elements of S in the order of their keys, which are different numbers.
InOrder(S, key) ==
    [k \in 1 .. Cardinality(S) |->
        CHOOSE x \in S : Cardinality({y \in S : key[y] < key[x]}) = k - 1]

\* The other fields of an invalid entry are not read, and are reset here.
EmptyEntry == [valid |-> FALSE, ready |-> FALSE, outstanding |-> FALSE,
               blockAddr |-> 0, mshrQueue |-> <<>>]

isWrite(req) == req.op = "WRITE"                    \* transCacheReq2MemReq
transCacheReq2MemReq(req) == [blk |-> req.blk, isWrite |-> isWrite(req)]

\* The acknowledge banks are resized to their full size, and the queue to
\* DRAM to the number of banks, with default requests.
Init ==
    /\ phase = "callBack" /\ level = 0 /\ i = 0
    /\ status = [r \in Reqs |-> "idle"]
    /\ lines = [l \in Levels |-> [s \in Sets(l) |-> <<>>]]
    /\ reqQueue = [l \in Levels |-> [b \in Banks(l) |-> <<>>]]
    /\ ackQueue = [l \in Levels |->
                      [b \in Banks(l) |-> [k \in 1 .. AckQueueSize[l] |-> Invalid]]]
    /\ mshr = [l \in Levels |-> [e \in Entries(l) |-> EmptyEntry]]
    /\ mshrRdPtr = [l \in Levels |-> 0]
    /\ reqQueueBankPtr = [l \in Levels |-> 0]
    /\ ackQueueBankPtr = [l \in Levels |-> 0]
    /\ reqBankConflict = [l \in Levels |-> {}]
    /\ cacheReqVec = <<>>
    /\ reqQueue2Mem = [k \in 1 .. NumBanks[llc] |-> transCacheReq2MemReq(Invalid)]
    /\ inMemory = [blk \in Blocks |-> 0]
    /\ reqAckStack = <<>>

-----------------------------------------------------------------------------
(***************************************************************************)
(* Sending to the queues below.                                            *)
(***************************************************************************)

BankFree(l, b) ==
    /\ Len(reqQueue[l][b]) < ReqQueueSize[l]
    /\ b \notin reqBankConflict[l]

Queued(l, req) == [req |-> req, lat |-> Latency[l], ready |-> FALSE]

sendReq2CacheBank(req, l) ==
    LET b == getCacheBank(req.blk, l) IN
    /\ BankFree(l, b)
    /\ reqQueue' = [reqQueue EXCEPT ![l][b] = Append(@, Queued(l, req))]
    /\ reqBankConflict' = [reqBankConflict EXCEPT ![l] = @ \cup {b}]

\* Mutant of sendReq2reqQueue2Mem: the room is counted off by one.
SendOneMore2Mem(req) ==
    /\ Len(reqQueue2Mem) <= ReqQueue2MemSize
    /\ reqQueue2Mem' = Append(reqQueue2Mem, transCacheReq2MemReq(req))

sendReq2reqQueue2Mem(req) ==
    /\ Len(reqQueue2Mem) < ReqQueue2MemSize
    /\ reqQueue2Mem' = Append(reqQueue2Mem, transCacheReq2MemReq(req))

-----------------------------------------------------------------------------
(***************************************************************************)
(* Filling a line (setCacheBlock; mem_req_complete has the same steps).    *)
(***************************************************************************)

Full(l, blk) == Len(Set(l, blk)) = Ways[l]
Victim(l, blk) == Head(Set(l, blk))
Evicts(l, blk) == Hits(l, blk) = {} /\ Full(l, blk)

\* get_cache_free_line: an unused way, or else the way with the least count
FreeWay(l, blk) == IF Full(l, blk) THEN Victim(l, blk).way ELSE Len(Set(l, blk))

set_cache_line(l, blk) ==
    lines' = [lines EXCEPT ![l][getCacheSetIndex(blk, l)] =
        Append(IF Full(l, blk) THEN Tail(@) ELSE @,
               [way |-> FreeWay(l, blk), blk |-> blk, dirty |-> FALSE])]

\* The address is put together from the victim's tag and its line index.
WriteBack(l, blk) ==
    [id |-> NoId, op |-> "WRITEBACK_DIRTY_BLOCK",
     blk |-> Or(getCacheTag(Victim(l, blk).blk, l) * NumSets[l],
                getCacheSetIndex(blk, l) * Ways[l] + Victim(l, blk).way)]

writeBackDirtyCacheline(l, blk) ==
    \/ l < llc /\ sendReq2CacheBank(WriteBack(l, blk), l + 1) /\ UNCHANGED reqQueue2Mem
    \/ l = llc /\ sendReq2reqQueue2Mem(WriteBack(l, blk))
               /\ UNCHANGED <<reqQueue, reqBankConflict>>

\* Mutant of setCacheBlock: the block is filled without looking for it first.
FillAlways(l, blk) ==
    \/ /\ ~(Full(l, blk) /\ Victim(l, blk).dirty)
       /\ set_cache_line(l, blk)
       /\ UNCHANGED <<reqQueue, reqBankConflict, reqQueue2Mem>>
    \/ /\ Full(l, blk) /\ Victim(l, blk).dirty
       /\ writeBackDirtyCacheline(l, blk)
       /\ set_cache_line(l, blk)

setCacheBlock(l, blk) ==
    \/ Hits(l, blk) # {} /\ UNCHANGED <<lines, reqQueue, reqBankConflict, reqQueue2Mem>>
    \/ /\ Hits(l, blk) = {} /\ ~(Full(l, blk) /\ Victim(l, blk).dirty)
       /\ set_cache_line(l, blk)
       /\ UNCHANGED <<reqQueue, reqBankConflict, reqQueue2Mem>>
    \/ /\ Evicts(l, blk) /\ Victim(l, blk).dirty
       /\ writeBackDirtyCacheline(l, blk)
       /\ set_cache_line(l, blk)

\* Every valid entry of the block becomes ready, whichever asked for it.
setMshrEntryReady(l, blk) ==
    mshr' = [mshr EXCEPT ![l] = [e \in Entries(l) |->
        IF mshr[l][e].valid /\ mshr[l][e].blockAddr = blk
        THEN [mshr[l][e] EXCEPT !.ready = TRUE] ELSE mshr[l][e]]]

-----------------------------------------------------------------------------
(***************************************************************************)
(* MemSystem's side: taking answers, DRAM completions, new requests.       *)
(***************************************************************************)

\* returnReqAck goes through the completions, then it is the bus's turn.
Completing(stack) == IF stack = <<>> THEN "memory" ELSE "complete"

\* getFromCache: the memory system takes the front of the level-0 banks for
\* which it has room, valid or not.
callBack(served) ==
    /\ phase = "callBack"
    /\ LET popped == {b \in served : ackQueue[0][b] # <<>>} IN
       /\ ackQueue' = [ackQueue EXCEPT ![0] = [b \in Banks(0) |->
                          IF b \in popped THEN Tail(@[b]) ELSE @[b]]]
       /\ status' = [r \in Reqs |->
                        IF \E b \in popped : Head(ackQueue[0][b]).id = r
                        THEN "idle" ELSE status[r]]
    /\ phase' = Completing(reqAckStack)
    /\ UNCHANGED <<level, i, lines, reqQueue, mshr, ptrs, reqBankConflict, cacheReqVec, below>>

\* The result of get_cache_free_line is not tested here: without a free line
\* set_cache_line writes outside the array, and no line changes.
mem_req_complete ==
    /\ phase = "complete"
    /\ LET blk == Head(reqAckStack) IN
       /\ \/ setCacheBlock(llc, blk)
          \/ /\ Evicts(llc, blk) /\ Victim(llc, blk).dirty
             /\ Len(reqQueue2Mem) >= ReqQueue2MemSize
             /\ UNCHANGED <<lines, reqQueue, reqBankConflict, reqQueue2Mem>>
       /\ setMshrEntryReady(llc, blk)
    /\ reqAckStack' = Tail(reqAckStack)
    /\ phase' = Completing(reqAckStack')
    /\ UNCHANGED <<level, i, status, ackQueue, ptrs, cacheReqVec, inMemory>>

\* A transaction has left DRAM and its delay on the bus is over.
MemoryDataBusUpdate(blk) ==
    /\ phase = "memory"
    /\ inMemory[blk] > 0 /\ Len(reqAckStack) < MaxReturn
    /\ reqAckStack' = Append(reqAckStack, blk)
    /\ inMemory' = [inMemory EXCEPT ![blk] = @ - 1]
    /\ UNCHANGED <<control, status, lines, queues, mshr, ptrs, reqBankConflict,
                   cacheReqVec, reqQueue2Mem>>

dramUpdate ==
    /\ phase = "memory"
    /\ phase' = "send"
    /\ UNCHANGED <<level, i, status, lines, queues, mshr, ptrs, reqBankConflict,
                   cacheReqVec, below>>

addTransaction(r, blk, op) ==
    /\ phase = "send" /\ status[r] = "idle"
    /\ sendReq2CacheBank([id |-> r, blk |-> blk, op |-> op], 0)
    /\ status' = [status EXCEPT ![r] = "sent"]
    /\ UNCHANGED <<control, lines, ackQueue, mshr, ptrs, cacheReqVec, below>>

-----------------------------------------------------------------------------
(***************************************************************************)
(* cacheUpdate.  updateAckQueue goes from the last level up.               *)
(***************************************************************************)

StartAckLevel(l) == level' = l /\ phase' = IF l > 0 THEN "popAck" ELSE "pushAck"

resetBankConflictRecorder ==
    /\ phase = "send"
    /\ reqBankConflict' = [l \in Levels |-> {}]
    /\ StartAckLevel(llc)
    /\ UNCHANGED <<i, status, lines, queues, mshr, ptrs, cacheReqVec, below>>

Refilling(acks) == IF acks = <<>> THEN "pushAck" ELSE "refill"

\* The fronts of a lower level's acknowledge banks, valid or not.
PopAckQueue ==
    /\ phase = "popAck"
    /\ LET turn == [b \in Banks(level) |->
                       (b - ackQueueBankPtr[level] + NumBanks[level]) % NumBanks[level]]
           taken == InOrder({b \in Banks(level) : ackQueue[level][b] # <<>>}, turn)
       IN cacheReqVec' = [k \in DOMAIN taken |-> Head(ackQueue[level][taken[k]])]
    /\ ackQueue' = [ackQueue EXCEPT ![level] = [b \in Banks(level) |->
                       IF @[b] # <<>> THEN Tail(@[b]) ELSE @[b]]]
    /\ ackQueueBankPtr' = [ackQueueBankPtr EXCEPT ![level] = (@ + 1) % NumBanks[level]]
    /\ phase' = Refilling(cacheReqVec')
    /\ UNCHANGED <<level, i, status, lines, reqQueue, mshr, mshrRdPtr, reqQueueBankPtr,
                   reqBankConflict, below>>

\* throwError if the victim cannot be written back
Refill ==
    /\ phase = "refill"
    /\ setMshrEntryReady(level - 1, Head(cacheReqVec).blk)
    /\ setCacheBlock(level - 1, Head(cacheReqVec).blk)
    /\ cacheReqVec' = Tail(cacheReqVec)
    /\ phase' = Refilling(cacheReqVec')
    /\ UNCHANGED <<level, i, status, ackQueue, ptrs, inMemory, reqAckStack>>

\* peekMshrReadyEntry: the front request of every ready entry, in turn.  The
\* first of each bank, if its acknowledge bank has room, is answered; one that
\* writes back a block is just dropped.
Front(l, e) == Head(mshr[l][e].mshrQueue)
Ready(l) == {e \in Entries(l) : mshr[l][e].valid /\ mshr[l][e].ready}
Turn(l, e) == (e - mshrRdPtr[l] + EntryNum[l]) % EntryNum[l]
IsWriteBack(l, e) == Front(l, e).op = "WRITEBACK_DIRTY_BLOCK"

\* Mutant of AckRoom: off by one.
AckRoomForOneMore(l, b) == Len(ackQueue[l][b]) <= AckQueueSize[l]

AckRoom(l, b) == Len(ackQueue[l][b]) < AckQueueSize[l]

AnsweredOf(l, b) ==
    LET waiting == {e \in Ready(l) : ~IsWriteBack(l, e) /\ getCacheBank(Front(l, e).blk, l) = b}
    IN {e \in waiting : AckRoom(l, b) /\ \A d \in waiting : Turn(l, e) <= Turn(l, d)}
Answered(l) == UNION {AnsweredOf(l, b) : b \in Banks(l)}
Dropped(l) == {e \in Ready(l) : IsWriteBack(l, e)}

\* Mutant of clearMshrEntry: the requests behind the front one go with it.
ClearWholeEntry(entry) == EmptyEntry

clearMshrEntry(entry) ==
    IF Len(entry.mshrQueue) = 1 THEN EmptyEntry
    ELSE [entry EXCEPT !.mshrQueue = Tail(@)]

\* Mutant of ReadyReq: ackBankConflict is not looked at.
ReadyReqNoConflict(l, b) ==
    reqQueue[l][b] # <<>> /\ Head(reqQueue[l][b]).ready /\ AckRoom(l, b)

\* A request that hit is answered from the front of its bank when no entry
\* of the Mshr was answered there.
ReadyReq(l, b) ==
    /\ reqQueue[l][b] # <<>> /\ Head(reqQueue[l][b]).ready
    /\ AnsweredOf(l, b) = {} /\ AckRoom(l, b)

PushAckQueue ==
    /\ phase = "pushAck"
    /\ mshr' = [mshr EXCEPT ![level] = [e \in Entries(level) |->
                   IF e \in Answered(level) \cup Dropped(level)
                   THEN clearMshrEntry(@[e]) ELSE @[e]]]
    /\ ackQueue' = [ackQueue EXCEPT ![level] = [b \in Banks(level) |->
           IF AnsweredOf(level, b) # {}
           THEN Append(@[b], Front(level, CHOOSE e \in AnsweredOf(level, b) : TRUE))
           ELSE IF ReadyReq(level, b) THEN Append(@[b], Head(reqQueue[level][b]).req)
           ELSE @[b]]]
    /\ reqQueue' = [reqQueue EXCEPT ![level] = [b \in Banks(level) |->
           IF ReadyReq(level, b) THEN Tail(@[b]) ELSE @[b]]]
    /\ mshrRdPtr' = [mshrRdPtr EXCEPT ![level] = (@ + 1) % EntryNum[level]]
    /\ \/ level > 0 /\ StartAckLevel(level - 1)
       \/ level = 0 /\ phase' = "outstanding" /\ UNCHANGED level
    /\ UNCHANGED <<i, status, lines, reqQueueBankPtr, ackQueueBankPtr, reqBankConflict,
                   cacheReqVec, below>>

-----------------------------------------------------------------------------
(***************************************************************************)
(* sendMshrOutstandingReq: entries not yet asked for below, in entry order.*)
(***************************************************************************)

Outstanding(l) == {e \in Entries(l) : mshr[l][e].valid /\ mshr[l][e].outstanding}

\* Mutant of clearOutstandingFlag: also of the entries that were not sent.
ClearAllOutstanding(l, sent) ==
    mshr' = [mshr EXCEPT ![l] = [e \in Entries(l) |-> [@[e] EXCEPT !.outstanding = FALSE]]]

clearOutstandingFlag(l, sent) ==
    mshr' = [mshr EXCEPT ![l] = [e \in Entries(l) |->
        IF e \in sent THEN [@[e] EXCEPT !.outstanding = FALSE] ELSE @[e]]]

\* The outstanding entries that get the bank they need at the next level.
SentDown(l) ==
    {e \in Outstanding(l) :
        LET b == getCacheBank(Front(l, e).blk, l + 1)
        IN /\ BankFree(l + 1, b)
           /\ \A d \in Outstanding(l) :
                 d < e => getCacheBank(Front(l, d).blk, l + 1) # b}

SendOutstandingDown ==
    /\ phase = "outstanding" /\ level < llc
    /\ LET sent == SentDown(level)
           To(b) == {e \in sent : getCacheBank(Front(level, e).blk, level + 1) = b}
       IN /\ reqQueue' = [reqQueue EXCEPT ![level + 1] = [b \in Banks(level + 1) |->
                 IF To(b) = {} THEN @[b]
                 ELSE Append(@[b], Queued(level + 1, Front(level, CHOOSE e \in To(b) : TRUE)))]]
          /\ reqBankConflict' = [reqBankConflict EXCEPT ![level + 1] =
                 @ \cup {b \in Banks(level + 1) : To(b) # {}}]
          /\ clearOutstandingFlag(level, sent)
    /\ level' = level + 1
    /\ UNCHANGED <<phase, i, status, lines, ackQueue, ptrs, cacheReqVec, below>>

SendOutstandingToMem ==
    /\ phase = "outstanding" /\ level = llc
    /\ LET Earlier(e) == {d \in Outstanding(llc) : d < e}
           sent == {e \in Outstanding(llc) :
                       Len(reqQueue2Mem) + Cardinality(Earlier(e)) < ReqQueue2MemSize}
           order == InOrder(sent, [e \in sent |-> e])
       IN /\ reqQueue2Mem' = reqQueue2Mem \o [k \in 1 .. Cardinality(sent) |->
                                 transCacheReq2MemReq(Front(llc, order[k]))]
          /\ clearOutstandingFlag(llc, sent)
    /\ phase' = "request" /\ level' = 0 /\ i' = 0
    /\ UNCHANGED <<status, lines, queues, ptrs, reqBankConflict, cacheReqVec, inMemory,
                   reqAckStack>>

-----------------------------------------------------------------------------
(***************************************************************************)
(* updateReqQueue: the front request of each bank is looked up; without a  *)
(* free Mshr entry the level stalls, hits included.                        *)
(***************************************************************************)

Bank == (reqQueueBankPtr[level] + i) % NumBanks[level]
seekMshrFreeEntry(l) == \E e \in Entries(l) : ~mshr[l][e].valid

\* The entry send2Mshr puts a request of the block in.
Joins(l, e, blk) ==
    mshr[l][e].valid /\ mshr[l][e].blockAddr = blk /\ Len(mshr[l][e].mshrQueue) < EntrySize[l]
MshrTarget(l, e, blk) ==
    \/ Joins(l, e, blk) /\ \A d \in 0 .. e - 1 : ~Joins(l, d, blk)
    \/ /\ \A d \in Entries(l) : ~Joins(l, d, blk)
       /\ ~mshr[l][e].valid /\ \A d \in 0 .. e - 1 : mshr[l][d].valid

send2Mshr(l, e, req) ==
    mshr' = [mshr EXCEPT ![l][e] =
        [valid |-> TRUE, ready |-> @.ready, blockAddr |-> req.blk,
         outstanding |-> @.valid => @.outstanding,
         mshrQueue |-> Append(@.mshrQueue, req)]]

Writes(req) == req.op \in {"WRITE", "WRITEBACK_DIRTY_BLOCK"}

\* After the last bank, or a stall, the bank pointer moves and the next level
\* follows.
EndLevel ==
    /\ reqQueueBankPtr' = [reqQueueBankPtr EXCEPT ![level] = (@ + 1) % NumBanks[level]]
    /\ i' = 0
    /\ \/ level < llc /\ level' = level + 1 /\ UNCHANGED phase
       \/ level = llc /\ level' = 0 /\ phase' = "toMem"
NextBank ==
    \/ i + 1 < NumBanks[level] /\ i' = i + 1 /\ UNCHANGED <<phase, level, reqQueueBankPtr>>
    \/ i + 1 = NumBanks[level] /\ EndLevel

\* The bank has no request to look up: none, or one within its latency, or one
\* that hit and waits to be acknowledged.
Waits(l, b) ==
    reqQueue[l][b] # <<>> => Head(reqQueue[l][b]).lat > 0 \/ Head(reqQueue[l][b]).ready

updateReqQueueStall ==
    /\ phase = "request" /\ ~seekMshrFreeEntry(level)
    /\ EndLevel
    /\ UNCHANGED <<status, lines, queues, mshr, mshrRdPtr, ackQueueBankPtr,
                   reqBankConflict, cacheReqVec, below>>

updateReqQueueSkip ==
    /\ phase = "request" /\ seekMshrFreeEntry(level) /\ Waits(level, Bank)
    /\ NextBank
    /\ UNCHANGED <<status, lines, queues, mshr, mshrRdPtr, ackQueueBankPtr,
                   reqBankConflict, cacheReqVec, below>>

updateReqQueueHit ==
    /\ phase = "request" /\ seekMshrFreeEntry(level) /\ ~Waits(level, Bank)
    /\ LET req == Head(reqQueue[level][Bank]).req IN
       /\ Hits(level, req.blk) # {}
       /\ lines' = [lines EXCEPT ![level][getCacheSetIndex(req.blk, level)] =
              [k \in DOMAIN @ |-> IF Writes(req) /\ k \in Hits(level, req.blk)
                                  THEN [@[k] EXCEPT !.dirty = TRUE] ELSE @[k]]]
    /\ reqQueue' = [reqQueue EXCEPT ![level][Bank][1].ready = TRUE]
    /\ NextBank
    /\ UNCHANGED <<status, ackQueue, mshr, mshrRdPtr, ackQueueBankPtr,
                   reqBankConflict, cacheReqVec, below>>

updateReqQueueMiss ==
    /\ phase = "request" /\ seekMshrFreeEntry(level) /\ ~Waits(level, Bank)
    /\ LET req == Head(reqQueue[level][Bank]).req IN
       /\ Hits(level, req.blk) = {}
       /\ \E e \in Entries(level) :
             MshrTarget(level, e, req.blk) /\ send2Mshr(level, e, req)
    /\ reqQueue' = [reqQueue EXCEPT ![level][Bank] = Tail(@)]
    /\ NextBank
    /\ UNCHANGED <<status, lines, ackQueue, mshrRdPtr, ackQueueBankPtr,
                   reqBankConflict, cacheReqVec, below>>

updateReqQueueLatency ==
    reqQueue' = [l \in Levels |-> [b \in Banks(l) |->
        [k \in DOMAIN reqQueue[l][b] |->
            [reqQueue[l][b][k] EXCEPT !.lat = IF @ = 0 THEN 0 ELSE @ - 1]]]]

\* The end of cacheUpdate, then sendReq2Mem: DRAM accepts the first n transactions and refuses the next.
Held == LET Sum[b \in -1 .. NumBlocks - 1] == IF b = -1 THEN 0 ELSE inMemory[b] + Sum[b - 1]
        IN Sum[NumBlocks - 1]

sendReq2Mem(n) ==
    /\ phase = "toMem"
    /\ updateReqQueueLatency
    /\ n <= Len(reqQueue2Mem) /\ Held + n <= MemorySize
    /\ inMemory' = [blk \in Blocks |-> inMemory[blk] +
           Cardinality({k \in 1 .. n : reqQueue2Mem[k].blk = blk})]
    /\ reqQueue2Mem' = SubSeq(reqQueue2Mem, n + 1, Len(reqQueue2Mem))
    /\ phase' = "callBack"
    /\ UNCHANGED <<level, i, status, lines, ackQueue, mshr, ptrs, reqBankConflict,
                   cacheReqVec, reqAckStack>>

-----------------------------------------------------------------------------
Round ==
    \/ \E served \in SUBSET Banks(0) : callBack(served)
    \/ mem_req_complete
    \/ \E blk \in Blocks : MemoryDataBusUpdate(blk)
    \/ dramUpdate
    \/ resetBankConflictRecorder
    \/ PopAckQueue \/ Refill \/ PushAckQueue
    \/ SendOutstandingDown \/ SendOutstandingToMem
    \/ updateReqQueueStall \/ updateReqQueueSkip \/ updateReqQueueHit \/ updateReqQueueMiss
    \/ \E n \in 0 .. ReqQueue2MemSize : sendReq2Mem(n)

Next ==
    \/ \E r \in Reqs, blk \in Blocks, op \in Accesses : addTransaction(r, blk, op)
    \/ Round

Spec == Init /\ [][Next]_vars

(***************************************************************************)
(* Fairness.  The round runs to its end, and rounds repeat.  The memory    *)
(* system again and again has room for an answer of every bank; DRAM again *)
(* and again accepts a transaction, and completes each one.                *)
(***************************************************************************)
Fairness ==
    /\ WF_vars(Round)
    /\ SF_vars(callBack(Banks(0)))
    /\ SF_vars(\E n \in 1 .. ReqQueue2MemSize : sendReq2Mem(n))
    /\ \A blk \in Blocks : SF_vars(MemoryDataBusUpdate(blk))

FairSpec == Spec /\ Fairness

-----------------------------------------------------------------------------
Phases == {"callBack", "complete", "memory", "send", "popAck", "refill", "pushAck",
           "outstanding", "request", "toMem"}
Line == [way : Nat, blk : Blocks, dirty : BOOLEAN]
MshrEntry == [valid : BOOLEAN, ready : BOOLEAN, outstanding : BOOLEAN,
              blockAddr : Blocks, mshrQueue : Seq(CacheReq)]
MemTransaction == [blk : Blocks, isWrite : BOOLEAN]

ControlOK ==
    /\ phase \in Phases /\ level \in Levels /\ i \in Banks(level)
    /\ phase \in {"popAck", "refill"} => level > 0
    /\ \A l \in Levels : /\ mshrRdPtr[l] \in Entries(l)
                         /\ reqQueueBankPtr[l] \in Banks(l) /\ ackQueueBankPtr[l] \in Banks(l)
                         /\ reqBankConflict[l] \subseteq Banks(l)

LevelOK(l) ==
    /\ \A s \in Sets(l) : /\ lines[l][s] \in Seq(Line) /\ Len(lines[l][s]) <= Ways[l]
    /\ \A b \in Banks(l) :
          /\ reqQueue[l][b] \in Seq([req : CacheReq, lat : 0 .. Latency[l], ready : BOOLEAN])
          /\ Len(reqQueue[l][b]) <= ReqQueueSize[l]
          /\ ackQueue[l][b] \in Seq(CacheReq) /\ Len(ackQueue[l][b]) <= AckQueueSize[l]
    /\ \A e \in Entries(l) : mshr[l][e] \in MshrEntry
                             /\ Len(mshr[l][e].mshrQueue) <= EntrySize[l]

\* The queue to DRAM starts with a default transaction per bank of the last
\* level, however few it is configured for.
ReqQueue2MemOK ==
    /\ reqQueue2Mem \in Seq(MemTransaction)
    /\ Len(reqQueue2Mem) <= ReqQueue2MemSize \/ Len(reqQueue2Mem) <= NumBanks[llc]

\* Every variable has its type, and no queue is longer than it is configured,
\* the queue to DRAM but for what it starts with.
TypeOK ==
    /\ ControlOK
    /\ status \in [Reqs -> {"idle", "sent"}]
    /\ \A l \in Levels : LevelOK(l)
    /\ cacheReqVec \in Seq(CacheReq)
    /\ ReqQueue2MemOK
    /\ inMemory \in [Blocks -> Nat] /\ reqAckStack \in Seq(Blocks)

(***************************************************************************)
(* A request that the cache accepted is at exactly one place of level 0    *)
(* until it is called back, and then at none: it is neither lost nor       *)
(* answered twice between its bank's queue, the Mshr and the acknowledges. *)
(***************************************************************************)
Copies(r) ==
    (UNION {{"reqQueue"} \X {b} \X {k \in DOMAIN reqQueue[0][b] : reqQueue[0][b][k].req.id = r} :
            b \in Banks(0)})
    \cup (UNION {{"mshr"} \X {e} \X {k \in DOMAIN mshr[0][e].mshrQueue :
                                       mshr[0][e].mshrQueue[k].id = r} : e \in Entries(0)})
    \cup (UNION {{"ackQueue"} \X {b} \X {k \in DOMAIN ackQueue[0][b] : ackQueue[0][b][k].id = r} :
            b \in Banks(0)})

EachRequestOnce ==
    \A r \in Reqs : Cardinality(Copies(r)) = IF status[r] = "sent" THEN 1 ELSE 0

(***************************************************************************)
(* An entry of the Mshr that is not ready has its fetch still to be sent   *)
(* or a transaction of its block is below, though entries share blocks, a  *)
(* completion readies all of them, and an entry may be cleared and reused  *)
(* before its own completion is back.  Otherwise its requests would wait   *)
(* forever.                                                                *)
(***************************************************************************)
FetchBelow(l, blk) ==
    \/ /\ l = llc
       /\ \/ \E k \in DOMAIN reqQueue2Mem : reqQueue2Mem[k].blk = blk
          \/ inMemory[blk] > 0
          \/ \E k \in DOMAIN reqAckStack : reqAckStack[k] = blk
    \/ /\ l < llc
       /\ \/ \E b \in Banks(l + 1) : \E k \in DOMAIN reqQueue[l + 1][b] :
                reqQueue[l + 1][b][k].req.blk = blk
          \/ \E e \in Entries(l + 1) : \E k \in DOMAIN mshr[l + 1][e].mshrQueue :
                mshr[l + 1][e].mshrQueue[k].blk = blk
          \/ \E b \in Banks(l + 1) : \E k \in DOMAIN ackQueue[l + 1][b] :
                ackQueue[l + 1][b][k].blk = blk
          \/ \E k \in DOMAIN cacheReqVec : cacheReqVec[k].blk = blk

FetchOnTheWay ==
    \A l \in Levels : \A e \in Entries(l) :
        LET entry == mshr[l][e]
        IN entry.valid => entry.ready \/ entry.outstanding \/ FetchBelow(l, entry.blockAddr)

(***************************************************************************)
(* A block is in at most one line of its set, and a line is in the set of  *)
(* its block: check_cache_hit returns the first match only, so a second    *)
(* copy would keep a stale dirty flag.                                     *)
(***************************************************************************)
OneLinePerBlock ==
    \A l \in Levels : \A s \in Sets(l) : \A k, m \in DOMAIN lines[l][s] :
        /\ getCacheSetIndex(lines[l][s][k].blk, l) = s
        /\ k # m => lines[l][s][k].blk # lines[l][s][m].blk
                    /\ lines[l][s][k].way # lines[l][s][m].way

\* Every accepted request is called back.
AcceptedIsAnswered == \A r \in Reqs : status[r] = "sent" ~> status[r] = "idle"

-----------------------------------------------------------------------------
(***************************************************************************)
(* What the code says of its evictions.                                    *)
(***************************************************************************)

\* The dirty block that a fill of the last level is about to throw out.
EvictsDirty == phase = "complete"
               /\ Evicts(llc, Head(reqAckStack)) /\ Victim(llc, Head(reqAckStack)).dirty

\* get_cache_free_line, "Write back to lower level cache": a dirty block thrown
\* out of the last level is written to DRAM.
DirtyIsWrittenBack ==
    [][EvictsDirty /\ lines' # lines =>
          reqQueue2Mem'[Len(reqQueue2Mem')].isWrite]_vars

=============================================================================
