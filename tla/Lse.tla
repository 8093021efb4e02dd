-------------------------------- MODULE Lse --------------------------------
(***************************************************************************)
(* A load/store element (module/execution/Lse.cpp): a channel whose data   *)
(* are memory requests.  Requests wait in the ring reqQueue, one per       *)
(* instance is put up for the memory system in suspendReqVec, answers come *)
(* back by ackCallback in any order, and answered slots are moved to the   *)
(* output channel from sendChanPtr on.                                     *)
(*                                                                         *)
(* `pc' is the function that runs: the parts of Channel::get, called once  *)
(* per round, then the two parts of MemSystemUpdate that touch an Lse.     *)
(* The memory system may take the request on offer or not, and answers     *)
(* what it took in any order; module MemSystem is the inside of it.  The   *)
(* upstream channels offer data when there was no back-pressure, and the   *)
(* downstream channels take a datum or not.  A datum is its number in the  *)
(* order of its upstream channel.  All programs give Lses a cycle of 0, so *)
(* a datum is ready in the round in which it is received.  No channel of   *)
(* the program has a larger speedup than the Lse (else currId, and with it *)
(* the index into suspendReqVec, would exceed the speedup).                *)
(***************************************************************************)
EXTENDS Naturals, Sequences, FiniteSets, Bags

CONSTANTS
    NumSlots,     \* size
    Speedup,      \* speedup: instances that share the Lse
    BufferSize,   \* size again, of each chanBuffer
    IsWrite,      \* isWrite: a store, with a value as second input
    BranchMode,   \* branchMode: requests of the untaken path are not sent
    NoLatency,    \* noLatencyMode or Global::no_memory
    MaxReq        \* bound: data offered by each upstream channel

Slots     == 0 .. NumSlots - 1
Instances == 1 .. Speedup
Inputs    == IF IsWrite THEN {1, 2} ELSE {1}

\* cond flags of the data: of interest only in branchMode.
Conds     == IF BranchMode THEN BOOLEAN ELSE {TRUE}

ASSUME LseAssumption ==
    /\ NumSlots \in Nat \ {0} /\ Speedup \in Nat \ {0}
    /\ BufferSize \in Nat \ {0} /\ MaxReq \in Nat
    /\ {IsWrite, BranchMode, NoLatency} \subseteq BOOLEAN

VARIABLES
    pc,
    currId,         \* the instance of this round
    offered,        \* data offered so far by each upstream channel
    chanBuffer, bp, \* input queue and back-pressure of each upstream channel
    reqQueue,       \* the ring of slots
    suspendReqVec,  \* per instance the request on offer, a sequence of at most one
    pushQueuePtr, sendMemPtr, sendChanPtr,
    orderId, currReqId,
    channel, valid, \* slots moved to the output, and whether the first one is taken
    valueQueue,     \* values of the stores under way
    mem             \* requests the memory system has taken, a bag

inVars   == <<offered, chanBuffer, bp>>
ringVars == <<reqQueue, pushQueuePtr, sendMemPtr, sendChanPtr, orderId, currReqId>>
outVars  == <<channel, valid, valueQueue>>
vars     == <<pc, currId, inVars, ringVars, suspendReqVec, outVars, mem>>

-----------------------------------------------------------------------------
\* An invalid slot; its other fields are not read.
NoReq == [valid |-> FALSE, inflight |-> FALSE, ready |-> FALSE, hasPushChan |-> FALSE,
          cond |-> TRUE, cnt |-> 0]

Init ==
    /\ pc = "pop" /\ currId = Speedup
    /\ offered = [n \in Inputs |-> 0]
    /\ chanBuffer = [n \in Inputs |-> <<>>]
    /\ bp = [n \in Inputs |-> FALSE]
    /\ reqQueue = [s \in Slots |-> NoReq]
    /\ suspendReqVec = [k \in Instances |-> <<>>]
    /\ pushQueuePtr = 0 /\ sendMemPtr = 0 /\ sendChanPtr = 0
    /\ orderId = 0 /\ currReqId = 0
    /\ channel = <<>> /\ valid = FALSE /\ valueQueue = <<>>
    /\ mem = EmptyBag

NextSlot(s) == (s + 1) % NumSlots

-----------------------------------------------------------------------------
(* Channel::get. *)

\* Mutant of popReq: the slot is freed and the value of a store stays.
popReqKeepValue(s) ==
    /\ channel' = Tail(channel)
    /\ UNCHANGED valueQueue
    /\ reqQueue' = [reqQueue EXCEPT ![s] = NoReq]

\* The datum that was sent leaves the output, its slot and its value.
popReq(s) ==
    /\ channel' = Tail(channel)
    /\ valueQueue' = IF IsWrite THEN Tail(valueQueue) ELSE valueQueue
    /\ reqQueue' = [reqQueue EXCEPT ![s] = NoReq]

\* parallelize: the rounds of one clock are the instances, then pop.
Pop ==
    /\ pc = "pop"
    /\ currId' = IF currId = Speedup THEN 1 ELSE currId + 1
    /\ \/ valid /\ popReq(Head(channel))
       \/ ~valid /\ UNCHANGED <<channel, valueQueue, reqQueue>>
    /\ pc' = "push"
    /\ UNCHANGED <<inVars, suspendReqVec, pushQueuePtr, sendMemPtr, sendChanPtr, orderId,
                   currReqId, valid, mem>>

\* The data of the upstream channels that are valid, each with its cond flag.
Push(from, cond) ==
    /\ pc = "push"
    /\ \A n \in from : ~bp[n] /\ offered[n] < MaxReq
    /\ chanBuffer' = [n \in Inputs |->
            IF n \in from THEN Append(chanBuffer[n], [id |-> offered[n], cond |-> cond])
            ELSE chanBuffer[n]]
    /\ offered' = [n \in Inputs |-> IF n \in from THEN offered[n] + 1 ELSE offered[n]]
    /\ pc' = "pushReqQ"
    /\ UNCHANGED <<currId, bp, ringVars, suspendReqVec, outVars, mem>>

DataMatch == \A n \in Inputs : chanBuffer[n] # <<>>

\* Mutant of SlotFree: a slot whose request was answered is reused before it is popped.
SlotAnswered(s) == ~reqQueue[s].valid \/ reqQueue[s].ready

SlotFree(s) == ~reqQueue[s].valid

\* A matched datum enters the slot at pushQueuePtr, if that is free.
PushReqQ ==
    /\ pc = "pushReqQ"
    /\ \/ /\ DataMatch /\ SlotFree(pushQueuePtr)
          /\ reqQueue' = [reqQueue EXCEPT ![pushQueuePtr] =
                [NoReq EXCEPT !.valid = TRUE, !.cnt = orderId, !.cond = Head(chanBuffer[1]).cond]]
          /\ valueQueue' = IF IsWrite THEN Append(valueQueue, Head(chanBuffer[2]).id) ELSE valueQueue
          /\ chanBuffer' = [n \in Inputs |-> Tail(chanBuffer[n])]
          /\ orderId' = orderId + 1
          /\ pushQueuePtr' = NextSlot(pushQueuePtr)
       \/ /\ ~DataMatch \/ ~SlotFree(pushQueuePtr)
          /\ UNCHANGED <<reqQueue, valueQueue, chanBuffer, orderId, pushQueuePtr>>
    /\ pc' = "select"
    /\ UNCHANGED <<currId, offered, bp, sendMemPtr, sendChanPtr, currReqId, suspendReqVec,
                   channel, valid, mem>>

\* Mutant of ackCallback: the slot is no longer inflight but its answer is lost.
ackCallbackLost(s) == [reqQueue EXCEPT ![s].inflight = FALSE]

\* The slots after ackCallback for slot s, which is not looked at.
ackCallback(s) == [reqQueue EXCEPT ![s].ready = TRUE, ![s].inflight = FALSE]

\* Mutant of Unsent: a request that is under way is selected once more.
UnsentAgain(s) == reqQueue[s].valid /\ ~reqQueue[s].ready

Unsent(s) == reqQueue[s].valid /\ ~reqQueue[s].inflight /\ ~reqQueue[s].ready

\* Without a memory access the request is answered at once.
AnsweredAtOnce(s) == NoLatency \/ (BranchMode /\ ~reqQueue[s].cond)

\* statusUpdate: the instance without a request on offer takes the next one.
Select ==
    /\ pc = "select"
    /\ LET s    == sendMemPtr
           take == suspendReqVec[currId] = <<>> /\ Unsent(s)
       IN  \/ /\ take /\ AnsweredAtOnce(s)
              /\ reqQueue' = ackCallback(s)
              /\ sendMemPtr' = NextSlot(s)
              /\ UNCHANGED suspendReqVec
           \/ /\ take /\ ~AnsweredAtOnce(s)
              /\ suspendReqVec' = [suspendReqVec EXCEPT ![currId] =
                                       <<[slot |-> s, cnt |-> reqQueue[s].cnt]>>]
              /\ sendMemPtr' = NextSlot(s)
              /\ UNCHANGED reqQueue
           \/ ~take /\ UNCHANGED <<reqQueue, sendMemPtr, suspendReqVec>>
    /\ pc' = "pushChannel"
    /\ UNCHANGED <<currId, inVars, pushQueuePtr, sendChanPtr, orderId, currReqId, outVars, mem>>

\* Mutant of ReadyToSend: an answer is not waited for.
ReadyUnanswered(s) == reqQueue[s].valid /\ ~reqQueue[s].hasPushChan

\* The slot at sendChanPtr can be moved to the output.  (With lse_O3 the code
\* tries the same slot NumSlots times, as the pointer moves only on success.)
ReadyToSend(s) == reqQueue[s].valid /\ reqQueue[s].ready /\ ~reqQueue[s].hasPushChan

\* pushChannel, valid from the downstream channels' bp, and bpUpdate.
PushChannel(sendable) ==
    /\ pc = "pushChannel"
    /\ LET s == sendChanPtr
       IN  \/ /\ ReadyToSend(s) /\ Len(channel) < NumSlots
              /\ reqQueue[s].cnt = currReqId                  \* else throwError
              /\ channel' = Append(channel, s)
              /\ reqQueue' = [reqQueue EXCEPT ![s].hasPushChan = TRUE]
              /\ currReqId' = currReqId + 1
              /\ sendChanPtr' = NextSlot(s)
           \/ /\ ~ReadyToSend(s) \/ Len(channel) >= NumSlots
              /\ UNCHANGED <<channel, reqQueue, currReqId, sendChanPtr>>
    /\ valid' = (channel' # <<>> /\ sendable)
    /\ bp' = [n \in Inputs |-> Len(chanBuffer[n]) >= BufferSize]
    /\ pc' = "sendBack"
    /\ UNCHANGED <<currId, offered, chanBuffer, pushQueuePtr, sendMemPtr, orderId, suspendReqVec,
                   valueQueue, mem>>

-----------------------------------------------------------------------------
(* MemSystemUpdate, as far as it concerns one Lse. *)

\* sendBack2Lse answers at most one request of an Lse.
SendBack(req) ==
    /\ pc = "sendBack"
    /\ req \in BagToSet(mem)
    /\ reqQueue' = ackCallback(req.slot)
    /\ mem' = mem (-) SetToBag({req})
    /\ pc' = "collect"
    /\ UNCHANGED <<currId, inVars, pushQueuePtr, sendMemPtr, sendChanPtr, orderId, currReqId,
                   suspendReqVec, outVars>>

NoAnswer ==
    /\ pc = "sendBack"
    /\ pc' = "collect"
    /\ UNCHANGED <<currId, inVars, ringVars, suspendReqVec, outVars, mem>>

\* getLseReq: peekReqQueue of the current instance, and setInflight if taken.
Collect ==
    /\ pc = "collect"
    /\ suspendReqVec[currId] # <<>>
    /\ LET req == Head(suspendReqVec[currId])
       IN  /\ mem' = mem (+) SetToBag({req})
           /\ reqQueue' = [reqQueue EXCEPT ![req.slot].inflight = TRUE]
    /\ suspendReqVec' = [suspendReqVec EXCEPT ![currId] = <<>>]
    /\ pc' = "pop"
    /\ UNCHANGED <<currId, inVars, pushQueuePtr, sendMemPtr, sendChanPtr, orderId, currReqId, outVars>>

NotCollected ==
    /\ pc = "collect"
    /\ pc' = "pop"
    /\ UNCHANGED <<currId, inVars, ringVars, suspendReqVec, outVars, mem>>

Next ==
    \/ Pop
    \/ \E from \in SUBSET Inputs, cond \in Conds : Push(from, cond)
    \/ PushReqQ
    \/ Select
    \/ \E sendable \in BOOLEAN : PushChannel(sendable)
    \/ \E req \in BagToSet(mem) : SendBack(req)
    \/ NoAnswer \/ Collect \/ NotCollected

Spec == Init /\ [][Next]_vars

\* Rounds go on; the memory system takes a request on offer and answers what
\* it took (MemSystem, SentIsAnswered); the downstream channels take data.
FairSpec ==
    /\ Spec
    /\ WF_vars(Next)
    /\ SF_vars(Collect)
    /\ \A s \in Slots : SF_vars(\E req \in BagToSet(mem) : req.slot = s /\ SendBack(req))
    /\ SF_vars(PushChannel(TRUE) /\ channel' # <<>>)

-----------------------------------------------------------------------------
(* Properties. *)

\* "Lse sendChanPtr not consist with currReqId!" is never thrown: answers that
\* come out of order do not make the three ring pointers and the two counters
\* disagree.
SendPtrConsistent ==
    pc = "pushChannel" /\ ReadyToSend(sendChanPtr) => reqQueue[sendChanPtr].cnt = currReqId

\* The check disabled in ackCallback, "Current req is not an inflight req!":
\* whatever the memory system still has to answer is the request that its slot
\* holds, and that slot is inflight.
AnswersFindInflight ==
    \A req \in BagToSet(mem) :
        /\ mem[req] = 1
        /\ reqQueue[req.slot].valid /\ reqQueue[req.slot].inflight
        /\ reqQueue[req.slot].cnt = req.cnt

\* A store hands on its own value: valueQueue, filled when a request enters the
\* ring, is in step with the output channel, filled when it is answered.
StoreValueMatches ==
    IsWrite /\ channel # <<>> => Head(valueQueue) = reqQueue[Head(channel)].cnt

\* Slots in use, oldest first, as the queue of the abstract port.
InUse == {s \in Slots : reqQueue[s].valid}

PortQueue ==
    LET n       == Cardinality(InUse)
        slot(k) == (pushQueuePtr + NumSlots - n + k - 1) % NumSlots
    IN  [k \in 1 .. n |-> [req      |-> reqQueue[slot(k)].cnt,
                           answered |-> reqQueue[slot(k)].ready]]

Port == INSTANCE MemPort WITH Capacity <- NumSlots, Req <- 0 .. MaxReq, queue <- PortQueue

\* The element is an in-order port: it implements MemPort.
ImplementsPort == Port!Spec

\* What was accepted is answered and handed on in the end: no request stays in
\* the ring.
HandedOn ==
    \A n \in 0 .. MaxReq - 1 :
        (\E s \in Slots : reqQueue[s].valid /\ reqQueue[s].cnt = n)
            ~> (\A s \in Slots : ~(reqQueue[s].valid /\ reqQueue[s].cnt = n))

=============================================================================
