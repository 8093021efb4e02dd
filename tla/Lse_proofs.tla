----------------------------- MODULE Lse_proofs -----------------------------
(***************************************************************************)
(* Proofs about Lse, for any ring size, any number of data and either kind *)
(* of element.  None of the properties is inductive: the pointers agree    *)
(* with the counters, the values with the output and the answers with the  *)
(* slots only because the slot of request number n is n modulo the size,   *)
(* and the numbers in the ring are the consecutive ones from First to      *)
(* orderId - 1.                                                            *)
(***************************************************************************)
EXTENDS Lse, RingLemmas, SequenceTheorems

\* The slot of request number n.
SlotOf(n) == n % NumSlots

\* The number of the oldest request that was not handed on.
First == currReqId - Len(channel)

Slot    == [valid : BOOLEAN, inflight : BOOLEAN, ready : BOOLEAN, hasPushChan : BOOLEAN,
            cond : BOOLEAN, cnt : Nat]
Request == [slot : Slots, cnt : Nat]

TypeOK ==
    /\ pc \in {"pop", "push", "pushReqQ", "select", "pushChannel", "sendBack", "collect"}
    /\ currId \in Instances
    /\ offered \in [Inputs -> 0 .. MaxReq]
    /\ chanBuffer \in [Inputs -> Seq([id : Nat, cond : BOOLEAN])]
    /\ bp \in [Inputs -> BOOLEAN]
    /\ reqQueue \in [Slots -> Slot]
    /\ suspendReqVec \in [Instances -> Seq(Request)]
    /\ sendMemPtr \in Slots
    /\ orderId \in Nat /\ currReqId \in Nat
    /\ channel \in Seq(Slots) /\ valid \in BOOLEAN
    /\ valueQueue \in Seq(Nat)
    /\ DOMAIN mem \subseteq Request
    /\ mem \in [DOMAIN mem -> Nat \ {0}]

\* The ring holds the requests First .. orderId - 1, each in its slot; those
\* before currReqId, and no others, are in the output channel, in order.
CountersOK ==
    /\ Len(channel) <= currReqId /\ currReqId <= orderId /\ orderId <= First + NumSlots
    /\ pushQueuePtr = SlotOf(orderId) /\ sendChanPtr = SlotOf(currReqId)

OutputOK ==
    /\ \A k \in 1 .. Len(channel) : channel[k] = SlotOf(First + k - 1)
    /\ pc \in {"sendBack", "collect", "pop"} /\ valid => channel # <<>>

EntriesOK ==
    \A n \in First .. orderId - 1 :
        /\ reqQueue[SlotOf(n)].valid /\ reqQueue[SlotOf(n)].cnt = n
        /\ reqQueue[SlotOf(n)].hasPushChan <=> n < currReqId

SlotsOK ==
    \A s \in Slots : reqQueue[s].valid => /\ reqQueue[s].cnt \in First .. orderId - 1
                                          /\ SlotOf(reqQueue[s].cnt) = s

RingOK == CountersOK /\ OutputOK /\ EntriesOK /\ SlotsOK

\* The inputs wait in the order of their numbers, and the values of the stores
\* in the ring are those of its requests, in order.
InputsOK ==
    \A n \in Inputs :
        /\ offered[n] = orderId + Len(chanBuffer[n])
        /\ \A k \in 1 .. Len(chanBuffer[n]) : chanBuffer[n][k].id = orderId + k - 1

StoresOK ==
    IsWrite => /\ Len(valueQueue) = orderId - First
               /\ \A k \in 1 .. Len(valueQueue) : valueQueue[k] = First + k - 1

ValuesOK == InputsOK /\ StoresOK

\* A request is on offer, taken or answered, never two of these.
FlagsOK ==
    \A s \in Slots : /\ reqQueue[s].ready => ~reqQueue[s].inflight
                     /\ reqQueue[s].hasPushChan => reqQueue[s].ready

OfferOK ==
    \A k \in Instances : suspendReqVec[k] # <<>> =>
        LET req == Head(suspendReqVec[k])
        IN  /\ reqQueue[req.slot].valid /\ reqQueue[req.slot].cnt = req.cnt
            /\ ~reqQueue[req.slot].inflight /\ ~reqQueue[req.slot].ready

TakenOK ==
    \A req \in DOMAIN mem :
        /\ mem[req] = 1
        /\ reqQueue[req.slot].valid /\ reqQueue[req.slot].cnt = req.cnt
        /\ reqQueue[req.slot].inflight

AnswersOK == FlagsOK /\ OfferOK /\ TakenOK

IInv == TypeOK /\ RingOK /\ ValuesOK /\ (Speedup = 1 => AnswersOK)

-----------------------------------------------------------------------------
(* Slots and bags. *)

\* The pointers run through the slots of consecutive numbers, and the requests
\* in the ring do not share a slot.
LEMMA SlotOfProperties ==
    /\ \A n \in Nat : /\ SlotOf(n) \in Slots
                      /\ NextSlot(SlotOf(n)) = SlotOf(n + 1)
                      /\ SlotOf(n + NumSlots) = SlotOf(n)
    /\ \A m, n \in Nat : m < n /\ n - m < NumSlots => SlotOf(m) # SlotOf(n)
<1> USE LseAssumption
<1>1. ASSUME NEW n \in Nat
      PROVE  /\ SlotOf(n) \in Slots
             /\ NextSlot(SlotOf(n)) = SlotOf(n + 1)
             /\ SlotOf(n + NumSlots) = SlotOf(n)
  BY ModDivision, ModSucc, ModPeriod DEF SlotOf, Slots, NextSlot
<1>2. ASSUME NEW m \in Nat, NEW n \in Nat, m < n, n - m < NumSlots
      PROVE  SlotOf(m) # SlotOf(n)
  BY <1>2, ModDistinct DEF SlotOf
<1> QED BY <1>1, <1>2

\* A request that was not taken yet is in the bag once after it is taken.
LEMMA BagTake ==
    ASSUME NEW B, NEW e, B \in [DOMAIN B -> Nat \ {0}], e \notin DOMAIN B
    PROVE  /\ DOMAIN (B (+) SetToBag({e})) = DOMAIN B \cup {e}
           /\ (B (+) SetToBag({e}))[e] = 1
           /\ \A d \in DOMAIN B : (B (+) SetToBag({e}))[d] = B[d]
BY DEF (+), SetToBag

\* Taking a request, taken before or not, makes a bag of requests a bag of requests.
LEMMA BagTakeType ==
    ASSUME NEW B, NEW e, B \in [DOMAIN B -> Nat \ {0}]
    PROVE  /\ DOMAIN (B (+) SetToBag({e})) = DOMAIN B \cup {e}
           /\ \A d \in DOMAIN B \cup {e} : (B (+) SetToBag({e}))[d] \in Nat \ {0}
           /\ B (+) SetToBag({e}) \in [DOMAIN B \cup {e} -> Nat \ {0}]
BY DEF (+), SetToBag

LEMMA BagAnswerType ==
    ASSUME NEW B, NEW e \in DOMAIN B, B \in [DOMAIN B -> Nat \ {0}]
    PROVE  /\ DOMAIN (B (-) SetToBag({e})) \subseteq DOMAIN B
           /\ B (-) SetToBag({e}) \in [DOMAIN (B (-) SetToBag({e})) -> Nat \ {0}]
           /\ \A d \in DOMAIN (B (-) SetToBag({e})) : d # e => (B (-) SetToBag({e}))[d] = B[d]
           /\ B[e] = 1 => e \notin DOMAIN (B (-) SetToBag({e}))
BY DEF (-), SetToBag

-----------------------------------------------------------------------------
(* What the operations do to the ring. *)

\* A matched datum is a new, unsent request.
Fresh(c) == [NoReq EXCEPT !.valid = TRUE, !.cnt = orderId, !.cond = c]

LEMMA FreshSlot ==
    ASSUME orderId \in Nat, NEW c \in BOOLEAN
    PROVE  /\ Fresh(c) \in Slot
           /\ Fresh(c).valid /\ Fresh(c).cnt = orderId
           /\ ~Fresh(c).hasPushChan /\ ~Fresh(c).inflight /\ ~Fresh(c).ready
BY DEF Fresh, NoReq, Slot

LEMMA AckSlot ==
    ASSUME reqQueue \in [Slots -> Slot], NEW s \in Slots
    PROVE  /\ ackCallback(s) \in [Slots -> Slot]
           /\ \A t \in Slots \ {s} : ackCallback(s)[t] = reqQueue[t]
           /\ \A t \in Slots : /\ ackCallback(s)[t].valid = reqQueue[t].valid
                               /\ ackCallback(s)[t].cnt = reqQueue[t].cnt
                               /\ ackCallback(s)[t].hasPushChan = reqQueue[t].hasPushChan
           /\ ackCallback(s)[s].ready /\ ~ackCallback(s)[s].inflight
BY DEF ackCallback, Slot

LEMMA InflightSlot ==
    ASSUME reqQueue \in [Slots -> Slot], NEW s \in Slots, NEW queue,
           queue = [reqQueue EXCEPT ![s].inflight = TRUE]
    PROVE  /\ queue \in [Slots -> Slot]
           /\ \A t \in Slots \ {s} : queue[t] = reqQueue[t]
           /\ \A t \in Slots : /\ queue[t].valid = reqQueue[t].valid
                               /\ queue[t].cnt = reqQueue[t].cnt
                               /\ queue[t].hasPushChan = reqQueue[t].hasPushChan
                               /\ queue[t].ready = reqQueue[t].ready
           /\ queue[s].inflight
BY DEF Slot

LEMMA PushedSlot ==
    ASSUME reqQueue \in [Slots -> Slot], NEW s \in Slots, NEW queue,
           queue = [reqQueue EXCEPT ![s].hasPushChan = TRUE]
    PROVE  /\ queue \in [Slots -> Slot]
           /\ \A t \in Slots \ {s} : queue[t] = reqQueue[t]
           /\ \A t \in Slots : /\ queue[t].valid = reqQueue[t].valid
                               /\ queue[t].cnt = reqQueue[t].cnt
                               /\ queue[t].inflight = reqQueue[t].inflight
                               /\ queue[t].ready = reqQueue[t].ready
           /\ queue[s].hasPushChan
BY DEF Slot

\* The two outcomes of PushReqQ, and what the matched data are.
LEMMA PushReqQCases ==
    ASSUME TypeOK, PushReqQ
    PROVE  \/ /\ DataMatch /\ SlotFree(pushQueuePtr)
              /\ \A n \in Inputs : Head(chanBuffer[n]) \in [id : Nat, cond : BOOLEAN]
              /\ \E c \in BOOLEAN : reqQueue' = [reqQueue EXCEPT ![pushQueuePtr] = Fresh(c)]
              /\ valueQueue' = IF IsWrite THEN Append(valueQueue, Head(chanBuffer[2]).id)
                               ELSE valueQueue
              /\ chanBuffer' = [n \in Inputs |-> Tail(chanBuffer[n])]
              /\ orderId' = orderId + 1
              /\ pushQueuePtr' = NextSlot(pushQueuePtr)
           \/ UNCHANGED <<reqQueue, valueQueue, chanBuffer, orderId, pushQueuePtr>>
<1>1. CASE DataMatch
  <2>1. ASSUME NEW n \in Inputs PROVE Head(chanBuffer[n]) \in [id : Nat, cond : BOOLEAN]
    <3>1. chanBuffer[n] \in Seq([id : Nat, cond : BOOLEAN]) /\ chanBuffer[n] # <<>>
      BY <1>1 DEF TypeOK, DataMatch
    <3> QED BY <3>1, HeadTailProperties
  <2>2. Head(chanBuffer[1]).cond \in BOOLEAN
    BY <2>1 DEF Inputs
  <2> QED BY <1>1, <2>1, <2>2 DEF PushReqQ, Fresh
<1>2. CASE ~DataMatch
  BY <1>2 DEF PushReqQ
<1> QED BY <1>1, <1>2

-----------------------------------------------------------------------------
(* The inductive invariant. *)

LEMMA IInvInit == Init => IInv
<1> SUFFICES ASSUME Init PROVE IInv
  OBVIOUS
<1> USE LseAssumption DEF Init
<1>1. 0 \in Slots /\ SlotOf(0) = 0
  BY ModUnique DEF Slots, SlotOf
<1>2. TypeOK
  <2>1. NoReq \in Slot
    BY DEF NoReq, Slot
  <2>2. DOMAIN mem \subseteq Request /\ mem \in [DOMAIN mem -> Nat \ {0}]
    BY DEF EmptyBag, SetToBag
  <2>3. currId \in Instances
    BY DEF Instances
  <2>4. /\ chanBuffer \in [Inputs -> Seq([id : Nat, cond : BOOLEAN])]
        /\ suspendReqVec \in [Instances -> Seq(Request)]
        /\ channel \in Seq(Slots) /\ valueQueue \in Seq(Nat)
    BY EmptySeq
  <2>5. reqQueue \in [Slots -> Slot] /\ sendMemPtr \in Slots
    BY <1>1, <2>1
  <2>6. /\ offered \in [Inputs -> 0 .. MaxReq] /\ bp \in [Inputs -> BOOLEAN]
    OBVIOUS
  <2>7. orderId \in Nat /\ currReqId \in Nat /\ valid \in BOOLEAN
    OBVIOUS
  <2> QED BY <2>2, <2>3, <2>4, <2>5, <2>6, <2>7 DEF TypeOK
<1>3. RingOK
  BY <1>1 DEF RingOK, CountersOK, OutputOK, EntriesOK, SlotsOK, First, NoReq
<1>4. ValuesOK
  <2>1. Len(channel) = 0 /\ Len(valueQueue) = 0 /\ \A n \in Inputs : Len(chanBuffer[n]) = 0
    OBVIOUS
  <2>2. \A n \in Inputs : offered[n] = 0 /\ chanBuffer[n] = <<>>
    OBVIOUS
  <2>3. orderId = 0 /\ currReqId = 0
    OBVIOUS
  <2> HIDE DEF Init
  <2>4. First = 0
    BY <2>1, <2>3 DEF First
  <2> QED BY <2>1, <2>2, <2>3, <2>4 DEF ValuesOK, InputsOK, StoresOK
<1>5. AnswersOK
  BY DEF AnswersOK, FlagsOK, OfferOK, TakenOK, NoReq, EmptyBag, SetToBag
<1> QED BY <1>2, <1>3, <1>4, <1>5 DEF IInv

LEMMA TypeStep == IInv /\ [Next]_vars => TypeOK'
<1> SUFFICES ASSUME IInv, [Next]_vars PROVE TypeOK'
  OBVIOUS
<1> USE LseAssumption
<1>1. TypeOK /\ RingOK
  BY DEF IInv
<1>2. \A s \in Slots : NextSlot(s) \in Slots
  BY ModDivision DEF Slots, NextSlot
<1>3. pushQueuePtr \in Slots /\ sendChanPtr \in Slots
  BY <1>1, SlotOfProperties DEF TypeOK, RingOK, CountersOK
<1>4. CASE Pop
  <2>1. currId' \in Instances
    BY <1>1, <1>4 DEF Pop, TypeOK, Instances
  <2>2. CASE valid /\ popReq(Head(channel))
    <3>1. channel # <<>>
      BY <1>1, <1>4, <2>2 DEF RingOK, OutputOK, Pop
    <3>2. channel' \in Seq(Slots) /\ Head(channel) \in Slots
      BY <1>1, <2>2, <3>1, HeadTailProperties DEF TypeOK, popReq
    <3>3. reqQueue' \in [Slots -> Slot]
      BY <1>1, <2>2, <3>2 DEF TypeOK, popReq, NoReq, Slot
    <3>4. valueQueue' \in Seq(Nat)
      <4>1. CASE IsWrite /\ valueQueue # <<>>
        BY <1>1, <2>2, <4>1, HeadTailProperties DEF TypeOK, popReq
      <4>2. CASE IsWrite /\ valueQueue = <<>>
        BY <1>1, <2>2, <4>2 DEF TypeOK, popReq, IInv, ValuesOK, StoresOK, RingOK, CountersOK, First
      <4> QED BY <1>1, <2>2, <4>1, <4>2 DEF TypeOK, popReq
    <3> QED BY <1>1, <1>4, <2>1, <3>2, <3>3, <3>4 DEF TypeOK, Pop, inVars
  <2>3. CASE ~valid /\ UNCHANGED <<channel, valueQueue, reqQueue>>
    BY <1>1, <1>4, <2>1, <2>3 DEF TypeOK, Pop, inVars
  <2> QED BY <1>4, <2>2, <2>3 DEF Pop
<1>5. ASSUME NEW from \in SUBSET Inputs, NEW cond \in Conds, Push(from, cond)
      PROVE  TypeOK'
  <2>1. ASSUME NEW n \in Inputs, n \in from
        PROVE  Append(chanBuffer[n], [id |-> offered[n], cond |-> cond])
                   \in Seq([id : Nat, cond : BOOLEAN])
    <3>1. [id |-> offered[n], cond |-> cond] \in [id : Nat, cond : BOOLEAN]
      <4>1. cond \in BOOLEAN
        BY DEF Conds
      <4>2. offered[n] \in Nat
        BY <1>1 DEF TypeOK
      <4> QED BY <4>1, <4>2
    <3> QED BY <1>1, <3>1, AppendProperties DEF TypeOK
  <2>2. chanBuffer' \in [Inputs -> Seq([id : Nat, cond : BOOLEAN])]
    BY <1>1, <1>5, <2>1 DEF Push, TypeOK
  <2>3. offered' \in [Inputs -> 0 .. MaxReq]
    BY <1>1, <1>5 DEF Push, TypeOK
  <2> QED BY <1>1, <1>5, <2>2, <2>3 DEF TypeOK, Push, ringVars, outVars
<1>6. CASE PushReqQ
  <2>1. CASE UNCHANGED <<reqQueue, valueQueue, chanBuffer, orderId, pushQueuePtr>>
    BY <1>1, <1>6, <2>1 DEF TypeOK, PushReqQ
  <2>2. CASE ~UNCHANGED <<reqQueue, valueQueue, chanBuffer, orderId, pushQueuePtr>>
    <3>1. PICK c \in BOOLEAN : reqQueue' = [reqQueue EXCEPT ![pushQueuePtr] = Fresh(c)]
      BY <1>1, <1>6, <2>2, PushReqQCases
    <3>2. reqQueue' \in [Slots -> Slot]
      BY <1>1, <1>3, <3>1, FreshSlot DEF TypeOK
    <3>3. ASSUME NEW n \in Inputs PROVE Tail(chanBuffer[n]) \in Seq([id : Nat, cond : BOOLEAN])
      <4>1. chanBuffer[n] \in Seq([id : Nat, cond : BOOLEAN]) /\ chanBuffer[n] # <<>>
        BY <1>1, <1>6, <2>2, PushReqQCases DEF TypeOK, DataMatch
      <4> QED BY <4>1, HeadTailProperties
    <3>4. chanBuffer' \in [Inputs -> Seq([id : Nat, cond : BOOLEAN])]
      BY <1>1, <1>6, <2>2, <3>3, PushReqQCases
    <3>5. valueQueue' \in Seq(Nat)
      <4>1. IsWrite => Head(chanBuffer[2]).id \in Nat
        BY <1>1, <1>6, <2>2, PushReqQCases DEF Inputs
      <4>2. valueQueue' = IF IsWrite THEN Append(valueQueue, Head(chanBuffer[2]).id)
                          ELSE valueQueue
        BY <1>1, <1>6, <2>2, PushReqQCases
      <4> QED BY <1>1, <4>1, <4>2, AppendProperties DEF TypeOK
    <3>6. orderId' \in Nat
      <4>1. orderId' = orderId + 1
        BY <1>1, <1>6, <2>2, PushReqQCases
      <4>2. orderId \in Nat
        BY <1>1 DEF TypeOK
      <4> QED BY <4>1, <4>2
    <3> QED BY <1>1, <1>6, <3>2, <3>4, <3>5, <3>6 DEF TypeOK, PushReqQ
  <2> QED BY <2>1, <2>2
<1>7. CASE Select
  <2>1. reqQueue' \in [Slots -> Slot]
    BY <1>1, <1>7, AckSlot DEF Select, TypeOK
  <2>2. sendMemPtr' \in Slots
    BY <1>1, <1>2, <1>7 DEF Select, TypeOK
  <2>3. suspendReqVec' \in [Instances -> Seq(Request)]
    <3>1. PICK req \in Request : req = [slot |-> sendMemPtr, cnt |-> reqQueue[sendMemPtr].cnt]
      BY <1>1 DEF TypeOK, Slot, Request
    <3>2. <<req>> \in Seq(Request)
      OBVIOUS
    <3>3. \/ suspendReqVec' = suspendReqVec
          \/ suspendReqVec' = [suspendReqVec EXCEPT ![currId] = <<req>>]
      BY <1>7, <3>1 DEF Select
    <3> QED BY <1>1, <3>2, <3>3 DEF TypeOK
  <2> QED BY <1>1, <1>7, <2>1, <2>2, <2>3 DEF TypeOK, Select, inVars, outVars
<1>8. ASSUME NEW sendable \in BOOLEAN, PushChannel(sendable) PROVE TypeOK'
  <2>1. channel' \in Seq(Slots)
    <3>1. channel' = channel \/ channel' = Append(channel, sendChanPtr)
      BY <1>8 DEF PushChannel
    <3>2. channel \in Seq(Slots)
      BY <1>1 DEF TypeOK
    <3> QED BY <1>3, <3>1, <3>2, AppendProperties
  <2>2. reqQueue' \in [Slots -> Slot]
    <3>1. \/ reqQueue' = reqQueue
          \/ reqQueue' = [reqQueue EXCEPT ![sendChanPtr].hasPushChan = TRUE]
      BY <1>8 DEF PushChannel
    <3> QED BY <1>1, <1>3, <3>1, PushedSlot DEF TypeOK
  <2>3. bp' \in [Inputs -> BOOLEAN] /\ valid' \in BOOLEAN /\ currReqId' \in Nat
    BY <1>1, <1>8 DEF PushChannel, TypeOK
  <2> QED BY <1>1, <1>8, <2>1, <2>2, <2>3 DEF TypeOK, PushChannel
<1>9. ASSUME NEW req \in BagToSet(mem), SendBack(req) PROVE TypeOK'
  <2>1. req \in DOMAIN mem /\ req.slot \in Slots
    BY <1>1, <1>9 DEF TypeOK, BagToSet, Request
  <2>2. reqQueue' \in [Slots -> Slot]
    BY <1>1, <1>9, <2>1, AckSlot DEF SendBack, TypeOK
  <2>3. DOMAIN mem' \subseteq Request /\ mem' \in [DOMAIN mem' -> Nat \ {0}]
    BY <1>1, <1>9, <2>1, BagAnswerType DEF SendBack, TypeOK
  <2> QED BY <1>1, <1>9, <2>2, <2>3 DEF TypeOK, SendBack, inVars, outVars
<1>10. CASE Collect
  <2>1. PICK req \in Request : req = Head(suspendReqVec[currId])
    <3>1. suspendReqVec[currId] \in Seq(Request) /\ suspendReqVec[currId] # <<>>
      BY <1>1, <1>10 DEF TypeOK, Collect
    <3> QED BY <3>1, HeadTailProperties
  <2>2. /\ reqQueue' = [reqQueue EXCEPT ![req.slot].inflight = TRUE]
        /\ mem' = mem (+) SetToBag({req})
    BY <1>10, <2>1 DEF Collect
  <2>3. reqQueue' \in [Slots -> Slot]
    BY <1>1, <2>2, InflightSlot DEF TypeOK, Request
  <2>4. DOMAIN mem' \subseteq Request /\ mem' \in [DOMAIN mem' -> Nat \ {0}]
    <3>1. mem \in [DOMAIN mem -> Nat \ {0}] /\ DOMAIN mem \subseteq Request
      BY <1>1 DEF TypeOK
    <3>2. DOMAIN mem' = DOMAIN mem \cup {req} /\ mem' \in [DOMAIN mem \cup {req} -> Nat \ {0}]
      BY <2>2, <3>1, BagTakeType
    <3> QED BY <3>1, <3>2
  <2>5. suspendReqVec' \in [Instances -> Seq(Request)]
    BY <1>1, <1>10, EmptySeq DEF Collect, TypeOK
  <2> QED BY <1>1, <1>10, <2>3, <2>4, <2>5 DEF TypeOK, Collect, inVars, outVars
<1>11. CASE NoAnswer \/ NotCollected \/ UNCHANGED vars
  BY <1>1, <1>11 DEF TypeOK, NoAnswer, NotCollected, vars, inVars, ringVars, outVars
<1> QED BY <1>4, <1>5, <1>6, <1>7, <1>8, <1>9, <1>10, <1>11 DEF Next

\* The bounds of the numbers in the ring.
LEMMA FirstBounds ==
    ASSUME TypeOK, RingOK
    PROVE  /\ currReqId \in Nat /\ orderId \in Nat /\ First \in Nat /\ NumSlots \in Nat \ {0}
           /\ First <= currReqId /\ currReqId <= orderId /\ orderId <= First + NumSlots
           /\ Len(channel) \in Nat /\ currReqId = First + Len(channel)
<1>1. /\ currReqId \in Nat /\ orderId \in Nat /\ NumSlots \in Nat \ {0} /\ Len(channel) \in Nat
  BY LseAssumption, LenProperties DEF TypeOK
<1>2. /\ Len(channel) <= currReqId /\ currReqId <= orderId
      /\ orderId <= currReqId - Len(channel) + NumSlots
  BY DEF RingOK, CountersOK, First
<1>3. First = currReqId - Len(channel)
  BY DEF First
<1> QED BY <1>1, <1>2, <1>3

\* Steps that change no counter and none of the fields that say what a slot holds.
LEMMA RingQuiet ==
    ASSUME TypeOK, RingOK,
           UNCHANGED <<channel, currReqId, orderId, pushQueuePtr, sendChanPtr>>,
           \A t \in Slots : /\ reqQueue'[t].valid = reqQueue[t].valid
                            /\ reqQueue'[t].cnt = reqQueue[t].cnt
                            /\ reqQueue'[t].hasPushChan = reqQueue[t].hasPushChan,
           pc' \in {"sendBack", "collect", "pop"} /\ valid' => channel # <<>>
    PROVE  RingOK'
<1>1. First' = First
  BY DEF First
<1>2. CountersOK' /\ OutputOK'
  BY <1>1 DEF RingOK, CountersOK, OutputOK
<1>3. EntriesOK'
  <2> SUFFICES ASSUME NEW n \in First .. orderId - 1
               PROVE  /\ reqQueue'[SlotOf(n)].valid /\ reqQueue'[SlotOf(n)].cnt = n
                      /\ reqQueue'[SlotOf(n)].hasPushChan <=> n < currReqId
    BY <1>1 DEF EntriesOK
  <2>1. n \in Nat
    BY DEF RingOK, CountersOK, TypeOK, First
  <2>2. SlotOf(n) \in Slots
    BY <2>1, SlotOfProperties
  <2> QED BY <2>2 DEF RingOK, EntriesOK
<1>4. SlotsOK'
  BY <1>1 DEF RingOK, SlotsOK
<1> QED BY <1>2, <1>3, <1>4 DEF RingOK

\* The slot at sendChanPtr, if it can be moved, holds the request with number currReqId.
LEMMA NextToSend ==
    ASSUME TypeOK, RingOK, ReadyToSend(sendChanPtr)
    PROVE  /\ reqQueue[sendChanPtr].cnt = currReqId
           /\ currReqId < orderId
<1> DEFINE n == reqQueue[sendChanPtr].cnt
<1>1. /\ currReqId \in Nat /\ orderId \in Nat /\ First \in Nat /\ NumSlots \in Nat
      /\ First <= currReqId /\ currReqId <= orderId /\ orderId <= First + NumSlots
  BY FirstBounds
<1>2. sendChanPtr \in Slots /\ sendChanPtr = SlotOf(currReqId)
  BY <1>1, SlotOfProperties DEF RingOK, CountersOK
<1>3. n \in First .. orderId - 1 /\ SlotOf(n) = SlotOf(currReqId)
  BY <1>2 DEF RingOK, SlotsOK, ReadyToSend
<1>4. ~(n < currReqId)
  BY <1>2, <1>3 DEF RingOK, EntriesOK, ReadyToSend
<1> HIDE DEF n
<1>5. n \in Nat
  BY <1>1, <1>3
<1>6. ~(currReqId < n)
  BY <1>1, <1>3, <1>5, SlotOfProperties
<1>7. n = currReqId /\ currReqId < orderId
  BY <1>1, <1>3, <1>4, <1>5, <1>6
<1> QED BY <1>7 DEF n

LEMMA RingStep == IInv /\ [Next]_vars => RingOK'
<1> SUFFICES ASSUME IInv, [Next]_vars PROVE RingOK'
  OBVIOUS
<1>1. TypeOK /\ RingOK /\ TypeOK'
  BY TypeStep DEF IInv
<1>2. /\ currReqId \in Nat /\ orderId \in Nat /\ First \in Nat /\ NumSlots \in Nat \ {0}
      /\ First <= currReqId /\ currReqId <= orderId /\ orderId <= First + NumSlots
      /\ Len(channel) \in Nat /\ currReqId = First + Len(channel)
  BY <1>1, FirstBounds
<1>3. /\ pushQueuePtr \in Slots /\ pushQueuePtr = SlotOf(orderId)
      /\ sendChanPtr \in Slots /\ sendChanPtr = SlotOf(currReqId)
  BY <1>1, <1>2, SlotOfProperties DEF RingOK, CountersOK
<1>4. ASSUME NEW m \in First .. orderId - 1, NEW n \in First .. orderId - 1, SlotOf(m) = SlotOf(n)
      PROVE  m = n
  <2>1. m \in Nat /\ n \in Nat /\ m - n < NumSlots /\ n - m < NumSlots
    BY <1>2
  <2>2. ~(m < n) /\ ~(n < m)
    BY <1>4, <2>1, SlotOfProperties
  <2> QED BY <2>1, <2>2
<1>5. ASSUME NEW n \in First .. orderId PROVE n \in Nat /\ SlotOf(n) \in Slots
  BY <1>2, SlotOfProperties
<1>6. CASE Pop
  <2>1. CASE ~valid /\ UNCHANGED <<channel, valueQueue, reqQueue>>
    BY <1>1, <1>6, <2>1, RingQuiet DEF Pop
  <2>2. CASE valid /\ popReq(Head(channel))
    <3>1. channel # <<>> /\ Len(channel) > 0
      BY <1>1, <1>2, <1>6, <2>2, EmptySeq DEF RingOK, OutputOK, Pop, TypeOK
    <3>2. /\ Head(channel) = channel[1]
          /\ channel' = Tail(channel)
          /\ Len(channel') = Len(channel) - 1
          /\ \A k \in 1 .. Len(channel') : channel'[k] = channel[k + 1]
      BY <1>1, <2>2, <3>1, HeadTailProperties DEF TypeOK, popReq
    <3>3. Head(channel) = SlotOf(First)
      BY <1>1, <1>2, <3>1, <3>2 DEF RingOK, OutputOK
    <3>4. UNCHANGED <<currReqId, orderId, pushQueuePtr, sendChanPtr>> /\ pc' = "push"
      BY <1>6 DEF Pop
    <3>5. First' = First + 1
      <4>1. First' = currReqId - Len(channel')
        BY <3>4 DEF First
      <4> QED BY <1>2, <3>2, <4>1
    <3>6. First \in First .. orderId - 1
      BY <1>2, <3>1
    <3>7. /\ \A t \in Slots \ {SlotOf(First)} : reqQueue'[t] = reqQueue[t]
          /\ ~reqQueue'[SlotOf(First)].valid
      <4>1. reqQueue' = [reqQueue EXCEPT ![SlotOf(First)] = NoReq]
        BY <2>2, <3>3 DEF popReq
      <4>2. ~NoReq.valid
        BY DEF NoReq
      <4> QED BY <1>1, <1>5, <3>6, <4>1, <4>2 DEF TypeOK
    <3>8. CountersOK'
      <4>1. orderId <= First + 1 + NumSlots /\ Len(channel) - 1 <= currReqId
        BY <1>2
      <4> QED BY <1>1, <1>2, <1>3, <3>2, <3>4, <3>5, <4>1 DEF CountersOK
    <3>9. OutputOK'
      <4>1. ASSUME NEW k \in 1 .. Len(channel') PROVE channel'[k] = SlotOf(First' + k - 1)
        <5>1. channel[k + 1] = SlotOf(First + (k + 1) - 1)
          BY <1>1, <1>2, <3>2 DEF RingOK, OutputOK
        <5>2. First + (k + 1) - 1 = First' + k - 1
          BY <1>2, <3>2, <3>5
        <5> QED BY <3>2, <5>1, <5>2
      <4> QED BY <3>4, <4>1 DEF OutputOK
    <3>10. EntriesOK'
      <4> SUFFICES ASSUME NEW n \in First + 1 .. orderId - 1
                   PROVE  /\ reqQueue'[SlotOf(n)].valid /\ reqQueue'[SlotOf(n)].cnt = n
                          /\ reqQueue'[SlotOf(n)].hasPushChan <=> n < currReqId
        BY <3>4, <3>5 DEF EntriesOK
      <4>1. n \in First .. orderId - 1 /\ n # First
        BY <1>2
      <4>2. SlotOf(n) \in Slots /\ SlotOf(n) # SlotOf(First)
        BY <1>2, <1>4, <1>5, <3>6, <4>1
      <4> QED BY <1>1, <3>7, <4>1, <4>2 DEF RingOK, EntriesOK
    <3>11. SlotsOK'
      <4> SUFFICES ASSUME NEW t \in Slots, reqQueue'[t].valid
                   PROVE  /\ reqQueue'[t].cnt \in First + 1 .. orderId - 1
                          /\ SlotOf(reqQueue'[t].cnt) = t
        BY <3>4, <3>5 DEF SlotsOK
      <4>1. t # SlotOf(First) /\ reqQueue'[t] = reqQueue[t]
        BY <3>7
      <4>2. reqQueue[t].cnt \in First .. orderId - 1 /\ SlotOf(reqQueue[t].cnt) = t
        BY <1>1, <4>1 DEF RingOK, SlotsOK
      <4> QED BY <1>2, <4>1, <4>2
    <3> QED BY <3>8, <3>9, <3>10, <3>11 DEF RingOK
  <2> QED BY <1>6, <2>1, <2>2 DEF Pop
<1>7. ASSUME NEW from \in SUBSET Inputs, NEW cond \in Conds, Push(from, cond)
      PROVE  RingOK'
  BY <1>1, <1>7, RingQuiet DEF Push, ringVars, outVars
<1>8. CASE PushReqQ
  <2>1. CASE UNCHANGED <<reqQueue, valueQueue, chanBuffer, orderId, pushQueuePtr>>
    BY <1>1, <1>8, <2>1, RingQuiet DEF PushReqQ
  <2>2. CASE ~UNCHANGED <<reqQueue, valueQueue, chanBuffer, orderId, pushQueuePtr>>
    <3>1. PICK c \in BOOLEAN : reqQueue' = [reqQueue EXCEPT ![SlotOf(orderId)] = Fresh(c)]
      BY <1>1, <1>3, <1>8, <2>2, PushReqQCases
    <3>2. /\ \A t \in Slots \ {SlotOf(orderId)} : reqQueue'[t] = reqQueue[t]
          /\ reqQueue'[SlotOf(orderId)].valid
          /\ reqQueue'[SlotOf(orderId)].cnt = orderId
          /\ ~reqQueue'[SlotOf(orderId)].hasPushChan
      BY <1>1, <1>3, <3>1, FreshSlot DEF TypeOK
    <3>3. /\ orderId' = orderId + 1 /\ pushQueuePtr' = NextSlot(SlotOf(orderId))
          /\ UNCHANGED <<channel, currReqId, sendChanPtr>> /\ pc' = "select"
          /\ ~reqQueue[SlotOf(orderId)].valid
      BY <1>1, <1>3, <1>8, <2>2, PushReqQCases DEF PushReqQ, SlotFree
    <3>4. First' = First
      BY <3>3 DEF First
    <3>5. orderId # First + NumSlots
      <4> SUFFICES ASSUME orderId = First + NumSlots PROVE FALSE
        OBVIOUS
      <4>1. SlotOf(orderId) = SlotOf(First)
        BY <1>2, SlotOfProperties
      <4>2. First \in First .. orderId - 1
        BY <1>2
      <4> QED BY <1>1, <3>3, <4>1, <4>2 DEF RingOK, EntriesOK
    <3>6. CountersOK'
      <4>1. orderId + 1 <= First + NumSlots /\ currReqId <= orderId + 1
        BY <1>2, <3>5
      <4>2. NextSlot(SlotOf(orderId)) = SlotOf(orderId + 1)
        BY <1>2, SlotOfProperties
      <4> QED BY <1>1, <3>3, <3>4, <4>1, <4>2 DEF RingOK, CountersOK
    <3>7. OutputOK'
      BY <1>1, <3>3, <3>4 DEF RingOK, OutputOK
    <3>8. ASSUME NEW n \in First .. orderId - 1 PROVE SlotOf(n) # SlotOf(orderId)
      BY <1>1, <3>3 DEF RingOK, EntriesOK
    <3>9. EntriesOK'
      <4> SUFFICES ASSUME NEW n \in First .. orderId
                   PROVE  /\ reqQueue'[SlotOf(n)].valid /\ reqQueue'[SlotOf(n)].cnt = n
                          /\ reqQueue'[SlotOf(n)].hasPushChan <=> n < currReqId
        BY <1>2, <3>3, <3>4 DEF EntriesOK
      <4>1. CASE n = orderId
        BY <1>2, <3>2, <4>1
      <4>2. CASE n \in First .. orderId - 1
        BY <1>1, <1>5, <3>2, <3>8, <4>2 DEF RingOK, EntriesOK
      <4> QED BY <1>2, <4>1, <4>2
    <3>10. SlotsOK'
      <4> SUFFICES ASSUME NEW t \in Slots, reqQueue'[t].valid
                   PROVE  /\ reqQueue'[t].cnt \in First .. orderId
                          /\ SlotOf(reqQueue'[t].cnt) = t
        BY <1>2, <3>3, <3>4 DEF SlotsOK
      <4>1. CASE t = SlotOf(orderId)
        BY <1>2, <3>2, <4>1
      <4>2. CASE t # SlotOf(orderId)
        <5>1. reqQueue[t].cnt \in First .. orderId - 1 /\ SlotOf(reqQueue[t].cnt) = t
          BY <1>1, <3>2, <4>2 DEF RingOK, SlotsOK
        <5> QED BY <1>2, <3>2, <4>2, <5>1
      <4> QED BY <4>1, <4>2
    <3> QED BY <3>6, <3>7, <3>9, <3>10 DEF RingOK
  <2> QED BY <2>1, <2>2
<1>9. CASE Select
  <2>1. reqQueue' = reqQueue \/ reqQueue' = ackCallback(sendMemPtr)
    BY <1>9 DEF Select
  <2>2. sendMemPtr \in Slots /\ reqQueue \in [Slots -> Slot]
    BY <1>1 DEF TypeOK
  <2>3. \A t \in Slots : /\ reqQueue'[t].valid = reqQueue[t].valid
                         /\ reqQueue'[t].cnt = reqQueue[t].cnt
                         /\ reqQueue'[t].hasPushChan = reqQueue[t].hasPushChan
    BY <2>1, <2>2, AckSlot
  <2> QED BY <1>1, <1>9, <2>3, RingQuiet DEF Select, outVars
<1>10. ASSUME NEW sendable \in BOOLEAN, PushChannel(sendable) PROVE RingOK'
  <2>1. CASE UNCHANGED <<channel, reqQueue, currReqId, sendChanPtr>>
    BY <1>1, <1>10, <2>1, RingQuiet DEF PushChannel
  <2>2. CASE ~UNCHANGED <<channel, reqQueue, currReqId, sendChanPtr>>
    <3>1. /\ ReadyToSend(sendChanPtr)
          /\ channel' = Append(channel, SlotOf(currReqId))
          /\ reqQueue' = [reqQueue EXCEPT ![SlotOf(currReqId)].hasPushChan = TRUE]
          /\ currReqId' = currReqId + 1
          /\ sendChanPtr' = NextSlot(SlotOf(currReqId))
          /\ UNCHANGED <<orderId, pushQueuePtr>>
      BY <1>3, <1>10, <2>2 DEF PushChannel
    <3>2. /\ \A t \in Slots \ {SlotOf(currReqId)} : reqQueue'[t] = reqQueue[t]
          /\ \A t \in Slots : /\ reqQueue'[t].valid = reqQueue[t].valid
                              /\ reqQueue'[t].cnt = reqQueue[t].cnt
          /\ reqQueue'[SlotOf(currReqId)].hasPushChan
      BY <1>1, <1>3, <3>1, PushedSlot DEF TypeOK
    <3>3. currReqId < orderId
      BY <1>1, <3>1, NextToSend
    <3>4. /\ Len(channel') = Len(channel) + 1
          /\ \A k \in 1 .. Len(channel) : channel'[k] = channel[k]
          /\ channel'[Len(channel) + 1] = SlotOf(currReqId)
          /\ channel' # <<>>
      <4>1. channel \in Seq(Slots) /\ SlotOf(currReqId) \in Slots
        BY <1>1, <1>3 DEF TypeOK
      <4> QED BY <3>1, <4>1, AppendProperties
    <3>5. First' = First
      <4>1. First' = (currReqId + 1) - Len(channel')
        BY <3>1 DEF First
      <4> QED BY <1>2, <3>4, <4>1
    <3>6. CountersOK'
      <4>1. NextSlot(SlotOf(currReqId)) = SlotOf(currReqId + 1)
        BY <1>2, SlotOfProperties
      <4>2. Len(channel) + 1 <= currReqId + 1 /\ currReqId + 1 <= orderId
        BY <1>2, <3>3
      <4> QED BY <1>2, <1>3, <3>1, <3>4, <3>5, <4>1, <4>2 DEF CountersOK
    <3>7. OutputOK'
      <4>1. ASSUME NEW k \in 1 .. Len(channel') PROVE channel'[k] = SlotOf(First + k - 1)
        <5>1. CASE k \in 1 .. Len(channel)
          BY <1>1, <3>4, <5>1 DEF RingOK, OutputOK
        <5>2. CASE k = Len(channel) + 1
          <6>1. First + k - 1 = currReqId
            BY <1>2, <5>2
          <6> QED BY <3>4, <5>2, <6>1
        <5> QED BY <1>2, <3>4, <5>1, <5>2
      <4> QED BY <3>4, <3>5, <4>1 DEF OutputOK
    <3>8. EntriesOK'
      <4> SUFFICES ASSUME NEW n \in First .. orderId - 1
                   PROVE  /\ reqQueue'[SlotOf(n)].valid /\ reqQueue'[SlotOf(n)].cnt = n
                          /\ reqQueue'[SlotOf(n)].hasPushChan <=> n < currReqId + 1
        BY <3>1, <3>5 DEF EntriesOK
      <4>1. n \in Nat /\ SlotOf(n) \in Slots
        BY <1>2, <1>5
      <4>2. reqQueue'[SlotOf(n)].valid /\ reqQueue'[SlotOf(n)].cnt = n
        BY <1>1, <3>2, <4>1 DEF RingOK, EntriesOK
      <4>3. CASE n = currReqId
        BY <1>2, <3>2, <4>2, <4>3
      <4>4. CASE n # currReqId
        <5>1. currReqId \in First .. orderId - 1
          BY <1>2, <3>3
        <5>2. SlotOf(n) # SlotOf(currReqId)
          BY <1>4, <4>4, <5>1
        <5>3. reqQueue'[SlotOf(n)].hasPushChan <=> n < currReqId
          BY <1>1, <3>2, <4>1, <5>2 DEF RingOK, EntriesOK
        <5>4. n < currReqId <=> n < currReqId + 1
          BY <1>2, <4>1, <4>4
        <5> QED BY <4>2, <5>3, <5>4, Zenon
      <4> QED BY <4>3, <4>4
    <3>9. SlotsOK'
      BY <1>1, <3>1, <3>2, <3>5 DEF RingOK, SlotsOK
    <3> QED BY <3>6, <3>7, <3>8, <3>9 DEF RingOK
  <2> QED BY <2>1, <2>2
<1>11. ASSUME NEW req \in BagToSet(mem), SendBack(req) PROVE RingOK'
  <2>1. req.slot \in Slots /\ reqQueue \in [Slots -> Slot]
    BY <1>1, <1>11 DEF TypeOK, BagToSet, Request
  <2>2. \A t \in Slots : /\ reqQueue'[t].valid = reqQueue[t].valid
                         /\ reqQueue'[t].cnt = reqQueue[t].cnt
                         /\ reqQueue'[t].hasPushChan = reqQueue[t].hasPushChan
    BY <1>11, <2>1, AckSlot DEF SendBack
  <2>3. pc = "sendBack" /\ valid' = valid
    BY <1>11 DEF SendBack, outVars
  <2>4. valid => channel # <<>>
    BY <1>1, <2>3 DEF RingOK, OutputOK
  <2> QED BY <1>1, <1>11, <2>2, <2>3, <2>4, RingQuiet DEF SendBack, outVars
<1>12. CASE Collect
  <2>1. PICK req \in Request : req = Head(suspendReqVec[currId])
    <3>1. suspendReqVec[currId] \in Seq(Request) /\ suspendReqVec[currId] # <<>>
      BY <1>1, <1>12 DEF TypeOK, Collect
    <3> QED BY <3>1, HeadTailProperties
  <2>2. reqQueue' = [reqQueue EXCEPT ![req.slot].inflight = TRUE]
    BY <1>12, <2>1 DEF Collect
  <2>3. \A t \in Slots : /\ reqQueue'[t].valid = reqQueue[t].valid
                         /\ reqQueue'[t].cnt = reqQueue[t].cnt
                         /\ reqQueue'[t].hasPushChan = reqQueue[t].hasPushChan
    BY <1>1, <2>2, InflightSlot DEF TypeOK, Request
  <2>4. pc = "collect" /\ valid' = valid
    BY <1>12 DEF Collect, outVars
  <2>5. valid => channel # <<>>
    BY <1>1, <2>4 DEF RingOK, OutputOK
  <2> QED BY <1>1, <1>12, <2>3, <2>4, <2>5, RingQuiet DEF Collect, outVars
<1>13. CASE NoAnswer \/ NotCollected \/ UNCHANGED vars
  <2>1. pc' \in {"sendBack", "collect", "pop"} => pc \in {"sendBack", "collect", "pop"}
    BY <1>13 DEF NoAnswer, NotCollected, vars
  <2>2. UNCHANGED <<ringVars, outVars>>
    BY <1>13 DEF NoAnswer, NotCollected, vars
  <2>3. pc' \in {"sendBack", "collect", "pop"} /\ valid' => channel # <<>>
    BY <1>1, <2>1, <2>2 DEF RingOK, OutputOK, outVars
  <2> QED BY <1>1, <2>2, <2>3, RingQuiet DEF ringVars, outVars
<1> QED BY <1>6, <1>7, <1>8, <1>9, <1>10, <1>11, <1>12, <1>13 DEF Next

\* Popping a datum is the only step that moves First.
LEMMA PopFirst ==
    ASSUME IInv, Pop, valid
    PROVE  channel # <<>> /\ First' = First + 1 /\ First < orderId
<1>1. channel # <<>> /\ channel \in Seq(Slots) /\ pc = "pop"
  BY DEF IInv, RingOK, OutputOK, Pop, TypeOK
<1>2. Len(channel) \in Nat \ {0} /\ Len(Tail(channel)) = Len(channel) - 1
  BY <1>1, HeadTailProperties, EmptySeq
<1>3. currReqId \in Nat /\ orderId \in Nat /\ currReqId <= orderId
  BY DEF IInv, TypeOK, RingOK, CountersOK
<1>4. First = currReqId - Len(channel) /\ First' = currReqId - Len(Tail(channel))
  BY DEF First, Pop, popReq
<1> QED BY <1>1, <1>2, <1>3, <1>4

LEMMA PushChannelFirst ==
    ASSUME IInv, NEW sendable \in BOOLEAN, PushChannel(sendable)
    PROVE  First' = First
<1>1. channel \in Seq(Slots) /\ currReqId \in Nat
  BY DEF IInv, TypeOK
<1>2. sendChanPtr \in Slots
  BY <1>1, SlotOfProperties DEF IInv, RingOK, CountersOK
<1>3. \/ channel' = channel /\ currReqId' = currReqId
      \/ channel' = Append(channel, sendChanPtr) /\ currReqId' = currReqId + 1
  BY DEF PushChannel
<1>4. CASE channel' = channel /\ currReqId' = currReqId
  BY <1>4 DEF First
<1>5. CASE channel' = Append(channel, sendChanPtr) /\ currReqId' = currReqId + 1
  <2>1. Len(channel) \in Nat /\ Len(channel') = Len(channel) + 1
    BY <1>1, <1>2, <1>5, AppendProperties, LenProperties
  <2>2. First = currReqId - Len(channel) /\ First' = (currReqId + 1) - Len(channel')
    BY <1>5 DEF First
  <2> QED BY <1>1, <2>1, <2>2
<1> QED BY <1>3, <1>4, <1>5

LEMMA ValuesStep == IInv /\ [Next]_vars => ValuesOK'
<1> SUFFICES ASSUME IInv, [Next]_vars PROVE ValuesOK'
  OBVIOUS
<1>1. TypeOK /\ ValuesOK
  BY DEF IInv
<1>2. /\ orderId \in Nat /\ First \in Nat /\ First <= orderId
      /\ offered \in [Inputs -> 0 .. MaxReq] /\ valueQueue \in Seq(Nat)
      /\ \A n \in Inputs : chanBuffer[n] \in Seq([id : Nat, cond : BOOLEAN])
  <2>1. orderId \in Nat /\ First \in Nat /\ First <= orderId
    BY FirstBounds DEF IInv
  <2> QED BY <1>1, <2>1 DEF TypeOK
<1>3. CASE Pop
  <2>1. InputsOK'
    BY <1>1, <1>3 DEF ValuesOK, InputsOK, Pop, inVars
  <2>2. StoresOK'
    <3> SUFFICES ASSUME IsWrite
                 PROVE  /\ Len(valueQueue') = orderId' - First'
                        /\ \A k \in 1 .. Len(valueQueue') : valueQueue'[k] = First' + k - 1
      BY DEF StoresOK
    <3>1. CASE ~valid
      BY <1>1, <1>3, <3>1 DEF ValuesOK, StoresOK, Pop, First
    <3>2. CASE valid
      <4>1. First' = First + 1 /\ First < orderId /\ orderId' = orderId
        BY <1>3, <3>2, PopFirst DEF Pop
      <4>2. /\ Len(valueQueue) = orderId - First
            /\ \A k \in 1 .. Len(valueQueue) : valueQueue[k] = First + k - 1
        BY <1>1 DEF ValuesOK, StoresOK
      <4>3. valueQueue # <<>> /\ valueQueue' = Tail(valueQueue)
        BY <1>2, <1>3, <3>2, <4>1, <4>2 DEF Pop, popReq
      <4>4. /\ Len(valueQueue') = Len(valueQueue) - 1
            /\ \A k \in 1 .. Len(valueQueue') : valueQueue'[k] = valueQueue[k + 1]
        BY <1>2, <4>3, HeadTailProperties
      <4>5. ASSUME NEW k \in 1 .. Len(valueQueue') PROVE valueQueue'[k] = First' + k - 1
        <5>1. valueQueue[k + 1] = First + (k + 1) - 1
          BY <1>2, <4>2, <4>4
        <5> QED BY <1>2, <4>1, <4>4, <5>1
      <4> QED BY <1>2, <4>1, <4>2, <4>4, <4>5
    <3> QED BY <1>1, <3>1, <3>2 DEF TypeOK
  <2> QED BY <2>1, <2>2 DEF ValuesOK
<1>4. ASSUME NEW from \in SUBSET Inputs, NEW cond \in Conds, Push(from, cond)
      PROVE  ValuesOK'
  <2>1. StoresOK'
    BY <1>1, <1>4 DEF ValuesOK, StoresOK, First, Push, ringVars, outVars
  <2>2. InputsOK'
    <3> SUFFICES ASSUME NEW n \in Inputs
                 PROVE  /\ offered'[n] = orderId' + Len(chanBuffer'[n])
                        /\ \A k \in 1 .. Len(chanBuffer'[n]) : chanBuffer'[n][k].id = orderId' + k - 1
      BY DEF InputsOK
    <3>1. /\ orderId' = orderId
          /\ offered[n] = orderId + Len(chanBuffer[n])
          /\ \A k \in 1 .. Len(chanBuffer[n]) : chanBuffer[n][k].id = orderId + k - 1
      BY <1>1, <1>4 DEF ValuesOK, InputsOK, Push, ringVars
    <3>2. CASE n \notin from
      BY <1>4, <3>1, <3>2 DEF Push
    <3>3. CASE n \in from
      <4> DEFINE datum == [id |-> offered[n], cond |-> cond]
      <4>1. cond \in BOOLEAN
        BY DEF Conds
      <4>2. datum \in [id : Nat, cond : BOOLEAN] /\ datum.id = offered[n]
        BY <1>2, <4>1
      <4>3. chanBuffer'[n] = Append(chanBuffer[n], datum) /\ offered'[n] = offered[n] + 1
        BY <1>4, <3>3 DEF Push
      <4> HIDE DEF datum
      <4>4. /\ Len(chanBuffer'[n]) = Len(chanBuffer[n]) + 1
            /\ \A k \in 1 .. Len(chanBuffer[n]) : chanBuffer'[n][k] = chanBuffer[n][k]
            /\ chanBuffer'[n][Len(chanBuffer[n]) + 1] = datum
            /\ Len(chanBuffer[n]) \in Nat
        BY <1>2, <4>2, <4>3, AppendProperties, LenProperties
      <4>5. ASSUME NEW k \in 1 .. Len(chanBuffer'[n]) PROVE chanBuffer'[n][k].id = orderId + k - 1
        <5>1. CASE k \in 1 .. Len(chanBuffer[n])
          BY <3>1, <4>4, <5>1
        <5>2. CASE k = Len(chanBuffer[n]) + 1
          <6>1. offered[n] = orderId + k - 1
            BY <1>2, <3>1, <4>4, <5>2
          <6> QED BY <4>2, <4>4, <5>2, <6>1
        <5> QED BY <4>4, <5>1, <5>2
      <4>6. offered[n] + 1 = orderId + (Len(chanBuffer[n]) + 1)
        BY <1>2, <3>1, <4>4
      <4> QED BY <3>1, <4>3, <4>4, <4>5, <4>6
    <3> QED BY <3>2, <3>3
  <2> QED BY <2>1, <2>2 DEF ValuesOK
<1>5. CASE PushReqQ
  <2>1. First' = First /\ offered' = offered
    BY <1>5 DEF PushReqQ, First
  <2>2. CASE UNCHANGED <<reqQueue, valueQueue, chanBuffer, orderId, pushQueuePtr>>
    BY <1>1, <2>1, <2>2 DEF ValuesOK, InputsOK, StoresOK
  <2>3. CASE ~UNCHANGED <<reqQueue, valueQueue, chanBuffer, orderId, pushQueuePtr>>
    <3>1. /\ orderId' = orderId + 1
          /\ \A n \in Inputs : chanBuffer[n] # <<>> /\ chanBuffer'[n] = Tail(chanBuffer[n])
          /\ valueQueue' = IF IsWrite THEN Append(valueQueue, Head(chanBuffer[2]).id)
                           ELSE valueQueue
      BY <1>1, <1>5, <2>3, PushReqQCases DEF DataMatch
    <3>2. ASSUME NEW n \in Inputs
          PROVE  /\ Len(chanBuffer[n]) \in Nat \ {0}
                 /\ Len(chanBuffer'[n]) = Len(chanBuffer[n]) - 1
                 /\ \A k \in 1 .. Len(chanBuffer'[n]) : chanBuffer'[n][k] = chanBuffer[n][k + 1]
                 /\ Head(chanBuffer[n]) = chanBuffer[n][1]
                 /\ offered[n] = orderId + Len(chanBuffer[n])
                 /\ \A k \in 1 .. Len(chanBuffer[n]) : chanBuffer[n][k].id = orderId + k - 1
      <4>1. /\ offered[n] = orderId + Len(chanBuffer[n])
            /\ \A k \in 1 .. Len(chanBuffer[n]) : chanBuffer[n][k].id = orderId + k - 1
        BY <1>1 DEF ValuesOK, InputsOK
      <4>2. /\ chanBuffer[n] \in Seq([id : Nat, cond : BOOLEAN]) /\ chanBuffer[n] # <<>>
            /\ chanBuffer'[n] = Tail(chanBuffer[n])
        BY <1>2, <3>1
      <4>3. Len(chanBuffer[n]) \in Nat \ {0} /\ Head(chanBuffer[n]) = chanBuffer[n][1]
        BY <4>2, EmptySeq
      <4> QED BY <4>1, <4>2, <4>3, HeadTailProperties
    <3>3. InputsOK'
      <4> SUFFICES ASSUME NEW n \in Inputs
                   PROVE  /\ offered[n] = orderId + 1 + Len(chanBuffer'[n])
                          /\ \A k \in 1 .. Len(chanBuffer'[n]) :
                                chanBuffer'[n][k].id = orderId + 1 + k - 1
        BY <2>1, <3>1 DEF InputsOK
      <4>1. ASSUME NEW k \in 1 .. Len(chanBuffer'[n])
            PROVE  chanBuffer'[n][k].id = orderId + 1 + k - 1
        <5>1. chanBuffer'[n][k] = chanBuffer[n][k + 1] /\ k + 1 \in 1 .. Len(chanBuffer[n])
          BY <3>2
        <5>2. chanBuffer[n][k + 1].id = orderId + (k + 1) - 1
          BY <3>2, <5>1
        <5>3. orderId + (k + 1) - 1 = orderId + 1 + k - 1
          BY <1>2
        <5> QED BY <5>1, <5>2, <5>3
      <4>2. offered[n] = orderId + 1 + Len(chanBuffer'[n])
        <5>1. PICK len \in Nat : len = Len(chanBuffer[n])
          BY <3>2
        <5>2. Len(chanBuffer'[n]) = len - 1 /\ offered[n] = orderId + len
          BY <3>2, <5>1
        <5>3. orderId \in Nat
          BY <1>2
        <5> QED BY <5>2, <5>3
      <4> QED BY <4>1, <4>2
    <3>4. StoresOK'
      <4> SUFFICES ASSUME IsWrite
                   PROVE  /\ Len(valueQueue') = orderId' - First'
                          /\ \A k \in 1 .. Len(valueQueue') : valueQueue'[k] = First' + k - 1
        BY DEF StoresOK
      <4>1. 2 \in Inputs
        BY DEF Inputs
      <4>2. Head(chanBuffer[2]).id = orderId
        <5>1. Head(chanBuffer[2]) = chanBuffer[2][1] /\ 1 \in 1 .. Len(chanBuffer[2])
          BY <3>2, <4>1
        <5>2. chanBuffer[2][1].id = orderId + 1 - 1
          BY <3>2, <4>1, <5>1
        <5> QED BY <1>2, <5>1, <5>2
      <4>3. valueQueue' = Append(valueQueue, orderId)
        BY <3>1, <4>2
      <4>4. /\ Len(valueQueue') = Len(valueQueue) + 1
            /\ \A k \in 1 .. Len(valueQueue) : valueQueue'[k] = valueQueue[k]
            /\ valueQueue'[Len(valueQueue) + 1] = orderId
        BY <1>2, <4>3, AppendProperties
      <4>5. /\ Len(valueQueue) = orderId - First
            /\ \A k \in 1 .. Len(valueQueue) : valueQueue[k] = First + k - 1
        BY <1>1 DEF ValuesOK, StoresOK
      <4>6. ASSUME NEW k \in 1 .. Len(valueQueue') PROVE valueQueue'[k] = First + k - 1
        <5>1. CASE k \in 1 .. Len(valueQueue)
          BY <4>4, <4>5, <5>1
        <5>2. CASE k = Len(valueQueue) + 1
          BY <1>2, <4>4, <4>5, <5>2
        <5> QED BY <1>2, <4>4, <4>5, <5>1, <5>2
      <4>7. orderId' = orderId + 1
        BY <3>1
      <4> QED BY <1>2, <2>1, <4>4, <4>5, <4>6, <4>7
    <3> QED BY <3>3, <3>4 DEF ValuesOK
  <2> QED BY <2>2, <2>3
<1>6. ASSUME NEW sendable \in BOOLEAN, PushChannel(sendable) PROVE ValuesOK'
  <2>1. First' = First
    BY <1>6, PushChannelFirst
  <2>2. UNCHANGED <<orderId, valueQueue, chanBuffer, offered>>
    BY <1>6 DEF PushChannel
  <2> QED BY <1>1, <2>1, <2>2 DEF ValuesOK, InputsOK, StoresOK
<1>7. CASE \/ Select \/ NoAnswer \/ Collect \/ NotCollected \/ UNCHANGED vars
           \/ \E req \in BagToSet(mem) : SendBack(req)
  <2>1. UNCHANGED <<orderId, currReqId, channel, valueQueue, chanBuffer, offered>>
    BY <1>7 DEF Select, NoAnswer, Collect, NotCollected, SendBack, vars, inVars, ringVars, outVars
  <2>2. First' = First
    BY <2>1 DEF First
  <2> QED BY <1>1, <2>1, <2>2 DEF ValuesOK, InputsOK, StoresOK
<1> QED BY <1>3, <1>4, <1>5, <1>6, <1>7 DEF Next

\* The step of a single instance: the slots of requests on offer or taken are
\* disjoint from the slot a step frees, fills, answers or hands on.
LEMMA AnswersStep == IInv /\ Speedup = 1 /\ [Next]_vars => AnswersOK'
<1> SUFFICES ASSUME IInv, Speedup = 1, [Next]_vars PROVE AnswersOK'
  OBVIOUS
<1>1. TypeOK /\ RingOK /\ FlagsOK /\ OfferOK /\ TakenOK /\ TypeOK'
  BY TypeStep DEF IInv, AnswersOK
<1>2. Instances = {1} /\ currId = 1
  BY <1>1 DEF Instances, TypeOK
<1>3. reqQueue \in [Slots -> Slot] /\ sendMemPtr \in Slots
  BY <1>1 DEF TypeOK
<1>4. pushQueuePtr \in Slots /\ sendChanPtr \in Slots
  BY <1>1, SlotOfProperties DEF RingOK, CountersOK, TypeOK
<1>5. ASSUME suspendReqVec[1] # <<>> PROVE Head(suspendReqVec[1]) \in Request
  <2>1. suspendReqVec[1] \in Seq(Request)
    BY <1>1, <1>2 DEF TypeOK
  <2> QED BY <1>5, <2>1, HeadTailProperties
<1>6. ASSUME suspendReqVec[1] # <<>>
      PROVE  LET req == Head(suspendReqVec[1])
             IN  /\ req.slot \in Slots
                 /\ reqQueue[req.slot].valid /\ reqQueue[req.slot].cnt = req.cnt
                 /\ ~reqQueue[req.slot].inflight /\ ~reqQueue[req.slot].ready
  BY <1>1, <1>2, <1>5, <1>6 DEF OfferOK, Request
<1>7. ASSUME NEW req \in DOMAIN mem
      PROVE  /\ req \in Request /\ req.slot \in Slots /\ mem[req] = 1
             /\ reqQueue[req.slot].valid /\ reqQueue[req.slot].cnt = req.cnt
             /\ reqQueue[req.slot].inflight /\ ~reqQueue[req.slot].ready
  <2>1. req \in Request /\ req.slot \in Slots
    BY <1>1 DEF TypeOK, Request
  <2> QED BY <1>1, <2>1 DEF TakenOK, FlagsOK
<1>8. CASE Pop
  <2>1. CASE ~valid /\ UNCHANGED <<channel, valueQueue, reqQueue>>
    BY <1>1, <1>8, <2>1 DEF AnswersOK, FlagsOK, OfferOK, TakenOK, Pop
  <2>2. CASE valid /\ popReq(Head(channel))
    <3> DEFINE p == Head(channel)
    <3>1. p \in Slots /\ reqQueue[p].hasPushChan
      <4>1. channel # <<>> /\ First < orderId /\ channel \in Seq(Slots)
        BY <1>1, <1>8, <2>2, PopFirst DEF TypeOK
      <4>2. /\ currReqId \in Nat /\ Len(channel) \in Nat \ {0} /\ First = currReqId - Len(channel)
            /\ First \in Nat /\ orderId \in Nat
        BY <1>1, <4>1, EmptySeq DEF TypeOK, First, RingOK, CountersOK
      <4>3. p = channel[1] /\ 1 \in 1 .. Len(channel) /\ p \in Slots
        BY <4>1, <4>2, HeadTailProperties
      <4>4. p = SlotOf(First + 1 - 1)
        BY <1>1, <4>3 DEF RingOK, OutputOK
      <4>5. First + 1 - 1 = First /\ First \in First .. orderId - 1 /\ First < currReqId
        BY <4>1, <4>2
      <4> HIDE DEF p
      <4> QED BY <1>1, <4>3, <4>4, <4>5 DEF RingOK, EntriesOK
    <3>2. reqQueue[p].ready /\ ~reqQueue[p].inflight
      BY <1>1, <3>1 DEF FlagsOK
    <3>3. /\ \A t \in Slots \ {p} : reqQueue'[t] = reqQueue[t]
          /\ ~reqQueue'[p].hasPushChan /\ ~reqQueue'[p].inflight /\ ~reqQueue'[p].ready
      <4>1. ~NoReq.hasPushChan /\ ~NoReq.inflight /\ ~NoReq.ready
        BY DEF NoReq
      <4> QED BY <1>3, <2>2, <3>1, <4>1 DEF popReq
    <3> HIDE DEF p
    <3>4. UNCHANGED <<suspendReqVec, mem>>
      BY <1>8 DEF Pop
    <3>5. FlagsOK'
      BY <1>1, <3>3 DEF FlagsOK
    <3>6. OfferOK'
      BY <1>2, <1>6, <3>2, <3>3, <3>4 DEF OfferOK
    <3>7. TakenOK'
      BY <1>7, <3>2, <3>3, <3>4 DEF TakenOK
    <3> QED BY <3>5, <3>6, <3>7 DEF AnswersOK
  <2> QED BY <1>8, <2>1, <2>2 DEF Pop
<1>9. CASE PushReqQ
  <2>1. UNCHANGED <<suspendReqVec, mem>>
    BY <1>9 DEF PushReqQ
  <2>2. CASE UNCHANGED <<reqQueue, valueQueue, chanBuffer, orderId, pushQueuePtr>>
    BY <1>1, <2>1, <2>2 DEF AnswersOK, FlagsOK, OfferOK, TakenOK
  <2>3. CASE ~UNCHANGED <<reqQueue, valueQueue, chanBuffer, orderId, pushQueuePtr>>
    <3>1. PICK c \in BOOLEAN : reqQueue' = [reqQueue EXCEPT ![pushQueuePtr] = Fresh(c)]
      BY <1>1, <1>9, <2>3, PushReqQCases
    <3>2. ~reqQueue[pushQueuePtr].valid
      BY <1>1, <1>9, <2>3, PushReqQCases DEF SlotFree
    <3>3. orderId \in Nat
      BY <1>1 DEF TypeOK
    <3>4. /\ \A t \in Slots \ {pushQueuePtr} : reqQueue'[t] = reqQueue[t]
          /\ ~reqQueue'[pushQueuePtr].hasPushChan /\ ~reqQueue'[pushQueuePtr].inflight
          /\ ~reqQueue'[pushQueuePtr].ready
      BY <1>3, <1>4, <3>1, <3>3, FreshSlot
    <3>5. FlagsOK'
      BY <1>1, <3>4 DEF FlagsOK
    <3>6. OfferOK'
      BY <1>2, <1>6, <2>1, <3>2, <3>4 DEF OfferOK
    <3>7. TakenOK'
      BY <1>7, <2>1, <3>2, <3>4 DEF TakenOK
    <3> QED BY <3>5, <3>6, <3>7 DEF AnswersOK
  <2> QED BY <2>2, <2>3
<1>10. CASE Select
  <2>1. mem' = mem
    BY <1>10 DEF Select
  <2>2. CASE UNCHANGED <<reqQueue, suspendReqVec>>
    BY <1>1, <2>1, <2>2 DEF AnswersOK, FlagsOK, OfferOK, TakenOK
  <2>3. CASE /\ suspendReqVec[1] = <<>> /\ Unsent(sendMemPtr)
             /\ reqQueue' = ackCallback(sendMemPtr) /\ UNCHANGED suspendReqVec
    <3>1. /\ reqQueue[sendMemPtr].valid /\ ~reqQueue[sendMemPtr].inflight
          /\ ~reqQueue[sendMemPtr].ready
      BY <2>3 DEF Unsent
    <3>2. /\ \A t \in Slots \ {sendMemPtr} : reqQueue'[t] = reqQueue[t]
          /\ reqQueue'[sendMemPtr].ready /\ ~reqQueue'[sendMemPtr].inflight
      BY <1>3, <2>3, AckSlot
    <3>3. FlagsOK'
      BY <1>1, <3>2 DEF FlagsOK
    <3>4. OfferOK'
      BY <1>2, <2>3 DEF OfferOK
    <3>5. TakenOK'
      BY <1>7, <2>1, <3>1, <3>2 DEF TakenOK
    <3> QED BY <3>3, <3>4, <3>5 DEF AnswersOK
  <2>4. CASE /\ Unsent(sendMemPtr) /\ UNCHANGED reqQueue
             /\ suspendReqVec' = [suspendReqVec EXCEPT ![1] =
                                     <<[slot |-> sendMemPtr, cnt |-> reqQueue[sendMemPtr].cnt]>>]
    <3>1. /\ reqQueue[sendMemPtr].valid /\ ~reqQueue[sendMemPtr].inflight
          /\ ~reqQueue[sendMemPtr].ready
      BY <2>4 DEF Unsent
    <3>2. PICK req \in Request : req = [slot |-> sendMemPtr, cnt |-> reqQueue[sendMemPtr].cnt]
      BY <1>3 DEF Slot, Request
    <3>3. req.slot = sendMemPtr /\ req.cnt = reqQueue[sendMemPtr].cnt
      BY <3>2
    <3>4. suspendReqVec \in [Instances -> Seq(Request)]
      BY <1>1 DEF TypeOK
    <3>5. suspendReqVec'[1] = <<req>> /\ Head(<<req>>) = req
      BY <1>2, <2>4, <3>2, <3>4
    <3>6. OfferOK'
      BY <1>2, <2>4, <3>1, <3>3, <3>5 DEF OfferOK
    <3> QED BY <1>1, <2>1, <2>4, <3>6 DEF AnswersOK, FlagsOK, TakenOK
  <2> QED BY <1>2, <1>10, <2>2, <2>3, <2>4 DEF Select
<1>11. ASSUME NEW sendable \in BOOLEAN, PushChannel(sendable) PROVE AnswersOK'
  <2>1. UNCHANGED <<suspendReqVec, mem>>
    BY <1>11 DEF PushChannel
  <2>2. CASE UNCHANGED reqQueue
    BY <1>1, <2>1, <2>2 DEF AnswersOK, FlagsOK, OfferOK, TakenOK
  <2>3. CASE ~UNCHANGED reqQueue
    <3>1. /\ reqQueue' = [reqQueue EXCEPT ![sendChanPtr].hasPushChan = TRUE]
          /\ reqQueue[sendChanPtr].ready
      BY <1>11, <2>3 DEF PushChannel, ReadyToSend
    <3>2. /\ \A t \in Slots \ {sendChanPtr} : reqQueue'[t] = reqQueue[t]
          /\ \A t \in Slots : /\ reqQueue'[t].valid = reqQueue[t].valid
                              /\ reqQueue'[t].cnt = reqQueue[t].cnt
                              /\ reqQueue'[t].inflight = reqQueue[t].inflight
                              /\ reqQueue'[t].ready = reqQueue[t].ready
      BY <1>3, <1>4, <3>1, PushedSlot
    <3>3. FlagsOK'
      BY <1>1, <3>1, <3>2 DEF FlagsOK
    <3>4. OfferOK'
      BY <1>2, <1>6, <2>1, <3>2 DEF OfferOK
    <3>5. TakenOK'
      BY <1>7, <2>1, <3>2 DEF TakenOK
    <3> QED BY <3>3, <3>4, <3>5 DEF AnswersOK
  <2> QED BY <2>2, <2>3
<1>12. ASSUME NEW req \in BagToSet(mem), SendBack(req) PROVE AnswersOK'
  <2>1. req \in DOMAIN mem
    BY DEF BagToSet
  <2>2. /\ reqQueue' = ackCallback(req.slot) /\ mem' = mem (-) SetToBag({req})
        /\ UNCHANGED suspendReqVec
    BY <1>12 DEF SendBack
  <2>3. /\ \A t \in Slots \ {req.slot} : reqQueue'[t] = reqQueue[t]
        /\ \A t \in Slots : reqQueue'[t].hasPushChan = reqQueue[t].hasPushChan
        /\ reqQueue'[req.slot].ready /\ ~reqQueue'[req.slot].inflight
    BY <1>3, <1>7, <2>1, <2>2, AckSlot
  <2>4. /\ DOMAIN mem' \subseteq DOMAIN mem /\ req \notin DOMAIN mem'
        /\ \A d \in DOMAIN mem' : d # req => mem'[d] = mem[d]
    <3>1. mem \in [DOMAIN mem -> Nat \ {0}] /\ mem[req] = 1
      BY <1>1, <1>7, <2>1 DEF TypeOK
    <3> QED BY <2>1, <2>2, <3>1, BagAnswerType
  <2>5. FlagsOK'
    BY <1>1, <2>3 DEF FlagsOK
  <2>6. OfferOK'
    BY <1>2, <1>6, <1>7, <2>1, <2>2, <2>3 DEF OfferOK
  <2>7. TakenOK'
    <3> SUFFICES ASSUME NEW d \in DOMAIN mem'
                 PROVE  /\ mem'[d] = 1
                        /\ reqQueue'[d.slot].valid /\ reqQueue'[d.slot].cnt = d.cnt
                        /\ reqQueue'[d.slot].inflight
      BY DEF TakenOK
    <3>1. d \in DOMAIN mem /\ d # req /\ mem'[d] = mem[d]
      BY <2>4
    <3>2. d.slot # req.slot
      <4>1. d \in Request /\ req \in Request
        BY <1>7, <2>1, <3>1
      <4>2. d.slot = req.slot => d.cnt = req.cnt
        BY <1>7, <2>1, <3>1
      <4> QED BY <3>1, <4>1, <4>2 DEF Request
    <3> QED BY <1>7, <2>3, <3>1, <3>2
  <2> QED BY <2>5, <2>6, <2>7 DEF AnswersOK
<1>13. CASE Collect
  <2>1. suspendReqVec[1] # <<>>
    BY <1>2, <1>13 DEF Collect
  <2>2. PICK req \in Request : req = Head(suspendReqVec[1])
    BY <1>5, <2>1
  <2>3. /\ req.slot \in Slots
        /\ reqQueue[req.slot].valid /\ reqQueue[req.slot].cnt = req.cnt
        /\ ~reqQueue[req.slot].inflight /\ ~reqQueue[req.slot].ready
    BY <1>6, <2>1, <2>2
  <2>4. /\ reqQueue' = [reqQueue EXCEPT ![req.slot].inflight = TRUE]
        /\ mem' = mem (+) SetToBag({req})
        /\ suspendReqVec' = [suspendReqVec EXCEPT ![1] = <<>>]
    BY <1>2, <1>13, <2>2 DEF Collect
  <2>5. /\ \A t \in Slots \ {req.slot} : reqQueue'[t] = reqQueue[t]
        /\ \A t \in Slots : /\ reqQueue'[t].valid = reqQueue[t].valid
                            /\ reqQueue'[t].cnt = reqQueue[t].cnt
                            /\ reqQueue'[t].hasPushChan = reqQueue[t].hasPushChan
                            /\ reqQueue'[t].ready = reqQueue[t].ready
        /\ reqQueue'[req.slot].inflight
    BY <1>3, <2>3, <2>4, InflightSlot
  <2>6. req \notin DOMAIN mem
    BY <1>7, <2>3
  <2>7. /\ DOMAIN mem' = DOMAIN mem \cup {req} /\ mem'[req] = 1
        /\ \A d \in DOMAIN mem : mem'[d] = mem[d]
    <3>1. mem \in [DOMAIN mem -> Nat \ {0}]
      BY <1>1 DEF TypeOK
    <3>2. mem' = mem (+) SetToBag({req})
      BY <2>4
    <3> DEFINE taken == mem (+) SetToBag({req})
    <3>3. /\ DOMAIN taken = DOMAIN mem \cup {req} /\ taken[req] = 1
          /\ \A d \in DOMAIN mem : taken[d] = mem[d]
      BY <2>6, <3>1, BagTake, Zenon
    <3> HIDE DEF taken
    <3>4. mem' = taken
      BY <3>2 DEF taken
    <3> QED BY <3>3, <3>4
  <2>8. FlagsOK'
    BY <1>1, <2>3, <2>5 DEF FlagsOK
  <2>9. OfferOK'
    <3>1. suspendReqVec'[1] = <<>>
      BY <1>1, <1>2, <2>4 DEF TypeOK
    <3> QED BY <1>2, <3>1 DEF OfferOK
  <2>10. TakenOK'
    <3> SUFFICES ASSUME NEW d \in DOMAIN mem'
                 PROVE  /\ mem'[d] = 1
                        /\ reqQueue'[d.slot].valid /\ reqQueue'[d.slot].cnt = d.cnt
                        /\ reqQueue'[d.slot].inflight
      BY DEF TakenOK
    <3>1. CASE d = req
      BY <2>3, <2>5, <2>7, <3>1
    <3>2. CASE d \in DOMAIN mem
      <4>1. d.slot # req.slot
        BY <1>7, <2>3, <3>2
      <4> QED BY <1>7, <2>5, <2>7, <3>2, <4>1
    <3> QED BY <2>7, <3>1, <3>2
  <2> QED BY <2>8, <2>9, <2>10 DEF AnswersOK
<1>14. CASE \/ \E from \in SUBSET Inputs, cond \in Conds : Push(from, cond)
            \/ NoAnswer \/ NotCollected \/ UNCHANGED vars
  <2>1. UNCHANGED <<reqQueue, suspendReqVec, mem>>
    BY <1>14 DEF Push, NoAnswer, NotCollected, vars, ringVars
  <2> QED BY <1>1, <2>1 DEF AnswersOK, FlagsOK, OfferOK, TakenOK
<1> QED BY <1>8, <1>9, <1>10, <1>11, <1>12, <1>13, <1>14 DEF Next

LEMMA IInvAlways == Spec => []IInv
<1>1. Init => IInv
  BY IInvInit
<1>2. IInv /\ [Next]_vars => IInv'
  BY TypeStep, RingStep, ValuesStep, AnswersStep DEF IInv
<1> QED BY <1>1, <1>2, PTL DEF Spec

-----------------------------------------------------------------------------
(* The theorems. *)

\* However the answers are ordered, and however many instances share the
\* element, pushChannel never finds a request other than the one whose turn it
\* is: "Lse sendChanPtr not consist with currReqId!" is never thrown.
THEOREM SendPtrAlwaysConsistent == Spec => []SendPtrConsistent
<1>1. IInv => SendPtrConsistent
  BY NextToSend DEF IInv, SendPtrConsistent
<1> QED BY <1>1, IInvAlways, PTL

\* A store hands on its own value, also with several instances: the two queues
\* filled at different times stay in step.
THEOREM StoreValueAlwaysMatches == Spec => []StoreValueMatches
<1>1. ASSUME IInv, IsWrite, channel # <<>>
      PROVE  Head(valueQueue) = reqQueue[Head(channel)].cnt
  <2>1. /\ channel \in Seq(Slots) /\ valueQueue \in Seq(Nat)
        /\ currReqId \in Nat /\ orderId \in Nat /\ currReqId <= orderId
        /\ Len(channel) <= currReqId
    BY <1>1 DEF IInv, TypeOK, RingOK, CountersOK
  <2>2. Len(channel) \in Nat \ {0} /\ Head(channel) = channel[1]
    BY <1>1, <2>1, EmptySeq
  <2>3. First \in Nat /\ First < orderId
    BY <2>1, <2>2 DEF First
  <2>4. /\ Len(valueQueue) = orderId - First
        /\ \A k \in 1 .. Len(valueQueue) : valueQueue[k] = First + k - 1
    BY <1>1 DEF IInv, ValuesOK, StoresOK
  <2>5. 1 \in 1 .. Len(valueQueue) /\ First + 1 - 1 = First
    BY <2>1, <2>3, <2>4
  <2>6. Head(valueQueue) = First
    BY <2>1, <2>4, <2>5
  <2>7. channel[1] = SlotOf(First + 1 - 1)
    BY <1>1, <2>2 DEF IInv, RingOK, OutputOK
  <2>8. Head(channel) = SlotOf(First)
    BY <2>2, <2>5, <2>7
  <2>9. First \in First .. orderId - 1
    BY <2>1, <2>3
  <2>10. reqQueue[SlotOf(First)].cnt = First
    BY <1>1, <2>9 DEF IInv, RingOK, EntriesOK
  <2> QED BY <2>6, <2>8, <2>10
<1>2. IInv => StoreValueMatches
  BY <1>1 DEF StoreValueMatches
<1> QED BY <1>2, IInvAlways, PTL

\* With one instance, which is how every program configures its elements but
\* those of the run lse_speedup, an answer always finds the inflight request it
\* belongs to.
THEOREM AnswersAlwaysFindInflight == Speedup = 1 => (Spec => []AnswersFindInflight)
<1> SUFFICES ASSUME Speedup = 1 PROVE Spec => []AnswersFindInflight
  OBVIOUS
<1>1. IInv => AnswersFindInflight
  BY DEF IInv, AnswersOK, TakenOK, AnswersFindInflight, BagToSet
<1> QED BY <1>1, IInvAlways, PTL

-----------------------------------------------------------------------------
(* The refinement of MemPort. *)

PortEntry == [req : Nat, answered : BOOLEAN]

\* The queue of the abstract port, in terms of request numbers.
PortOK ==
    /\ PortQueue \in Seq(PortEntry)
    /\ Len(PortQueue) = orderId - First
    /\ \A k \in 1 .. orderId - First :
          PortQueue[k] = [req |-> First + k - 1, answered |-> reqQueue[SlotOf(First + k - 1)].ready]

LEMMA PortIs == IInv => PortOK
<1> SUFFICES ASSUME IInv PROVE PortOK
  OBVIOUS
<1> DEFINE n == orderId - First
<1>1. /\ orderId \in Nat /\ First \in Nat /\ First <= orderId /\ orderId <= First + NumSlots
      /\ NumSlots \in Nat \ {0} /\ reqQueue \in [Slots -> Slot]
  <2>1. TypeOK /\ RingOK
    BY DEF IInv
  <2>2. reqQueue \in [Slots -> Slot]
    BY <2>1 DEF TypeOK
  <2> QED BY <2>1, <2>2, FirstBounds
<1>2. InUse = {m % NumSlots : m \in First .. orderId - 1}
  <2>1. ASSUME NEW s \in InUse PROVE s \in {m % NumSlots : m \in First .. orderId - 1}
    <3>1. reqQueue[s].cnt \in First .. orderId - 1 /\ SlotOf(reqQueue[s].cnt) = s
      BY DEF InUse, IInv, RingOK, SlotsOK
    <3> QED BY <3>1 DEF SlotOf
  <2>2. ASSUME NEW m \in First .. orderId - 1 PROVE SlotOf(m) \in InUse
    <3>1. m \in Nat /\ SlotOf(m) \in Slots
      BY <1>1, SlotOfProperties
    <3> QED BY <3>1 DEF InUse, IInv, RingOK, EntriesOK
  <2> QED BY <2>1, <2>2 DEF SlotOf
<1>3. Cardinality(InUse) = n
  BY <1>1, <1>2, ModCount
<1>4. n \in Nat
  BY <1>1
<1>5. ASSUME NEW k \in 1 .. n
      PROVE  /\ (pushQueuePtr + NumSlots - n + k - 1) % NumSlots = SlotOf(First + k - 1)
             /\ reqQueue[SlotOf(First + k - 1)].cnt = First + k - 1
             /\ reqQueue[SlotOf(First + k - 1)].ready \in BOOLEAN
             /\ First + k - 1 \in Nat
  <2>1. k - 1 \in Nat /\ n \in 0 .. NumSlots /\ n <= orderId
    BY <1>1
  <2>2. (SlotOf(orderId) + NumSlots - n + (k - 1)) % NumSlots = (orderId - n + (k - 1)) % NumSlots
    BY <1>1, <2>1, ModBack DEF SlotOf
  <2>3. pushQueuePtr = SlotOf(orderId) /\ SlotOf(orderId) \in Nat
    BY <1>1, SlotOfProperties DEF IInv, RingOK, CountersOK, Slots
  <2>4. /\ SlotOf(orderId) + NumSlots - n + (k - 1) = pushQueuePtr + NumSlots - n + k - 1
        /\ orderId - n + (k - 1) = First + k - 1
    BY <1>1, <2>3
  <2>5. First + k - 1 \in First .. orderId - 1 /\ First + k - 1 \in Nat
    BY <1>1
  <2>6. reqQueue[SlotOf(First + k - 1)].cnt = First + k - 1
    BY <2>5 DEF IInv, RingOK, EntriesOK
  <2>7. reqQueue[SlotOf(First + k - 1)].ready \in BOOLEAN
    BY <1>1, <2>5, SlotOfProperties DEF Slot
  <2>8. (pushQueuePtr + NumSlots - n + k - 1) % NumSlots = SlotOf(First + k - 1)
    BY <2>2, <2>4 DEF SlotOf
  <2> QED BY <2>5, <2>6, <2>7, <2>8
<1> HIDE DEF n
<1>6. PortQueue =
        [k \in 1 .. n |->
            [req      |-> reqQueue[(pushQueuePtr + NumSlots - n + k - 1) % NumSlots].cnt,
             answered |-> reqQueue[(pushQueuePtr + NumSlots - n + k - 1) % NumSlots].ready]]
  BY <1>3 DEF PortQueue
<1>7. ASSUME NEW k \in 1 .. n
      PROVE  /\ PortQueue[k] = [req |-> First + k - 1,
                                answered |-> reqQueue[SlotOf(First + k - 1)].ready]
             /\ PortQueue[k] \in PortEntry
  BY <1>5, <1>6 DEF PortEntry
<1>8. PortQueue \in [1 .. n -> PortEntry]
  BY <1>6, <1>7
<1>9. PortQueue \in Seq(PortEntry) /\ Len(PortQueue) = n
  BY <1>4, <1>8
<1> QED BY <1>7, <1>9 DEF n, PortOK

\* What Answer does to an entry.
LEMMA AnsweredEntry ==
    ASSUME NEW e \in PortEntry
    PROVE  [e EXCEPT !.answered = TRUE] = [req |-> e.req, answered |-> TRUE]
<1> USE DEF PortEntry
<1> DEFINE f == [e EXCEPT !.answered = TRUE]
<1>1. f \in PortEntry /\ f.req = e.req /\ f.answered = TRUE
  OBVIOUS
<1> HIDE DEF f
<1>2. f = [req |-> f.req, answered |-> f.answered]
  BY <1>1
<1>3. f = [req |-> e.req, answered |-> TRUE]
  BY <1>1, <1>2, Zenon
<1> QED BY <1>3 DEF f

\* A step that neither accepts, answers nor hands on leaves the port alone.
LEMMA PortQuiet ==
    ASSUME IInv, PortOK, PortOK', First' = First, orderId' = orderId,
           \A t \in Slots : reqQueue'[t].ready = reqQueue[t].ready
    PROVE  PortQueue' = PortQueue
<1>1. orderId \in Nat /\ First \in Nat
  BY FirstBounds DEF IInv
<1>2. /\ PortQueue \in Seq(PortEntry) /\ PortQueue' \in Seq(PortEntry)
      /\ Len(PortQueue) = orderId - First /\ Len(PortQueue') = orderId - First
  BY DEF PortOK
<1>3. ASSUME NEW k \in 1 .. orderId - First PROVE PortQueue'[k] = PortQueue[k]
  <2>1. SlotOf(First + k - 1) \in Slots
    BY <1>1, SlotOfProperties
  <2>2. /\ PortQueue[k] = [req |-> First + k - 1, answered |-> reqQueue[SlotOf(First + k - 1)].ready]
        /\ PortQueue'[k] = [req |-> First + k - 1, answered |-> reqQueue'[SlotOf(First + k - 1)].ready]
    BY DEF PortOK
  <2> QED BY <2>1, <2>2
<1> HIDE DEF First
<1> QED BY <1>2, <1>3, SeqEqual

\* An answer to a request in the ring that had none is an answer of the port.
LEMMA PortAnswer ==
    ASSUME IInv, PortOK, PortOK', First' = First, orderId' = orderId,
           NEW s \in Slots, reqQueue[s].valid, ~reqQueue[s].ready, reqQueue'[s].ready,
           reqQueue'[s].ready \in BOOLEAN,
           \A t \in Slots \ {s} : reqQueue'[t].ready = reqQueue[t].ready
    PROVE  Port!Next
<1>1. orderId \in Nat /\ First \in Nat /\ orderId <= First + NumSlots /\ NumSlots \in Nat
  BY FirstBounds DEF IInv
<1>2. /\ PortQueue \in Seq(PortEntry) /\ PortQueue' \in Seq(PortEntry)
      /\ Len(PortQueue) = orderId - First /\ Len(PortQueue') = orderId - First
      /\ DOMAIN PortQueue = 1 .. orderId - First
  BY LenProperties DEF PortOK
<1> DEFINE m == reqQueue[s].cnt
           k == m - First + 1
<1>3. m \in First .. orderId - 1 /\ SlotOf(m) = s
  BY DEF IInv, RingOK, SlotsOK
<1>4. m \in Nat /\ k \in 1 .. orderId - First /\ First + k - 1 = m
  BY <1>1, <1>3
<1> HIDE DEF m
<1>5. /\ PortQueue[k] = [req |-> m, answered |-> FALSE]
      /\ PortQueue'[k] = [req |-> m, answered |-> TRUE]
  <2>1. reqQueue[s].ready = FALSE /\ reqQueue'[s].ready = TRUE
    BY DEF IInv, TypeOK, Slot
  <2>2. /\ PortQueue[k] = [req |-> First + k - 1, answered |-> reqQueue[SlotOf(First + k - 1)].ready]
        /\ PortQueue'[k] = [req |-> First + k - 1, answered |-> reqQueue'[SlotOf(First + k - 1)].ready]
    BY <1>4 DEF PortOK
  <2> QED BY <1>3, <1>4, <2>1, <2>2
<1>6. ASSUME NEW j \in 1 .. orderId - First, j # k PROVE PortQueue'[j] = PortQueue[j]
  <2>1. /\ First + j - 1 \in Nat /\ First + j - 1 # m
        /\ m - (First + j - 1) < NumSlots /\ (First + j - 1) - m < NumSlots
    BY <1>1, <1>3, <1>4, <1>6
  <2>2. SlotOf(First + j - 1) \in Slots \ {s}
    <3>1. PICK l \in Nat : l = First + j - 1
      BY <2>1
    <3>2. l # m /\ m - l < NumSlots /\ l - m < NumSlots
      BY <2>1, <3>1
    <3>3. SlotOf(l) # SlotOf(m) /\ SlotOf(l) \in Slots
      <4>1. l < m \/ m < l
        BY <1>4, <3>2
      <4> QED BY <1>4, <3>2, <4>1, SlotOfProperties
    <3> QED BY <1>3, <3>1, <3>3
  <2> QED BY <2>2 DEF PortOK
<1>7. [PortQueue EXCEPT ![k].answered = TRUE] = [PortQueue EXCEPT ![k] = [req |-> m, answered |-> TRUE]]
  <2>1. [PortQueue[k] EXCEPT !.answered = TRUE] = [req |-> m, answered |-> TRUE]
    <3>1. PortQueue[k] \in PortEntry /\ PortQueue[k].req = m
      BY <1>4, <1>5 DEF PortEntry
    <3> QED BY <3>1, AnsweredEntry
  <2> QED BY <2>1, Zenon
<1> HIDE DEF k
<1>8. PortQueue' = [PortQueue EXCEPT ![k] = [req |-> m, answered |-> TRUE]]
  <2>1. [req |-> m, answered |-> TRUE] \in PortEntry
    BY <1>4 DEF PortEntry
  <2> DEFINE q == [PortQueue EXCEPT ![k] = [req |-> m, answered |-> TRUE]]
  <2>2. /\ q \in Seq(PortEntry) /\ Len(q) = Len(PortQueue)
        /\ \A j \in 1 .. Len(PortQueue) :
              q[j] = IF j = k THEN [req |-> m, answered |-> TRUE] ELSE PortQueue[j]
    BY <1>2, <1>4, <2>1, ExceptSeq
  <2> HIDE DEF q
  <2>3. ASSUME NEW j \in 1 .. Len(PortQueue') PROVE PortQueue'[j] = q[j]
    BY <1>2, <1>5, <1>6, <2>2
  <2>4. PortQueue' = q
    BY <1>2, <2>2, <2>3, SeqEqual
  <2> QED BY <2>4 DEF q
<1>9. Port!Answer(k)
  BY <1>5, <1>7, <1>8 DEF Port!Answer
<1> QED BY <1>2, <1>4, <1>9 DEF Port!Next

\* Every step is a step of the port or leaves it alone.
LEMMA PortStep ==
    ASSUME IInv, IInv', PortOK, PortOK', Speedup = 1, [Next]_vars
    PROVE  [Port!Next]_PortQueue
<1>1. /\ orderId \in Nat /\ First \in Nat /\ First <= orderId /\ NumSlots \in Nat
      /\ orderId <= First + NumSlots
  BY FirstBounds DEF IInv
<1>2. /\ reqQueue \in [Slots -> Slot] /\ reqQueue' \in [Slots -> Slot]
      /\ sendMemPtr \in Slots /\ FlagsOK /\ TakenOK
  BY DEF IInv, TypeOK, AnswersOK
<1>3. /\ PortQueue \in Seq(PortEntry) /\ PortQueue' \in Seq(PortEntry)
      /\ Len(PortQueue) = orderId - First /\ Len(PortQueue') = orderId' - First'
  BY DEF PortOK
<1>4. pushQueuePtr = SlotOf(orderId) /\ SlotOf(orderId) \in Slots
  BY <1>1, SlotOfProperties DEF IInv, RingOK, CountersOK
<1>5. CASE Pop
  <2>1. CASE ~valid
    <3>1. UNCHANGED <<channel, reqQueue, currReqId, orderId>>
      BY <1>5, <2>1 DEF Pop
    <3>2. First' = First
      BY <3>1 DEF First
    <3> QED BY <3>1, <3>2, PortQuiet
  <2>2. CASE valid
    <3>1. channel # <<>> /\ First' = First + 1 /\ First < orderId /\ orderId' = orderId
      BY <1>5, <2>2, PopFirst DEF Pop
    <3>2. currReqId \in Nat /\ Len(channel) \in Nat \ {0} /\ channel \in Seq(Slots)
      BY <3>1, EmptySeq DEF IInv, TypeOK
    <3>3. First < currReqId
      BY <3>2 DEF First
    <3>4. Head(channel) = SlotOf(First) /\ SlotOf(First) \in Slots
      <4>1. Head(channel) = channel[1] /\ 1 \in 1 .. Len(channel) /\ First + 1 - 1 = First
        BY <1>1, <3>1, <3>2
      <4>2. channel[1] = SlotOf(First + 1 - 1)
        BY <4>1 DEF IInv, RingOK, OutputOK
      <4> QED BY <1>1, <4>1, <4>2, SlotOfProperties
    <3>5. \A t \in Slots \ {SlotOf(First)} : reqQueue'[t] = reqQueue[t]
      BY <1>2, <1>5, <2>2, <3>4 DEF Pop, popReq
    <3>6. reqQueue[SlotOf(First)].ready
      <4>1. First \in First .. orderId - 1
        BY <1>1, <3>1
      <4>2. reqQueue[SlotOf(First)].hasPushChan
        BY <3>3, <4>1 DEF IInv, RingOK, EntriesOK
      <4> QED BY <1>2, <3>4, <4>2 DEF FlagsOK
    <3>7. PortQueue # <<>> /\ Head(PortQueue).answered
      <4>1. 1 \in 1 .. orderId - First /\ First + 1 - 1 = First
        BY <1>1, <3>1
      <4>2. PortQueue[1] = [req |-> First + 1 - 1, answered |-> reqQueue[SlotOf(First + 1 - 1)].ready]
        BY <4>1 DEF PortOK
      <4>3. PortQueue[1].answered
        BY <3>6, <4>1, <4>2
      <4> QED BY <1>1, <1>3, <4>1, <4>3
    <3>8. PortQueue' = Tail(PortQueue)
      <4>1. /\ Tail(PortQueue) \in Seq(PortEntry) /\ Len(Tail(PortQueue)) = Len(PortQueue) - 1
            /\ \A k \in 1 .. Len(Tail(PortQueue)) : Tail(PortQueue)[k] = PortQueue[k + 1]
        BY <1>3, <3>7, HeadTailProperties
      <4>2. Len(PortQueue') = Len(Tail(PortQueue))
        BY <1>1, <1>3, <3>1, <4>1
      <4>3. ASSUME NEW k \in 1 .. Len(PortQueue') PROVE PortQueue'[k] = Tail(PortQueue)[k]
        <5>1. /\ k \in 1 .. orderId' - First' /\ k + 1 \in 1 .. orderId - First
              /\ First' + k - 1 = First + k /\ First + (k + 1) - 1 = First + k
          BY <1>1, <1>3, <3>1
        <5>2. PortQueue'[k] = [req |-> First + k, answered |-> reqQueue'[SlotOf(First + k)].ready]
          BY <5>1 DEF PortOK
        <5>3. PortQueue[k + 1] = [req |-> First + k, answered |-> reqQueue[SlotOf(First + k)].ready]
          BY <5>1 DEF PortOK
        <5>4. SlotOf(First + k) \in Slots \ {SlotOf(First)}
          <6>1. First + k \in Nat /\ First < First + k /\ (First + k) - First < NumSlots
            BY <1>1, <5>1
          <6> QED BY <1>1, <6>1, SlotOfProperties
        <5>5. PortQueue'[k] = PortQueue[k + 1]
          BY <3>5, <5>2, <5>3, <5>4
        <5> QED BY <4>1, <4>2, <5>5
      <4> QED BY <1>3, <4>1, <4>2, <4>3, SeqEqual
    <3> QED BY <3>7, <3>8 DEF Port!Next, Port!HandOn
  <2> QED BY <2>1, <2>2
<1>6. CASE PushReqQ
  <2>1. First' = First
    BY <1>6 DEF PushReqQ, First
  <2>2. CASE UNCHANGED <<reqQueue, valueQueue, chanBuffer, orderId, pushQueuePtr>>
    BY <2>1, <2>2, PortQuiet
  <2>3. CASE ~UNCHANGED <<reqQueue, valueQueue, chanBuffer, orderId, pushQueuePtr>>
    <3>1. TypeOK
      BY DEF IInv
    <3>2. PICK c \in BOOLEAN : reqQueue' = [reqQueue EXCEPT ![SlotOf(orderId)] = Fresh(c)]
      BY <1>4, <1>6, <2>3, <3>1, PushReqQCases
    <3>3. orderId' = orderId + 1 /\ DataMatch /\ ~reqQueue[SlotOf(orderId)].valid
      BY <1>4, <1>6, <2>3, <3>1, PushReqQCases DEF SlotFree
    <3>4. /\ \A t \in Slots \ {SlotOf(orderId)} : reqQueue'[t] = reqQueue[t]
          /\ reqQueue'[SlotOf(orderId)].ready = FALSE
      <4>1. Fresh(c) \in Slot /\ ~Fresh(c).ready
        BY <1>1, FreshSlot
      <4>2. Fresh(c).ready = FALSE
        BY <4>1 DEF Slot
      <4> QED BY <1>2, <1>4, <3>2, <4>2
    <3>5. orderId < MaxReq /\ orderId \in 0 .. MaxReq
      <4>1. 1 \in Inputs
        BY DEF Inputs
      <4>2. offered[1] \in 0 .. MaxReq /\ chanBuffer[1] \in Seq([id : Nat, cond : BOOLEAN])
        BY <3>1, <4>1 DEF TypeOK
      <4>3. Len(chanBuffer[1]) \in Nat \ {0}
        BY <3>3, <4>1, <4>2, EmptySeq DEF DataMatch
      <4>4. offered[1] = orderId + Len(chanBuffer[1])
        BY <4>1 DEF IInv, ValuesOK, InputsOK
      <4> QED BY <1>1, <4>2, <4>3, <4>4, LseAssumption
    <3>6. ASSUME NEW n \in First .. orderId - 1 PROVE SlotOf(n) # SlotOf(orderId)
      BY <3>3 DEF IInv, RingOK, EntriesOK
    <3>7. Len(PortQueue) < NumSlots
      <4>1. orderId' <= First' + NumSlots
        BY DEF IInv, RingOK, CountersOK
      <4> QED BY <1>1, <1>3, <2>1, <3>3, <4>1
    <3> DEFINE e == [req |-> orderId, answered |-> FALSE]
    <3>8. PortQueue' = Append(PortQueue, e)
      <4>1. e \in PortEntry
        BY <1>1 DEF PortEntry
      <4>2. /\ Append(PortQueue, e) \in Seq(PortEntry)
            /\ Len(Append(PortQueue, e)) = Len(PortQueue) + 1
            /\ \A k \in 1 .. Len(PortQueue) : Append(PortQueue, e)[k] = PortQueue[k]
            /\ Append(PortQueue, e)[Len(PortQueue) + 1] = e
        BY <1>3, <4>1, AppendProperties
      <4>3. Len(PortQueue') = Len(Append(PortQueue, e))
        BY <1>1, <1>3, <2>1, <3>3, <4>2
      <4>4. ASSUME NEW k \in 1 .. Len(PortQueue') PROVE PortQueue'[k] = Append(PortQueue, e)[k]
        <5>1. PortQueue'[k] = [req |-> First + k - 1, answered |-> reqQueue'[SlotOf(First + k - 1)].ready]
          BY <1>3, <2>1 DEF PortOK
        <5>2. CASE k \in 1 .. Len(PortQueue)
          <6>1. First + k - 1 \in First .. orderId - 1 /\ First + k - 1 \in Nat
            BY <1>1, <1>3, <5>2
          <6>2. SlotOf(First + k - 1) \in Slots \ {SlotOf(orderId)}
            BY <3>6, <6>1, SlotOfProperties
          <6>3. PortQueue[k] = [req |-> First + k - 1, answered |-> reqQueue[SlotOf(First + k - 1)].ready]
            BY <1>3, <5>2 DEF PortOK
          <6>4. PortQueue'[k] = PortQueue[k]
            BY <3>4, <5>1, <6>2, <6>3
          <6> QED BY <4>2, <5>2, <6>4
        <5>3. CASE k = Len(PortQueue) + 1
          <6>1. First + k - 1 = orderId
            BY <1>1, <1>3, <5>3
          <6>2. PortQueue'[k] = e
            BY <3>4, <5>1, <6>1
          <6> QED BY <4>2, <5>3, <6>2
        <5>4. Len(PortQueue) \in Nat
          BY <1>1, <1>3
        <5> QED BY <4>2, <4>3, <5>2, <5>3, <5>4
      <4> HIDE DEF e
      <4> QED BY <1>3, <4>2, <4>3, <4>4, SeqEqual
    <3> QED BY <3>5, <3>7, <3>8 DEF Port!Next, Port!Accept
  <2> QED BY <2>2, <2>3
<1>7. CASE Select
  <2>1. UNCHANGED <<channel, currReqId, orderId>>
    BY <1>7 DEF Select, outVars
  <2>2. First' = First
    BY <2>1 DEF First
  <2>3. CASE reqQueue' = reqQueue
    BY <2>1, <2>2, <2>3, PortQuiet
  <2>4. CASE Unsent(sendMemPtr) /\ reqQueue' = ackCallback(sendMemPtr)
    <3>1. reqQueue[sendMemPtr].valid /\ ~reqQueue[sendMemPtr].ready
      BY <2>4 DEF Unsent
    <3>2. /\ \A t \in Slots \ {sendMemPtr} : reqQueue'[t] = reqQueue[t]
          /\ reqQueue'[sendMemPtr].ready
      BY <1>2, <2>4, AckSlot
    <3>3. reqQueue'[sendMemPtr].ready \in BOOLEAN
      BY <1>2 DEF Slot
    <3> QED BY <1>2, <2>1, <2>2, <3>1, <3>2, <3>3, PortAnswer
  <2> QED BY <1>7, <2>3, <2>4 DEF Select
<1>8. ASSUME NEW sendable \in BOOLEAN, PushChannel(sendable) PROVE PortQueue' = PortQueue
  <2>1. First' = First /\ orderId' = orderId
    BY <1>8, PushChannelFirst DEF PushChannel
  <2>2. \/ reqQueue' = reqQueue
        \/ reqQueue' = [reqQueue EXCEPT ![sendChanPtr].hasPushChan = TRUE]
    BY <1>8 DEF PushChannel
  <2>3. sendChanPtr \in Slots
    BY SlotOfProperties DEF IInv, RingOK, CountersOK, TypeOK
  <2>4. \A t \in Slots : reqQueue'[t].ready = reqQueue[t].ready
    BY <1>2, <2>2, <2>3, PushedSlot
  <2> QED BY <2>1, <2>4, PortQuiet
<1>9. ASSUME NEW req \in BagToSet(mem), SendBack(req) PROVE Port!Next
  <2>1. req \in DOMAIN mem /\ req.slot \in Slots
    BY DEF BagToSet, IInv, TypeOK, Request
  <2>2. reqQueue[req.slot].valid /\ ~reqQueue[req.slot].ready
    BY <1>2, <2>1 DEF TakenOK, FlagsOK
  <2>3. UNCHANGED <<channel, currReqId, orderId>> /\ reqQueue' = ackCallback(req.slot)
    BY <1>9 DEF SendBack, outVars
  <2>4. First' = First
    BY <2>3 DEF First
  <2>5. /\ \A t \in Slots \ {req.slot} : reqQueue'[t] = reqQueue[t]
        /\ reqQueue'[req.slot].ready
    BY <1>2, <2>1, <2>3, AckSlot
  <2>6. reqQueue'[req.slot].ready \in BOOLEAN
    BY <1>2, <2>1 DEF Slot
  <2> QED BY <2>1, <2>2, <2>3, <2>4, <2>5, <2>6, PortAnswer
<1>10. CASE Collect
  <2>1. PICK req \in Request : req = Head(suspendReqVec[currId])
    <3>1. suspendReqVec[currId] \in Seq(Request) /\ suspendReqVec[currId] # <<>>
      BY <1>10 DEF IInv, TypeOK, Collect
    <3> QED BY <3>1, HeadTailProperties
  <2>2. /\ reqQueue' = [reqQueue EXCEPT ![req.slot].inflight = TRUE]
        /\ UNCHANGED <<channel, currReqId, orderId>>
    BY <1>10, <2>1 DEF Collect, outVars
  <2>3. \A t \in Slots : reqQueue'[t].ready = reqQueue[t].ready
    BY <1>2, <2>2, InflightSlot DEF Request
  <2>4. First' = First
    BY <2>2 DEF First
  <2> QED BY <2>2, <2>3, <2>4, PortQuiet
<1>11. CASE \/ \E from \in SUBSET Inputs, cond \in Conds : Push(from, cond)
            \/ NoAnswer \/ NotCollected \/ UNCHANGED vars
  <2>1. UNCHANGED <<reqQueue, channel, currReqId, orderId>>
    BY <1>11 DEF Push, NoAnswer, NotCollected, vars, ringVars, outVars
  <2>2. First' = First
    BY <2>1 DEF First
  <2> QED BY <2>1, <2>2, PortQuiet
<1> QED BY <1>5, <1>6, <1>7, <1>8, <1>9, <1>10, <1>11 DEF Next

\* With one instance the element is an in-order port: what it accepts is
\* answered once, in any order, and handed on in the order of acceptance.
THEOREM LseIsPort == Speedup = 1 => (Spec => ImplementsPort)
<1> SUFFICES ASSUME Speedup = 1 PROVE Spec => ImplementsPort
  OBVIOUS
<1>1. Init => Port!Init
  <2> SUFFICES ASSUME Init PROVE PortQueue = <<>>
    BY DEF Port!Init
  <2>1. IInv
    BY IInvInit
  <2>2. PortQueue \in Seq(PortEntry) /\ Len(PortQueue) = orderId - First
    BY <2>1, PortIs DEF PortOK
  <2>3. orderId = 0 /\ currReqId = 0 /\ channel = <<>>
    BY DEF Init
  <2>4. Len(PortQueue) = 0
    <3>1. Len(channel) = 0
      BY <2>3
    <3>2. First = 0
      <4>1. currReqId = 0
        BY <2>3
      <4> QED BY <3>1, <4>1 DEF First
    <3> QED BY <2>2, <2>3, <3>2
  <2> QED BY <2>2, <2>4, EmptySeq
<1>2. IInv => PortOK
  BY PortIs
<1>3. IInv /\ IInv' /\ PortOK /\ PortOK' /\ [Next]_vars => [Port!Next]_PortQueue
  BY PortStep
<1> QED BY <1>1, <1>2, <1>3, IInvAlways, PTL DEF Spec, ImplementsPort, Port!Spec
=============================================================================
