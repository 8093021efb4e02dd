-------------------------- MODULE MemSystem_proofs --------------------------
(***************************************************************************)
(* Proofs about MemSystem, for any number of Lses, banks, slots and queue  *)
(* sizes.  Room in a request queue and entries of the coalescer are        *)
(* checked in one round and used in a later one, so neither NoOverflow nor *)
(* CoalescerReservation is inductive: the invariant has to say that a      *)
(* valid recorder entry keeps its room, and that the count of free entries *)
(* plus the reservations not yet honoured plus the occupied entries fits.  *)
(***************************************************************************)
EXTENDS MemSystem, QueueLemmas, TLAPS, SequenceTheorems, FiniteSetTheorems

\* A recorder entry is valid exactly while it holds requests, reserves a
\* coalescer entry only while valid, and its bank's request queue has room.
RecorderOK ==
    \A b \in Banks :
        /\ bankRecorder[b].valid <=> bankRecorder[b].reqQueue # <<>>
        /\ bankRecorder[b].hasRegisteredCoalescer => bankRecorder[b].valid
        /\ bankRecorder[b].valid => Len(reqQueue[b]) < ReqQueueSize

\* The reservations for which the coalescer holds no entry yet.
Unsent ==
    {b \in Registered : /\ phase # "addTransaction"
                        /\ phase = "send2Coalescer" => i <= b}

ReservationOK ==
    coalescerFreeEntryNum + Cardinality(Unsent) + Len(coalescerTable) <= EntryNum

IInv == TypeOK /\ RecorderOK /\ ReservationOK

-----------------------------------------------------------------------------
\* What removing one element does to a sequence.
LEMMA DropProperties ==
    ASSUME NEW S, NEW seq \in Seq(S), NEW k \in 1 .. Len(seq)
    PROVE  /\ Drop(seq, k) \in Seq(S)
           /\ Len(Drop(seq, k)) = Len(seq) - 1
<1> DEFINE front == SubSeq(seq, 1, k - 1)
           back == SubSeq(seq, k + 1, Len(seq))
<1>1. front \in Seq(S) /\ Len(front) = k - 1
  BY SubSeqProperties
<1>2. back \in Seq(S) /\ Len(back) = Len(seq) - k
  BY SubSeqProperties
<1>3. /\ front \o back \in Seq(S)
      /\ Len(front \o back) = Len(front) + Len(back)
  BY <1>1, <1>2, ConcatProperties
<1>4. Drop(seq, k) = front \o back
  BY DEF Drop
<1> HIDE DEF front, back
<1>5. Drop(seq, k) \in Seq(S) /\ Len(Drop(seq, k)) = Len(front) + Len(back)
  BY <1>3, <1>4, Zenon
<1>6. Len(front) + Len(back) = Len(seq) - 1
  BY <1>1, <1>2, LenProperties
<1> QED BY <1>5, <1>6, Zenon

\* A remainder is an index below the divisor.
LEMMA ModIsIndex ==
    ASSUME NEW a \in Nat, NEW n \in Nat \ {0}
    PROVE  a % n \in 0 .. n - 1
OBVIOUS

LEMMA UnsentFinite == IsFiniteSet(Unsent) /\ Cardinality(Unsent) \in Nat
<1>1. Unsent \in SUBSET Banks /\ IsFiniteSet(Banks)
  BY MemSystemAssumption, FS_Interval DEF Unsent, Registered, Recorded, Banks
<1> QED BY <1>1, FS_Subset, FS_CardinalityType

\* The coalescer never holds more entries than it has.
LEMMA TableBound == IInv => Len(coalescerTable) <= EntryNum
BY MemSystemAssumption, UnsentFinite DEF IInv, ReservationOK, TypeOK, QueuesOK

-----------------------------------------------------------------------------
LEMMA TypeInit == Init => TypeOK
<1> SUFFICES ASSUME Init PROVE TypeOK
  OBVIOUS
<1>1. 0 \in Lses /\ 0 \in Slots
  BY MemSystemAssumption DEF Lses, Slots
<1>2. EmptyEntry \in RecorderEntry
  BY EmptySeq DEF EmptyEntry, RecorderEntry
<1>3. ControlOK
  BY <1>1 DEF Init, ControlOK, Phases
<1>4. LseOK
  BY <1>1 DEF Init, LseOK
<1>5. QueuesOK
  BY <1>2 DEF Init, QueuesOK
<1> QED BY <1>3, <1>4, <1>5 DEF TypeOK

LEMMA NextSlotType == ASSUME NEW s \in Slots PROVE NextSlot(s) \in Slots
BY MemSystemAssumption, ModIsIndex DEF NextSlot, Slots

\* The loop headers of sendBack2Lse and getLseReq keep their indices in range.
LEMMA NextAckBankControl ==
    ASSUME ControlOK, phase = "sendBack", NEW served \in SUBSET Lses,
           NextAckBank(served), UNCHANGED reqQueueWritePtr
    PROVE  ControlOK'
<1> USE MemSystemAssumption
<1>1. RoundRobin(ptr, i + 1, NumBanks) \in Banks
  BY ModIsIndex DEF ControlOK, RoundRobin, Banks
<1>2. CASE i + 1 < NumBanks
  BY <1>1, <1>2 DEF ControlOK, NextAckBank, Banks
<1>3. CASE i + 1 = NumBanks
  BY <1>3 DEF ControlOK, NextAckBank, StartCollect, Banks, Lses, Phases
<1> QED BY <1>2, <1>3 DEF ControlOK, Banks

LEMMA NextLseControl ==
    ASSUME ControlOK, phase = "collect", NextLse, UNCHANGED lseRecorder
    PROVE  ControlOK'
<1> USE MemSystemAssumption
<1>1. /\ RoundRobin(ptr, i + 1, NumLse) \in Lses
      /\ (reqQueueWritePtr + 1) % NumLse \in Lses
  BY ModIsIndex DEF ControlOK, RoundRobin, Lses
<1>2. CASE i + 1 < NumLse
  BY <1>1, <1>2 DEF ControlOK, NextLse, Lses
<1>3. CASE i + 1 = NumLse
  BY <1>1, <1>3 DEF ControlOK, NextLse, Banks, Phases
<1> QED BY <1>2, <1>3 DEF ControlOK, Lses

\* Answering or sending a request keeps the Lses' types.
LEMMA LseCallbacks ==
    ASSUME LseOK, NEW req \in MemReq
    PROVE  /\ ackCallback(req) => LseOK'
           /\ setInflight(req) => LseOK'
<1> DEFINE States == {"free", "suspended", "inflight", "ready"}
<1>1. ASSUME NEW st \in States
      PROVE  [status EXCEPT ![req.lse][req.slot] = st] \in [Lses -> [Slots -> States]]
  <2>1. [status[req.lse] EXCEPT ![req.slot] = st] \in [Slots -> States]
    BY DEF LseOK, MemReq
  <2> QED BY <2>1 DEF LseOK, MemReq
<1>2. [suspendReq EXCEPT ![req.lse] = NoReq] \in [Lses -> MemReq \cup {NoReq}]
  BY DEF LseOK, MemReq
<1> QED BY <1>1, <1>2 DEF LseOK, ackCallback, setInflight

\* The updates of recorder and coalescer entries keep their types.
LEMMA RecorderUpdates ==
    ASSUME NEW entry \in RecorderEntry, NEW req \in MemReq
    PROVE  /\ FirstReq(entry, req) \in RecorderEntry
           /\ Reserve(entry) \in RecorderEntry
           /\ Coalesce(entry, req) \in RecorderEntry
<1>1. /\ Append(entry.reqQueue, req) \in Seq(MemReq)
      /\ Append(Reserve(entry).reqQueue, [req EXCEPT !.coalesced = TRUE]) \in Seq(MemReq)
      /\ Reserve(entry) \in RecorderEntry
      /\ req.blk \in Nat
  <2>1. entry.reqQueue \in Seq(MemReq) /\ Reserve(entry).reqQueue \in Seq(MemReq)
    BY DEF RecorderEntry, Reserve
  <2>2. [req EXCEPT !.coalesced = TRUE] \in MemReq /\ req.blk \in Nat
    BY MemSystemAssumption DEF MemReq
  <2>3. Reserve(entry) \in RecorderEntry
    BY DEF RecorderEntry, Reserve
  <2> QED BY <2>1, <2>2, <2>3, AppendProperties
<1>2. FirstReq(entry, req) \in RecorderEntry
  BY <1>1 DEF FirstReq, RecorderEntry
<1>3. Coalesce(entry, req) \in RecorderEntry
  <2> DEFINE old == Reserve(entry)
             queue == Append(old.reqQueue, [req EXCEPT !.coalesced = TRUE])
  <2>1. old \in RecorderEntry /\ queue \in Seq(MemReq)
    BY <1>1
  <2>2. Coalesce(entry, req) = [old EXCEPT !.reqQueue = queue]
    BY DEF Coalesce
  <2> HIDE DEF old, queue
  <2> QED BY <2>1, <2>2 DEF RecorderEntry
<1> QED BY <1>1, <1>2, <1>3

\* Every step of MemSystem keeps the types, given that valid recorder entries
\* hold a request and that the coalescer is within its size.
LEMMA TypeStep == IInv /\ [Next]_vars => TypeOK'
<1> SUFFICES ASSUME IInv, [Next]_vars PROVE TypeOK'
  OBVIOUS
<1> USE MemSystemAssumption DEF IInv, TypeOK
<1>1. ASSUME NEW l \in Lses, NEW blk \in Blocks, LseIssue(l, blk)
      PROVE  TypeOK'
  <2>1. pushPtr[l] \in Slots /\ NextSlot(pushPtr[l]) \in Slots
    <3>1. pushPtr[l] \in Slots
      BY DEF LseOK
    <3> QED BY <3>1, NextSlotType
  <2>2. [lse |-> l, slot |-> pushPtr[l], blk |-> blk, coalesced |-> FALSE] \in MemReq
    BY <2>1 DEF MemReq
  <2>3. LseOK'
    BY <1>1, <2>1, <2>2 DEF LseOK, LseIssue
  <2> QED BY <1>1, <2>3 DEF ControlOK, QueuesOK, LseIssue, control, coalVars
<1>2. ASSUME NEW l \in Lses, LsePop(l)
      PROVE  TypeOK'
  <2>1. popPtr[l] \in Slots /\ NextSlot(popPtr[l]) \in Slots
    <3>1. popPtr[l] \in Slots
      BY DEF LseOK
    <3> QED BY <3>1, NextSlotType
  <2>2. LseOK'
    BY <1>2, <2>1 DEF LseOK, LsePop
  <2> QED BY <1>2, <2>2 DEF ControlOK, QueuesOK, LsePop, control, coalVars
<1>3. ASSUME NEW advance \in BOOLEAN, BeginUpdate(advance)
      PROVE  TypeOK'
  <2>1. ControlOK'
    BY <1>3 DEF ControlOK, BeginUpdate, ackQueueReadPtr, Banks, Phases
  <2> QED BY <1>3, <2>1 DEF LseOK, QueuesOK, BeginUpdate, lseVars, coalVars
<1>4. CASE SkipEmptyBank
  <2>1. ControlOK'
    BY <1>4, NextAckBankControl DEF SkipEmptyBank, ControlOK
  <2> QED BY <1>4, <2>1 DEF LseOK, QueuesOK, SkipEmptyBank, lseVars, coalVars
<1>5. CASE AckSingle
  <2> DEFINE req == Head(ackQueue[ptr])
  <2>1. ptr \in Banks /\ req \in MemReq /\ Tail(ackQueue[ptr]) \in Seq(MemReq)
    BY <1>5 DEF AckSingle, ControlOK, QueuesOK
  <2>2. ControlOK'
    BY <1>5, <2>1, NextAckBankControl DEF AckSingle, ControlOK, MemReq
  <2>3. LseOK'
    BY <1>5, <2>1, LseCallbacks DEF AckSingle, LseOK, lseVars
  <2>4. QueuesOK'
    BY <1>5, <2>1 DEF AckSingle, QueuesOK, PopAck, coalVars
  <2> QED BY <2>2, <2>3, <2>4
<1>6. CASE AckCoalesced
  <2>1. PICK e \in DOMAIN coalescerTable : AckEntry(e)
    BY <1>6 DEF AckCoalesced
  <2>2. e \in 1 .. Len(coalescerTable) /\ coalescerTable[e] \in CoalescerEntry
    BY DEF QueuesOK
  <2>3. Waiting(e) \in Seq(MemReq)
    BY <2>2 DEF Waiting, CoalescerEntry
  <2>4. ptr \in Banks /\ Tail(ackQueue[ptr]) \in Seq(MemReq)
    BY <1>6 DEF AckCoalesced, ControlOK, QueuesOK
  <2>5. ASSUME NEW k \in Unserved(e), AnswerWaiting(e, k)
        PROVE  TypeOK'
    <3>1. k \in 1 .. Len(Waiting(e)) /\ Waiting(e)[k] \in MemReq
      BY <2>3 DEF Unserved
    <3>2. [coalescerTable[e] EXCEPT !.coalescerQueue = Drop(@, k)] \in CoalescerEntry
      <4> DEFINE entry == coalescerTable[e]
                 rest == Drop(entry.coalescerQueue, k)
      <4>1. rest \in Seq(MemReq)
        BY <2>3, <3>1, DropProperties DEF Waiting
      <4>2. entry \in CoalescerEntry
        BY <2>2
      <4> HIDE DEF entry, rest
      <4>3. [entry EXCEPT !.coalescerQueue = rest] \in CoalescerEntry
        BY <4>1, <4>2 DEF CoalescerEntry
      <4> QED BY <4>3, Zenon DEF entry, rest
    <3>3. ControlOK'
      BY <1>6, <2>5, <3>1 DEF AckCoalesced, AnswerWaiting, ControlOK, MemReq, control
    <3>4. LseOK'
      BY <2>5, <3>1, LseCallbacks DEF AnswerWaiting
    <3>5. QueuesOK'
      BY <1>6, <2>2, <2>5, <3>2, ExceptSeq DEF AckCoalesced, AnswerWaiting, QueuesOK
    <3> QED BY <3>3, <3>4, <3>5
  <2>6. CASE LeaveEntry(e)
    <3>1. ControlOK'
      BY <1>6, <2>6, NextAckBankControl DEF AckCoalesced, LeaveEntry, ControlOK
    <3>3. coalescerTable' \in Seq(CoalescerEntry)
      <4>1. Drop(coalescerTable, e) \in Seq(CoalescerEntry)
        BY <2>2, DropProperties, Zenon DEF QueuesOK
      <4> QED BY <2>6, <4>1, Zenon DEF LeaveEntry, popCoalescerEntry, QueuesOK
    <3>4. ackQueue' \in [Banks -> Seq(MemReq)]
      BY <2>4, <2>6 DEF LeaveEntry, PopAck, QueuesOK
    <3>2. QueuesOK'
      BY <1>6, <3>3, <3>4 DEF AckCoalesced, QueuesOK
    <3> QED BY <2>6, <3>1, <3>2 DEF LeaveEntry, LseOK, lseVars
  <2> QED BY <2>1, <2>5, <2>6 DEF AckEntry
<1>7. CASE GetFromCache
  <2>1. i \in Banks
    BY <1>7 DEF GetFromCache, ControlOK
  <2>2. ControlOK'
    BY <1>7, <2>1 DEF GetFromCache, ControlOK, Banks, Phases
  <2>3. ASSUME NEW k \in DOMAIN inCache[i]
        PROVE  /\ Append(ackQueue[i], inCache[i][k]) \in Seq(MemReq)
               /\ Drop(inCache[i], k) \in Seq(MemReq)
    <3>1. inCache[i] \in Seq(MemReq) /\ ackQueue[i] \in Seq(MemReq)
      BY <2>1 DEF QueuesOK
    <3>2. k \in 1 .. Len(inCache[i]) /\ inCache[i][k] \in MemReq
      BY <3>1, LenProperties, ElementOfSeq
    <3> QED BY <3>1, <3>2, AppendProperties, DropProperties
  <2>4. QueuesOK'
    BY <1>7, <2>1, <2>3 DEF GetFromCache, QueuesOK, coalVars
  <2> QED BY <1>7, <2>2, <2>4 DEF GetFromCache, LseOK, lseVars
<1>8. CASE send2Cache
  <2>1. i \in Banks
    BY <1>8 DEF send2Cache, ControlOK
  <2>2. ControlOK'
    BY <1>8, <2>1 DEF send2Cache, StartCollect, ControlOK, Banks, Lses, Phases
  <2>3. ASSUME reqQueue[i] # <<>>
        PROVE  /\ Head(reqQueue[i]) \in MemReq
               /\ Tail(reqQueue[i]) \in Seq(MemReq)
               /\ Append(ackQueue[i], Head(reqQueue[i])) \in Seq(MemReq)
               /\ Append(inCache[i], Head(reqQueue[i])) \in Seq(MemReq)
    BY <2>1, <2>3 DEF QueuesOK
  <2>4. QueuesOK'
    <3>1. CASE UNCHANGED <<reqQueue, ackQueue, inCache>>
      BY <1>8, <3>1 DEF send2Cache, QueuesOK, coalVars
    <3>2. CASE /\ reqQueue[i] # <<>>
               /\ reqQueue' = [reqQueue EXCEPT ![i] = Tail(@)]
               /\ ackQueue' = [ackQueue EXCEPT ![i] = Append(@, Head(reqQueue[i]))]
               /\ UNCHANGED inCache
      BY <1>8, <2>1, <2>3, <3>2 DEF send2Cache, QueuesOK, coalVars
    <3>3. CASE /\ reqQueue[i] # <<>>
               /\ reqQueue' = [reqQueue EXCEPT ![i] = Tail(@)]
               /\ inCache' = [inCache EXCEPT ![i] = Append(@, Head(reqQueue[i]))]
               /\ UNCHANGED ackQueue
      BY <1>8, <2>1, <2>3, <3>3 DEF send2Cache, QueuesOK, coalVars
    <3> QED BY <1>8, <3>1, <3>2, <3>3 DEF send2Cache
  <2> QED BY <1>8, <2>2, <2>4 DEF send2Cache, LseOK, lseVars
<1>9. CASE Collect
  <2> DEFINE req == suspendReq[ptr]
             b == getBankId(req.blk)
  <2>1. req \in MemReq
    BY <1>9 DEF Collect, ControlOK, LseOK
  <2>2. b \in Banks
    BY <2>1, ModIsIndex DEF getBankId, MemReq, Banks
  <2>3. ControlOK'
    BY <1>9, NextLseControl DEF Collect
  <2> HIDE DEF req, b
  <2>7. /\ FirstReq(bankRecorder[b], req) \in RecorderEntry
        /\ Reserve(bankRecorder[b]) \in RecorderEntry
        /\ Coalesce(bankRecorder[b], req) \in RecorderEntry
    BY <2>1, <2>2, RecorderUpdates DEF QueuesOK
  <2>4. CASE CollectFirst(b, req)
    <3>2. bankRecorder' \in [Banks -> RecorderEntry]
      BY <2>2, <2>4, <2>7 DEF CollectFirst, QueuesOK
    <3>3. LseOK'
      BY <2>1, <2>4, LseCallbacks DEF CollectFirst
    <3>4. QueuesOK'
      BY <1>9, <2>4, <3>2 DEF CollectFirst, Collect, QueuesOK
    <3> QED BY <2>3, <3>3, <3>4
  <2>5. CASE CollectCoalesced(b, req)
    <3>2. bankRecorder' \in [Banks -> RecorderEntry]
      BY <2>2, <2>5, <2>7 DEF CollectCoalesced, QueuesOK
    <3>4. coalescerFreeEntryNum' \in Nat
      BY <2>5 DEF CollectCoalesced, ReserveEntry, Coalesceable, QueuesOK
    <3>3. LseOK'
      BY <2>1, <2>5, LseCallbacks DEF CollectCoalesced, LseOK, lseVars
    <3> QED BY <1>9, <2>3, <3>2, <3>3, <3>4 DEF Collect, QueuesOK
  <2>6. CASE CollectBlocked(b, req)
    BY <1>9, <2>3, <2>6 DEF CollectBlocked, Collect, LseOK, QueuesOK, lseVars
  <2> QED BY <1>9, <2>4, <2>5, <2>6 DEF Collect, req, b
<1>10. CASE CollectNothing
  <2>1. ControlOK'
    BY <1>10, NextLseControl DEF CollectNothing
  <2> QED BY <1>10, <2>1 DEF CollectNothing, LseOK, QueuesOK, lseVars, coalVars
<1>11. CASE send2Coalescer
  <2>1. i \in Banks
    BY <1>11 DEF send2Coalescer, ControlOK
  <2>2. ControlOK'
    BY <1>11, <2>1 DEF send2Coalescer, ControlOK, Banks, Phases
  <2> DEFINE entry == [blockAddr |-> bankRecorder[i].addrTag,
                       coalescerQueue |-> bankRecorder[i].reqQueue]
  <2>3. entry \in CoalescerEntry
    BY <2>1 DEF QueuesOK, RecorderEntry, CoalescerEntry
  <2> HIDE DEF entry
  <2>5. coalescerTable' \in Seq(CoalescerEntry)
    <3>1. coalescerTable' = Append(coalescerTable, entry) \/ UNCHANGED coalescerTable
      BY <1>11 DEF send2Coalescer, entry
    <3>2. ASSUME NEW tbl \in Seq(CoalescerEntry), NEW e \in CoalescerEntry
          PROVE  Append(tbl, e) \in Seq(CoalescerEntry)
      BY AppendProperties
    <3>3. Append(coalescerTable, entry) \in Seq(CoalescerEntry)
      BY <2>3, <3>2, Zenon DEF QueuesOK
    <3> QED BY <3>1, <3>3, Zenon DEF QueuesOK
  <2>4. QueuesOK'
    BY <1>11, <2>5 DEF send2Coalescer, QueuesOK
  <2> QED BY <1>11, <2>2, <2>4 DEF send2Coalescer, LseOK, lseVars
<1>12. CASE addTransaction
  <2>1. ControlOK'
    BY <1>12 DEF addTransaction, ControlOK, Phases
  <2>2. ASSUME NEW b \in Recorded
        PROVE  /\ b \in Banks
               /\ [Head(bankRecorder[b].reqQueue) EXCEPT
                      !.coalesced = bankRecorder[b].hasRegisteredCoalescer] \in MemReq
    <3>1. Head(bankRecorder[b].reqQueue) \in MemReq
      BY DEF Recorded, RecorderOK, QueuesOK, RecorderEntry
    <3> QED BY <3>1 DEF MemReq, Recorded, QueuesOK, RecorderEntry
  <2>3. reqQueue' \in [Banks -> Seq(MemReq)]
    BY <1>12, <2>2 DEF addTransaction, QueuesOK
  <2>4. bankRecorder' \in [Banks -> RecorderEntry]
    BY <1>12, EmptySeq DEF addTransaction, QueuesOK, EmptyEntry, RecorderEntry
  <2>5. coalescerFreeEntryNum' \in Nat
    BY <1>12, TableBound DEF addTransaction, QueuesOK
  <2>6. QueuesOK'
    BY <1>12, <2>3, <2>4, <2>5 DEF addTransaction, QueuesOK
  <2> QED BY <1>12, <2>1, <2>6 DEF addTransaction, LseOK, lseVars
<1>13. CASE UNCHANGED vars
  BY <1>13 DEF ControlOK, LseOK, QueuesOK, vars, control, lseVars, coalVars
<1> QED BY <1>1, <1>2, <1>3, <1>4, <1>5, <1>6, <1>7, <1>8, <1>9, <1>10, <1>11,
           <1>12, <1>13 DEF Next, UpdateStep

-----------------------------------------------------------------------------
\* What the recorder updates do to the fields the invariant talks about.
LEMMA RecorderFields ==
    ASSUME NEW entry \in RecorderEntry, NEW req \in MemReq
    PROVE  /\ FirstReq(entry, req).valid
           /\ FirstReq(entry, req).reqQueue # <<>>
           /\ FirstReq(entry, req).hasRegisteredCoalescer = entry.hasRegisteredCoalescer
           /\ Reserve(entry).valid = entry.valid
           /\ Reserve(entry).reqQueue = entry.reqQueue
           /\ Reserve(entry).hasRegisteredCoalescer
           /\ Coalesce(entry, req).valid = entry.valid
           /\ Coalesce(entry, req).reqQueue # <<>>
           /\ Coalesce(entry, req).hasRegisteredCoalescer
<1>1. entry.reqQueue \in Seq(MemReq) /\ [req EXCEPT !.coalesced = TRUE] \in MemReq
  BY DEF RecorderEntry, MemReq
<1>2. ASSUME NEW q \in Seq(MemReq), NEW r \in MemReq
      PROVE  Append(q, r) # <<>>
  BY AppendProperties
<1>3. /\ Append(entry.reqQueue, req) # <<>>
      /\ Append(entry.reqQueue, [req EXCEPT !.coalesced = TRUE]) # <<>>
  BY <1>1, <1>2, Zenon
<1>4. Reserve(entry).reqQueue = entry.reqQueue
  BY DEF Reserve, RecorderEntry
<1> QED BY <1>3, <1>4 DEF FirstReq, Reserve, Coalesce, RecorderEntry

\* The bank a suspended request belongs to.
LEMMA CollectBank ==
    ASSUME TypeOK, Collect
    PROVE  \E req \in MemReq, b \in Banks :
              CollectFirst(b, req) \/ CollectCoalesced(b, req) \/ CollectBlocked(b, req)
<1> DEFINE req == suspendReq[ptr]
           b == getBankId(req.blk)
<1>1. req \in MemReq
  BY DEF Collect, TypeOK, ControlOK, LseOK
<1>2. b \in Banks
  BY <1>1, ModIsIndex, MemSystemAssumption DEF getBankId, MemReq, Banks
<1>3. CollectFirst(b, req) \/ CollectCoalesced(b, req) \/ CollectBlocked(b, req)
  BY DEF Collect
<1> QED BY <1>1, <1>2, <1>3

\* Room seen when a request is recorded is still there when it is used: only
\* addTransaction fills a request queue, and it empties the recorder.
LEMMA RecorderStep == IInv /\ [Next]_vars => RecorderOK'
<1> SUFFICES ASSUME IInv, [Next]_vars PROVE RecorderOK'
  OBVIOUS
<1> USE DEF IInv, TypeOK
<1>1. CASE UNCHANGED <<bankRecorder, reqQueue>>
  BY <1>1 DEF RecorderOK
<1>2. CASE send2Cache
  <2>1. i \in Banks
    BY <1>2 DEF send2Cache, ControlOK
  <2>2. ASSUME NEW b \in Banks
        PROVE  Len(reqQueue'[b]) <= Len(reqQueue[b])
    <3>1. reqQueue[b] \in Seq(MemReq) /\ Len(reqQueue[b]) \in Nat
      BY DEF QueuesOK
    <3>2. reqQueue[b] # <<>> => Len(Tail(reqQueue[b])) <= Len(reqQueue[b])
      BY <3>1
    <3>3. \/ UNCHANGED reqQueue
          \/ /\ reqQueue[i] # <<>>
             /\ reqQueue' = [reqQueue EXCEPT ![i] = Tail(reqQueue[i])]
      BY <1>2 DEF send2Cache
    <3>4. reqQueue'[b] = reqQueue[b] \/ (reqQueue[b] # <<>> /\ reqQueue'[b] = Tail(reqQueue[b]))
      BY <2>1, <3>3, Zenon DEF QueuesOK
    <3>5. Len(reqQueue[b]) <= Len(reqQueue[b])
      BY <3>1
    <3> QED BY <3>2, <3>4, <3>5, Zenon
  <2>3. ASSUME NEW b \in Banks
        PROVE  Len(reqQueue[b]) \in Nat /\ Len(reqQueue'[b]) \in Nat
    <3>1. reqQueue[b] \in Seq(MemReq) /\ reqQueue'[b] \in Seq(MemReq)
      BY TypeStep DEF QueuesOK
    <3> QED BY <3>1
  <2> QED BY <1>2, <2>2, <2>3, MemSystemAssumption DEF send2Cache, RecorderOK
<1>3. CASE Collect
  <2>1. PICK req \in MemReq, b \in Banks :
          CollectFirst(b, req) \/ CollectCoalesced(b, req) \/ CollectBlocked(b, req)
    BY <1>3, CollectBank
  <2>2. bankRecorder[b] \in RecorderEntry /\ DOMAIN bankRecorder = Banks
    BY DEF QueuesOK
  <2>3. UNCHANGED reqQueue
    BY <1>3 DEF Collect
  <2>4. CASE CollectBlocked(b, req)
    BY <2>3, <2>4 DEF CollectBlocked, RecorderOK
  <2>5. ASSUME CollectFirst(b, req) \/ CollectCoalesced(b, req),
               NEW entry,
               bankRecorder' = [bankRecorder EXCEPT ![b] = entry],
               entry.valid, entry.reqQueue # <<>>
        PROVE  RecorderOK'
    <3>1. Len(reqQueue[b]) < ReqQueueSize
      BY <2>5 DEF CollectFirst, CollectCoalesced, Room
    <3> QED BY <2>2, <2>3, <2>5, <3>1 DEF RecorderOK
  <2>6. CASE CollectFirst(b, req)
    BY <2>2, <2>5, <2>6, RecorderFields DEF CollectFirst
  <2>7. CASE CollectCoalesced(b, req)
    <3>1. bankRecorder[b].valid /\ bankRecorder[b].reqQueue # <<>>
      BY <2>7 DEF CollectCoalesced, RecorderOK
    <3> QED BY <2>2, <2>5, <2>7, <3>1, RecorderFields DEF CollectCoalesced
  <2> QED BY <2>1, <2>4, <2>6, <2>7
<1>4. CASE addTransaction
  BY <1>4 DEF addTransaction, RecorderOK, EmptyEntry, Recorded, QueuesOK
<1> QED BY <1>1, <1>2, <1>3, <1>4
        DEF Next, UpdateStep, LseIssue, LsePop, BeginUpdate, SkipEmptyBank, AckSingle,
            AckCoalesced, GetFromCache, CollectNothing, send2Coalescer, vars

-----------------------------------------------------------------------------
\* Outside the handover every reservation is still to be honoured.
LEMMA UnsentQuiet ==
    /\ ~Handover => Unsent = Registered
    /\ phase = "send2Coalescer" /\ i = 0 => Unsent = Registered
BY MemSystemAssumption DEF Unsent, Registered, Recorded, Handover, Banks

\* Steps that neither touch the reservations nor enter or leave the handover.
LEMMA ReservationQuiet ==
    ASSUME IInv, ~Handover, ~Handover',
           UNCHANGED <<bankRecorder, coalescerFreeEntryNum>>,
           Len(coalescerTable') <= Len(coalescerTable), Len(coalescerTable') \in Nat
    PROVE  ReservationOK'
<1>1. Unsent' = Unsent
  BY UnsentQuiet DEF Unsent, Handover, Registered, Recorded
<1>2. Cardinality(Unsent) \in Nat /\ Cardinality(Unsent') = Cardinality(Unsent)
  BY <1>1, UnsentFinite
<1>3. coalescerFreeEntryNum \in Nat /\ Len(coalescerTable) \in Nat
  BY DEF IInv, TypeOK, QueuesOK
<1> QED BY <1>2, <1>3, MemSystemAssumption DEF IInv, ReservationOK

\* The promise made by the cached count of free coalescer entries is kept.
LEMMA ReservationStep == IInv /\ [Next]_vars => ReservationOK'
<1> SUFFICES ASSUME IInv, [Next]_vars PROVE ReservationOK'
  OBVIOUS
<1> USE MemSystemAssumption DEF IInv
<1>1. Len(coalescerTable) \in Nat /\ coalescerFreeEntryNum \in Nat
  BY DEF TypeOK, QueuesOK
<1>2. Len(coalescerTable') \in Nat /\ coalescerFreeEntryNum' \in Nat
  BY TypeStep DEF TypeOK, QueuesOK
<1>3. Cardinality(Unsent) \in Nat /\ IsFiniteSet(Unsent)
  BY UnsentFinite
<1>4. CASE UNCHANGED vars
  BY <1>4 DEF vars, control, coalVars, ReservationOK, Unsent, Registered, Recorded
<1>5. CASE \/ \E l \in Lses, blk \in Blocks : LseIssue(l, blk)
           \/ \E l \in Lses : LsePop(l)
           \/ \E advance \in BOOLEAN : BeginUpdate(advance)
           \/ SkipEmptyBank \/ AckSingle \/ GetFromCache \/ send2Cache
  BY <1>1, <1>2, <1>5, ReservationQuiet
  DEF LseIssue, LsePop, BeginUpdate, SkipEmptyBank, AckSingle, GetFromCache, send2Cache,
      NextAckBank, StartCollect, control, coalVars, Handover
<1>6. CASE AckCoalesced
  <2>1. PICK e \in DOMAIN coalescerTable : AckEntry(e)
    BY <1>6 DEF AckCoalesced
  <2>2. e \in 1 .. Len(coalescerTable) /\ coalescerTable \in Seq(CoalescerEntry)
    BY DEF TypeOK, QueuesOK
  <2>3. Len(coalescerTable') <= Len(coalescerTable)
    <3>1. ASSUME NEW k \in Unserved(e), AnswerWaiting(e, k)
          PROVE  Len(coalescerTable') = Len(coalescerTable)
      <4>1. DOMAIN coalescerTable' = DOMAIN coalescerTable
        BY <3>1 DEF AnswerWaiting
      <4>2. coalescerTable' \in Seq(CoalescerEntry)
        BY TypeStep DEF TypeOK, QueuesOK
      <4> QED BY <2>2, <4>1, <4>2
    <3>2. ASSUME LeaveEntry(e)
          PROVE  Len(coalescerTable') <= Len(coalescerTable)
      <4>1. Len(Drop(coalescerTable, e)) = Len(coalescerTable) - 1
        BY <2>2, DropProperties
      <4> QED BY <1>1, <3>2, <4>1 DEF LeaveEntry, popCoalescerEntry
    <3> QED BY <1>1, <2>1, <3>1, <3>2 DEF AckEntry
  <2>4. ~Handover /\ ~Handover'
    BY <1>6, <2>1 DEF AckCoalesced, AckEntry, AnswerWaiting, LeaveEntry, NextAckBank,
                      StartCollect, control, Handover
  <2> QED BY <1>2, <1>6, <2>3, <2>4, ReservationQuiet DEF AckCoalesced
<1>7. CASE CollectNothing
  <2>1. Unsent = Registered /\ Unsent' = Registered'
    BY <1>7, UnsentQuiet DEF CollectNothing, NextLse, Handover, Unsent, Registered, Recorded, Banks
  <2>2. Registered' = Registered
    BY <1>7 DEF CollectNothing, Registered, Recorded
  <2> QED BY <1>7, <2>1, <2>2 DEF CollectNothing, ReservationOK, coalVars
<1>8. CASE Collect
  <2>1. PICK req \in MemReq, b \in Banks :
          CollectFirst(b, req) \/ CollectCoalesced(b, req) \/ CollectBlocked(b, req)
    BY <1>8, CollectBank
  <2>2. Unsent = Registered /\ Unsent' = Registered' /\ UNCHANGED coalescerTable
    BY <1>8, UnsentQuiet DEF Collect, NextLse, Handover, Unsent, Registered, Recorded, Banks
  <2>3. bankRecorder[b] \in RecorderEntry /\ DOMAIN bankRecorder = Banks
    BY DEF TypeOK, QueuesOK
  <2>4. CASE CollectFirst(b, req)
    <3>1. ~bankRecorder[b].hasRegisteredCoalescer
      BY <2>4 DEF CollectFirst, RecorderOK
    <3>2. Registered' = Registered
      BY <2>3, <2>4, <3>1, RecorderFields DEF CollectFirst, Registered, Recorded
    <3> QED BY <2>2, <2>4, <3>2 DEF CollectFirst, ReservationOK
  <2>5. CASE CollectCoalesced(b, req)
    <3>1. Registered' = Registered \cup {b}
      BY <2>3, <2>5, RecorderFields DEF CollectCoalesced, Registered, Recorded
    <3>2. b \in Registered <=> bankRecorder[b].hasRegisteredCoalescer
      BY <2>5 DEF CollectCoalesced, Registered, Recorded
    <3>3. CASE b \in Registered
      <4>1. Registered' = Registered
        BY <3>1, <3>3
      <4> QED BY <2>2, <2>5, <3>2, <3>3, <4>1 DEF CollectCoalesced, ReserveEntry, ReservationOK
    <3>4. CASE b \notin Registered
      <4>1. Cardinality(Unsent') = Cardinality(Unsent) + 1
        BY <1>3, <2>2, <3>1, <3>4, FS_AddElement
      <4>2. coalescerFreeEntryNum' = coalescerFreeEntryNum - 1
        BY <2>5, <3>2, <3>4 DEF CollectCoalesced, ReserveEntry
      <4> QED BY <1>1, <1>3, <2>2, <4>1, <4>2 DEF ReservationOK
    <3> QED BY <3>3, <3>4
  <2>6. CASE CollectBlocked(b, req)
    <3>1. Registered' = Registered
      BY <2>6 DEF CollectBlocked, Registered, Recorded
    <3> QED BY <2>2, <2>6, <3>1 DEF CollectBlocked, ReservationOK
  <2> QED BY <2>1, <2>4, <2>5, <2>6
<1>9. CASE send2Coalescer
  <2>1. i \in Banks /\ Registered' = Registered
    BY <1>9 DEF send2Coalescer, TypeOK, ControlOK, Registered, Recorded
  <2>2. Unsent' = Unsent \ {i}
    <3>1. CASE i + 1 < NumBanks
      BY <1>9, <2>1, <3>1 DEF send2Coalescer, Unsent, Registered, Recorded, Banks
    <3>2. CASE i + 1 = NumBanks
      BY <1>9, <2>1, <3>2 DEF send2Coalescer, Unsent, Registered, Recorded, Banks
    <3> QED BY <2>1, <3>1, <3>2 DEF Banks
  <2>3. i \in Unsent <=> i \in Registered
    BY <1>9, <2>1 DEF send2Coalescer, Unsent, Banks
  <2>4. CASE i \in Registered
    <3>1. Cardinality(Unsent') = Cardinality(Unsent) - 1
      BY <1>3, <2>2, <2>3, <2>4, FS_RemoveElement
    <3>2. Len(coalescerTable') = Len(coalescerTable) + 1
      BY <1>9, <2>4 DEF send2Coalescer, TypeOK, QueuesOK
    <3> QED BY <1>1, <1>3, <1>9, <3>1, <3>2 DEF send2Coalescer, ReservationOK
  <2>5. CASE i \notin Registered
    <3>1. Unsent' = Unsent
      BY <2>2, <2>3, <2>5
    <3> QED BY <1>9, <2>5, <3>1 DEF send2Coalescer, ReservationOK
  <2> QED BY <2>4, <2>5
<1>10. CASE addTransaction
  <2>1. Unsent' = {}
    BY <1>10 DEF addTransaction, Unsent, Registered, Recorded, EmptyEntry, TypeOK, QueuesOK
  <2>2. Cardinality(Unsent') = 0
    BY <2>1, FS_EmptySet
  <2> QED BY <1>1, <1>10, <2>2 DEF addTransaction, ReservationOK
<1> QED BY <1>4, <1>5, <1>6, <1>7, <1>8, <1>9, <1>10 DEF Next, UpdateStep

-----------------------------------------------------------------------------
\* IInv holds initially and is kept by every step.
LEMMA IInvInit == Init => IInv
<1> SUFFICES ASSUME Init PROVE IInv
  OBVIOUS
<1>1. Registered = {} /\ RecorderOK
  BY MemSystemAssumption DEF Init, Registered, Recorded, RecorderOK, EmptyEntry
<1>2. Cardinality(Unsent) = 0
  <2>1. Unsent = {}
    BY <1>1 DEF Unsent
  <2> QED BY <2>1, FS_EmptySet
<1>3. Len(coalescerTable) = 0 /\ coalescerFreeEntryNum = 0
  BY DEF Init
<1> QED BY <1>1, <1>2, <1>3, TypeInit, MemSystemAssumption DEF IInv, ReservationOK

LEMMA IInvStep == IInv /\ [Next]_vars => IInv'
BY TypeStep, RecorderStep, ReservationStep DEF IInv

\* IInv implies the properties it was strengthened for.
LEMMA IInvImplies == IInv => TypeOK /\ NoOverflow /\ CoalescerReservation
<1> SUFFICES ASSUME IInv PROVE NoOverflow /\ CoalescerReservation
  BY DEF IInv
<1>1. Len(coalescerTable) \in Nat /\ coalescerFreeEntryNum \in Nat
  BY DEF IInv, TypeOK, QueuesOK
<1>2. Cardinality(Unsent) \in Nat /\ IsFiniteSet(Unsent)
  BY UnsentFinite
<1>3. ASSUME phase = "send2Coalescer", i \in Registered
      PROVE  Len(coalescerTable) < EntryNum
  <2>1. i \in Unsent
    BY <1>3, MemSystemAssumption DEF Unsent, Registered, Recorded, Banks
  <2>2. Cardinality(Unsent) # 0
    BY <1>2, <2>1, FS_EmptySet
  <2> QED BY <1>1, <1>2, <2>2, MemSystemAssumption DEF IInv, ReservationOK
<1>4. NoOverflow
  BY <1>3 DEF NoOverflow, IInv, RecorderOK, Recorded
<1>5. CoalescerReservation
  <2>1. ~Handover => Unsent = Registered
    BY UnsentQuiet
  <2> QED BY <2>1 DEF CoalescerReservation, IInv, ReservationOK
<1> QED BY <1>4, <1>5

LEMMA IInvAlways == Spec => []IInv
BY IInvInit, IInvStep, PTL DEF Spec

(***************************************************************************)
(* The loops of MemSystemUpdate and the Lses' ring pointers stay within    *)
(* their bounds and every queue holds requests, however many Lses, banks,  *)
(* slots and entries the simulator is configured with.                     *)
(***************************************************************************)
THEOREM TypeCorrect == Spec => []TypeOK
BY IInvAlways, IInvImplies, PTL

(***************************************************************************)
(* Neither addTransaction's "Try to push req into a full reqQueue!" nor    *)
(* send2Coalescer's "Try write a full coalescer" is ever thrown, although  *)
(* both rest on room that was seen in an earlier, stalled round.           *)
(***************************************************************************)
THEOREM OverflowNever == Spec => []NoOverflow
BY IInvAlways, IInvImplies, PTL

(***************************************************************************)
(* coalescerFreeEntryNum, refreshed only when the clock advances, together *)
(* with the entries the recorder has reserved and the occupied ones fits   *)
(* the coalescer.                                                          *)
(***************************************************************************)
THEOREM ReservationKept == Spec => []CoalescerReservation
BY IInvAlways, IInvImplies, PTL

-----------------------------------------------------------------------------
(***************************************************************************)
(* The places of requests: MemSystem loses none and answers none twice,    *)
(* and coalescer entries and the transactions that stand for them come and *)
(* go together.                                                            *)
(*                                                                         *)
(* Both are statements about how many positions of five families of queues *)
(* hold a request, so the argument is a count: an action appends to one    *)
(* queue what it removes from another, and the lemmas of QueueLemmas say   *)
(* what that does to the counts.  Inside the handover (send2Coalescer, then*)
(* addTransaction) a request of a registered recorder entry is in two      *)
(* places; there the invariant counts it in the coalescer only, as soon as *)
(* its bank has been sent.                                                 *)
(***************************************************************************)

\* Registered recorder entries whose requests are in the coalescer already.
Sent == Registered \ Unsent

\* The queues of the recorder that still hold their requests alone, and those
\* of the coalescer.
Rec == [b \in Banks |-> IF b \in Sent THEN <<>> ELSE bankRecorder[b].reqQueue]
Coal == [e \in DOMAIN coalescerTable |-> coalescerTable[e].coalescerQueue]

\* The requests of a slot, those that will be answered by themselves, those
\* that stand for an entry of the block, and the entries of the block.
Owned(l, s) == {req \in MemReq : Is(req, l, s)}
Single(l, s) == {req \in MemReq : Alone(req, l, s)}
Standing(blk) == {req \in MemReq : req.coalesced /\ req.blk = blk}
EntryFor(blk) == {entry \in CoalescerEntry : entry.blockAddr = blk}

\* How many of the requests in M each place holds.
InRec(M) == Cardinality(Hits("recorder", Rec, M))
InCoal(M) == Cardinality(Hits("coalescer", Coal, M))
InReq(M) == Cardinality(Hits("reqQueue", reqQueue, M))
InAck(M) == Cardinality(Hits("ackQueue", ackQueue, M))
InCacheBox(M) == Cardinality(Hits("inCache", inCache, M))
Below(M) == InReq(M) + InAck(M) + InCacheBox(M)

\* The recorder entries of the block whose coalescer entry exists but whose
\* transaction does not yet.
Handed(blk) == {b \in Sent : bankRecorder[b].addrTag = blk}

\* How often the request of a slot is held.
Held(l, s) == InRec(Owned(l, s)) + InCoal(Owned(l, s)) + Below(Single(l, s))

\* The inductive form of InflightExactlyOnce.
OnceOK ==
    \A l \in Lses, s \in Slots :
        Held(l, s) = IF status[l][s] = "inflight" THEN 1 ELSE 0

\* What an Lse offers is its own request, in a slot that is suspended: a sent
\* request was nowhere before.
OfferOK ==
    \A l \in Lses : suspendReq[l] # NoReq =>
        /\ suspendReq[l].lse = l /\ ~suspendReq[l].coalesced
        /\ status[l][suspendReq[l].slot] = "suspended"

\* The transaction that leaves a recorder entry stands for the entry's block,
\* and for its only request unless a coalescer entry is reserved.
HeadsOK ==
    \A b \in Banks : bankRecorder[b].valid =>
        /\ Head(bankRecorder[b].reqQueue).blk = bankRecorder[b].addrTag
        /\ ~bankRecorder[b].hasRegisteredCoalescer =>
               /\ Len(bankRecorder[b].reqQueue) = 1
               /\ ~Head(bankRecorder[b].reqQueue).coalesced

\* The inductive form of CoalescerMatchesTransactions.
MatchOK ==
    \A blk \in Blocks :
        Count(coalescerTable, EntryFor(blk)) =
            Below(Standing(blk)) + Cardinality(Handed(blk))

PInv == IInv /\ OnceOK /\ OfferOK /\ HeadsOK /\ MatchOK

-----------------------------------------------------------------------------
\* Which recorder entries are sent in which phase.
SentShape ==
    /\ ~Handover => Sent = {}
    /\ phase = "send2Coalescer" => Sent = {b \in Registered : b < i}
    /\ phase = "addTransaction" => Sent = Registered
    /\ Sent \in SUBSET Registered /\ Registered \in SUBSET Banks
    /\ Banks \in SUBSET Nat

\* The handover sends the banks in order.
LEMMA SentIs == TypeOK => SentShape
<1> SUFFICES ASSUME TypeOK PROVE SentShape
  OBVIOUS
<1>1. Registered \in SUBSET Banks /\ Banks \in SUBSET Nat
  BY MemSystemAssumption DEF Registered, Recorded, Banks
<1>2. i \in Nat
  BY DEF TypeOK, ControlOK
<1>3. ~Handover => Sent = {}
  BY DEF Sent, Unsent, Handover
<1>4. phase = "addTransaction" => Sent = Registered
  BY DEF Sent, Unsent
<1>5. phase = "send2Coalescer" => Sent = {b \in Registered : b < i}
  <2> SUFFICES ASSUME phase = "send2Coalescer" PROVE Sent = {b \in Registered : b < i}
    OBVIOUS
  <2>1. \A b \in Registered : b \in Unsent <=> i <= b
    BY DEF Unsent
  <2>2. \A b \in Registered : i <= b <=> ~(b < i)
    BY <1>1, <1>2
  <2> QED BY <2>1, <2>2, Zenon DEF Sent
<1>6. Sent \in SUBSET Registered
  BY DEF Sent
<1> QED BY <1>1, <1>3, <1>4, <1>5, <1>6 DEF SentShape

\* The same of the next state.
LEMMA SentIsNext == TypeOK' => SentShape'
BY SentIs, PTL

\* The five places are finite families of queues of requests.
FamilyShape ==
    /\ Family(Banks, MemReq, Rec)
    /\ Family(1 .. Len(coalescerTable), MemReq, Coal)
    /\ DOMAIN coalescerTable = 1 .. Len(coalescerTable)
    /\ Len(coalescerTable) \in Nat
    /\ Family(Banks, MemReq, reqQueue)
    /\ Family(Banks, MemReq, ackQueue)
    /\ Family(Banks, MemReq, inCache)

\* The five places are families of queues.
LEMMA Families == TypeOK => FamilyShape
<1> SUFFICES ASSUME TypeOK PROVE FamilyShape
  OBVIOUS
<1>1. IsFiniteSet(Banks)
  BY MemSystemAssumption, FS_Interval DEF Banks
<1>2. Rec \in [Banks -> Seq(MemReq)]
  <2>1. \A b \in Banks : bankRecorder[b].reqQueue \in Seq(MemReq)
    BY DEF TypeOK, QueuesOK, RecorderEntry
  <2>2. <<>> \in Seq(MemReq)
    BY EmptySeq
  <2> QED BY <2>1, <2>2 DEF Rec
<1>3. /\ DOMAIN coalescerTable = 1 .. Len(coalescerTable)
      /\ Len(coalescerTable) \in Nat
      /\ \A e \in 1 .. Len(coalescerTable) : coalescerTable[e] \in CoalescerEntry
  BY LenProperties, ElementOfSeq DEF TypeOK, QueuesOK
<1>4. IsFiniteSet(1 .. Len(coalescerTable))
  BY <1>3, FS_Interval
<1>5. Coal \in [1 .. Len(coalescerTable) -> Seq(MemReq)]
  BY <1>3 DEF Coal, CoalescerEntry
<1> QED BY <1>1, <1>2, <1>3, <1>4, <1>5 DEF FamilyShape, Family, TypeOK, QueuesOK

\* The same of the next state.
LEMMA FamiliesNext == TypeOK' => FamilyShape'
BY Families, PTL

\* The positions of a family of queues are finitely many.
LEMMA FamilyHits ==
    ASSUME NEW place, NEW D, NEW q, NEW M, Family(D, MemReq, q)
    PROVE  IsFiniteSet(Hits(place, q, M)) /\ Cardinality(Hits(place, q, M)) \in Nat
<1>1. IsFiniteSet(D) /\ DOMAIN q = D /\ \A x \in D : q[x] \in Seq(MemReq)
  BY DEF Family
<1> QED BY <1>1, HitsFinite

\* The counts are counts.
LEMMA CountsNat ==
    ASSUME TypeOK, NEW M
    PROVE  /\ InRec(M) \in Nat /\ InCoal(M) \in Nat
           /\ InReq(M) \in Nat /\ InAck(M) \in Nat /\ InCacheBox(M) \in Nat
<1>1. /\ Family(Banks, MemReq, Rec)
      /\ Family(1 .. Len(coalescerTable), MemReq, Coal)
      /\ Family(Banks, MemReq, reqQueue)
      /\ Family(Banks, MemReq, ackQueue)
      /\ Family(Banks, MemReq, inCache)
  BY Families DEF FamilyShape
<1> QED BY <1>1, FamilyHits, Zenon DEF InRec, InCoal, InReq, InAck, InCacheBox

-----------------------------------------------------------------------------
(***************************************************************************)
(* The elements that leave or enter a queue.                               *)
(***************************************************************************)
LEMMA TailRemoved ==
    ASSUME NEW S, NEW seq, seq \in Seq(S), seq # <<>>
    PROVE  /\ Removed(seq, 1, Head(seq), Tail(seq))
           /\ Head(seq) \in S /\ Tail(seq) \in Seq(S)
<1>1. Len(seq) \in Nat /\ Len(seq) # 0 /\ DOMAIN seq = 1 .. Len(seq)
  BY LenProperties, EmptySeq
<1>2. /\ Head(seq) = seq[1] /\ Head(seq) \in S
      /\ Tail(seq) \in Seq(S) /\ Len(Tail(seq)) = Len(seq) - 1
      /\ \A j \in 1 .. Len(seq) - 1 : Tail(seq)[j] = seq[j + 1]
  BY <1>1, HeadTailProperties
<1> QED BY <1>1, <1>2 DEF Removed

\* Drop removes the k-th element.
LEMMA DropRemoved ==
    ASSUME NEW S, NEW seq, NEW k, seq \in Seq(S), k \in DOMAIN seq
    PROVE  /\ Removed(seq, k, seq[k], Drop(seq, k))
           /\ seq[k] \in S /\ Drop(seq, k) \in Seq(S)
<1>1. Len(seq) \in Nat /\ DOMAIN seq = 1 .. Len(seq) /\ k \in 1 .. Len(seq) /\ seq[k] \in S
  <2>1. Len(seq) \in Nat /\ DOMAIN seq = 1 .. Len(seq)
    BY LenProperties
  <2>2. seq[k] \in S
    BY <2>1, ElementOfSeq, Zenon
  <2> QED BY <2>1, <2>2
<1>2. Drop(seq, k) \in Seq(S) /\ Len(Drop(seq, k)) = Len(seq) - 1
  BY <1>1, DropProperties, Zenon
<1>3. ASSUME NEW j \in 1 .. Len(seq) - 1
      PROVE  Drop(seq, k)[j] = IF j < k THEN seq[j] ELSE seq[j + 1]
  <2> DEFINE front == SubSeq(seq, 1, k - 1)
             back == SubSeq(seq, k + 1, Len(seq))
  <2>1. front \in Seq(S) /\ Len(front) = k - 1 /\ \A h \in 1 .. k - 1 : front[h] = seq[h]
    BY <1>1, SubSeqProperties
  <2>2. /\ back \in Seq(S) /\ Len(back) = Len(seq) - k
        /\ \A h \in 1 .. Len(seq) - k : back[h] = seq[k + h]
    BY <1>1, SubSeqProperties
  <2>3. Drop(seq, k) = front \o back
    BY DEF Drop
  <2> HIDE DEF front, back
  <2>4. (front \o back)[j] = IF j <= Len(front) THEN front[j] ELSE back[j - Len(front)]
    BY <1>1, <2>1, <2>2, ConcatProperties
  <2>5. CASE j < k
    BY <1>1, <2>1, <2>3, <2>4, <2>5
  <2>6. CASE j >= k
    <3>1. j - Len(front) \in 1 .. Len(seq) - k /\ k + (j - Len(front)) = j + 1
      BY <1>1, <2>1, <2>6
    <3>2. back[j - Len(front)] = seq[j + 1]
      BY <2>2, <3>1
    <3> QED BY <1>1, <2>1, <2>3, <2>4, <2>6, <3>2
  <2> QED BY <1>1, <2>5, <2>6
<1> QED BY <1>1, <1>2, <1>3 DEF Removed

-----------------------------------------------------------------------------
(***************************************************************************)
(* The places of MemSystem are the positions counted here.                 *)
(***************************************************************************)
LEMMA OwnedPositions ==
    ASSUME NEW place, NEW D, NEW q, NEW l, NEW s, Family(D, MemReq, q)
    PROVE  UNION {{place} \X {x} \X {k \in DOMAIN q[x] : Is(q[x][k], l, s)} : x \in DOMAIN q}
           = Hits(place, q, Owned(l, s))
<1> DEFINE T(x) == {place} \X {x} \X {k \in DOMAIN q[x] : Is(q[x][k], l, s)}
<1>1. DOMAIN q = D /\ \A x \in D : \A k \in DOMAIN q[x] : q[x][k] \in MemReq
  BY DEF Family
<1>2. ASSUME NEW x \in DOMAIN q PROVE T(x) = Column(place, q, x, Owned(l, s))
  BY <1>1 DEF Column, Owned
<1>3. UNION {T(x) : x \in DOMAIN q} = Hits(place, q, Owned(l, s))
  <2> HIDE DEF T
  <2>1. {T(x) : x \in DOMAIN q} = {Column(place, q, x, Owned(l, s)) : x \in DOMAIN q}
    BY <1>2
  <2> QED BY <2>1, Zenon DEF Hits
<1> QED BY <1>3, Zenon

\* The same for the requests that are answered by themselves.
LEMMA SinglePositions ==
    ASSUME NEW place, NEW D, NEW q, NEW l, NEW s, Family(D, MemReq, q)
    PROVE  UNION {{place} \X {x} \X {k \in DOMAIN q[x] : Alone(q[x][k], l, s)} : x \in DOMAIN q}
           = Hits(place, q, Single(l, s))
<1> DEFINE T(x) == {place} \X {x} \X {k \in DOMAIN q[x] : Alone(q[x][k], l, s)}
<1>1. DOMAIN q = D /\ \A x \in D : \A k \in DOMAIN q[x] : q[x][k] \in MemReq
  BY DEF Family
<1>2. ASSUME NEW x \in DOMAIN q PROVE T(x) = Column(place, q, x, Single(l, s))
  BY <1>1 DEF Column, Single
<1>3. UNION {T(x) : x \in DOMAIN q} = Hits(place, q, Single(l, s))
  <2> HIDE DEF T
  <2>1. {T(x) : x \in DOMAIN q} = {Column(place, q, x, Single(l, s)) : x \in DOMAIN q}
    BY <1>2
  <2> QED BY <2>1, Zenon DEF Hits
<1> QED BY <1>3, Zenon

\* The same for the transactions that stand for an entry of a block.
LEMMA StandingPositions ==
    ASSUME NEW place, NEW D, NEW q, NEW blk, Family(D, MemReq, q)
    PROVE  UNION {{place} \X {x} \X {k \in DOMAIN q[x] : q[x][k].coalesced /\ q[x][k].blk = blk} : x \in DOMAIN q}
           = Hits(place, q, Standing(blk))
<1> DEFINE T(x) == {place} \X {x} \X {k \in DOMAIN q[x] : q[x][k].coalesced /\ q[x][k].blk = blk}
<1>1. DOMAIN q = D /\ \A x \in D : \A k \in DOMAIN q[x] : q[x][k] \in MemReq
  BY DEF Family
<1>2. ASSUME NEW x \in DOMAIN q PROVE T(x) = Column(place, q, x, Standing(blk))
  BY <1>1 DEF Column, Standing
<1>3. UNION {T(x) : x \in DOMAIN q} = Hits(place, q, Standing(blk))
  <2> HIDE DEF T
  <2>1. {T(x) : x \in DOMAIN q} = {Column(place, q, x, Standing(blk)) : x \in DOMAIN q}
    BY <1>2
  <2> QED BY <2>1, Zenon DEF Hits
<1> QED BY <1>3, Zenon

\* The positions in three different places are counted place by place.
LEMMA ThreePlaces ==
    ASSUME NEW A, NEW B, NEW C, IsFiniteSet(A), IsFiniteSet(B), IsFiniteSet(C),
           A \cap B = {}, A \cap C = {}, B \cap C = {}
    PROVE  /\ IsFiniteSet(A \cup B \cup C)
           /\ Cardinality(A \cup B \cup C) = Cardinality(A) + Cardinality(B) + Cardinality(C)
<1>1. IsFiniteSet(A \cup B) /\ Cardinality(A \cup B) = Cardinality(A) + Cardinality(B)
  BY DisjointCount
<1>2. (A \cup B) \cap C = {}
  OBVIOUS
<1>3. /\ IsFiniteSet((A \cup B) \cup C)
      /\ Cardinality((A \cup B) \cup C) = Cardinality(A \cup B) + Cardinality(C)
  BY <1>1, <1>2, DisjointCount
<1> QED BY <1>1, <1>3, Zenon

\* Outside the handover the counts are those of InflightExactlyOnce.
LEMMA PlacesCounted ==
    ASSUME TypeOK, ~Handover, NEW l \in Lses, NEW s \in Slots
    PROVE  Cardinality(Places(l, s)) =
               InRec(Owned(l, s)) + InCoal(Owned(l, s)) + Below(Single(l, s))
<1> DEFINE Own(req) == Is(req, l, s)
           Lone(req) == Alone(req, l, s)
           R == Hits("recorder", Rec, Owned(l, s))
           C == Hits("coalescer", Coal, Owned(l, s))
           Q == Hits("reqQueue", reqQueue, Single(l, s))
           A == Hits("ackQueue", ackQueue, Single(l, s))
           H == Hits("inCache", inCache, Single(l, s))
<1>1. /\ Family(Banks, MemReq, Rec)
      /\ Family(1 .. Len(coalescerTable), MemReq, Coal)
      /\ Family(Banks, MemReq, reqQueue)
      /\ Family(Banks, MemReq, ackQueue)
      /\ Family(Banks, MemReq, inCache)
  BY Families DEF FamilyShape
<1>2. Rec = [b \in Banks |-> bankRecorder[b].reqQueue]
  BY SentIs DEF SentShape, Rec
<1>3. Places(l, s) = At("recorder", [b \in Banks |-> bankRecorder[b].reqQueue], Own)
                     \cup At("coalescer", Coal, Own)
                     \cup At("reqQueue", reqQueue, Lone)
                     \cup At("ackQueue", ackQueue, Lone)
                     \cup At("inCache", inCache, Lone)
  BY DEF Places, Coal
<1>4. /\ At("recorder", [b \in Banks |-> bankRecorder[b].reqQueue], Own) = R
      /\ At("coalescer", Coal, Own) = C
      /\ At("reqQueue", reqQueue, Lone) = Q
      /\ At("ackQueue", ackQueue, Lone) = A
      /\ At("inCache", inCache, Lone) = H
  <2>1. At("recorder", Rec, Own) = R
    <3> DEFINE U == UNION {{"recorder"} \X {x} \X {k \in DOMAIN Rec[x] : Is(Rec[x][k], l, s)} :
                           x \in DOMAIN Rec}
    <3>1. At("recorder", Rec, Own) = U
      BY DEF At
    <3>2. U = R
      BY <1>1, OwnedPositions
    <3> QED BY <3>1, <3>2, Zenon
  <2>2. At("recorder", [b \in Banks |-> bankRecorder[b].reqQueue], Own) = R
    BY <1>2, <2>1, Zenon
  <2>3. At("coalescer", Coal, Own) = C
    <3> DEFINE U == UNION {{"coalescer"} \X {x} \X {k \in DOMAIN Coal[x] : Is(Coal[x][k], l, s)} :
                           x \in DOMAIN Coal}
    <3>1. At("coalescer", Coal, Own) = U
      BY DEF At
    <3>2. U = C
      BY <1>1, OwnedPositions
    <3> QED BY <3>1, <3>2, Zenon
  <2>4. At("reqQueue", reqQueue, Lone) = Q
    <3> DEFINE U == UNION {{"reqQueue"} \X {x} \X {k \in DOMAIN reqQueue[x] : Alone(reqQueue[x][k], l, s)} :
                           x \in DOMAIN reqQueue}
    <3>1. At("reqQueue", reqQueue, Lone) = U
      BY DEF At
    <3>2. U = Q
      BY <1>1, SinglePositions
    <3> QED BY <3>1, <3>2, Zenon
  <2>5. At("ackQueue", ackQueue, Lone) = A
    <3> DEFINE U == UNION {{"ackQueue"} \X {x} \X {k \in DOMAIN ackQueue[x] : Alone(ackQueue[x][k], l, s)} :
                           x \in DOMAIN ackQueue}
    <3>1. At("ackQueue", ackQueue, Lone) = U
      BY DEF At
    <3>2. U = A
      BY <1>1, SinglePositions
    <3> QED BY <3>1, <3>2, Zenon
  <2>6. At("inCache", inCache, Lone) = H
    <3> DEFINE U == UNION {{"inCache"} \X {x} \X {k \in DOMAIN inCache[x] : Alone(inCache[x][k], l, s)} :
                           x \in DOMAIN inCache}
    <3>1. At("inCache", inCache, Lone) = U
      BY DEF At
    <3>2. U = H
      BY <1>1, SinglePositions
    <3> QED BY <3>1, <3>2, Zenon
  <2> QED BY <2>2, <2>3, <2>4, <2>5, <2>6
<1>5. Places(l, s) = (R \cup C) \cup (Q \cup A \cup H)
  <2> HIDE DEF R, C, Q, A, H
  <2> QED BY <1>3, <1>4
<1>6. /\ R \cap C = {} /\ R \cap Q = {} /\ R \cap A = {} /\ R \cap H = {}
      /\ C \cap Q = {} /\ C \cap A = {} /\ C \cap H = {}
      /\ Q \cap A = {} /\ Q \cap H = {} /\ A \cap H = {}
  BY HitsApart
<1>7. IsFiniteSet(R) /\ IsFiniteSet(C) /\ IsFiniteSet(Q) /\ IsFiniteSet(A) /\ IsFiniteSet(H)
  BY <1>1, FamilyHits
<1>8. /\ Cardinality(R) = InRec(Owned(l, s)) /\ Cardinality(C) = InCoal(Owned(l, s))
      /\ Cardinality(Q) = InReq(Single(l, s)) /\ Cardinality(A) = InAck(Single(l, s))
      /\ Cardinality(H) = InCacheBox(Single(l, s))
  BY DEF InRec, InCoal, InReq, InAck, InCacheBox
<1> HIDE DEF R, C, Q, A, H
<1>9. IsFiniteSet(R \cup C) /\ Cardinality(R \cup C) = Cardinality(R) + Cardinality(C)
  BY <1>6, <1>7, DisjointCount
<1>10. /\ IsFiniteSet(Q \cup A \cup H)
       /\ Cardinality(Q \cup A \cup H) = Cardinality(Q) + Cardinality(A) + Cardinality(H)
  BY <1>6, <1>7, ThreePlaces, SMTT(30)
<1>11. (R \cup C) \cap (Q \cup A \cup H) = {}
  BY <1>6
<1>12. Cardinality(Places(l, s)) = Cardinality(R \cup C) + Cardinality(Q \cup A \cup H)
  BY <1>5, <1>9, <1>10, <1>11, DisjointCount, Zenon
<1> QED BY <1>8, <1>9, <1>10, <1>12, Zenon DEF Below

-----------------------------------------------------------------------------
(***************************************************************************)
(* What the actions do to the counts.                                      *)
(***************************************************************************)
LEMMA BankAppend ==
    ASSUME NEW q, NEW r, NEW b, NEW req, Family(Banks, MemReq, q),
           b \in Banks, req \in MemReq, r = [q EXCEPT ![b] = Append(q[b], req)]
    PROVE  Enqueued(Banks, MemReq, q, r, b, req)
<1>1. q \in [Banks -> Seq(MemReq)] /\ q[b] \in Seq(MemReq)
  BY DEF Family
<1>2. Append(q[b], req) \in Seq(MemReq) /\ Appended(q[b], req, Append(q[b], req))
  BY <1>1, AppendIs
<1>3. /\ r \in [Banks -> Seq(MemReq)] /\ r[b] = Append(q[b], req)
      /\ \A y \in Banks : y # b => r[y] = q[y]
  BY <1>1, <1>2
<1> QED BY <1>2, <1>3 DEF Enqueued, Family

\* The same for an element that leaves the queue of a bank.
LEMMA BankRemove ==
    ASSUME NEW q, NEW r, NEW b, NEW k, NEW e, NEW t, Family(Banks, MemReq, q),
           b \in Banks, t \in Seq(MemReq), Removed(q[b], k, e, t), r = [q EXCEPT ![b] = t]
    PROVE  Dequeued(Banks, MemReq, q, r, b, k, e)
<1>1. q \in [Banks -> Seq(MemReq)]
  BY DEF Family
<1>2. /\ r \in [Banks -> Seq(MemReq)] /\ r[b] = t
      /\ \A y \in Banks : y # b => r[y] = q[y]
  BY <1>1
<1> QED BY <1>2 DEF Dequeued, Family

\* What is not touched keeps its count.
LEMMA QuietCounts ==
    ASSUME NEW M
    PROVE  /\ Rec' = Rec => InRec(M)' = InRec(M)
           /\ UNCHANGED coalescerTable => InCoal(M)' = InCoal(M)
           /\ UNCHANGED reqQueue => InReq(M)' = InReq(M)
           /\ UNCHANGED ackQueue => InAck(M)' = InAck(M)
           /\ UNCHANGED inCache => InCacheBox(M)' = InCacheBox(M)
BY DEF InRec, InCoal, Coal, InReq, InAck, InCacheBox

\* While no entry is handed over the recorder is where its requests are.
LEMMA QuietRec ==
    ASSUME UNCHANGED bankRecorder, Sent' = Sent PROVE Rec' = Rec
BY DEF Rec

\* No entry is sent before the handover starts.
LEMMA QuietSent ==
    ASSUME TypeOK, TypeOK', ~Handover,
           ~Handover' \/ (phase' = "send2Coalescer" /\ i' = 0)
    PROVE  Sent = {} /\ Sent' = {}
<1>1. SentShape /\ SentShape'
  BY SentIs, SentIsNext
<1>2. CASE phase' = "send2Coalescer" /\ i' = 0
  <2>1. Sent' = {b \in Registered' : b < 0} /\ Registered' \in SUBSET Nat
    BY <1>1, <1>2 DEF SentShape
  <2>2. Sent = {}
    BY <1>1 DEF SentShape
  <2>3. \A b \in Nat : ~(b < 0)
    OBVIOUS
  <2> QED BY <2>1, <2>2, <2>3, Zenon
<1> QED BY <1>1, <1>2 DEF SentShape

\* Popping an acknowledge takes it out of the count.
LEMMA PopAckCounts ==
    ASSUME TypeOK, ptr \in Banks, ackQueue[ptr] # <<>>, PopAck, NEW M
    PROVE  /\ InAck(M) = InAck(M)' + IF Head(ackQueue[ptr]) \in M THEN 1 ELSE 0
           /\ Head(ackQueue[ptr]) \in MemReq
<1>1. Family(Banks, MemReq, ackQueue)
  BY Families DEF FamilyShape
<1>2. ackQueue[ptr] \in Seq(MemReq)
  BY DEF TypeOK, QueuesOK
<1>3. /\ Removed(ackQueue[ptr], 1, Head(ackQueue[ptr]), Tail(ackQueue[ptr]))
      /\ Head(ackQueue[ptr]) \in MemReq /\ Tail(ackQueue[ptr]) \in Seq(MemReq)
  BY <1>2, TailRemoved
<1>4. ackQueue' = [ackQueue EXCEPT ![ptr] = Tail(ackQueue[ptr])]
  BY DEF PopAck
<1>5. PICK h : h = Head(ackQueue[ptr])
  OBVIOUS
<1>6. Dequeued(Banks, MemReq, ackQueue, ackQueue', ptr, 1, h)
  BY <1>1, <1>3, <1>4, <1>5, BankRemove
<1>7. Cardinality(Hits("ackQueue", ackQueue, M)) =
          Cardinality(Hits("ackQueue", ackQueue', M)) + IF h \in M THEN 1 ELSE 0
  BY <1>6, HitsRemove
<1> QED BY <1>3, <1>5, <1>7 DEF InAck

\* An answer on its way from the cache stays below.
LEMMA GetFromCacheCounts ==
    ASSUME TypeOK, TypeOK', GetFromCache, NEW M
    PROVE  Below(M)' = Below(M)
<1>1. Family(Banks, MemReq, ackQueue) /\ Family(Banks, MemReq, inCache)
  BY Families DEF FamilyShape
<1>2. i \in Banks /\ inCache[i] \in Seq(MemReq)
  BY DEF GetFromCache, TypeOK, ControlOK, QueuesOK
<1>3. InReq(M)' = InReq(M)
  BY QuietCounts DEF GetFromCache
<1>4. InAck(M) \in Nat /\ InCacheBox(M) \in Nat /\ InReq(M) \in Nat
  BY CountsNat
<1>5. CASE UNCHANGED <<ackQueue, inCache>>
  BY <1>3, <1>5, QuietCounts DEF Below
<1>6. ASSUME NEW k \in DOMAIN inCache[i],
             ackQueue' = [ackQueue EXCEPT ![i] = Append(@, inCache[i][k])],
             inCache' = [inCache EXCEPT ![i] = Drop(@, k)]
      PROVE  Below(M)' = Below(M)
  <2>1. /\ Removed(inCache[i], k, inCache[i][k], Drop(inCache[i], k))
        /\ inCache[i][k] \in MemReq /\ Drop(inCache[i], k) \in Seq(MemReq)
    BY <1>2, DropRemoved
  <2>2. PICK req \in MemReq : req = inCache[i][k]
    BY <2>1
  <2>3. /\ ackQueue' = [ackQueue EXCEPT ![i] = Append(ackQueue[i], req)]
        /\ inCache' = [inCache EXCEPT ![i] = Drop(inCache[i], k)]
    BY <1>6, <2>2
  <2>4. Enqueued(Banks, MemReq, ackQueue, ackQueue', i, req)
    BY <1>1, <1>2, <2>3, BankAppend
  <2>5. Dequeued(Banks, MemReq, inCache, inCache', i, k, req)
    BY <1>1, <1>2, <2>1, <2>2, <2>3, BankRemove
  <2>6. Cardinality(Hits("ackQueue", ackQueue', M)) =
            Cardinality(Hits("ackQueue", ackQueue, M)) + IF req \in M THEN 1 ELSE 0
    BY <2>4, HitsAppend
  <2>7. Cardinality(Hits("inCache", inCache, M)) =
            Cardinality(Hits("inCache", inCache', M)) + IF req \in M THEN 1 ELSE 0
    BY <2>5, HitsRemove
  <2>8. /\ InAck(M)' = InAck(M) + IF req \in M THEN 1 ELSE 0
        /\ InCacheBox(M) = InCacheBox(M)' + IF req \in M THEN 1 ELSE 0
    BY <2>6, <2>7 DEF InAck, InCacheBox
  <2>9. InCacheBox(M)' \in Nat
    <3>1. Family(Banks, MemReq, inCache')
      BY FamiliesNext DEF FamilyShape
    <3> QED BY <3>1, FamilyHits DEF InCacheBox
  <2> QED BY <1>3, <1>4, <2>8, <2>9 DEF Below
<1> QED BY <1>5, <1>6 DEF GetFromCache

\* A request that the cache takes, or an always hitting one answers, stays below.
LEMMA send2CacheCounts ==
    ASSUME TypeOK, TypeOK', send2Cache, NEW M
    PROVE  Below(M)' = Below(M)
<1>1. /\ Family(Banks, MemReq, reqQueue) /\ Family(Banks, MemReq, ackQueue)
      /\ Family(Banks, MemReq, inCache)
  BY Families DEF FamilyShape
<1>2. i \in Banks /\ reqQueue[i] \in Seq(MemReq)
  BY DEF send2Cache, TypeOK, ControlOK, QueuesOK
<1>3. InAck(M) \in Nat /\ InCacheBox(M) \in Nat /\ InReq(M) \in Nat
  BY CountsNat
<1>4. CASE UNCHANGED <<reqQueue, ackQueue, inCache>>
  BY <1>4, QuietCounts DEF Below
<1>5. ASSUME reqQueue[i] # <<>>, reqQueue' = [reqQueue EXCEPT ![i] = Tail(@)],
             \/ /\ ackQueue' = [ackQueue EXCEPT ![i] = Append(@, Head(reqQueue[i]))]
                /\ UNCHANGED inCache
             \/ /\ inCache' = [inCache EXCEPT ![i] = Append(@, Head(reqQueue[i]))]
                /\ UNCHANGED ackQueue
      PROVE  Below(M)' = Below(M)
  <2>1. /\ Removed(reqQueue[i], 1, Head(reqQueue[i]), Tail(reqQueue[i]))
        /\ Head(reqQueue[i]) \in MemReq /\ Tail(reqQueue[i]) \in Seq(MemReq)
    BY <1>2, <1>5, TailRemoved
  <2>2. PICK req \in MemReq : req = Head(reqQueue[i])
    BY <2>1
  <2>3. reqQueue' = [reqQueue EXCEPT ![i] = Tail(reqQueue[i])]
    BY <1>5
  <2>4. Dequeued(Banks, MemReq, reqQueue, reqQueue', i, 1, req)
    BY <1>1, <1>2, <2>1, <2>2, <2>3, BankRemove
  <2>5. Cardinality(Hits("reqQueue", reqQueue, M)) =
            Cardinality(Hits("reqQueue", reqQueue', M)) + IF req \in M THEN 1 ELSE 0
    BY <2>4, HitsRemove
  <2>6. InReq(M) = InReq(M)' + IF req \in M THEN 1 ELSE 0
    BY <2>5 DEF InReq
  <2>7. InReq(M)' \in Nat
    <3>1. Family(Banks, MemReq, reqQueue')
      BY FamiliesNext DEF FamilyShape
    <3> QED BY <3>1, FamilyHits DEF InReq
  <2>8. CASE /\ ackQueue' = [ackQueue EXCEPT ![i] = Append(@, Head(reqQueue[i]))]
             /\ UNCHANGED inCache
    <3>1. ackQueue' = [ackQueue EXCEPT ![i] = Append(ackQueue[i], req)]
      BY <2>2, <2>8
    <3>2. Enqueued(Banks, MemReq, ackQueue, ackQueue', i, req)
      BY <1>1, <1>2, <3>1, BankAppend
    <3>3. Cardinality(Hits("ackQueue", ackQueue', M)) =
              Cardinality(Hits("ackQueue", ackQueue, M)) + IF req \in M THEN 1 ELSE 0
      BY <3>2, HitsAppend
    <3>4. InAck(M)' = InAck(M) + IF req \in M THEN 1 ELSE 0
      BY <3>3 DEF InAck
    <3>5. InCacheBox(M)' = InCacheBox(M)
      BY <2>8, QuietCounts
    <3> QED BY <1>3, <2>6, <2>7, <3>4, <3>5 DEF Below
  <2>9. CASE /\ inCache' = [inCache EXCEPT ![i] = Append(@, Head(reqQueue[i]))]
             /\ UNCHANGED ackQueue
    <3>1. inCache' = [inCache EXCEPT ![i] = Append(inCache[i], req)]
      BY <2>2, <2>9
    <3>2. Enqueued(Banks, MemReq, inCache, inCache', i, req)
      BY <1>1, <1>2, <3>1, BankAppend
    <3>3. Cardinality(Hits("inCache", inCache', M)) =
              Cardinality(Hits("inCache", inCache, M)) + IF req \in M THEN 1 ELSE 0
      BY <3>2, HitsAppend
    <3>4. InCacheBox(M)' = InCacheBox(M) + IF req \in M THEN 1 ELSE 0
      BY <3>3 DEF InCacheBox
    <3>5. InAck(M)' = InAck(M)
      BY <2>9, QuietCounts
    <3> QED BY <1>3, <2>6, <2>7, <3>4, <3>5 DEF Below
  <2> QED BY <1>5, <2>8, <2>9
<1> QED BY <1>4, <1>5 DEF send2Cache

\* Answering one of the waiting requests takes it out of its entry.
LEMMA AnswerWaitingCounts ==
    ASSUME TypeOK, TypeOK', NEW e \in DOMAIN coalescerTable, NEW k \in DOMAIN Waiting(e),
           coalescerTable' = [coalescerTable EXCEPT ![e].coalescerQueue = Drop(@, k)]
    PROVE  /\ Waiting(e)[k] \in MemReq
           /\ \A M : InCoal(M) = InCoal(M)' + IF Waiting(e)[k] \in M THEN 1 ELSE 0
           /\ \A blk : Count(coalescerTable, EntryFor(blk))' = Count(coalescerTable, EntryFor(blk))
<1> DEFINE D == 1 .. Len(coalescerTable)
<1>1. /\ Family(D, MemReq, Coal) /\ Family(1 .. Len(coalescerTable'), MemReq, Coal')
      /\ DOMAIN coalescerTable = D /\ DOMAIN coalescerTable' = 1 .. Len(coalescerTable')
  BY Families, FamiliesNext DEF FamilyShape
<1>2. /\ DOMAIN coalescerTable' = D
      /\ coalescerTable'[e] = [coalescerTable[e] EXCEPT !.coalescerQueue = Drop(Waiting(e), k)]
      /\ \A d \in D : d # e => coalescerTable'[d] = coalescerTable[d]
  BY <1>1 DEF Waiting
<1>3. \A d \in D : coalescerTable[d] \in CoalescerEntry /\ coalescerTable'[d] \in CoalescerEntry
  <2>1. coalescerTable \in Seq(CoalescerEntry) /\ coalescerTable' \in Seq(CoalescerEntry)
    BY DEF TypeOK, QueuesOK
  <2> QED BY <1>1, <1>2, <2>1, ElementOfSeq
<1>4. coalescerTable'[e].coalescerQueue = Drop(Waiting(e), k)
      /\ coalescerTable'[e].blockAddr = coalescerTable[e].blockAddr
  <2>1. coalescerTable[e] \in [blockAddr : Nat, coalescerQueue : Seq(MemReq)]
    BY <1>1, <1>3 DEF CoalescerEntry
  <2> QED BY <1>2, <2>1
<1>5. /\ Removed(Waiting(e), k, Waiting(e)[k], Drop(Waiting(e), k))
      /\ Waiting(e)[k] \in MemReq
  <2>1. Waiting(e) \in Seq(MemReq)
    BY <1>1, <1>3 DEF Waiting, CoalescerEntry
  <2> QED BY <2>1, DropRemoved
<1>6. PICK w \in MemReq : w = Waiting(e)[k]
  BY <1>5
<1>7. Coal[e] = Waiting(e) /\ Coal'[e] = Drop(Waiting(e), k)
  BY <1>1, <1>2, <1>4 DEF Coal, Waiting
<1>8. \A d \in D : d # e => Coal'[d] = Coal[d]
  BY <1>1, <1>2 DEF Coal
<1>9. Dequeued(D, MemReq, Coal, Coal', e, k, w)
  BY <1>1, <1>2, <1>5, <1>6, <1>7, <1>8 DEF Dequeued
<1> HIDE DEF D
<1>10. ASSUME NEW M PROVE InCoal(M) = InCoal(M)' + IF w \in M THEN 1 ELSE 0
  <2>1. Cardinality(Hits("coalescer", Coal, M)) =
            Cardinality(Hits("coalescer", Coal', M)) + IF w \in M THEN 1 ELSE 0
    BY <1>9, HitsRemove
  <2> QED BY <2>1 DEF InCoal
<1>11. ASSUME NEW blk
       PROVE  Count(coalescerTable, EntryFor(blk))' = Count(coalescerTable, EntryFor(blk))
  <2>1. \A d \in D : coalescerTable'[d].blockAddr = coalescerTable[d].blockAddr
    BY <1>2, <1>4
  <2>2. \A d \in D : coalescerTable'[d] \in EntryFor(blk) <=> coalescerTable[d] \in EntryFor(blk)
    BY <1>3, <2>1 DEF EntryFor
  <2>3. {d \in DOMAIN coalescerTable' : coalescerTable'[d] \in EntryFor(blk)}
        = {d \in DOMAIN coalescerTable : coalescerTable[d] \in EntryFor(blk)}
    BY <1>1, <1>2, <2>2
  <2> QED BY <2>3, Zenon DEF Count
<1> QED BY <1>6, <1>10, <1>11

\* Taking an answered entry out of the coalescer.
LEMMA popCoalescerEntryCounts ==
    ASSUME TypeOK, TypeOK', NEW e \in DOMAIN coalescerTable, Waiting(e) = <<>>,
           popCoalescerEntry(e)
    PROVE  /\ \A M : InCoal(M)' = InCoal(M)
           /\ \A blk : Count(coalescerTable, EntryFor(blk)) =
                  Count(coalescerTable, EntryFor(blk))'
                  + IF coalescerTable[e].blockAddr = blk THEN 1 ELSE 0
<1>1. /\ Family(1 .. Len(coalescerTable), MemReq, Coal)
      /\ Family(1 .. Len(coalescerTable'), MemReq, Coal')
      /\ DOMAIN coalescerTable = 1 .. Len(coalescerTable) /\ Len(coalescerTable) \in Nat
      /\ DOMAIN coalescerTable' = 1 .. Len(coalescerTable')
  BY Families, FamiliesNext DEF FamilyShape
<1>2. PICK n \in Nat : n = Len(coalescerTable)
  BY <1>1, Zenon
<1>3. coalescerTable \in Seq(CoalescerEntry) /\ coalescerTable' \in Seq(CoalescerEntry)
  BY DEF TypeOK, QueuesOK
<1>4. coalescerTable' = Drop(coalescerTable, e)
  BY DEF popCoalescerEntry
<1>5. PICK entry \in CoalescerEntry : entry = coalescerTable[e]
  BY <1>1, <1>3, ElementOfSeq
<1>6. Removed(coalescerTable, e, entry, coalescerTable')
  BY <1>3, <1>4, <1>5, DropRemoved
<1>7. /\ e \in 1 .. n /\ Len(coalescerTable') = n - 1
      /\ \A j \in 1 .. n - 1 : coalescerTable'[j] =
             IF j < e THEN coalescerTable[j] ELSE coalescerTable[j + 1]
  BY <1>2, <1>6 DEF Removed
<1>8. \A j \in 1 .. n - 1 : Coal'[j] = IF j < e THEN Coal[j] ELSE Coal[j + 1]
  <2>1. \A j \in 1 .. n : Coal[j] = coalescerTable[j].coalescerQueue
    BY <1>1, <1>2 DEF Coal
  <2>2. \A j \in 1 .. n - 1 : Coal'[j] = coalescerTable'[j].coalescerQueue
    BY <1>1, <1>7 DEF Coal
  <2> QED BY <1>7, <2>1, <2>2
<1>9. Coal[e] = <<>>
  BY DEF Coal, Waiting
<1>10. Skipped(n, MemReq, Coal, Coal', e)
  BY <1>1, <1>2, <1>7, <1>8, <1>9 DEF Skipped
<1>11. ASSUME NEW M PROVE InCoal(M)' = InCoal(M)
  <2>1. Cardinality(Hits("coalescer", Coal', M)) = Cardinality(Hits("coalescer", Coal, M))
    BY <1>10, HitsSkip
  <2> QED BY <2>1 DEF InCoal
<1>12. ASSUME NEW blk
       PROVE  Count(coalescerTable, EntryFor(blk)) =
                  Count(coalescerTable, EntryFor(blk))'
                  + IF coalescerTable[e].blockAddr = blk THEN 1 ELSE 0
  <2>1. Count(coalescerTable, EntryFor(blk)) =
            Count(coalescerTable', EntryFor(blk)) + IF entry \in EntryFor(blk) THEN 1 ELSE 0
    BY <1>3, <1>6, CountRemove
  <2>2. entry \in EntryFor(blk) <=> coalescerTable[e].blockAddr = blk
    BY <1>5 DEF EntryFor
  <2> QED BY <2>1, <2>2
<1> QED BY <1>11, <1>12

\* The queue and the tag of an updated recorder entry.
LEMMA RecorderQueues ==
    ASSUME NEW entry \in RecorderEntry, NEW req \in MemReq
    PROVE  /\ FirstReq(entry, req).reqQueue = Append(entry.reqQueue, req)
           /\ FirstReq(entry, req).addrTag = req.blk
           /\ Reserve(entry).addrTag = entry.addrTag
           /\ Coalesce(entry, req).reqQueue =
                  Append(entry.reqQueue, [req EXCEPT !.coalesced = TRUE])
           /\ Coalesce(entry, req).addrTag = entry.addrTag
           /\ [req EXCEPT !.coalesced = TRUE] \in MemReq
           /\ [req EXCEPT !.coalesced = TRUE].lse = req.lse
           /\ [req EXCEPT !.coalesced = TRUE].slot = req.slot
<1>1. /\ [req EXCEPT !.coalesced = TRUE] \in MemReq
      /\ [req EXCEPT !.coalesced = TRUE].lse = req.lse
      /\ [req EXCEPT !.coalesced = TRUE].slot = req.slot
  BY DEF MemReq
<1>2. /\ FirstReq(entry, req).reqQueue = Append(entry.reqQueue, req)
      /\ FirstReq(entry, req).addrTag = req.blk
  BY DEF FirstReq, RecorderEntry
<1>3. /\ Reserve(entry) \in RecorderEntry
      /\ Reserve(entry).addrTag = entry.addrTag
      /\ Reserve(entry).reqQueue = entry.reqQueue
  BY DEF Reserve, RecorderEntry
<1>4. PICK r : r = [req EXCEPT !.coalesced = TRUE]
  OBVIOUS
<1>5. Coalesce(entry, req) = [Reserve(entry) EXCEPT !.reqQueue = Append(Reserve(entry).reqQueue, r)]
  BY <1>4 DEF Coalesce
<1>6. /\ Coalesce(entry, req).reqQueue = Append(entry.reqQueue, r)
      /\ Coalesce(entry, req).addrTag = entry.addrTag
  BY <1>3, <1>5 DEF RecorderEntry
<1> QED BY <1>1, <1>2, <1>3, <1>4, <1>6, Zenon

\* A request recorded, alone or coalesced, is one request more in the recorder.
LEMMA RecordCounts ==
    ASSUME TypeOK, TypeOK', Sent = {}, Sent' = {}, NEW b \in Banks, NEW r \in MemReq,
           NEW entry, bankRecorder' = [bankRecorder EXCEPT ![b] = entry],
           entry.reqQueue = Append(bankRecorder[b].reqQueue, r), NEW M
    PROVE  InRec(M)' = InRec(M) + IF r \in M THEN 1 ELSE 0
<1>1. Family(Banks, MemReq, Rec) /\ Family(Banks, MemReq, Rec')
  BY Families, FamiliesNext DEF FamilyShape
<1>2. DOMAIN bankRecorder = Banks /\ bankRecorder[b].reqQueue \in Seq(MemReq)
  BY DEF TypeOK, QueuesOK, RecorderEntry
<1>3. /\ Rec[b] = bankRecorder[b].reqQueue
      /\ Rec'[b] = Append(bankRecorder[b].reqQueue, r)
      /\ \A y \in Banks : y # b => Rec'[y] = Rec[y]
  BY <1>2 DEF Rec
<1>4. Appended(Rec[b], r, Rec'[b])
  BY <1>2, <1>3, AppendIs
<1>5. Enqueued(Banks, MemReq, Rec, Rec', b, r)
  BY <1>1, <1>3, <1>4 DEF Enqueued
<1>6. Cardinality(Hits("recorder", Rec', M)) =
          Cardinality(Hits("recorder", Rec, M)) + IF r \in M THEN 1 ELSE 0
  BY <1>5, HitsAppend
<1> QED BY <1>6 DEF InRec

\* Reserving a coalescer entry leaves the requests where they are.
LEMMA ReserveCounts ==
    ASSUME TypeOK, Sent = {}, Sent' = {}, NEW b \in Banks,
           bankRecorder' = [bankRecorder EXCEPT ![b] = Reserve(@)]
    PROVE  Rec' = Rec
<1>1. DOMAIN bankRecorder = Banks /\ bankRecorder[b] \in RecorderEntry
  BY DEF TypeOK, QueuesOK
<1>2. Reserve(bankRecorder[b]).reqQueue = bankRecorder[b].reqQueue
  BY <1>1 DEF Reserve, RecorderEntry
<1>3. \A y \in Banks : bankRecorder'[y].reqQueue = bankRecorder[y].reqQueue
  BY <1>1, <1>2
<1> QED BY <1>3 DEF Rec

\* What getLseReq does with a request: nothing yet, or it sends it.
LEMMA CollectCounts ==
    ASSUME IInv, TypeOK', Collect
    PROVE  LET req == suspendReq[ptr]
           IN /\ ptr \in Lses /\ req \in MemReq /\ Sent = {} /\ Sent' = {}
              /\ \/ UNCHANGED lseVars /\ Rec' = Rec
                 \/ /\ setInflight(req)
                    /\ \E r \in MemReq :
                          /\ r.lse = req.lse /\ r.slot = req.slot
                          /\ \A M : InRec(M)' = InRec(M) + IF r \in M THEN 1 ELSE 0
<1> DEFINE req == suspendReq[ptr]
           b == getBankId(req.blk)
<1>1. TypeOK /\ ptr \in Lses /\ req \in MemReq
  BY DEF Collect, IInv, TypeOK, ControlOK, LseOK
<1>2. b \in Banks
  BY <1>1, ModIsIndex, MemSystemAssumption DEF getBankId, MemReq, Banks
<1>3. CollectFirst(b, req) \/ CollectCoalesced(b, req) \/ CollectBlocked(b, req)
  BY DEF Collect
<1>4. Sent = {} /\ Sent' = {}
  <2>1. ~Handover /\ (~Handover' \/ (phase' = "send2Coalescer" /\ i' = 0))
    BY DEF Collect, NextLse, Handover
  <2> QED BY <1>1, <2>1, QuietSent
<1>5. bankRecorder[b] \in RecorderEntry /\ bankRecorder' \in [Banks -> RecorderEntry]
  BY <1>1, <1>2 DEF TypeOK, QueuesOK
<1> HIDE DEF b, req
<1>6. CASE CollectFirst(b, req)
  <2>1. FirstReq(bankRecorder[b], req).reqQueue = Append(bankRecorder[b].reqQueue, req)
    BY <1>1, <1>5, RecorderQueues
  <2>2. bankRecorder' = [bankRecorder EXCEPT ![b] = FirstReq(bankRecorder[b], req)]
    BY <1>6 DEF CollectFirst
  <2>3. \A M : InRec(M)' = InRec(M) + IF req \in M THEN 1 ELSE 0
    BY <1>1, <1>2, <1>4, <2>1, <2>2, RecordCounts
  <2> QED BY <1>1, <1>4, <1>6, <2>3 DEF CollectFirst, req
<1>7. CASE CollectBlocked(b, req)
  BY <1>1, <1>4, <1>7, QuietRec DEF CollectBlocked, req
<1>8. CASE CollectCoalesced(b, req)
  <2>1. CASE /\ bankRecorder' = [bankRecorder EXCEPT ![b] = Coalesce(@, req)]
             /\ setInflight(req)
    <3>1. PICK r \in MemReq : /\ r.lse = req.lse /\ r.slot = req.slot
                              /\ Coalesce(bankRecorder[b], req).reqQueue = Append(bankRecorder[b].reqQueue, r)
      BY <1>1, <1>5, RecorderQueues
    <3>2. bankRecorder' = [bankRecorder EXCEPT ![b] = Coalesce(bankRecorder[b], req)]
      BY <2>1
    <3>3. \A M : InRec(M)' = InRec(M) + IF r \in M THEN 1 ELSE 0
      BY <1>1, <1>2, <1>4, <3>1, <3>2, RecordCounts
    <3> QED BY <1>1, <1>4, <2>1, <3>1, <3>3 DEF req
  <2>2. CASE /\ bankRecorder' = [bankRecorder EXCEPT ![b] = Reserve(@)]
             /\ UNCHANGED lseVars
    BY <1>1, <1>2, <1>4, <2>2, ReserveCounts DEF req
  <2> QED BY <1>8, <2>1, <2>2 DEF CollectCoalesced
<1> QED BY <1>3, <1>6, <1>7, <1>8

\* There are finitely many handed-over entries.
LEMMA HandedFinite ==
    ASSUME TypeOK, NEW blk
    PROVE  IsFiniteSet(Handed(blk)) /\ Cardinality(Handed(blk)) \in Nat
<1>1. IsFiniteSet(Banks) /\ Handed(blk) \in SUBSET Banks
  BY SentIs, MemSystemAssumption, FS_Interval DEF SentShape, Handed, Banks
<1> QED BY <1>1, FS_Subset, FS_CardinalityType

\* send2Coalescer moves the requests of one registered recorder entry into a
\* new coalescer entry; until addTransaction they still stand in the recorder.
LEMMA send2CoalescerCounts ==
    ASSUME IInv, TypeOK', send2Coalescer
    PROVE  /\ \A M : InRec(M)' + InCoal(M)' = InRec(M) + InCoal(M)
           /\ \A blk : \E d \in {0, 1} :
                  /\ Count(coalescerTable, EntryFor(blk))' = Count(coalescerTable, EntryFor(blk)) + d
                  /\ Cardinality(Handed(blk)') = Cardinality(Handed(blk)) + d
<1>1. TypeOK /\ phase = "send2Coalescer" /\ i \in Banks /\ UNCHANGED bankRecorder
  BY DEF send2Coalescer, IInv, TypeOK, ControlOK
<1>2. Registered' = Registered /\ Registered \in SUBSET Banks /\ Banks \in SUBSET Nat
  BY <1>1, SentIs DEF SentShape, Registered, Recorded
<1>3. Sent = {b \in Registered : b < i}
  BY <1>1, SentIs DEF SentShape
<1>4. Sent' = {b \in Registered : b <= i}
  <2>1. CASE i + 1 < NumBanks
    <3>1. Sent' = {b \in Registered' : b < i'} /\ i' = i + 1
      <4>1. phase' = "send2Coalescer" /\ i' = i + 1
        BY <1>1, <2>1, MemSystemAssumption DEF send2Coalescer
      <4> QED BY <4>1, SentIsNext DEF SentShape
    <3>2. \A b \in Banks : b < i + 1 <=> b <= i
      BY <1>1, <1>2
    <3> QED BY <1>2, <3>1, <3>2
  <2>2. CASE i + 1 = NumBanks
    <3>1. Sent' = Registered'
      BY <2>2, SentIsNext, MemSystemAssumption DEF SentShape, send2Coalescer
    <3>2. \A b \in Banks : b <= i
      BY <1>1, <2>2 DEF Banks
    <3> QED BY <1>2, <3>1, <3>2
  <2> QED BY <1>1, <2>1, <2>2, MemSystemAssumption DEF Banks
<1>5. \A b \in Banks : b <= i <=> b < i \/ b = i
  BY <1>1, <1>2
<1>6. ~(i < i)
  BY <1>1, <1>2
<1>7. Family(Banks, MemReq, Rec) /\ Family(Banks, MemReq, Rec')
  BY <1>1, Families, FamiliesNext DEF FamilyShape
<1>8. CASE i \notin Registered
  <2>1. Sent' = Sent
    BY <1>2, <1>3, <1>4, <1>5, <1>8
  <2>2. UNCHANGED coalescerTable
    BY <1>8 DEF send2Coalescer
  <2>3. Rec' = Rec
    BY <1>1, <2>1, QuietRec
  <2>4. ASSUME NEW M PROVE InRec(M)' + InCoal(M)' = InRec(M) + InCoal(M)
    BY <2>2, <2>3, QuietCounts
  <2>5. ASSUME NEW blk
        PROVE  /\ Count(coalescerTable, EntryFor(blk))' = Count(coalescerTable, EntryFor(blk)) + 0
               /\ Cardinality(Handed(blk)') = Cardinality(Handed(blk)) + 0
    <3>1. Handed(blk)' = Handed(blk)
      BY <1>1, <2>1 DEF Handed
    <3>2. Cardinality(Handed(blk)) \in Nat
      BY <1>1, HandedFinite
    <3>3. Count(coalescerTable, EntryFor(blk)) \in Nat
      BY <1>1, HitsOne, Zenon DEF TypeOK, QueuesOK
    <3>4. Count(coalescerTable, EntryFor(blk))' = Count(coalescerTable, EntryFor(blk))
      BY <2>2, Zenon DEF Count
    <3> QED BY <3>1, <3>2, <3>3, <3>4
  <2> QED BY <2>4, <2>5
<1>9. CASE i \in Registered
  <2> DEFINE entry == [blockAddr |-> bankRecorder[i].addrTag,
                       coalescerQueue |-> bankRecorder[i].reqQueue]
  <2>1. PICK n \in Nat : /\ n = Len(coalescerTable) /\ Family(1 .. n, MemReq, Coal)
                         /\ DOMAIN coalescerTable = 1 .. n
    BY <1>1, Families, Zenon DEF FamilyShape
  <2>2. /\ coalescerTable \in Seq(CoalescerEntry) /\ coalescerTable' \in Seq(CoalescerEntry)
        /\ bankRecorder[i] \in RecorderEntry
    BY <1>1 DEF TypeOK, QueuesOK
  <2>3. entry \in CoalescerEntry
    BY <2>2 DEF RecorderEntry, CoalescerEntry
  <2>4. coalescerTable' = Append(coalescerTable, entry)
    BY <1>9 DEF send2Coalescer
  <2>5. Appended(coalescerTable, entry, coalescerTable')
    BY <2>2, <2>3, <2>4, AppendIs
  <2>6. /\ Len(coalescerTable') = n + 1
        /\ \A k \in 1 .. n : coalescerTable'[k] = coalescerTable[k]
        /\ coalescerTable'[n + 1] = entry
    BY <2>1, <2>5 DEF Appended
  <2>7. Family(1 .. n + 1, MemReq, Coal') /\ DOMAIN coalescerTable' = 1 .. n + 1
    BY <2>6, FamiliesNext DEF FamilyShape
  <2>8. Filled(1 .. n, 1 .. n + 1, MemReq, Coal, Coal', n + 1)
    <3>1. \A y \in 1 .. n : y \in 1 .. n + 1 /\ Coal'[y] = Coal[y]
      BY <2>1, <2>6, <2>7 DEF Coal
    <3>2. 1 .. n + 1 = (1 .. n) \cup {n + 1} /\ n + 1 \in 1 .. n + 1 /\ n + 1 \notin 1 .. n
      BY <2>1
    <3> QED BY <2>1, <2>7, <3>1, <3>2 DEF Filled
  <2>9. Coal'[n + 1] = bankRecorder[i].reqQueue
    BY <2>1, <2>6, <2>7 DEF Coal
  <2>10. i \notin Sent /\ i \in Sent' /\ \A b \in Banks : b # i => (b \in Sent' <=> b \in Sent)
    BY <1>1, <1>2, <1>3, <1>4, <1>5, <1>6, <1>9
  <2>11. /\ Rec[i] = bankRecorder[i].reqQueue /\ Rec'[i] = <<>>
         /\ \A y \in Banks : y # i => Rec[y] = Rec'[y]
    BY <1>1, <2>10 DEF Rec
  <2>12. Filled(Banks, Banks, MemReq, Rec', Rec, i)
    BY <1>1, <1>7, <2>11 DEF Filled
  <2>13. ASSUME NEW M PROVE InRec(M)' + InCoal(M)' = InRec(M) + InCoal(M)
    <3>1. PICK c : c = Count(bankRecorder[i].reqQueue, M)
      OBVIOUS
    <3>2. /\ Cardinality(Hits("recorder", Rec, M)) = Cardinality(Hits("recorder", Rec', M)) + Count(Rec[i], M)
          /\ Count(Rec[i], M) \in Nat
      BY <2>12, HitsFill
    <3>3. Cardinality(Hits("coalescer", Coal', M)) =
              Cardinality(Hits("coalescer", Coal, M)) + Count(Coal'[n + 1], M)
      BY <2>8, HitsFill
    <3>4. /\ InRec(M) = InRec(M)' + c /\ c \in Nat
          /\ InCoal(M)' = InCoal(M) + c
      BY <2>9, <2>11, <3>1, <3>2, <3>3, Zenon DEF InRec, InCoal
    <3>5. InCoal(M) \in Nat
      BY <1>1, CountsNat
    <3>6. InRec(M)' \in Nat
      BY <1>7, FamilyHits DEF InRec
    <3> QED BY <3>4, <3>5, <3>6
  <2> HIDE DEF entry
  <2>14. ASSUME NEW blk
         PROVE  \E d \in {0, 1} :
                  /\ Count(coalescerTable, EntryFor(blk))' = Count(coalescerTable, EntryFor(blk)) + d
                  /\ Cardinality(Handed(blk)') = Cardinality(Handed(blk)) + d
    <3>1. Count(coalescerTable', EntryFor(blk)) =
              Count(coalescerTable, EntryFor(blk)) + IF entry \in EntryFor(blk) THEN 1 ELSE 0
      BY <2>2, <2>3, <2>5, CountAppend
    <3>2. entry \in EntryFor(blk) <=> bankRecorder[i].addrTag = blk
      BY <2>3 DEF EntryFor, entry
    <3>3. IsFiniteSet(Handed(blk)) /\ Cardinality(Handed(blk)) \in Nat
      BY <1>1, HandedFinite
    <3>4. \A b \in Banks : /\ b \in Sent' => b \in Registered
                           /\ b \in Sent => b \in Registered
      BY <1>3, <1>4
    <3>5. CASE bankRecorder[i].addrTag = blk
      <4>1. Handed(blk)' = Handed(blk) \cup {i} /\ i \notin Handed(blk)
        <5>1. i \notin Handed(blk)
          BY <2>10 DEF Handed
        <5>2. Sent' = Sent \cup {i}
          BY <1>2, <1>3, <1>4, <2>10
        <5>3. Handed(blk)' = {b \in Sent' : bankRecorder[b].addrTag = blk}
          BY <1>1 DEF Handed
        <5> QED BY <3>5, <5>1, <5>2, <5>3 DEF Handed
      <4>2. Cardinality(Handed(blk)') = Cardinality(Handed(blk)) + 1
        BY <3>3, <4>1, FS_AddElement
      <4> QED BY <3>1, <3>2, <3>5, <4>2
    <3>6. CASE bankRecorder[i].addrTag # blk
      <4>1. Handed(blk)' = Handed(blk)
        <5>2. Sent' = Sent \cup {i}
          BY <1>2, <1>3, <1>4, <2>10
        <5>3. Handed(blk)' = {b \in Sent' : bankRecorder[b].addrTag = blk}
          BY <1>1 DEF Handed
        <5> QED BY <3>6, <5>2, <5>3 DEF Handed
      <4>2. Cardinality(Handed(blk)') = Cardinality(Handed(blk)) + 0
        BY <3>3, <4>1
      <4> QED BY <3>1, <3>2, <3>6, <4>2
    <3> QED BY <3>5, <3>6
  <2> QED BY <2>13, <2>14
<1> QED BY <1>8, <1>9

\* addTransaction moves the first request of every recorder entry into its
\* bank's request queue: those of unregistered entries, and for a registered
\* entry the request that will answer its coalescer entry.
LEMMA addTransactionCounts ==
    ASSUME IInv, HeadsOK, TypeOK', addTransaction
    PROVE  /\ \A l \in Lses, s \in Slots :
                  InRec(Owned(l, s))' + Below(Single(l, s))' =
                      InRec(Owned(l, s)) + Below(Single(l, s))
           /\ \A blk \in Blocks :
                  /\ Below(Standing(blk))' = Below(Standing(blk)) + Cardinality(Handed(blk))
                  /\ Cardinality(Handed(blk)') = 0
<1> DEFINE B == Recorded \ Registered
           head(b) == Head(bankRecorder[b].reqQueue)
           req(b) == [head(b) EXCEPT !.coalesced = bankRecorder[b].hasRegisteredCoalescer]
           e == [b \in B |-> head(b)]
           f == [b \in Recorded |-> req(b)]
<1>1. TypeOK /\ RecorderOK /\ phase = "addTransaction" /\ phase' = "lse"
  BY DEF addTransaction, IInv
<1>2. Sent = Registered /\ Sent' = {}
  BY <1>1, SentIs, SentIsNext DEF SentShape, Handover
<1>3. /\ Family(Banks, MemReq, Rec) /\ Family(Banks, MemReq, Rec')
      /\ Family(Banks, MemReq, reqQueue) /\ Family(Banks, MemReq, reqQueue')
  BY <1>1, Families, FamiliesNext DEF FamilyShape
<1>4. /\ Recorded \in SUBSET Banks /\ Registered \in SUBSET Recorded
      /\ \A b \in Banks : b \in Recorded <=> bankRecorder[b].valid
      /\ \A b \in Recorded : b \in Registered <=> bankRecorder[b].hasRegisteredCoalescer
  BY DEF Recorded, Registered
<1>5. \A b \in Banks : bankRecorder[b].reqQueue \in Seq(MemReq) /\ bankRecorder[b] \in RecorderEntry
  BY <1>1 DEF TypeOK, QueuesOK, RecorderEntry
<1>6. ASSUME NEW b \in Recorded
      PROVE  /\ head(b) \in MemReq /\ bankRecorder[b].reqQueue # <<>>
             /\ head(b).blk = bankRecorder[b].addrTag
             /\ req(b) \in MemReq /\ req(b).lse = head(b).lse /\ req(b).slot = head(b).slot
             /\ req(b).blk = head(b).blk /\ (req(b).coalesced <=> b \in Registered)
  <2>1. bankRecorder[b].reqQueue # <<>> /\ bankRecorder[b].reqQueue \in Seq(MemReq)
    BY <1>1, <1>4, <1>5 DEF RecorderOK
  <2>2. head(b) \in MemReq
    BY <2>1, HeadTailProperties
  <2>3. head(b).blk = bankRecorder[b].addrTag
    BY <1>4 DEF HeadsOK
  <2>4. bankRecorder[b].hasRegisteredCoalescer \in BOOLEAN
    BY <1>4, <1>5 DEF RecorderEntry
  <2> HIDE DEF head
  <2>5. /\ req(b) \in MemReq /\ req(b).lse = head(b).lse /\ req(b).slot = head(b).slot
        /\ req(b).blk = head(b).blk
        /\ req(b).coalesced = bankRecorder[b].hasRegisteredCoalescer
    BY <2>2, <2>4 DEF MemReq
  <2> QED BY <1>4, <2>1, <2>2, <2>3, <2>5
<1>7. \A b \in Banks : bankRecorder'[b].reqQueue = <<>>
  <2> SUFFICES ASSUME NEW b \in Banks PROVE bankRecorder'[b].reqQueue = <<>>
    OBVIOUS
  <2>1. bankRecorder'[b] = IF b \in Recorded THEN EmptyEntry ELSE bankRecorder[b]
    BY DEF addTransaction
  <2>2. b \notin Recorded => bankRecorder[b].reqQueue = <<>>
    BY <1>1, <1>4 DEF RecorderOK
  <2> QED BY <2>1, <2>2 DEF EmptyEntry
<1>8. \A b \in Banks : Rec'[b] = <<>>
  BY <1>7 DEF Rec
<1>9. \A b \in Banks : b \notin B => Rec[b] = <<>>
  <2> SUFFICES ASSUME NEW b \in Banks, b \notin B PROVE Rec[b] = <<>>
    OBVIOUS
  <2>1. CASE b \in Registered
    BY <1>2, <2>1 DEF Rec
  <2>2. CASE b \notin Recorded
    <3>1. bankRecorder[b].reqQueue = <<>>
      BY <1>1, <1>4, <2>2 DEF RecorderOK
    <3> QED BY <3>1 DEF Rec
  <2> QED BY <2>1, <2>2
<1>10. ASSUME NEW b \in B PROVE Appended(Rec'[b], e[b], Rec[b])
  <2>1. Rec[b] = bankRecorder[b].reqQueue
    BY <1>2, <1>4 DEF Rec
  <2>2. Len(bankRecorder[b].reqQueue) = 1
    BY <1>4 DEF HeadsOK
  <2>3. Rec'[b] = <<>>
    BY <1>4, <1>8
  <2>4. bankRecorder[b].reqQueue \in Seq(MemReq)
    BY <1>4, <1>5
  <2>5. bankRecorder[b].reqQueue[1] = head(b)
    BY <2>2, <2>4
  <2>6. Len(<<>>) = 0
    OBVIOUS
  <2>7. e[b] = head(b)
    OBVIOUS
  <2> HIDE DEF e, head
  <2> QED BY <2>1, <2>2, <2>3, <2>5, <2>6, <2>7 DEF Appended
<1>11. AppendedAll(Banks, MemReq, Rec', Rec, B, e)
  <2>1. B \in SUBSET Banks /\ e \in [B -> MemReq]
    BY <1>4, <1>6
  <2> HIDE DEF e, B
  <2> QED BY <1>3, <1>8, <1>9, <1>10, <2>1 DEF AppendedAll
<1>12. AppendedAll(Banks, MemReq, reqQueue, reqQueue', Recorded, f)
  <2>1. f \in [Recorded -> MemReq]
    BY <1>6
  <2>2. ASSUME NEW b \in Recorded PROVE Appended(reqQueue[b], f[b], reqQueue'[b])
    <3>1. reqQueue'[b] = Append(reqQueue[b], f[b])
      BY <1>4 DEF addTransaction
    <3>2. reqQueue[b] \in Seq(MemReq) /\ f[b] \in MemReq
      BY <1>1, <1>4, <2>1 DEF TypeOK, QueuesOK
    <3> HIDE DEF f
    <3> QED BY <3>1, <3>2, AppendIs
  <2>3. \A b \in Banks : b \notin Recorded => reqQueue'[b] = reqQueue[b]
    BY DEF addTransaction
  <2> HIDE DEF f
  <2> QED BY <1>3, <1>4, <2>1, <2>2, <2>3 DEF AppendedAll
<1>13. \A M : InAck(M)' = InAck(M) /\ InCacheBox(M)' = InCacheBox(M)
  BY QuietCounts DEF addTransaction
<1>14. ASSUME NEW M PROVE /\ InRec(M)' \in Nat /\ InReq(M) \in Nat
                         /\ InAck(M) \in Nat /\ InCacheBox(M) \in Nat
  <2>1. InRec(M)' \in Nat
    BY <1>3, FamilyHits DEF InRec
  <2> QED BY <1>1, <2>1, CountsNat
<1>15. ASSUME NEW l \in Lses, NEW s \in Slots
       PROVE  InRec(Owned(l, s))' + Below(Single(l, s))' =
                  InRec(Owned(l, s)) + Below(Single(l, s))
  <2> DEFINE A == {b \in B : Is(head(b), l, s)}
  <2>1. Chosen(A, B, e, Owned(l, s))
    BY <1>4, <1>6 DEF Chosen, Owned
  <2>2. Chosen(A, Recorded, f, Single(l, s))
    <3>1. A \in SUBSET Recorded
      OBVIOUS
    <3>2. ASSUME NEW b \in Recorded PROVE b \in A <=> f[b] \in Single(l, s)
      <4>1. f[b] = req(b)
        OBVIOUS
      <4>2. b \in A <=> b \notin Registered /\ Is(head(b), l, s)
        OBVIOUS
      <4>3. req(b) \in Single(l, s) <=> b \notin Registered /\ Is(head(b), l, s)
        <5> HIDE DEF req, head
        <5> QED BY <1>6 DEF Single, Alone, Is
      <4> QED BY <4>1, <4>2, <4>3, Zenon
    <3> HIDE DEF A, f
    <3> QED BY <3>1, <3>2 DEF Chosen
  <2> HIDE DEF A, e, f, B, head, req
  <2>3. /\ Cardinality(Hits("recorder", Rec, Owned(l, s))) =
              Cardinality(Hits("recorder", Rec', Owned(l, s))) + Cardinality(A)
        /\ Cardinality(A) \in Nat
    BY <1>11, <2>1, HitsAppendAll
  <2>4. Cardinality(Hits("reqQueue", reqQueue', Single(l, s))) =
            Cardinality(Hits("reqQueue", reqQueue, Single(l, s))) + Cardinality(A)
    BY <1>12, <2>2, HitsAppendAll
  <2>5. /\ InRec(Owned(l, s)) = InRec(Owned(l, s))' + Cardinality(A)
        /\ InReq(Single(l, s))' = InReq(Single(l, s)) + Cardinality(A)
    BY <2>3, <2>4 DEF InRec, InReq
  <2>6. /\ InRec(Owned(l, s))' \in Nat /\ InReq(Single(l, s)) \in Nat
        /\ InAck(Single(l, s)) \in Nat /\ InCacheBox(Single(l, s)) \in Nat
    BY <1>14
  <2>7. InAck(Single(l, s))' = InAck(Single(l, s)) /\ InCacheBox(Single(l, s))' = InCacheBox(Single(l, s))
    BY <1>13
  <2> QED BY <2>3, <2>5, <2>6, <2>7 DEF Below
<1>16. ASSUME NEW blk \in Blocks
       PROVE  /\ Below(Standing(blk))' = Below(Standing(blk)) + Cardinality(Handed(blk))
              /\ Cardinality(Handed(blk)') = 0
  <2>1. Chosen(Handed(blk), Recorded, f, Standing(blk))
    <3>1. Handed(blk) \in SUBSET Recorded
      BY <1>2, <1>4 DEF Handed
    <3>2. ASSUME NEW b \in Recorded PROVE b \in Handed(blk) <=> f[b] \in Standing(blk)
      <4>1. f[b] = req(b)
        OBVIOUS
      <4>2. b \in Handed(blk) <=> b \in Registered /\ bankRecorder[b].addrTag = blk
        BY <1>2 DEF Handed
      <4>3. req(b) \in Standing(blk) <=> b \in Registered /\ bankRecorder[b].addrTag = blk
        <5> HIDE DEF req, head
        <5> QED BY <1>6 DEF Standing
      <4> QED BY <4>1, <4>2, <4>3, Zenon
    <3> HIDE DEF f
    <3> QED BY <3>1, <3>2 DEF Chosen
  <2> HIDE DEF e, f, B, head, req
  <2>2. /\ Cardinality(Hits("reqQueue", reqQueue', Standing(blk))) =
              Cardinality(Hits("reqQueue", reqQueue, Standing(blk))) + Cardinality(Handed(blk))
        /\ Cardinality(Handed(blk)) \in Nat
    BY <1>12, <2>1, HitsAppendAll
  <2>3. InReq(Standing(blk))' = InReq(Standing(blk)) + Cardinality(Handed(blk))
    BY <2>2 DEF InReq
  <2>4. /\ InReq(Standing(blk)) \in Nat
        /\ InAck(Standing(blk)) \in Nat /\ InCacheBox(Standing(blk)) \in Nat
    BY <1>14
  <2>5. InAck(Standing(blk))' = InAck(Standing(blk)) /\ InCacheBox(Standing(blk))' = InCacheBox(Standing(blk))
    BY <1>13
  <2>6. Below(Standing(blk))' = Below(Standing(blk)) + Cardinality(Handed(blk))
    BY <2>2, <2>3, <2>4, <2>5 DEF Below
  <2>7. Handed(blk)' = {}
    BY <1>2 DEF Handed
  <2> QED BY <2>6, <2>7, FS_EmptySet, Zenon
<1> QED BY <1>15, <1>16

-----------------------------------------------------------------------------
(***************************************************************************)
(* The invariant is kept.                                                  *)
(***************************************************************************)
\* Only the two loops of the handover move recorder entries.
LEMMA QuietStep ==
    ASSUME IInv, TypeOK', [Next]_vars, ~send2Coalescer, ~addTransaction
    PROVE  /\ Sent' = Sent /\ (UNCHANGED bankRecorder => Rec' = Rec)
           /\ \A blk : Handed(blk)' = Handed(blk)
<1>1. CASE UNCHANGED vars
  <2>1. Sent' = Sent /\ UNCHANGED bankRecorder
    BY <1>1 DEF vars, control, Sent, Unsent, Registered, Recorded
  <2> QED BY <2>1, QuietRec DEF Handed
<1>2. CASE Next
  <2>1. ~Handover /\ (~Handover' \/ (phase' = "send2Coalescer" /\ i' = 0))
    <3>1. CASE \/ \E l \in Lses, blk \in Blocks : LseIssue(l, blk)
               \/ \E l \in Lses : LsePop(l)
               \/ \E advance \in BOOLEAN : BeginUpdate(advance)
      BY <3>1 DEF LseIssue, LsePop, BeginUpdate, control, Handover
    <3>2. CASE SkipEmptyBank \/ AckSingle
      BY <3>2 DEF SkipEmptyBank, AckSingle, NextAckBank, StartCollect, Handover
    <3>3. CASE AckCoalesced
      BY <3>3 DEF AckCoalesced, AckEntry, AnswerWaiting, LeaveEntry, NextAckBank,
                  StartCollect, control, Handover
    <3>4. CASE GetFromCache \/ send2Cache
      BY <3>4 DEF GetFromCache, send2Cache, StartCollect, Handover
    <3>5. CASE Collect \/ CollectNothing
      BY <3>5 DEF Collect, CollectNothing, NextLse, Handover
    <3> QED BY <1>2, <3>1, <3>2, <3>3, <3>4, <3>5 DEF Next, UpdateStep
  <2>2. Sent = {} /\ Sent' = {}
    BY <2>1, QuietSent DEF IInv
  <2>3. \A blk : Handed(blk) = {} /\ Handed(blk)' = {}
    BY <2>2 DEF Handed
  <2> QED BY <2>2, <2>3, QuietRec
<1> QED BY <1>1, <1>2

\* A step that leaves the requests where they are, or moves them.
LEMMA OnceMoved ==
    ASSUME OnceOK, \A l \in Lses, s \in Slots : Held(l, s)' = Held(l, s),
           \A l \in Lses, s \in Slots :
               status'[l][s] = "inflight" <=> status[l][s] = "inflight"
    PROVE  OnceOK'
BY DEF OnceOK

\* How often a request is held is a number.
LEMMA HeldNat ==
    ASSUME TypeOK, NEW l, NEW s PROVE Held(l, s) \in Nat
<1>1. /\ InRec(Owned(l, s)) \in Nat /\ InCoal(Owned(l, s)) \in Nat
      /\ InReq(Single(l, s)) \in Nat /\ InAck(Single(l, s)) \in Nat
      /\ InCacheBox(Single(l, s)) \in Nat
  BY CountsNat
<1> QED BY <1>1 DEF Held, Below

HeldIsNat == \A l \in Lses, s \in Slots : Held(l, s) \in Nat

\* The same of the next state.
LEMMA HeldNatNext == TypeOK' => HeldIsNat'
<1>1. TypeOK => HeldIsNat
  BY HeldNat DEF HeldIsNat
<1> QED BY <1>1, PTL

\* The slot named by a request.
LEMMA SlotOfReq ==
    ASSUME NEW req \in MemReq PROVE req.lse \in Lses /\ req.slot \in Slots
BY DEF MemReq

\* An answered request was in flight, and is nowhere any more.
LEMMA OnceAnswered ==
    ASSUME IInv, OnceOK, TypeOK', NEW req \in MemReq, ackCallback(req),
           \A l \in Lses, s \in Slots :
               Held(l, s) = Held(l, s)' + IF Is(req, l, s) THEN 1 ELSE 0
    PROVE  OnceOK' /\ status[req.lse][req.slot] = "inflight"
<1>1. req.lse \in Lses /\ req.slot \in Slots
  BY SlotOfReq
<1>2. status \in [Lses -> [Slots -> {"free", "suspended", "inflight", "ready"}]]
  BY DEF IInv, TypeOK, LseOK
<1>3. \A l \in Lses, s \in Slots : Held(l, s)' \in Nat
  BY HeldNatNext DEF HeldIsNat
<1>4. ASSUME NEW l \in Lses, NEW s \in Slots
      PROVE  status'[l][s] = IF Is(req, l, s) THEN "ready" ELSE status[l][s]
  BY <1>1, <1>2 DEF ackCallback, Is
<1>5. ASSUME NEW l \in Lses, NEW s \in Slots, Is(req, l, s)
      PROVE  status[l][s] = "inflight" /\ Held(l, s)' = 0
  BY <1>3, <1>5 DEF OnceOK
<1>6. ASSUME NEW l \in Lses, NEW s \in Slots
      PROVE  Held(l, s)' = IF status'[l][s] = "inflight" THEN 1 ELSE 0
  <2>1. CASE Is(req, l, s)
    BY <1>4, <1>5, <2>1
  <2>2. CASE ~Is(req, l, s)
    BY <1>3, <1>4, <2>2 DEF OnceOK
  <2> QED BY <2>1, <2>2
<1>7. Is(req, req.lse, req.slot)
  BY DEF Is
<1> QED BY <1>1, <1>5, <1>6, <1>7 DEF OnceOK

\* A sent request was suspended, so it was nowhere, and is in one place now.
LEMMA OnceSent ==
    ASSUME IInv, OnceOK, OfferOK, NEW l1 \in Lses, NEW req \in MemReq,
           suspendReq[l1] = req, setInflight(req),
           \A l \in Lses, s \in Slots :
               Held(l, s)' = Held(l, s) + IF Is(req, l, s) THEN 1 ELSE 0
    PROVE  OnceOK'
<1>1. req.lse = l1 /\ req.slot \in Slots /\ status[l1][req.slot] = "suspended"
  <2>1. req # NoReq
    BY MemSystemAssumption
  <2> QED BY <2>1, SlotOfReq DEF OfferOK
<1>2. status \in [Lses -> [Slots -> {"free", "suspended", "inflight", "ready"}]]
  BY DEF IInv, TypeOK, LseOK
<1>3. ASSUME NEW l \in Lses, NEW s \in Slots
      PROVE  status'[l][s] = IF Is(req, l, s) THEN "inflight" ELSE status[l][s]
  BY <1>1, <1>2 DEF setInflight, Is
<1>4. ASSUME NEW l \in Lses, NEW s \in Slots
      PROVE  Held(l, s)' = IF status'[l][s] = "inflight" THEN 1 ELSE 0
  <2>1. Held(l, s) \in Nat
    BY HeldNat DEF IInv
  <2>2. CASE Is(req, l, s)
    <3>1. Held(l, s) = 0
      BY <1>1, <2>2 DEF OnceOK, Is
    <3> QED BY <1>3, <2>2, <3>1
  <2>3. CASE ~Is(req, l, s)
    BY <1>3, <2>1, <2>3 DEF OnceOK
  <2> QED BY <2>2, <2>3
<1> QED BY <1>4 DEF OnceOK

\* Membership of the sets that are counted.
LEMMA Matches ==
    ASSUME NEW req \in MemReq, NEW l, NEW s, NEW blk
    PROVE  /\ req \in Owned(l, s) <=> Is(req, l, s)
           /\ req \in Single(l, s) <=> Is(req, l, s) /\ ~req.coalesced
           /\ req \in Standing(blk) <=> req.coalesced /\ req.blk = blk
BY DEF Owned, Single, Alone, Standing

\* What sendBack2Lse does at one acknowledge queue: it answers one request,
\* which is then nowhere, or none.  The coalescer loses an entry with the
\* transaction that stood for it.
LEMMA AckEffects ==
    ASSUME IInv, TypeOK', [Next]_vars, AckSingle \/ AckCoalesced
    PROVE  /\ \/ /\ UNCHANGED lseVars
                 /\ \A l \in Lses, s \in Slots : Held(l, s)' = Held(l, s)
              \/ \E req \in MemReq :
                    /\ ackCallback(req)
                    /\ \A l \in Lses, s \in Slots :
                          Held(l, s) = Held(l, s)' + IF Is(req, l, s) THEN 1 ELSE 0
           /\ \A blk \in Blocks : \E d \in {0, 1} :
                 /\ Count(coalescerTable, EntryFor(blk)) = Count(coalescerTable, EntryFor(blk))' + d
                 /\ Below(Standing(blk)) = Below(Standing(blk))' + d
<1> DEFINE h == Head(ackQueue[ptr])
<1>1. TypeOK /\ ptr \in Banks /\ ackQueue[ptr] # <<>>
  BY DEF AckSingle, AckCoalesced, IInv, TypeOK, ControlOK
<1>2. ~send2Coalescer /\ ~addTransaction /\ UNCHANGED <<bankRecorder, reqQueue, inCache>>
  BY DEF AckSingle, AckCoalesced, send2Coalescer, addTransaction
<1>3. Rec' = Rec
  BY <1>2, QuietStep
<1>4. \A M : InRec(M)' = InRec(M) /\ InReq(M)' = InReq(M) /\ InCacheBox(M)' = InCacheBox(M)
  BY <1>2, <1>3, QuietCounts
<1>5. \A M : /\ InRec(M) \in Nat /\ InCoal(M) \in Nat
             /\ InReq(M) \in Nat /\ InAck(M) \in Nat /\ InCacheBox(M) \in Nat
  BY <1>1, CountsNat
<1>6. \A M : InCoal(M)' \in Nat /\ InAck(M)' \in Nat
  <2>1. Family(1 .. Len(coalescerTable'), MemReq, Coal') /\ Family(Banks, MemReq, ackQueue')
    BY FamiliesNext DEF FamilyShape
  <2> QED BY <2>1, FamilyHits DEF InCoal, InAck
<1>7. PopAck => /\ h \in MemReq
               /\ \A M : InAck(M) = InAck(M)' + IF h \in M THEN 1 ELSE 0
  BY <1>1, PopAckCounts
<1>8. UNCHANGED ackQueue => \A M : InAck(M)' = InAck(M)
  BY QuietCounts
<1>9. UNCHANGED coalescerTable =>
          /\ \A M : InCoal(M)' = InCoal(M)
          /\ \A blk : Count(coalescerTable, EntryFor(blk))' = Count(coalescerTable, EntryFor(blk))
  BY QuietCounts DEF Count
<1>10. \A blk : Count(coalescerTable, EntryFor(blk)) \in Nat /\ Count(coalescerTable, EntryFor(blk))' \in Nat
  <2>1. coalescerTable \in Seq(CoalescerEntry) /\ coalescerTable' \in Seq(CoalescerEntry)
    BY <1>1 DEF TypeOK, QueuesOK
  <2>2. \A blk : Count(coalescerTable, EntryFor(blk)) \in Nat /\ Count(coalescerTable', EntryFor(blk)) \in Nat
    BY <2>1, HitsOne
  <2> QED BY <2>2
<1> HIDE DEF h
\* nothing answered, nothing popped
<1>11. ASSUME UNCHANGED <<coalescerTable, ackQueue>>
       PROVE  /\ \A l \in Lses, s \in Slots : Held(l, s)' = Held(l, s)
              /\ \A blk \in Blocks :
                    /\ Count(coalescerTable, EntryFor(blk)) = Count(coalescerTable, EntryFor(blk))' + 0
                    /\ Below(Standing(blk)) = Below(Standing(blk))' + 0
  <2>1. \A M : InCoal(M)' = InCoal(M) /\ InAck(M)' = InAck(M)
    BY <1>8, <1>9, <1>11
  <2>2. \A l \in Lses, s \in Slots : Held(l, s)' = Held(l, s)
    BY <1>4, <2>1 DEF Held, Below
  <2>3. \A blk : Below(Standing(blk)) = Below(Standing(blk))' + 0
    BY <1>4, <1>5, <2>1 DEF Below
  <2>4. \A blk : Count(coalescerTable, EntryFor(blk)) = Count(coalescerTable, EntryFor(blk))' + 0
    BY <1>9, <1>10, <1>11
  <2> QED BY <2>2, <2>3, <2>4
<1>12. CASE AckSingle
  <2>1. UNCHANGED coalescerTable /\ ~h.coalesced
    BY <1>12 DEF AckSingle, coalVars, h
  <2>2. CASE UNCHANGED <<lseVars, ackQueue>>
    BY <1>11, <2>1, <2>2
  <2>3. CASE ackCallback(h) /\ PopAck
    <3>1. h \in MemReq
      BY <1>7, <2>3
    <3>2. ASSUME NEW l \in Lses, NEW s \in Slots
          PROVE  Held(l, s) = Held(l, s)' + IF Is(h, l, s) THEN 1 ELSE 0
      <4>1. InAck(Single(l, s)) = InAck(Single(l, s))' + IF Is(h, l, s) THEN 1 ELSE 0
        BY <1>7, <2>1, <2>3, <3>1, Matches
      <4>2. InCoal(Owned(l, s))' = InCoal(Owned(l, s))
        BY <1>9, <2>1
      <4> QED BY <1>4, <1>5, <1>6, <4>1, <4>2 DEF Held, Below
    <3>3. ASSUME NEW blk \in Blocks
          PROVE  /\ Count(coalescerTable, EntryFor(blk)) = Count(coalescerTable, EntryFor(blk))' + 0
                 /\ Below(Standing(blk)) = Below(Standing(blk))' + 0
      <4>1. InAck(Standing(blk)) = InAck(Standing(blk))' + 0
        BY <1>7, <2>1, <2>3, <3>1, Matches
      <4>2. Below(Standing(blk)) = Below(Standing(blk))' + 0
        BY <1>4, <1>5, <1>6, <4>1 DEF Below
      <4> QED BY <1>9, <1>10, <2>1, <4>2
    <3> QED BY <2>3, <3>1, <3>2, <3>3
  <2> QED BY <1>12, <2>2, <2>3 DEF AckSingle, h
<1>13. CASE AckCoalesced
  <2>1. PICK e \in DOMAIN coalescerTable : searchCoalescer(h.blk, e) /\ AckEntry(e)
    BY <1>13 DEF AckCoalesced, h
  <2>2. h.coalesced
    BY <1>13 DEF AckCoalesced, h
  <2>3. ASSUME NEW k \in Unserved(e), AnswerWaiting(e, k)
        PROVE  \E req \in MemReq :
                  /\ ackCallback(req)
                  /\ \A l \in Lses, s \in Slots :
                        Held(l, s) = Held(l, s)' + IF Is(req, l, s) THEN 1 ELSE 0
                  /\ \A blk \in Blocks :
                        /\ Count(coalescerTable, EntryFor(blk)) = Count(coalescerTable, EntryFor(blk))' + 0
                        /\ Below(Standing(blk)) = Below(Standing(blk))' + 0
    <3>1. /\ k \in DOMAIN Waiting(e) /\ UNCHANGED ackQueue /\ ackCallback(Waiting(e)[k])
          /\ coalescerTable' = [coalescerTable EXCEPT ![e].coalescerQueue = Drop(@, k)]
      BY <2>3 DEF AnswerWaiting, Unserved
    <3>2. PICK req \in MemReq : req = Waiting(e)[k]
      BY <1>1, <3>1, AnswerWaitingCounts
    <3>3. /\ \A M : InCoal(M) = InCoal(M)' + IF req \in M THEN 1 ELSE 0
          /\ \A blk : Count(coalescerTable, EntryFor(blk))' = Count(coalescerTable, EntryFor(blk))
      BY <1>1, <3>1, <3>2, AnswerWaitingCounts
    <3>4. ASSUME NEW l \in Lses, NEW s \in Slots
          PROVE  Held(l, s) = Held(l, s)' + IF Is(req, l, s) THEN 1 ELSE 0
      <4>1. InCoal(Owned(l, s)) = InCoal(Owned(l, s))' + IF Is(req, l, s) THEN 1 ELSE 0
        BY <3>3, Matches
      <4>2. InAck(Single(l, s))' = InAck(Single(l, s))
        BY <1>8, <3>1
      <4> QED BY <1>4, <1>5, <1>6, <4>1, <4>2 DEF Held, Below
    <3>5. ASSUME NEW blk \in Blocks
          PROVE  /\ Count(coalescerTable, EntryFor(blk)) = Count(coalescerTable, EntryFor(blk))' + 0
                 /\ Below(Standing(blk)) = Below(Standing(blk))' + 0
      <4>1. Count(coalescerTable, EntryFor(blk)) = Count(coalescerTable, EntryFor(blk))' + 0
        BY <1>10, <3>3
      <4>2. InAck(Standing(blk))' = InAck(Standing(blk))
        BY <1>8, <3>1
      <4>3. Below(Standing(blk)) = Below(Standing(blk))' + 0
        BY <1>4, <1>5, <4>2 DEF Below
      <4> QED BY <4>1, <4>3
    <3> QED BY <3>1, <3>2, <3>4, <3>5
  <2>4. ASSUME LeaveEntry(e), UNCHANGED <<coalescerTable, ackQueue>>
        PROVE  /\ UNCHANGED lseVars
               /\ \A l \in Lses, s \in Slots : Held(l, s)' = Held(l, s)
               /\ \A blk \in Blocks :
                    /\ Count(coalescerTable, EntryFor(blk)) = Count(coalescerTable, EntryFor(blk))' + 0
                    /\ Below(Standing(blk)) = Below(Standing(blk))' + 0
    BY <1>11, <2>4 DEF LeaveEntry
  <2>5. ASSUME LeaveEntry(e), Waiting(e) = <<>>, popCoalescerEntry(e), PopAck
        PROVE  /\ UNCHANGED lseVars
               /\ \A l \in Lses, s \in Slots : Held(l, s)' = Held(l, s)
               /\ \A blk \in Blocks : \E d \in {0, 1} :
                    /\ Count(coalescerTable, EntryFor(blk)) = Count(coalescerTable, EntryFor(blk))' + d
                    /\ Below(Standing(blk)) = Below(Standing(blk))' + d
    <3>1. /\ \A M : InCoal(M)' = InCoal(M)
          /\ \A blk : Count(coalescerTable, EntryFor(blk)) =
                 Count(coalescerTable, EntryFor(blk))'
                 + IF coalescerTable[e].blockAddr = blk THEN 1 ELSE 0
      BY <1>1, <2>5, popCoalescerEntryCounts
    <3>2. h \in MemReq /\ \A M : InAck(M) = InAck(M)' + IF h \in M THEN 1 ELSE 0
      BY <1>7, <2>5
    <3>3. ASSUME NEW l \in Lses, NEW s \in Slots
          PROVE  Held(l, s)' = Held(l, s)
      <4>1. h \notin Single(l, s)
        BY <2>2, <3>2, Matches
      <4>2. InAck(Single(l, s)) = InAck(Single(l, s))' + 0
        BY <3>2, <4>1
      <4>3. InAck(Single(l, s)) = InAck(Single(l, s))'
        BY <1>6, <4>2
      <4> QED BY <1>4, <3>1, <4>3 DEF Held, Below
    <3>4. ASSUME NEW blk \in Blocks
          PROVE  \E d \in {0, 1} :
                    /\ Count(coalescerTable, EntryFor(blk)) = Count(coalescerTable, EntryFor(blk))' + d
                    /\ Below(Standing(blk)) = Below(Standing(blk))' + d
      <4>1. PICK d \in {0, 1} : d = IF h.blk = blk THEN 1 ELSE 0
        OBVIOUS
      <4>2. coalescerTable[e].blockAddr = h.blk
        BY <2>1 DEF searchCoalescer
      <4>3. Count(coalescerTable, EntryFor(blk)) = Count(coalescerTable, EntryFor(blk))' + d
        BY <3>1, <4>1, <4>2, Zenon
      <4>4. h \in Standing(blk) <=> h.blk = blk
        BY <2>2, <3>2, Matches
      <4>5. InAck(Standing(blk)) = InAck(Standing(blk))' + d
        BY <3>2, <4>1, <4>4, Zenon
      <4>6. Below(Standing(blk)) = Below(Standing(blk))' + d
        BY <1>4, <1>5, <1>6, <4>1, <4>5 DEF Below
      <4> QED BY <4>3, <4>6
    <3> QED BY <2>5, <3>3, <3>4 DEF LeaveEntry
  <2> QED BY <2>1, <2>3, <2>4, <2>5 DEF AckEntry, LeaveEntry
<1> QED BY <1>12, <1>13

\* Steps that touch neither the queues nor what is in flight.
LEMMA HeldQuiet ==
    ASSUME Rec' = Rec, UNCHANGED <<coalescerTable, reqQueue, ackQueue, inCache>>
    PROVE  \A l \in Lses, s \in Slots : Held(l, s)' = Held(l, s)
<1>1. \A M : /\ InRec(M)' = InRec(M) /\ InCoal(M)' = InCoal(M) /\ InReq(M)' = InReq(M)
             /\ InAck(M)' = InAck(M) /\ InCacheBox(M)' = InCacheBox(M)
  BY QuietCounts
<1> QED BY <1>1 DEF Held, Below

\* A step that touches none of the queues is not one of the loops that empty
\* the recorder.
LEMMA QuietRound ==
    ASSUME IInv, \/ UNCHANGED vars \/ SkipEmptyBank \/ CollectNothing
                 \/ \E advance \in BOOLEAN : BeginUpdate(advance)
    PROVE  ~send2Coalescer /\ ~addTransaction
<1>1. CASE UNCHANGED vars
  <2>1. i \in Nat /\ UNCHANGED <<phase, i>>
    BY <1>1 DEF IInv, TypeOK, ControlOK, vars, control
  <2>2. ~addTransaction
    BY <2>1 DEF addTransaction
  <2>3. ~send2Coalescer
    BY <2>1 DEF send2Coalescer
  <2> QED BY <2>2, <2>3
<1>2. CASE SkipEmptyBank \/ CollectNothing \/ \E advance \in BOOLEAN : BeginUpdate(advance)
  BY <1>2 DEF SkipEmptyBank, CollectNothing, BeginUpdate, send2Coalescer, addTransaction
<1> QED BY <1>1, <1>2

\* No step loses a request or doubles one.
LEMMA OnceStep ==
    IInv /\ OnceOK /\ OfferOK /\ HeadsOK /\ TypeOK' /\ [Next]_vars => OnceOK'
<1> SUFFICES ASSUME IInv, OnceOK, OfferOK, HeadsOK, TypeOK', [Next]_vars PROVE OnceOK'
  OBVIOUS
<1>1. status \in [Lses -> [Slots -> {"free", "suspended", "inflight", "ready"}]]
  BY DEF IInv, TypeOK, LseOK
<1>2. UNCHANGED status => \A l \in Lses, s \in Slots :
          status'[l][s] = "inflight" <=> status[l][s] = "inflight"
  OBVIOUS
<1>3. CASE \/ UNCHANGED vars \/ SkipEmptyBank \/ CollectNothing
           \/ \E advance \in BOOLEAN : BeginUpdate(advance)
  <2>1. UNCHANGED <<status, bankRecorder, coalescerTable, reqQueue, ackQueue, inCache>>
    BY <1>3 DEF vars, lseVars, coalVars, SkipEmptyBank, CollectNothing, BeginUpdate
  <2>2. Rec' = Rec
    BY <1>3, <2>1, QuietRound, QuietStep
  <2> QED BY <1>2, <2>1, <2>2, HeldQuiet, OnceMoved
<1>4. CASE \/ \E l \in Lses, blk \in Blocks : LseIssue(l, blk)
           \/ \E l \in Lses : LsePop(l)
  <2>1. /\ UNCHANGED <<bankRecorder, coalescerTable, reqQueue, ackQueue, inCache>>
        /\ ~send2Coalescer /\ ~addTransaction
    BY <1>4 DEF coalVars, LseIssue, LsePop, send2Coalescer, addTransaction
  <2>2. \A l \in Lses : pushPtr[l] \in Slots /\ popPtr[l] \in Slots
    BY DEF IInv, TypeOK, LseOK
  <2>3. ASSUME NEW m \in Lses, NEW t \in Slots, NEW st \in {"suspended", "free"},
               status[m][t] \in {"free", "ready"},
               status' = [status EXCEPT ![m][t] = st],
               NEW l \in Lses, NEW s \in Slots
        PROVE  status'[l][s] = "inflight" <=> status[l][s] = "inflight"
    <3>1. status'[l][s] = IF l = m /\ s = t THEN st ELSE status[l][s]
      BY <1>1, <2>3
    <3> QED BY <2>3, <3>1
  <2>4. ASSUME NEW l \in Lses, NEW s \in Slots
        PROVE  status'[l][s] = "inflight" <=> status[l][s] = "inflight"
    <3>1. CASE \E m \in Lses, blk \in Blocks : LseIssue(m, blk)
      <4>1. PICK m \in Lses, blk \in Blocks : LseIssue(m, blk)
        BY <3>1
      <4>2. /\ status[m][pushPtr[m]] = "free"
            /\ status' = [status EXCEPT ![m][pushPtr[m]] = "suspended"]
        BY <4>1 DEF LseIssue
      <4> QED BY <2>2, <2>3, <4>2
    <3>2. CASE \E m \in Lses : LsePop(m)
      <4>1. PICK m \in Lses : LsePop(m)
        BY <3>2
      <4>2. /\ status[m][popPtr[m]] = "ready"
            /\ status' = [status EXCEPT ![m][popPtr[m]] = "free"]
        BY <4>1 DEF LsePop
      <4> QED BY <2>2, <2>3, <4>2
    <3> QED BY <1>4, <3>1, <3>2
  <2>5. Rec' = Rec
    BY <2>1, QuietStep
  <2> QED BY <2>1, <2>4, <2>5, HeldQuiet, OnceMoved
<1>5. CASE AckSingle \/ AckCoalesced
  <2>1. CASE UNCHANGED lseVars /\ \A l \in Lses, s \in Slots : Held(l, s)' = Held(l, s)
    BY <1>2, <2>1, OnceMoved DEF lseVars
  <2>2. CASE \E req \in MemReq :
                /\ ackCallback(req)
                /\ \A l \in Lses, s \in Slots :
                      Held(l, s) = Held(l, s)' + IF Is(req, l, s) THEN 1 ELSE 0
    BY <2>2, OnceAnswered
  <2> QED BY <1>5, <2>1, <2>2, AckEffects
<1>6. CASE GetFromCache \/ send2Cache
  <2>1. /\ UNCHANGED <<bankRecorder, coalescerTable, status>>
        /\ ~send2Coalescer /\ ~addTransaction
    BY <1>6 DEF GetFromCache, send2Cache, lseVars, coalVars, send2Coalescer, addTransaction
  <2>2. Rec' = Rec
    BY <2>1, QuietStep
  <2>3. \A M : Below(M)' = Below(M) /\ InRec(M)' = InRec(M) /\ InCoal(M)' = InCoal(M)
    <3>1. \A M : Below(M)' = Below(M)
      BY <1>6, GetFromCacheCounts, send2CacheCounts DEF IInv
    <3> QED BY <2>1, <2>2, <3>1, QuietCounts
  <2>4. \A l \in Lses, s \in Slots : Held(l, s)' = Held(l, s)
    BY <2>3 DEF Held
  <2> QED BY <1>2, <2>1, <2>4, OnceMoved
<1>7. CASE Collect
  <2>1. PICK req \in MemReq : /\ req = suspendReq[ptr] /\ ptr \in Lses
                              /\ \/ UNCHANGED lseVars /\ Rec' = Rec
                                 \/ /\ setInflight(req)
                                    /\ \E r \in MemReq :
                                         /\ r.lse = req.lse /\ r.slot = req.slot
                                         /\ \A M : InRec(M)' = InRec(M) + IF r \in M THEN 1 ELSE 0
    BY <1>7, CollectCounts
  <2>2. UNCHANGED <<coalescerTable, reqQueue, ackQueue, inCache>>
    BY <1>7 DEF Collect
  <2>3. CASE UNCHANGED lseVars /\ Rec' = Rec
    BY <1>2, <2>2, <2>3, HeldQuiet, OnceMoved DEF lseVars
  <2>4. CASE /\ setInflight(req)
             /\ \E r \in MemReq :
                  /\ r.lse = req.lse /\ r.slot = req.slot
                  /\ \A M : InRec(M)' = InRec(M) + IF r \in M THEN 1 ELSE 0
    <3>1. PICK r \in MemReq :
                  /\ r.lse = req.lse /\ r.slot = req.slot
                  /\ \A M : InRec(M)' = InRec(M) + IF r \in M THEN 1 ELSE 0
      BY <2>4
    <3>2. ASSUME NEW l \in Lses, NEW s \in Slots
          PROVE  Held(l, s)' = Held(l, s) + IF Is(req, l, s) THEN 1 ELSE 0
      <4>1. r \in Owned(l, s) <=> Is(req, l, s)
        BY <3>1, Matches DEF Is
      <4>2. InRec(Owned(l, s))' = InRec(Owned(l, s)) + IF Is(req, l, s) THEN 1 ELSE 0
        BY <3>1, <4>1
      <4>3. /\ InCoal(Owned(l, s))' = InCoal(Owned(l, s))
            /\ Below(Single(l, s))' = Below(Single(l, s))
        BY <2>2, QuietCounts DEF Below
      <4>4. /\ InRec(Owned(l, s)) \in Nat /\ InCoal(Owned(l, s)) \in Nat
            /\ Below(Single(l, s)) \in Nat
        BY CountsNat DEF IInv, Below
      <4> QED BY <4>2, <4>3, <4>4 DEF Held
    <3> QED BY <2>1, <2>4, <3>2, OnceSent
  <2> QED BY <2>1, <2>3, <2>4
<1>8. CASE send2Coalescer
  <2>1. UNCHANGED <<status, reqQueue, ackQueue, inCache>>
    BY <1>8 DEF send2Coalescer, lseVars
  <2>2. ASSUME NEW l \in Lses, NEW s \in Slots
        PROVE  Held(l, s)' = Held(l, s)
    <3>1. InRec(Owned(l, s))' + InCoal(Owned(l, s))' = InRec(Owned(l, s)) + InCoal(Owned(l, s))
      BY <1>8, send2CoalescerCounts
    <3>2. Below(Single(l, s))' = Below(Single(l, s))
      BY <2>1, QuietCounts DEF Below
    <3> QED BY <3>1, <3>2, Zenon DEF Held
  <2> QED BY <1>2, <2>1, <2>2, OnceMoved
<1>9. CASE addTransaction
  <2>1. UNCHANGED <<status, coalescerTable>>
    BY <1>9 DEF addTransaction, lseVars
  <2>2. ASSUME NEW l \in Lses, NEW s \in Slots
        PROVE  Held(l, s)' = Held(l, s)
    <3>1. InRec(Owned(l, s))' + Below(Single(l, s))' = InRec(Owned(l, s)) + Below(Single(l, s))
      BY <1>9, addTransactionCounts
    <3>2. InCoal(Owned(l, s))' = InCoal(Owned(l, s))
      BY <2>1, QuietCounts
    <3>3. /\ InRec(Owned(l, s)) \in Nat /\ InCoal(Owned(l, s)) \in Nat
          /\ Below(Single(l, s)) \in Nat
      BY CountsNat DEF IInv, Below
    <3>4. InRec(Owned(l, s))' \in Nat /\ Below(Single(l, s))' \in Nat
      <4>1. \A M : InRec(M)' \in Nat /\ InReq(M)' \in Nat /\ InAck(M)' \in Nat /\ InCacheBox(M)' \in Nat
        <5>1. /\ Family(Banks, MemReq, Rec') /\ Family(Banks, MemReq, reqQueue')
              /\ Family(Banks, MemReq, ackQueue') /\ Family(Banks, MemReq, inCache')
          BY FamiliesNext DEF FamilyShape
        <5> QED BY <5>1, FamilyHits DEF InRec, InReq, InAck, InCacheBox
      <4> QED BY <4>1 DEF Below
    <3> QED BY <3>1, <3>2, <3>3, <3>4 DEF Held
  <2> QED BY <1>2, <2>1, <2>2, OnceMoved
<1> QED BY <1>3, <1>4, <1>5, <1>6, <1>7, <1>8, <1>9 DEF Next, UpdateStep

\* What an Lse offers is a request of its own, in a slot that waits for it.
LEMMA OfferStep == IInv /\ OnceOK /\ OfferOK /\ TypeOK' /\ [Next]_vars => OfferOK'
<1> SUFFICES ASSUME IInv, OnceOK, OfferOK, TypeOK', [Next]_vars PROVE OfferOK'
  OBVIOUS
<1>1. /\ status \in [Lses -> [Slots -> {"free", "suspended", "inflight", "ready"}]]
      /\ suspendReq \in [Lses -> MemReq \cup {NoReq}]
      /\ pushPtr \in [Lses -> Slots] /\ popPtr \in [Lses -> Slots]
  BY DEF IInv, TypeOK, LseOK
<1>2. \A l \in Lses : suspendReq[l] # NoReq =>
          suspendReq[l] \in MemReq /\ suspendReq[l].slot \in Slots
  BY <1>1, SlotOfReq
\* a slot that was not suspended changes, and no offer
<1>3. ASSUME NEW m \in Lses, NEW t \in Slots, NEW st, status[m][t] # "suspended",
             status' = [status EXCEPT ![m][t] = st], UNCHANGED suspendReq
      PROVE  OfferOK'
  <2>1. ASSUME NEW l \in Lses, suspendReq[l] # NoReq
        PROVE  status'[l][suspendReq[l].slot] = "suspended"
    <3>1. status[l][suspendReq[l].slot] = "suspended"
      BY <2>1 DEF OfferOK
    <3>2. status'[l][suspendReq[l].slot] =
             IF l = m /\ suspendReq[l].slot = t THEN st ELSE status[l][suspendReq[l].slot]
      BY <1>1, <1>2, <1>3, <2>1
    <3> QED BY <1>3, <3>1, <3>2
  <2> QED BY <1>3, <2>1 DEF OfferOK
<1>4. CASE UNCHANGED <<status, suspendReq>>
  BY <1>4 DEF OfferOK
<1>5. CASE \E l \in Lses, blk \in Blocks : LseIssue(l, blk)
  <2>1. PICK m \in Lses, blk \in Blocks : LseIssue(m, blk)
    BY <1>5
  <2>2. /\ status[m][pushPtr[m]] = "free"
        /\ status' = [status EXCEPT ![m][pushPtr[m]] = "suspended"]
        /\ suspendReq' = [suspendReq EXCEPT ![m] =
               [lse |-> m, slot |-> pushPtr[m], blk |-> blk, coalesced |-> FALSE]]
    BY <2>1 DEF LseIssue
  <2>3. ASSUME NEW l \in Lses, suspendReq'[l] # NoReq
        PROVE  /\ suspendReq'[l].lse = l /\ ~suspendReq'[l].coalesced
               /\ status'[l][suspendReq'[l].slot] = "suspended"
    <3>1. CASE l = m
      BY <1>1, <2>2, <3>1
    <3>2. CASE l # m
      BY <1>1, <2>2, <2>3, <3>2 DEF OfferOK
    <3> QED BY <3>1, <3>2
  <2> QED BY <2>3 DEF OfferOK
<1>6. CASE \E l \in Lses : LsePop(l)
  <2>1. PICK m \in Lses : LsePop(m)
    BY <1>6
  <2>2. /\ status[m][popPtr[m]] = "ready" /\ popPtr[m] \in Slots
        /\ status' = [status EXCEPT ![m][popPtr[m]] = "free"] /\ UNCHANGED suspendReq
    BY <1>1, <2>1 DEF LsePop
  <2> QED BY <1>3, <2>2
<1>7. CASE AckSingle \/ AckCoalesced
  <2>1. CASE UNCHANGED lseVars
    BY <1>4, <2>1 DEF lseVars
  <2>2. CASE \E req \in MemReq :
                /\ ackCallback(req)
                /\ \A l \in Lses, s \in Slots :
                      Held(l, s) = Held(l, s)' + IF Is(req, l, s) THEN 1 ELSE 0
    <3>1. PICK req \in MemReq :
                /\ ackCallback(req)
                /\ \A l \in Lses, s \in Slots :
                      Held(l, s) = Held(l, s)' + IF Is(req, l, s) THEN 1 ELSE 0
      BY <2>2
    <3>2. status[req.lse][req.slot] = "inflight"
      BY <3>1, OnceAnswered
    <3>3. /\ status' = [status EXCEPT ![req.lse][req.slot] = "ready"] /\ UNCHANGED suspendReq
          /\ req.lse \in Lses /\ req.slot \in Slots
      BY <3>1, SlotOfReq DEF ackCallback
    <3> QED BY <1>3, <3>2, <3>3
  <2> QED BY <1>7, <2>1, <2>2, AckEffects
<1>8. CASE Collect
  <2>1. PICK req \in MemReq : /\ req = suspendReq[ptr] /\ ptr \in Lses
                              /\ UNCHANGED lseVars \/ setInflight(req)
    BY <1>8, CollectCounts
  <2>2. CASE UNCHANGED lseVars
    BY <1>4, <2>2 DEF lseVars
  <2>3. CASE setInflight(req)
    <3>1. req # NoReq /\ req.slot \in Slots
      BY MemSystemAssumption, SlotOfReq
    <3>2. req.lse = ptr
      BY <2>1, <3>1 DEF OfferOK
    <3>3. /\ status' = [status EXCEPT ![ptr][req.slot] = "inflight"]
          /\ suspendReq' = [suspendReq EXCEPT ![ptr] = NoReq]
      BY <2>3, <3>2 DEF setInflight
    <3>4. ASSUME NEW l \in Lses, suspendReq'[l] # NoReq
          PROVE  suspendReq'[l] = suspendReq[l] /\ status'[l] = status[l]
      BY <1>1, <2>1, <3>3, <3>4
    <3> QED BY <3>4 DEF OfferOK
  <2> QED BY <2>1, <2>2, <2>3
<1> QED BY <1>4, <1>5, <1>6, <1>7, <1>8
        DEF Next, UpdateStep, BeginUpdate, SkipEmptyBank, GetFromCache, send2Cache,
            CollectNothing, send2Coalescer, addTransaction, vars, lseVars

-----------------------------------------------------------------------------
\* Appending keeps the head of a queue, or makes it.
LEMMA HeadOfAppend ==
    ASSUME NEW S, NEW q \in Seq(S), NEW r \in S
    PROVE  /\ q = <<>> => Head(Append(q, r)) = r /\ Len(Append(q, r)) = 1
           /\ q # <<>> => Head(Append(q, r)) = Head(q)
<1>1. /\ Append(q, r) \in Seq(S) /\ Append(q, r) # <<>>
      /\ Len(Append(q, r)) = Len(q) + 1
      /\ \A j \in 1 .. Len(q) : Append(q, r)[j] = q[j]
      /\ Append(q, r)[Len(q) + 1] = r
  BY AppendProperties
<1>2. Head(Append(q, r)) = Append(q, r)[1]
  BY <1>1, HeadTailProperties
<1>3. q = <<>> => Len(q) = 0
  BY EmptySeq
<1>4. q # <<>> => Head(q) = q[1] /\ Len(q) \in Nat /\ Len(q) # 0
  BY HeadTailProperties, EmptySeq, LenProperties
<1> QED BY <1>1, <1>2, <1>3, <1>4

\* A recorder entry is tagged with the block of its first request, and has
\* only that one, uncoalesced, until it has reserved a coalescer entry.
LEMMA HeadsStep == IInv /\ OfferOK /\ HeadsOK /\ [Next]_vars => HeadsOK'
<1> SUFFICES ASSUME IInv, OfferOK, HeadsOK, [Next]_vars PROVE HeadsOK'
  OBVIOUS
<1>1. CASE UNCHANGED bankRecorder
  BY <1>1 DEF HeadsOK
<1>2. CASE addTransaction
  <2>1. \A b \in Banks : ~bankRecorder'[b].valid
    BY <1>2 DEF addTransaction, EmptyEntry, Recorded
  <2> QED BY <2>1 DEF HeadsOK
<1>3. CASE Collect
  <2>1. bankRecorder \in [Banks -> RecorderEntry]
    BY DEF IInv, TypeOK, QueuesOK
  <2>2. PICK req \in MemReq, b \in Banks :
           /\ req = suspendReq[ptr] /\ ptr \in Lses
           /\ CollectFirst(b, req) \/ CollectCoalesced(b, req) \/ CollectBlocked(b, req)
    <3>1. suspendReq[ptr] \in MemReq /\ ptr \in Lses
      BY <1>3 DEF Collect, IInv, TypeOK, ControlOK, LseOK
    <3>2. getBankId(suspendReq[ptr].blk) \in Banks
      BY <3>1, ModIsIndex, MemSystemAssumption DEF getBankId, MemReq, Banks
    <3> QED BY <1>3, <3>1, <3>2 DEF Collect
  <2>3. PICK entry \in RecorderEntry : entry = bankRecorder[b]
    BY <2>1
  <2>4. entry.reqQueue \in Seq(MemReq) /\ (entry.valid <=> entry.reqQueue # <<>>)
        /\ (entry.hasRegisteredCoalescer => entry.valid)
    BY <2>3 DEF IInv, RecorderOK, RecorderEntry
  <2>5. ASSUME NEW new, bankRecorder' = [bankRecorder EXCEPT ![b] = new],
               new.valid => /\ Head(new.reqQueue).blk = new.addrTag
                            /\ ~new.hasRegisteredCoalescer =>
                                   /\ Len(new.reqQueue) = 1
                                   /\ ~Head(new.reqQueue).coalesced
        PROVE  HeadsOK'
    <3>1. \A c \in Banks : bankRecorder'[c] = IF c = b THEN new ELSE bankRecorder[c]
      BY <2>1, <2>5
    <3> QED BY <2>5, <3>1 DEF HeadsOK
  <2>6. CASE CollectFirst(b, req)
    <3>1. /\ bankRecorder' = [bankRecorder EXCEPT ![b] = FirstReq(entry, req)]
          /\ entry.reqQueue = <<>>
      BY <2>3, <2>4, <2>6 DEF CollectFirst
    <3>2. ~req.coalesced
      BY <2>2, MemSystemAssumption DEF OfferOK
    <3>3. PICK q : q = Append(entry.reqQueue, req)
      OBVIOUS
    <3>4. Head(q) = req /\ Len(q) = 1
      BY <2>4, <3>1, <3>3, HeadOfAppend
    <3>5. FirstReq(entry, req).reqQueue = q /\ FirstReq(entry, req).addrTag = req.blk
      BY <3>3, RecorderQueues
    <3> QED BY <2>5, <3>1, <3>2, <3>4, <3>5
  <2>7. CASE CollectCoalesced(b, req)
    <3>1. /\ entry.valid
          /\ \/ bankRecorder' = [bankRecorder EXCEPT ![b] = Coalesce(entry, req)]
             \/ bankRecorder' = [bankRecorder EXCEPT ![b] = Reserve(entry)]
      BY <2>3, <2>7 DEF CollectCoalesced
    <3>2. Head(entry.reqQueue).blk = entry.addrTag
      BY <2>3, <3>1 DEF HeadsOK
    <3>3. CASE bankRecorder' = [bankRecorder EXCEPT ![b] = Coalesce(entry, req)]
      <4>1. PICK r \in MemReq : r = [req EXCEPT !.coalesced = TRUE]
        BY RecorderQueues
      <4>2. PICK q : q = Append(entry.reqQueue, r)
        OBVIOUS
      <4>3. Head(q) = Head(entry.reqQueue)
        BY <2>4, <3>1, <4>2, HeadOfAppend
      <4>4. /\ Coalesce(entry, req).reqQueue = q
            /\ Coalesce(entry, req).addrTag = entry.addrTag
        BY <4>1, <4>2, RecorderQueues
      <4>5. Coalesce(entry, req).hasRegisteredCoalescer
        BY RecorderFields
      <4> QED BY <2>5, <3>2, <3>3, <4>3, <4>4, <4>5
    <3>4. CASE bankRecorder' = [bankRecorder EXCEPT ![b] = Reserve(entry)]
      <4>1. /\ Reserve(entry).reqQueue = entry.reqQueue
            /\ Reserve(entry).addrTag = entry.addrTag
            /\ Reserve(entry).hasRegisteredCoalescer
        BY RecorderQueues, RecorderFields
      <4> QED BY <2>5, <3>2, <3>4, <4>1
    <3> QED BY <3>1, <3>3, <3>4
  <2>8. CASE CollectBlocked(b, req)
    BY <1>1, <2>8 DEF CollectBlocked
  <2> QED BY <2>2, <2>6, <2>7, <2>8
<1> QED BY <1>1, <1>2, <1>3
        DEF Next, UpdateStep, LseIssue, LsePop, BeginUpdate, SkipEmptyBank, AckSingle,
            AckCoalesced, GetFromCache, send2Cache, CollectNothing, send2Coalescer, vars

-----------------------------------------------------------------------------
\* Both sides of MatchOK are numbers.
MatchIsNat ==
    \A blk : /\ Count(coalescerTable, EntryFor(blk)) \in Nat
             /\ Below(Standing(blk)) \in Nat
             /\ Cardinality(Handed(blk)) \in Nat

\* Entries and transactions are counted by numbers.
LEMMA MatchNat == TypeOK => MatchIsNat
<1> SUFFICES ASSUME TypeOK PROVE MatchIsNat
  OBVIOUS
<1>1. coalescerTable \in Seq(CoalescerEntry)
  BY DEF TypeOK, QueuesOK
<1>2. \A M : Count(coalescerTable, M) \in Nat
  BY <1>1, HitsOne
<1>3. \A M : InReq(M) \in Nat /\ InAck(M) \in Nat /\ InCacheBox(M) \in Nat
  BY CountsNat
<1>4. \A M : Below(M) \in Nat
  BY <1>3 DEF Below
<1>5. \A blk : Cardinality(Handed(blk)) \in Nat
  BY HandedFinite
<1> QED BY <1>2, <1>4, <1>5 DEF MatchIsNat

\* The same of the next state.
LEMMA MatchNatNext == TypeOK' => MatchIsNat'
BY MatchNat, PTL

\* A coalescer entry comes with a handed-over recorder entry and goes with the
\* last transaction that stands for it.
LEMMA MatchStep == IInv /\ HeadsOK /\ MatchOK /\ TypeOK' /\ [Next]_vars => MatchOK'
<1> SUFFICES ASSUME IInv, HeadsOK, MatchOK, TypeOK', [Next]_vars, NEW blk \in Blocks
             PROVE  Count(coalescerTable, EntryFor(blk))' =
                        Below(Standing(blk))' + Cardinality(Handed(blk)')
  BY DEF MatchOK
<1> DEFINE c == Count(coalescerTable, EntryFor(blk))
           w == Below(Standing(blk))
           h == Cardinality(Handed(blk))
<1>1. c = w + h
  BY DEF MatchOK
<1>2. c \in Nat /\ w \in Nat /\ h \in Nat
  BY MatchNat DEF MatchIsNat, IInv
<1>3. c' \in Nat /\ w' \in Nat /\ h' \in Nat
  BY MatchNatNext DEF MatchIsNat
<1>4. UNCHANGED coalescerTable => c' = c
  BY DEF Count
<1>5. UNCHANGED <<reqQueue, ackQueue, inCache>> => w' = w
  BY QuietCounts DEF Below
<1>6. ~send2Coalescer /\ ~addTransaction => h' = h
  <2>1. ~send2Coalescer /\ ~addTransaction => Handed(blk)' = Handed(blk)
    BY QuietStep
  <2> QED BY <2>1
<1> HIDE DEF c, w, h
<1>7. CASE AckSingle \/ AckCoalesced
  <2>1. PICK d \in {0, 1} : c = c' + d /\ w = w' + d
    BY <1>7, AckEffects DEF c, w
  <2>2. h' = h
    BY <1>6, <1>7 DEF AckSingle, AckCoalesced, send2Coalescer, addTransaction
  <2> QED BY <1>1, <1>2, <1>3, <2>1, <2>2 DEF c, w, h
<1>8. CASE GetFromCache \/ send2Cache
  <2>1. w' = w
    BY <1>8, GetFromCacheCounts, send2CacheCounts DEF w, IInv
  <2>2. UNCHANGED coalescerTable /\ h' = h
    BY <1>6, <1>8 DEF GetFromCache, send2Cache, coalVars, send2Coalescer, addTransaction
  <2> QED BY <1>1, <1>4, <2>1, <2>2 DEF c, w, h
<1>9. CASE send2Coalescer
  <2>1. PICK d \in {0, 1} : c' = c + d /\ h' = h + d
    BY <1>9, send2CoalescerCounts DEF c, h
  <2>2. w' = w
    BY <1>5, <1>9 DEF send2Coalescer
  <2> QED BY <1>1, <1>2, <2>1, <2>2 DEF c, w, h
<1>10. CASE addTransaction
  <2>1. w' = w + h /\ h' = 0
    BY <1>10, addTransactionCounts DEF w, h
  <2>2. c' = c
    BY <1>4, <1>10 DEF addTransaction
  <2> QED BY <1>1, <1>2, <2>1, <2>2 DEF c, w, h
<1>11. CASE \/ UNCHANGED vars \/ SkipEmptyBank \/ CollectNothing
            \/ \E advance \in BOOLEAN : BeginUpdate(advance)
  <2>1. UNCHANGED <<coalescerTable, reqQueue, ackQueue, inCache>>
    BY <1>11 DEF vars, coalVars, SkipEmptyBank, CollectNothing, BeginUpdate
  <2>2. h' = h
    BY <1>6, <1>11, QuietRound
  <2> QED BY <1>1, <1>4, <1>5, <2>1, <2>2 DEF c, w, h
<1>12. CASE \/ \E l \in Lses, b \in Blocks : LseIssue(l, b)
            \/ \E l \in Lses : LsePop(l)
            \/ Collect
  <2>1. /\ UNCHANGED <<coalescerTable, reqQueue, ackQueue, inCache>>
        /\ ~send2Coalescer /\ ~addTransaction
    BY <1>12 DEF coalVars, LseIssue, LsePop, Collect, send2Coalescer, addTransaction
  <2> QED BY <1>1, <1>4, <1>5, <1>6, <2>1 DEF c, w, h
<1> QED BY <1>7, <1>8, <1>9, <1>10, <1>11, <1>12 DEF Next, UpdateStep

-----------------------------------------------------------------------------
\* Queues that are empty hold nothing.
LEMMA NoHits ==
    ASSUME NEW place, NEW q, NEW M, \A x \in DOMAIN q : q[x] = <<>>
    PROVE  Cardinality(Hits(place, q, M)) = 0
<1>1. \A x \in DOMAIN q : DOMAIN q[x] = {}
  OBVIOUS
<1>2. ASSUME NEW p PROVE p \notin Hits(place, q, M)
  <2>1. p \in Hits(place, q, M) => \E x \in DOMAIN q : \E k \in DOMAIN q[x] : TRUE
    BY InHits
  <2> QED BY <1>1, <2>1
<1>3. Hits(place, q, M) = {}
  BY <1>2, Zenon
<1> QED BY <1>3, FS_EmptySet, Zenon

\* Initially all queues are empty.
LEMMA PInvInit == Init => PInv
<1> SUFFICES ASSUME Init PROVE PInv
  OBVIOUS
<1>1. IInv
  BY IInvInit
<1>2. Sent = {}
  BY <1>1, SentIs DEF SentShape, IInv, Init, Handover
<1>3. ASSUME NEW M
      PROVE  InRec(M) = 0 /\ InCoal(M) = 0 /\ Below(M) = 0
  <2>1. \A b \in DOMAIN Rec : Rec[b] = <<>>
    BY <1>2 DEF Rec, Init, EmptyEntry
  <2>2. \A e \in DOMAIN Coal : Coal[e] = <<>>
    BY DEF Coal, Init
  <2>3. /\ \A b \in DOMAIN reqQueue : reqQueue[b] = <<>>
        /\ \A b \in DOMAIN ackQueue : ackQueue[b] = <<>>
        /\ \A b \in DOMAIN inCache : inCache[b] = <<>>
    BY DEF Init
  <2>4. InRec(M) = 0 /\ InCoal(M) = 0
    BY <2>1, <2>2, NoHits DEF InRec, InCoal
  <2>5. InReq(M) = 0 /\ InAck(M) = 0 /\ InCacheBox(M) = 0
    BY <2>3, NoHits DEF InReq, InAck, InCacheBox
  <2> QED BY <2>4, <2>5 DEF Below
<1>4. OnceOK
  <2>1. \A l \in Lses, s \in Slots : status[l][s] = "free"
    BY DEF Init
  <2>2. \A l \in Lses, s \in Slots : Held(l, s) = 0
    BY <1>3 DEF Held
  <2> QED BY <2>1, <2>2 DEF OnceOK
<1>5. OfferOK
  BY DEF OfferOK, Init
<1>6. HeadsOK
  BY DEF HeadsOK, Init, EmptyEntry
<1>7. MatchOK
  <2>1. \A blk : Handed(blk) = {}
    BY <1>2 DEF Handed
  <2>2. \A blk : Cardinality(Handed(blk)) = 0
    BY <2>1, FS_EmptySet
  <2>3. \A M : Count(coalescerTable, M) = 0
    <3>1. DOMAIN coalescerTable = {}
      BY DEF Init
    <3>2. \A M : {k \in DOMAIN coalescerTable : coalescerTable[k] \in M} = {}
      BY <3>1
    <3> QED BY <3>2, FS_EmptySet, Zenon DEF Count
  <2> QED BY <1>3, <2>2, <2>3 DEF MatchOK
<1> QED BY <1>1, <1>4, <1>5, <1>6, <1>7 DEF PInv

\* The invariant is inductive.
LEMMA PInvStep == PInv /\ [Next]_vars => PInv'
<1>1. IInv /\ [Next]_vars => IInv'
  BY IInvStep
<1>2. IInv' => TypeOK'
  BY DEF IInv
<1> QED BY <1>1, <1>2, OnceStep, OfferStep, HeadsStep, MatchStep DEF PInv

\* It holds in every reachable state.
LEMMA PInvAlways == Spec => []PInv
BY PInvInit, PInvStep, PTL DEF Spec

-----------------------------------------------------------------------------
\* A request that was sent is in exactly one place and any other in none,
\* between any two statements of MemSystemUpdate outside the handover: none is
\* lost, and none is answered twice.
THEOREM EachInflightOnce == Spec => []InflightExactlyOnce
<1>1. PInv => InflightExactlyOnce
  <2> SUFFICES ASSUME PInv, ~Handover, NEW l \in Lses, NEW s \in Slots
               PROVE  Cardinality(Places(l, s)) = IF status[l][s] = "inflight" THEN 1 ELSE 0
    BY DEF InflightExactlyOnce
  <2>1. Cardinality(Places(l, s)) = Held(l, s)
    BY PlacesCounted DEF PInv, IInv, Held
  <2> QED BY <2>1 DEF PInv, OnceOK
<1> QED BY <1>1, PInvAlways, PTL

\* searchCoalescer finds an entry for every coalesced acknowledge, and no
\* entry is left without one: block by block there are as many entries as
\* transactions that stand for one.
THEOREM EntriesMatchTransactions == Spec => []CoalescerMatchesTransactions
<1>1. PInv => CoalescerMatchesTransactions
  <2> DEFINE For(blk) == {e \in DOMAIN coalescerTable : coalescerTable[e].blockAddr = blk}
             U(place, q, blk) == UNION {{place} \X {x} \X {k \in DOMAIN q[x] :
                                     q[x][k].coalesced /\ q[x][k].blk = blk} : x \in DOMAIN q}
             Under(blk) == U("reqQueue", reqQueue, blk) \cup U("ackQueue", ackQueue, blk)
                           \cup U("inCache", inCache, blk)
  <2> SUFFICES ASSUME PInv, ~Handover, NEW blk \in Blocks
               PROVE  Cardinality(For(blk)) = Cardinality(Under(blk))
    BY DEF CoalescerMatchesTransactions, At
  <2> DEFINE Q == Hits("reqQueue", reqQueue, Standing(blk))
             A == Hits("ackQueue", ackQueue, Standing(blk))
             H == Hits("inCache", inCache, Standing(blk))
  <2>1. /\ Family(Banks, MemReq, reqQueue)
        /\ Family(Banks, MemReq, ackQueue)
        /\ Family(Banks, MemReq, inCache)
    BY Families DEF FamilyShape, PInv, IInv
  <2>2. /\ U("reqQueue", reqQueue, blk) = Q
        /\ U("ackQueue", ackQueue, blk) = A
        /\ U("inCache", inCache, blk) = H
    BY <2>1, StandingPositions
  <2>3. IsFiniteSet(Q) /\ IsFiniteSet(A) /\ IsFiniteSet(H)
    BY <2>1, FamilyHits
  <2>4. Q \cap A = {} /\ Q \cap H = {} /\ A \cap H = {}
    BY HitsApart
  <2>5. Cardinality(Under(blk)) = Below(Standing(blk))
    <3> HIDE DEF U, Q, A, H
    <3>1. Cardinality(Q \cup A \cup H) = Cardinality(Q) + Cardinality(A) + Cardinality(H)
      BY <2>3, <2>4, ThreePlaces
    <3>2. Under(blk) = Q \cup A \cup H
      BY <2>2
    <3> QED BY <3>1, <3>2 DEF Q, A, H, Below, InReq, InAck, InCacheBox
  <2>6. Cardinality(For(blk)) = Count(coalescerTable, EntryFor(blk))
    <3>1. \A e \in DOMAIN coalescerTable : coalescerTable[e] \in CoalescerEntry
      BY ElementOfSeq, LenProperties DEF PInv, IInv, TypeOK, QueuesOK
    <3>2. For(blk) = {e \in DOMAIN coalescerTable : coalescerTable[e] \in EntryFor(blk)}
      BY <3>1 DEF EntryFor
    <3> HIDE DEF For
    <3> QED BY <3>2 DEF Count
  <2>7. Cardinality(Handed(blk)) = 0
    <3>1. Sent = {}
      BY SentIs DEF SentShape, PInv, IInv
    <3>2. Handed(blk) = {}
      BY <3>1 DEF Handed
    <3> QED BY <3>2, FS_EmptySet
  <2>8. Below(Standing(blk)) \in Nat
    BY MatchNat DEF MatchIsNat, PInv, IInv
  <2>9. Count(coalescerTable, EntryFor(blk)) = Below(Standing(blk)) + Cardinality(Handed(blk))
    BY DEF PInv, MatchOK
  <2> HIDE DEF For, Under
  <2> QED BY <2>5, <2>6, <2>7, <2>8, <2>9
<1> QED BY <1>1, PInvAlways, PTL
=============================================================================
