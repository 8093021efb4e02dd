-------------------------- MODULE CacheTypes_proofs --------------------------
(***************************************************************************)
(* Proofs that the cache keeps its types and the sizes of its queues, and  *)
(* that what an entry of the Mshr waits for is on its way, for every       *)
(* geometry of one or two levels.                                          *)
(*                                                                         *)
(* TypeOK is not inductive: a phase takes the front of a queue that an     *)
(* earlier phase found not empty, an entry that is ready is answered by    *)
(* its front request, and what readies one is found by the block.  TypeInv *)
(* says of every phase what it works on, and of every entry that it is in  *)
(* use exactly while it has requests, all of its block.  A fetch is on its *)
(* way because it is not a write-back, which the level below drops when it *)
(* is done: entries of level 0 hold the requests of the memory system and  *)
(* nothing else, by OnceInv of Cache_proofs.                               *)
(***************************************************************************)
EXTENDS Cache_proofs

\* Every element of a finite set has its place in the order of the keys, behind
\* those of smaller keys.
LEMMA InOrderIs ==
    ASSUME NEW S, IsFiniteSet(S), NEW key, \A x \in S : key[x] \in Nat,
           \A x, y \in S : key[x] = key[y] => x = y
    PROVE  /\ Cardinality(S) \in Nat /\ DOMAIN InOrder(S, key) = 1 .. Cardinality(S)
           /\ \A k \in 1 .. Cardinality(S) : InOrder(S, key)[k] \in S
           /\ \A x \in S : \E k \in 1 .. Cardinality(S) : InOrder(S, key)[k] = x
           /\ \A k \in 1 .. Cardinality(S) :
                 Cardinality({y \in S : key[y] < key[InOrder(S, key)[k]]}) = k - 1
<1> DEFINE Before(x) == {y \in S : key[y] < key[x]}
           n == Cardinality(S)
           rank == [x \in S |-> Cardinality(Before(x))]
<1>1. n \in Nat
  BY FS_CardinalityType
<1>2. ASSUME NEW x \in S
      PROVE  IsFiniteSet(Before(x)) /\ rank[x] \in 0 .. n - 1 /\ rank[x] = Cardinality(Before(x))
  <2>1. Before(x) \in SUBSET (S \ {x})
    OBVIOUS
  <2>2. IsFiniteSet(S \ {x}) /\ Cardinality(S \ {x}) = n - 1
    BY FS_RemoveElement
  <2> HIDE DEF Before
  <2>3. IsFiniteSet(Before(x)) /\ Cardinality(Before(x)) <= n - 1
    BY <2>1, <2>2, FS_Subset
  <2>4. Cardinality(Before(x)) \in Nat
    BY <2>3, FS_CardinalityType
  <2>5. rank[x] = Cardinality(Before(x))
    OBVIOUS
  <2> HIDE DEF n, rank
  <2> QED  BY <2>3, <2>4, <2>5, <1>1
<1>3. ASSUME NEW x \in S, NEW y \in S, key[y] < key[x]
      PROVE  rank[y] < rank[x]
  <2>1. Before(y) \cup {y} \in SUBSET Before(x) /\ y \notin Before(y)
    BY <1>3
  <2> HIDE DEF Before
  <2>2. Cardinality(Before(y) \cup {y}) = Cardinality(Before(y)) + 1
    BY <1>2, <2>1, FS_AddElement
  <2>3. Cardinality(Before(y) \cup {y}) <= Cardinality(Before(x))
    BY <1>2, <2>1, FS_Subset
  <2>4. rank[y] = Cardinality(Before(y)) /\ rank[x] = Cardinality(Before(x))
    OBVIOUS
  <2>5. rank[y] \in 0 .. n - 1 /\ rank[x] \in 0 .. n - 1
    BY <1>2
  <2> HIDE DEF rank, n
  <2> QED  BY <2>2, <2>3, <2>4, <2>5, <1>1
<1>4. \A x, y \in S : rank[x] = rank[y] => x = y
  <2> SUFFICES ASSUME NEW x \in S, NEW y \in S, rank[x] = rank[y], x # y
               PROVE  FALSE
    OBVIOUS
  <2>1. key[x] < key[y] \/ key[y] < key[x]
    OBVIOUS
  <2>2. rank[x] \in 0 .. n - 1 /\ rank[y] \in 0 .. n - 1
    BY <1>2
  <2> HIDE DEF rank, n
  <2>3. rank[x] < rank[y] \/ rank[y] < rank[x]
    BY <1>3, <2>1
  <2> QED  BY <2>2, <2>3, <1>1
<1>5. \A k \in 1 .. n : \E x \in S : rank[x] = k - 1
  <2> SUFFICES ASSUME NEW k \in 1 .. n, \A x \in S : rank[x] # k - 1
               PROVE  FALSE
    OBVIOUS
  <2> DEFINE T == (0 .. n - 1) \ {k - 1}
  <2>1. IsFiniteSet(0 .. n - 1) /\ Cardinality(0 .. n - 1) = n
    <3> HIDE DEF n
    <3>1. 0 \in Int /\ n - 1 \in Int
      BY <1>1
    <3> QED  BY <1>1, <3>1, FS_Interval
  <2>2. k - 1 \in 0 .. n - 1
    BY <1>1
  <2>3. IsFiniteSet(T) /\ Cardinality(T) = n - 1
    BY <2>1, <2>2, FS_RemoveElement
  <2>4. rank \in [S -> T]
    BY <1>2
  <2>5. Cardinality(T) < Cardinality(S)
    BY <2>3, <1>1
  <2> HIDE DEF T, rank
  <2>6. \E x, y \in S : x # y /\ rank[x] = rank[y]
    BY <2>3, <2>4, <2>5, FS_PigeonHole
  <2> QED  BY <2>6, <1>4
<1>6. \A x \in S : rank[x] = Cardinality({y \in S : key[y] < key[x]})
  OBVIOUS
<1>7. \A k \in 1 .. n : InOrder(S, key)[k] = CHOOSE x \in S : rank[x] = k - 1
  BY <1>6 DEF InOrder
<1> HIDE DEF rank
<1>8. \A k \in 1 .. n : InOrder(S, key)[k] \in S /\ rank[InOrder(S, key)[k]] = k - 1
  BY <1>5, <1>7
<1>9. ASSUME NEW x \in S
      PROVE  \E k \in 1 .. n : InOrder(S, key)[k] = x
  <2> DEFINE k == rank[x] + 1
  <2>1. rank[x] \in 0 .. n - 1
    BY <1>2
  <2>2. k \in 1 .. n /\ k - 1 = rank[x]
    BY <2>1, <1>1
  <2> HIDE DEF k
  <2>3. InOrder(S, key)[k] \in S /\ rank[InOrder(S, key)[k]] = rank[x]
    BY <1>8, <2>2
  <2>4. InOrder(S, key)[k] = x
    BY <2>3, <1>4
  <2> QED  BY <2>2, <2>4
<1>10. DOMAIN InOrder(S, key) = 1 .. n
  BY DEF InOrder
<1>11. \A k \in 1 .. n : Cardinality({y \in S : key[y] < key[InOrder(S, key)[k]]}) = k - 1
  BY <1>6, <1>8
<1> QED  BY <1>1, <1>8, <1>9, <1>10, <1>11

-----------------------------------------------------------------------------
(***************************************************************************)
(* Types.  Each part of the invariant is about one level's l of one        *)
(* variable, and says more than TypeOK where a step relies on it.          *)
(***************************************************************************)
QueuedReq(l) == [req : CacheReq, lat : 0 .. Latency[l], ready : BOOLEAN]
CacheLine(l) == [way : 0 .. Ways[l] - 1, blk : Blocks, dirty : BOOLEAN]

QueuesOK(q, l) ==
    q \in [Banks(l) -> Seq(QueuedReq(l))] /\ \A b \in Banks(l) : Len(q[b]) <= ReqQueueSize[l]
AcksOK(q, l) ==
    q \in [Banks(l) -> Seq(CacheReq)] /\ \A b \in Banks(l) : Len(q[b]) <= AckQueueSize[l]
SetsOK(sets, l) ==
    sets \in [Sets(l) -> Seq(CacheLine(l))] /\ \A s \in Sets(l) : Len(sets[s]) <= Ways[l]

\* An entry in use has requests, all of its block, and no more than fit.
EntryOK(x, l) ==
    /\ x \in MshrEntry /\ Len(x.mshrQueue) <= EntrySize[l]
    /\ x.valid => x.mshrQueue # <<>>
    /\ ~x.valid => x = EmptyEntry
    /\ \A k \in 1 .. Len(x.mshrQueue) : x.mshrQueue[k].blk = x.blockAddr
EntriesOK(ms, l) == DOMAIN ms = Entries(l) /\ \A e \in Entries(l) : EntryOK(ms[e], l)

\* Where the round is: each phase has what it works on.
PhaseOK ==
    /\ phase \in Phases /\ level \in Levels
    /\ i \in Banks(level) /\ (phase # "request" => i = 0)
    /\ phase \in {"popAck", "refill"} => level > 0
    /\ phase = "complete" => reqAckStack # <<>>
    /\ phase = "refill" <=> cacheReqVec # <<>>
PtrsOK ==
    /\ DOMAIN mshrRdPtr = Levels /\ DOMAIN reqQueueBankPtr = Levels /\ DOMAIN ackQueueBankPtr = Levels
    /\ \A l \in Levels : /\ mshrRdPtr[l] \in Entries(l)
                         /\ reqQueueBankPtr[l] \in Banks(l) /\ ackQueueBankPtr[l] \in Banks(l)
ConflictOK ==
    DOMAIN reqBankConflict = Levels /\ \A l \in Levels : reqBankConflict[l] \subseteq Banks(l)
BelowOK ==
    /\ cacheReqVec \in Seq(CacheReq) /\ ReqQueue2MemOK
    /\ inMemory \in [Blocks -> Nat] /\ reqAckStack \in Seq(Blocks)

AllQueuesOK  == DOMAIN reqQueue = Levels /\ \A l \in Levels : QueuesOK(reqQueue[l], l)
AllAcksOK    == DOMAIN ackQueue = Levels /\ \A l \in Levels : AcksOK(ackQueue[l], l)
AllSetsOK    == DOMAIN lines = Levels /\ \A l \in Levels : SetsOK(lines[l], l)
AllEntriesOK == DOMAIN mshr = Levels /\ \A l \in Levels : EntriesOK(mshr[l], l)

TypeInv ==
    /\ PhaseOK /\ PtrsOK /\ ConflictOK /\ BelowOK /\ status \in [Reqs -> {"idle", "sent"}]
    /\ AllQueuesOK /\ AllAcksOK /\ AllSetsOK /\ AllEntriesOK

\* The constants of a level.
LEMMA Geometry ==
    ASSUME NEW l \in Levels
    PROVE  /\ NumSets[l] \in Nat \ {0} /\ Ways[l] \in Nat \ {0} /\ NumBanks[l] \in Nat \ {0}
           /\ Latency[l] \in Nat /\ ReqQueueSize[l] \in Nat \ {0} /\ AckQueueSize[l] \in Nat \ {0}
           /\ EntryNum[l] \in Nat \ {0} /\ EntrySize[l] \in Nat \ {0}
           /\ NumBlocks \in Nat /\ NumSets[l] * Ways[l] <= NumBlocks
           /\ l \in {0, 1} /\ l <= llc /\ llc \in {0, 1}
<1>1. MaxLevel \in {1, 2}
  BY CacheAssumption
<1>2. llc \in {0, 1} /\ l \in {0, 1} /\ l <= llc
  BY <1>1 DEF Levels, llc
<1>3. NumSets[l] \in Nat \ {0} /\ Ways[l] \in Nat \ {0} /\ NumBanks[l] \in Nat \ {0}
  BY CacheAssumption DEF PerLevel
<1>4. Latency[l] \in Nat /\ ReqQueueSize[l] \in Nat \ {0} /\ AckQueueSize[l] \in Nat \ {0}
  BY CacheAssumption DEF PerLevel
<1>5. EntryNum[l] \in Nat \ {0} /\ EntrySize[l] \in Nat \ {0}
  BY CacheAssumption DEF PerLevel
<1>6. NumBlocks \in Nat /\ NumSets[l] * Ways[l] <= NumBlocks
  BY CacheAssumption
<1> QED  BY <1>2, <1>3, <1>4, <1>5, <1>6

\* A block's bank and set, of any block.
LEMMA BankOf ==
    ASSUME NEW l \in Levels, NEW blk \in Nat
    PROVE  getCacheBank(blk, l) \in Banks(l) /\ getCacheSetIndex(blk, l) \in Sets(l)
BY Geometry, ModRange DEF getCacheBank, getCacheSetIndex, Banks, Sets

\* What the model uses as an unused request and an unused entry are ones.
LEMMA AnInvalid ==
    /\ NumBlocks \in Nat \ {0} /\ 0 \in Blocks /\ Invalid \in CacheReq /\ Blocks \subseteq Nat
    /\ EmptyEntry \in MshrEntry /\ \A l \in Levels : EntryOK(EmptyEntry, l)
<1>1. NumBlocks \in Nat \ {0}
  <2>1. 0 \in Levels
    BY LevelFacts
  <2>2. \A a, b \in Nat \ {0} : a * b \in Nat \ {0}
    OBVIOUS
  <2> QED  BY <2>1, <2>2, Geometry
<1>2. 0 \in Blocks /\ Blocks \subseteq Nat
  BY <1>1 DEF Blocks
<1>3. Invalid \in CacheReq
  BY <1>2 DEF Invalid, CacheReq, Ops
<1>4. <<>> \in Seq(CacheReq) /\ Len(<<>>) = 0
  BY EmptySeq
<1>5. EmptyEntry \in MshrEntry
  BY <1>2, <1>4 DEF EmptyEntry, MshrEntry
<1>6. \A l \in Levels : EntryOK(EmptyEntry, l)
  <2> SUFFICES ASSUME NEW l \in Levels PROVE EntryOK(EmptyEntry, l)
    OBVIOUS
  <2>1. EntrySize[l] \in Nat
    BY Geometry
  <2>2. EmptyEntry.mshrQueue = <<>> /\ EmptyEntry.valid = FALSE
    BY DEF EmptyEntry
  <2> QED  BY <2>1, <2>2, <1>4, <1>5 DEF EntryOK
<1> QED  BY <1>1, <1>2, <1>3, <1>5, <1>6

\* The invariant says at least what TypeOK says.
LEMMA TypeInvIsTypeOK == TypeInv => TypeOK
<1> SUFFICES ASSUME TypeInv PROVE TypeOK
  OBVIOUS
<1>1. ControlOK
  BY DEF TypeInv, PhaseOK, PtrsOK, ConflictOK, ControlOK
<1>2. ASSUME NEW l \in Levels PROVE LevelOK(l)
  <2>1. /\ QueuesOK(reqQueue[l], l) /\ AcksOK(ackQueue[l], l)
        /\ SetsOK(lines[l], l) /\ EntriesOK(mshr[l], l)
    BY DEF TypeInv, AllQueuesOK, AllAcksOK, AllSetsOK, AllEntriesOK
  <2>2. CacheLine(l) \subseteq Line
    <3>1. 0 .. Ways[l] - 1 \subseteq Nat
      BY Geometry
    <3> QED  BY <3>1 DEF CacheLine, Line
  <2>3. ASSUME NEW s \in Sets(l) PROVE lines[l][s] \in Seq(Line)
    <3>1. lines[l][s] \in Seq(CacheLine(l))
      BY <2>1 DEF SetsOK
    <3> QED  BY <2>2, <3>1
  <2> QED  BY <2>1, <2>3 DEF LevelOK, QueuesOK, AcksOK, SetsOK, EntriesOK, EntryOK, QueuedReq
<1> QED  BY <1>1, <1>2 DEF TypeInv, BelowOK, TypeOK

\* A sequence of equal elements, as the constructors fill their vectors.
LEMMA Repeated ==
    ASSUME NEW S, NEW x \in S, NEW n \in Nat
    PROVE  [k \in 1 .. n |-> x] \in Seq(S) /\ Len([k \in 1 .. n |-> x]) = n
OBVIOUS

\* Init establishes the invariant: everything is empty.
LEMMA TypeInit == Init => TypeInv
<1> SUFFICES ASSUME Init PROVE TypeInv
  OBVIOUS
<1> USE DEF Init
<1>1. 0 \in Levels /\ llc \in Levels
  BY LevelFacts
<1>2. \A l \in Levels : 0 \in Banks(l) /\ 0 \in Entries(l)
  BY Geometry DEF Banks, Entries
<1>3. PhaseOK
  BY <1>1, <1>2 DEF PhaseOK, Phases
<1>4. PtrsOK
  BY <1>2 DEF PtrsOK
<1>11. ConflictOK
  BY DEF ConflictOK
<1>5. BelowOK
  <2>1. transCacheReq2MemReq(Invalid) \in MemTransaction
    BY AnInvalid DEF transCacheReq2MemReq, MemTransaction, isWrite, Invalid
  <2>2. NumBanks[llc] \in Nat
    BY <1>1, Geometry
  <2>3. reqQueue2Mem \in Seq(MemTransaction) /\ Len(reqQueue2Mem) = NumBanks[llc]
    BY <2>1, <2>2, Repeated
  <2>4. cacheReqVec = <<>> /\ reqAckStack = <<>> /\ inMemory \in [Blocks -> Nat]
    OBVIOUS
  <2> QED  BY <2>2, <2>3, <2>4, EmptySeq DEF BelowOK, ReqQueue2MemOK
<1>6. AllQueuesOK
  <2>1. ASSUME NEW l \in Levels PROVE QueuesOK(reqQueue[l], l)
    <3>1. reqQueue[l] = [b \in Banks(l) |-> <<>>] /\ ReqQueueSize[l] \in Nat
      BY Geometry
    <3>2. <<>> \in Seq(QueuedReq(l)) /\ Len(<<>>) = 0
      BY EmptySeq
    <3> QED  BY <3>1, <3>2 DEF QueuesOK
  <2> QED  BY <2>1 DEF AllQueuesOK
<1>7. AllAcksOK
  <2>1. ASSUME NEW l \in Levels PROVE AcksOK(ackQueue[l], l)
    <3> DEFINE q == [k \in 1 .. AckQueueSize[l] |-> Invalid]
    <3>1. AckQueueSize[l] \in Nat
      BY Geometry
    <3>2. q \in Seq(CacheReq) /\ Len(q) = AckQueueSize[l]
      BY <3>1, AnInvalid, Repeated
    <3>3. ackQueue[l] = [b \in Banks(l) |-> q]
      OBVIOUS
    <3> HIDE DEF q, Init
    <3> QED  BY <3>1, <3>2, <3>3 DEF AcksOK
  <2> QED  BY <2>1 DEF AllAcksOK
<1>8. AllSetsOK
  <2>1. ASSUME NEW l \in Levels PROVE SetsOK(lines[l], l)
    <3>1. lines[l] = [s \in Sets(l) |-> <<>>] /\ Ways[l] \in Nat
      BY Geometry
    <3>2. <<>> \in Seq(CacheLine(l)) /\ Len(<<>>) = 0
      BY EmptySeq
    <3> QED  BY <3>1, <3>2 DEF SetsOK
  <2> QED  BY <2>1 DEF AllSetsOK
<1>9. AllEntriesOK
  BY AnInvalid DEF AllEntriesOK, EntriesOK
<1>10. status \in [Reqs -> {"idle", "sent"}]
  OBVIOUS
<1> QED  BY <1>3, <1>4, <1>5, <1>6, <1>7, <1>8, <1>9, <1>10, <1>11 DEF TypeInv

-----------------------------------------------------------------------------
(* The phases of a round, and the pointers. *)

\* A round completes acknowledges of DRAM only if there are some.
LEMMA CompletingOK ==
    ASSUME NEW stack
    PROVE  Completing(stack) \in {"complete", "memory"} /\ (Completing(stack) = "complete" => stack # <<>>)
BY DEF Completing

\* The loop over the banks and levels that take a request ends, or goes on to
\* a bank and level that exist.
LEMMA EndLevelOK ==
    ASSUME PhaseOK, PtrsOK, phase = "request", NextBank \/ EndLevel, reqAckStack' = reqAckStack,
           cacheReqVec' = cacheReqVec, mshrRdPtr' = mshrRdPtr, ackQueueBankPtr' = ackQueueBankPtr
    PROVE  PhaseOK' /\ PtrsOK'
<1>1. level \in Levels /\ i \in Banks(level) /\ NumBanks[level] \in Nat \ {0} /\ 0 \in Levels
      /\ llc \in {0, 1} /\ level \in {0, 1} /\ level <= llc
  BY Geometry, LevelFacts DEF PhaseOK
<1>2. \A l \in Levels : 0 \in Banks(l)
  BY Geometry DEF Banks
<1>3. cacheReqVec = <<>>
  BY DEF PhaseOK
<1>4. CASE EndLevel
  <2>1. level' \in Levels /\ phase' \in {"request", "toMem"} /\ i' = 0
    BY <1>1, <1>4 DEF EndLevel, Levels
  <2>2. (reqQueueBankPtr[level] + 1) % NumBanks[level] \in Banks(level)
    <3>1. reqQueueBankPtr[level] \in Nat
      BY <1>1 DEF PtrsOK, Banks
    <3> QED  BY <1>1, <3>1, ModRange DEF Banks
  <2>3. \A l \in Levels : reqQueueBankPtr'[l] \in Banks(l)
    BY <1>1, <1>4, <2>2 DEF EndLevel, PtrsOK
  <2>4. DOMAIN reqQueueBankPtr' = Levels
    BY <1>4 DEF EndLevel, PtrsOK
  <2> QED  BY <1>2, <1>3, <2>1, <2>3, <2>4 DEF PhaseOK, PtrsOK, Phases
<1>5. CASE ~EndLevel
  <2>1. i + 1 < NumBanks[level] /\ i' = i + 1 /\ phase' = phase /\ level' = level
        /\ reqQueueBankPtr' = reqQueueBankPtr
    BY <1>5 DEF NextBank
  <2>2. i' \in Banks(level')
    BY <1>1, <2>1 DEF Banks
  <2> QED  BY <1>1, <1>3, <2>1, <2>2 DEF PhaseOK, PtrsOK, Phases
<1> QED  BY <1>4, <1>5

\* Every phase of a round finds what it works on, and the pointers stay in range.
LEMMA PhaseStep ==
    ASSUME TypeInv, Next
    PROVE  PhaseOK' /\ PtrsOK'
<1> USE DEF TypeInv
<1>1. level \in Levels /\ level \in {0, 1} /\ 0 \in Levels /\ llc \in Levels /\ llc \in {0, 1} /\ level <= llc
  BY Geometry, LevelFacts DEF PhaseOK
<1>2. \A l \in Levels : 0 \in Banks(l)
  BY Geometry DEF Banks
<1>3. CASE \E r \in Reqs, blk \in Blocks, op \in Accesses : addTransaction(r, blk, op)
  <2>1. PICK r \in Reqs, blk \in Blocks, op \in Accesses : addTransaction(r, blk, op)
    BY <1>3
  <2>2. PhaseOK'
    BY <2>1 DEF addTransaction, control, below, PhaseOK
  <2> QED  BY <2>1, <2>2 DEF addTransaction, ptrs, PtrsOK
<1>4. CASE \E served \in SUBSET Banks(0) : callBack(served)
  <2>1. phase = "callBack" /\ phase' = Completing(reqAckStack)
    BY <1>4 DEF callBack
  <2>2. PhaseOK'
    BY <1>4, <2>1, CompletingOK DEF callBack, below, PhaseOK, Phases
  <2> QED  BY <1>4, <2>2 DEF callBack, ptrs, PtrsOK
<1>5. CASE mem_req_complete
  <2>1. phase = "complete" /\ phase' = Completing(reqAckStack')
    BY <1>5 DEF mem_req_complete
  <2>2. PhaseOK'
    BY <1>5, <2>1, CompletingOK DEF mem_req_complete, PhaseOK, Phases
  <2> QED  BY <1>5, <2>2 DEF mem_req_complete, ptrs, PtrsOK
<1>6. CASE \E blk \in Blocks : MemoryDataBusUpdate(blk)
  BY <1>6 DEF MemoryDataBusUpdate, control, ptrs, PhaseOK, PtrsOK
<1>7. CASE dramUpdate
  BY <1>7 DEF dramUpdate, below, ptrs, PhaseOK, PtrsOK, Phases
<1>8. CASE resetBankConflictRecorder
  <2>1. phase = "send" /\ level' = llc /\ i' = i /\ phase' \in {"popAck", "pushAck"}
        /\ (phase' = "popAck" => level' > 0) /\ cacheReqVec' = cacheReqVec /\ reqAckStack' = reqAckStack
    BY <1>8 DEF resetBankConflictRecorder, StartAckLevel, below
  <2>2. PhaseOK'
    BY <1>1, <1>2, <2>1 DEF PhaseOK, Phases
  <2> QED  BY <1>8, <2>2 DEF resetBankConflictRecorder, ptrs, PtrsOK
<1>9. CASE PopAckQueue
  <2>1. phase = "popAck" /\ phase' = Refilling(cacheReqVec') /\ level' = level /\ i' = i
        /\ reqAckStack' = reqAckStack
    BY <1>9 DEF PopAckQueue, below
  <2>2. PhaseOK'
    BY <2>1 DEF PhaseOK, Phases, Refilling
  <2>3. (ackQueueBankPtr[level] + 1) % NumBanks[level] \in Banks(level)
    <3>1. ackQueueBankPtr[level] \in Nat /\ NumBanks[level] \in Nat \ {0}
      BY <1>1, Geometry DEF PtrsOK, Banks
    <3> QED  BY <3>1, ModRange DEF Banks
  <2>4. ackQueueBankPtr' = [ackQueueBankPtr EXCEPT ![level] = (@ + 1) % NumBanks[level]]
        /\ mshrRdPtr' = mshrRdPtr /\ reqQueueBankPtr' = reqQueueBankPtr
    BY <1>9 DEF PopAckQueue
  <2>5. PtrsOK'
    BY <2>3, <2>4 DEF PtrsOK
  <2> QED  BY <2>2, <2>5
<1>10. CASE Refill
  <2>1. phase = "refill" /\ phase' = Refilling(cacheReqVec') /\ level' = level /\ i' = i
        /\ reqAckStack' = reqAckStack /\ level > 0
    BY <1>10 DEF Refill, PhaseOK
  <2>2. PhaseOK'
    BY <2>1 DEF PhaseOK, Phases, Refilling
  <2> QED  BY <1>10, <2>2 DEF Refill, ptrs, PtrsOK
<1>11. CASE PushAckQueue
  <2>1. (mshrRdPtr[level] + 1) % EntryNum[level] \in Entries(level)
    <3>1. mshrRdPtr[level] \in Nat /\ EntryNum[level] \in Nat \ {0}
      BY <1>1, Geometry DEF PtrsOK, Entries
    <3> QED  BY <3>1, ModRange DEF Entries
  <2>2. /\ mshrRdPtr' = [mshrRdPtr EXCEPT ![level] = (@ + 1) % EntryNum[level]]
        /\ reqQueueBankPtr' = reqQueueBankPtr /\ ackQueueBankPtr' = ackQueueBankPtr
    BY <1>11 DEF PushAckQueue
  <2>3. PtrsOK'
    BY <2>1, <2>2 DEF PtrsOK
  <2>4. /\ phase = "pushAck" /\ i' = i /\ cacheReqVec' = cacheReqVec /\ reqAckStack' = reqAckStack
        /\ level' \in Levels /\ phase' \in {"popAck", "pushAck", "outstanding"}
        /\ phase' = "popAck" => level' > 0
    <3>1. /\ phase = "pushAck" /\ i' = i /\ cacheReqVec' = cacheReqVec /\ reqAckStack' = reqAckStack
          /\ \/ level > 0 /\ StartAckLevel(level - 1)
             \/ level = 0 /\ phase' = "outstanding" /\ level' = level
      BY <1>11 DEF PushAckQueue, below
    <3>2. level > 0 => level - 1 \in Levels
      BY <1>1 DEF Levels
    <3> QED  BY <1>1, <3>1, <3>2 DEF StartAckLevel
  <2>5. PhaseOK'
    BY <1>2, <2>4 DEF PhaseOK, Phases
  <2> QED  BY <2>3, <2>5
<1>12. CASE SendOutstandingDown
  <2>1. /\ phase = "outstanding" /\ phase' = phase /\ level' = level + 1 /\ level < llc /\ i' = i
        /\ cacheReqVec' = cacheReqVec /\ reqAckStack' = reqAckStack
    BY <1>12 DEF SendOutstandingDown, below
  <2>2. level' \in Levels
    BY <1>1, <2>1 DEF Levels
  <2>3. PhaseOK'
    BY <1>2, <2>1, <2>2 DEF PhaseOK, Phases
  <2> QED  BY <1>12, <2>3 DEF SendOutstandingDown, ptrs, PtrsOK
<1>13. CASE SendOutstandingToMem
  <2>1. /\ phase = "outstanding" /\ phase' = "request" /\ level' = 0 /\ i' = 0
        /\ cacheReqVec' = cacheReqVec /\ reqAckStack' = reqAckStack
    BY <1>13 DEF SendOutstandingToMem
  <2>2. PhaseOK'
    BY <1>1, <1>2, <2>1 DEF PhaseOK, Phases
  <2> QED  BY <1>13, <2>2 DEF SendOutstandingToMem, ptrs, PtrsOK
<1>14. CASE updateReqQueueStall
  BY <1>14, EndLevelOK DEF updateReqQueueStall, below
<1>15. CASE updateReqQueueSkip
  BY <1>15, EndLevelOK DEF updateReqQueueSkip, below
<1>16. CASE updateReqQueueHit
  BY <1>16, EndLevelOK, Zenon DEF updateReqQueueHit, below
<1>17. CASE updateReqQueueMiss
  BY <1>17, EndLevelOK, Zenon DEF updateReqQueueMiss, below
<1>18. CASE \E n \in 0 .. ReqQueue2MemSize : sendReq2Mem(n)
  <2>1. /\ phase = "toMem" /\ phase' = "callBack" /\ level' = level /\ i' = i
        /\ cacheReqVec' = cacheReqVec /\ reqAckStack' = reqAckStack
    BY <1>18 DEF sendReq2Mem
  <2>2. PhaseOK'
    BY <2>1 DEF PhaseOK, Phases
  <2> QED  BY <1>18, <2>2 DEF sendReq2Mem, ptrs, PtrsOK
<1> QED
  BY <1>3, <1>4, <1>5, <1>6, <1>7, <1>8, <1>9, <1>10, <1>11, <1>12, <1>13, <1>14, <1>15, <1>16,
     <1>17, <1>18 DEF Next, Round

-----------------------------------------------------------------------------
(* The lines, and the address of a block that is written back. *)

\* A line index is less than the number of lines.
LEMMA LineIndex ==
    ASSUME NEW n \in Nat \ {0}, NEW w \in Nat \ {0}, NEW s \in 0 .. n - 1, NEW v \in 0 .. w - 1
    PROVE  s * w + v \in Nat /\ s * w + v < n * w
<1> DEFINE d == n - 1 - s
<1>1. d \in Nat /\ n = s + d + 1
  OBVIOUS
<1> HIDE DEF d
<1>2. s * w \in Nat /\ d * w \in Nat
  BY <1>1
<1>3. (s + d + 1) * w = s * w + d * w + w
  BY <1>1
<1>4. n * w = s * w + d * w + w
  BY <1>1, <1>3
<1> QED  BY <1>2, <1>4

\* What writeBackDirtyCacheline sends is a request: the address of the victim is
\* a block, as its set and way are within the geometry.
LEMMA WriteBackType ==
    ASSUME NEW l \in Levels, SetsOK(lines[l], l), NEW blk \in Blocks, Full(l, blk)
    PROVE  WriteBack(l, blk) \in CacheReq /\ Victim(l, blk) \in CacheLine(l)
           /\ WriteBack(l, blk).op = "WRITEBACK_DIRTY_BLOCK"
<1> DEFINE v == Victim(l, blk)
           s == getCacheSetIndex(blk, l)
           n == NumSets[l]
           w == Ways[l]
<1>1. n \in Nat \ {0} /\ w \in Nat \ {0} /\ n * w <= NumBlocks /\ NumBlocks \in Nat
  BY Geometry
<1>2. s \in Sets(l)
  BY AnInvalid, BankOf
<1>3. v \in CacheLine(l)
  <2>1. lines[l][s] \in Seq(CacheLine(l)) /\ Len(lines[l][s]) = w
    BY <1>2 DEF SetsOK, Full, Set
  <2>2. lines[l][s] # <<>>
    BY <2>1, <1>1, EmptySeq
  <2> QED  BY <2>1, <2>2, HeadTailProperties DEF Victim, Set
<1>4. v.blk \in Blocks /\ v.way \in 0 .. w - 1 /\ v.blk \in Nat /\ v.blk < NumBlocks
  BY <1>1, <1>3 DEF CacheLine, Blocks
<1>5. s \in 0 .. n - 1
  BY <1>2 DEF Sets
<1> DEFINE tag == getCacheTag(v.blk, l)
<1>6. tag * n \in Blocks
  <2>1. tag = v.blk \div n
    BY DEF getCacheTag
  <2> HIDE DEF tag, n, v
  <2>2. /\ tag \in Nat /\ v.blk = n * tag + (v.blk % n) /\ v.blk % n \in Nat
    <3> DEFINE a == v.blk
    <3>1. n \in Nat \ {0} /\ a \in Nat /\ tag = a \div n
      BY <2>1, <1>1, <1>4
    <3> HIDE DEF a
    <3>2. a % n \in 0 .. n - 1 /\ a \div n \in Nat /\ a = n * (a \div n) + (a % n)
      BY ONLY <3>1, ModDivision
    <3>3. a % n \in Nat
      BY ONLY <3>1, <3>2
    <3>4. a = n * tag + (a % n) /\ tag \in Nat
      BY ONLY <3>1, <3>2
    <3> QED  BY <3>3, <3>4 DEF a
  <2>3. n * tag = tag * n /\ n * tag \in Nat
    BY <2>2, <1>1
  <2> DEFINE r == v.blk % n
             x == tag * n
             y == v.blk
  <2>4. x \in Nat /\ r \in Nat /\ y = x + r /\ y < NumBlocks
    BY <2>2, <2>3, <1>4
  <2> HIDE DEF r, x, y
  <2>5. x \in Blocks
    BY <2>4, <1>1 DEF Blocks
  <2> QED  BY <2>5 DEF x
<1>7. s * w + v.way \in Blocks
  <2>1. s * w + v.way \in Nat /\ s * w + v.way < n * w
    BY <1>1, <1>4, <1>5, LineIndex
  <2> DEFINE x == s * w + v.way
             y == n * w
  <2>2. x \in Nat /\ x < y /\ y <= NumBlocks /\ y \in Nat
    BY <2>1, <1>1
  <2> HIDE DEF x, y
  <2>3. x \in Blocks
    BY <2>2, <1>1 DEF Blocks
  <2> QED  BY <2>3 DEF x
<1>8. Or(tag * n, s * w + v.way) \in Blocks
  BY <1>6, <1>7, OrAssumption
<1>9. WriteBack(l, blk) = [id |-> NoId, op |-> "WRITEBACK_DIRTY_BLOCK", blk |-> Or(tag * n, s * w + v.way)]
  BY DEF WriteBack
<1> HIDE DEF tag, n, s, w, v
<1> DEFINE o == Or(tag * n, s * w + v.way)
<1> HIDE DEF o
<1>10. WriteBack(l, blk) = [id |-> NoId, op |-> "WRITEBACK_DIRTY_BLOCK", blk |-> o] /\ o \in Blocks
  BY <1>8, <1>9 DEF o
<1> QED  BY <1>3, <1>10 DEF CacheReq, Ops, v

\* A step that changes one set of one level.
LEMMA OneSetTyped ==
    ASSUME AllSetsOK, NEW l \in Levels, NEW s \in Sets(l), NEW q \in Seq(CacheLine(l)), Len(q) <= Ways[l],
           lines' = [lines EXCEPT ![l][s] = q]
    PROVE  AllSetsOK'
<1>1. DOMAIN lines' = Levels
  BY DEF AllSetsOK
<1>2. ASSUME NEW m \in Levels PROVE SetsOK(lines'[m], m)
  <2>1. CASE m = l
    <3>1. lines'[l] = [lines[l] EXCEPT ![s] = q] /\ SetsOK(lines[l], l)
      BY DEF AllSetsOK
    <3> QED  BY <2>1, <3>1 DEF SetsOK
  <2>2. CASE m # l
    <3>1. lines'[m] = lines[m]
      BY <2>2 DEF AllSetsOK
    <3> QED  BY <3>1 DEF AllSetsOK
  <2> QED  BY <2>1, <2>2
<1> QED  BY <1>1, <1>2 DEF AllSetsOK

\* set_cache_line keeps the sets typed, no longer than their ways.
LEMMA FillTyped ==
    ASSUME AllSetsOK, NEW l \in Levels, NEW blk \in Blocks, set_cache_line(l, blk)
    PROVE  AllSetsOK'
<1> DEFINE s == getCacheSetIndex(blk, l)
           q == lines[l][s]
           x == [way |-> FreeWay(l, blk), blk |-> blk, dirty |-> FALSE]
           p == Append(IF Full(l, blk) THEN Tail(q) ELSE q, x)
<1>1. lines' = [lines EXCEPT ![l][s] = p]
  BY DEF set_cache_line, Set, AllSetsOK
<1>2. s \in Sets(l) /\ Ways[l] \in Nat \ {0}
  BY AnInvalid, BankOf, Geometry
<1>3. q \in Seq(CacheLine(l)) /\ Len(q) <= Ways[l] /\ Len(q) \in Nat /\ Set(l, blk) = q
  BY <1>2, LenProperties DEF AllSetsOK, SetsOK, Set
<1>4. x \in CacheLine(l)
  <2>1. FreeWay(l, blk) \in 0 .. Ways[l] - 1
    <3>1. CASE Full(l, blk)
      <4>1. Victim(l, blk) \in CacheLine(l)
        BY <3>1, WriteBackType DEF AllSetsOK
      <4> QED  BY <3>1, <4>1 DEF FreeWay, CacheLine
    <3>2. CASE ~Full(l, blk)
      <4>1. Len(q) # Ways[l] /\ FreeWay(l, blk) = Len(q)
        BY <3>2, <1>3 DEF FreeWay, Full
      <4> QED  BY <4>1, <1>2, <1>3
    <3> QED  BY <3>1, <3>2
  <2> QED  BY <2>1 DEF CacheLine
<1>5. p \in Seq(CacheLine(l)) /\ Len(p) <= Ways[l]
  <2> HIDE DEF x
  <2>1. CASE Full(l, blk)
    <3>1. q # <<>> /\ Len(q) = Ways[l]
      BY <2>1, <1>2, <1>3, EmptySeq DEF Full
    <3>2. Tail(q) \in Seq(CacheLine(l)) /\ Len(Tail(q)) = Len(q) - 1
      BY <3>1, <1>3, HeadTailProperties
    <3>3. p = Append(Tail(q), x)
      BY <2>1
    <3> HIDE DEF q, p
    <3> QED  BY <3>1, <3>2, <3>3, <1>2, <1>4, AppendProperties
  <2>2. CASE ~Full(l, blk)
    <3>1. p = Append(q, x) /\ Len(q) # Ways[l]
      BY <2>2, <1>3 DEF Full
    <3> HIDE DEF q, p
    <3> QED  BY <3>1, <1>2, <1>3, <1>4, AppendProperties
  <2> QED  BY <2>1, <2>2
<1> HIDE DEF p, s
<1> QED  BY <1>1, <1>2, <1>5, OneSetTyped

\* A block that is to be filled is taken from the front of a queue.
LEMMA FillBlocks ==
    ASSUME TypeInv
    PROVE  /\ mem_req_complete => Head(reqAckStack) \in Blocks /\ reqAckStack # <<>>
                                  /\ reqAckStack \in Seq(Blocks)
           /\ Refill => /\ Head(cacheReqVec) \in CacheReq /\ Head(cacheReqVec).blk \in Blocks
                        /\ cacheReqVec # <<>> /\ cacheReqVec \in Seq(CacheReq)
                        /\ level - 1 \in Levels /\ level = (level - 1) + 1 /\ level - 1 < llc
<1>1. reqAckStack \in Seq(Blocks) /\ cacheReqVec \in Seq(CacheReq)
  BY DEF TypeInv, BelowOK
<1>2. ASSUME mem_req_complete PROVE Head(reqAckStack) \in Blocks /\ reqAckStack # <<>>
  <2>1. reqAckStack # <<>>
    BY <1>2 DEF mem_req_complete, TypeInv, PhaseOK
  <2> QED  BY <1>1, <2>1, HeadTailProperties
<1>3. ASSUME Refill PROVE Head(cacheReqVec) \in CacheReq /\ cacheReqVec # <<>>
  <2>1. cacheReqVec # <<>>
    BY <1>3 DEF Refill, TypeInv, PhaseOK
  <2> QED  BY <1>1, <2>1, HeadTailProperties
<1>4. ASSUME Refill PROVE level - 1 \in Levels /\ level = (level - 1) + 1 /\ level - 1 < llc
  <2>1. level \in Levels /\ level > 0
    BY <1>4 DEF Refill, TypeInv, PhaseOK
  <2> QED  BY <2>1, Geometry DEF Levels
<1>5. \A x \in CacheReq : x.blk \in Blocks
  BY DEF CacheReq
<1> QED  BY <1>1, <1>2, <1>3, <1>4, <1>5

\* Every step keeps the sets typed.
LEMMA SetsStep ==
    ASSUME TypeInv, Next
    PROVE  AllSetsOK'
<1>1. AllSetsOK /\ level \in Levels /\ llc \in Levels
  BY LevelFacts DEF TypeInv, PhaseOK
<1>2. ASSUME lines' = lines PROVE AllSetsOK'
  BY <1>1, <1>2 DEF AllSetsOK
<1>3. ASSUME NEW l \in Levels, NEW blk \in Blocks, setCacheBlock(l, blk) PROVE AllSetsOK'
  BY <1>1, <1>2, <1>3, FillTyped DEF setCacheBlock
<1>4. CASE mem_req_complete
  <2>1. lines' = lines \/ setCacheBlock(llc, Head(reqAckStack))
    BY <1>4 DEF mem_req_complete
  <2> QED  BY <2>1, <1>1, <1>2, <1>3, <1>4, FillBlocks
<1>5. CASE Refill
  <2>1. setCacheBlock(level - 1, Head(cacheReqVec).blk)
    BY <1>5 DEF Refill
  <2> QED  BY <2>1, <1>3, <1>5, FillBlocks
<1>6. CASE updateReqQueueHit
  <2> DEFINE req == Head(reqQueue[level][Bank]).req
             s == getCacheSetIndex(req.blk, level)
             q == lines[level][s]
             p == [k \in DOMAIN q |-> IF Writes(req) /\ k \in Hits(level, req.blk)
                                      THEN [q[k] EXCEPT !.dirty = TRUE] ELSE q[k]]
  <2>1. lines' = [lines EXCEPT ![level][s] = p]
    BY <1>6, Zenon DEF updateReqQueueHit
  <2>2. CASE s \in Sets(level)
    <3>1. q \in Seq(CacheLine(level)) /\ Len(q) <= Ways[level]
      BY <1>1, <2>2 DEF AllSetsOK, SetsOK
    <3>2. \A x \in CacheLine(level) : [x EXCEPT !.dirty = TRUE] \in CacheLine(level)
      BY DEF CacheLine
    <3>3. \A k \in DOMAIN q : q[k] \in CacheLine(level)
      BY <3>1, ElementOfSeq, LenProperties
    <3> HIDE DEF q
    <3>4. \A k \in DOMAIN q : p[k] \in CacheLine(level)
      BY <3>2, <3>3
    <3>5. p = [k \in DOMAIN q |-> p[k]]
      OBVIOUS
    <3> HIDE DEF p
    <3>6. p \in Seq(CacheLine(level))
      BY <3>1, <3>4, <3>5, QueueOfSameLength
    <3>7. Len(p) = Len(q)
      <4>1. DOMAIN p = DOMAIN q
        BY <3>5
      <4> QED  BY <4>1, <3>1, <3>6, LenProperties
    <3> HIDE DEF s
    <3> QED  BY <1>1, <2>1, <2>2, <3>1, <3>6, <3>7, OneSetTyped
  <2>3. CASE s \notin Sets(level)
    <3> HIDE DEF p, s
    <3>1. DOMAIN lines' = Levels /\ \A l \in Levels : SetsOK(lines'[l], l)
      <4>1. lines'[level] = [lines[level] EXCEPT ![s] = p]
        BY <1>1, <2>1 DEF AllSetsOK
      <4>2. lines[level] \in [Sets(level) -> Seq(CacheLine(level))]
        BY <1>1 DEF AllSetsOK, SetsOK
      <4>3. lines'[level] = lines[level]
        BY <4>1, <4>2, <2>3
      <4>4. \A l \in Levels \ {level} : lines'[l] = lines[l]
        BY <2>1, <1>1 DEF AllSetsOK
      <4>5. DOMAIN lines' = Levels
        BY <2>1, <1>1 DEF AllSetsOK
      <4> QED  BY <4>3, <4>4, <4>5, <1>1 DEF AllSetsOK
    <3> QED  BY <3>1 DEF AllSetsOK
  <2> QED  BY <2>2, <2>3
<1>7. CASE \E served \in SUBSET Banks(0) : callBack(served)
  BY <1>2, <1>7 DEF callBack
<1>8. CASE \E blk \in Blocks : MemoryDataBusUpdate(blk)
  BY <1>2, <1>8 DEF MemoryDataBusUpdate
<1>9. CASE dramUpdate \/ resetBankConflictRecorder
  BY <1>2, <1>9, Zenon DEF dramUpdate, resetBankConflictRecorder
<1>10. CASE PopAckQueue \/ PushAckQueue
  BY <1>2, <1>10, Zenon DEF PopAckQueue, PushAckQueue
<1>11. CASE SendOutstandingDown \/ SendOutstandingToMem
  BY <1>2, <1>11 DEF SendOutstandingDown, SendOutstandingToMem
<1>12. CASE updateReqQueueStall \/ updateReqQueueSkip \/ updateReqQueueMiss
  BY <1>2, <1>12 DEF updateReqQueueStall, updateReqQueueSkip, updateReqQueueMiss
<1>13. CASE \E n \in 0 .. ReqQueue2MemSize : sendReq2Mem(n)
  BY <1>2, <1>13 DEF sendReq2Mem
<1>14. CASE \E r \in Reqs, blk \in Blocks, op \in Accesses : addTransaction(r, blk, op)
  BY <1>2, <1>14 DEF addTransaction
<1> QED
  BY <1>4, <1>5, <1>6, <1>7, <1>8, <1>9, <1>10, <1>11, <1>12, <1>13, <1>14 DEF Next, Round

-----------------------------------------------------------------------------
(* The request queues. *)

\* One queue of one level gets a request.
LEMMA SendTyped ==
    ASSUME AllQueuesOK, ConflictOK, NEW l \in Levels, NEW req \in CacheReq, sendReq2CacheBank(req, l)
    PROVE  AllQueuesOK' /\ ConflictOK'
<1> DEFINE b == getCacheBank(req.blk, l)
           x == Queued(l, req)
<1>1. b \in Banks(l)
  <2>1. req.blk \in Nat
    BY AnInvalid DEF CacheReq
  <2> QED  BY <2>1, BankOf
<1>2. x \in QueuedReq(l)
  BY Geometry DEF Queued, QueuedReq
<1>3. /\ Len(reqQueue[l][b]) < ReqQueueSize[l]
      /\ reqQueue' = [reqQueue EXCEPT ![l][b] = Append(@, x)]
      /\ reqBankConflict' = [reqBankConflict EXCEPT ![l] = @ \cup {b}]
  BY DEF sendReq2CacheBank, BankFree
<1> HIDE DEF b, x
<1>4. ConflictOK'
  BY <1>1, <1>3 DEF ConflictOK
<1>5. QueuesOK(reqQueue'[l], l)
  <2>1. QueuesOK(reqQueue[l], l) /\ reqQueue'[l] = [reqQueue[l] EXCEPT ![b] = Append(@, x)]
    BY <1>3 DEF AllQueuesOK
  <2> DEFINE q == reqQueue[l][b]
             n == ReqQueueSize[l]
  <2>2. q \in Seq(QueuedReq(l)) /\ Len(q) < n /\ n \in Nat
    BY <1>1, <1>3, <2>1, Geometry DEF QueuesOK
  <2>3. Append(q, x) \in Seq(QueuedReq(l)) /\ Len(Append(q, x)) <= n
    <3> HIDE DEF q, n
    <3>1. Append(q, x) \in Seq(QueuedReq(l)) /\ Len(Append(q, x)) = Len(q) + 1 /\ Len(q) \in Nat
      BY <1>2, <2>2, AppendProperties, LenProperties
    <3> QED  BY <2>2, <3>1
  <2> QED  BY <1>1, <2>1, <2>3 DEF QueuesOK
<1>6. \A m \in Levels \ {l} : reqQueue'[m] = reqQueue[m]
  BY <1>3 DEF AllQueuesOK
<1>7. DOMAIN reqQueue' = Levels
  BY <1>3 DEF AllQueuesOK
<1> QED  BY <1>4, <1>5, <1>6, <1>7 DEF AllQueuesOK

\* A dirty victim may be sent below.
LEMMA BlockTyped ==
    ASSUME TypeInv, NEW l \in Levels, NEW blk \in Blocks, setCacheBlock(l, blk)
    PROVE  /\ AllQueuesOK' /\ ConflictOK'
           /\ \/ reqQueue2Mem' = reqQueue2Mem
              \/ /\ Len(reqQueue2Mem) < ReqQueue2MemSize
                 /\ \E x \in MemTransaction : reqQueue2Mem' = Append(reqQueue2Mem, x)
<1>1. CASE UNCHANGED <<reqQueue, reqBankConflict, reqQueue2Mem>>
  BY <1>1 DEF TypeInv, AllQueuesOK, ConflictOK
<1>2. CASE Evicts(l, blk) /\ writeBackDirtyCacheline(l, blk)
  <2>1. WriteBack(l, blk) \in CacheReq
    BY <1>2, WriteBackType DEF Evicts, TypeInv, AllSetsOK
  <2>2. CASE l < llc /\ sendReq2CacheBank(WriteBack(l, blk), l + 1) /\ UNCHANGED reqQueue2Mem
    <3>1. l + 1 \in Levels
      BY <2>2, Geometry DEF Levels
    <3> QED  BY <2>1, <2>2, <3>1, SendTyped DEF TypeInv
  <2>3. CASE l = llc /\ sendReq2reqQueue2Mem(WriteBack(l, blk)) /\ UNCHANGED <<reqQueue, reqBankConflict>>
    <3>1. transCacheReq2MemReq(WriteBack(l, blk)) \in MemTransaction
      BY <2>1 DEF transCacheReq2MemReq, MemTransaction, isWrite, CacheReq
    <3>2. /\ Len(reqQueue2Mem) < ReqQueue2MemSize
          /\ reqQueue2Mem' = Append(reqQueue2Mem, transCacheReq2MemReq(WriteBack(l, blk)))
      BY <2>3 DEF sendReq2reqQueue2Mem
    <3> QED  BY <2>3, <3>1, <3>2 DEF TypeInv, AllQueuesOK, ConflictOK
  <2> QED  BY <1>2, <2>2, <2>3 DEF writeBackDirtyCacheline
<1> QED  BY <1>1, <1>2 DEF setCacheBlock

\* The bank served next is a bank of the level.
LEMMA BankTyped ==
    ASSUME PhaseOK, PtrsOK
    PROVE  Bank \in Banks(level) /\ level \in Levels
<1>1. level \in Levels /\ reqQueueBankPtr[level] \in Nat /\ i \in Nat /\ NumBanks[level] \in Nat \ {0}
  BY Geometry DEF PhaseOK, PtrsOK, Banks
<1>2. reqQueueBankPtr[level] + i \in Nat
  BY <1>1
<1> QED  BY <1>1, <1>2, ModRange DEF Bank, Banks

\* What is taken from a queue, and what it leaves.
LEMMA TakenTyped ==
    ASSUME NEW S, NEW q \in Seq(S), NEW n \in Nat, Len(q) <= n, q # <<>>
    PROVE  Head(q) \in S /\ Tail(q) \in Seq(S) /\ Len(Tail(q)) <= n /\ Len(Tail(q)) = Len(q) - 1
<1>1. Head(q) \in S /\ Tail(q) \in Seq(S) /\ Len(Tail(q)) = Len(q) - 1 /\ Len(q) \in Nat
  BY HeadTailProperties, LenProperties
<1> QED  BY <1>1

\* What is added to a queue with room.
LEMMA AddedTyped ==
    ASSUME NEW S, NEW q \in Seq(S), NEW n \in Nat, Len(q) < n, NEW x \in S
    PROVE  Append(q, x) \in Seq(S) /\ Len(Append(q, x)) <= n
<1>1. Append(q, x) \in Seq(S) /\ Len(Append(q, x)) = Len(q) + 1 /\ Len(q) \in Nat
  BY AppendProperties, LenProperties
<1> QED  BY <1>1

\* The front request of an entry in use.
LEMMA FrontTyped ==
    ASSUME AllEntriesOK, NEW l \in Levels, NEW e \in Entries(l), mshr[l][e].valid
    PROVE  /\ Front(l, e) \in CacheReq /\ Front(l, e).blk = mshr[l][e].blockAddr
           /\ mshr[l][e].mshrQueue # <<>> /\ mshr[l][e].mshrQueue \in Seq(CacheReq)
           /\ mshr[l][e].blockAddr \in Blocks /\ getCacheBank(Front(l, e).blk, l) \in Banks(l)
           /\ l < llc => getCacheBank(Front(l, e).blk, l + 1) \in Banks(l + 1)
<1> DEFINE x == mshr[l][e]
<1>1. EntryOK(x, l)
  BY DEF AllEntriesOK, EntriesOK
<1>2. x.mshrQueue \in Seq(CacheReq) /\ x.mshrQueue # <<>> /\ x.blockAddr \in Blocks
  BY <1>1 DEF EntryOK, MshrEntry
<1>3. Head(x.mshrQueue) \in CacheReq /\ Head(x.mshrQueue) = x.mshrQueue[1] /\ 1 \in 1 .. Len(x.mshrQueue)
  BY <1>2, TailPositions, HeadTailProperties, LenProperties
<1>4. Front(l, e) \in CacheReq /\ Front(l, e).blk = x.blockAddr
  BY <1>1, <1>3 DEF EntryOK, Front
<1>5. Front(l, e).blk \in Nat
  BY <1>2, <1>4, AnInvalid
<1>6. l < llc => l + 1 \in Levels
  BY Geometry DEF Levels
<1> QED  BY <1>2, <1>4, <1>5, <1>6, BankOf

\* A step that changes the queues of one level.
LEMMA OneLevelQueues ==
    ASSUME AllQueuesOK, NEW l \in Levels, NEW q, QueuesOK(q, l), reqQueue' = [reqQueue EXCEPT ![l] = q]
    PROVE  AllQueuesOK'
BY DEF AllQueuesOK

\* Counting down the latencies keeps the request queues typed.
LEMMA LatencyTyped ==
    ASSUME AllQueuesOK, updateReqQueueLatency
    PROVE  AllQueuesOK'
<1>1. ASSUME NEW l \in Levels PROVE QueuesOK(reqQueue'[l], l)
  <2>1. QueuesOK(reqQueue[l], l) /\ Latency[l] \in Nat /\ ReqQueueSize[l] \in Nat
    BY Geometry DEF AllQueuesOK
  <2>2. reqQueue'[l] = [b \in Banks(l) |-> [k \in DOMAIN reqQueue[l][b] |->
            [reqQueue[l][b][k] EXCEPT !.lat = IF @ = 0 THEN 0 ELSE @ - 1]]]
    BY DEF updateReqQueueLatency
  <2>3. ASSUME NEW x \in QueuedReq(l), NEW y, y = [x EXCEPT !.lat = IF @ = 0 THEN 0 ELSE @ - 1]
        PROVE  y \in QueuedReq(l)
    BY <2>1, <2>3 DEF QueuedReq
  <2>4. ASSUME NEW b \in Banks(l)
        PROVE  reqQueue'[l][b] \in Seq(QueuedReq(l)) /\ Len(reqQueue'[l][b]) = Len(reqQueue[l][b])
    <3>1. reqQueue[l][b] \in Seq(QueuedReq(l))
      BY <2>1 DEF QueuesOK
    <3>2. \A k \in DOMAIN reqQueue[l][b] : reqQueue[l][b][k] \in QueuedReq(l)
      BY <3>1, ElementOfSeq, LenProperties
    <3>3. reqQueue'[l][b] = [k \in DOMAIN reqQueue[l][b] |-> reqQueue'[l][b][k]]
      BY <2>2
    <3>4. ASSUME NEW k \in DOMAIN reqQueue[l][b] PROVE reqQueue'[l][b][k] \in QueuedReq(l)
      <4>1. reqQueue'[l][b][k] = [reqQueue[l][b][k] EXCEPT !.lat = IF @ = 0 THEN 0 ELSE @ - 1]
        BY <2>2
      <4> QED  BY <4>1, <3>2, <2>3
    <3>5. reqQueue'[l][b] \in Seq(QueuedReq(l))
      BY <3>1, <3>3, <3>4, QueueOfSameLength
    <3>6. DOMAIN reqQueue'[l][b] = DOMAIN reqQueue[l][b]
      BY <2>2
    <3> QED  BY <3>1, <3>5, <3>6, LenProperties
  <2> QED  BY <2>1, <2>2, <2>4 DEF QueuesOK
<1> QED  BY <1>1 DEF AllQueuesOK, updateReqQueueLatency

\* Every step keeps the request queues within their configured size, and the
\* banks that conflict known.
LEMMA QueuesStep ==
    ASSUME TypeInv, Next
    PROVE  AllQueuesOK' /\ ConflictOK'
<1>0. /\ AllQueuesOK /\ ConflictOK /\ AllEntriesOK /\ level \in Levels /\ llc \in Levels /\ 0 \in Levels
      /\ Bank \in Banks(level)
  BY LevelFacts, BankTyped DEF TypeInv, PhaseOK
<1>a. ASSUME reqQueue' = reqQueue PROVE AllQueuesOK'
  BY <1>0, <1>a DEF AllQueuesOK
<1>b. ASSUME reqBankConflict' = reqBankConflict PROVE ConflictOK'
  BY <1>0, <1>b DEF ConflictOK
<1>c. QueuesOK(reqQueue[level], level) /\ ReqQueueSize[level] \in Nat
  BY <1>0, Geometry DEF AllQueuesOK
<1>1. CASE \E r \in Reqs, blk \in Blocks, op \in Accesses : addTransaction(r, blk, op)
  <2>1. PICK r \in Reqs, blk \in Blocks, op \in Accesses : addTransaction(r, blk, op)
    BY <1>1
  <2>2. [id |-> r, blk |-> blk, op |-> op] \in CacheReq
    BY LevelFacts DEF CacheReq, Ops
  <2> QED  BY <1>0, <2>1, <2>2, SendTyped DEF addTransaction
<1>2. CASE mem_req_complete
  <2>1. setCacheBlock(llc, Head(reqAckStack)) \/ UNCHANGED <<reqQueue, reqBankConflict>>
    BY <1>2 DEF mem_req_complete
  <2> QED  BY <1>0, <1>2, <1>a, <1>b, <2>1, BlockTyped, FillBlocks
<1>3. CASE Refill
  <2>1. setCacheBlock(level - 1, Head(cacheReqVec).blk)
    BY <1>3 DEF Refill
  <2> QED  BY <2>1, <1>3, BlockTyped, FillBlocks
<1>4. CASE PushAckQueue
  <2> DEFINE q == [b \in Banks(level) |-> IF ReadyReq(level, b) THEN Tail(reqQueue[level][b])
                                          ELSE reqQueue[level][b]]
  <2>1. reqQueue' = [reqQueue EXCEPT ![level] = q] /\ reqBankConflict' = reqBankConflict
    BY <1>4, <1>0 DEF PushAckQueue, AllQueuesOK
  <2>2. QueuesOK(q, level)
    <3> SUFFICES ASSUME NEW b \in Banks(level)
                 PROVE  q[b] \in Seq(QueuedReq(level)) /\ Len(q[b]) <= ReqQueueSize[level]
      BY DEF QueuesOK
    <3>1. reqQueue[level][b] \in Seq(QueuedReq(level)) /\ Len(reqQueue[level][b]) <= ReqQueueSize[level]
      BY <1>c DEF QueuesOK
    <3>2. CASE ReadyReq(level, b)
      <4>1. reqQueue[level][b] # <<>>
        BY <3>2 DEF ReadyReq
      <4> QED  BY <1>c, <3>1, <3>2, <4>1, TakenTyped
    <3> QED  BY <3>1, <3>2
  <2> HIDE DEF q
  <2> QED  BY <1>0, <1>b, <2>1, <2>2, OneLevelQueues
<1>5. CASE SendOutstandingDown
  <2> DEFINE m == level + 1
             sent == SentDown(level)
             To(b) == {e \in sent : getCacheBank(Front(level, e).blk, m) = b}
             q == [b \in Banks(m) |-> IF To(b) = {} THEN reqQueue[m][b]
                      ELSE Append(reqQueue[m][b], Queued(m, Front(level, CHOOSE e \in To(b) : TRUE)))]
  <2>1. level < llc /\ m \in Levels
    BY <1>0, <1>5, Geometry DEF SendOutstandingDown, Levels
  <2>2. reqQueue' = [reqQueue EXCEPT ![m] = q]
    BY <1>5, <1>0, <2>1 DEF SendOutstandingDown, AllQueuesOK
  <2>3. reqBankConflict' = [reqBankConflict EXCEPT ![m] = @ \cup {b \in Banks(m) : To(b) # {}}]
    BY <1>5 DEF SendOutstandingDown
  <2>4. ConflictOK'
    BY <1>0, <2>1, <2>3 DEF ConflictOK
  <2>5. QueuesOK(q, m)
    <3> SUFFICES ASSUME NEW b \in Banks(m)
                 PROVE  q[b] \in Seq(QueuedReq(m)) /\ Len(q[b]) <= ReqQueueSize[m]
      BY DEF QueuesOK
    <3>1. /\ reqQueue[m][b] \in Seq(QueuedReq(m)) /\ Len(reqQueue[m][b]) <= ReqQueueSize[m]
          /\ ReqQueueSize[m] \in Nat
      BY <1>0, <2>1, Geometry DEF AllQueuesOK, QueuesOK
    <3>2. CASE To(b) # {}
      <4> DEFINE e == CHOOSE e \in To(b) : TRUE
                 x == Queued(m, Front(level, e))
      <4>1. e \in To(b) /\ q[b] = Append(reqQueue[m][b], x)
        BY <3>2
      <4>2. e \in Entries(level) /\ mshr[level][e].valid /\ BankFree(m, b)
        BY <4>1 DEF SentDown, Outstanding
      <4> HIDE DEF e
      <4>3. Front(level, e) \in CacheReq
        BY <1>0, <4>2, FrontTyped
      <4>4. x \in QueuedReq(m)
        BY <2>1, <4>3, Geometry DEF Queued, QueuedReq
      <4>5. Len(reqQueue[m][b]) < ReqQueueSize[m]
        BY <4>2 DEF BankFree
      <4> HIDE DEF x, q, m
      <4> QED  BY <3>1, <4>1, <4>4, <4>5, AddedTyped
    <3> QED  BY <3>1, <3>2
  <2> HIDE DEF q, m
  <2> QED  BY <1>0, <2>1, <2>2, <2>4, <2>5, OneLevelQueues
<1>6. CASE updateReqQueueHit
  <2> DEFINE s == reqQueue[level][Bank]
             t == [s EXCEPT ![1].ready = TRUE]
             q == [reqQueue[level] EXCEPT ![Bank] = t]
  <2>1. reqQueue' = [reqQueue EXCEPT ![level] = q] /\ reqBankConflict' = reqBankConflict
    BY <1>6, <1>0 DEF updateReqQueueHit, AllQueuesOK
  <2>2. s \in Seq(QueuedReq(level)) /\ Len(s) <= ReqQueueSize[level] /\ s # <<>>
    BY <1>0, <1>c, <1>6, Zenon DEF QueuesOK, updateReqQueueHit, Waits
  <2>3. t \in Seq(QueuedReq(level)) /\ Len(t) = Len(s)
    <3> HIDE DEF s
    <3>1. \A k \in DOMAIN s : s[k] \in QueuedReq(level)
      BY <2>2, ElementOfSeq, LenProperties
    <3>2. \A x \in QueuedReq(level) : [x EXCEPT !.ready = TRUE] \in QueuedReq(level)
      BY DEF QueuedReq
    <3>3. t = [k \in DOMAIN s |-> t[k]] /\ \A k \in DOMAIN s : t[k] \in QueuedReq(level)
      BY <3>1, <3>2
    <3>4. DOMAIN t = DOMAIN s
      OBVIOUS
    <3> HIDE DEF t
    <3>5. t \in Seq(QueuedReq(level))
      BY <2>2, <3>3, QueueOfSameLength
    <3> QED  BY <2>2, <3>4, <3>5, LenProperties
  <2> HIDE DEF t, s
  <2>4. QueuesOK(q, level)
    BY <1>0, <1>c, <2>2, <2>3 DEF QueuesOK
  <2> HIDE DEF q
  <2> QED  BY <1>0, <1>b, <2>1, <2>4, OneLevelQueues
<1>7. CASE updateReqQueueMiss
  <2> DEFINE s == reqQueue[level][Bank]
             q == [reqQueue[level] EXCEPT ![Bank] = Tail(s)]
  <2>1. reqQueue' = [reqQueue EXCEPT ![level] = q] /\ reqBankConflict' = reqBankConflict
    BY <1>7, <1>0, Zenon DEF updateReqQueueMiss, AllQueuesOK
  <2>2. s \in Seq(QueuedReq(level)) /\ Len(s) <= ReqQueueSize[level] /\ s # <<>>
    BY <1>0, <1>c, <1>7 DEF QueuesOK, updateReqQueueMiss, Waits
  <2>3. Tail(s) \in Seq(QueuedReq(level)) /\ Len(Tail(s)) <= ReqQueueSize[level]
    BY <1>c, <2>2, TakenTyped
  <2> HIDE DEF s
  <2>4. QueuesOK(q, level)
    BY <1>0, <1>c, <2>2, <2>3 DEF QueuesOK
  <2> HIDE DEF q
  <2> QED  BY <1>0, <1>b, <2>1, <2>4, OneLevelQueues
<1>8. CASE \E n \in 0 .. ReqQueue2MemSize : sendReq2Mem(n)
  BY <1>0, <1>8, <1>b, LatencyTyped DEF sendReq2Mem
<1>9. CASE \E served \in SUBSET Banks(0) : callBack(served)
  BY <1>a, <1>b, <1>9 DEF callBack
<1>10. CASE \E blk \in Blocks : MemoryDataBusUpdate(blk)
  BY <1>a, <1>b, <1>10 DEF MemoryDataBusUpdate, queues
<1>11. CASE dramUpdate
  BY <1>a, <1>b, <1>11 DEF dramUpdate, queues
<1>12. CASE resetBankConflictRecorder
  <2>1. reqQueue' = reqQueue /\ reqBankConflict' = [l \in Levels |-> {}]
    BY <1>12 DEF resetBankConflictRecorder, queues
  <2> QED  BY <1>a, <2>1 DEF ConflictOK
<1>13. CASE PopAckQueue
  BY <1>a, <1>b, <1>13, Zenon DEF PopAckQueue
<1>14. CASE SendOutstandingToMem
  BY <1>a, <1>b, <1>14 DEF SendOutstandingToMem, queues
<1>15. CASE updateReqQueueStall \/ updateReqQueueSkip
  BY <1>a, <1>b, <1>15 DEF updateReqQueueStall, updateReqQueueSkip, queues
<1> QED
  BY <1>1, <1>2, <1>3, <1>4, <1>5, <1>6, <1>7, <1>8, <1>9, <1>10, <1>11, <1>12, <1>13, <1>14, <1>15
     DEF Next, Round

-----------------------------------------------------------------------------
(* The acknowledge queues. *)

\* A step that changes the acknowledge queues of one level.
LEMMA OneLevelAcks ==
    ASSUME AllAcksOK, NEW l \in Levels, NEW q, AcksOK(q, l), ackQueue' = [ackQueue EXCEPT ![l] = q]
    PROVE  AllAcksOK'
BY DEF AllAcksOK

\* Acknowledges are taken from the front of some banks of a level.
LEMMA AcksTaken ==
    ASSUME AllAcksOK, NEW l \in Levels, NEW B, \A b \in B : ackQueue[l][b] # <<>>,
           ackQueue' = [ackQueue EXCEPT ![l] = [b \in Banks(l) |->
                           IF b \in B THEN Tail(ackQueue[l][b]) ELSE ackQueue[l][b]]]
    PROVE  AllAcksOK'
<1> DEFINE q == [b \in Banks(l) |-> IF b \in B THEN Tail(ackQueue[l][b]) ELSE ackQueue[l][b]]
<1>1. AckQueueSize[l] \in Nat
  BY Geometry
<1>2. ASSUME NEW b \in Banks(l) PROVE q[b] \in Seq(CacheReq) /\ Len(q[b]) <= AckQueueSize[l]
  <2>1. ackQueue[l][b] \in Seq(CacheReq) /\ Len(ackQueue[l][b]) <= AckQueueSize[l]
    BY DEF AllAcksOK, AcksOK
  <2>2. b \in B => Tail(ackQueue[l][b]) \in Seq(CacheReq) /\ Len(Tail(ackQueue[l][b])) <= AckQueueSize[l]
    BY <1>1, <2>1, TakenTyped
  <2> QED  BY <2>1, <2>2
<1>3. AcksOK(q, l)
  BY <1>2 DEF AcksOK
<1> HIDE DEF q
<1>4. ackQueue' = [ackQueue EXCEPT ![l] = q]
  BY DEF q
<1> QED  BY <1>3, <1>4, OneLevelAcks

\* An entry that is answered is in use, and answers the bank of its block.
LEMMA AnsweredTyped ==
    ASSUME AllEntriesOK, NEW l \in Levels, NEW b, NEW e \in AnsweredOf(l, b)
    PROVE  /\ e \in Entries(l) /\ mshr[l][e].valid /\ mshr[l][e].ready /\ ~IsWriteBack(l, e)
           /\ AckRoom(l, b) /\ getCacheBank(Front(l, e).blk, l) = b
           /\ Front(l, e) \in CacheReq /\ mshr[l][e].mshrQueue # <<>>
<1>1. /\ e \in Entries(l) /\ mshr[l][e].valid /\ mshr[l][e].ready /\ ~IsWriteBack(l, e)
      /\ AckRoom(l, b) /\ getCacheBank(Front(l, e).blk, l) = b
  BY DEF AnsweredOf, Ready
<1> QED  BY <1>1, FrontTyped

\* Every step keeps the acknowledge queues within their configured size: an
\* entry is acknowledged only to a bank with room.
LEMMA AcksStep ==
    ASSUME TypeInv, Next
    PROVE  AllAcksOK'
<1>0. /\ AllQueuesOK /\ AllAcksOK /\ AllEntriesOK /\ level \in Levels /\ llc \in Levels /\ 0 \in Levels
      /\ level \in DOMAIN ackQueue /\ 0 \in DOMAIN ackQueue
  BY LevelFacts DEF TypeInv, PhaseOK, AllAcksOK
<1>a. ASSUME ackQueue' = ackQueue PROVE AllAcksOK'
  BY <1>0, <1>a DEF AllAcksOK
<1>1. CASE \E served \in SUBSET Banks(0) : callBack(served)
  <2>1. PICK served \in SUBSET Banks(0) : callBack(served)
    BY <1>1
  <2> DEFINE B == {b \in served : ackQueue[0][b] # <<>>}
  <2>2. ackQueue' = [ackQueue EXCEPT ![0] = [b \in Banks(0) |->
                        IF b \in B THEN Tail(ackQueue[0][b]) ELSE ackQueue[0][b]]]
    BY <1>0, <2>1 DEF callBack
  <2>3. \A b \in B : ackQueue[0][b] # <<>>
    OBVIOUS
  <2> HIDE DEF B
  <2> QED  BY <1>0, <2>2, <2>3, AcksTaken
<1>2. CASE PopAckQueue
  <2> DEFINE B == {b \in Banks(level) : ackQueue[level][b] # <<>>}
  <2>2. ackQueue' = [ackQueue EXCEPT ![level] = [b \in Banks(level) |->
                        IF b \in B THEN Tail(ackQueue[level][b]) ELSE ackQueue[level][b]]]
    BY <1>0, <1>2 DEF PopAckQueue
  <2>3. \A b \in B : ackQueue[level][b] # <<>>
    OBVIOUS
  <2> HIDE DEF B
  <2> QED  BY <1>0, <2>2, <2>3, AcksTaken
<1>3. CASE PushAckQueue
  <2> DEFINE q == [b \in Banks(level) |->
           IF AnsweredOf(level, b) # {}
           THEN Append(ackQueue[level][b], Front(level, CHOOSE e \in AnsweredOf(level, b) : TRUE))
           ELSE IF ReadyReq(level, b) THEN Append(ackQueue[level][b], Head(reqQueue[level][b]).req)
           ELSE ackQueue[level][b]]
  <2>1. ackQueue' = [ackQueue EXCEPT ![level] = q]
    BY <1>0, <1>3 DEF PushAckQueue
  <2>2. AckQueueSize[level] \in Nat
    BY <1>0, Geometry
  <2>3. AcksOK(q, level)
    <3> SUFFICES ASSUME NEW b \in Banks(level)
                 PROVE  q[b] \in Seq(CacheReq) /\ Len(q[b]) <= AckQueueSize[level]
      BY DEF AcksOK
    <3> DEFINE p == ackQueue[level][b]
    <3>1. p \in Seq(CacheReq) /\ Len(p) <= AckQueueSize[level]
      BY <1>0 DEF AllAcksOK, AcksOK
    <3>2. CASE AnsweredOf(level, b) # {}
      <4> DEFINE e == CHOOSE e \in AnsweredOf(level, b) : TRUE
      <4>1. e \in AnsweredOf(level, b) /\ q[b] = Append(p, Front(level, e))
        BY <3>2
      <4> HIDE DEF e, q
      <4>2. Front(level, e) \in CacheReq /\ Len(p) < AckQueueSize[level]
        BY <1>0, <4>1, AnsweredTyped DEF AckRoom
      <4> HIDE DEF p
      <4> QED  BY <2>2, <3>1, <4>1, <4>2, AddedTyped
    <3>3. CASE AnsweredOf(level, b) = {} /\ ReadyReq(level, b)
      <4> DEFINE x == Head(reqQueue[level][b]).req
      <4>1. q[b] = Append(p, x)
        BY <3>3
      <4>2. x \in CacheReq
        <5>1. reqQueue[level][b] \in Seq(QueuedReq(level)) /\ reqQueue[level][b] # <<>>
          BY <1>0, <3>3 DEF AllQueuesOK, QueuesOK, ReadyReq
        <5>2. Head(reqQueue[level][b]) \in QueuedReq(level)
          BY <5>1, HeadTailProperties
        <5> QED  BY <5>2 DEF QueuedReq
      <4>3. Len(p) < AckQueueSize[level]
        BY <3>3 DEF ReadyReq, AckRoom
      <4> HIDE DEF p, x, q
      <4> QED  BY <2>2, <3>1, <4>1, <4>2, <4>3, AddedTyped
    <3> QED  BY <3>1, <3>2, <3>3
  <2> HIDE DEF q
  <2> QED  BY <1>0, <2>1, <2>3, OneLevelAcks
<1>4. CASE \E r \in Reqs, blk \in Blocks, op \in Accesses : addTransaction(r, blk, op)
  BY <1>a, <1>4 DEF addTransaction
<1>5. CASE mem_req_complete \/ Refill
  BY <1>a, <1>5 DEF mem_req_complete, Refill
<1>6. CASE \E blk \in Blocks : MemoryDataBusUpdate(blk)
  BY <1>a, <1>6 DEF MemoryDataBusUpdate, queues
<1>7. CASE dramUpdate \/ resetBankConflictRecorder
  BY <1>a, <1>7 DEF dramUpdate, resetBankConflictRecorder, queues
<1>8. CASE SendOutstandingDown \/ SendOutstandingToMem
  BY <1>a, <1>8 DEF SendOutstandingDown, SendOutstandingToMem, queues
<1>9. CASE updateReqQueueStall \/ updateReqQueueSkip
  BY <1>a, <1>9 DEF updateReqQueueStall, updateReqQueueSkip, queues
<1>10. CASE updateReqQueueHit \/ updateReqQueueMiss
  BY <1>a, <1>10, Zenon DEF updateReqQueueHit, updateReqQueueMiss
<1>11. CASE \E n \in 0 .. ReqQueue2MemSize : sendReq2Mem(n)
  BY <1>a, <1>11 DEF sendReq2Mem
<1> QED
  BY <1>1, <1>2, <1>3, <1>4, <1>5, <1>6, <1>7, <1>8, <1>9, <1>10, <1>11 DEF Next, Round

-----------------------------------------------------------------------------
(* The entries of the Mshr. *)

\* A step that changes the entries of one level.
LEMMA OneLevelEntries ==
    ASSUME AllEntriesOK, NEW l \in Levels, NEW ms, EntriesOK(ms, l), mshr' = [mshr EXCEPT ![l] = ms]
    PROVE  AllEntriesOK'
BY DEF AllEntriesOK

\* Setting ready or clearing outstanding of an entry in use.
LEMMA FlagsTyped ==
    ASSUME NEW l, NEW x, EntryOK(x, l), x.valid
    PROVE  EntryOK([x EXCEPT !.ready = TRUE], l) /\ EntryOK([x EXCEPT !.outstanding = FALSE], l)
<1> DEFINE y == [x EXCEPT !.ready = TRUE]
           z == [x EXCEPT !.outstanding = FALSE]
<1>1. x \in MshrEntry
  BY DEF EntryOK
<1>2. y \in MshrEntry /\ y.valid = x.valid /\ y.mshrQueue = x.mshrQueue /\ y.blockAddr = x.blockAddr
  BY <1>1 DEF MshrEntry
<1>3. z \in MshrEntry /\ z.valid = x.valid /\ z.mshrQueue = x.mshrQueue /\ z.blockAddr = x.blockAddr
  BY <1>1 DEF MshrEntry
<1> HIDE DEF y, z
<1>4. EntryOK(y, l)
  BY <1>2 DEF EntryOK
<1>5. EntryOK(z, l)
  BY <1>3 DEF EntryOK
<1> QED  BY <1>4, <1>5 DEF y, z

\* Taking the front request of an entry in use.
LEMMA ClearTyped ==
    ASSUME NEW l \in Levels, NEW x, EntryOK(x, l), x.valid
    PROVE  EntryOK(clearMshrEntry(x), l)
<1> DEFINE s == x.mshrQueue
           t == Tail(s)
<1>1. x \in MshrEntry /\ s \in Seq(CacheReq) /\ s # <<>> /\ Len(s) <= EntrySize[l] /\ EntrySize[l] \in Nat
  BY Geometry DEF EntryOK, MshrEntry
<1>2. t \in Seq(CacheReq) /\ Len(t) <= EntrySize[l] /\ Len(t) = Len(s) - 1 /\ Len(s) \in Nat
  <2> HIDE DEF s
  <2> QED  BY <1>1, TakenTyped, LenProperties
<1>3. CASE Len(s) = 1
  BY <1>3, AnInvalid DEF clearMshrEntry
<1>4. CASE Len(s) # 1
  <2> DEFINE y == [x EXCEPT !.mshrQueue = t]
  <2>1. clearMshrEntry(x) = y
    BY <1>4 DEF clearMshrEntry
  <2>2. \A k \in 1 .. Len(t) : t[k] = s[k + 1] /\ k + 1 \in 1 .. Len(s)
    <3> HIDE DEF s
    <3>1. Len(t) = Len(s) - 1 /\ \A k \in 1 .. Len(s) - 1 : t[k] = s[k + 1]
      BY <1>1, HeadTailProperties
    <3> QED  BY <1>2, <3>1
  <2>3. \A k \in 1 .. Len(s) : s[k].blk = x.blockAddr
    BY DEF EntryOK
  <2>4. \A k \in 1 .. Len(t) : t[k].blk = x.blockAddr
    <3> HIDE DEF s, t
    <3> QED  BY <2>2, <2>3
  <2>5. t # <<>>
    <3> SUFFICES ASSUME t = <<>> PROVE FALSE
      OBVIOUS
    <3>1. Len(t) = 0
      BY EmptySeq
    <3> HIDE DEF t, s
    <3> QED  BY <3>1, <1>2, <1>4
  <2> HIDE DEF t, s
  <2>6. y \in MshrEntry /\ y.valid = x.valid /\ y.mshrQueue = t /\ y.blockAddr = x.blockAddr
    BY <1>1, <1>2 DEF MshrEntry
  <2> HIDE DEF y
  <2>7. EntryOK(y, l)
    BY <1>2, <2>4, <2>5, <2>6 DEF EntryOK
  <2> QED  BY <2>1, <2>7
<1> QED  BY <1>3, <1>4

\* send2Mshr adds a request to an entry of its block that has room, or to an
\* unused one.
LEMMA SendTypedEntry ==
    ASSUME NEW l \in Levels, NEW x, EntryOK(x, l), NEW req \in CacheReq,
           x.valid => x.blockAddr = req.blk /\ Len(x.mshrQueue) < EntrySize[l]
    PROVE  EntryOK([valid |-> TRUE, ready |-> x.ready, blockAddr |-> req.blk,
                    outstanding |-> x.valid => x.outstanding, mshrQueue |-> Append(x.mshrQueue, req)], l)
<1> DEFINE s == x.mshrQueue
           t == Append(s, req)
           o == x.valid => x.outstanding
           y == [valid |-> TRUE, ready |-> x.ready, blockAddr |-> req.blk, outstanding |-> o, mshrQueue |-> t]
<1>1. x \in MshrEntry /\ s \in Seq(CacheReq) /\ EntrySize[l] \in Nat \ {0} /\ Len(s) \in Nat
  BY Geometry, LenProperties DEF EntryOK, MshrEntry
<1>2. ~x.valid => s = <<>>
  BY DEF EntryOK, EmptyEntry
<1>3. Len(s) < EntrySize[l]
  BY <1>1, <1>2, EmptySeq
<1>4. /\ t \in Seq(CacheReq) /\ Len(t) = Len(s) + 1 /\ t[Len(s) + 1] = req
      /\ \A k \in 1 .. Len(s) : t[k] = s[k]
  <2> HIDE DEF s
  <2> QED  BY <1>1, AppendProperties
<1>5. \A k \in 1 .. Len(s) : s[k].blk = req.blk
  <2>1. CASE x.valid
    BY <2>1 DEF EntryOK
  <2>2. CASE ~x.valid
    <3>1. Len(s) = 0
      BY <1>2, <2>2, EmptySeq
    <3> QED  BY <3>1
  <2> QED  BY <2>1, <2>2
<1>6. \A k \in 1 .. Len(t) : t[k].blk = req.blk
  <2> HIDE DEF s, t
  <2> QED  BY <1>1, <1>4, <1>5
<1>7. Len(t) <= EntrySize[l] /\ t # <<>>
  <2> HIDE DEF s, t
  <2> QED  BY <1>1, <1>3, <1>4, EmptySeq
<1>8. o \in BOOLEAN /\ x.ready \in BOOLEAN /\ req.blk \in Blocks
  BY <1>1 DEF MshrEntry, CacheReq
<1> HIDE DEF s, t, o
<1>9. y \in MshrEntry /\ y.valid /\ y.mshrQueue = t /\ y.blockAddr = req.blk
  BY <1>4, <1>8 DEF MshrEntry
<1> HIDE DEF y
<1>10. EntryOK(y, l)
  BY <1>6, <1>7, <1>9 DEF EntryOK
<1> QED  BY <1>10 DEF y, s, t, o

\* The front request of a bank that is looked up.
LEMMA LookedUp ==
    ASSUME TypeInv, ~Waits(level, Bank)
    PROVE  /\ reqQueue[level][Bank] # <<>> /\ reqQueue[level][Bank] \in Seq(QueuedReq(level))
           /\ Head(reqQueue[level][Bank]) \in QueuedReq(level)
           /\ Head(reqQueue[level][Bank]).req \in CacheReq
<1>1. Bank \in Banks(level) /\ level \in Levels
  BY BankTyped DEF TypeInv
<1>2. reqQueue[level][Bank] \in Seq(QueuedReq(level)) /\ reqQueue[level][Bank] # <<>>
  BY <1>1 DEF TypeInv, AllQueuesOK, QueuesOK, Waits
<1>3. Head(reqQueue[level][Bank]) \in QueuedReq(level)
  BY <1>2, HeadTailProperties
<1> QED  BY <1>2, <1>3 DEF QueuedReq

\* Every step keeps the entries of the Mshr: those in use hold requests of their
\* block, at most EntrySize of them, and the others are empty.
LEMMA EntriesStep ==
    ASSUME TypeInv, Next
    PROVE  AllEntriesOK'
<1>0. /\ AllEntriesOK /\ level \in Levels /\ llc \in Levels
      /\ \A l \in Levels : l \in DOMAIN mshr /\ DOMAIN mshr[l] = Entries(l)
      /\ \A l \in Levels : \A e \in Entries(l) : EntryOK(mshr[l][e], l)
  BY LevelFacts DEF TypeInv, PhaseOK, AllEntriesOK, EntriesOK
<1>a. ASSUME mshr' = mshr PROVE AllEntriesOK'
  BY <1>0, <1>a DEF AllEntriesOK
<1>b. ASSUME NEW l \in Levels, NEW blk, setMshrEntryReady(l, blk) PROVE AllEntriesOK'
  <2> DEFINE ms == [e \in Entries(l) |-> IF mshr[l][e].valid /\ mshr[l][e].blockAddr = blk
                    THEN [mshr[l][e] EXCEPT !.ready = TRUE] ELSE mshr[l][e]]
  <2>1. mshr' = [mshr EXCEPT ![l] = ms]
    BY <1>b DEF setMshrEntryReady
  <2>2. EntriesOK(ms, l)
    <3> SUFFICES ASSUME NEW e \in Entries(l) PROVE EntryOK(ms[e], l)
      BY DEF EntriesOK
    <3>1. CASE mshr[l][e].valid /\ mshr[l][e].blockAddr = blk
      BY <1>0, <3>1, FlagsTyped
    <3>2. CASE ~(mshr[l][e].valid /\ mshr[l][e].blockAddr = blk)
      BY <1>0, <3>2
    <3> QED  BY <3>1, <3>2
  <2> HIDE DEF ms
  <2> QED  BY <1>0, <2>1, <2>2, OneLevelEntries
<1>c. ASSUME NEW l \in Levels, NEW sent \in SUBSET Outstanding(l), clearOutstandingFlag(l, sent) PROVE AllEntriesOK'
  <2> DEFINE ms == [e \in Entries(l) |-> IF e \in sent THEN [mshr[l][e] EXCEPT !.outstanding = FALSE]
                                         ELSE mshr[l][e]]
  <2>1. mshr' = [mshr EXCEPT ![l] = ms]
    BY <1>0, <1>c DEF clearOutstandingFlag
  <2>2. EntriesOK(ms, l)
    <3> SUFFICES ASSUME NEW e \in Entries(l) PROVE EntryOK(ms[e], l)
      BY DEF EntriesOK
    <3>1. CASE e \in sent
      <4>1. mshr[l][e].valid
        BY <3>1 DEF Outstanding
      <4> QED  BY <1>0, <3>1, <4>1, FlagsTyped
    <3>2. CASE e \notin sent
      BY <1>0, <3>2
    <3> QED  BY <3>1, <3>2
  <2> HIDE DEF ms
  <2> QED  BY <1>0, <2>1, <2>2, OneLevelEntries
<1>1. CASE mem_req_complete
  BY <1>0, <1>1, <1>b DEF mem_req_complete
<1>2. CASE Refill
  <2>1. level - 1 \in Levels /\ setMshrEntryReady(level - 1, Head(cacheReqVec).blk)
    BY <1>2, FillBlocks DEF Refill
  <2> QED  BY <1>b, <2>1
<1>3. CASE PushAckQueue
  <2> DEFINE A == Answered(level) \cup Dropped(level)
             ms == [e \in Entries(level) |-> IF e \in A THEN clearMshrEntry(mshr[level][e]) ELSE mshr[level][e]]
  <2>1. mshr' = [mshr EXCEPT ![level] = ms]
    BY <1>0, <1>3 DEF PushAckQueue
  <2>2. \A e \in A : mshr[level][e].valid
    BY DEF Answered, AnsweredOf, Dropped, Ready
  <2> HIDE DEF A
  <2>3. EntriesOK(ms, level)
    <3> SUFFICES ASSUME NEW e \in Entries(level) PROVE EntryOK(ms[e], level)
      BY DEF EntriesOK
    <3>1. CASE e \in A
      BY <1>0, <2>2, <3>1, ClearTyped
    <3>2. CASE e \notin A
      BY <1>0, <3>2
    <3> QED  BY <3>1, <3>2
  <2> HIDE DEF ms
  <2> QED  BY <1>0, <2>1, <2>3, OneLevelEntries
<1>4. CASE SendOutstandingDown
  <2>1. clearOutstandingFlag(level, SentDown(level)) /\ SentDown(level) \in SUBSET Outstanding(level)
    BY <1>4 DEF SendOutstandingDown, SentDown
  <2> QED  BY <1>0, <1>c, <2>1
<1>5. CASE SendOutstandingToMem
  <2> DEFINE sent == {e \in Outstanding(llc) :
                        Len(reqQueue2Mem) + Cardinality({d \in Outstanding(llc) : d < e}) < ReqQueue2MemSize}
  <2>1. clearOutstandingFlag(llc, sent) /\ sent \in SUBSET Outstanding(llc)
    BY <1>5 DEF SendOutstandingToMem
  <2> HIDE DEF sent
  <2> QED  BY <1>0, <1>c, <2>1
<1>6. CASE updateReqQueueMiss
  <2> DEFINE req == Head(reqQueue[level][Bank]).req
  <2>1. ~Waits(level, Bank)
    BY <1>6, Zenon DEF updateReqQueueMiss
  <2>2. PICK e \in Entries(level) : MshrTarget(level, e, req.blk) /\ send2Mshr(level, e, req)
    BY <1>6, Zenon DEF updateReqQueueMiss
  <2>3. req \in CacheReq
    BY <2>1, LookedUp
  <2> HIDE DEF req
  <2> DEFINE x == mshr[level][e]
             y == [valid |-> TRUE, ready |-> x.ready, blockAddr |-> req.blk,
                   outstanding |-> x.valid => x.outstanding, mshrQueue |-> Append(x.mshrQueue, req)]
             ms == [mshr[level] EXCEPT ![e] = y]
  <2>4. mshr' = [mshr EXCEPT ![level] = ms]
    BY <1>0, <2>2 DEF send2Mshr
  <2>5. x.valid => x.blockAddr = req.blk /\ Len(x.mshrQueue) < EntrySize[level]
    BY <2>2 DEF MshrTarget, Joins
  <2>6. EntryOK(y, level)
    BY <1>0, <2>3, <2>5, SendTypedEntry
  <2> HIDE DEF y
  <2>7. EntriesOK(ms, level)
    BY <1>0, <2>6 DEF EntriesOK
  <2> HIDE DEF ms
  <2> QED  BY <1>0, <2>4, <2>7, OneLevelEntries
<1>7. CASE \E r \in Reqs, blk \in Blocks, op \in Accesses : addTransaction(r, blk, op)
  BY <1>a, <1>7 DEF addTransaction
<1>8. CASE \E served \in SUBSET Banks(0) : callBack(served)
  BY <1>a, <1>8 DEF callBack
<1>9. CASE \E blk \in Blocks : MemoryDataBusUpdate(blk)
  BY <1>a, <1>9 DEF MemoryDataBusUpdate
<1>10. CASE dramUpdate \/ resetBankConflictRecorder \/ PopAckQueue
  BY <1>a, <1>10, Zenon DEF dramUpdate, resetBankConflictRecorder, PopAckQueue
<1>11. CASE updateReqQueueStall \/ updateReqQueueSkip
  BY <1>a, <1>11 DEF updateReqQueueStall, updateReqQueueSkip
<1>12. CASE updateReqQueueHit
  BY <1>a, <1>12, Zenon DEF updateReqQueueHit
<1>13. CASE \E n \in 0 .. ReqQueue2MemSize : sendReq2Mem(n)
  BY <1>a, <1>13 DEF sendReq2Mem
<1> QED
  BY <1>1, <1>2, <1>3, <1>4, <1>5, <1>6, <1>7, <1>8, <1>9, <1>10, <1>11, <1>12, <1>13 DEF Next, Round

-----------------------------------------------------------------------------
(* The queues below, and the acknowledges between the levels. *)

\* The turns of different numbers differ, wherever the pointer is.
LEMMA Rotation ==
    ASSUME NEW n \in Nat \ {0}, NEW p \in 0 .. n - 1, NEW e \in 0 .. n - 1, NEW d \in 0 .. n - 1
    PROVE  /\ (e - p + n) % n \in Nat
           /\ (e - p + n) % n = (d - p + n) % n => e = d
<1> DEFINE a == e - p + n
           b == d - p + n
<1>1. a \in Nat /\ b \in Nat /\ (e < d => a < b /\ b - a < n) /\ (d < e => b < a /\ a - b < n)
  OBVIOUS
<1>2. e < d \/ d < e \/ e = d
  OBVIOUS
<1> HIDE DEF a, b
<1>3. a % n \in Nat
  BY <1>1, ModRange
<1>4. e < d => a % n # b % n
  BY <1>1, ModDistinct
<1>5. d < e => a % n # b % n
  BY <1>1, ModDistinct
<1>6. a % n = b % n => e = d
  BY <1>2, <1>4, <1>5
<1> QED  BY <1>3, <1>6 DEF a, b

\* Entries of a level have different turns.
LEMMA TurnsOf ==
    ASSUME PtrsOK, NEW l \in Levels, NEW e \in Entries(l), NEW d \in Entries(l)
    PROVE  Turn(l, e) \in Nat /\ (Turn(l, e) = Turn(l, d) => e = d)
<1>1. EntryNum[l] \in Nat \ {0} /\ mshrRdPtr[l] \in 0 .. EntryNum[l] - 1
      /\ e \in 0 .. EntryNum[l] - 1 /\ d \in 0 .. EntryNum[l] - 1
  BY Geometry DEF PtrsOK, Entries
<1> QED  BY <1>1, Rotation DEF Turn

\* What PopAckQueue takes: the fronts of the banks that are not empty.
LEMMA PoppedAre ==
    ASSUME TypeInv, PopAckQueue
    PROVE  /\ cacheReqVec' \in Seq(CacheReq)
           /\ \A b \in Banks(level) : ackQueue[level][b] # <<>> =>
                 \E k \in DOMAIN cacheReqVec' : cacheReqVec'[k] = Head(ackQueue[level][b])
<1> DEFINE S == {b \in Banks(level) : ackQueue[level][b] # <<>>}
           turn == [b \in Banks(level) |->
                       (b - ackQueueBankPtr[level] + NumBanks[level]) % NumBanks[level]]
           taken == InOrder(S, turn)
<1>1. cacheReqVec' = [k \in DOMAIN taken |-> Head(ackQueue[level][taken[k]])]
  BY DEF PopAckQueue
<1>2. NumBanks[level] \in Nat \ {0} /\ ackQueueBankPtr[level] \in 0 .. NumBanks[level] - 1 /\ level \in Levels
  BY Geometry DEF TypeInv, PhaseOK, PtrsOK, Banks
<1>3. IsFiniteSet(S)
  <2>1. 0 \in Int /\ NumBanks[level] - 1 \in Int
    BY <1>2
  <2>2. IsFiniteSet(Banks(level))
    BY <2>1, FS_Interval DEF Banks
  <2>3. S \in SUBSET Banks(level)
    OBVIOUS
  <2> HIDE DEF S
  <2> QED  BY <2>2, <2>3, FS_Subset
<1>4. \A x \in S : turn[x] \in Nat
  BY <1>2, Rotation DEF Banks
<1>5. \A x, y \in S : turn[x] = turn[y] => x = y
  BY <1>2, Rotation DEF Banks
<1> DEFINE n == Cardinality(S)
<1> HIDE DEF turn
<1>6. /\ n \in Nat /\ DOMAIN taken = 1 .. n /\ \A k \in 1 .. n : taken[k] \in S
      /\ \A x \in S : \E k \in 1 .. n : taken[k] = x
  <2> HIDE DEF S
  <2> QED  BY <1>3, <1>4, <1>5, InOrderIs
<1>7. \A b \in S : Head(ackQueue[level][b]) \in CacheReq
  <2> SUFFICES ASSUME NEW b \in S PROVE Head(ackQueue[level][b]) \in CacheReq
    OBVIOUS
  <2>1. ackQueue[level][b] \in Seq(CacheReq) /\ ackQueue[level][b] # <<>>
    BY <1>2 DEF TypeInv, AllAcksOK, AcksOK
  <2> QED  BY <2>1, HeadTailProperties
<1>8. \A b \in Banks(level) : ackQueue[level][b] # <<>> => b \in S
  OBVIOUS
<1> HIDE DEF S, taken, n
<1>9. cacheReqVec' \in [1 .. n -> CacheReq]
  BY <1>1, <1>6, <1>7
<1> QED  BY <1>1, <1>6, <1>8, <1>9

\* What SendOutstandingToMem adds: a transaction for every entry it sends.
LEMMA SentAre ==
    ASSUME TypeInv, SendOutstandingToMem
    PROVE  /\ ReqQueue2MemOK'
           /\ \A k \in DOMAIN reqQueue2Mem : k \in DOMAIN reqQueue2Mem' /\ reqQueue2Mem'[k] = reqQueue2Mem[k]
           /\ \E sent \in SUBSET Outstanding(llc) :
                 /\ clearOutstandingFlag(llc, sent)
                 /\ \A e \in sent : \E k \in DOMAIN reqQueue2Mem' : reqQueue2Mem'[k].blk = mshr[llc][e].blockAddr
<1> DEFINE sent == {e \in Outstanding(llc) :
                      Len(reqQueue2Mem) + Cardinality({d \in Outstanding(llc) : d < e}) < ReqQueue2MemSize}
           order == InOrder(sent, [e \in sent |-> e])
           n == Cardinality(sent)
           tr == [k \in 1 .. n |-> transCacheReq2MemReq(Front(llc, order[k]))]
           q == reqQueue2Mem
<1>1. reqQueue2Mem' = q \o tr /\ clearOutstandingFlag(llc, sent)
  BY DEF SendOutstandingToMem
<1>2. sent \in SUBSET Outstanding(llc) /\ sent \in SUBSET Entries(llc)
  BY DEF Outstanding
<1>3. llc \in Levels /\ EntryNum[llc] \in Nat \ {0} /\ q \in Seq(MemTransaction)
  BY LevelFacts DEF TypeInv, BelowOK, ReqQueue2MemOK
<1> HIDE DEF sent, q
<1>4. IsFiniteSet(sent) /\ \A e \in sent : e \in Nat
  <2>1. 0 \in Int /\ EntryNum[llc] - 1 \in Int
    BY <1>3
  <2>2. IsFiniteSet(Entries(llc)) /\ \A e \in Entries(llc) : e \in Nat
    BY <2>1, FS_Interval DEF Entries
  <2> QED  BY <1>2, <2>2, FS_Subset
<1>5. /\ n \in Nat /\ \A k \in 1 .. n : order[k] \in sent
      /\ \A e \in sent : \E k \in 1 .. n : order[k] = e
      /\ \A k \in 1 .. n : Cardinality({d \in sent : d < order[k]}) = k - 1
  <2> DEFINE key == [e \in sent |-> e]
  <2>1. \A e \in sent : key[e] = e
    OBVIOUS
  <2> HIDE DEF key
  <2>2. \A e \in sent : key[e] \in Nat
    BY <1>4, <2>1
  <2>3. \A e, d \in sent : key[e] = key[d] => e = d
    BY <2>1
  <2>4. /\ n \in Nat /\ \A k \in 1 .. n : InOrder(sent, key)[k] \in sent
        /\ \A e \in sent : \E k \in 1 .. n : InOrder(sent, key)[k] = e
        /\ \A k \in 1 .. n : Cardinality({d \in sent : key[d] < key[InOrder(sent, key)[k]]}) = k - 1
    BY <1>4, <2>2, <2>3, InOrderIs
  <2>5. ASSUME NEW k \in 1 .. n
        PROVE  {d \in sent : key[d] < key[InOrder(sent, key)[k]]} = {d \in sent : d < InOrder(sent, key)[k]}
    BY <2>1, <2>4
  <2>6. order = InOrder(sent, key)
    BY DEF key
  <2> HIDE DEF order, n
  <2> QED  BY <2>4, <2>5, <2>6
<1> HIDE DEF order, n
<1>6. \A e \in sent : /\ transCacheReq2MemReq(Front(llc, e)) \in MemTransaction
                      /\ transCacheReq2MemReq(Front(llc, e)).blk = mshr[llc][e].blockAddr
  <2> SUFFICES ASSUME NEW e \in sent
               PROVE  /\ transCacheReq2MemReq(Front(llc, e)) \in MemTransaction
                      /\ transCacheReq2MemReq(Front(llc, e)).blk = mshr[llc][e].blockAddr
    OBVIOUS
  <2>1. e \in Entries(llc) /\ mshr[llc][e].valid
    BY <1>2 DEF Outstanding
  <2>2. Front(llc, e).blk = mshr[llc][e].blockAddr /\ mshr[llc][e].blockAddr \in Blocks
    BY <1>3, <2>1, FrontTyped DEF TypeInv
  <2> QED  BY <2>2 DEF transCacheReq2MemReq, MemTransaction, isWrite
<1>7. tr \in [1 .. n -> MemTransaction] /\ \A e \in sent : \E k \in 1 .. n : tr[k].blk = mshr[llc][e].blockAddr
  BY <1>5, <1>6
<1> HIDE DEF tr
<1>8. tr \in Seq(MemTransaction) /\ Len(tr) = n
  BY <1>5, <1>7
<1> DEFINE p == q \o tr
           m == Len(q)
<1>9. /\ p \in Seq(MemTransaction) /\ Len(p) = m + n /\ m \in Nat
      /\ \A k \in 1 .. m + n : p[k] = IF k <= m THEN q[k] ELSE tr[k - m]
  BY <1>3, <1>8, ConcatProperties, LenProperties
<1>10. DOMAIN q = 1 .. m
  BY <1>3, LenProperties
<1> HIDE DEF p, m
<1>11. DOMAIN p = 1 .. m + n
  BY <1>9, LenProperties
<1>12. \A k \in DOMAIN q : k \in DOMAIN p /\ p[k] = q[k]
  BY <1>5, <1>9, <1>10, <1>11
<1>13. \A k \in 1 .. n : k + m \in DOMAIN p /\ p[k + m] = tr[k]
  BY <1>5, <1>9, <1>11
<1>14. \A e \in sent : \E k \in DOMAIN p : p[k].blk = mshr[llc][e].blockAddr
  BY <1>7, <1>13
<1>15. reqQueue2Mem' = p
  BY <1>1 DEF p
<1>16. n = 0 \/ m + n <= ReqQueue2MemSize
  <2> DEFINE last == order[n]
             earlier == {d \in Outstanding(llc) : d < last}
  <2> SUFFICES ASSUME n # 0 PROVE m + n <= ReqQueue2MemSize
    OBVIOUS
  <2>1. n \in 1 .. n
    BY <1>5
  <2>2. last \in sent /\ Cardinality({d \in sent : d < last}) = n - 1
    BY <1>5, <2>1
  <2> HIDE DEF last
  <2>3. m + Cardinality(earlier) < ReqQueue2MemSize
    BY <2>2 DEF sent, m, q
  <2>4. IsFiniteSet(earlier) /\ {d \in sent : d < last} \in SUBSET earlier
    <3>1. IsFiniteSet(Entries(llc))
      BY <1>3, FS_Interval DEF Entries
    <3>2. earlier \in SUBSET Entries(llc)
      BY DEF Outstanding
    <3> QED  BY <1>2, <3>1, <3>2, FS_Subset
  <2> HIDE DEF earlier
  <2>5. n - 1 <= Cardinality(earlier) /\ Cardinality(earlier) \in Nat
    BY <2>2, <2>4, FS_Subset, FS_CardinalityType
  <2> QED  BY <1>5, <1>9, <2>3, <2>5, CacheAssumption
<1>17. ReqQueue2MemOK'
  <2>1. /\ Len(reqQueue2Mem) <= ReqQueue2MemSize \/ Len(reqQueue2Mem) <= NumBanks[llc]
        /\ m = Len(reqQueue2Mem)
    BY DEF TypeInv, BelowOK, ReqQueue2MemOK, m, q
  <2>2. Len(p) <= ReqQueue2MemSize \/ Len(p) <= NumBanks[llc]
    BY <1>5, <1>9, <1>16, <2>1
  <2> QED  BY <1>9, <1>15, <2>2 DEF ReqQueue2MemOK
<1> QED  BY <1>1, <1>2, <1>12, <1>14, <1>15, <1>17 DEF q

\* sendReq2Mem moves the first transactions into DRAM and keeps the others.
LEMMA MovedAre ==
    ASSUME TypeInv, NEW n \in 0 .. ReqQueue2MemSize, sendReq2Mem(n)
    PROVE  /\ ReqQueue2MemOK' /\ inMemory' \in [Blocks -> Nat]
           /\ \A blk \in Blocks : inMemory'[blk] >= inMemory[blk]
           /\ \A k \in DOMAIN reqQueue2Mem :
                 \/ inMemory'[reqQueue2Mem[k].blk] > 0
                 \/ k - n \in DOMAIN reqQueue2Mem' /\ reqQueue2Mem'[k - n] = reqQueue2Mem[k]
<1> DEFINE q == reqQueue2Mem
           m == Len(q)
           Moved(blk) == {k \in 1 .. n : q[k].blk = blk}
           p == SubSeq(q, n + 1, m)
<1>1. /\ q \in Seq(MemTransaction) /\ inMemory \in [Blocks -> Nat] /\ n <= m
      /\ inMemory' = [blk \in Blocks |-> inMemory[blk] + Cardinality(Moved(blk))]
      /\ reqQueue2Mem' = p
  BY DEF TypeInv, BelowOK, ReqQueue2MemOK, sendReq2Mem
<1>2. n \in Nat
  BY CacheAssumption
<1>3. m \in Nat /\ DOMAIN q = 1 .. m /\ \A k \in 1 .. m : q[k] \in MemTransaction
  BY <1>1, LenProperties, ElementOfSeq
<1>4. ASSUME NEW blk \in Blocks
      PROVE  Cardinality(Moved(blk)) \in Nat /\ (Moved(blk) # {} => Cardinality(Moved(blk)) # 0)
  <2>1. IsFiniteSet(1 .. n)
    <3>1. 1 \in Int /\ n \in Int
      BY <1>2
    <3> QED  BY <3>1, FS_Interval
  <2>2. Moved(blk) \in SUBSET (1 .. n)
    OBVIOUS
  <2> HIDE DEF Moved
  <2>3. IsFiniteSet(Moved(blk))
    BY <2>1, <2>2, FS_Subset
  <2> QED  BY <2>3, FS_CardinalityType, FS_EmptySet
<1>5. \A blk \in Blocks : \A k \in 1 .. n : q[k].blk = blk => Moved(blk) # {}
  OBVIOUS
<1> HIDE DEF Moved
<1>6. inMemory' \in [Blocks -> Nat] /\ \A blk \in Blocks : inMemory'[blk] >= inMemory[blk]
  BY <1>1, <1>4
<1>7. \A k \in 1 .. n : inMemory'[q[k].blk] > 0
  <2> SUFFICES ASSUME NEW k \in 1 .. n PROVE inMemory'[q[k].blk] > 0
    OBVIOUS
  <2>1. q[k] \in MemTransaction
    <3>1. k \in 1 .. m
      <4> HIDE DEF q, m
      <4> QED  BY <1>1, <1>2, <1>3
    <3> QED  BY <1>3, <3>1
  <2>2. PICK blk \in Blocks : blk = q[k].blk
    BY <2>1 DEF MemTransaction
  <2>3. Cardinality(Moved(blk)) \in Nat /\ Cardinality(Moved(blk)) # 0 /\ inMemory[blk] \in Nat
    BY <1>1, <1>4, <1>5, <2>2
  <2> QED  BY <1>1, <2>2, <2>3
<1> HIDE DEF q, m
<1>8. /\ p \in Seq(MemTransaction) /\ Len(p) = m - n /\ DOMAIN p = 1 .. m - n
      /\ \A k \in 1 .. m - n : p[k] = q[n + k]
  <2>1. n + 1 \in Int /\ m \in Int /\ \A k \in n + 1 .. m : q[k] \in MemTransaction
    BY <1>2, <1>3
  <2>2. /\ p \in Seq(MemTransaction) /\ Len(p) = (IF n + 1 <= m THEN m - (n + 1) + 1 ELSE 0)
        /\ \A k \in 1 .. m - (n + 1) + 1 : p[k] = q[n + 1 + k - 1]
    BY <2>1, SubSeqProperties
  <2> HIDE DEF p
  <2>3. Len(p) = m - n
    BY <1>1, <1>2, <1>3, <2>2 DEF m
  <2>4. \A k \in 1 .. m - n : n + 1 + k - 1 = n + k /\ k \in 1 .. m - (n + 1) + 1
    BY <1>2, <1>3
  <2> QED  BY <2>2, <2>3, <2>4, LenProperties
<1> HIDE DEF p
<1>9. \A k \in DOMAIN q : k \in 1 .. n \/ (k - n \in DOMAIN p /\ p[k - n] = q[k])
  <2> SUFFICES ASSUME NEW k \in DOMAIN q, k \notin 1 .. n
               PROVE  k - n \in DOMAIN p /\ p[k - n] = q[k]
    OBVIOUS
  <2>1. k - n \in 1 .. m - n /\ n + (k - n) = k
    BY <1>2, <1>3
  <2> QED  BY <1>8, <2>1
<1>10. ReqQueue2MemOK'
  <2>1. m <= ReqQueue2MemSize \/ m <= NumBanks[llc]
    BY DEF TypeInv, BelowOK, ReqQueue2MemOK, m, q
  <2>2. NumBanks[llc] \in Nat /\ ReqQueue2MemSize \in Nat
    BY LevelFacts, Geometry, CacheAssumption
  <2>3. Len(p) <= ReqQueue2MemSize \/ Len(p) <= NumBanks[llc]
    BY <1>2, <1>3, <1>8, <2>1, <2>2
  <2> QED  BY <1>1, <1>8, <2>3 DEF ReqQueue2MemOK
<1> QED  BY <1>1, <1>6, <1>7, <1>8, <1>9, <1>10 DEF q

\* Every step keeps the queue to memory, DRAM and the stacks of answers.
LEMMA BelowStep ==
    ASSUME TypeInv, Next
    PROVE  BelowOK' /\ status' \in [Reqs -> {"idle", "sent"}]
<1>0. BelowOK /\ status \in [Reqs -> {"idle", "sent"}]
  BY DEF TypeInv
<1>a. ASSUME status' = status, cacheReqVec' = cacheReqVec, UNCHANGED below
      PROVE  BelowOK' /\ status' \in [Reqs -> {"idle", "sent"}]
  BY <1>0, <1>a DEF BelowOK, ReqQueue2MemOK, below
<1>b. ASSUME \/ reqQueue2Mem' = reqQueue2Mem
             \/ /\ Len(reqQueue2Mem) < ReqQueue2MemSize
                /\ \E x \in MemTransaction : reqQueue2Mem' = Append(reqQueue2Mem, x)
      PROVE  ReqQueue2MemOK'
  <2>1. CASE reqQueue2Mem' = reqQueue2Mem
    BY <1>0, <2>1 DEF BelowOK, ReqQueue2MemOK
  <2>2. ASSUME Len(reqQueue2Mem) < ReqQueue2MemSize,
               NEW x \in MemTransaction, reqQueue2Mem' = Append(reqQueue2Mem, x)
        PROVE  ReqQueue2MemOK'
    <3>1. reqQueue2Mem' \in Seq(MemTransaction) /\ Len(reqQueue2Mem') = Len(reqQueue2Mem) + 1
      BY <1>0, <2>2, AppendProperties DEF BelowOK, ReqQueue2MemOK
    <3>2. Len(reqQueue2Mem) \in Nat /\ ReqQueue2MemSize \in Nat
      BY <1>0, LenProperties, CacheAssumption DEF BelowOK, ReqQueue2MemOK
    <3> QED  BY <2>2, <3>1, <3>2 DEF ReqQueue2MemOK
  <2> QED  BY <1>b, <2>1, <2>2
<1>1. CASE \E r \in Reqs, blk \in Blocks, op \in Accesses : addTransaction(r, blk, op)
  <2>1. cacheReqVec' = cacheReqVec /\ UNCHANGED below
    BY <1>1 DEF addTransaction
  <2>2. status' \in [Reqs -> {"idle", "sent"}]
    BY <1>0, <1>1 DEF addTransaction
  <2> QED  BY <1>0, <2>1, <2>2 DEF BelowOK, ReqQueue2MemOK, below
<1>2. CASE \E served \in SUBSET Banks(0) : callBack(served)
  <2>1. cacheReqVec' = cacheReqVec /\ UNCHANGED below
    BY <1>2 DEF callBack
  <2>2. status' \in [Reqs -> {"idle", "sent"}]
    BY <1>0, <1>2 DEF callBack
  <2> QED  BY <1>0, <2>1, <2>2 DEF BelowOK, ReqQueue2MemOK, below
<1>3. CASE mem_req_complete
  <2>1. /\ status' = status /\ cacheReqVec' = cacheReqVec /\ inMemory' = inMemory
        /\ reqAckStack' = Tail(reqAckStack)
        /\ setCacheBlock(llc, Head(reqAckStack)) \/ reqQueue2Mem' = reqQueue2Mem
    BY <1>3 DEF mem_req_complete
  <2>2. reqAckStack' \in Seq(Blocks)
    BY <2>1, <1>3, FillBlocks, HeadTailProperties
  <2>3. \/ reqQueue2Mem' = reqQueue2Mem
        \/ /\ Len(reqQueue2Mem) < ReqQueue2MemSize
           /\ \E x \in MemTransaction : reqQueue2Mem' = Append(reqQueue2Mem, x)
    BY <2>1, <1>3, FillBlocks, LevelFacts, BlockTyped
  <2>4. ReqQueue2MemOK'
    BY <2>3, <1>b
  <2> QED  BY <1>0, <2>1, <2>2, <2>4 DEF BelowOK
<1>4. CASE Refill
  <2>1. /\ status' = status /\ cacheReqVec' = Tail(cacheReqVec) /\ inMemory' = inMemory
        /\ reqAckStack' = reqAckStack /\ setCacheBlock(level - 1, Head(cacheReqVec).blk)
    BY <1>4 DEF Refill
  <2>2. cacheReqVec' \in Seq(CacheReq)
    BY <2>1, <1>4, FillBlocks, HeadTailProperties
  <2>3. \/ reqQueue2Mem' = reqQueue2Mem
        \/ /\ Len(reqQueue2Mem) < ReqQueue2MemSize
           /\ \E x \in MemTransaction : reqQueue2Mem' = Append(reqQueue2Mem, x)
    BY <2>1, <1>4, FillBlocks, BlockTyped
  <2>4. ReqQueue2MemOK'
    BY <2>3, <1>b
  <2> QED  BY <1>0, <2>1, <2>2, <2>4 DEF BelowOK
<1>5. CASE \E blk \in Blocks : MemoryDataBusUpdate(blk)
  <2>1. PICK blk \in Blocks : MemoryDataBusUpdate(blk)
    BY <1>5
  <2>2. /\ status' = status /\ cacheReqVec' = cacheReqVec /\ reqQueue2Mem' = reqQueue2Mem
        /\ inMemory[blk] > 0 /\ reqAckStack' = Append(reqAckStack, blk)
        /\ inMemory' = [inMemory EXCEPT ![blk] = @ - 1]
    BY <2>1 DEF MemoryDataBusUpdate
  <2>3. reqAckStack' \in Seq(Blocks)
    BY <2>2, <1>0, AppendProperties DEF BelowOK
  <2>4. inMemory' \in [Blocks -> Nat]
    <3>1. inMemory \in [Blocks -> Nat] /\ inMemory[blk] - 1 \in Nat
      BY <1>0, <2>2 DEF BelowOK
    <3> QED  BY <2>2, <3>1
  <2> QED  BY <1>0, <2>2, <2>3, <2>4 DEF BelowOK, ReqQueue2MemOK
<1>6. CASE PopAckQueue
  <2>1. status' = status /\ UNCHANGED below
    BY <1>6, Zenon DEF PopAckQueue
  <2> QED  BY <1>0, <1>6, <2>1, PoppedAre DEF BelowOK, ReqQueue2MemOK, below
<1>7. CASE SendOutstandingToMem
  <2>1. /\ status' = status /\ cacheReqVec' = cacheReqVec /\ inMemory' = inMemory
        /\ reqAckStack' = reqAckStack
    BY <1>7 DEF SendOutstandingToMem
  <2> QED  BY <1>0, <1>7, <2>1, SentAre DEF BelowOK
<1>8. CASE \E n \in 0 .. ReqQueue2MemSize : sendReq2Mem(n)
  <2>1. status' = status /\ cacheReqVec' = cacheReqVec /\ reqAckStack' = reqAckStack
    BY <1>8 DEF sendReq2Mem
  <2>2. ReqQueue2MemOK' /\ inMemory' \in [Blocks -> Nat]
    BY <1>8, MovedAre
  <2> QED  BY <1>0, <2>1, <2>2 DEF BelowOK
<1>9. CASE dramUpdate \/ resetBankConflictRecorder
  BY <1>a, <1>9 DEF dramUpdate, resetBankConflictRecorder
<1>10. CASE PushAckQueue
  BY <1>a, <1>10, Zenon DEF PushAckQueue
<1>11. CASE SendOutstandingDown
  BY <1>a, <1>11 DEF SendOutstandingDown
<1>12. CASE updateReqQueueStall \/ updateReqQueueSkip
  BY <1>a, <1>12 DEF updateReqQueueStall, updateReqQueueSkip
<1>13. CASE updateReqQueueHit \/ updateReqQueueMiss
  BY <1>a, <1>13, Zenon DEF updateReqQueueHit, updateReqQueueMiss
<1> QED
  BY <1>1, <1>2, <1>3, <1>4, <1>5, <1>6, <1>7, <1>8, <1>9, <1>10, <1>11, <1>12, <1>13 DEF Next, Round

\* Every step keeps the invariant.
LEMMA TypeNext == TypeInv /\ [Next]_vars => TypeInv'
<1> SUFFICES ASSUME TypeInv, [Next]_vars PROVE TypeInv'
  OBVIOUS
<1>1. CASE Next
  BY <1>1, PhaseStep, QueuesStep, AcksStep, SetsStep, EntriesStep, BelowStep DEF TypeInv
<1>2. CASE UNCHANGED vars
  BY <1>2 DEF vars, control, queues, ptrs, below, TypeInv, PhaseOK, PtrsOK, ConflictOK, BelowOK,
              ReqQueue2MemOK, AllQueuesOK, AllAcksOK, AllSetsOK, AllEntriesOK
<1> QED  BY <1>1, <1>2

(***************************************************************************)
(* Every variable of the cache keeps its type and every queue the length   *)
(* it is configured with, the address of a block that is written back      *)
(* included, for every geometry of one or two levels.                      *)
(***************************************************************************)
THEOREM CacheTypes == Spec => []TypeOK
<1>1. Spec => []TypeInv
  BY TypeInit, TypeNext, PTL DEF Spec
<1> QED  BY <1>1, TypeInvIsTypeOK, PTL

-----------------------------------------------------------------------------
(***************************************************************************)
(* The fetch of an entry.  One that is neither ready nor still to be sent  *)
(* waits for a request of its block below that is not a write-back: those  *)
(* are dropped there and never come back.                                  *)
(***************************************************************************)
Holds(q, M) == \E k \in DOMAIN q : q[k] \in M

TransactionsOf(blk) == {t \in MemTransaction : t.blk = blk}
FetchesOf(blk) == {req \in CacheReq : req.blk = blk /\ req.op # "WRITEBACK_DIRTY_BLOCK"}
QueuedFetches(l, blk) == {x \in QueuedReq(l) : x.req \in FetchesOf(blk)}

MemHolds(blk) ==
    Holds(reqQueue2Mem, TransactionsOf(blk)) \/ inMemory[blk] > 0 \/ Holds(reqAckStack, {blk})
CacheHolds(l, blk) ==
    \/ \E b \in Banks(l) : Holds(reqQueue[l][b], QueuedFetches(l, blk))
    \/ \E e \in Entries(l) : Holds(mshr[l][e].mshrQueue, FetchesOf(blk))
    \/ \E b \in Banks(l) : Holds(ackQueue[l][b], FetchesOf(blk))
    \/ Holds(cacheReqVec, FetchesOf(blk))

Waiting(x) == x.valid /\ ~x.ready /\ ~x.outstanding
LastWaits == \A e \in Entries(llc) : Waiting(mshr[llc][e]) => MemHolds(mshr[llc][e].blockAddr)
UpperWaits ==
    \A l \in Levels : l < llc => \A e \in Entries(l) :
        Waiting(mshr[l][e]) => CacheHolds(l + 1, mshr[l][e].blockAddr)

FetchInv == LastWaits /\ UpperWaits

\* It is stronger than the property that the runs check.
LEMMA FetchImplies == TypeInv /\ FetchInv => FetchOnTheWay
<1> SUFFICES ASSUME TypeInv, FetchInv, NEW l \in Levels, NEW e \in Entries(l), mshr[l][e].valid,
                    ~mshr[l][e].ready, ~mshr[l][e].outstanding
             PROVE  FetchBelow(l, mshr[l][e].blockAddr)
  BY DEF FetchOnTheWay
<1> DEFINE blk == mshr[l][e].blockAddr
<1>1. Waiting(mshr[l][e])
  BY DEF Waiting
<1>2. CASE l = llc
  <2>1. MemHolds(blk)
    BY <1>1, <1>2 DEF FetchInv, LastWaits
  <2> HIDE DEF blk
  <2>2. \/ \E k \in DOMAIN reqQueue2Mem : reqQueue2Mem[k].blk = blk
        \/ inMemory[blk] > 0
        \/ \E k \in DOMAIN reqAckStack : reqAckStack[k] = blk
    BY <2>1 DEF MemHolds, Holds, TransactionsOf
  <2> QED  BY <1>2, <2>2 DEF FetchBelow, blk
<1>3. CASE l # llc
  <2>1. l < llc
    BY <1>3, Geometry
  <2>2. CacheHolds(l + 1, blk)
    BY <1>1, <2>1 DEF FetchInv, UpperWaits
  <2> HIDE DEF blk
  <2>3. ASSUME NEW q, Holds(q, FetchesOf(blk)) PROVE \E k \in DOMAIN q : q[k].blk = blk
    BY <2>3 DEF Holds, FetchesOf
  <2>4. ASSUME NEW q, Holds(q, QueuedFetches(l + 1, blk)) PROVE \E k \in DOMAIN q : q[k].req.blk = blk
    BY <2>4 DEF Holds, FetchesOf, QueuedFetches
  <2>5. \/ \E b \in Banks(l + 1) : \E k \in DOMAIN reqQueue[l + 1][b] : reqQueue[l + 1][b][k].req.blk = blk
        \/ \E d \in Entries(l + 1) : \E k \in DOMAIN mshr[l + 1][d].mshrQueue :
                mshr[l + 1][d].mshrQueue[k].blk = blk
        \/ \E b \in Banks(l + 1) : \E k \in DOMAIN ackQueue[l + 1][b] : ackQueue[l + 1][b][k].blk = blk
        \/ \E k \in DOMAIN cacheReqVec : cacheReqVec[k].blk = blk
    BY <2>2, <2>3, <2>4 DEF CacheHolds
  <2> QED  BY <2>1, <2>5 DEF FetchBelow, blk
<1> QED  BY <1>2, <1>3

\* No entry waits at first.
LEMMA FetchInit == Init => FetchInv
<1> SUFFICES ASSUME Init PROVE FetchInv
  OBVIOUS
<1>1. \A l \in Levels : \A e \in Entries(l) : ~Waiting(mshr[l][e])
  BY DEF Init, EmptyEntry, Waiting
<1> QED  BY <1>1, LevelFacts DEF FetchInv, LastWaits, UpperWaits

-----------------------------------------------------------------------------
\* Taking the front of a queue and adding one to it.
LEMMA HoldsTail ==
    ASSUME NEW S, NEW q \in Seq(S), q # <<>>, NEW M, Holds(q, M)
    PROVE  Holds(Tail(q), M) \/ Head(q) \in M
<1>1. PICK k \in DOMAIN q : q[k] \in M
  BY DEF Holds
<1>2. q[1] = Head(q) /\ (k # 1 => k - 1 \in DOMAIN Tail(q) /\ Tail(q)[k - 1] = q[k])
  BY TailPositions
<1> QED  BY <1>1, <1>2 DEF Holds

\* What a queue holds it still holds when an element is appended, and that element too.
LEMMA HoldsAppend ==
    ASSUME NEW S, NEW q \in Seq(S), NEW x \in S, NEW M, Holds(q, M) \/ x \in M
    PROVE  Holds(Append(q, x), M)
<1> DEFINE m == Len(q) + 1
           p == Append(q, x)
<1>1. DOMAIN p = DOMAIN q \cup {m} /\ p[m] = x /\ \A k \in DOMAIN q : p[k] = q[k]
  BY AppendPositions
<1> HIDE DEF p, m
<1> QED  BY <1>1 DEF Holds, p

\* A queue whose elements keep what M tells of them.
LEMMA HoldsSame ==
    ASSUME NEW q, NEW p, NEW M, DOMAIN p = DOMAIN q, \A k \in DOMAIN q : q[k] \in M => p[k] \in M, Holds(q, M)
    PROVE  Holds(p, M)
BY DEF Holds

\* A transaction below stays there until mem_req_complete takes it.
LEMMA MemStays ==
    ASSUME TypeInv, Next, NEW blk \in Blocks, MemHolds(blk)
    PROVE  MemHolds(blk)' \/ (mem_req_complete /\ Head(reqAckStack) = blk)
<1>0. BelowOK
  BY DEF TypeInv
<1>a. ASSUME UNCHANGED below PROVE MemHolds(blk)'
  BY <1>a DEF below, MemHolds
<1>b. ASSUME Holds(reqQueue2Mem, TransactionsOf(blk)),
             reqQueue2Mem' = reqQueue2Mem \/ \E x \in MemTransaction : reqQueue2Mem' = Append(reqQueue2Mem, x)
      PROVE  Holds(reqQueue2Mem', TransactionsOf(blk))
  <2>1. reqQueue2Mem \in Seq(MemTransaction)
    BY <1>0 DEF BelowOK, ReqQueue2MemOK
  <2>2. ASSUME NEW x \in MemTransaction, reqQueue2Mem' = Append(reqQueue2Mem, x)
        PROVE  Holds(reqQueue2Mem', TransactionsOf(blk))
    <3>1. Holds(Append(reqQueue2Mem, x), TransactionsOf(blk))
      BY <1>b, <2>1, HoldsAppend
    <3> QED  BY <2>2, <3>1
  <2> QED  BY <1>b, <2>2
<1>1. CASE mem_req_complete
  <2>1. /\ reqAckStack' = Tail(reqAckStack) /\ inMemory' = inMemory
        /\ setCacheBlock(llc, Head(reqAckStack)) \/ reqQueue2Mem' = reqQueue2Mem
    BY <1>1 DEF mem_req_complete
  <2>2. reqQueue2Mem' = reqQueue2Mem \/ \E x \in MemTransaction : reqQueue2Mem' = Append(reqQueue2Mem, x)
    BY <2>1, <1>1, FillBlocks, LevelFacts, BlockTyped
  <2>3. Holds(reqAckStack, {blk}) => Holds(Tail(reqAckStack), {blk}) \/ Head(reqAckStack) = blk
    <3>1. Holds(reqAckStack, {blk}) => Holds(Tail(reqAckStack), {blk}) \/ Head(reqAckStack) \in {blk}
      BY <1>1, FillBlocks, HoldsTail
    <3> QED  BY <3>1
  <2> QED  BY <1>1, <1>b, <2>1, <2>2, <2>3 DEF MemHolds
<1>2. CASE Refill
  <2>1. /\ reqAckStack' = reqAckStack /\ inMemory' = inMemory
        /\ setCacheBlock(level - 1, Head(cacheReqVec).blk)
    BY <1>2 DEF Refill
  <2>2. reqQueue2Mem' = reqQueue2Mem \/ \E x \in MemTransaction : reqQueue2Mem' = Append(reqQueue2Mem, x)
    BY <2>1, <1>2, FillBlocks, BlockTyped
  <2> QED  BY <1>b, <2>1, <2>2 DEF MemHolds
<1>3. CASE \E b \in Blocks : MemoryDataBusUpdate(b)
  <2>1. PICK b \in Blocks : MemoryDataBusUpdate(b)
    BY <1>3
  <2>2. /\ reqQueue2Mem' = reqQueue2Mem /\ inMemory[b] > 0 /\ reqAckStack' = Append(reqAckStack, b)
        /\ inMemory' = [inMemory EXCEPT ![b] = @ - 1]
    BY <2>1 DEF MemoryDataBusUpdate
  <2>3. reqAckStack \in Seq(Blocks)
    BY <1>0 DEF BelowOK
  <2>4. Holds(reqAckStack, {blk}) => Holds(reqAckStack', {blk})
    BY <2>2, <2>3, HoldsAppend
  <2>5. b = blk => Holds(reqAckStack', {blk})
    BY <2>2, <2>3, HoldsAppend
  <2>6. b # blk => inMemory'[blk] = inMemory[blk]
    BY <2>2, <1>0 DEF BelowOK
  <2> QED  BY <2>2, <2>4, <2>5, <2>6 DEF MemHolds
<1>4. CASE SendOutstandingToMem
  <2>1. inMemory' = inMemory /\ reqAckStack' = reqAckStack
    BY <1>4 DEF SendOutstandingToMem
  <2>2. \A k \in DOMAIN reqQueue2Mem : k \in DOMAIN reqQueue2Mem' /\ reqQueue2Mem'[k] = reqQueue2Mem[k]
    BY <1>4, SentAre
  <2> QED  BY <2>1, <2>2 DEF MemHolds, Holds
<1>5. CASE \E n \in 0 .. ReqQueue2MemSize : sendReq2Mem(n)
  <2>1. PICK n \in 0 .. ReqQueue2MemSize : sendReq2Mem(n)
    BY <1>5
  <2>2. reqAckStack' = reqAckStack
    BY <2>1 DEF sendReq2Mem
  <2>3. /\ inMemory' \in [Blocks -> Nat] /\ inMemory'[blk] >= inMemory[blk] /\ inMemory[blk] \in Nat
        /\ \A k \in DOMAIN reqQueue2Mem :
                 \/ inMemory'[reqQueue2Mem[k].blk] > 0
                 \/ k - n \in DOMAIN reqQueue2Mem' /\ reqQueue2Mem'[k - n] = reqQueue2Mem[k]
    BY <1>0, <2>1, MovedAre DEF BelowOK
  <2>4. inMemory[blk] > 0 => inMemory'[blk] > 0
    BY <2>3
  <2>5. Holds(reqQueue2Mem, TransactionsOf(blk)) => inMemory'[blk] > 0 \/ Holds(reqQueue2Mem', TransactionsOf(blk))
    BY <2>3 DEF Holds, TransactionsOf
  <2> QED  BY <2>2, <2>4, <2>5 DEF MemHolds
<1>6. CASE \E r \in Reqs, b \in Blocks, op \in Accesses : addTransaction(r, b, op)
  BY <1>a, <1>6 DEF addTransaction
<1>7. CASE \E served \in SUBSET Banks(0) : callBack(served)
  BY <1>a, <1>7 DEF callBack
<1>8. CASE dramUpdate \/ resetBankConflictRecorder \/ SendOutstandingDown
  BY <1>a, <1>8 DEF dramUpdate, resetBankConflictRecorder, SendOutstandingDown
<1>9. CASE PopAckQueue \/ PushAckQueue
  BY <1>a, <1>9, Zenon DEF PopAckQueue, PushAckQueue
<1>10. CASE updateReqQueueStall \/ updateReqQueueSkip
  BY <1>a, <1>10 DEF updateReqQueueStall, updateReqQueueSkip
<1>11. CASE updateReqQueueHit \/ updateReqQueueMiss
  BY <1>a, <1>11, Zenon DEF updateReqQueueHit, updateReqQueueMiss
<1> QED
  BY <1>1, <1>2, <1>3, <1>4, <1>5, <1>6, <1>7, <1>8, <1>9, <1>10, <1>11 DEF Next, Round

-----------------------------------------------------------------------------
(* A request of a lower level stays there until Refill takes its answer. *)

\* What a level's queues hold.
LEMMA LevelTyped ==
    ASSUME TypeInv, NEW l \in Levels
    PROVE  /\ \A b \in Banks(l) : reqQueue[l][b] \in Seq(QueuedReq(l)) /\ ackQueue[l][b] \in Seq(CacheReq)
           /\ \A e \in Entries(l) : EntryOK(mshr[l][e], l) /\ mshr[l][e].mshrQueue \in Seq(CacheReq)
           /\ DOMAIN reqQueue = Levels /\ DOMAIN ackQueue = Levels /\ DOMAIN mshr = Levels
           /\ DOMAIN reqQueue[l] = Banks(l) /\ DOMAIN mshr[l] = Entries(l)
<1>1. \A b \in Banks(l) : reqQueue[l][b] \in Seq(QueuedReq(l)) /\ ackQueue[l][b] \in Seq(CacheReq)
  BY DEF TypeInv, AllQueuesOK, QueuesOK, AllAcksOK, AcksOK
<1>2. \A e \in Entries(l) : EntryOK(mshr[l][e], l)
  BY DEF TypeInv, AllEntriesOK, EntriesOK
<1>3. DOMAIN reqQueue = Levels /\ DOMAIN ackQueue = Levels /\ DOMAIN mshr = Levels
  BY DEF TypeInv, AllQueuesOK, AllAcksOK, AllEntriesOK
<1>4. DOMAIN reqQueue[l] = Banks(l) /\ DOMAIN mshr[l] = Entries(l)
  BY DEF TypeInv, AllQueuesOK, QueuesOK, AllEntriesOK, EntriesOK
<1> QED  BY <1>1, <1>2, <1>3, <1>4 DEF EntryOK, MshrEntry

\* clearMshrEntry takes the front request of an entry and nothing else.
LEMMA ClearedQueue ==
    ASSUME NEW l, NEW x, EntryOK(x, l), x.valid
    PROVE  clearMshrEntry(x).mshrQueue = Tail(x.mshrQueue)
<1> DEFINE s == x.mshrQueue
<1>1. x \in MshrEntry /\ s \in Seq(CacheReq) /\ s # <<>>
  BY DEF EntryOK, MshrEntry
<1>2. Tail(s) \in Seq(CacheReq) /\ Len(Tail(s)) = Len(s) - 1
  <2> HIDE DEF s
  <2> QED  BY <1>1, HeadTailProperties
<1>3. CASE Len(s) = 1
  <2>1. Tail(s) = <<>>
    <3> HIDE DEF s
    <3>1. Len(Tail(s)) = 0
      BY <1>2, <1>3
    <3> QED  BY <1>2, <3>1, EmptySeq
  <2> QED  BY <1>3, <2>1 DEF clearMshrEntry, EmptyEntry
<1>4. CASE Len(s) # 1
  <2> DEFINE t == Tail(s)
  <2>1. clearMshrEntry(x) = [x EXCEPT !.mshrQueue = t]
    BY <1>4 DEF clearMshrEntry
  <2> HIDE DEF t
  <2>2. [x EXCEPT !.mshrQueue = t].mshrQueue = t
    BY <1>1 DEF MshrEntry
  <2> QED  BY <2>1, <2>2 DEF t
<1> QED  BY <1>3, <1>4

\* An entry with requests is in use.
LEMMA HeldIsValid ==
    ASSUME NEW l, NEW x, EntryOK(x, l), NEW M, Holds(x.mshrQueue, M)
    PROVE  x.valid /\ x.mshrQueue # <<>>
<1>1. ~x.valid => x.mshrQueue = <<>>
  BY DEF EntryOK, EmptyEntry
<1>2. x.mshrQueue # <<>>
  BY DEF Holds
<1> QED  BY <1>1, <1>2

\* One entry of a bank is answered.
LEMMA OneAnswered ==
    ASSUME TypeInv, NEW l \in Levels, NEW b, NEW e \in AnsweredOf(l, b), NEW d \in AnsweredOf(l, b)
    PROVE  e = d
<1>1. /\ e \in Entries(l) /\ d \in Entries(l)
      /\ Turn(l, e) <= Turn(l, d) /\ Turn(l, d) <= Turn(l, e)
  BY DEF AnsweredOf, Ready
<1>2. Turn(l, e) \in Nat /\ Turn(l, d) \in Nat /\ (Turn(l, e) = Turn(l, d) => e = d)
  BY <1>1, TurnsOf DEF TypeInv
<1>3. Turn(l, e) = Turn(l, d)
  BY <1>1, <1>2
<1> QED  BY <1>2, <1>3

\* PushAckQueue: the front of an entry or of a bank becomes an acknowledge.
LEMMA PushHolds ==
    ASSUME TypeInv, PushAckQueue, NEW m \in Levels, NEW blk \in Blocks, CacheHolds(m, blk)
    PROVE  CacheHolds(m, blk)'
<1> DEFINE F == FetchesOf(blk)
           Q == QueuedFetches(m, blk)
<1>1. cacheReqVec' = cacheReqVec
  BY DEF PushAckQueue
<1>0. level \in Levels
  BY DEF TypeInv, PhaseOK
<1>2. CASE level # m
  <2>1. reqQueue'[m] = reqQueue[m] /\ ackQueue'[m] = ackQueue[m] /\ mshr'[m] = mshr[m]
    BY <1>0, <1>2, LevelTyped DEF PushAckQueue
  <2> QED  BY <1>1, <2>1 DEF CacheHolds
<1>3. CASE level = m
  <2>1. mshr'[m] = [e \in Entries(m) |-> IF e \in Answered(m) \cup Dropped(m)
                                         THEN clearMshrEntry(mshr[m][e]) ELSE mshr[m][e]]
    BY <1>3, LevelTyped DEF PushAckQueue
  <2>2. ackQueue'[m] = [b \in Banks(m) |->
           IF AnsweredOf(m, b) # {}
           THEN Append(ackQueue[m][b], Front(m, CHOOSE e \in AnsweredOf(m, b) : TRUE))
           ELSE IF ReadyReq(m, b) THEN Append(ackQueue[m][b], Head(reqQueue[m][b]).req)
           ELSE ackQueue[m][b]]
    <3> DEFINE q(l) == [b \in Banks(l) |->
           IF AnsweredOf(l, b) # {}
           THEN Append(ackQueue[l][b], Front(l, CHOOSE e \in AnsweredOf(l, b) : TRUE))
           ELSE IF ReadyReq(l, b) THEN Append(ackQueue[l][b], Head(reqQueue[l][b]).req)
           ELSE ackQueue[l][b]]
    <3>1. level \in DOMAIN ackQueue
      BY <1>0, LevelTyped
    <3>2. ackQueue' = [ackQueue EXCEPT ![level] = q(level)]
      BY <3>1 DEF PushAckQueue
    <3> HIDE DEF q
    <3>3. ackQueue'[m] = q(m)
      BY <1>3, <3>1, <3>2
    <3> QED  BY <3>3 DEF q
  <2>3. reqQueue'[m] = [b \in Banks(m) |-> IF ReadyReq(m, b) THEN Tail(reqQueue[m][b]) ELSE reqQueue[m][b]]
    <3>1. m \in DOMAIN reqQueue
      BY LevelTyped
    <3>2. reqQueue' = [reqQueue EXCEPT ![m] = [b \in Banks(m) |->
             IF ReadyReq(m, b) THEN Tail(reqQueue[m][b]) ELSE reqQueue[m][b]]]
      BY <1>3, <3>1 DEF PushAckQueue
    <3> QED  BY <3>1, <3>2
  <2>4. ASSUME NEW b \in Banks(m), NEW e \in AnsweredOf(m, b)
        PROVE  ackQueue'[m][b] = Append(ackQueue[m][b], Front(m, e)) /\ Front(m, e) \in CacheReq
    <3>1. (CHOOSE d \in AnsweredOf(m, b) : TRUE) = e
      BY OneAnswered
    <3>2. AnsweredOf(m, b) # {}
      OBVIOUS
    <3>3. Front(m, e) \in CacheReq
      BY AnsweredTyped DEF TypeInv
    <3> QED  BY <2>2, <3>1, <3>2, <3>3
  <2>5. ASSUME NEW b \in Banks(m), AnsweredOf(m, b) = {}, ReadyReq(m, b)
        PROVE  ackQueue'[m][b] = Append(ackQueue[m][b], Head(reqQueue[m][b]).req)
               /\ Head(reqQueue[m][b]) \in QueuedReq(m)
    <3>1. reqQueue[m][b] \in Seq(QueuedReq(m)) /\ reqQueue[m][b] # <<>>
      BY <2>5, LevelTyped DEF ReadyReq
    <3> QED  BY <2>2, <2>5, <3>1, HeadTailProperties
  <2>6. ASSUME NEW b \in Banks(m), Holds(ackQueue[m][b], F) PROVE Holds(ackQueue'[m][b], F)
    <3>1. ackQueue[m][b] \in Seq(CacheReq)
      BY LevelTyped
    <3>2. CASE AnsweredOf(m, b) # {}
      <4>1. PICK e \in AnsweredOf(m, b) : TRUE
        BY <3>2
      <4>2. ackQueue'[m][b] = Append(ackQueue[m][b], Front(m, e)) /\ Front(m, e) \in CacheReq
        BY <2>4
      <4>3. Holds(Append(ackQueue[m][b], Front(m, e)), F)
        BY <2>6, <3>1, <4>2, HoldsAppend
      <4> QED  BY <4>2, <4>3
    <3>3. CASE AnsweredOf(m, b) = {} /\ ReadyReq(m, b)
      <4> DEFINE x == Head(reqQueue[m][b]).req
      <4>1. ackQueue'[m][b] = Append(ackQueue[m][b], x) /\ x \in CacheReq
        BY <2>5, <3>3 DEF QueuedReq
      <4> HIDE DEF x
      <4>2. Holds(Append(ackQueue[m][b], x), F)
        BY <2>6, <3>1, <4>1, HoldsAppend
      <4> QED  BY <4>1, <4>2
    <3>4. CASE AnsweredOf(m, b) = {} /\ ~ReadyReq(m, b)
      BY <2>2, <2>6, <3>4
    <3> QED  BY <3>2, <3>3, <3>4
  <2>7. ASSUME NEW b \in Banks(m), Holds(reqQueue[m][b], Q)
        PROVE  Holds(reqQueue'[m][b], Q) \/ Holds(ackQueue'[m][b], F)
    <3>1. reqQueue[m][b] \in Seq(QueuedReq(m)) /\ ackQueue[m][b] \in Seq(CacheReq)
      BY LevelTyped
    <3>2. CASE ReadyReq(m, b)
      <4>1. AnsweredOf(m, b) = {} /\ reqQueue[m][b] # <<>>
        BY <3>2 DEF ReadyReq
      <4>2. reqQueue'[m][b] = Tail(reqQueue[m][b])
        BY <2>3, <3>2
      <4>3. Holds(Tail(reqQueue[m][b]), Q) \/ Head(reqQueue[m][b]) \in Q
        BY <2>7, <3>1, <4>1, HoldsTail
      <4>4. ASSUME Head(reqQueue[m][b]) \in Q PROVE Holds(ackQueue'[m][b], F)
        <5> DEFINE x == Head(reqQueue[m][b]).req
        <5>1. ackQueue'[m][b] = Append(ackQueue[m][b], x) /\ x \in F /\ x \in CacheReq
          BY <2>5, <3>2, <4>1, <4>4 DEF QueuedReq, QueuedFetches
        <5> HIDE DEF x, F
        <5>2. Holds(Append(ackQueue[m][b], x), F)
          BY <3>1, <5>1, HoldsAppend
        <5> QED  BY <5>1, <5>2
      <4> QED  BY <4>2, <4>3, <4>4
    <3>3. CASE ~ReadyReq(m, b)
      BY <2>3, <2>7, <3>3
    <3> QED  BY <3>2, <3>3
  <2>8. ASSUME NEW e \in Entries(m), Holds(mshr[m][e].mshrQueue, F)
        PROVE  Holds(mshr'[m][e].mshrQueue, F) \/ \E b \in Banks(m) : Holds(ackQueue'[m][b], F)
    <3> DEFINE x == mshr[m][e]
    <3>1. EntryOK(x, m) /\ x.mshrQueue \in Seq(CacheReq) /\ x.valid /\ x.mshrQueue # <<>>
      BY <2>8, LevelTyped, HeldIsValid
    <3>2. Holds(Tail(x.mshrQueue), F) \/ Front(m, e) \in F
      BY <2>8, <3>1, HoldsTail DEF Front
    <3>3. clearMshrEntry(x).mshrQueue = Tail(x.mshrQueue)
      BY <3>1, ClearedQueue
    <3>4. CASE e \in Answered(m)
      <4>1. PICK b \in Banks(m) : e \in AnsweredOf(m, b)
        BY <3>4 DEF Answered
      <4>2. ackQueue'[m][b] = Append(ackQueue[m][b], Front(m, e)) /\ Front(m, e) \in CacheReq
            /\ ackQueue[m][b] \in Seq(CacheReq)
        BY <2>4, <4>1, LevelTyped
      <4>3. Front(m, e) \in F => Holds(Append(ackQueue[m][b], Front(m, e)), F)
        BY <4>2, HoldsAppend
      <4>4. mshr'[m][e].mshrQueue = Tail(x.mshrQueue)
        BY <2>1, <3>3, <3>4
      <4> QED  BY <3>2, <4>2, <4>3, <4>4
    <3>5. CASE e \notin Answered(m) /\ e \in Dropped(m)
      <4>1. Front(m, e) \notin F
        BY <3>5 DEF Dropped, IsWriteBack, FetchesOf
      <4>2. mshr'[m][e].mshrQueue = Tail(x.mshrQueue)
        BY <2>1, <3>3, <3>5
      <4> QED  BY <3>2, <4>1, <4>2
    <3>6. CASE e \notin Answered(m) /\ e \notin Dropped(m)
      BY <2>1, <2>8, <3>6
    <3> QED  BY <3>4, <3>5, <3>6
  <2> HIDE DEF F, Q
  <2>9. CacheHolds(m, blk) <=>
            \/ \E b \in Banks(m) : Holds(reqQueue[m][b], Q)
            \/ \E e \in Entries(m) : Holds(mshr[m][e].mshrQueue, F)
            \/ \E b \in Banks(m) : Holds(ackQueue[m][b], F)
            \/ Holds(cacheReqVec, F)
    BY DEF CacheHolds, F, Q
  <2>10. CacheHolds(m, blk)' <=>
            \/ \E b \in Banks(m) : Holds(reqQueue'[m][b], Q)
            \/ \E e \in Entries(m) : Holds(mshr'[m][e].mshrQueue, F)
            \/ \E b \in Banks(m) : Holds(ackQueue'[m][b], F)
            \/ Holds(cacheReqVec', F)
    BY DEF CacheHolds, F, Q
  <2> QED  BY <1>1, <2>6, <2>7, <2>8, <2>9, <2>10
<1> QED  BY <1>2, <1>3

\* Adding to a queue keeps what it holds.
LEMMA HoldsMore ==
    ASSUME NEW S, NEW q \in Seq(S), NEW x, NEW M, Holds(q, M)
    PROVE  Holds(Append(q, x), M)
<1>1. q \in Seq(S \cup {x}) /\ x \in S \cup {x}
  OBVIOUS
<1> QED  BY <1>1, HoldsAppend

\* Only the latency and the ready flag of queued requests change.
LEMMA HoldsRequests ==
    ASSUME NEW l, NEW q, NEW p \in Seq(QueuedReq(l)), DOMAIN p = DOMAIN q,
           \A k \in DOMAIN q : p[k].req = q[k].req, NEW blk, Holds(q, QueuedFetches(l, blk))
    PROVE  Holds(p, QueuedFetches(l, blk))
<1>1. \A k \in DOMAIN p : p[k] \in QueuedReq(l)
  BY ElementOfSeq, LenProperties
<1>2. \A k \in DOMAIN q : q[k] \in QueuedFetches(l, blk) => p[k] \in QueuedFetches(l, blk)
  BY <1>1 DEF QueuedFetches
<1> QED  BY <1>2, HoldsSame

\* setMshrEntryReady and clearOutstandingFlag leave the requests of all entries.
LEMMA FlagsHold ==
    ASSUME TypeInv, NEW l \in Levels, NEW blk, NEW sent,
           setMshrEntryReady(l, blk) \/ clearOutstandingFlag(l, sent),
           NEW m \in Levels, NEW e \in Entries(m)
    PROVE  mshr'[m][e].mshrQueue = mshr[m][e].mshrQueue
<1>1. mshr[m][e] \in MshrEntry /\ DOMAIN mshr = Levels
  BY LevelTyped DEF EntryOK
<1>2. ASSUME NEW x \in MshrEntry
      PROVE  /\ [x EXCEPT !.ready = TRUE].mshrQueue = x.mshrQueue
             /\ [x EXCEPT !.outstanding = FALSE].mshrQueue = x.mshrQueue
  BY DEF MshrEntry
<1>3. CASE setMshrEntryReady(l, blk)
  <2>1. \/ mshr'[m][e] = mshr[m][e]
        \/ mshr'[m][e] = [mshr[m][e] EXCEPT !.ready = TRUE]
    BY <1>1, <1>3 DEF setMshrEntryReady
  <2> QED  BY <2>1, <1>1, <1>2
<1>4. CASE clearOutstandingFlag(l, sent)
  <2>1. \/ mshr'[m][e] = mshr[m][e]
        \/ mshr'[m][e] = [mshr[m][e] EXCEPT !.outstanding = FALSE]
    BY <1>1, <1>4 DEF clearOutstandingFlag
  <2> QED  BY <2>1, <1>1, <1>2
<1> QED  BY <1>3, <1>4

\* Sending a request or a victim below adds to the queues.
LEMMA SendHolds ==
    ASSUME TypeInv, NEW l \in Levels, NEW req, sendReq2CacheBank(req, l),
           NEW m \in Levels, NEW b \in Banks(m), NEW M, Holds(reqQueue[m][b], M)
    PROVE  Holds(reqQueue'[m][b], M)
<1> DEFINE c == getCacheBank(req.blk, l)
<1>1. reqQueue' = [reqQueue EXCEPT ![l][c] = Append(@, Queued(l, req))]
  BY DEF sendReq2CacheBank
<1>2. reqQueue[m][b] \in Seq(QueuedReq(m)) /\ DOMAIN reqQueue = Levels /\ DOMAIN reqQueue[m] = Banks(m)
  BY LevelTyped
<1> HIDE DEF c
<1>3. CASE m = l /\ b = c
  <2>1. reqQueue'[m][b] = Append(reqQueue[m][b], Queued(l, req))
    BY <1>1, <1>2, <1>3
  <2> QED  BY <1>2, <2>1, HoldsMore
<1>4. CASE ~(m = l /\ b = c)
  <2>1. reqQueue'[m][b] = reqQueue[m][b]
    BY <1>1, <1>2, <1>4
  <2> QED  BY <2>1
<1> QED  BY <1>3, <1>4

\* A filled block may write its victim back below; no request is lost by it.
LEMMA BlockHolds ==
    ASSUME TypeInv, NEW l \in Levels, NEW blk, setCacheBlock(l, blk),
           NEW m \in Levels, NEW b \in Banks(m), NEW M, Holds(reqQueue[m][b], M)
    PROVE  Holds(reqQueue'[m][b], M)
<1>1. reqQueue' = reqQueue \/ (l < llc /\ sendReq2CacheBank(WriteBack(l, blk), l + 1))
  BY DEF setCacheBlock, writeBackDirtyCacheline
<1>2. l < llc => l + 1 \in Levels
  BY Geometry DEF Levels
<1> QED  BY <1>1, <1>2, SendHolds

\* A request that misses goes from its bank to an entry.
LEMMA MissHolds ==
    ASSUME TypeInv, Next, updateReqQueueMiss, NEW m \in Levels, NEW blk \in Blocks, CacheHolds(m, blk)
    PROVE  CacheHolds(m, blk)'
<1> DEFINE F == FetchesOf(blk)
           Q == QueuedFetches(m, blk)
           req == Head(reqQueue[level][Bank]).req
<1>1. ackQueue' = ackQueue /\ cacheReqVec' = cacheReqVec /\ ~Waits(level, Bank)
      /\ reqQueue' = [reqQueue EXCEPT ![level][Bank] = Tail(@)]
  BY Zenon DEF updateReqQueueMiss
<1>2. PICK e \in Entries(level) : MshrTarget(level, e, req.blk) /\ send2Mshr(level, e, req)
  BY Zenon DEF updateReqQueueMiss
<1>3. /\ level \in Levels /\ Bank \in Banks(level) /\ reqQueue[level][Bank] # <<>>
      /\ reqQueue[level][Bank] \in Seq(QueuedReq(level)) /\ Head(reqQueue[level][Bank]) \in QueuedReq(level)
      /\ req \in CacheReq
  BY <1>1, LookedUp, BankTyped DEF TypeInv
<1>4. DOMAIN reqQueue = Levels /\ DOMAIN mshr = Levels /\ DOMAIN reqQueue[m] = Banks(m) /\ DOMAIN mshr[m] = Entries(m)
  BY LevelTyped
<1> HIDE DEF req
<1>5. CASE level # m
  <2>1. reqQueue'[m] = reqQueue[m] /\ mshr'[m] = mshr[m]
    BY <1>1, <1>2, <1>4, <1>5 DEF send2Mshr
  <2> QED  BY <1>1, <2>1 DEF CacheHolds
<1>6. CASE level = m
  <2> DEFINE x == mshr[m][e]
             y == [valid |-> TRUE, ready |-> x.ready, blockAddr |-> req.blk,
                   outstanding |-> x.valid => x.outstanding, mshrQueue |-> Append(x.mshrQueue, req)]
  <2>1. mshr' = [mshr EXCEPT ![m][e] = y]
    BY <1>2, <1>4, <1>6 DEF send2Mshr
  <2>2. x.mshrQueue \in Seq(CacheReq) /\ e \in Entries(m)
    BY <1>2, <1>6, LevelTyped
  <2>3. y.mshrQueue = Append(x.mshrQueue, req)
    OBVIOUS
  <2>4. mshr'[m][e] = y /\ \A d \in Entries(m) \ {e} : mshr'[m][d] = mshr[m][d]
    <3> HIDE DEF y
    <3> QED  BY <2>1, <2>2, <1>4
  <2>5. Holds(x.mshrQueue, F) \/ req \in F => Holds(mshr'[m][e].mshrQueue, F)
    <3>1. Holds(x.mshrQueue, F) \/ req \in F => Holds(Append(x.mshrQueue, req), F)
      BY <1>3, <2>2, HoldsAppend
    <3> HIDE DEF F, x
    <3>2. mshr'[m][e].mshrQueue = Append(x.mshrQueue, req)
      BY <2>3, <2>4
    <3> QED  BY <3>1, <3>2
  <2>6. ASSUME NEW d \in Entries(m), Holds(mshr[m][d].mshrQueue, F) PROVE Holds(mshr'[m][d].mshrQueue, F)
    BY <2>4, <2>5, <2>6
  <2>7. ASSUME NEW b \in Banks(m), Holds(reqQueue[m][b], Q)
        PROVE  Holds(reqQueue'[m][b], Q) \/ Holds(mshr'[m][e].mshrQueue, F)
    <3>1. CASE b = Bank
      <4>1. reqQueue'[m][b] = Tail(reqQueue[m][b])
        BY <1>1, <1>3, <1>4, <1>6, <3>1
      <4>2. Holds(Tail(reqQueue[m][b]), Q) \/ Head(reqQueue[m][b]) \in Q
        BY <1>3, <1>6, <2>7, <3>1, HoldsTail
      <4>3. Head(reqQueue[m][b]) \in Q => req \in F
        BY <1>6, <3>1 DEF QueuedFetches, req
      <4> QED  BY <4>1, <4>2, <4>3, <2>5
    <3>2. CASE b # Bank
      <4>1. reqQueue'[m][b] = reqQueue[m][b]
        BY <1>1, <1>3, <1>4, <1>6, <3>2
      <4> QED  BY <2>7, <4>1
    <3> QED  BY <3>1, <3>2
  <2> HIDE DEF F, Q, x, y
  <2>8. CacheHolds(m, blk) <=>
            \/ \E b \in Banks(m) : Holds(reqQueue[m][b], Q)
            \/ \E d \in Entries(m) : Holds(mshr[m][d].mshrQueue, F)
            \/ \E b \in Banks(m) : Holds(ackQueue[m][b], F)
            \/ Holds(cacheReqVec, F)
    BY DEF CacheHolds, F, Q
  <2>9. CacheHolds(m, blk)' <=>
            \/ \E b \in Banks(m) : Holds(reqQueue'[m][b], Q)
            \/ \E d \in Entries(m) : Holds(mshr'[m][d].mshrQueue, F)
            \/ \E b \in Banks(m) : Holds(ackQueue'[m][b], F)
            \/ Holds(cacheReqVec', F)
    BY DEF CacheHolds, F, Q
  <2> QED  BY <1>1, <2>2, <2>6, <2>7, <2>8, <2>9
<1> QED  BY <1>5, <1>6

\* PopAckQueue: the fronts of the acknowledge banks are on their way up.
LEMMA PopHolds ==
    ASSUME TypeInv, PopAckQueue, NEW m \in Levels, NEW blk \in Blocks, CacheHolds(m, blk)
    PROVE  CacheHolds(m, blk)'
<1> DEFINE F == FetchesOf(blk)
<1>0. level \in Levels /\ cacheReqVec = <<>>
  BY DEF TypeInv, PhaseOK, PopAckQueue
<1>1. reqQueue' = reqQueue /\ mshr' = mshr
  BY DEF PopAckQueue
<1>2. ~Holds(cacheReqVec, F)
  BY <1>0 DEF Holds
<1>3. ASSUME NEW b \in Banks(m), Holds(ackQueue[m][b], F)
      PROVE  Holds(ackQueue'[m][b], F) \/ Holds(cacheReqVec', F)
  <2>1. ackQueue[m][b] \in Seq(CacheReq) /\ DOMAIN ackQueue = Levels
    BY LevelTyped
  <2>2. ackQueue[m][b] # <<>>
    BY <1>3 DEF Holds
  <2>3. CASE level # m
    <3>1. ackQueue'[m] = ackQueue[m]
      BY <1>0, <2>1, <2>3 DEF PopAckQueue
    <3> QED  BY <1>3, <3>1
  <2>4. CASE level = m
    <3>1. ackQueue'[m][b] = Tail(ackQueue[m][b])
      BY <2>1, <2>2, <2>4 DEF PopAckQueue
    <3>2. Holds(Tail(ackQueue[m][b]), F) \/ Head(ackQueue[m][b]) \in F
      BY <1>3, <2>1, <2>2, HoldsTail
    <3>3. Head(ackQueue[m][b]) \in F => Holds(cacheReqVec', F)
      <4>1. \E k \in DOMAIN cacheReqVec' : cacheReqVec'[k] = Head(ackQueue[m][b])
        BY <2>2, <2>4, PoppedAre
      <4> QED  BY <4>1 DEF Holds
    <3> QED  BY <3>1, <3>2, <3>3
  <2> QED  BY <2>3, <2>4
<1> HIDE DEF F
<1>4. CacheHolds(m, blk) <=>
          \/ \E b \in Banks(m) : Holds(reqQueue[m][b], QueuedFetches(m, blk))
          \/ \E d \in Entries(m) : Holds(mshr[m][d].mshrQueue, F)
          \/ \E b \in Banks(m) : Holds(ackQueue[m][b], F)
          \/ Holds(cacheReqVec, F)
  BY DEF CacheHolds, F
<1>5. CacheHolds(m, blk)' <=>
          \/ \E b \in Banks(m) : Holds(reqQueue'[m][b], QueuedFetches(m, blk))
          \/ \E d \in Entries(m) : Holds(mshr'[m][d].mshrQueue, F)
          \/ \E b \in Banks(m) : Holds(ackQueue'[m][b], F)
          \/ Holds(cacheReqVec', F)
  BY DEF CacheHolds, F
<1> QED  BY <1>1, <1>2, <1>3, <1>4, <1>5

\* updateReqQueueHit and updateReqQueueLatency keep the requests of the banks.
LEMMA QueuedHolds ==
    ASSUME TypeInv, Next, updateReqQueueHit \/ updateReqQueueLatency,
           NEW m \in Levels, NEW b \in Banks(m), NEW blk, Holds(reqQueue[m][b], QueuedFetches(m, blk))
    PROVE  Holds(reqQueue'[m][b], QueuedFetches(m, blk))
<1>1. reqQueue'[m][b] \in Seq(QueuedReq(m)) /\ reqQueue[m][b] \in Seq(QueuedReq(m))
      /\ DOMAIN reqQueue = Levels /\ DOMAIN reqQueue[m] = Banks(m)
  BY QueuesStep, LevelTyped DEF AllQueuesOK, QueuesOK
<1>2. \A k \in DOMAIN reqQueue[m][b] : reqQueue[m][b][k] \in QueuedReq(m)
  BY <1>1, ElementOfSeq, LenProperties
<1>3. ASSUME NEW x \in QueuedReq(m), NEW lat
      PROVE  [x EXCEPT !.lat = lat].req = x.req /\ [x EXCEPT !.ready = TRUE].req = x.req
  BY DEF QueuedReq
<1>4. CASE updateReqQueueLatency
  <2>1. reqQueue'[m][b] = [k \in DOMAIN reqQueue[m][b] |->
            [reqQueue[m][b][k] EXCEPT !.lat = IF @ = 0 THEN 0 ELSE @ - 1]]
    BY <1>4 DEF updateReqQueueLatency
  <2>2. DOMAIN reqQueue'[m][b] = DOMAIN reqQueue[m][b]
    BY <2>1
  <2>3. ASSUME NEW k \in DOMAIN reqQueue[m][b] PROVE reqQueue'[m][b][k].req = reqQueue[m][b][k].req
    <3> DEFINE lat == IF reqQueue[m][b][k].lat = 0 THEN 0 ELSE reqQueue[m][b][k].lat - 1
    <3>1. reqQueue'[m][b][k] = [reqQueue[m][b][k] EXCEPT !.lat = lat]
      BY <2>1
    <3> HIDE DEF lat
    <3> QED  BY <3>1, <1>2, <1>3
  <2> QED  BY <1>1, <2>2, <2>3, HoldsRequests
<1>5. CASE updateReqQueueHit
  <2>1. reqQueue' = [reqQueue EXCEPT ![level][Bank][1].ready = TRUE]
    BY <1>5, Zenon DEF updateReqQueueHit
  <2> DEFINE s == reqQueue[m][b]
             t == [s EXCEPT ![1].ready = TRUE]
  <2>2. reqQueue'[m][b] = s \/ reqQueue'[m][b] = t
    <3>1. CASE m = level /\ b = Bank
      BY <1>1, <2>1, <3>1
    <3>2. CASE ~(m = level /\ b = Bank)
      BY <1>1, <2>1, <3>2
    <3> QED  BY <3>1, <3>2
  <2>3. DOMAIN t = DOMAIN s /\ \A k \in DOMAIN s : t[k] = s[k] \/ t[k] = [s[k] EXCEPT !.ready = TRUE]
    BY <1>1
  <2>4. \A k \in DOMAIN s : s[k] \in QueuedReq(m)
    BY <1>2
  <2> HIDE DEF t, s
  <2>5. \A k \in DOMAIN s : t[k].req = s[k].req
    BY <2>3, <2>4, <1>3
  <2>6. DOMAIN reqQueue'[m][b] = DOMAIN reqQueue[m][b]
        /\ \A k \in DOMAIN reqQueue[m][b] : reqQueue'[m][b][k].req = reqQueue[m][b][k].req
    BY <2>2, <2>3, <2>5 DEF s
  <2> QED  BY <1>1, <2>6, HoldsRequests
<1> QED  BY <1>4, <1>5

\* What is waited for in a cache stays in its queues, entries, acknowledges and
\* answers until it refills the level above.
LEMMA CacheStays ==
    ASSUME TypeInv, Next, NEW m \in Levels, m > 0, NEW blk \in Blocks, CacheHolds(m, blk)
    PROVE  CacheHolds(m, blk)' \/ (Refill /\ Head(cacheReqVec).blk = blk)
<1> DEFINE F == FetchesOf(blk)
           Q == QueuedFetches(m, blk)
           Q1 == \A b \in Banks(m) : Holds(reqQueue[m][b], Q) => Holds(reqQueue'[m][b], Q)
           E1 == \A e \in Entries(m) : mshr'[m][e].mshrQueue = mshr[m][e].mshrQueue
           A1 == ackQueue'[m] = ackQueue[m]
           V1 == Holds(cacheReqVec, F) => Holds(cacheReqVec', F)
<1>0. /\ level \in Levels /\ llc \in Levels /\ 0 \in Levels /\ m # 0
      /\ DOMAIN reqQueue = Levels /\ DOMAIN mshr = Levels /\ DOMAIN ackQueue = Levels
      /\ \A l \in Levels : l \in Nat
  BY LevelFacts, LevelTyped DEF TypeInv, PhaseOK
<1>k. ASSUME Q1, E1, A1, V1 PROVE CacheHolds(m, blk)'
  <2>1. CacheHolds(m, blk) <=>
            \/ \E b \in Banks(m) : Holds(reqQueue[m][b], Q)
            \/ \E d \in Entries(m) : Holds(mshr[m][d].mshrQueue, F)
            \/ \E b \in Banks(m) : Holds(ackQueue[m][b], F)
            \/ Holds(cacheReqVec, F)
    BY DEF CacheHolds
  <2>2. CacheHolds(m, blk)' <=>
            \/ \E b \in Banks(m) : Holds(reqQueue'[m][b], Q)
            \/ \E d \in Entries(m) : Holds(mshr'[m][d].mshrQueue, F)
            \/ \E b \in Banks(m) : Holds(ackQueue'[m][b], F)
            \/ Holds(cacheReqVec', F)
    BY DEF CacheHolds
  <2> HIDE DEF F, Q
  <2> QED  BY <1>k, <2>1, <2>2
<1>a. ASSUME reqQueue' = reqQueue PROVE Q1
  BY <1>a
<1>b. ASSUME mshr' = mshr PROVE E1
  BY <1>b
<1>c. ASSUME ackQueue' = ackQueue PROVE A1
  BY <1>c
<1>d. ASSUME cacheReqVec' = cacheReqVec PROVE V1
  BY <1>d
<1>1. CASE \E r \in Reqs, c \in Blocks, op \in Accesses : addTransaction(r, c, op)
  <2>1. PICK r \in Reqs, c \in Blocks, op \in Accesses : addTransaction(r, c, op)
    BY <1>1
  <2>2. /\ sendReq2CacheBank([id |-> r, blk |-> c, op |-> op], 0)
        /\ mshr' = mshr /\ ackQueue' = ackQueue /\ cacheReqVec' = cacheReqVec
    BY <2>1 DEF addTransaction
  <2>3. Q1
    BY <1>0, <2>2, SendHolds
  <2> HIDE DEF Q1, E1, A1, V1
  <2> QED  BY <1>k, <1>b, <1>c, <1>d, <2>2, <2>3
<1>2. CASE \E served \in SUBSET Banks(0) : callBack(served)
  <2>1. reqQueue' = reqQueue /\ mshr' = mshr /\ cacheReqVec' = cacheReqVec
    BY <1>2 DEF callBack
  <2>2. ackQueue'[m] = ackQueue[m]
    BY <1>0, <1>2 DEF callBack
  <2> QED  BY <1>k, <2>1, <2>2
<1>3. CASE mem_req_complete
  <2>1. /\ setCacheBlock(llc, Head(reqAckStack)) \/ reqQueue' = reqQueue
        /\ setMshrEntryReady(llc, Head(reqAckStack))
        /\ ackQueue' = ackQueue /\ cacheReqVec' = cacheReqVec
    BY <1>3 DEF mem_req_complete
  <2>2. Q1
    BY <1>0, <2>1, BlockHolds
  <2>3. E1
    BY <1>0, <2>1, FlagsHold
  <2> HIDE DEF Q1, E1, A1, V1
  <2> QED  BY <1>k, <1>c, <1>d, <2>1, <2>2, <2>3
<1>4. CASE Refill
  <2>1. /\ setCacheBlock(level - 1, Head(cacheReqVec).blk)
        /\ setMshrEntryReady(level - 1, Head(cacheReqVec).blk)
        /\ ackQueue' = ackQueue /\ cacheReqVec' = Tail(cacheReqVec)
        /\ level - 1 \in Levels /\ cacheReqVec \in Seq(CacheReq) /\ cacheReqVec # <<>>
    BY <1>4, FillBlocks DEF Refill
  <2>2. Q1
    BY <2>1, BlockHolds
  <2>3. E1
    BY <2>1, FlagsHold
  <2>4. V1 \/ Head(cacheReqVec).blk = blk
    <3>1. Holds(cacheReqVec, F) => Holds(Tail(cacheReqVec), F) \/ Head(cacheReqVec) \in F
      BY <2>1, HoldsTail
    <3>2. Head(cacheReqVec) \in F => Head(cacheReqVec).blk = blk
      BY DEF FetchesOf
    <3> HIDE DEF F
    <3> QED  BY <2>1, <3>1, <3>2
  <2> HIDE DEF Q1, E1, A1, V1
  <2> QED  BY <1>4, <1>k, <1>c, <2>1, <2>2, <2>3, <2>4
<1>5. CASE SendOutstandingDown
  <2> DEFINE To(b) == {e \in SentDown(level) : getCacheBank(Front(level, e).blk, level + 1) = b}
  <2>1. /\ reqQueue' = [reqQueue EXCEPT ![level + 1] = [b \in Banks(level + 1) |->
                 IF To(b) = {} THEN @[b]
                 ELSE Append(@[b], Queued(level + 1, Front(level, CHOOSE e \in To(b) : TRUE)))]]
        /\ clearOutstandingFlag(level, SentDown(level))
        /\ ackQueue' = ackQueue /\ cacheReqVec' = cacheReqVec
    BY <1>5 DEF SendOutstandingDown
  <2> HIDE DEF To
  <2>2. E1
    BY <1>0, <2>1, FlagsHold
  <2>3. ASSUME NEW b \in Banks(m), Holds(reqQueue[m][b], Q) PROVE Holds(reqQueue'[m][b], Q)
    <3> DEFINE x == Queued(level + 1, Front(level, CHOOSE e \in To(b) : TRUE))
    <3>1. reqQueue'[m][b] = reqQueue[m][b] \/ reqQueue'[m][b] = Append(reqQueue[m][b], x)
      <4>1. CASE m # level + 1
        BY <1>0, <2>1, <4>1
      <4>2. CASE m = level + 1
        <5>1. reqQueue'[m][b] = IF To(b) = {} THEN reqQueue[m][b] ELSE Append(reqQueue[m][b], x)
          BY <1>0, <2>1, <4>2
        <5> QED  BY <5>1
      <4> QED  BY <4>1, <4>2
    <3> HIDE DEF x
    <3>2. reqQueue[m][b] \in Seq(QueuedReq(m))
      BY LevelTyped
    <3>3. Holds(Append(reqQueue[m][b], x), Q)
      BY <2>3, <3>2, HoldsMore
    <3> QED  BY <2>3, <3>1, <3>3
  <2>4. Q1
    BY <2>3
  <2> HIDE DEF Q1, E1, A1, V1
  <2> QED  BY <1>k, <1>c, <1>d, <2>1, <2>2, <2>4
<1>6. CASE SendOutstandingToMem
  <2>1. PICK sent : clearOutstandingFlag(llc, sent)
    BY <1>6, SentAre
  <2>2. reqQueue' = reqQueue /\ ackQueue' = ackQueue /\ cacheReqVec' = cacheReqVec
    BY <1>6 DEF SendOutstandingToMem, queues
  <2>3. E1
    BY <1>0, <2>1, FlagsHold
  <2> HIDE DEF Q1, E1, A1, V1
  <2> QED  BY <1>k, <1>a, <1>c, <1>d, <2>2, <2>3
<1>7. CASE updateReqQueueHit
  <2>1. mshr' = mshr /\ ackQueue' = ackQueue /\ cacheReqVec' = cacheReqVec
    BY <1>7, Zenon DEF updateReqQueueHit
  <2>2. Q1
    BY <1>7, QueuedHolds
  <2> HIDE DEF Q1, E1, A1, V1
  <2> QED  BY <1>k, <1>b, <1>c, <1>d, <2>1, <2>2
<1>8. CASE \E n \in 0 .. ReqQueue2MemSize : sendReq2Mem(n)
  <2>1. mshr' = mshr /\ ackQueue' = ackQueue /\ cacheReqVec' = cacheReqVec /\ updateReqQueueLatency
    BY <1>8 DEF sendReq2Mem
  <2>2. Q1
    BY <2>1, QueuedHolds
  <2> HIDE DEF Q1, E1, A1, V1
  <2> QED  BY <1>k, <1>b, <1>c, <1>d, <2>1, <2>2
<1>e. ASSUME UNCHANGED <<reqQueue, mshr, ackQueue, cacheReqVec>> PROVE CacheHolds(m, blk)'
  BY <1>k, <1>e
<1>9. CASE \E c \in Blocks : MemoryDataBusUpdate(c)
  BY <1>e, <1>9 DEF MemoryDataBusUpdate, queues
<1>10. CASE dramUpdate \/ resetBankConflictRecorder
  BY <1>e, <1>10 DEF dramUpdate, resetBankConflictRecorder, queues
<1>11. CASE updateReqQueueStall \/ updateReqQueueSkip
  BY <1>e, <1>11 DEF updateReqQueueStall, updateReqQueueSkip, queues
<1>12. CASE PopAckQueue
  BY <1>12, PopHolds
<1>13. CASE PushAckQueue
  BY <1>13, PushHolds
<1>14. CASE updateReqQueueMiss
  BY <1>14, MissHolds
<1> QED
  BY <1>1, <1>2, <1>3, <1>4, <1>5, <1>6, <1>7, <1>8, <1>9, <1>10, <1>11, <1>12, <1>13, <1>14
     DEF Next, Round

-----------------------------------------------------------------------------
(* Which entries wait. *)

\* An entry that is readied waits no more; the others are as before.
LEMMA ReadiedEntry ==
    ASSUME TypeInv, NEW l0 \in Levels, NEW b, setMshrEntryReady(l0, b),
           NEW l \in Levels, NEW e \in Entries(l), Waiting(mshr'[l][e])
    PROVE  /\ Waiting(mshr[l][e]) /\ mshr'[l][e].blockAddr = mshr[l][e].blockAddr
           /\ l = l0 => mshr[l][e].blockAddr # b
<1>1. mshr[l][e] \in MshrEntry /\ DOMAIN mshr = Levels
  BY LevelTyped DEF EntryOK
<1>2. \A x \in MshrEntry : [x EXCEPT !.ready = TRUE].ready = TRUE
  BY DEF MshrEntry
<1>3. CASE l = l0 /\ mshr[l][e].valid /\ mshr[l][e].blockAddr = b
  <2>1. mshr'[l][e] = [mshr[l][e] EXCEPT !.ready = TRUE]
    BY <1>1, <1>3 DEF setMshrEntryReady
  <2> QED  BY <1>1, <1>2, <2>1 DEF Waiting
<1>4. CASE ~(l = l0 /\ mshr[l][e].valid /\ mshr[l][e].blockAddr = b)
  <2>1. mshr'[l][e] = mshr[l][e]
    BY <1>1, <1>4 DEF setMshrEntryReady
  <2> QED  BY <1>4, <2>1 DEF Waiting
<1> QED  BY <1>3, <1>4

\* An entry starts to wait when it is sent.
LEMMA SentEntry ==
    ASSUME TypeInv, NEW l0 \in Levels, NEW sent, clearOutstandingFlag(l0, sent),
           NEW l \in Levels, NEW e \in Entries(l), Waiting(mshr'[l][e])
    PROVE  /\ mshr'[l][e].blockAddr = mshr[l][e].blockAddr
           /\ Waiting(mshr[l][e]) \/ (l = l0 /\ e \in sent)
<1>1. mshr[l][e] \in MshrEntry /\ DOMAIN mshr = Levels
  BY LevelTyped DEF EntryOK
<1>2. \A x \in MshrEntry : [x EXCEPT !.outstanding = FALSE].blockAddr = x.blockAddr
  BY DEF MshrEntry
<1>3. CASE l = l0 /\ e \in sent
  <2>1. mshr'[l][e] = [mshr[l][e] EXCEPT !.outstanding = FALSE]
    BY <1>1, <1>3 DEF clearOutstandingFlag
  <2> QED  BY <1>1, <1>2, <1>3, <2>1
<1>4. CASE ~(l = l0 /\ e \in sent)
  <2>1. mshr'[l][e] = mshr[l][e]
    BY <1>1, <1>4 DEF clearOutstandingFlag
  <2> QED  BY <2>1
<1> QED  BY <1>3, <1>4

\* An entry that is sent to the next level has its front request there, which
\* is not a write-back: those are in the last level only.
LEMMA SentDownHolds ==
    ASSUME TypeInv, OnceInv, SendOutstandingDown, NEW l, l = level, NEW e \in SentDown(l),
           NEW blk, blk = mshr[l][e].blockAddr
    PROVE  l + 1 \in Levels /\ l < llc /\ CacheHolds(l + 1, blk)'
<1> DEFINE m == l + 1
           c == getCacheBank(Front(l, e).blk, m)
           To(b) == {d \in SentDown(l) : getCacheBank(Front(l, d).blk, m) = b}
           x == Queued(m, Front(l, e))
<1>1. l \in Levels /\ l < llc /\ m \in Levels /\ l = 0
  <2>1. l \in Levels /\ l < llc
    BY DEF TypeInv, PhaseOK, SendOutstandingDown
  <2> QED  BY <2>1, Geometry DEF Levels
<1>2. e \in Entries(l) /\ mshr[l][e].valid
  BY DEF SentDown, Outstanding
<1>3. /\ Front(l, e) \in CacheReq /\ Front(l, e).blk = blk /\ c \in Banks(m)
      /\ mshr[l][e].mshrQueue # <<>>
  BY <1>1, <1>2, FrontTyped DEF TypeInv
<1>4. Front(l, e).op # "WRITEBACK_DIRTY_BLOCK"
  BY <1>1, <1>2, <1>3, FrontFacts DEF IsWriteBack
<1>5. To(c) = {e}
  <2>1. \A d \in SentDown(l) : d \in Outstanding(l) /\ d \in Nat
    BY <1>1, Geometry DEF SentDown, Outstanding, Entries
  <2>2. ASSUME NEW d \in To(c), d < e PROVE FALSE
    BY <2>1, <2>2 DEF SentDown
  <2>3. ASSUME NEW d \in To(c), e < d PROVE FALSE
    BY <2>1, <2>3 DEF SentDown
  <2>4. e \in To(c) /\ e \in Nat /\ \A d \in To(c) : d \in Nat
    BY <2>1
  <2>5. \A d \in To(c) : ~(d < e) /\ ~(e < d)
    BY <2>2, <2>3
  <2> DEFINE T == To(c)
  <2> HIDE DEF T
  <2>6. \A d \in T : d = e
    BY <2>4, <2>5 DEF T
  <2> QED  BY <2>4, <2>6 DEF T
<1>6. reqQueue' = [reqQueue EXCEPT ![m] = [b \in Banks(m) |->
                 IF To(b) = {} THEN @[b]
                 ELSE Append(@[b], Queued(m, Front(l, CHOOSE d \in To(b) : TRUE)))]]
  BY DEF SendOutstandingDown
<1>7. DOMAIN reqQueue = Levels /\ reqQueue[m][c] \in Seq(QueuedReq(m))
  BY <1>1, <1>3, LevelTyped
<1>8. reqQueue'[m][c] = Append(reqQueue[m][c], x)
  <2>1. (CHOOSE d \in To(c) : TRUE) = e /\ To(c) # {}
    BY <1>5
  <2> HIDE DEF To, c, m
  <2>2. reqQueue'[m][c] = IF To(c) = {} THEN reqQueue[m][c]
             ELSE Append(reqQueue[m][c], Queued(m, Front(l, CHOOSE d \in To(c) : TRUE)))
    BY <1>1, <1>3, <1>6, <1>7
  <2> QED  BY <2>1, <2>2
<1>9. x \in QueuedReq(m) /\ x.req = Front(l, e)
  BY <1>1, <1>3, Geometry DEF Queued, QueuedReq
<1>10. x \in QueuedFetches(m, blk)
  BY <1>3, <1>4, <1>9 DEF QueuedFetches, FetchesOf
<1> HIDE DEF x, c
<1>11. Holds(reqQueue'[m][c], QueuedFetches(m, blk))
  BY <1>7, <1>8, <1>9, <1>10, HoldsAppend
<1>12. CacheHolds(m, blk)'
  BY <1>3, <1>11 DEF CacheHolds
<1> QED  BY <1>1, <1>12

\* An entry that waits after a step waited before it, or is sent by it.
LEMMA WaitingWas ==
    ASSUME TypeInv, OnceInv, Next, NEW l \in Levels, NEW e \in Entries(l), Waiting(mshr'[l][e]),
           NEW blk, blk = mshr'[l][e].blockAddr
    PROVE  \/ /\ Waiting(mshr[l][e]) /\ mshr[l][e].blockAddr = blk
              /\ mem_req_complete /\ l = llc => Head(reqAckStack) # blk
              /\ Refill /\ l = level - 1 => Head(cacheReqVec).blk # blk
           \/ l = llc /\ MemHolds(blk)'
           \/ l < llc /\ CacheHolds(l + 1, blk)'
<1> DEFINE Same == Waiting(mshr[l][e]) /\ mshr[l][e].blockAddr = blk
           R == Refill /\ l = level - 1 => Head(cacheReqVec).blk # blk
           C == mem_req_complete /\ l = llc => Head(reqAckStack) # blk
<1>0. /\ level \in Levels /\ llc \in Levels /\ DOMAIN mshr = Levels
      /\ mshr[l][e] \in MshrEntry
  BY LevelFacts, LevelTyped DEF TypeInv, PhaseOK, EntryOK
<1>p. /\ phase # "complete" => ~mem_req_complete
      /\ phase # "refill" => ~Refill
  BY DEF mem_req_complete, Refill
<1>a. ASSUME mshr' = mshr, phase # "complete", phase # "refill" PROVE Same /\ C /\ R
  BY <1>a, <1>p
<1>1. CASE mem_req_complete
  <2>1. setMshrEntryReady(llc, Head(reqAckStack)) /\ phase = "complete"
    BY <1>1 DEF mem_req_complete
  <2>2. Same /\ C
    BY <1>0, <2>1, ReadiedEntry
  <2>3. R
    BY <2>1, <1>p
  <2> QED  BY <2>2, <2>3
<1>2. CASE Refill
  <2>1. setMshrEntryReady(level - 1, Head(cacheReqVec).blk) /\ phase = "refill" /\ level - 1 \in Levels
    BY <1>2, FillBlocks DEF Refill
  <2>2. Same /\ R
    BY <1>0, <2>1, ReadiedEntry
  <2>3. C
    BY <2>1, <1>p
  <2> QED  BY <2>2, <2>3
<1>3. CASE PushAckQueue
  <2>1. phase = "pushAck"
    BY <1>3 DEF PushAckQueue
  <2>2. Same
    <3>1. CASE l # level
      <4>1. mshr'[l] = mshr[l]
        BY <1>0, <1>3, <3>1 DEF PushAckQueue
      <4> QED  BY <4>1
    <3>2. CASE l = level
      <4>1. mshr'[l][e] = IF e \in Answered(l) \cup Dropped(l) THEN clearMshrEntry(mshr[l][e]) ELSE mshr[l][e]
        BY <1>0, <1>3, <3>2 DEF PushAckQueue
      <4>2. CASE e \in Answered(l) \cup Dropped(l)
        <5>1. mshr'[l][e] = EmptyEntry \/ \E q : mshr'[l][e] = [mshr[l][e] EXCEPT !.mshrQueue = q]
          BY <4>1, <4>2 DEF clearMshrEntry
        <5>2. mshr'[l][e] # EmptyEntry
          BY DEF EmptyEntry, Waiting
        <5>3. PICK q : mshr'[l][e] = [mshr[l][e] EXCEPT !.mshrQueue = q]
          BY <5>1, <5>2
        <5> QED  BY <1>0, <5>3 DEF Waiting, MshrEntry
      <4>3. CASE e \notin Answered(l) \cup Dropped(l)
        <5>1. mshr'[l][e] = mshr[l][e]
          BY <4>1, <4>3
        <5> QED  BY <5>1
      <4> QED  BY <4>2, <4>3
    <3> QED  BY <3>1, <3>2
  <2> QED  BY <1>p, <2>1, <2>2
<1>4. CASE SendOutstandingDown
  <2>1. clearOutstandingFlag(level, SentDown(level)) /\ phase = "outstanding"
    BY <1>4 DEF SendOutstandingDown
  <2>2. mshr[l][e].blockAddr = blk /\ (Waiting(mshr[l][e]) \/ (l = level /\ e \in SentDown(level)))
    BY <1>0, <2>1, SentEntry
  <2>3. CASE l = level /\ e \in SentDown(level)
    <3>1. l < llc /\ CacheHolds(l + 1, blk)'
      BY <1>4, <2>2, <2>3, SentDownHolds
    <3> QED  BY <3>1
  <2> QED  BY <1>p, <2>1, <2>2, <2>3
<1>5. CASE SendOutstandingToMem
  <2>1. PICK sent \in SUBSET Outstanding(llc) :
                 /\ clearOutstandingFlag(llc, sent)
                 /\ \A d \in sent : \E k \in DOMAIN reqQueue2Mem' : reqQueue2Mem'[k].blk = mshr[llc][d].blockAddr
    BY <1>5, SentAre
  <2>2. reqQueue2Mem' \in Seq(MemTransaction) /\ phase = "outstanding"
    BY <1>5, SentAre DEF SendOutstandingToMem, ReqQueue2MemOK
  <2>3. mshr[l][e].blockAddr = blk /\ (Waiting(mshr[l][e]) \/ (l = llc /\ e \in sent))
    BY <1>0, <2>1, SentEntry
  <2>4. CASE l = llc /\ e \in sent
    <3>1. PICK k \in DOMAIN reqQueue2Mem' : reqQueue2Mem'[k].blk = blk
      BY <2>1, <2>3, <2>4
    <3>2. reqQueue2Mem'[k] \in MemTransaction
      BY <2>2, ElementOfSeq, LenProperties
    <3>3. Holds(reqQueue2Mem', TransactionsOf(blk))
      BY <3>1, <3>2 DEF Holds, TransactionsOf
    <3> QED  BY <2>4, <3>3 DEF MemHolds
  <2> QED  BY <1>p, <2>2, <2>3, <2>4
<1>6. CASE updateReqQueueMiss
  <2> DEFINE req == Head(reqQueue[level][Bank]).req
  <2>1. phase = "request"
    BY <1>6, Zenon DEF updateReqQueueMiss
  <2>2. PICK d \in Entries(level) : MshrTarget(level, d, req.blk) /\ send2Mshr(level, d, req)
    BY <1>6, Zenon DEF updateReqQueueMiss
  <2> HIDE DEF req
  <2>3. Same
    <3> DEFINE x == mshr[l][e]
               y == [valid |-> TRUE, ready |-> x.ready, blockAddr |-> req.blk,
                     outstanding |-> x.valid => x.outstanding, mshrQueue |-> Append(x.mshrQueue, req)]
    <3>1. CASE l = level /\ e = d
      <4>1. mshr'[l][e] = y
        <5>1. DOMAIN mshr[l] = Entries(l)
          BY LevelTyped
        <5>2. mshr' = [mshr EXCEPT ![l][e] = y]
          BY <2>2, <3>1, <1>0, <5>1 DEF send2Mshr
        <5> HIDE DEF y
        <5> QED  BY <1>0, <5>1, <5>2
      <4>2. ~x.ready /\ ~(x.valid => x.outstanding) /\ blk = req.blk
        <5>1. y.ready = x.ready /\ y.outstanding = (x.valid => x.outstanding) /\ y.blockAddr = req.blk
          OBVIOUS
        <5> HIDE DEF y
        <5> QED  BY <4>1, <5>1 DEF Waiting
      <4>3. x.blockAddr = req.blk
        BY <2>2, <3>1, <4>2 DEF MshrTarget, Joins
      <4> QED  BY <4>2, <4>3 DEF Waiting
    <3>2. CASE ~(l = level /\ e = d)
      <4>1. mshr'[l][e] = mshr[l][e]
        BY <1>0, <2>2, <3>2 DEF send2Mshr
      <4> QED  BY <4>1
    <3> QED  BY <3>1, <3>2
  <2> QED  BY <1>p, <2>1, <2>3
<1>7. CASE \E r \in Reqs, c \in Blocks, op \in Accesses : addTransaction(r, c, op)
  <2>1. mshr' = mshr /\ phase = "send"
    BY <1>7 DEF addTransaction
  <2> QED  BY <1>a, <2>1
<1>8. CASE \E served \in SUBSET Banks(0) : callBack(served)
  <2>1. mshr' = mshr /\ phase = "callBack"
    BY <1>8 DEF callBack
  <2> QED  BY <1>a, <2>1
<1>9. CASE \E c \in Blocks : MemoryDataBusUpdate(c)
  <2>1. mshr' = mshr /\ phase = "memory"
    BY <1>9 DEF MemoryDataBusUpdate
  <2> QED  BY <1>a, <2>1
<1>10. CASE dramUpdate \/ resetBankConflictRecorder
  <2>1. mshr' = mshr /\ phase \in {"memory", "send"}
    BY <1>10 DEF dramUpdate, resetBankConflictRecorder
  <2> QED  BY <1>a, <2>1
<1>11. CASE PopAckQueue
  <2>1. mshr' = mshr /\ phase = "popAck"
    BY <1>11, Zenon DEF PopAckQueue
  <2> QED  BY <1>a, <2>1
<1>12. CASE updateReqQueueStall \/ updateReqQueueSkip
  <2>1. mshr' = mshr /\ phase = "request"
    BY <1>12 DEF updateReqQueueStall, updateReqQueueSkip
  <2> QED  BY <1>a, <2>1
<1>13. CASE updateReqQueueHit
  <2>1. mshr' = mshr /\ phase = "request"
    BY <1>13, Zenon DEF updateReqQueueHit
  <2> QED  BY <1>a, <2>1
<1>14. CASE \E n \in 0 .. ReqQueue2MemSize : sendReq2Mem(n)
  <2>1. mshr' = mshr /\ phase = "toMem"
    BY <1>14 DEF sendReq2Mem
  <2> QED  BY <1>a, <2>1
<1> QED
  BY <1>1, <1>2, <1>3, <1>4, <1>5, <1>6, <1>7, <1>8, <1>9, <1>10, <1>11, <1>12, <1>13, <1>14
     DEF Next, Round

\* Every step keeps the invariant.
LEMMA FetchNext == TypeInv /\ OnceInv /\ FetchInv /\ [Next]_vars => FetchInv'
<1> SUFFICES ASSUME TypeInv, OnceInv, FetchInv, [Next]_vars PROVE FetchInv'
  OBVIOUS
<1>1. CASE UNCHANGED vars
  BY <1>1 DEF vars, control, queues, ptrs, below, FetchInv, LastWaits, UpperWaits, MemHolds, CacheHolds
<1>2. CASE Next
  <2>0. llc \in Levels
    BY LevelFacts
  <2>1. ASSUME NEW l \in Levels, NEW e \in Entries(l), Waiting(mshr[l][e])
        PROVE  mshr[l][e].blockAddr \in Blocks
    BY <2>1, LevelTyped DEF EntryOK, MshrEntry
  <2>2. ASSUME NEW e \in Entries(llc), Waiting(mshr'[llc][e]), NEW blk, blk = mshr'[llc][e].blockAddr
        PROVE  MemHolds(blk)'
    <3>1. \/ /\ Waiting(mshr[llc][e]) /\ mshr[llc][e].blockAddr = blk
             /\ mem_req_complete => Head(reqAckStack) # blk
          \/ MemHolds(blk)'
          \/ llc < llc
      BY <1>2, <2>0, <2>2, WaitingWas
    <3>2. CASE /\ Waiting(mshr[llc][e]) /\ mshr[llc][e].blockAddr = blk
               /\ mem_req_complete => Head(reqAckStack) # blk
      <4>1. blk \in Blocks /\ MemHolds(blk)
        BY <2>0, <2>1, <3>2 DEF FetchInv, LastWaits
      <4> QED  BY <1>2, <3>2, <4>1, MemStays
    <3>3. ~(llc < llc)
      BY Geometry, <2>0
    <3> QED  BY <3>1, <3>2, <3>3
  <2>3. ASSUME NEW l \in Levels, l < llc, NEW e \in Entries(l), Waiting(mshr'[l][e]),
               NEW blk, blk = mshr'[l][e].blockAddr
        PROVE  CacheHolds(l + 1, blk)'
    <3>1. l + 1 \in Levels /\ l + 1 > 0 /\ l # llc /\ l = 0
      BY <2>3, Geometry DEF Levels
    <3>2. \/ /\ Waiting(mshr[l][e]) /\ mshr[l][e].blockAddr = blk
             /\ Refill /\ l = level - 1 => Head(cacheReqVec).blk # blk
          \/ CacheHolds(l + 1, blk)'
      BY <1>2, <2>3, <3>1, WaitingWas
    <3>3. Refill => l = level - 1
      <4> SUFFICES ASSUME Refill PROVE l = level - 1
        OBVIOUS
      <4>1. level \in Levels /\ level - 1 \in Levels /\ level - 1 < llc
        BY FillBlocks DEF TypeInv, PhaseOK
      <4> QED  BY <3>1, <4>1, Geometry
    <3>4. CASE /\ Waiting(mshr[l][e]) /\ mshr[l][e].blockAddr = blk
               /\ Refill => Head(cacheReqVec).blk # blk
      <4>1. blk \in Blocks /\ CacheHolds(l + 1, blk)
        BY <2>1, <2>3, <3>4 DEF FetchInv, UpperWaits
      <4>2. CacheHolds(l + 1, blk)' \/ (Refill /\ Head(cacheReqVec).blk = blk)
        BY <1>2, <3>1, <4>1, CacheStays
      <4> QED  BY <3>4, <4>2
    <3> QED  BY <3>2, <3>3, <3>4
  <2>4. LastWaits'
    BY <2>2 DEF LastWaits
  <2>5. UpperWaits'
    BY <2>3 DEF UpperWaits
  <2> QED  BY <2>4, <2>5 DEF FetchInv
<1> QED  BY <1>1, <1>2

(***************************************************************************)
(* An entry of the Mshr that is not ready has its fetch still to be sent,  *)
(* or a transaction of its block is below: completions ready all entries   *)
(* of a block (setMshrEntryReady), so none is left behind when another of  *)
(* its block is answered, cleared and used again.                          *)
(***************************************************************************)
THEOREM EntriesAreFetched == Spec => []FetchOnTheWay
<1>1. Init => TypeInv /\ OnceInv /\ FetchInv
  BY TypeInit, OnceInit, FetchInit
<1>2. TypeInv /\ OnceInv /\ FetchInv /\ [Next]_vars => (TypeInv /\ OnceInv /\ FetchInv)'
  BY TypeNext, OnceNext, FetchNext
<1>3. Spec => [](TypeInv /\ OnceInv /\ FetchInv)
  BY <1>1, <1>2, PTL DEF Spec
<1> QED  BY <1>3, FetchImplies, PTL

==============================================================================
