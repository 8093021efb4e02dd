---------------------------- MODULE Cache_proofs ----------------------------
(***************************************************************************)
(* Proofs about the cache, for every geometry of its levels:               *)
(*   NoBlockTwice   no set ever holds a block, or a way, twice;            *)
(*   NoRequestLost  a request that level 0 accepted is at exactly one      *)
(*                  place until it is called back.                         *)
(* The first invariant is about `lines' alone and the second about the     *)
(* queues of level 0 alone, whose requests all come from addTransaction:   *)
(* neither depends on the addresses of blocks that are written back.       *)
(***************************************************************************)
EXTENDS Cache, RingLemmas, SequenceTheorems

(***************************************************************************)
(* No block is in two lines.                                               *)
(***************************************************************************)

\* A set is a sequence of lines, no more of them than ways.
Fields == {"way", "blk", "dirty"}
SeqOfLines(q, l) ==
    /\ \E n \in 0 .. Ways[l] : q = [k \in 1 .. n |-> q[k]]
    /\ \A k \in DOMAIN q : DOMAIN q[k] = Fields

\* While the set is not full, get_cache_free_line takes the way after the ones
\* in use; once it is full every way is in use and the victim's is taken over.
WaysInOrder(q, l) ==
    /\ \A k \in DOMAIN q : q[k].way \in Nat
    /\ Len(q) < Ways[l] => \A k \in DOMAIN q : q[k].way < Len(q)

Distinct(q) ==
    \A k, m \in DOMAIN q : k # m => q[k].blk # q[m].blk /\ q[k].way # q[m].way

InItsSet(q, l, s) == \A k \in DOMAIN q : getCacheSetIndex(q[k].blk, l) = s

SetOK(q, l, s) ==
    SeqOfLines(q, l) /\ WaysInOrder(q, l) /\ Distinct(q) /\ InItsSet(q, l, s)

LinesInv ==
    /\ lines = [l \in Levels |-> [s \in Sets(l) |-> lines[l][s]]]
    /\ \A l \in Levels : \A s \in Sets(l) : SetOK(lines[l][s], l, s)

-----------------------------------------------------------------------------
\* A set is a sequence in the sense of the library.
LEMMA SetIsSeq ==
    ASSUME NEW q, NEW l \in Levels, SeqOfLines(q, l)
    PROVE  /\ q \in Seq({q[k] : k \in DOMAIN q})
           /\ Len(q) \in 0 .. Ways[l] /\ DOMAIN q = 1 .. Len(q)
<1>1. PICK n \in 0 .. Ways[l] : q = [k \in 1 .. n |-> q[k]]
  BY DEF SeqOfLines
<1>2. n \in Nat
  BY CacheAssumption DEF PerLevel
<1>3. DOMAIN q = 1 .. n
  BY <1>1
<1> DEFINE S == {q[k] : k \in DOMAIN q}
<1>4. q \in [1 .. n -> S]
  BY <1>1, <1>3
<1> HIDE DEF S
<1>5. q \in Seq(S)
  BY <1>4, <1>2
<1>6. Len(q) = n
  BY <1>5, <1>3, <1>2
<1> QED
  BY <1>5, <1>6, <1>3 DEF S

\* The line set_cache_line adds to a set that has a free way.
LEMMA AppendOK ==
    ASSUME NEW q, NEW l \in Levels, NEW s, NEW blk, NEW x, SetOK(q, l, s),
           Len(q) # Ways[l],
           \A k \in DOMAIN q : q[k].blk # blk,
           getCacheSetIndex(blk, l) = s,
           x = [way |-> Len(q), blk |-> blk, dirty |-> FALSE]
    PROVE  SetOK(Append(q, x), l, s)
<1> DEFINE S == {q[k] : k \in DOMAIN q}
           T == S \cup {x}
           p == Append(q, x)
<1>1. q \in Seq(S) /\ Len(q) \in 0 .. Ways[l] /\ DOMAIN q = 1 .. Len(q)
  BY SetIsSeq DEF SetOK
<1>2. Ways[l] \in Nat
  BY CacheAssumption DEF PerLevel
<1> HIDE DEF S
<1>3. q \in Seq(T)
  BY <1>1
<1>4. p \in Seq(T) /\ Len(p) = Len(q) + 1 /\ DOMAIN p = 1 .. Len(q) + 1
      /\ (\A k \in 1 .. Len(q) : p[k] = q[k])
      /\ p[Len(q) + 1] = x
  BY <1>3
<1> HIDE DEF p, T
<1>5. x.way = Len(q) /\ x.blk = blk /\ DOMAIN x = Fields
  BY DEF Fields
<1>6. \A k \in DOMAIN p : (k \in DOMAIN q /\ p[k] = q[k]) \/ (k = Len(q) + 1 /\ p[k] = x)
  BY <1>1, <1>2, <1>4
<1>7. SeqOfLines(p, l)
  <2>1. Len(q) + 1 \in 0 .. Ways[l]
    BY <1>1, <1>2
  <2>2. p = [k \in 1 .. Len(q) + 1 |-> p[k]]
    BY <1>4, <1>1
  <2>3. \A k \in DOMAIN p : DOMAIN p[k] = Fields
    BY <1>6, <1>5 DEF SetOK, SeqOfLines
  <2> QED  BY <2>1, <2>2, <2>3 DEF SeqOfLines
<1>8. WaysInOrder(p, l)
  <2>1. Len(q) < Ways[l] /\ Len(q) \in Nat
    BY <1>1, <1>2
  <2>2. \A k \in DOMAIN q : q[k].way \in Nat /\ q[k].way < Len(q)
    BY <2>1 DEF SetOK, WaysInOrder
  <2>3. \A k \in DOMAIN p : p[k].way \in Nat /\ p[k].way < Len(q) + 1
    BY <2>1, <2>2, <1>5, <1>6
  <2> QED  BY <2>3, <1>4 DEF WaysInOrder
<1>9. Distinct(p)
  BY <1>1, <1>2, <1>4, <1>5 DEF SetOK, WaysInOrder, Distinct
<1>10. InItsSet(p, l, s)
  BY <1>6, <1>5 DEF SetOK, InItsSet
<1> QED  BY <1>7, <1>8, <1>9, <1>10 DEF SetOK, p

\* The line set_cache_line puts in the place of the victim, the line that was
\* filled first.
LEMMA ReplaceOK ==
    ASSUME NEW q, NEW l \in Levels, NEW s, NEW blk, NEW x, SetOK(q, l, s),
           Len(q) = Ways[l],
           \A k \in DOMAIN q : q[k].blk # blk,
           getCacheSetIndex(blk, l) = s,
           x = [way |-> Head(q).way, blk |-> blk, dirty |-> FALSE]
    PROVE  SetOK(Append(Tail(q), x), l, s)
<1> DEFINE S == {q[k] : k \in DOMAIN q}
           T == S \cup {x}
           p == Append(Tail(q), x)
<1>1. q \in Seq(S) /\ Len(q) \in 0 .. Ways[l] /\ DOMAIN q = 1 .. Len(q)
  BY SetIsSeq DEF SetOK
<1>2. Ways[l] \in Nat \ {0}
  BY CacheAssumption DEF PerLevel
<1> HIDE DEF S
<1>3. q \in Seq(T) /\ q # <<>> /\ Head(q) = q[1]
  BY <1>1, <1>2
<1>4. p \in Seq(T) /\ Len(p) = Len(q) /\ DOMAIN p = 1 .. Len(q)
      /\ (\A k \in 1 .. Len(q) - 1 : p[k] = q[k + 1])
      /\ p[Len(q)] = x
  BY <1>1, <1>2, <1>3
<1> HIDE DEF p, T
<1>5. x.way = q[1].way /\ x.blk = blk /\ DOMAIN x = Fields
  BY <1>3 DEF Fields
<1>6. \A k \in DOMAIN p : (k < Len(q) /\ k + 1 \in DOMAIN q /\ p[k] = q[k + 1]) \/ (k = Len(q) /\ p[k] = x)
  BY <1>1, <1>2, <1>4
<1>7. 1 \in DOMAIN q
  BY <1>1, <1>2
<1>8. SeqOfLines(p, l)
  <2>1. Len(q) \in 0 .. Ways[l]
    BY <1>1
  <2>2. p = [k \in 1 .. Len(q) |-> p[k]]
    BY <1>4
  <2>3. \A k \in DOMAIN p : DOMAIN p[k] = Fields
    BY <1>6, <1>5 DEF SetOK, SeqOfLines
  <2> QED  BY <2>1, <2>2, <2>3 DEF SeqOfLines
<1>9. WaysInOrder(p, l)
  BY <1>1, <1>2, <1>4, <1>5, <1>6, <1>7 DEF SetOK, WaysInOrder
<1>10. Distinct(p)
  <2> SUFFICES ASSUME NEW k \in DOMAIN p, NEW m \in DOMAIN p, k # m
               PROVE  p[k].blk # p[m].blk /\ p[k].way # p[m].way
    BY DEF Distinct
  <2>1. k \in Nat /\ m \in Nat /\ Len(q) \in Nat
    BY <1>1, <1>2, <1>4
  <2>2. CASE k < Len(q) /\ m < Len(q)
    BY <2>1, <2>2, <1>6 DEF SetOK, Distinct
  <2>3. CASE k = Len(q)
    <3>1. p[k] = x /\ m + 1 \in DOMAIN q /\ p[m] = q[m + 1] /\ m + 1 # 1
      BY <2>1, <2>3, <1>6, <1>4, <1>1
    <3>2. q[m + 1].blk # blk /\ q[m + 1].way # q[1].way
      BY <3>1, <1>7 DEF SetOK, Distinct
    <3> QED  BY <3>1, <3>2, <1>5
  <2>4. CASE m = Len(q)
    <3>1. p[m] = x /\ k + 1 \in DOMAIN q /\ p[k] = q[k + 1] /\ k + 1 # 1
      BY <2>1, <2>4, <1>6, <1>4, <1>1
    <3>2. q[k + 1].blk # blk /\ q[k + 1].way # q[1].way
      BY <3>1, <1>7 DEF SetOK, Distinct
    <3> QED  BY <3>1, <3>2, <1>5
  <2> QED  BY <2>1, <2>2, <2>3, <2>4, <1>6
<1>11. InItsSet(p, l, s)
  BY <1>5, <1>6 DEF SetOK, InItsSet
<1> QED  BY <1>8, <1>9, <1>10, <1>11 DEF SetOK, p

\* A hit changes dirty flags only.
LEMMA HitOK ==
    ASSUME NEW q, NEW p, NEW l \in Levels, NEW s, SetOK(q, l, s), NEW W,
           p = [k \in DOMAIN q |-> IF k \in W THEN [q[k] EXCEPT !.dirty = TRUE] ELSE q[k]]
    PROVE  SetOK(p, l, s)
<1>1. Len(q) \in 0 .. Ways[l] /\ DOMAIN q = 1 .. Len(q)
  BY SetIsSeq DEF SetOK
<1>2. Ways[l] \in Nat
  BY CacheAssumption DEF PerLevel
<1>3. \A k \in DOMAIN q : DOMAIN p[k] = Fields /\ p[k].blk = q[k].blk /\ p[k].way = q[k].way
  <2> SUFFICES ASSUME NEW k \in DOMAIN q
               PROVE  DOMAIN p[k] = Fields /\ p[k].blk = q[k].blk /\ p[k].way = q[k].way
    OBVIOUS
  <2>1. DOMAIN q[k] = Fields
    BY DEF SetOK, SeqOfLines
  <2>2. p[k] = q[k] \/ p[k] = [q[k] EXCEPT !.dirty = TRUE]
    OBVIOUS
  <2> QED  BY <2>1, <2>2 DEF Fields
<1>4. DOMAIN p = 1 .. Len(q)
  BY <1>1
<1>5. p = [k \in 1 .. Len(q) |-> p[k]]
  BY <1>1
<1>6. SeqOfLines(p, l)
  BY <1>1, <1>3, <1>4, <1>5 DEF SeqOfLines
<1>7. Len(p) = Len(q)
  <2>1. DOMAIN p = 1 .. Len(p) /\ Len(p) \in Nat /\ Len(q) \in Nat
    BY <1>6, <1>1, <1>2, SetIsSeq
  <2> QED  BY <2>1, <1>4
<1>8. WaysInOrder(p, l)
  BY <1>1, <1>3, <1>4, <1>7 DEF SetOK, WaysInOrder
<1>9. Distinct(p)
  BY <1>1, <1>3, <1>4 DEF SetOK, Distinct
<1>10. InItsSet(p, l, s)
  BY <1>1, <1>3, <1>4 DEF SetOK, InItsSet
<1> QED  BY <1>6, <1>8, <1>9, <1>10 DEF SetOK

-----------------------------------------------------------------------------
\* Changing one set to one that is right keeps the invariant, also when the
\* level or the set does not exist and nothing changes.
LEMMA OneSetChanges ==
    ASSUME NEW l, NEW s, NEW q, LinesInv,
           l \in Levels /\ s \in Sets(l) => SetOK(q, l, s),
           lines' = [lines EXCEPT ![l][s] = q]
    PROVE  LinesInv'
<1>1. lines' = [m \in Levels |-> [t \in Sets(m) |-> lines'[m][t]]]
  BY DEF LinesInv
<1>2. ASSUME NEW m \in Levels, NEW t \in Sets(m)
      PROVE  SetOK(lines'[m][t], m, t)
  <2>1. CASE m = l /\ t = s
    BY <2>1 DEF LinesInv
  <2>2. CASE ~(m = l /\ t = s)
    <3>1. lines'[m][t] = lines[m][t]
      BY <2>2 DEF LinesInv
    <3> QED  BY <3>1 DEF LinesInv
  <2> QED  BY <2>1, <2>2
<1> QED  BY <1>1, <1>2 DEF LinesInv

\* Filling a line with a block that is not in its set.
LEMMA FillKeeps ==
    ASSUME NEW l, NEW blk, LinesInv, Hits(l, blk) = {}, set_cache_line(l, blk)
    PROVE  LinesInv'
<1> DEFINE s == getCacheSetIndex(blk, l)
           q == lines[l][s]
           x == [way |-> FreeWay(l, blk), blk |-> blk, dirty |-> FALSE]
           p == Append(IF Full(l, blk) THEN Tail(q) ELSE q, x)
<1>1. lines' = [lines EXCEPT ![l][s] = p]
  BY DEF set_cache_line, Set
<1>2. ASSUME l \in Levels, s \in Sets(l)
      PROVE  SetOK(p, l, s)
  <2>1. SetOK(q, l, s)
    BY <1>2 DEF LinesInv
  <2>2. \A k \in DOMAIN q : q[k].blk # blk
    BY DEF Hits, Set
  <2>3. CASE Full(l, blk)
    <3>1. Len(q) = Ways[l] /\ x = [way |-> Head(q).way, blk |-> blk, dirty |-> FALSE]
          /\ p = Append(Tail(q), x)
      BY <2>3 DEF Full, Set, FreeWay, Victim
    <3> QED  BY <1>2, <2>1, <2>2, <3>1, ReplaceOK
  <2>4. CASE ~Full(l, blk)
    <3>1. Len(q) # Ways[l] /\ x = [way |-> Len(q), blk |-> blk, dirty |-> FALSE]
          /\ p = Append(q, x)
      BY <2>4 DEF Full, Set, FreeWay
    <3> QED  BY <1>2, <2>1, <2>2, <3>1, AppendOK
  <2> QED  BY <2>3, <2>4
<1> HIDE DEF p, s
<1> QED  BY <1>1, <1>2, OneSetChanges

\* setCacheBlock fills a block only when the set does not hold it.
LEMMA BlockKeeps ==
    ASSUME NEW l, NEW blk, LinesInv, setCacheBlock(l, blk)
    PROVE  LinesInv'
<1>1. CASE lines' = lines
  BY <1>1 DEF LinesInv
<1>2. CASE Hits(l, blk) = {} /\ set_cache_line(l, blk)
  BY <1>2, FillKeeps
<1> QED  BY <1>1, <1>2 DEF setCacheBlock, Evicts

\* The lookup of a request that hits.
LEMMA HitKeeps ==
    ASSUME LinesInv, updateReqQueueHit
    PROVE  LinesInv'
<1> DEFINE req == Head(reqQueue[level][Bank]).req
           s == getCacheSetIndex(req.blk, level)
           q == lines[level][s]
           W == IF Writes(req) THEN Hits(level, req.blk) ELSE {}
           p == [k \in DOMAIN q |-> IF k \in W THEN [q[k] EXCEPT !.dirty = TRUE] ELSE q[k]]
<1>1. lines' = [lines EXCEPT ![level][s] = p]
  BY Zenon DEF updateReqQueueHit
<1>2. ASSUME level \in Levels, s \in Sets(level)
      PROVE  SetOK(p, level, s)
  <2>1. SetOK(q, level, s)
    BY <1>2 DEF LinesInv
  <2> QED  BY <1>2, <2>1, HitOK, Zenon
<1> HIDE DEF p, s
<1> QED  BY <1>1, <1>2, OneSetChanges, Zenon

\* The sets are empty at first.
LEMMA LinesInit == Init => LinesInv
<1> SUFFICES ASSUME Init PROVE LinesInv
  OBVIOUS
<1>1. lines = [l \in Levels |-> [s \in Sets(l) |-> <<>>]]
  BY DEF Init
<1>2. ASSUME NEW l \in Levels, NEW s
      PROVE  SetOK(<<>>, l, s)
  <2>1. Ways[l] \in Nat
    BY CacheAssumption DEF PerLevel
  <2>2. SeqOfLines(<<>>, l)
    <3>1. <<>> = [k \in 1 .. 0 |-> <<>>[k]]
      OBVIOUS
    <3>2. 0 \in 0 .. Ways[l]
      BY <2>1
    <3> QED  BY <3>1, <3>2 DEF SeqOfLines
  <2> QED  BY <2>2 DEF SetOK, WaysInOrder, Distinct, InItsSet
<1> QED  BY <1>1, <1>2 DEF LinesInv

\* Only mem_req_complete, Refill and updateReqQueueHit write the lines.
LEMMA LinesNext == LinesInv /\ [Next]_vars => LinesInv'
<1> SUFFICES ASSUME LinesInv, [Next]_vars PROVE LinesInv'
  OBVIOUS
<1>1. ASSUME lines' = lines PROVE LinesInv'
  BY <1>1 DEF LinesInv
<1>2. CASE mem_req_complete
  <2>1. lines' = lines \/ setCacheBlock(llc, Head(reqAckStack))
    BY <1>2 DEF mem_req_complete
  <2> QED  BY <2>1, <1>1, BlockKeeps
<1>3. CASE Refill
  BY <1>3, BlockKeeps DEF Refill
<1>4. CASE updateReqQueueHit
  BY <1>4, HitKeeps
<1>5. CASE \E served \in SUBSET Banks(0) : callBack(served)
  BY <1>1, <1>5 DEF callBack
<1>6. CASE \E blk \in Blocks : MemoryDataBusUpdate(blk)
  BY <1>1, <1>6 DEF MemoryDataBusUpdate
<1>7. CASE dramUpdate \/ resetBankConflictRecorder
  BY <1>1, <1>7, Zenon DEF dramUpdate, resetBankConflictRecorder
<1>8. CASE PopAckQueue \/ PushAckQueue
  BY <1>1, <1>8 DEF PopAckQueue, PushAckQueue
<1>9. CASE SendOutstandingDown \/ SendOutstandingToMem
  BY <1>1, <1>9 DEF SendOutstandingDown, SendOutstandingToMem
<1>10. CASE updateReqQueueStall \/ updateReqQueueSkip \/ updateReqQueueMiss
  BY <1>1, <1>10 DEF updateReqQueueStall, updateReqQueueSkip, updateReqQueueMiss
<1>11. CASE \E n \in 0 .. ReqQueue2MemSize : sendReq2Mem(n)
  BY <1>1, <1>11 DEF sendReq2Mem
<1>12. CASE \E r \in Reqs, blk \in Blocks, op \in Accesses : addTransaction(r, blk, op)
  BY <1>1, <1>12 DEF addTransaction
<1>13. CASE UNCHANGED vars
  BY <1>1, <1>13 DEF vars
<1> QED
  BY <1>2, <1>3, <1>4, <1>5, <1>6, <1>7, <1>8, <1>9, <1>10, <1>11, <1>12, <1>13
     DEF Next, Round

\* The invariant is stronger than the property.
LEMMA LinesImply == LinesInv => OneLinePerBlock
<1> SUFFICES ASSUME LinesInv, NEW l \in Levels, NEW s \in Sets(l),
                    NEW k \in DOMAIN lines[l][s], NEW m \in DOMAIN lines[l][s]
             PROVE  /\ getCacheSetIndex(lines[l][s][k].blk, l) = s
                    /\ k # m => lines[l][s][k].blk # lines[l][s][m].blk
                                /\ lines[l][s][k].way # lines[l][s][m].way
  BY DEF OneLinePerBlock
<1>1. SetOK(lines[l][s], l, s)
  BY DEF LinesInv
<1> QED  BY <1>1 DEF SetOK, Distinct, InItsSet

\* For every number of levels, sets and ways: a set never holds a block twice
\* and gives no way to two lines, through fills, evictions and hits.
THEOREM NoBlockTwice == Spec => []OneLinePerBlock
<1>1. Spec => []LinesInv
  BY LinesInit, LinesNext, PTL DEF Spec
<1> QED  BY <1>1, LinesImply, PTL

-----------------------------------------------------------------------------
(***************************************************************************)
(* No request is lost or duplicated.                                       *)
(***************************************************************************)

(***************************************************************************)
(* Families of queues.  Has: one of them holds an element of M; Single: at *)
(* no more than one position.                                              *)
(***************************************************************************)
Has(v, M) == \E x \in DOMAIN v : \E k \in DOMAIN v[x] : v[x][k] \in M
Single(v, M) ==
    \A x, y \in DOMAIN v : \A k \in DOMAIN v[x], j \in DOMAIN v[y] :
        v[x][k] \in M /\ v[y][j] \in M => x = y /\ k = j

\* w is v without the heads of the queues in B.
HeadsGone(v, w, B, D, S) ==
    /\ v \in [D -> Seq(S)] /\ DOMAIN w = D /\ B \in SUBSET D
    /\ \A x \in B : v[x] # <<>> /\ w[x] = Tail(v[x])
    /\ \A x \in D \ B : w[x] = v[x]

\* w is v with e[x] appended to the queue of every x in B.
TailsAdded(v, w, B, e, D, S) ==
    /\ v \in [D -> Seq(S)] /\ DOMAIN w = D /\ B \in SUBSET D
    /\ \A x \in B : e[x] \in S /\ w[x] = Append(v[x], e[x])
    /\ \A x \in D \ B : w[x] = v[x]

\* w has elements of M where v has them.
SamePlaces(v, w, M) ==
    /\ DOMAIN w = DOMAIN v
    /\ \A x \in DOMAIN v : /\ DOMAIN w[x] = DOMAIN v[x]
                           /\ \A k \in DOMAIN v[x] : w[x][k] \in M <=> v[x][k] \in M

\* An element of M is the head of a queue in B, or is added to one.
AtHead(v, B, M) == \E x \in B : Head(v[x]) \in M
AtTail(e, B, M) == \E x \in B : e[x] \in M

\* Has and Single only depend on where the elements of M are.
LEMMA SamePlacesHas ==
    ASSUME NEW v, NEW w, NEW M, SamePlaces(v, w, M)
    PROVE  (Has(w, M) <=> Has(v, M)) /\ (Single(v, M) => Single(w, M))
BY DEF SamePlaces, Has, Single

\* The positions of a queue and of its tail.
LEMMA TailPositions ==
    ASSUME NEW S, NEW s, s \in Seq(S), s # <<>>, NEW t, t = Tail(s)
    PROVE  /\ 1 \in DOMAIN s /\ s[1] = Head(s) /\ DOMAIN s \subseteq Nat \ {0}
           /\ \A k \in DOMAIN t : k + 1 \in DOMAIN s /\ t[k] = s[k + 1] /\ k \in Nat \ {0}
           /\ \A k \in DOMAIN s : k # 1 => k - 1 \in DOMAIN t /\ t[k - 1] = s[k]
<1>1. PICK n \in Nat \ {0} : n = Len(s)
  BY LenProperties, EmptySeq
<1>2. DOMAIN s = 1 .. n
  BY <1>1, LenProperties
<1>3. t \in Seq(S) /\ Len(t) = n - 1 /\ \A k \in 1 .. n - 1 : t[k] = s[k + 1]
  BY <1>1, HeadTailProperties
<1>4. DOMAIN t = 1 .. n - 1
  BY <1>1, <1>3, LenProperties
<1>5. s[1] = Head(s)
  BY HeadTailProperties
<1> QED  BY <1>1, <1>2, <1>3, <1>4, <1>5

\* The positions of a queue and of that with one more element.
LEMMA AppendPositions ==
    ASSUME NEW S, NEW s, s \in Seq(S), NEW a \in S, NEW t, t = Append(s, a), NEW m, m = Len(s) + 1
    PROVE  /\ DOMAIN t = DOMAIN s \cup {m} /\ t[m] = a /\ m \notin DOMAIN s
           /\ \A k \in DOMAIN s : t[k] = s[k]
<1>1. PICK n \in Nat : n = Len(s)
  BY LenProperties
<1>2. DOMAIN s = 1 .. n
  BY <1>1, LenProperties
<1>3. t \in Seq(S) /\ Len(t) = n + 1 /\ (\A k \in 1 .. n : t[k] = s[k]) /\ t[n + 1] = a
  BY <1>1, AppendProperties
<1>4. DOMAIN t = 1 .. n + 1
  BY <1>1, <1>3, LenProperties
<1> QED  BY <1>1, <1>2, <1>3, <1>4

\* Taking heads away: an element of M is gone if it was one of them, and stays
\* otherwise.
LEMMA HeadsGoneHas ==
    ASSUME NEW v, NEW w, NEW B, NEW D, NEW S, NEW M, HeadsGone(v, w, B, D, S), Single(v, M)
    PROVE  /\ Single(w, M)
           /\ Has(v, M) <=> Has(w, M) \/ AtHead(v, B, M)
           /\ ~(Has(w, M) /\ AtHead(v, B, M))
<1> DEFINE up(x, k) == IF x \in B THEN k + 1 ELSE k
<1>1. DOMAIN v = D /\ DOMAIN w = D /\ B \in SUBSET D
  BY DEF HeadsGone
<1>2. ASSUME NEW x \in D, NEW k \in DOMAIN w[x]
      PROVE  up(x, k) \in DOMAIN v[x] /\ w[x][k] = v[x][up(x, k)]
             /\ (x \in B => k \in Nat \ {0})
  <2>1. CASE x \in B
    <3>1. v[x] \in Seq(S) /\ v[x] # <<>> /\ w[x] = Tail(v[x])
      BY <2>1 DEF HeadsGone
    <3> QED  BY <3>1, <2>1, TailPositions
  <2>2. CASE x \notin B
    BY <2>2 DEF HeadsGone
  <2> QED  BY <2>1, <2>2
<1>3. ASSUME NEW x \in B
      PROVE  1 \in DOMAIN v[x] /\ v[x][1] = Head(v[x])
  <2>1. v[x] \in Seq(S) /\ v[x] # <<>> /\ w[x] = Tail(v[x])
    BY DEF HeadsGone
  <2> QED  BY <2>1, TailPositions
<1>4. ASSUME NEW x \in D, NEW k \in DOMAIN v[x], ~(x \in B /\ k = 1)
      PROVE  \E j \in DOMAIN w[x] : w[x][j] = v[x][k]
  <2>1. CASE x \in B
    <3>1. v[x] \in Seq(S) /\ v[x] # <<>> /\ w[x] = Tail(v[x])
      BY <2>1 DEF HeadsGone
    <3>2. k - 1 \in DOMAIN w[x] /\ w[x][k - 1] = v[x][k]
      BY <3>1, <2>1, <1>4, TailPositions
    <3> QED  BY <3>2
  <2>2. CASE x \notin B
    BY <2>2 DEF HeadsGone
  <2> QED  BY <2>1, <2>2
<1>5. Single(w, M)
  <2> SUFFICES ASSUME NEW x \in D, NEW y \in D, NEW k \in DOMAIN w[x], NEW j \in DOMAIN w[y],
                      w[x][k] \in M, w[y][j] \in M
               PROVE  x = y /\ k = j
    BY <1>1 DEF Single
  <2>1. x = y /\ up(x, k) = up(y, j)
    BY <1>1, <1>2 DEF Single
  <2> QED  BY <2>1, <1>2
<1>6. Has(w, M) => Has(v, M)
  BY <1>1, <1>2 DEF Has
<1>7. AtHead(v, B, M) => Has(v, M)
  BY <1>1, <1>3 DEF Has, AtHead
<1>8. Has(v, M) => Has(w, M) \/ AtHead(v, B, M)
  <2> SUFFICES ASSUME NEW x \in D, NEW k \in DOMAIN v[x], v[x][k] \in M
               PROVE  Has(w, M) \/ AtHead(v, B, M)
    BY <1>1 DEF Has
  <2>1. CASE x \in B /\ k = 1
    BY <2>1, <1>3 DEF AtHead
  <2>2. CASE ~(x \in B /\ k = 1)
    BY <2>2, <1>1, <1>4 DEF Has
  <2> QED  BY <2>1, <2>2
<1>9. ASSUME Has(w, M), AtHead(v, B, M) PROVE FALSE
  <2>1. PICK x \in B : v[x][1] \in M /\ 1 \in DOMAIN v[x]
    BY <1>9, <1>3 DEF AtHead
  <2>2. PICK y \in D : \E k \in DOMAIN w[y] : w[y][k] \in M
    BY <1>9, <1>1 DEF Has
  <2>3. PICK k \in DOMAIN w[y] : w[y][k] \in M
    BY <2>2
  <2>4. x = y /\ up(y, k) = 1
    BY <2>1, <2>3, <1>1, <1>2 DEF Single
  <2> QED  BY <2>1, <2>4, <1>2
<1> QED  BY <1>5, <1>6, <1>7, <1>8, <1>9

\* Adding to the tails: M stays at one position if it comes to one queue at
\* most, and to none if the family already had it.
LEMMA TailsAddedHas ==
    ASSUME NEW v, NEW w, NEW B, NEW e, NEW D, NEW S, NEW M, TailsAdded(v, w, B, e, D, S),
           Single(v, M), \A x, y \in B : e[x] \in M /\ e[y] \in M => x = y,
           ~(Has(v, M) /\ AtTail(e, B, M))
    PROVE  /\ Single(w, M)
           /\ Has(w, M) <=> Has(v, M) \/ AtTail(e, B, M)
<1> DEFINE m(x) == Len(v[x]) + 1
<1>1. DOMAIN v = D /\ DOMAIN w = D /\ B \in SUBSET D
  BY DEF TailsAdded
<1>2. ASSUME NEW x \in B
      PROVE  /\ DOMAIN w[x] = DOMAIN v[x] \cup {m(x)} /\ w[x][m(x)] = e[x] /\ m(x) \notin DOMAIN v[x]
             /\ \A k \in DOMAIN v[x] : w[x][k] = v[x][k]
  <2>1. v[x] \in Seq(S) /\ e[x] \in S /\ w[x] = Append(v[x], e[x])
    BY DEF TailsAdded
  <2> QED  BY <2>1, AppendPositions
<1>3. ASSUME NEW x \in D, x \notin B PROVE w[x] = v[x]
  BY <1>3 DEF TailsAdded
<1> HIDE DEF m
<1>4. ASSUME NEW x \in D, NEW k \in DOMAIN w[x]
      PROVE  (k \in DOMAIN v[x] /\ w[x][k] = v[x][k]) \/ (x \in B /\ k = m(x) /\ w[x][k] = e[x])
  BY <1>2, <1>3
<1>5. ASSUME NEW x \in D, NEW k \in DOMAIN v[x]
      PROVE  k \in DOMAIN w[x] /\ w[x][k] = v[x][k]
  BY <1>2, <1>3
<1>6. Single(w, M)
  <2> SUFFICES ASSUME NEW x \in D, NEW y \in D, NEW k \in DOMAIN w[x], NEW j \in DOMAIN w[y],
                      w[x][k] \in M, w[y][j] \in M
               PROVE  x = y /\ k = j
    BY <1>1 DEF Single
  <2>1. CASE k \in DOMAIN v[x] /\ v[x][k] \in M /\ j \in DOMAIN v[y] /\ v[y][j] \in M
    BY <2>1, <1>1 DEF Single
  <2>2. CASE x \in B /\ k = m(x) /\ e[x] \in M /\ y \in B /\ j = m(y) /\ e[y] \in M
    BY <2>2
  <2>3. ASSUME k \in DOMAIN v[x], v[x][k] \in M, y \in B, e[y] \in M PROVE FALSE
    BY <2>3, <1>1 DEF Has, AtTail
  <2>4. ASSUME j \in DOMAIN v[y], v[y][j] \in M, x \in B, e[x] \in M PROVE FALSE
    BY <2>4, <1>1 DEF Has, AtTail
  <2> QED  BY <1>4, <2>1, <2>2, <2>3, <2>4
<1>7. Has(w, M) => Has(v, M) \/ AtTail(e, B, M)
  BY <1>1, <1>4 DEF Has, AtTail
<1>8. Has(v, M) => Has(w, M)
  BY <1>1, <1>5 DEF Has
<1>9. AtTail(e, B, M) => Has(w, M)
  BY <1>1, <1>2 DEF Has, AtTail
<1> QED  BY <1>6, <1>7, <1>8, <1>9

-----------------------------------------------------------------------------
(***************************************************************************)
(* Level 0.  Its requests come from addTransaction only, so they are of    *)
(* this shape whatever the levels below write back.                        *)
(***************************************************************************)
MemReq0 == [id : Reqs, blk : Nat, op : {"READ", "WRITE"}]
Queued0 == [req : MemReq0, lat : Nat, ready : BOOLEAN]
Ack0    == [id : Reqs \cup {NoId}, blk : Nat, op : {"READ", "WRITE"}]
Entry0  == [valid : BOOLEAN, ready : BOOLEAN, outstanding : BOOLEAN,
            blockAddr : Nat, mshrQueue : Seq(MemReq0)]

Level0OK(rq, aq, ms, st) ==
    /\ rq \in [Banks(0) -> Seq(Queued0)]
    /\ aq \in [Banks(0) -> Seq(Ack0)]
    /\ ms \in [Entries(0) -> Entry0]
    /\ \A e \in Entries(0) : ms[e].valid => ms[e].mshrQueue # <<>>
    /\ st \in [Reqs -> {"idle", "sent"}]

\* Where updateAckQueue and updateReqQueue are, and their pointers.
WalkOK ==
    /\ level \in Levels /\ i \in Nat
    /\ phase \in {"popAck", "refill"} => level # 0
    /\ reqQueueBankPtr \in [Levels -> Nat]
    /\ mshrRdPtr \in [Levels -> Nat] /\ mshrRdPtr[0] \in Entries(0)
    /\ DOMAIN reqQueue = Levels /\ DOMAIN ackQueue = Levels /\ DOMAIN mshr = Levels

\* The request r in a bank's queue; in the Mshr or among the acknowledges.
QueuedOf(r) == {x \in Queued0 : x.req.id = r}
RequestOf(r) == {x \in Ack0 : x.id = r}
MshrQueues(ms) == [e \in Entries(0) |-> ms[e].mshrQueue]

\* r is at one place, or nowhere if it is not on its way.
OnceIn(rq, aq, mq, st, Q, R) ==
    /\ Single(rq, Q) /\ Single(aq, R) /\ Single(mq, R)
    /\ ~(Has(rq, Q) /\ Has(aq, R)) /\ ~(Has(rq, Q) /\ Has(mq, R)) /\ ~(Has(aq, R) /\ Has(mq, R))
    /\ st = "sent" <=> Has(rq, Q) \/ Has(aq, R) \/ Has(mq, R)

OnceInv ==
    /\ WalkOK
    /\ Level0OK(reqQueue[0], ackQueue[0], mshr[0], status)
    /\ \A r \in Reqs : OnceIn(reqQueue[0], ackQueue[0], MshrQueues(mshr[0]), status[r],
                              QueuedOf(r), RequestOf(r))

-----------------------------------------------------------------------------
\* The constants of the levels.
LEMMA LevelFacts ==
    /\ 0 \in Levels /\ llc \in Levels /\ \A l \in Levels : l \in Nat /\ l <= llc
    /\ NumBanks[0] \in Nat \ {0} /\ EntryNum[0] \in Nat \ {0} /\ Latency[0] \in Nat
    /\ \A l \in Levels : NumBanks[l] \in Nat \ {0} /\ EntryNum[l] \in Nat \ {0}
    /\ Accesses \subseteq {"READ", "WRITE"} /\ NoId \notin Reqs /\ Blocks \subseteq Nat
BY CacheAssumption DEF PerLevel, Levels, llc, Blocks

\* A pointer that moves on stays within its range.
LEMMA ModRange ==
    ASSUME NEW a \in Nat, NEW n \in Nat \ {0}
    PROVE  /\ a % n \in 0 .. n - 1 /\ a % n \in Nat
           /\ (a + 1) % n \in 0 .. n - 1 /\ (a + 1) % n \in Nat
<1>1. a + 1 \in Nat
  OBVIOUS
<1> QED  BY <1>1, ModDivision

\* Each step keeps the walk over the levels in range.
LEMMA WalkNext ==
    ASSUME WalkOK, Next
    PROVE  WalkOK'
<1> DEFINE walk == <<level, i, phase, reqQueueBankPtr, mshrRdPtr>>
           Doms == DOMAIN reqQueue = Levels /\ DOMAIN ackQueue = Levels /\ DOMAIN mshr = Levels
           Place == level \in Levels /\ i \in Nat /\ (phase \in {"popAck", "refill"} => level # 0)
           Rd == mshrRdPtr \in [Levels -> Nat] /\ mshrRdPtr[0] \in Entries(0)
           Bp == reqQueueBankPtr \in [Levels -> Nat]
<1>0. WalkOK <=> Place /\ Bp /\ Rd /\ Doms
  BY DEF WalkOK
<1>a. WalkOK' <=> Place' /\ Bp' /\ Rd' /\ Doms'
  BY DEF WalkOK
<1> USE LevelFacts
<1>1. ASSUME NEW served \in SUBSET Banks(0), callBack(served) PROVE WalkOK'
  <2>1. Place' /\ Bp' /\ Rd'
    BY <1>0, <1>1 DEF callBack, ptrs, Completing
  <2>2. Doms'
    BY <1>0, <1>1 DEF callBack
  <2> QED  BY <1>a, <2>1, <2>2
<1>2. CASE mem_req_complete
  <2>1. Place' /\ Bp' /\ Rd'
    BY <1>0, <1>2 DEF mem_req_complete, ptrs, Completing
  <2>2. Doms'
    BY <1>0, <1>2 DEF mem_req_complete, setMshrEntryReady, setCacheBlock,
                      writeBackDirtyCacheline, sendReq2CacheBank
  <2> QED  BY <1>a, <2>1, <2>2
<1>3. ASSUME NEW blk \in Blocks, MemoryDataBusUpdate(blk) PROVE WalkOK'
  BY <1>3 DEF WalkOK, MemoryDataBusUpdate, control, ptrs, queues
<1>4. CASE dramUpdate
  BY <1>4 DEF WalkOK, dramUpdate, ptrs, queues
<1>5. CASE resetBankConflictRecorder
  <2>1. /\ level' = llc /\ phase' = (IF llc > 0 THEN "popAck" ELSE "pushAck") /\ i' = i
        /\ UNCHANGED <<reqQueue, ackQueue, mshr, reqQueueBankPtr, mshrRdPtr>>
    BY <1>5 DEF resetBankConflictRecorder, ptrs, queues, StartAckLevel
  <2> QED  BY <2>1 DEF WalkOK
<1>6. CASE PopAckQueue
  <2>1. Place' /\ Bp' /\ Rd'
    BY <1>0, <1>6 DEF PopAckQueue, Refilling
  <2>2. Doms'
    BY <1>0, <1>6 DEF PopAckQueue
  <2> QED  BY <1>a, <2>1, <2>2
<1>7. CASE Refill
  <2>1. Place' /\ Bp' /\ Rd'
    BY <1>0, <1>7 DEF Refill, ptrs, Refilling
  <2>2. Doms'
    BY <1>0, <1>7 DEF Refill, setMshrEntryReady, setCacheBlock,
                      writeBackDirtyCacheline, sendReq2CacheBank
  <2> QED  BY <1>a, <2>1, <2>2
<1>8. CASE PushAckQueue
  <2>1. Place' /\ Bp'
    BY <1>0, <1>8 DEF PushAckQueue, StartAckLevel, Levels
  <2>2. Doms'
    BY <1>0, <1>8 DEF PushAckQueue
  <2>3. Rd'
    <3>1. mshrRdPtr[level] \in Nat /\ EntryNum[level] \in Nat \ {0} /\ level \in Levels
      BY <1>0
    <3>2. PICK p : p = (mshrRdPtr[level] + 1) % EntryNum[level]
      OBVIOUS
    <3>3. p \in 0 .. EntryNum[level] - 1 /\ p \in Nat
      BY <3>1, <3>2, ModRange
    <3>4. mshrRdPtr' = [mshrRdPtr EXCEPT ![level] = p]
      BY <1>8, <3>2 DEF PushAckQueue
    <3> QED  BY <1>0, <3>1, <3>3, <3>4 DEF Entries
  <2> QED  BY <1>a, <2>1, <2>2, <2>3
<1>9. CASE SendOutstandingDown
  <2>1. Place' /\ Bp' /\ Rd'
    BY <1>0, <1>9 DEF SendOutstandingDown, ptrs, Levels
  <2>2. Doms'
    BY <1>0, <1>9 DEF SendOutstandingDown, clearOutstandingFlag
  <2> QED  BY <1>a, <2>1, <2>2
<1>10. CASE SendOutstandingToMem
  <2>1. Place' /\ Bp' /\ Rd'
    BY <1>0, <1>10 DEF SendOutstandingToMem, ptrs
  <2>2. Doms'
    BY <1>0, <1>10 DEF SendOutstandingToMem, clearOutstandingFlag, queues
  <2> QED  BY <1>a, <2>1, <2>2
<1>11. ASSUME EndLevel \/ NextBank, phase = "request" PROVE Place' /\ Bp'
  <2>1. reqQueueBankPtr[level] \in Nat /\ NumBanks[level] \in Nat \ {0} /\ level \in Levels
    BY <1>0
  <2>2. PICK p : p = (reqQueueBankPtr[level] + 1) % NumBanks[level]
    OBVIOUS
  <2>3. p \in Nat
    BY <2>1, <2>2, ModRange
  <2>4. CASE EndLevel
    BY <1>0, <1>11, <2>2, <2>3, <2>4 DEF EndLevel, Levels
  <2>5. CASE i + 1 < NumBanks[level] /\ i' = i + 1 /\ UNCHANGED <<phase, level, reqQueueBankPtr>>
    BY <1>0, <1>11, <2>5
  <2> QED  BY <1>11, <2>4, <2>5 DEF NextBank
<1>12. CASE updateReqQueueStall \/ updateReqQueueSkip
  <2>1. Place' /\ Bp'
    BY <1>11, <1>12 DEF updateReqQueueStall, updateReqQueueSkip
  <2>2. Rd' /\ Doms'
    BY <1>0, <1>12 DEF updateReqQueueStall, updateReqQueueSkip, queues
  <2> QED  BY <1>a, <2>1, <2>2
<1>13. CASE updateReqQueueHit
  <2>1. Place' /\ Bp'
    BY <1>11, <1>13, Zenon DEF updateReqQueueHit
  <2>2. Rd' /\ Doms'
    BY <1>0, <1>13, Zenon DEF updateReqQueueHit
  <2> QED  BY <1>a, <2>1, <2>2
<1>14. CASE updateReqQueueMiss
  <2>1. Place' /\ Bp'
    BY <1>11, <1>14 DEF updateReqQueueMiss
  <2>2. Rd' /\ Doms'
    BY <1>0, <1>14 DEF updateReqQueueMiss, send2Mshr
  <2> QED  BY <1>a, <2>1, <2>2
<1>15. ASSUME NEW n, sendReq2Mem(n) PROVE WalkOK'
  <2>1. Place' /\ Bp' /\ Rd'
    BY <1>0, <1>15 DEF sendReq2Mem, ptrs
  <2>2. Doms'
    BY <1>0, <1>15 DEF sendReq2Mem, updateReqQueueLatency
  <2> QED  BY <1>a, <2>1, <2>2
<1>16. ASSUME NEW r, NEW blk, NEW op, addTransaction(r, blk, op) PROVE WalkOK'
  <2>1. Place' /\ Bp' /\ Rd'
    BY <1>0, <1>16 DEF addTransaction, ptrs, control
  <2>2. Doms'
    BY <1>0, <1>16 DEF addTransaction, sendReq2CacheBank
  <2> QED  BY <1>a, <2>1, <2>2
<1> QED
  BY <1>1, <1>2, <1>3, <1>4, <1>5, <1>6, <1>7, <1>8, <1>9, <1>10, <1>12, <1>13, <1>14,
     <1>15, <1>16 DEF Next, Round

-----------------------------------------------------------------------------
\* The entries ns hold the requests that ms hold, and the same ones are valid.
FlagsOnly(ms, ns) ==
    /\ ns \in [Entries(0) -> Entry0]
    /\ \A e \in Entries(0) : ns[e].mshrQueue = ms[e].mshrQueue /\ ns[e].valid = ms[e].valid

\* A step that leaves the requests of level 0 where they are.
LEMMA RequestsStay ==
    ASSUME OnceInv, WalkOK', reqQueue'[0] = reqQueue[0], ackQueue'[0] = ackQueue[0],
           status' = status, FlagsOnly(mshr[0], mshr'[0])
    PROVE  OnceInv'
<1>1. Level0OK(reqQueue'[0], ackQueue'[0], mshr'[0], status')
  BY DEF OnceInv, Level0OK, FlagsOnly
<1>2. MshrQueues(mshr'[0]) = MshrQueues(mshr[0])
  BY DEF FlagsOnly, MshrQueues
<1> QED  BY <1>1, <1>2, Zenon DEF OnceInv

\* Entries that do not change.
LEMMA SameFlags ==
    ASSUME OnceInv, mshr'[0] = mshr[0]
    PROVE  FlagsOnly(mshr[0], mshr'[0])
BY DEF OnceInv, Level0OK, FlagsOnly

\* Setting ready or clearing outstanding is no more than that.
LEMMA FlagOfEntry ==
    ASSUME NEW x \in Entry0
    PROVE  /\ [x EXCEPT !.ready = TRUE] \in Entry0 /\ [x EXCEPT !.outstanding = FALSE] \in Entry0
           /\ [x EXCEPT !.ready = TRUE].mshrQueue = x.mshrQueue
           /\ [x EXCEPT !.ready = TRUE].valid = x.valid
           /\ [x EXCEPT !.outstanding = FALSE].mshrQueue = x.mshrQueue
           /\ [x EXCEPT !.outstanding = FALSE].valid = x.valid
BY DEF Entry0

\* setMshrEntryReady, of whichever level.
LEMMA ReadyKeeps ==
    ASSUME OnceInv, NEW l, NEW blk, setMshrEntryReady(l, blk)
    PROVE  FlagsOnly(mshr[0], mshr'[0])
<1>1. mshr[0] \in [Entries(0) -> Entry0] /\ 0 \in DOMAIN mshr
  BY LevelFacts DEF OnceInv, Level0OK, WalkOK
<1>2. CASE l # 0
  <2>1. mshr'[0] = mshr[0]
    BY <1>1, <1>2 DEF setMshrEntryReady
  <2> QED  BY <2>1, SameFlags
<1>3. CASE l = 0
  <2>1. mshr'[0] = [e \in Entries(0) |->
                       IF mshr[0][e].valid /\ mshr[0][e].blockAddr = blk
                       THEN [mshr[0][e] EXCEPT !.ready = TRUE] ELSE mshr[0][e]]
    BY <1>1, <1>3 DEF setMshrEntryReady
  <2>2. ASSUME NEW e \in Entries(0)
        PROVE  /\ mshr'[0][e] \in Entry0
               /\ mshr'[0][e].mshrQueue = mshr[0][e].mshrQueue
               /\ mshr'[0][e].valid = mshr[0][e].valid
    <3>1. PICK x \in Entry0 : x = mshr[0][e]
      BY <1>1
    <3>2. mshr'[0][e] = x \/ mshr'[0][e] = [x EXCEPT !.ready = TRUE]
      BY <2>1, <3>1
    <3> QED  BY <3>1, <3>2, FlagOfEntry
  <2>3. mshr'[0] \in [Entries(0) -> Entry0]
    BY <2>1, <2>2
  <2> QED  BY <2>2, <2>3 DEF FlagsOnly
<1> QED  BY <1>2, <1>3

\* clearOutstandingFlag, of whichever level.
LEMMA ClearKeeps ==
    ASSUME OnceInv, NEW l, NEW sent, clearOutstandingFlag(l, sent)
    PROVE  FlagsOnly(mshr[0], mshr'[0])
<1>1. mshr[0] \in [Entries(0) -> Entry0] /\ 0 \in DOMAIN mshr
  BY LevelFacts DEF OnceInv, Level0OK, WalkOK
<1>2. CASE l # 0
  <2>1. mshr'[0] = mshr[0]
    BY <1>1, <1>2 DEF clearOutstandingFlag
  <2> QED  BY <2>1, SameFlags
<1>3. CASE l = 0
  <2>1. mshr'[0] = [e \in Entries(0) |->
                       IF e \in sent THEN [mshr[0][e] EXCEPT !.outstanding = FALSE]
                       ELSE mshr[0][e]]
    BY <1>1, <1>3 DEF clearOutstandingFlag
  <2>2. ASSUME NEW e \in Entries(0)
        PROVE  /\ mshr'[0][e] \in Entry0
               /\ mshr'[0][e].mshrQueue = mshr[0][e].mshrQueue
               /\ mshr'[0][e].valid = mshr[0][e].valid
    <3>1. PICK x \in Entry0 : x = mshr[0][e]
      BY <1>1
    <3>2. mshr'[0][e] = x \/ mshr'[0][e] = [x EXCEPT !.outstanding = FALSE]
      BY <2>1, <3>1
    <3> QED  BY <3>1, <3>2, FlagOfEntry
  <2>3. mshr'[0] \in [Entries(0) -> Entry0]
    BY <2>1, <2>2
  <2> QED  BY <2>2, <2>3 DEF FlagsOnly
<1> QED  BY <1>2, <1>3

\* A step of another level, or one of level 0 that changes flags only.
LEMMA OtherStepsStay ==
    ASSUME OnceInv, WalkOK',
           \/ mem_req_complete
           \/ \E blk \in Blocks : MemoryDataBusUpdate(blk)
           \/ dramUpdate
           \/ resetBankConflictRecorder
           \/ PopAckQueue \/ Refill
           \/ PushAckQueue /\ level # 0
           \/ SendOutstandingDown \/ SendOutstandingToMem
           \/ updateReqQueueStall \/ updateReqQueueSkip
           \/ (updateReqQueueHit \/ updateReqQueueMiss) /\ level # 0
    PROVE  OnceInv'
<1>0. /\ 0 \in DOMAIN reqQueue /\ 0 \in DOMAIN ackQueue /\ 0 \in DOMAIN mshr
      /\ level \in Nat /\ llc \in Nat
      /\ phase \in {"popAck", "refill"} => level # 0
  BY LevelFacts DEF OnceInv, WalkOK
<1>1. CASE mem_req_complete
  <2>1. reqQueue' = reqQueue /\ ackQueue' = ackQueue /\ status' = status
    BY <1>0, <1>1 DEF mem_req_complete, setCacheBlock, writeBackDirtyCacheline
  <2>2. FlagsOnly(mshr[0], mshr'[0])
    BY <1>1, ReadyKeeps DEF mem_req_complete
  <2> QED  BY <2>1, <2>2, RequestsStay
<1>2. CASE (\E blk \in Blocks : MemoryDataBusUpdate(blk)) \/ dramUpdate
           \/ resetBankConflictRecorder \/ updateReqQueueStall \/ updateReqQueueSkip
  <2>1. reqQueue' = reqQueue /\ ackQueue' = ackQueue /\ status' = status /\ mshr' = mshr
    BY <1>2 DEF MemoryDataBusUpdate, dramUpdate, resetBankConflictRecorder,
                updateReqQueueStall, updateReqQueueSkip, queues
  <2> QED  BY <2>1, SameFlags, RequestsStay
<1>3. CASE PopAckQueue
  <2>1. reqQueue' = reqQueue /\ status' = status /\ mshr' = mshr
    BY <1>3, Zenon DEF PopAckQueue
  <2>2. ackQueue'[0] = ackQueue[0]
    BY <1>0, <1>3, Zenon DEF PopAckQueue
  <2> QED  BY <2>1, <2>2, SameFlags, RequestsStay
<1>4. CASE Refill
  <2>1. ackQueue' = ackQueue /\ status' = status
    BY <1>4 DEF Refill
  <2>2. FlagsOnly(mshr[0], mshr'[0])
    BY <1>4, ReadyKeeps DEF Refill
  <2>3. level # 0 /\ level - 1 + 1 = level
    BY <1>0, <1>4 DEF Refill
  <2>4. reqQueue'[0] = reqQueue[0]
    BY <1>0, <1>4, <2>3 DEF Refill, setCacheBlock, writeBackDirtyCacheline, sendReq2CacheBank
  <2> QED  BY <2>1, <2>2, <2>4, RequestsStay
<1>5. CASE PushAckQueue /\ level # 0
  <2>1. status' = status /\ reqQueue'[0] = reqQueue[0] /\ ackQueue'[0] = ackQueue[0]
        /\ mshr'[0] = mshr[0]
    BY <1>0, <1>5 DEF PushAckQueue
  <2> QED  BY <2>1, SameFlags, RequestsStay
<1>6. CASE SendOutstandingDown
  <2>1. status' = status /\ ackQueue' = ackQueue
    BY <1>6 DEF SendOutstandingDown
  <2>2. level + 1 # 0
    BY <1>0
  <2>3. reqQueue'[0] = reqQueue[0]
    BY <1>0, <1>6, <2>2 DEF SendOutstandingDown
  <2>4. FlagsOnly(mshr[0], mshr'[0])
    BY <1>6, ClearKeeps DEF SendOutstandingDown
  <2> QED  BY <2>1, <2>3, <2>4, RequestsStay
<1>7. CASE SendOutstandingToMem
  <2>1. status' = status /\ ackQueue' = ackQueue /\ reqQueue' = reqQueue
    BY <1>7 DEF SendOutstandingToMem, queues
  <2>2. FlagsOnly(mshr[0], mshr'[0])
    BY <1>7, ClearKeeps DEF SendOutstandingToMem
  <2> QED  BY <2>1, <2>2, RequestsStay
<1>8. CASE updateReqQueueHit /\ level # 0
  <2>1. status' = status /\ ackQueue' = ackQueue /\ mshr' = mshr /\ reqQueue'[0] = reqQueue[0]
    BY <1>0, <1>8, Zenon DEF updateReqQueueHit
  <2> QED  BY <2>1, SameFlags, RequestsStay
<1>9. CASE updateReqQueueMiss /\ level # 0
  <2>1. status' = status /\ ackQueue' = ackQueue /\ reqQueue'[0] = reqQueue[0] /\ mshr'[0] = mshr[0]
    BY <1>0, <1>9, Zenon DEF updateReqQueueMiss, send2Mshr
  <2> QED  BY <2>1, SameFlags, RequestsStay
<1> QED  BY <1>1, <1>2, <1>3, <1>4, <1>5, <1>6, <1>7, <1>8, <1>9

-----------------------------------------------------------------------------
\* A queue keeps its type when its head is taken, which is of that type too.
LEMMA HeadsGoneType ==
    ASSUME NEW v, NEW w, NEW B, NEW D, NEW S, HeadsGone(v, w, B, D, S), w = [x \in D |-> w[x]]
    PROVE  w \in [D -> Seq(S)] /\ \A x \in B : Head(v[x]) \in S
<1>1. ASSUME NEW x \in D PROVE w[x] \in Seq(S)
  <2>1. CASE x \in B
    <3>1. v[x] \in Seq(S) /\ v[x] # <<>> /\ w[x] = Tail(v[x])
      BY <2>1 DEF HeadsGone
    <3> QED  BY <3>1, HeadTailProperties
  <2>2. CASE x \notin B
    BY <2>2 DEF HeadsGone
  <2> QED  BY <2>1, <2>2
<1>2. ASSUME NEW x \in B PROVE Head(v[x]) \in S
  <2>1. v[x] \in Seq(S) /\ v[x] # <<>>
    BY DEF HeadsGone
  <2> QED  BY <2>1, HeadTailProperties
<1> QED  BY <1>1, <1>2

\* The same when elements are added.
LEMMA TailsAddedType ==
    ASSUME NEW v, NEW w, NEW B, NEW e, NEW D, NEW S, TailsAdded(v, w, B, e, D, S),
           w = [x \in D |-> w[x]]
    PROVE  w \in [D -> Seq(S)]
<1>1. ASSUME NEW x \in D PROVE w[x] \in Seq(S)
  <2>1. CASE x \in B
    <3>1. v[x] \in Seq(S) /\ e[x] \in S /\ w[x] = Append(v[x], e[x])
      BY <2>1 DEF TailsAdded
    <3> QED  BY <3>1, AppendProperties
  <2>2. CASE x \notin B
    BY <2>2 DEF TailsAdded
  <2> QED  BY <2>1, <2>2
<1> QED  BY <1>1

\* The memory system sends a request that is not on its way.
LEMMA AddKeeps ==
    ASSUME OnceInv, WalkOK', NEW r0 \in Reqs, NEW blk \in Blocks, NEW op \in Accesses,
           addTransaction(r0, blk, op)
    PROVE  OnceInv'
<1> DEFINE rq == reqQueue[0]
           b == getCacheBank(blk, 0)
           item == Queued(0, [id |-> r0, blk |-> blk, op |-> op])
           e == [x \in {b} |-> item]
<1>1. b \in Banks(0)
  BY LevelFacts, ModRange DEF getCacheBank, Banks
<1>2. item \in Queued0 /\ item.req.id = r0
  BY LevelFacts DEF Queued, Queued0, MemReq0
<1>3. rq \in [Banks(0) -> Seq(Queued0)] /\ 0 \in DOMAIN reqQueue
  BY LevelFacts DEF OnceInv, Level0OK, WalkOK
<1>4. reqQueue' = [reqQueue EXCEPT ![0][b] = Append(@, item)]
  BY DEF addTransaction, sendReq2CacheBank
<1> HIDE DEF item, b
<1>5. reqQueue'[0] = [x \in Banks(0) |-> IF x = b THEN Append(rq[x], item) ELSE rq[x]]
  BY <1>1, <1>3, <1>4
<1>6. TailsAdded(rq, reqQueue'[0], {b}, e, Banks(0), Queued0)
  BY <1>1, <1>2, <1>3, <1>5 DEF TailsAdded
<1>7. reqQueue'[0] \in [Banks(0) -> Seq(Queued0)]
  <2>1. reqQueue'[0] = [x \in Banks(0) |-> reqQueue'[0][x]]
    BY <1>5
  <2> QED  BY <1>6, <2>1, TailsAddedType
<1>8. /\ ackQueue' = ackQueue /\ mshr' = mshr /\ status[r0] = "idle"
      /\ status' = [status EXCEPT ![r0] = "sent"]
  BY DEF addTransaction
<1>9. Level0OK(reqQueue'[0], ackQueue'[0], mshr'[0], status')
  BY <1>7, <1>8 DEF OnceInv, Level0OK
<1>10. ASSUME NEW r \in Reqs
       PROVE  OnceIn(reqQueue'[0], ackQueue'[0], MshrQueues(mshr'[0]), status'[r],
                     QueuedOf(r), RequestOf(r))
  <2> DEFINE Q == QueuedOf(r)
  <2>1. OnceIn(rq, ackQueue[0], MshrQueues(mshr[0]), status[r], Q, RequestOf(r))
    BY DEF OnceInv
  <2>2. item \in Q <=> r = r0
    BY <1>2 DEF QueuedOf
  <2>3. AtTail(e, {b}, Q) <=> r = r0
    BY <2>2 DEF AtTail
  <2>4. status'[r] = IF r = r0 THEN "sent" ELSE status[r]
    BY <1>8 DEF OnceInv, Level0OK
  <2> HIDE DEF Q
  <2>5. r = r0 => ~Has(rq, Q) /\ ~Has(ackQueue[0], RequestOf(r)) /\ ~Has(MshrQueues(mshr[0]), RequestOf(r))
    BY <2>1, <1>8 DEF OnceIn
  <2>6. Single(rq, Q)
    BY <2>1 DEF OnceIn
  <2>7. \A x, y \in {b} : e[x] \in Q /\ e[y] \in Q => x = y
    OBVIOUS
  <2>8. Single(reqQueue'[0], Q) /\ (Has(reqQueue'[0], Q) <=> Has(rq, Q) \/ r = r0)
    BY <1>6, <2>3, <2>5, <2>6, <2>7, TailsAddedHas
  <2> QED  BY <2>1, <2>4, <2>5, <2>8, <1>8 DEF OnceIn, Q
<1> QED  BY <1>9, <1>10 DEF OnceInv

\* The memory system takes answers.
LEMMA CallBackKeeps ==
    ASSUME OnceInv, WalkOK', NEW served \in SUBSET Banks(0), callBack(served)
    PROVE  OnceInv'
<1> DEFINE aq == ackQueue[0]
           B == {b \in served : ackQueue[0][b] # <<>>}
<1>1. aq \in [Banks(0) -> Seq(Ack0)] /\ 0 \in DOMAIN ackQueue
  BY LevelFacts DEF OnceInv, Level0OK, WalkOK
<1>2. ackQueue'[0] = [b \in Banks(0) |-> IF b \in B THEN Tail(aq[b]) ELSE aq[b]]
  BY <1>1 DEF callBack
<1>3. HeadsGone(aq, ackQueue'[0], B, Banks(0), Ack0)
  BY <1>1, <1>2 DEF HeadsGone
<1>4. ackQueue'[0] \in [Banks(0) -> Seq(Ack0)] /\ \A b \in B : Head(aq[b]) \in Ack0
  <2>1. ackQueue'[0] = [b \in Banks(0) |-> ackQueue'[0][b]]
    BY <1>2
  <2> QED  BY <1>3, <2>1, HeadsGoneType
<1>5. /\ reqQueue' = reqQueue /\ mshr' = mshr
      /\ status' = [r \in Reqs |-> IF \E b \in B : Head(aq[b]).id = r THEN "idle" ELSE status[r]]
  BY DEF callBack
<1> HIDE DEF B
<1>6. Level0OK(reqQueue'[0], ackQueue'[0], mshr'[0], status')
  BY <1>4, <1>5 DEF OnceInv, Level0OK
<1>7. ASSUME NEW r \in Reqs
      PROVE  OnceIn(reqQueue'[0], ackQueue'[0], MshrQueues(mshr'[0]), status'[r],
                    QueuedOf(r), RequestOf(r))
  <2> DEFINE R == RequestOf(r)
  <2>1. OnceIn(reqQueue[0], aq, MshrQueues(mshr[0]), status[r], QueuedOf(r), R)
    BY DEF OnceInv
  <2>2. AtHead(aq, B, R) <=> \E b \in B : Head(aq[b]).id = r
    BY <1>4 DEF AtHead, RequestOf
  <2>3. status'[r] = IF AtHead(aq, B, R) THEN "idle" ELSE status[r]
    BY <1>5, <2>2
  <2> HIDE DEF R
  <2>4. Single(aq, R)
    BY <2>1 DEF OnceIn
  <2>5. /\ Single(ackQueue'[0], R)
        /\ Has(aq, R) <=> Has(ackQueue'[0], R) \/ AtHead(aq, B, R)
        /\ ~(Has(ackQueue'[0], R) /\ AtHead(aq, B, R))
    BY <1>3, <2>4, HeadsGoneHas
  <2> QED  BY <2>1, <2>3, <2>5, <1>5 DEF OnceIn, R
<1> QED  BY <1>6, <1>7 DEF OnceInv

\* A hit marks the front request of its bank as ready; the latencies of all of
\* them elapse.  Which request is where does not change.
LEMMA QueueStays ==
    ASSUME OnceInv, WalkOK', ackQueue'[0] = ackQueue[0], mshr'[0] = mshr[0], status' = status,
           reqQueue'[0] \in [Banks(0) -> Seq(Queued0)],
           \A b \in Banks(0) :
              /\ DOMAIN reqQueue'[0][b] = DOMAIN reqQueue[0][b]
              /\ \A k \in DOMAIN reqQueue[0][b] :
                    reqQueue'[0][b][k] \in Queued0 /\ reqQueue[0][b][k] \in Queued0
                    /\ reqQueue'[0][b][k].req = reqQueue[0][b][k].req
    PROVE  OnceInv'
<1>1. Level0OK(reqQueue'[0], ackQueue'[0], mshr'[0], status')
  BY DEF OnceInv, Level0OK
<1>2. DOMAIN reqQueue[0] = Banks(0) /\ DOMAIN reqQueue'[0] = Banks(0)
  BY DEF OnceInv, Level0OK
<1>3. ASSUME NEW r \in Reqs
      PROVE  OnceIn(reqQueue'[0], ackQueue'[0], MshrQueues(mshr'[0]), status'[r],
                    QueuedOf(r), RequestOf(r))
  <2>1. OnceIn(reqQueue[0], ackQueue[0], MshrQueues(mshr[0]), status[r], QueuedOf(r), RequestOf(r))
    BY DEF OnceInv
  <2>2. SamePlaces(reqQueue[0], reqQueue'[0], QueuedOf(r))
    BY <1>2 DEF SamePlaces, QueuedOf
  <2>3. /\ Has(reqQueue'[0], QueuedOf(r)) <=> Has(reqQueue[0], QueuedOf(r))
        /\ Single(reqQueue[0], QueuedOf(r)) => Single(reqQueue'[0], QueuedOf(r))
    BY <2>2, SamePlacesHas
  <2> QED  BY <2>1, <2>3 DEF OnceIn
<1> QED  BY <1>1, <1>3 DEF OnceInv

\* The elements of a queue, with some of their fields changed.
LEMMA QueueOfSameLength ==
    ASSUME NEW S, NEW s, s \in Seq(S), NEW t, t = [k \in DOMAIN s |-> t[k]],
           \A k \in DOMAIN s : t[k] \in S
    PROVE  t \in Seq(S) /\ \A k \in DOMAIN s : s[k] \in S
<1>1. PICK n \in Nat : DOMAIN s = 1 .. n
  BY LenProperties
<1>2. t \in [1 .. n -> S]
  BY <1>1
<1>3. \A k \in DOMAIN s : s[k] \in S
  BY ElementOfSeq, LenProperties
<1> QED  BY <1>2, <1>3

\* updateReqQueueLatency, at the end of cacheUpdate.
LEMMA LatencyKeeps ==
    ASSUME OnceInv, WalkOK', NEW n, sendReq2Mem(n)
    PROVE  OnceInv'
<1>1. reqQueue[0] \in [Banks(0) -> Seq(Queued0)] /\ 0 \in Levels
  BY LevelFacts DEF OnceInv, Level0OK
<1>2. ackQueue' = ackQueue /\ mshr' = mshr /\ status' = status
  BY DEF sendReq2Mem
<1>3. reqQueue'[0] = [b \in Banks(0) |-> [k \in DOMAIN reqQueue[0][b] |->
          [reqQueue[0][b][k] EXCEPT !.lat = IF @ = 0 THEN 0 ELSE @ - 1]]]
  BY <1>1 DEF sendReq2Mem, updateReqQueueLatency
<1>4. ASSUME NEW x \in Queued0, NEW y, y = [x EXCEPT !.lat = IF @ = 0 THEN 0 ELSE @ - 1]
      PROVE  y \in Queued0 /\ y.req = x.req
  BY <1>4 DEF Queued0
<1>5. ASSUME NEW b \in Banks(0)
      PROVE  /\ reqQueue'[0][b] \in Seq(Queued0)
             /\ DOMAIN reqQueue'[0][b] = DOMAIN reqQueue[0][b]
             /\ \A k \in DOMAIN reqQueue[0][b] :
                   reqQueue'[0][b][k] \in Queued0 /\ reqQueue[0][b][k] \in Queued0
                   /\ reqQueue'[0][b][k].req = reqQueue[0][b][k].req
  <2>1. reqQueue[0][b] \in Seq(Queued0)
    BY <1>1
  <2>2. \A k \in DOMAIN reqQueue[0][b] : reqQueue[0][b][k] \in Queued0
    BY <2>1, ElementOfSeq, LenProperties
  <2>3. /\ DOMAIN reqQueue'[0][b] = DOMAIN reqQueue[0][b]
        /\ reqQueue'[0][b] = [k \in DOMAIN reqQueue[0][b] |-> reqQueue'[0][b][k]]
    BY <1>3
  <2>4. ASSUME NEW k \in DOMAIN reqQueue[0][b]
        PROVE  reqQueue'[0][b][k] \in Queued0 /\ reqQueue'[0][b][k].req = reqQueue[0][b][k].req
    <3>1. reqQueue'[0][b][k] = [reqQueue[0][b][k] EXCEPT !.lat = IF @ = 0 THEN 0 ELSE @ - 1]
      BY <1>3
    <3> QED  BY <3>1, <2>2, <1>4
  <2>5. reqQueue'[0][b] \in Seq(Queued0)
    BY <2>1, <2>3, <2>4, QueueOfSameLength
  <2> QED  BY <2>2, <2>3, <2>4, <2>5
<1>6. reqQueue'[0] \in [Banks(0) -> Seq(Queued0)]
  BY <1>3, <1>5
<1> QED  BY <1>2, <1>5, <1>6, QueueStays

\* The lookup of a request that hits at level 0.
LEMMA HitKeepsRequests ==
    ASSUME OnceInv, WalkOK', updateReqQueueHit, level = 0
    PROVE  OnceInv'
<1> DEFINE c == Bank
<1>1. reqQueue[0] \in [Banks(0) -> Seq(Queued0)] /\ 0 \in DOMAIN reqQueue
  BY LevelFacts DEF OnceInv, Level0OK, WalkOK
<1>2. ackQueue' = ackQueue /\ mshr' = mshr /\ status' = status
  BY Zenon DEF updateReqQueueHit
<1>3. reqQueue' = [reqQueue EXCEPT ![0][c][1].ready = TRUE]
  BY Zenon DEF updateReqQueueHit
<1> HIDE DEF c
<1>4. reqQueue'[0] = [b \in Banks(0) |->
          IF b = c THEN [reqQueue[0][b] EXCEPT ![1].ready = TRUE] ELSE reqQueue[0][b]]
  BY <1>1, <1>3
<1>5. ASSUME NEW x \in Queued0
      PROVE  [x EXCEPT !.ready = TRUE] \in Queued0 /\ [x EXCEPT !.ready = TRUE].req = x.req
  BY DEF Queued0
<1>6. ASSUME NEW b \in Banks(0)
      PROVE  /\ reqQueue'[0][b] \in Seq(Queued0)
             /\ DOMAIN reqQueue'[0][b] = DOMAIN reqQueue[0][b]
             /\ \A k \in DOMAIN reqQueue[0][b] :
                   reqQueue'[0][b][k] \in Queued0 /\ reqQueue[0][b][k] \in Queued0
                   /\ reqQueue'[0][b][k].req = reqQueue[0][b][k].req
  <2>1. PICK s \in Seq(Queued0) : s = reqQueue[0][b]
    BY <1>1
  <2>2. \A k \in DOMAIN s : s[k] \in Queued0
    BY <2>1, ElementOfSeq, LenProperties
  <2>3. CASE b # c
    BY <1>4, <2>1, <2>2, <2>3
  <2>4. CASE b = c
    <3>1. PICK t : t = reqQueue'[0][b]
      OBVIOUS
    <3>2. t = [s EXCEPT ![1].ready = TRUE]
      BY <1>4, <2>1, <2>4, <3>1
    <3>3. DOMAIN t = DOMAIN s /\ t = [k \in DOMAIN s |-> t[k]]
      BY <3>2, <2>1
    <3>4. ASSUME NEW k \in DOMAIN s
          PROVE  t[k] \in Queued0 /\ t[k].req = s[k].req
      <4>1. t[k] = s[k] \/ t[k] = [s[k] EXCEPT !.ready = TRUE]
        BY <3>2, <2>1
      <4> QED  BY <4>1, <2>2, <1>5
    <3>5. t \in Seq(Queued0)
      BY <2>1, <3>3, <3>4, QueueOfSameLength
    <3> QED  BY <2>1, <2>2, <3>1, <3>3, <3>4, <3>5
  <2> QED  BY <2>3, <2>4
<1>7. reqQueue'[0] \in [Banks(0) -> Seq(Queued0)]
  BY <1>4, <1>6
<1> QED  BY <1>2, <1>6, <1>7, QueueStays

\* What a request of level 0 is, in a bank's queue and elsewhere.
LEMMA SameRequest ==
    ASSUME NEW r
    PROVE  /\ \A x \in Queued0 : x.req \in MemReq0 /\ (x \in QueuedOf(r) <=> x.req \in RequestOf(r))
           /\ MemReq0 \subseteq Ack0
BY DEF Queued0, MemReq0, Ack0, QueuedOf, RequestOf

\* A miss moves the front request of its bank to the Mshr.
LEMMA MissKeeps ==
    ASSUME OnceInv, WalkOK', updateReqQueueMiss, level = 0
    PROVE  OnceInv'
<1> DEFINE c == Bank
           rq == reqQueue[0]
           req == Head(rq[c]).req
           mq == MshrQueues(mshr[0])
           nq == MshrQueues(mshr'[0])
<1>1. /\ rq \in [Banks(0) -> Seq(Queued0)] /\ mshr[0] \in [Entries(0) -> Entry0]
      /\ 0 \in DOMAIN reqQueue /\ 0 \in DOMAIN mshr
  BY LevelFacts DEF OnceInv, Level0OK, WalkOK
<1>2. c \in Banks(0)
  <2>1. reqQueueBankPtr[0] + i \in Nat /\ NumBanks[0] \in Nat \ {0}
    BY LevelFacts DEF OnceInv, WalkOK
  <2>2. c = (reqQueueBankPtr[0] + i) % NumBanks[0]
    BY DEF Bank
  <2> QED  BY <2>1, <2>2, ModRange DEF Banks
<1>3. rq[c] # <<>>
  BY DEF updateReqQueueMiss, Waits
<1>4. PICK e \in Entries(0) : send2Mshr(0, e, req)
  BY DEF updateReqQueueMiss
<1>5. /\ ackQueue' = ackQueue /\ status' = status
      /\ reqQueue' = [reqQueue EXCEPT ![0][c] = Tail(@)]
  BY DEF updateReqQueueMiss
<1> HIDE DEF c
<1>6. reqQueue'[0] = [b \in Banks(0) |-> IF b = c THEN Tail(rq[b]) ELSE rq[b]]
  BY <1>1, <1>5
<1>7. HeadsGone(rq, reqQueue'[0], {c}, Banks(0), Queued0)
  BY <1>1, <1>2, <1>3, <1>6 DEF HeadsGone
<1>8. reqQueue'[0] \in [Banks(0) -> Seq(Queued0)] /\ Head(rq[c]) \in Queued0
  <2>1. reqQueue'[0] = [b \in Banks(0) |-> reqQueue'[0][b]]
    BY <1>6
  <2> QED  BY <1>7, <2>1, HeadsGoneType
<1>9. req \in MemReq0
  BY <1>8, SameRequest
<1> HIDE DEF req
<1>10. PICK x \in Entry0 : x = mshr[0][e]
  BY <1>1
<1>11. PICK y : y = [valid |-> TRUE, ready |-> x.ready, blockAddr |-> req.blk,
                     outstanding |-> x.valid => x.outstanding,
                     mshrQueue |-> Append(x.mshrQueue, req)]
  OBVIOUS
<1>12. mshr'[0] = [d \in Entries(0) |-> IF d = e THEN y ELSE mshr[0][d]]
  BY <1>1, <1>4, <1>10, <1>11 DEF send2Mshr
<1>13. x.mshrQueue \in Seq(MemReq0)
  BY DEF Entry0
<1>14. Append(x.mshrQueue, req) \in Seq(MemReq0) /\ Append(x.mshrQueue, req) # <<>>
  BY <1>9, <1>13, AppendProperties
<1>15. y \in Entry0 /\ y.mshrQueue = Append(x.mshrQueue, req)
  <2>1. req.blk \in Nat
    BY <1>9 DEF MemReq0
  <2>2. x.ready \in BOOLEAN /\ (x.valid => x.outstanding) \in BOOLEAN
    BY DEF Entry0
  <2> QED  BY <1>11, <1>14, <2>1, <2>2 DEF Entry0
<1>16. mshr'[0] \in [Entries(0) -> Entry0]
  BY <1>1, <1>12, <1>15
<1>17. Level0OK(reqQueue'[0], ackQueue'[0], mshr'[0], status')
  <2>1. \A d \in Entries(0) : mshr'[0][d].valid => mshr'[0][d].mshrQueue # <<>>
    BY <1>12, <1>14, <1>15 DEF OnceInv, Level0OK
  <2> QED  BY <1>5, <1>8, <1>16, <2>1 DEF OnceInv, Level0OK
<1> DEFINE f == [d \in {e} |-> req]
<1>18. TailsAdded(mq, nq, {e}, f, Entries(0), MemReq0)
  <2>1. mq \in [Entries(0) -> Seq(MemReq0)]
    BY <1>1 DEF MshrQueues, Entry0
  <2>2. DOMAIN nq = Entries(0) /\ nq[e] = Append(mq[e], f[e]) /\ f[e] = req
    BY <1>10, <1>12, <1>15 DEF MshrQueues
  <2>3. \A d \in Entries(0) \ {e} : nq[d] = mq[d]
    BY <1>12 DEF MshrQueues
  <2> QED  BY <2>1, <2>2, <2>3, <1>9 DEF TailsAdded
<1> HIDE DEF mq, nq
<1>19. ASSUME NEW r \in Reqs
       PROVE  OnceIn(reqQueue'[0], ackQueue'[0], nq, status'[r], QueuedOf(r), RequestOf(r))
  <2> DEFINE Q == QueuedOf(r)
             R == RequestOf(r)
  <2>1. OnceIn(rq, ackQueue[0], mq, status[r], Q, R)
    BY DEF OnceInv, mq
  <2>2. AtHead(rq, {c}, Q) <=> AtTail(f, {e}, R)
    BY <1>8, SameRequest DEF AtHead, AtTail, req
  <2> HIDE DEF Q, R
  <2>3. Single(rq, Q) /\ Single(mq, R)
    BY <2>1 DEF OnceIn
  <2>4. /\ Single(reqQueue'[0], Q)
        /\ Has(rq, Q) <=> Has(reqQueue'[0], Q) \/ AtHead(rq, {c}, Q)
        /\ ~(Has(reqQueue'[0], Q) /\ AtHead(rq, {c}, Q))
    BY <1>7, <2>3, HeadsGoneHas
  <2>5. ~(Has(mq, R) /\ AtTail(f, {e}, R))
    BY <2>1, <2>2, <2>4 DEF OnceIn
  <2>6. \A d, g \in {e} : f[d] \in R /\ f[g] \in R => d = g
    OBVIOUS
  <2>7. Single(nq, R) /\ (Has(nq, R) <=> Has(mq, R) \/ AtTail(f, {e}, R))
    BY <1>18, <2>3, <2>5, <2>6, TailsAddedHas
  <2> QED  BY <2>1, <2>2, <2>4, <2>7, <1>5 DEF OnceIn, Q, R
<1> QED  BY <1>17, <1>19 DEF OnceInv, nq

-----------------------------------------------------------------------------
\* Entries of level 0 have different turns.
LEMMA TurnsDiffer ==
    ASSUME OnceInv, NEW e \in Entries(0), NEW d \in Entries(0)
    PROVE  Turn(0, e) \in Nat /\ (Turn(0, e) = Turn(0, d) => e = d)
<1> DEFINE n == EntryNum[0]
           p == mshrRdPtr[0]
           a == e - p + n
           b == d - p + n
<1>1. n \in Nat \ {0} /\ p \in 0 .. n - 1 /\ e \in 0 .. n - 1 /\ d \in 0 .. n - 1
  BY LevelFacts DEF OnceInv, WalkOK, Entries
<1>2. Turn(0, e) = a % n /\ Turn(0, d) = b % n
  BY DEF Turn
<1> HIDE DEF n, p
<1>3. a \in Nat /\ b \in Nat /\ (e < d => a < b /\ b - a < n) /\ (d < e => b < a /\ a - b < n)
  BY <1>1
<1>4. e < d \/ d < e \/ e = d
  BY <1>1
<1> HIDE DEF a, b
<1>5. a % n \in Nat
  BY <1>1, <1>3, ModRange
<1>6. e < d => a % n # b % n
  BY <1>1, <1>3, ModDistinct
<1>7. d < e => a % n # b % n
  BY <1>1, <1>3, ModDistinct
<1> QED  BY <1>2, <1>4, <1>5, <1>6, <1>7

\* One entry of a bank at most is answered, and it has a request.
LEMMA AnsweredFacts ==
    ASSUME OnceInv, NEW b, NEW e \in AnsweredOf(0, b)
    PROVE  /\ e \in Entries(0) /\ mshr[0][e].mshrQueue # <<>>
           /\ getCacheBank(Front(0, e).blk, 0) = b
           /\ \A d \in AnsweredOf(0, b) : d = e
<1>1. /\ e \in Ready(0) /\ getCacheBank(Front(0, e).blk, 0) = b
      /\ \A d \in AnsweredOf(0, b) : d \in Ready(0) /\ Turn(0, e) <= Turn(0, d) /\ Turn(0, d) <= Turn(0, e)
  BY DEF AnsweredOf
<1>2. e \in Entries(0) /\ mshr[0][e].mshrQueue # <<>>
  BY <1>1 DEF Ready, OnceInv, Level0OK
<1>3. ASSUME NEW d \in AnsweredOf(0, b) PROVE d = e
  <2>1. d \in Entries(0) /\ Turn(0, e) <= Turn(0, d) /\ Turn(0, d) <= Turn(0, e)
    BY <1>1 DEF Ready
  <2>2. Turn(0, d) \in Nat /\ Turn(0, e) \in Nat
    BY <1>2, <2>1, TurnsDiffer
  <2>3. Turn(0, d) = Turn(0, e)
    BY <2>1, <2>2
  <2> QED  BY <1>2, <2>1, <2>3, TurnsDiffer
<1> QED  BY <1>1, <1>2, <1>3

\* The request at the front of a valid entry comes from the memory system.
LEMMA FrontFacts ==
    ASSUME OnceInv, NEW e \in Entries(0), mshr[0][e].mshrQueue # <<>>
    PROVE  Front(0, e) \in MemReq0 /\ ~IsWriteBack(0, e)
<1>1. mshr[0][e].mshrQueue \in Seq(MemReq0)
  BY DEF OnceInv, Level0OK, Entry0
<1>2. Front(0, e) \in MemReq0
  BY <1>1, HeadTailProperties DEF Front
<1> QED  BY <1>2 DEF IsWriteBack, MemReq0

\* So no entry of level 0 writes back a block, and none is dropped.
LEMMA NoneDropped ==
    ASSUME OnceInv
    PROVE  Dropped(0) = {}
<1> SUFFICES ASSUME NEW e \in Dropped(0) PROVE FALSE
  OBVIOUS
<1>1. e \in Entries(0) /\ mshr[0][e].mshrQueue # <<>> /\ IsWriteBack(0, e)
  BY DEF Dropped, Ready, OnceInv, Level0OK
<1> QED  BY <1>1, FrontFacts

\* clearMshrEntry takes the front request, and the entry with the last one.
LEMMA ClearEntry ==
    ASSUME NEW x \in Entry0, x.mshrQueue # <<>>
    PROVE  /\ clearMshrEntry(x) \in Entry0
           /\ clearMshrEntry(x).mshrQueue = Tail(x.mshrQueue)
           /\ clearMshrEntry(x).valid => clearMshrEntry(x).mshrQueue # <<>>
<1>1. x.mshrQueue \in Seq(MemReq0)
  BY DEF Entry0
<1>2. Tail(x.mshrQueue) \in Seq(MemReq0) /\ Len(Tail(x.mshrQueue)) = Len(x.mshrQueue) - 1
      /\ Len(x.mshrQueue) \in Nat
  BY <1>1, HeadTailProperties, LenProperties
<1>3. CASE Len(x.mshrQueue) = 1
  <2>1. Tail(x.mshrQueue) = <<>>
    <3>1. Len(Tail(x.mshrQueue)) = 0
      BY <1>2, <1>3
    <3> QED  BY <1>2, <3>1, EmptySeq
  <2>2. EmptyEntry \in Entry0 /\ EmptyEntry.mshrQueue = <<>> /\ ~EmptyEntry.valid
    <3>1. <<>> \in Seq(MemReq0)
      BY EmptySeq
    <3> QED  BY <3>1 DEF EmptyEntry, Entry0
  <2> QED  BY <1>3, <2>1, <2>2 DEF clearMshrEntry
<1>4. CASE Len(x.mshrQueue) # 1
  <2>1. Tail(x.mshrQueue) # <<>>
    <3> SUFFICES ASSUME Tail(x.mshrQueue) = <<>> PROVE FALSE
      OBVIOUS
    <3>1. Len(Tail(x.mshrQueue)) = 0
      BY EmptySeq
    <3> QED  BY <3>1, <1>2, <1>4
  <2>2. PICK t \in Seq(MemReq0) : t = Tail(x.mshrQueue)
    BY <1>2
  <2>3. clearMshrEntry(x) = [x EXCEPT !.mshrQueue = t]
    BY <1>4, <2>2 DEF clearMshrEntry
  <2>4. [x EXCEPT !.mshrQueue = t] \in Entry0 /\ [x EXCEPT !.mshrQueue = t].mshrQueue = t
    BY DEF Entry0
  <2> QED  BY <2>1, <2>2, <2>3, <2>4
<1> QED  BY <1>3, <1>4

\* updateAckQueue of level 0: per bank the front request of an entry of the
\* Mshr, or else the one that hit, becomes an acknowledge.
LEMMA PushAckKeeps ==
    ASSUME OnceInv, WalkOK', PushAckQueue, level = 0
    PROVE  OnceInv'
<1> DEFINE rq == reqQueue[0]
           aq == ackQueue[0]
           mq == MshrQueues(mshr[0])
           nq == MshrQueues(mshr'[0])
           Answers(b) == AnsweredOf(0, b)
           A == Answered(0)
           H == {b \in Banks(0) : ReadyReq(0, b)}
           F == {b \in Banks(0) : Answers(b) # {}}
           B == H \cup F
           f == [b \in B |-> IF Answers(b) # {} THEN Front(0, CHOOSE e \in Answers(b) : TRUE)
                             ELSE Head(rq[b]).req]
<1>1. /\ rq \in [Banks(0) -> Seq(Queued0)] /\ mshr[0] \in [Entries(0) -> Entry0]
      /\ aq \in [Banks(0) -> Seq(Ack0)]
      /\ 0 \in DOMAIN reqQueue /\ 0 \in DOMAIN mshr /\ 0 \in DOMAIN ackQueue
  BY LevelFacts DEF OnceInv, Level0OK, WalkOK
\* What the step does to each family of queues.
<1>2. status' = status
  BY DEF PushAckQueue
<1>3. reqQueue'[0] = [b \in Banks(0) |-> IF ReadyReq(0, b) THEN Tail(rq[b]) ELSE rq[b]]
  BY <1>1 DEF PushAckQueue
<1>4. mshr'[0] = [e \in Entries(0) |-> IF e \in A THEN clearMshrEntry(mshr[0][e]) ELSE mshr[0][e]]
  <2>1. A \cup Dropped(0) = A
    BY NoneDropped
  <2>2. mshr'[0] = [e \in Entries(0) |-> IF e \in A \cup Dropped(0)
                                         THEN clearMshrEntry(mshr[0][e]) ELSE mshr[0][e]]
    BY <1>1 DEF PushAckQueue
  <2> QED  BY <2>1, <2>2
<1>5. ackQueue'[0] = [b \in Banks(0) |->
          IF Answers(b) # {} THEN Append(aq[b], Front(0, CHOOSE e \in Answers(b) : TRUE))
          ELSE IF ReadyReq(0, b) THEN Append(aq[b], Head(rq[b]).req)
          ELSE aq[b]]
  BY <1>1 DEF PushAckQueue
<1>6. \A b \in H : rq[b] # <<>> /\ Answers(b) = {}
  BY DEF ReadyReq
<1>7. HeadsGone(rq, reqQueue'[0], H, Banks(0), Queued0)
  BY <1>1, <1>3, <1>6 DEF HeadsGone
<1>8. reqQueue'[0] \in [Banks(0) -> Seq(Queued0)] /\ \A b \in H : Head(rq[b]) \in Queued0
  <2>1. reqQueue'[0] = [b \in Banks(0) |-> reqQueue'[0][b]]
    BY <1>3
  <2> QED  BY <1>7, <2>1, HeadsGoneType
<1> DEFINE g == [b \in F |-> CHOOSE e \in Answers(b) : TRUE]
<1>9. ASSUME NEW b \in F
      PROVE  g[b] \in A /\ g[b] \in Answers(b) /\ f[b] = Front(0, g[b])
  BY DEF Answered
<1>10. ASSUME NEW e \in A
       PROVE  /\ e \in Entries(0) /\ mshr[0][e].mshrQueue # <<>>
              /\ \E b \in F : e \in Answers(b) /\ g[b] = e
  <2>1. PICK b \in Banks(0) : e \in Answers(b)
    BY DEF Answered
  <2>2. b \in F /\ g[b] \in Answers(b)
    BY <2>1, <1>9
  <2>3. g[b] = e /\ e \in Entries(0) /\ mshr[0][e].mshrQueue # <<>>
    BY <2>1, <2>2, AnsweredFacts
  <2> QED  BY <2>1, <2>2, <2>3
<1>11. \A b \in H : f[b] = Head(rq[b]).req
  BY <1>6
<1>12. \A b, c \in F : g[b] = g[c] => b = c
  BY <1>9, AnsweredFacts
<1>13. \A b \in B : f[b] \in MemReq0
  <2>1. \A b \in F : f[b] \in MemReq0
    BY <1>9, <1>10, FrontFacts
  <2>2. \A b \in H : f[b] \in MemReq0
    BY <1>8, <1>11, SameRequest
  <2> QED  BY <2>1, <2>2
<1>14. TailsAdded(aq, ackQueue'[0], B, f, Banks(0), Ack0)
  <2>1. \A b \in B : f[b] \in Ack0
    BY <1>13, SameRequest
  <2>2. \A b \in B : ackQueue'[0][b] = Append(aq[b], f[b])
    BY <1>5, <1>6
  <2>3. \A b \in Banks(0) \ B : ackQueue'[0][b] = aq[b]
    BY <1>5
  <2> QED  BY <1>1, <1>5, <2>1, <2>2, <2>3 DEF TailsAdded
<1>15. ackQueue'[0] \in [Banks(0) -> Seq(Ack0)]
  <2>1. ackQueue'[0] = [b \in Banks(0) |-> ackQueue'[0][b]]
    BY <1>5
  <2> QED  BY <1>14, <2>1, TailsAddedType
<1> HIDE DEF H, F, A, f, g, B
<1>16. ASSUME NEW e \in Entries(0)
       PROVE  /\ mshr'[0][e] \in Entry0
              /\ mshr'[0][e].valid => mshr'[0][e].mshrQueue # <<>>
              /\ mshr'[0][e].mshrQueue = IF e \in A THEN Tail(mshr[0][e].mshrQueue)
                                         ELSE mshr[0][e].mshrQueue
  <2>1. PICK x \in Entry0 : x = mshr[0][e]
    BY <1>1
  <2>2. CASE e \in A
    <3>1. x.mshrQueue # <<>> /\ mshr'[0][e] = clearMshrEntry(x)
      BY <1>4, <1>10, <2>1, <2>2
    <3> QED  BY <2>1, <2>2, <3>1, ClearEntry
  <2>3. CASE e \notin A
    <3>1. mshr'[0][e] = mshr[0][e]
      BY <1>4, <2>3
    <3> QED  BY <2>1, <2>3, <3>1 DEF OnceInv, Level0OK
  <2> QED  BY <2>2, <2>3
<1>17. mshr'[0] \in [Entries(0) -> Entry0]
  BY <1>4, <1>16
<1>18. Level0OK(reqQueue'[0], ackQueue'[0], mshr'[0], status')
  BY <1>2, <1>8, <1>15, <1>16, <1>17 DEF OnceInv, Level0OK
<1>19. HeadsGone(mq, nq, A, Entries(0), MemReq0)
  <2>1. mq \in [Entries(0) -> Seq(MemReq0)]
    BY <1>1 DEF MshrQueues, Entry0
  <2>2. DOMAIN nq = Entries(0) /\ A \in SUBSET Entries(0)
    BY <1>10 DEF MshrQueues
  <2>3. \A e \in A : mq[e] # <<>> /\ nq[e] = Tail(mq[e])
    BY <1>10, <1>16 DEF MshrQueues
  <2>4. \A e \in Entries(0) \ A : nq[e] = mq[e]
    BY <1>16 DEF MshrQueues
  <2> QED  BY <2>1, <2>2, <2>3, <2>4 DEF HeadsGone
<1>20. \A e \in A : Head(mq[e]) = Front(0, e)
  BY <1>10 DEF MshrQueues, Front
<1> HIDE DEF mq, nq
<1>21. ASSUME NEW r \in Reqs
       PROVE  OnceIn(reqQueue'[0], ackQueue'[0], nq, status'[r], QueuedOf(r), RequestOf(r))
  <2> DEFINE Q == QueuedOf(r)
             R == RequestOf(r)
  <2>1. OnceIn(rq, aq, mq, status[r], Q, R)
    BY DEF OnceInv, mq
  <2>2. \A b \in H : f[b] \in R <=> Head(rq[b]) \in Q
    BY <1>8, <1>11, SameRequest
  <2>3. \A b \in F : f[b] \in R <=> Head(mq[g[b]]) \in R
    BY <1>9, <1>20
  <2> HIDE DEF Q, R
  <2>4. Single(rq, Q) /\ Single(mq, R) /\ Single(aq, R)
    BY <2>1 DEF OnceIn
  <2>5. /\ Single(reqQueue'[0], Q)
        /\ Has(rq, Q) <=> Has(reqQueue'[0], Q) \/ AtHead(rq, H, Q)
        /\ ~(Has(reqQueue'[0], Q) /\ AtHead(rq, H, Q))
    BY <1>7, <2>4, HeadsGoneHas
  <2>6. /\ Single(nq, R)
        /\ Has(mq, R) <=> Has(nq, R) \/ AtHead(mq, A, R)
        /\ ~(Has(nq, R) /\ AtHead(mq, A, R))
    BY <1>19, <2>4, HeadsGoneHas
  <2>7. AtTail(f, B, R) <=> AtHead(rq, H, Q) \/ AtHead(mq, A, R)
    <3>1. AtHead(rq, H, Q) => AtTail(f, B, R)
      BY <2>2 DEF AtHead, AtTail, B
    <3>2. AtHead(mq, A, R) => AtTail(f, B, R)
      BY <2>3, <1>10 DEF AtHead, AtTail, B
    <3>3. AtTail(f, B, R) => AtHead(rq, H, Q) \/ AtHead(mq, A, R)
      BY <2>2, <2>3, <1>9 DEF AtHead, AtTail, B
    <3> QED  BY <3>1, <3>2, <3>3
  <2>8. ~(Has(aq, R) /\ AtTail(f, B, R))
    BY <2>1, <2>5, <2>6, <2>7 DEF OnceIn
  <2>9. ASSUME NEW b \in B, NEW c \in B, f[b] \in R, f[c] \in R PROVE b = c
    <3>1. CASE b \in H /\ c \in H
      <4>1. ASSUME NEW d \in H PROVE d \in DOMAIN rq /\ 1 \in DOMAIN rq[d] /\ rq[d][1] = Head(rq[d])
        <5>1. d \in Banks(0) /\ rq[d] \in Seq(Queued0) /\ rq[d] # <<>>
          BY <1>7 DEF HeadsGone
        <5> QED  BY <5>1, <1>1, TailPositions
      <4> QED  BY <3>1, <4>1, <2>2, <2>4, <2>9 DEF Single
    <3>2. CASE b \in F /\ c \in F
      <4>1. ASSUME NEW d \in A PROVE d \in DOMAIN mq /\ 1 \in DOMAIN mq[d] /\ mq[d][1] = Head(mq[d])
        <5>1. d \in Entries(0) /\ mq[d] \in Seq(MemReq0) /\ mq[d] # <<>> /\ mq \in [Entries(0) -> Seq(MemReq0)]
          BY <1>19 DEF HeadsGone
        <5> QED  BY <5>1, TailPositions
      <4>2. g[b] \in A /\ g[c] \in A /\ Head(mq[g[b]]) \in R /\ Head(mq[g[c]]) \in R
        BY <3>2, <1>9, <2>3, <2>9
      <4>3. g[b] = g[c]
        BY <4>1, <4>2, <2>4 DEF Single
      <4> QED  BY <3>2, <4>3, <1>12
    <3>3. ASSUME NEW d \in H, NEW a \in F, f[d] \in R, f[a] \in R PROVE FALSE
      <4>1. AtHead(rq, H, Q)
        BY <3>3, <2>2 DEF AtHead
      <4>2. AtHead(mq, A, R)
        BY <3>3, <2>3, <1>9 DEF AtHead
      <4> QED  BY <4>1, <4>2, <2>1, <2>5, <2>6 DEF OnceIn
    <3> QED  BY <2>9, <3>1, <3>2, <3>3 DEF B
  <2>10. Single(ackQueue'[0], R) /\ (Has(ackQueue'[0], R) <=> Has(aq, R) \/ AtTail(f, B, R))
    BY <1>14, <2>4, <2>8, <2>9, TailsAddedHas
  <2> QED  BY <2>1, <2>5, <2>6, <2>7, <2>10, <1>2 DEF OnceIn, Q, R
<1> QED  BY <1>18, <1>21 DEF OnceInv, nq

-----------------------------------------------------------------------------
\* At first the acknowledge banks hold default requests, which are of no
\* request of the memory system.
LEMMA OnceInit == Init => OnceInv
<1> SUFFICES ASSUME Init PROVE OnceInv
  OBVIOUS
<1> USE LevelFacts
<1>1. WalkOK
  <2>1. 0 \in Entries(0)
    BY DEF Entries
  <2> QED  BY <2>1 DEF Init, WalkOK
<1>2. /\ reqQueue[0] = [b \in Banks(0) |-> <<>>]
      /\ ackQueue[0] = [b \in Banks(0) |-> [k \in 1 .. AckQueueSize[0] |-> Invalid]]
      /\ mshr[0] = [e \in Entries(0) |-> EmptyEntry]
      /\ status = [r \in Reqs |-> "idle"]
  BY DEF Init
<1>3. Level0OK(reqQueue[0], ackQueue[0], mshr[0], status)
  <2>1. AckQueueSize[0] \in Nat
    BY CacheAssumption DEF PerLevel
  <2>2. Invalid \in Ack0
    BY DEF Invalid, Ack0
  <2>3. [k \in 1 .. AckQueueSize[0] |-> Invalid] \in Seq(Ack0)
    BY <2>1, <2>2
  <2>4. EmptyEntry \in Entry0 /\ ~EmptyEntry.valid
    BY DEF EmptyEntry, Entry0
  <2> QED  BY <1>2, <2>3, <2>4 DEF Level0OK
<1>4. ASSUME NEW r \in Reqs
      PROVE  OnceIn(reqQueue[0], ackQueue[0], MshrQueues(mshr[0]), status[r],
                    QueuedOf(r), RequestOf(r))
  <2>1. Invalid \notin RequestOf(r)
    BY DEF Invalid, RequestOf
  <2>2. ~Has(reqQueue[0], QueuedOf(r)) /\ Single(reqQueue[0], QueuedOf(r))
    BY <1>2 DEF Has, Single
  <2>3. ~Has(ackQueue[0], RequestOf(r)) /\ Single(ackQueue[0], RequestOf(r))
    BY <1>2, <2>1 DEF Has, Single
  <2>4. ~Has(MshrQueues(mshr[0]), RequestOf(r)) /\ Single(MshrQueues(mshr[0]), RequestOf(r))
    BY <1>2 DEF Has, Single, MshrQueues, EmptyEntry
  <2>5. status[r] = "idle"
    BY <1>2
  <2> QED  BY <2>2, <2>3, <2>4, <2>5 DEF OnceIn
<1> QED  BY <1>1, <1>3, <1>4 DEF OnceInv

\* Every step keeps each request at its one place.
LEMMA OnceNext == OnceInv /\ [Next]_vars => OnceInv'
<1> SUFFICES ASSUME OnceInv, [Next]_vars PROVE OnceInv'
  OBVIOUS
<1>1. CASE UNCHANGED vars
  BY <1>1 DEF OnceInv, WalkOK, Level0OK, vars, control, queues, ptrs
<1>2. CASE Next
  <2>1. WalkOK'
    BY <1>2, WalkNext DEF OnceInv
  <2>2. ASSUME NEW r \in Reqs, NEW blk \in Blocks, NEW op \in Accesses, addTransaction(r, blk, op)
        PROVE  OnceInv'
    BY <2>1, <2>2, AddKeeps
  <2>3. ASSUME NEW served \in SUBSET Banks(0), callBack(served) PROVE OnceInv'
    BY <2>1, <2>3, CallBackKeeps
  <2>4. CASE PushAckQueue
    BY <2>1, <2>4, PushAckKeeps, OtherStepsStay
  <2>5. CASE updateReqQueueHit
    BY <2>1, <2>5, HitKeepsRequests, OtherStepsStay
  <2>6. CASE updateReqQueueMiss
    BY <2>1, <2>6, MissKeeps, OtherStepsStay
  <2>7. ASSUME NEW n, sendReq2Mem(n) PROVE OnceInv'
    BY <2>1, <2>7, LatencyKeeps
  <2>8. CASE \/ mem_req_complete
             \/ \E blk \in Blocks : MemoryDataBusUpdate(blk)
             \/ dramUpdate
             \/ resetBankConflictRecorder
             \/ PopAckQueue \/ Refill
             \/ SendOutstandingDown \/ SendOutstandingToMem
             \/ updateReqQueueStall \/ updateReqQueueSkip
    BY <2>1, <2>8, OtherStepsStay
  <2> QED  BY <1>2, <2>2, <2>3, <2>4, <2>5, <2>6, <2>7, <2>8 DEF Next, Round
<1> QED  BY <1>1, <1>2

\* A family of queues contributes its positions to the copies of a request.
Positions(place, v, M) ==
    UNION {{place} \X {x} \X {k \in DOMAIN v[x] : v[x][k] \in M} : x \in DOMAIN v}

\* What a position is.
LEMMA InPositions ==
    ASSUME NEW place, NEW v, NEW M, NEW p
    PROVE  p \in Positions(place, v, M) <=>
               \E x \in DOMAIN v : \E k \in DOMAIN v[x] : v[x][k] \in M /\ p = <<place, x, k>>
<1>1. p \in Positions(place, v, M) <=>
          \E x \in DOMAIN v : p \in {place} \X {x} \X {k \in DOMAIN v[x] : v[x][k] \in M}
  BY Zenon DEF Positions
<1>2. ASSUME NEW x
      PROVE  p \in {place} \X {x} \X {k \in DOMAIN v[x] : v[x][k] \in M} <=>
                 \E k \in DOMAIN v[x] : v[x][k] \in M /\ p = <<place, x, k>>
  OBVIOUS
<1> QED  BY <1>1, <1>2

\* There are none, or just one.
LEMMA PositionsOf ==
    ASSUME NEW place, NEW v, NEW M
    PROVE  /\ ~Has(v, M) => Positions(place, v, M) = {}
           /\ Has(v, M) /\ Single(v, M) => \E p : Positions(place, v, M) = {p}
<1>1. ASSUME ~Has(v, M) PROVE Positions(place, v, M) = {}
  BY <1>1, InPositions DEF Has
<1>2. ASSUME Has(v, M), Single(v, M) PROVE \E p : Positions(place, v, M) = {p}
  <2>1. PICK x \in DOMAIN v : \E k \in DOMAIN v[x] : v[x][k] \in M
    BY <1>2 DEF Has
  <2>2. PICK k \in DOMAIN v[x] : v[x][k] \in M
    BY <2>1
  <2>3. PICK p : p = <<place, x, k>>
    OBVIOUS
  <2>4. p \in Positions(place, v, M)
    BY <2>2, <2>3, InPositions
  <2>5. ASSUME NEW q \in Positions(place, v, M) PROVE q = p
    <3>1. PICK y \in DOMAIN v : \E j \in DOMAIN v[y] : v[y][j] \in M /\ q = <<place, y, j>>
      BY InPositions
    <3>2. PICK j \in DOMAIN v[y] : v[y][j] \in M /\ q = <<place, y, j>>
      BY <3>1
    <3>3. x = y /\ k = j
      BY <1>2, <2>2, <3>2 DEF Single
    <3> QED  BY <2>3, <3>2, <3>3
  <2>6. Positions(place, v, M) = {p}
    BY <2>4, <2>5
  <2> QED  BY <2>6
<1> QED  BY <1>1, <1>2

\* The copies of a request are its positions in the three families.
LEMMA CopiesAre ==
    ASSUME OnceInv, NEW r \in Reqs
    PROVE  Copies(r) = Positions("reqQueue", reqQueue[0], QueuedOf(r))
                       \cup Positions("mshr", MshrQueues(mshr[0]), RequestOf(r))
                       \cup Positions("ackQueue", ackQueue[0], RequestOf(r))
<1> DEFINE mq == MshrQueues(mshr[0])
<1>1. /\ reqQueue[0] \in [Banks(0) -> Seq(Queued0)] /\ ackQueue[0] \in [Banks(0) -> Seq(Ack0)]
      /\ mshr[0] \in [Entries(0) -> Entry0]
  BY DEF OnceInv, Level0OK
<1>2. mq \in [Entries(0) -> Seq(MemReq0)] /\ \A e \in Entries(0) : mq[e] = mshr[0][e].mshrQueue
  BY <1>1 DEF MshrQueues, Entry0
<1> HIDE DEF mq
<1>3. ASSUME NEW b \in Banks(0)
      PROVE  {k \in DOMAIN reqQueue[0][b] : reqQueue[0][b][k].req.id = r}
             = {k \in DOMAIN reqQueue[0][b] : reqQueue[0][b][k] \in QueuedOf(r)}
  <2>1. reqQueue[0][b] \in Seq(Queued0)
    BY <1>1
  <2>2. \A k \in DOMAIN reqQueue[0][b] : reqQueue[0][b][k] \in Queued0
    BY <2>1, ElementOfSeq, LenProperties
  <2> QED  BY <2>2 DEF QueuedOf
<1>4. ASSUME NEW b \in Banks(0)
      PROVE  {k \in DOMAIN ackQueue[0][b] : ackQueue[0][b][k].id = r}
             = {k \in DOMAIN ackQueue[0][b] : ackQueue[0][b][k] \in RequestOf(r)}
  <2>1. ackQueue[0][b] \in Seq(Ack0)
    BY <1>1
  <2>2. \A k \in DOMAIN ackQueue[0][b] : ackQueue[0][b][k] \in Ack0
    BY <2>1, ElementOfSeq, LenProperties
  <2> QED  BY <2>2 DEF RequestOf
<1>5. ASSUME NEW e \in Entries(0)
      PROVE  {k \in DOMAIN mshr[0][e].mshrQueue : mshr[0][e].mshrQueue[k].id = r}
             = {k \in DOMAIN mq[e] : mq[e][k] \in RequestOf(r)}
  <2>1. mq[e] \in Seq(MemReq0)
    BY <1>2
  <2>2. \A k \in DOMAIN mq[e] : mq[e][k] \in Ack0
    BY <2>1, ElementOfSeq, LenProperties, SameRequest
  <2> QED  BY <1>2, <2>2 DEF RequestOf
<1>6. DOMAIN reqQueue[0] = Banks(0) /\ DOMAIN ackQueue[0] = Banks(0) /\ DOMAIN mq = Entries(0)
  BY <1>1, <1>2
<1>7. Positions("reqQueue", reqQueue[0], QueuedOf(r)) =
      UNION {{"reqQueue"} \X {b} \X {k \in DOMAIN reqQueue[0][b] : reqQueue[0][b][k].req.id = r} : b \in Banks(0)}
  <2> DEFINE K(b) == {k \in DOMAIN reqQueue[0][b] : reqQueue[0][b][k] \in QueuedOf(r)}
             L(b) == {k \in DOMAIN reqQueue[0][b] : reqQueue[0][b][k].req.id = r}
             X == UNION {{"reqQueue"} \X {b} \X L(b) : b \in Banks(0)}
  <2>1. \A b \in Banks(0) : K(b) = L(b)
    BY <1>3
  <2>2. Positions("reqQueue", reqQueue[0], QueuedOf(r)) = UNION {{"reqQueue"} \X {b} \X K(b) : b \in Banks(0)}
    BY <1>6 DEF Positions
  <2> HIDE DEF K, L
  <2>3. UNION {{"reqQueue"} \X {b} \X K(b) : b \in Banks(0)} = X
    BY <2>1, Zenon
  <2> QED  BY <2>2, <2>3 DEF L
<1>8. Positions("ackQueue", ackQueue[0], RequestOf(r)) =
      UNION {{"ackQueue"} \X {b} \X {k \in DOMAIN ackQueue[0][b] : ackQueue[0][b][k].id = r} : b \in Banks(0)}
  <2> DEFINE K(b) == {k \in DOMAIN ackQueue[0][b] : ackQueue[0][b][k] \in RequestOf(r)}
             L(b) == {k \in DOMAIN ackQueue[0][b] : ackQueue[0][b][k].id = r}
             X == UNION {{"ackQueue"} \X {b} \X L(b) : b \in Banks(0)}
  <2>1. \A b \in Banks(0) : K(b) = L(b)
    BY <1>4
  <2>2. Positions("ackQueue", ackQueue[0], RequestOf(r)) = UNION {{"ackQueue"} \X {b} \X K(b) : b \in Banks(0)}
    BY <1>6 DEF Positions
  <2> HIDE DEF K, L
  <2>3. UNION {{"ackQueue"} \X {b} \X K(b) : b \in Banks(0)} = X
    BY <2>1, Zenon
  <2> QED  BY <2>2, <2>3 DEF L
<1>9. Positions("mshr", mq, RequestOf(r)) =
      UNION {{"mshr"} \X {e} \X {k \in DOMAIN mshr[0][e].mshrQueue : mshr[0][e].mshrQueue[k].id = r} : e \in Entries(0)}
  <2> DEFINE K(e) == {k \in DOMAIN mq[e] : mq[e][k] \in RequestOf(r)}
             L(e) == {k \in DOMAIN mshr[0][e].mshrQueue : mshr[0][e].mshrQueue[k].id = r}
             X == UNION {{"mshr"} \X {e} \X L(e) : e \in Entries(0)}
  <2>1. \A e \in Entries(0) : K(e) = L(e)
    BY <1>5
  <2>2. Positions("mshr", mq, RequestOf(r)) = UNION {{"mshr"} \X {e} \X K(e) : e \in Entries(0)}
    BY <1>6 DEF Positions
  <2> HIDE DEF K, L
  <2>3. UNION {{"mshr"} \X {e} \X K(e) : e \in Entries(0)} = X
    BY <2>1, Zenon
  <2> QED  BY <2>2, <2>3 DEF L
<1> QED  BY <1>7, <1>8, <1>9, Zenon DEF Copies, mq

\* The invariant counts the copies of a request.
LEMMA OnceImplies == OnceInv => EachRequestOnce
<1> SUFFICES ASSUME OnceInv, NEW r \in Reqs
             PROVE  Cardinality(Copies(r)) = IF status[r] = "sent" THEN 1 ELSE 0
  BY DEF EachRequestOnce
<1> DEFINE P == Positions("reqQueue", reqQueue[0], QueuedOf(r))
           N == Positions("mshr", MshrQueues(mshr[0]), RequestOf(r))
           A == Positions("ackQueue", ackQueue[0], RequestOf(r))
<1>1. OnceIn(reqQueue[0], ackQueue[0], MshrQueues(mshr[0]), status[r], QueuedOf(r), RequestOf(r))
  BY DEF OnceInv
<1>2. /\ ~Has(reqQueue[0], QueuedOf(r)) => P = {}
      /\ Has(reqQueue[0], QueuedOf(r)) => \E p : P = {p}
  BY <1>1, PositionsOf DEF OnceIn
<1>3. /\ ~Has(MshrQueues(mshr[0]), RequestOf(r)) => N = {}
      /\ Has(MshrQueues(mshr[0]), RequestOf(r)) => \E p : N = {p}
  BY <1>1, PositionsOf DEF OnceIn
<1>4. /\ ~Has(ackQueue[0], RequestOf(r)) => A = {}
      /\ Has(ackQueue[0], RequestOf(r)) => \E p : A = {p}
  BY <1>1, PositionsOf DEF OnceIn
<1>5. Copies(r) = P \cup N \cup A
  BY CopiesAre
<1> HIDE DEF P, N, A
<1>6. CASE status[r] = "sent"
  <2>1. PICK p : P \cup N \cup A = {p}
    BY <1>1, <1>2, <1>3, <1>4, <1>6 DEF OnceIn
  <2>2. Cardinality({p}) = 1
    BY FS_Singleton
  <2> QED  BY <1>5, <1>6, <2>1, <2>2, Zenon
<1>7. CASE status[r] # "sent"
  <2>1. P \cup N \cup A = {}
    BY <1>1, <1>2, <1>3, <1>4, <1>7 DEF OnceIn
  <2>2. Cardinality({}) = 0
    BY FS_EmptySet
  <2> QED  BY <1>5, <1>7, <2>1, <2>2, Zenon
<1> QED  BY <1>6, <1>7

\* For every number of levels, banks, entries and requests and all sizes: the
\* cache neither loses nor duplicates a request it accepted.
THEOREM NoRequestLost == Spec => []EachRequestOnce
<1>1. Spec => []OnceInv
  BY OnceInit, OnceNext, PTL DEF Spec
<1> QED  BY <1>1, OnceImplies, PTL

=============================================================================
