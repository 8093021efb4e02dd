------------------------ MODULE MemSystemPort_proofs ------------------------
(***************************************************************************)
(* Proof that seen from any of its Lses MemSystem is an in-order port.     *)
(*                                                                         *)
(* The slots in use are a run of the ring of slots, from popPtr up to      *)
(* pushPtr, and the abstract queue lists that run.  Issuing a request      *)
(* lengthens it, popping one shortens it, and sending one does not show.   *)
(* That an answer is an answer of the port, to a request not yet answered, *)
(* is what PInv is needed for: ackCallback does not look at the slot.      *)
(***************************************************************************)
EXTENDS MemSystem_proofs, RingLemmas

States == {"free", "suspended", "inflight", "ready"}
PortEntry == [req : Slots, answered : BOOLEAN]

\* The k-th slot after slot p.
Pos(p, k) == (p + k) % NumSlots

\* The slots in use of an Lse are the n slots from po on, up to pu.
Ring(st, pu, po, n) ==
    /\ st \in [Slots -> States] /\ po \in Slots
    /\ n \in 0 .. NumSlots /\ pu = Pos(po, n)
    /\ \A k \in 0 .. NumSlots - 1 : st[Pos(po, k)] # "free" <=> k < n

\* The abstract queue of such a ring.
View(st, po, n) ==
    [k \in 1 .. n |-> [req |-> Pos(po, k - 1), answered |-> st[Pos(po, k - 1)] = "ready"]]

RingInv == \A l \in Lses : \E n : Ring(status[l], pushPtr[l], popPtr[l], n)

-----------------------------------------------------------------------------
\* The positions of the ring.
LEMMA PosProperties ==
    ASSUME NEW p \in Slots, NEW k \in Nat
    PROVE  /\ Pos(p, k) \in Slots
           /\ NextSlot(Pos(p, k)) = Pos(p, k + 1)
           /\ Pos(NextSlot(p), k) = Pos(p, k + 1)
           /\ NextSlot(p) \in Slots
<1> DEFINE N == NumSlots
<1>1. N \in Nat \ {0} /\ p \in Nat /\ p + k \in Nat /\ p + 1 \in Nat
  BY MemSystemAssumption DEF Slots
<1>2. (p + k) % N \in 0 .. N - 1 /\ (p + 1) % N \in 0 .. N - 1
  BY <1>1, ModIsIndex
<1>3. (((p + k) % N) + 1) % N = ((p + k) + 1) % N
  BY <1>1, ModSucc
<1>4. PICK r \in Nat : r = (p + 1) % N
  BY <1>2
<1>5. (r + k) % N = (p + 1 + k) % N
  <2>1. 0 \in 0 .. N /\ 0 <= p + 1
    BY <1>1
  <2>2. (((p + 1) % N) + N - 0 + k) % N = ((p + 1) - 0 + k) % N
    BY <1>1, <2>1, ModBack
  <2>3. (r + N - 0 + k) % N = ((p + 1) - 0 + k) % N
    BY <1>4, <2>2
  <2>4. r + N - 0 + k = (r + k) + N /\ (p + 1) - 0 + k = p + 1 + k /\ r + k \in Nat
    BY <1>1, <1>4
  <2>5. ((r + k) + N) % N = (r + k) % N
    BY <1>1, <2>4, ModPeriod
  <2> QED BY <2>3, <2>4, <2>5, Zenon
<1>6. (p + k) + 1 = p + (k + 1) /\ p + 1 + k = p + (k + 1)
  BY <1>1
<1>7. Pos(p, k) \in Slots /\ NextSlot(p) \in Slots
  BY <1>2 DEF Pos, NextSlot, Slots
<1>8. NextSlot(Pos(p, k)) = Pos(p, k + 1)
  BY <1>3, <1>6, Zenon DEF NextSlot, Pos
<1>9. Pos(NextSlot(p), k) = Pos(p, k + 1)
  BY <1>4, <1>5, <1>6, Zenon DEF NextSlot, Pos
<1> QED BY <1>7, <1>8, <1>9

\* A slot is its own first position, and once around leads back to it.
LEMMA PosTurn ==
    ASSUME NEW p \in Slots
    PROVE  Pos(p, 0) = p /\ Pos(p, NumSlots) = p
<1>1. NumSlots \in Nat \ {0} /\ p \in 0 .. NumSlots - 1 /\ p \in Nat
  BY MemSystemAssumption DEF Slots
<1>2. (NumSlots * 0 + p) % NumSlots = p /\ NumSlots * 0 + p = p /\ p + 0 = p
  BY <1>1, ModUnique
<1>3. p % NumSlots = p
  BY <1>2, Zenon
<1>4. (p + NumSlots) % NumSlots = p % NumSlots
  BY <1>1, ModPeriod
<1> QED BY <1>2, <1>3, <1>4, Zenon DEF Pos

\* Positions less than a turn apart differ.
LEMMA PosDistinct ==
    ASSUME NEW p \in Slots, NEW j \in Nat, NEW k \in Nat, j < k, k - j < NumSlots
    PROVE  Pos(p, j) # Pos(p, k)
<1>1. /\ NumSlots \in Nat \ {0} /\ p + j \in Nat /\ p + k \in Nat
      /\ p + j < p + k /\ (p + k) - (p + j) < NumSlots
  BY MemSystemAssumption DEF Slots
<1> QED BY <1>1, ModDistinct DEF Pos

\* Every slot is a position less than a turn away.
LEMMA PosCover ==
    ASSUME NEW p \in Slots, NEW t \in Slots
    PROVE  \E k \in 0 .. NumSlots - 1 : Pos(p, k) = t
<1>1. /\ NumSlots \in Nat \ {0} /\ p \in 0 .. NumSlots - 1 /\ t \in 0 .. NumSlots - 1
      /\ t \in Nat
  BY MemSystemAssumption DEF Slots
<1>2. t + 0 = t /\ Pos(t, 0) = t /\ Pos(t, NumSlots) = t
  BY <1>1, PosTurn
<1>3. CASE p <= t
  <2>1. t - p \in 0 .. NumSlots - 1 /\ p + (t - p) = t + 0
    BY <1>1, <1>3
  <2> QED BY <1>2, <2>1, Zenon DEF Pos
<1>4. CASE t < p
  <2>1. t - p + NumSlots \in 0 .. NumSlots - 1 /\ p + (t - p + NumSlots) = t + NumSlots
    BY <1>1, <1>4
  <2> QED BY <1>2, <2>1, Zenon DEF Pos
<1> QED BY <1>1, <1>3, <1>4

-----------------------------------------------------------------------------
\* The view of a ring is a queue of port entries.
IsView(v, st, po, n) ==
    /\ v \in Seq(PortEntry) /\ Len(v) = n /\ DOMAIN v = 1 .. n
    /\ \A k \in 1 .. n :
          v[k] = [req |-> Pos(po, k - 1), answered |-> st[Pos(po, k - 1)] = "ready"]

LEMMA ViewType ==
    ASSUME NEW st, NEW pu, NEW po, NEW n, Ring(st, pu, po, n)
    PROVE  IsView(View(st, po, n), st, po, n)
<1>1. n \in Nat /\ po \in Slots
  BY MemSystemAssumption DEF Ring
<1>2. ASSUME NEW k \in 1 .. n
      PROVE  [req |-> Pos(po, k - 1), answered |-> st[Pos(po, k - 1)] = "ready"] \in PortEntry
  <2>1. Pos(po, k - 1) \in Slots
    BY <1>1, PosProperties
  <2> QED BY <2>1 DEF PortEntry
<1>3. View(st, po, n) \in [1 .. n -> PortEntry]
  BY <1>2 DEF View
<1>4. View(st, po, n) \in Seq(PortEntry) /\ Len(View(st, po, n)) = n
  BY <1>1, <1>3
<1> QED BY <1>1, <1>3, <1>4 DEF View, IsView

\* The abstract queue of an Lse lists its ring.
PortShape ==
    \A l \in Lses : \A n :
        Ring(status[l], pushPtr[l], popPtr[l], n) => PortQueue(l) = View(status[l], popPtr[l], n)

LEMMA PortIs == PortShape
<1> SUFFICES ASSUME NEW l \in Lses, NEW n, Ring(status[l], pushPtr[l], popPtr[l], n)
             PROVE  PortQueue(l) = View(status[l], popPtr[l], n)
  BY DEF PortShape
<1> DEFINE st == status[l]
           po == popPtr[l]
           N == NumSlots
           U == {s \in Slots : st[s] # "free"}
<1>1. /\ N \in Nat \ {0} /\ po \in Slots /\ po \in Nat /\ n \in 0 .. N /\ n \in Nat
      /\ \A k \in 0 .. N - 1 : st[Pos(po, k)] # "free" <=> k < n
  BY MemSystemAssumption DEF Ring, Slots
<1> HIDE DEF st, po
<1>2. PICK b \in Nat : b = po + n
  BY <1>1
<1>3. U = {k % N : k \in po .. b - 1}
  <2>1. ASSUME NEW t \in U PROVE \E k \in po .. b - 1 : t = k % N
    <3>1. PICK k \in 0 .. N - 1 : Pos(po, k) = t
      BY <1>1, PosCover
    <3>2. k < n
      BY <1>1, <3>1
    <3>3. po + k \in po .. b - 1
      BY <1>1, <1>2, <3>2
    <3> QED BY <3>1, <3>3 DEF Pos
  <2>2. ASSUME NEW k \in po .. b - 1 PROVE k % N \in U
    <3>1. k - po \in 0 .. N - 1 /\ k - po < n /\ po + (k - po) = k /\ k - po \in Nat
      BY <1>1, <1>2
    <3>2. Pos(po, k - po) = k % N
      BY <3>1 DEF Pos
    <3>3. Pos(po, k - po) \in Slots
      BY <1>1, <3>1, PosProperties
    <3>4. st[Pos(po, k - po)] # "free"
      BY <1>1, <3>1
    <3> QED BY <3>2, <3>3, <3>4
  <2> HIDE DEF U
  <2> QED BY <2>1, <2>2
<1>4. Cardinality(U) = n
  <2>1. po <= b /\ b <= po + N /\ b - po = n
    BY <1>1, <1>2
  <2>2. Cardinality({k % N : k \in po .. b - 1}) = b - po
    BY <1>1, <2>1, ModCount
  <2> QED BY <1>3, <2>1, <2>2, Zenon
<1>5. PortQueue(l) = [k \in 1 .. n |-> [req |-> (po + k - 1) % N,
                                        answered |-> st[(po + k - 1) % N] = "ready"]]
  BY <1>4 DEF PortQueue, st, po
<1>6. \A k \in 1 .. n : po + k - 1 = po + (k - 1)
  BY <1>1
<1> QED BY <1>5, <1>6 DEF View, Pos, st, po

LEMMA PortIsNext == PortShape'
BY PortIs, PTL

-----------------------------------------------------------------------------
\* The slot at the end of the run gets a request: the run and the queue grow.
LEMMA RingAccept ==
    ASSUME NEW st, NEW pu, NEW po, NEW n, NEW s2, Ring(st, pu, po, n),
           st[pu] = "free", s2 = [st EXCEPT ![pu] = "suspended"]
    PROVE  /\ Ring(s2, NextSlot(pu), po, n + 1) /\ n < NumSlots /\ pu \in Slots
           /\ View(s2, po, n + 1) =
                 Append(View(st, po, n), [req |-> pu, answered |-> FALSE])
<1> DEFINE N == NumSlots
<1>1. /\ N \in Nat \ {0} /\ st \in [Slots -> States] /\ po \in Slots
      /\ n \in 0 .. N /\ n \in Nat /\ pu = Pos(po, n)
      /\ \A k \in 0 .. N - 1 : st[Pos(po, k)] # "free" <=> k < n
  BY MemSystemAssumption DEF Ring
<1>2. n < N
  <2> SUFFICES ASSUME n = N PROVE FALSE
    BY <1>1
  <2>1. pu = Pos(po, 0)
    BY <1>1, PosTurn
  <2>2. 0 \in 0 .. N - 1 /\ 0 < n
    BY <1>1
  <2> QED BY <1>1, <2>1, <2>2
<1>3. pu \in Slots /\ NextSlot(pu) = Pos(po, n + 1)
  BY <1>1, PosProperties
<1>4. ASSUME NEW k \in 0 .. N - 1, k # n
      PROVE  Pos(po, k) \in Slots /\ s2[Pos(po, k)] = st[Pos(po, k)]
  <2>1. Pos(po, k) \in Slots
    BY <1>1, PosProperties
  <2>2. Pos(po, k) # pu
    <3>1. CASE k < n
      BY <1>1, <1>2, <3>1, PosDistinct
    <3>2. CASE n < k
      BY <1>1, <1>2, <3>2, PosDistinct
    <3> QED BY <1>1, <1>4, <3>1, <3>2
  <2> QED BY <1>1, <2>1, <2>2
<1>5. s2[pu] = "suspended" /\ s2 \in [Slots -> States]
  BY <1>1, <1>3 DEF States
<1>6. Ring(s2, NextSlot(pu), po, n + 1)
  <2>1. ASSUME NEW k \in 0 .. N - 1 PROVE s2[Pos(po, k)] # "free" <=> k < n + 1
    <3>1. CASE k = n
      BY <1>1, <1>5, <3>1
    <3>2. CASE k # n
      <4>1. s2[Pos(po, k)] # "free" <=> k < n
        BY <1>1, <1>4, <3>2
      <4> QED BY <1>1, <3>2, <4>1
    <3> QED BY <3>1, <3>2
  <2> QED BY <1>1, <1>2, <1>3, <1>5, <2>1 DEF Ring
<1> DEFINE v == View(st, po, n)
           w == View(s2, po, n + 1)
           e == [req |-> pu, answered |-> FALSE]
<1>7. /\ v \in Seq(PortEntry) /\ Len(v) = n
      /\ \A k \in 1 .. n : v[k] = [req |-> Pos(po, k - 1), answered |-> st[Pos(po, k - 1)] = "ready"]
  <2>1. IsView(v, st, po, n)
    BY ViewType
  <2> QED BY <2>1 DEF IsView
<1>8. /\ w \in Seq(PortEntry) /\ Len(w) = n + 1
      /\ \A k \in 1 .. n + 1 : w[k] = [req |-> Pos(po, k - 1), answered |-> s2[Pos(po, k - 1)] = "ready"]
  <2>1. PICK m, p2 : m = n + 1 /\ p2 = NextSlot(pu)
    OBVIOUS
  <2>2. Ring(s2, p2, po, m)
    BY <1>6, <2>1, Zenon
  <2>3. IsView(View(s2, po, m), s2, po, m)
    BY <2>2, ViewType
  <2> QED BY <2>1, <2>3, Zenon DEF IsView
<1>9. e \in PortEntry
  BY <1>3 DEF PortEntry
<1> HIDE DEF v, w, e
<1>10. /\ Append(v, e) \in Seq(PortEntry) /\ Len(Append(v, e)) = n + 1
       /\ \A k \in 1 .. n : Append(v, e)[k] = v[k]
       /\ Append(v, e)[n + 1] = e
  BY <1>7, <1>9, AppendProperties
<1>11. ASSUME NEW k \in 1 .. n + 1 PROVE w[k] = Append(v, e)[k]
  <2>1. CASE k \in 1 .. n
    <3>1. k - 1 \in 0 .. N - 1 /\ k - 1 # n
      BY <1>1, <1>2, <2>1
    <3>2. s2[Pos(po, k - 1)] = st[Pos(po, k - 1)]
      BY <1>4, <3>1
    <3>3. w[k] = v[k]
      BY <1>7, <1>8, <2>1, <3>2
    <3> QED BY <1>10, <2>1, <3>3
  <2>2. CASE k = n + 1
    <3>1. k - 1 = n
      BY <1>1, <2>2
    <3>2. w[k] = [req |-> pu, answered |-> s2[pu] = "ready"]
      BY <1>1, <1>8, <3>1
    <3>3. w[k] = e
      BY <1>5, <3>2 DEF e
    <3> QED BY <1>10, <2>2, <3>3
  <2>3. n \in Nat
    BY <1>1
  <2>4. k \in 1 .. n \/ k = n + 1
    BY <2>3
  <2> QED BY <2>1, <2>2, <2>4, Zenon
<1>12. w = Append(v, e)
  BY <1>8, <1>10, <1>11, SeqEqual
<1> QED BY <1>2, <1>3, <1>6, <1>12 DEF v, w, e

\* The answered request at the front leaves: run and queue lose their first.
HandsOn(st, pu, po, n, s2) ==
    /\ Ring(s2, pu, NextSlot(po), n - 1)
    /\ View(st, po, n) # <<>> /\ Head(View(st, po, n)).answered
    /\ View(s2, NextSlot(po), n - 1) = Tail(View(st, po, n))

LEMMA RingHandOn ==
    ASSUME NEW st, NEW pu, NEW po, NEW n, NEW s2, Ring(st, pu, po, n),
           st[po] = "ready", s2 = [st EXCEPT ![po] = "free"]
    PROVE  HandsOn(st, pu, po, n, s2)
<1> DEFINE N == NumSlots
           p2 == NextSlot(po)
<1>1. /\ N \in Nat \ {0} /\ st \in [Slots -> States] /\ po \in Slots
      /\ n \in 0 .. N /\ n \in Nat /\ pu = Pos(po, n)
      /\ \A k \in 0 .. N - 1 : st[Pos(po, k)] # "free" <=> k < n
  BY MemSystemAssumption DEF Ring
<1>2. Pos(po, 0) = po /\ Pos(po, N) = po
  BY <1>1, PosTurn
<1>3. n > 0 /\ n - 1 \in 0 .. N /\ n - 1 \in Nat
  <2>1. 0 \in 0 .. N - 1 /\ st[Pos(po, 0)] # "free"
    BY <1>1, <1>2
  <2> QED BY <1>1, <2>1
<1>4. p2 \in Slots /\ \A k \in Nat : Pos(p2, k) = Pos(po, k + 1) /\ Pos(po, k) \in Slots
  BY <1>1, PosProperties
<1> HIDE DEF p2
<1>5. ASSUME NEW k \in 1 .. N - 1
      PROVE  Pos(po, k) \in Slots /\ s2[Pos(po, k)] = st[Pos(po, k)]
  <2>1. Pos(po, k) \in Slots
    BY <1>4
  <2>2. Pos(po, 0) # Pos(po, k)
    BY <1>1, PosDistinct
  <2> QED BY <1>1, <1>2, <2>1, <2>2
<1>6. s2[po] = "free" /\ s2 \in [Slots -> States]
  BY <1>1 DEF States
<1>7. Ring(s2, pu, p2, n - 1)
  <2>1. ASSUME NEW k \in 0 .. N - 1 PROVE s2[Pos(p2, k)] # "free" <=> k < n - 1
    <3>1. Pos(p2, k) = Pos(po, k + 1)
      BY <1>4
    <3>2. CASE k = N - 1
      <4>1. Pos(p2, k) = po
        <5>1. k + 1 = N
          BY <1>1, <3>2
        <5> QED BY <1>2, <3>1, <5>1, Zenon
      <4>2. ~(k < n - 1)
        BY <1>1, <3>2
      <4> QED BY <1>6, <4>1, <4>2
    <3>3. CASE k < N - 1
      <4>1. k + 1 \in 1 .. N - 1 /\ k + 1 \in 0 .. N - 1
        BY <1>1, <3>3
      <4>2. s2[Pos(p2, k)] = st[Pos(po, k + 1)]
        BY <1>5, <3>1, <4>1
      <4>3. st[Pos(po, k + 1)] # "free" <=> k + 1 < n
        BY <1>1, <4>1
      <4> QED BY <1>1, <4>2, <4>3
    <3> QED BY <1>1, <3>2, <3>3
  <2>2. pu = Pos(p2, n - 1)
    <3>1. Pos(p2, n - 1) = Pos(po, (n - 1) + 1) /\ (n - 1) + 1 = n
      BY <1>1, <1>3, <1>4
    <3> QED BY <1>1, <3>1
  <2> QED BY <1>3, <1>4, <1>6, <2>1, <2>2 DEF Ring
<1> DEFINE v == View(st, po, n)
           w == View(s2, p2, n - 1)
<1>8. /\ v \in Seq(PortEntry) /\ Len(v) = n
      /\ \A k \in 1 .. n : v[k] = [req |-> Pos(po, k - 1), answered |-> st[Pos(po, k - 1)] = "ready"]
  <2>1. IsView(v, st, po, n)
    BY ViewType
  <2> QED BY <2>1 DEF IsView
<1>9. /\ w \in Seq(PortEntry) /\ Len(w) = n - 1
      /\ \A k \in 1 .. n - 1 : w[k] = [req |-> Pos(p2, k - 1), answered |-> s2[Pos(p2, k - 1)] = "ready"]
  <2>1. PICK m : m = n - 1
    OBVIOUS
  <2>2. Ring(s2, pu, p2, m)
    BY <1>7, <2>1, Zenon
  <2>3. IsView(View(s2, p2, m), s2, p2, m)
    BY <2>2, ViewType
  <2> QED BY <2>1, <2>3, Zenon DEF IsView
<1> HIDE DEF v, w
<1>10. v # <<>>
  BY <1>3, <1>8
<1>11. /\ Head(v) = v[1] /\ Tail(v) \in Seq(PortEntry) /\ Len(Tail(v)) = n - 1
       /\ \A k \in 1 .. n - 1 : Tail(v)[k] = v[k + 1]
  BY <1>8, <1>10, HeadTailProperties
<1>12. Head(v).answered
  <2>1. 1 \in 1 .. n /\ 1 - 1 = 0
    BY <1>1, <1>3
  <2>2. v[1] = [req |-> po, answered |-> st[po] = "ready"]
    BY <1>2, <1>8, <2>1
  <2>3. v[1].answered = (st[po] = "ready")
    BY <2>2
  <2> QED BY <1>11, <2>3
<1>13. ASSUME NEW k \in 1 .. n - 1 PROVE w[k] = Tail(v)[k]
  <2>1. k + 1 \in 1 .. n /\ (k + 1) - 1 = k /\ k - 1 \in Nat /\ (k - 1) + 1 = k /\ k \in 1 .. N - 1
    BY <1>1
  <2>2. Pos(p2, k - 1) = Pos(po, k)
    BY <1>4, <2>1
  <2>3. s2[Pos(po, k)] = st[Pos(po, k)]
    BY <1>5, <2>1
  <2>4. w[k] = [req |-> Pos(po, k), answered |-> st[Pos(po, k)] = "ready"]
    BY <1>9, <2>2, <2>3
  <2>5. v[k + 1] = [req |-> Pos(po, k), answered |-> st[Pos(po, k)] = "ready"]
    BY <1>8, <2>1
  <2> QED BY <1>11, <2>4, <2>5
<1>14. w = Tail(v)
  BY <1>9, <1>11, <1>13, SeqEqual
<1> QED BY <1>7, <1>10, <1>12, <1>14 DEF v, w, p2, HandsOn

\* A change inside a slot in use leaves the run as it is.
LEMMA RingKept ==
    ASSUME NEW st, NEW pu, NEW po, NEW n, NEW t, NEW new, NEW s2, Ring(st, pu, po, n),
           t \in Slots, st[t] # "free", new \in States \ {"free"}, s2 = [st EXCEPT ![t] = new]
    PROVE  Ring(s2, pu, po, n)
<1>1. /\ st \in [Slots -> States] /\ po \in Slots /\ n \in 0 .. NumSlots /\ pu = Pos(po, n)
      /\ \A k \in 0 .. NumSlots - 1 : st[Pos(po, k)] # "free" <=> k < n
  BY DEF Ring
<1>2. s2 \in [Slots -> States]
  BY <1>1
<1>3. \A u \in Slots : s2[u] # "free" <=> st[u] # "free"
  BY <1>1
<1>4. ASSUME NEW k \in 0 .. NumSlots - 1 PROVE s2[Pos(po, k)] # "free" <=> k < n
  <2>1. Pos(po, k) \in Slots
    BY <1>1, PosProperties, MemSystemAssumption
  <2> QED BY <1>1, <1>3, <2>1
<1> QED BY <1>1, <1>2, <1>4 DEF Ring

\* Sending a request does not show.
LEMMA RingSend ==
    ASSUME NEW st, NEW pu, NEW po, NEW n, NEW t, NEW s2, Ring(st, pu, po, n),
           t \in Slots, st[t] = "suspended", s2 = [st EXCEPT ![t] = "inflight"]
    PROVE  Ring(s2, pu, po, n) /\ View(s2, po, n) = View(st, po, n)
<1>1. st \in [Slots -> States] /\ po \in Slots /\ n \in Nat
  BY MemSystemAssumption DEF Ring
<1>2. Ring(s2, pu, po, n)
  BY RingKept DEF States
<1>3. \A u \in Slots : (s2[u] = "ready") = (st[u] = "ready")
  BY <1>1
<1>4. ASSUME NEW k \in 1 .. n
      PROVE  (s2[Pos(po, k - 1)] = "ready") = (st[Pos(po, k - 1)] = "ready")
  <2>1. k - 1 \in Nat /\ po \in Slots
    BY <1>1
  <2>2. Pos(po, k - 1) \in Slots
    BY <2>1, PosProperties
  <2> QED BY <1>3, <2>2
<1> QED BY <1>2, <1>4 DEF View

\* What answering does to an entry of the port's queue.
LEMMA AnsweredEntry ==
    ASSUME NEW e \in PortEntry
    PROVE  [e EXCEPT !.answered = TRUE] = [req |-> e.req, answered |-> TRUE]
<1> USE DEF PortEntry
<1> DEFINE f == [e EXCEPT !.answered = TRUE]
<1>1. f \in PortEntry /\ f.req = e.req /\ f.answered = TRUE
  OBVIOUS
<1> HIDE DEF f
<1>2. f = [req |-> f.req, answered |-> f.answered]
  BY <1>1
<1>3. f = [req |-> e.req, answered |-> TRUE]
  BY <1>1, <1>2, Zenon
<1> QED BY <1>3 DEF f

\* The answer to a request in flight is an answer of the port.
Answers(st, pu, po, n, s2) ==
    /\ Ring(s2, pu, po, n)
    /\ \E k \in DOMAIN View(st, po, n) :
          /\ ~View(st, po, n)[k].answered
          /\ View(s2, po, n) = [View(st, po, n) EXCEPT ![k].answered = TRUE]

LEMMA RingAnswer ==
    ASSUME NEW st, NEW pu, NEW po, NEW n, NEW t, NEW s2, Ring(st, pu, po, n),
           t \in Slots, st[t] = "inflight", s2 = [st EXCEPT ![t] = "ready"]
    PROVE  Answers(st, pu, po, n, s2)
<1> DEFINE N == NumSlots
<1>1. /\ N \in Nat \ {0} /\ st \in [Slots -> States] /\ po \in Slots
      /\ n \in 0 .. N /\ n \in Nat
      /\ \A k \in 0 .. N - 1 : st[Pos(po, k)] # "free" <=> k < n
  BY MemSystemAssumption DEF Ring
<1>2. Ring(s2, pu, po, n)
  BY RingKept DEF States
<1>3. PICK j \in 0 .. N - 1 : Pos(po, j) = t
  BY <1>1, PosCover
<1>4. j < n
  BY <1>1, <1>3
<1> DEFINE v == View(st, po, n)
           w == View(s2, po, n)
           e == [req |-> t, answered |-> TRUE]
<1>5. /\ v \in Seq(PortEntry) /\ Len(v) = n /\ DOMAIN v = 1 .. n
      /\ \A k \in 1 .. n : v[k] = [req |-> Pos(po, k - 1), answered |-> st[Pos(po, k - 1)] = "ready"]
  <2>1. IsView(v, st, po, n)
    BY ViewType
  <2> QED BY <2>1 DEF IsView
<1>6. /\ w \in Seq(PortEntry) /\ Len(w) = n
      /\ \A k \in 1 .. n : w[k] = [req |-> Pos(po, k - 1), answered |-> s2[Pos(po, k - 1)] = "ready"]
  <2>1. IsView(w, s2, po, n)
    BY <1>2, ViewType
  <2> QED BY <2>1 DEF IsView
<1> HIDE DEF v, w
<1>7. PICK k \in 1 .. n : k = j + 1 /\ k - 1 = j
  BY <1>1, <1>4
<1>8. v[k] = [req |-> t, answered |-> FALSE]
  BY <1>3, <1>5, <1>7
<1>9. w[k] = e
  <2>1. s2[t] = "ready"
    BY <1>1
  <2> QED BY <1>3, <1>6, <1>7, <2>1
<1>10. ASSUME NEW h \in 1 .. n, h # k PROVE w[h] = v[h]
  <2>1. Pos(po, h - 1) \in Slots
    <3>1. h - 1 \in Nat /\ po \in Slots
      BY <1>1
    <3> QED BY <3>1, PosProperties
  <2>2. Pos(po, h - 1) # t
    <3>1. h - 1 \in Nat /\ j \in Nat /\ h - 1 # j /\ h - 1 - j < N /\ j - (h - 1) < N
      BY <1>1, <1>4, <1>7, <1>10
    <3>2. CASE h - 1 < j
      BY <1>1, <1>3, <3>1, <3>2, PosDistinct
    <3>3. CASE j < h - 1
      BY <1>1, <1>3, <3>1, <3>3, PosDistinct
    <3> QED BY <3>1, <3>2, <3>3
  <2>3. s2[Pos(po, h - 1)] = st[Pos(po, h - 1)]
    BY <1>1, <2>1, <2>2
  <2> QED BY <1>5, <1>6, <2>3
<1>11. [v[k] EXCEPT !.answered = TRUE] = e
  <2>1. v[k] \in PortEntry /\ v[k].req = t
    BY <1>8 DEF PortEntry
  <2> QED BY <2>1, AnsweredEntry
<1>12. e \in PortEntry
  BY DEF PortEntry
<1> HIDE DEF e
<1> DEFINE x == [v EXCEPT ![k] = e]
<1>13. x \in Seq(PortEntry) /\ Len(x) = n /\ \A h \in 1 .. n : x[h] = IF h = k THEN e ELSE v[h]
  BY <1>5, <1>7, <1>12, ExceptSeq
<1> HIDE DEF x
<1>14. \A h \in 1 .. n : w[h] = x[h]
  BY <1>9, <1>10, <1>13
<1>15. w = x
  BY <1>6, <1>13, <1>14, SeqEqual
<1>16. w = [v EXCEPT ![k].answered = TRUE]
  BY <1>11, <1>15, Zenon DEF x
<1>17. ~v[k].answered
  BY <1>8
<1> QED BY <1>2, <1>5, <1>7, <1>16, <1>17 DEF v, w, Answers

-----------------------------------------------------------------------------
(***************************************************************************)
(* What a step may do to the ring of one Lse.                              *)
(***************************************************************************)
Idle(l) == status'[l] = status[l] /\ pushPtr'[l] = pushPtr[l] /\ popPtr'[l] = popPtr[l]
Issued(l) ==
    /\ status[l][pushPtr[l]] = "free"
    /\ status'[l] = [status[l] EXCEPT ![pushPtr[l]] = "suspended"]
    /\ pushPtr'[l] = NextSlot(pushPtr[l]) /\ popPtr'[l] = popPtr[l]
Popped(l) ==
    /\ status[l][popPtr[l]] = "ready"
    /\ status'[l] = [status[l] EXCEPT ![popPtr[l]] = "free"]
    /\ popPtr'[l] = NextSlot(popPtr[l]) /\ pushPtr'[l] = pushPtr[l]
Moved(l, from, to) ==
    /\ \E t \in Slots : status[l][t] = from /\ status'[l] = [status[l] EXCEPT ![t] = to]
    /\ pushPtr'[l] = pushPtr[l] /\ popPtr'[l] = popPtr[l]

\* Only a request in flight is answered, and only a suspended one is sent.
LEMMA LseSteps ==
    ASSUME PInv, TypeOK', [Next]_vars, NEW l \in Lses
    PROVE  \/ Idle(l) \/ Issued(l) \/ Popped(l)
           \/ Moved(l, "inflight", "ready") \/ Moved(l, "suspended", "inflight")
<1>1. /\ status \in [Lses -> [Slots -> States]]
      /\ pushPtr \in [Lses -> Slots] /\ popPtr \in [Lses -> Slots]
  BY DEF PInv, IInv, TypeOK, LseOK, States
<1>2. CASE UNCHANGED lseVars
  BY <1>2 DEF lseVars, Idle
<1>3. CASE \E m \in Lses, blk \in Blocks : LseIssue(m, blk)
  <2>1. PICK m \in Lses, blk \in Blocks : LseIssue(m, blk)
    BY <1>3
  <2>2. /\ status[m][pushPtr[m]] = "free"
        /\ status' = [status EXCEPT ![m][pushPtr[m]] = "suspended"]
        /\ pushPtr' = [pushPtr EXCEPT ![m] = NextSlot(@)] /\ UNCHANGED popPtr
    BY <2>1 DEF LseIssue
  <2>3. l = m => Issued(l)
    BY <1>1, <2>2 DEF Issued
  <2>4. l # m => Idle(l)
    BY <1>1, <2>2 DEF Idle
  <2> QED BY <2>3, <2>4
<1>4. CASE \E m \in Lses : LsePop(m)
  <2>1. PICK m \in Lses : LsePop(m)
    BY <1>4
  <2>2. /\ status[m][popPtr[m]] = "ready"
        /\ status' = [status EXCEPT ![m][popPtr[m]] = "free"]
        /\ popPtr' = [popPtr EXCEPT ![m] = NextSlot(@)] /\ UNCHANGED pushPtr
    BY <2>1 DEF LsePop
  <2>3. l = m => Popped(l)
    BY <1>1, <2>2 DEF Popped
  <2>4. l # m => Idle(l)
    BY <1>1, <2>2 DEF Idle
  <2> QED BY <2>3, <2>4
<1>5. CASE AckSingle \/ AckCoalesced
  <2>1. CASE \E req \in MemReq :
                /\ ackCallback(req)
                /\ \A m \in Lses, s \in Slots :
                      Held(m, s) = Held(m, s)' + IF Is(req, m, s) THEN 1 ELSE 0
    <3>1. PICK req \in MemReq :
                /\ ackCallback(req)
                /\ \A m \in Lses, s \in Slots :
                      Held(m, s) = Held(m, s)' + IF Is(req, m, s) THEN 1 ELSE 0
      BY <2>1
    <3>2. status[req.lse][req.slot] = "inflight"
      BY <3>1, OnceAnswered DEF PInv
    <3>3. /\ status' = [status EXCEPT ![req.lse][req.slot] = "ready"]
          /\ UNCHANGED <<pushPtr, popPtr>> /\ req.lse \in Lses /\ req.slot \in Slots
      BY <3>1, SlotOfReq DEF ackCallback
    <3>4. l = req.lse => Moved(l, "inflight", "ready")
      BY <1>1, <3>2, <3>3 DEF Moved
    <3>5. l # req.lse => Idle(l)
      BY <1>1, <3>3 DEF Idle
    <3> QED BY <3>4, <3>5
  <2> QED BY <1>2, <1>5, <2>1, AckEffects DEF PInv
<1>6. CASE Collect
  <2>1. PICK req \in MemReq : /\ req = suspendReq[ptr] /\ ptr \in Lses
                              /\ UNCHANGED lseVars \/ setInflight(req)
    BY <1>6, CollectCounts DEF PInv
  <2>2. CASE setInflight(req)
    <3>1. req # NoReq /\ req.slot \in Slots
      BY MemSystemAssumption, SlotOfReq
    <3>2. req.lse = ptr /\ status[ptr][req.slot] = "suspended"
      BY <2>1, <3>1 DEF PInv, OfferOK
    <3>3. /\ status' = [status EXCEPT ![ptr][req.slot] = "inflight"]
          /\ UNCHANGED <<pushPtr, popPtr>>
      BY <2>2, <3>2 DEF setInflight
    <3>4. l = ptr => Moved(l, "suspended", "inflight")
      BY <1>1, <3>1, <3>2, <3>3 DEF Moved
    <3>5. l # ptr => Idle(l)
      BY <1>1, <2>1, <3>3 DEF Idle
    <3> QED BY <3>4, <3>5
  <2> QED BY <1>2, <2>1, <2>2
<1> QED BY <1>2, <1>3, <1>4, <1>5, <1>6
        DEF Next, UpdateStep, BeginUpdate, SkipEmptyBank, GetFromCache, send2Cache,
            CollectNothing, send2Coalescer, addTransaction, vars

\* Each of these keeps the run of slots in use and is a step of the port.
LEMMA PortStep ==
    ASSUME PInv, RingInv, TypeOK', [Next]_vars, PortShape, PortShape', NEW l \in Lses
    PROVE  /\ \E m : Ring(status'[l], pushPtr'[l], popPtr'[l], m)
           /\ Port(l)!Next \/ UNCHANGED PortQueue(l)
<1>1. PICK n, st, pu, po : /\ Ring(st, pu, po, n)
                           /\ st = status[l] /\ pu = pushPtr[l] /\ po = popPtr[l]
  BY DEF RingInv
<1>2. PortQueue(l) = View(st, po, n)
  BY <1>1 DEF PortShape
<1>3. PICK s2, u2, p2 : s2 = status'[l] /\ u2 = pushPtr'[l] /\ p2 = popPtr'[l]
  OBVIOUS
<1>4. \A m : Ring(s2, u2, p2, m) => PortQueue(l)' = View(s2, p2, m)
  BY <1>3 DEF PortShape
<1> DEFINE v == View(st, po, n)
<1>5. v \in Seq(PortEntry) /\ Len(v) = n /\ DOMAIN v = 1 .. n
  <2>1. IsView(v, st, po, n)
    BY <1>1, ViewType
  <2> QED BY <2>1 DEF IsView
<1>6. CASE Idle(l)
  <2>1. Ring(s2, u2, p2, n) /\ View(s2, p2, n) = v
    BY <1>1, <1>3, <1>6 DEF Idle
  <2> QED BY <1>2, <1>3, <1>4, <2>1
<1>7. CASE Issued(l)
  <2>1. /\ Ring(s2, NextSlot(pu), po, n + 1) /\ n < NumSlots /\ pu \in Slots
        /\ View(s2, po, n + 1) = Append(v, [req |-> pu, answered |-> FALSE])
    BY <1>1, <1>3, <1>7, RingAccept DEF Issued
  <2>2. u2 = NextSlot(pu) /\ p2 = po
    BY <1>1, <1>3, <1>7 DEF Issued
  <2>3. Ring(s2, u2, p2, n + 1)
    BY <2>1, <2>2, Zenon
  <2>4. PortQueue(l)' = Append(PortQueue(l), [req |-> pu, answered |-> FALSE])
    BY <1>2, <1>4, <2>1, <2>2, <2>3, Zenon
  <2>5. Len(PortQueue(l)) < NumSlots
    BY <1>2, <1>5, <2>1
  <2>6. Port(l)!Next
    BY <2>1, <2>4, <2>5 DEF Port!Next, Port!Accept
  <2> QED BY <1>3, <2>3, <2>6
<1>8. CASE Popped(l)
  <2>1. /\ Ring(s2, pu, NextSlot(po), n - 1)
        /\ v # <<>> /\ Head(v).answered
        /\ View(s2, NextSlot(po), n - 1) = Tail(v)
    <3>1. st[po] = "ready" /\ s2 = [st EXCEPT ![po] = "free"]
      BY <1>1, <1>3, <1>8 DEF Popped
    <3>2. HandsOn(st, pu, po, n, s2)
      BY <1>1, <3>1, RingHandOn
    <3> QED BY <3>2 DEF HandsOn
  <2>2. u2 = pu /\ p2 = NextSlot(po)
    BY <1>1, <1>3, <1>8 DEF Popped
  <2>3. Ring(s2, u2, p2, n - 1)
    BY <2>1, <2>2, Zenon
  <2>4. PortQueue(l)' = Tail(PortQueue(l))
    BY <1>2, <1>4, <2>1, <2>2, <2>3, Zenon
  <2>5. PortQueue(l) # <<>> /\ Head(PortQueue(l)).answered
    BY <1>2, <2>1, Zenon
  <2>6. Port(l)!Next
    BY <2>4, <2>5 DEF Port!Next, Port!HandOn
  <2> QED BY <1>3, <2>3, <2>6
<1>9. CASE Moved(l, "inflight", "ready")
  <2>1. PICK t \in Slots : st[t] = "inflight" /\ s2 = [st EXCEPT ![t] = "ready"]
    BY <1>1, <1>3, <1>9 DEF Moved
  <2>2. u2 = pu /\ p2 = po
    BY <1>1, <1>3, <1>9 DEF Moved
  <2>3. /\ Ring(s2, pu, po, n)
        /\ \E k \in DOMAIN v : ~v[k].answered /\ View(s2, po, n) = [v EXCEPT ![k].answered = TRUE]
    <3>1. Answers(st, pu, po, n, s2)
      BY <1>1, <2>1, RingAnswer
    <3> QED BY <3>1 DEF Answers
  <2>4. PICK k \in DOMAIN v : ~v[k].answered /\ View(s2, po, n) = [v EXCEPT ![k].answered = TRUE]
    BY <2>3
  <2>5. Ring(s2, u2, p2, n)
    BY <2>2, <2>3, Zenon
  <2>6. /\ k \in DOMAIN PortQueue(l) /\ ~PortQueue(l)[k].answered
        /\ PortQueue(l)' = [PortQueue(l) EXCEPT ![k].answered = TRUE]
    BY <1>2, <1>4, <2>2, <2>4, <2>5, Zenon
  <2>7. Port(l)!Next
    BY <2>6 DEF Port!Next, Port!Answer
  <2> QED BY <1>3, <2>5, <2>7
<1>10. CASE Moved(l, "suspended", "inflight")
  <2>1. PICK t \in Slots : st[t] = "suspended" /\ s2 = [st EXCEPT ![t] = "inflight"]
    BY <1>1, <1>3, <1>10 DEF Moved
  <2>2. u2 = pu /\ p2 = po
    BY <1>1, <1>3, <1>10 DEF Moved
  <2>3. Ring(s2, pu, po, n) /\ View(s2, po, n) = v
    BY <1>1, <2>1, RingSend
  <2>4. Ring(s2, u2, p2, n)
    BY <2>2, <2>3, Zenon
  <2>5. PortQueue(l)' = PortQueue(l)
    BY <1>2, <1>4, <2>2, <2>3, <2>4, Zenon
  <2> QED BY <1>3, <2>4, <2>5
<1> QED BY <1>6, <1>7, <1>8, <1>9, <1>10, LseSteps

\* Initially no slot is in use.
LEMMA RingInit == Init => RingInv /\ \A l \in Lses : Port(l)!Init
<1> SUFFICES ASSUME Init, NEW l \in Lses
             PROVE  (\E n : Ring(status[l], pushPtr[l], popPtr[l], n)) /\ Port(l)!Init
  BY DEF RingInv
<1>1. /\ status[l] = [s \in Slots |-> "free"] /\ pushPtr[l] = 0 /\ popPtr[l] = 0
      /\ 0 \in Slots /\ NumSlots \in Nat \ {0}
  BY MemSystemAssumption DEF Init, Slots
<1>2. Ring(status[l], pushPtr[l], popPtr[l], 0)
  <2>1. Pos(0, 0) = 0
    BY <1>1, PosTurn
  <2>2. ASSUME NEW k \in 0 .. NumSlots - 1 PROVE status[l][Pos(0, k)] # "free" <=> k < 0
    <3>1. Pos(0, k) \in Slots
      BY <1>1, PosProperties
    <3> QED BY <1>1, <3>1
  <2> QED BY <1>1, <2>1, <2>2 DEF Ring, States
<1>3. PortQueue(l) = View(status[l], popPtr[l], 0)
  BY <1>2, PortIs DEF PortShape
<1>4. PortQueue(l) = <<>>
  <2>1. IsView(View(status[l], popPtr[l], 0), status[l], popPtr[l], 0)
    BY <1>2, ViewType
  <2> QED BY <1>3, <2>1, EmptySeq DEF IsView
<1> QED BY <1>2, <1>4 DEF Port!Init

\* Every Lse sees an in-order port: whatever way its answer takes, alone or
\* coalesced, in order or not, each accepted request is answered once and the
\* answers are handed on in the order of the requests.
THEOREM MemSystemIsPort == Spec => ImplementsPort
<1>1. Init => RingInv /\ \A l \in Lses : Port(l)!Init
  BY RingInit
<1>2. PInv => TypeOK
  BY DEF PInv, IInv
<1>3. PInv /\ RingInv /\ TypeOK' /\ PortShape /\ PortShape' /\ [Next]_vars
        => /\ RingInv'
           /\ [\A l \in Lses : Port(l)!Next \/ UNCHANGED PortQueue(l)]_vars
  BY PortStep DEF RingInv
<1> QED BY <1>1, <1>2, <1>3, PortIs, PInvAlways, PTL DEF Spec, ImplementsPort
=============================================================================
