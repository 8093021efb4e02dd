---------------------------- MODULE QueueLemmas ----------------------------
(***************************************************************************)
(* Counting the elements of a family of queues that belong to a set, and   *)
(* what appending, removing and moving whole queues does to that count.    *)
(***************************************************************************)
EXTENDS Integers, Sequences, FiniteSets, TLAPS, SequenceTheorems,
        FiniteSetTheorems, FunctionTheorems

\* The positions of the family q, named after the place it is, that hold an
\* element of M, and those of one of its queues.
Column(place, q, x, M) ==
    {<<place, x, k>> : k \in {j \in DOMAIN q[x] : q[x][j] \in M}}

Hits(place, q, M) == UNION {Column(place, q, x, M) : x \in DOMAIN q}

\* The number of elements of M in one queue.
Count(s, M) == Cardinality({k \in DOMAIN s : s[k] \in M})

(***************************************************************************)
(* The hypotheses of the lemmas, as predicates.                            *)
(***************************************************************************)
\* q is a family of finitely many queues.
Family(D, S, q) == IsFiniteSet(D) /\ q \in [D -> Seq(S)]

\* t is s with e appended.
Appended(s, e, t) ==
    /\ Len(t) = Len(s) + 1
    /\ \A k \in 1 .. Len(s) : t[k] = s[k]
    /\ t[Len(s) + 1] = e

\* t is s without its k-th element, e.
Removed(s, k, e, t) ==
    /\ k \in 1 .. Len(s) /\ s[k] = e
    /\ Len(t) = Len(s) - 1
    /\ \A j \in 1 .. Len(s) - 1 : t[j] = IF j < k THEN s[j] ELSE s[j + 1]

\* The family r is q with e appended to the queue x, or with the k-th element
\* of that queue, e, removed.
Enqueued(D, S, q, r, x, e) ==
    /\ Family(D, S, q) /\ Family(D, S, r)
    /\ x \in D /\ e \in S /\ Appended(q[x], e, r[x])
    /\ \A y \in D : y # x => r[y] = q[y]
Dequeued(D, S, q, r, x, k, e) ==
    /\ Family(D, S, q) /\ Family(D, S, r)
    /\ x \in D /\ Removed(q[x], k, e, r[x])
    /\ \A y \in D : y # x => r[y] = q[y]

\* The family r is q with e[x] appended to the queue of every x in B, and A
\* is where that is an element of M.
AppendedAll(D, S, q, r, B, e) ==
    /\ Family(D, S, q) /\ Family(D, S, r)
    /\ B \in SUBSET D /\ e \in [B -> S]
    /\ \A x \in B : Appended(q[x], e[x], r[x])
    /\ \A x \in D : x \notin B => r[x] = q[x]
Chosen(A, B, e, M) == A \in SUBSET B /\ \A x \in B : x \in A <=> e[x] \in M

\* r is q with a queue at x, where q had none or an empty one.
Filled(D, E, S, q, r, x) ==
    /\ Family(D, S, q) /\ Family(E, S, r)
    /\ x \in E /\ E = D \cup {x} /\ (x \in D => q[x] = <<>>)
    /\ \A y \in D : y # x => r[y] = q[y]

-----------------------------------------------------------------------------
\* Sets between which there is a bijection have the same number of elements.
LEMMA SameCount ==
    ASSUME NEW A, NEW B, IsFiniteSet(A), NEW f \in [A -> B],
           \A b \in B : \E a \in A : f[a] = b,
           \A a, c \in A : f[a] = f[c] => a = c
    PROVE  IsFiniteSet(B) /\ Cardinality(B) = Cardinality(A)
<1>1. f \in Bijection(A, B)
  BY Fun_IsBij
<1>2. ExistsBijection(A, B)
  BY <1>1, Fun_ExistsBij
<1> QED BY <1>2, FS_Bijection

\* The elements of two disjoint finite sets are counted one after the other.
LEMMA DisjointCount ==
    ASSUME NEW A, NEW B, IsFiniteSet(A), IsFiniteSet(B), A \cap B = {}
    PROVE  /\ IsFiniteSet(A \cup B)
           /\ Cardinality(A \cup B) = Cardinality(A) + Cardinality(B)
           /\ Cardinality(A) \in Nat /\ Cardinality(B) \in Nat
<1>1. /\ IsFiniteSet(A \cup B)
      /\ Cardinality(A \cup B) = Cardinality(A) + Cardinality(B) - Cardinality(A \cap B)
  BY FS_Union
<1>2. Cardinality(A \cap B) = 0
  BY FS_EmptySet, Zenon
<1>3. Cardinality(A) \in Nat /\ Cardinality(B) \in Nat
  BY FS_CardinalityType
<1> QED BY <1>1, <1>2, <1>3

-----------------------------------------------------------------------------
\* What a position of one queue is.
LEMMA InColumn ==
    ASSUME NEW place, NEW q, NEW x, NEW M, NEW p
    PROVE  p \in Column(place, q, x, M) <=>
               \E k \in DOMAIN q[x] : q[x][k] \in M /\ p = <<place, x, k>>
BY Zenon DEF Column

\* What a position of the family is.
LEMMA InHits ==
    ASSUME NEW place, NEW q, NEW M, NEW p
    PROVE  p \in Hits(place, q, M) <=>
               \E x \in DOMAIN q : \E k \in DOMAIN q[x] :
                   q[x][k] \in M /\ p = <<place, x, k>>
<1>1. p \in Hits(place, q, M) <=> \E x \in DOMAIN q : p \in Column(place, q, x, M)
  BY Zenon DEF Hits
<1>2. \A x : p \in Column(place, q, x, M) <=>
          \E k \in DOMAIN q[x] : q[x][k] \in M /\ p = <<place, x, k>>
  BY InColumn
<1> QED BY <1>1, <1>2, Zenon

\* Positions are counted, so there have to be finitely many.
LEMMA ColumnFinite ==
    ASSUME NEW place, NEW q, NEW x, NEW M, NEW S, q[x] \in Seq(S)
    PROVE  IsFiniteSet(Column(place, q, x, M))
<1> DEFINE K == {j \in DOMAIN q[x] : q[x][j] \in M}
           f == [k \in K |-> <<place, x, k>>]
<1>1. IsFiniteSet(K)
  <2>1. DOMAIN q[x] = 1 .. Len(q[x]) /\ Len(q[x]) \in Nat
    BY LenProperties
  <2>2. IsFiniteSet(1 .. Len(q[x]))
    BY <2>1, FS_Interval
  <2>3. K \in SUBSET (1 .. Len(q[x]))
    BY <2>1
  <2> QED BY <2>2, <2>3, FS_Subset
<1>2. f \in Surjection(K, Column(place, q, x, M))
  BY Zenon DEF Surjection, Column
<1> QED BY <1>1, <1>2, FS_Surjection

\* The positions of finitely many queues are finitely many.
LEMMA HitsFinite ==
    ASSUME NEW place, NEW D, NEW q, DOMAIN q = D, NEW M, NEW S, IsFiniteSet(D),
           \A x \in D : q[x] \in Seq(S)
    PROVE  IsFiniteSet(Hits(place, q, M)) /\ Cardinality(Hits(place, q, M)) \in Nat
<1> DEFINE C == {Column(place, q, x, M) : x \in D}
           f == [x \in D |-> Column(place, q, x, M)]
<1>1. f \in Surjection(D, C)
  BY Zenon DEF Surjection
<1>2. IsFiniteSet(C)
  BY <1>1, FS_Surjection
<1>3. \A T \in C : IsFiniteSet(T)
  <2>1. \A x \in D : IsFiniteSet(Column(place, q, x, M))
    BY ColumnFinite
  <2> QED BY <2>1, Zenon
<1>4. Hits(place, q, M) = UNION C
  BY Zenon DEF Hits
<1> QED BY <1>2, <1>3, <1>4, FS_UNION, FS_CardinalityType, Zenon

\* Positions are the same when their place, queue and index are.
LEMMA SamePosition ==
    ASSUME NEW t, NEW x, NEW k, NEW u, NEW y, NEW j, <<t, x, k>> = <<u, y, j>>
    PROVE  t = u /\ x = y /\ k = j
BY Zenon

\* A triple is a position if its queue holds an element of M there.
LEMMA AtHits ==
    ASSUME NEW place, NEW q, NEW M, NEW x, NEW k
    PROVE  <<place, x, k>> \in Hits(place, q, M) <=>
               x \in DOMAIN q /\ k \in DOMAIN q[x] /\ q[x][k] \in M
<1>1. ASSUME <<place, x, k>> \in Hits(place, q, M)
      PROVE  x \in DOMAIN q /\ k \in DOMAIN q[x] /\ q[x][k] \in M
  <2>1. PICK y \in DOMAIN q : \E j \in DOMAIN q[y] :
            q[y][j] \in M /\ <<place, x, k>> = <<place, y, j>>
    BY <1>1, InHits
  <2>2. PICK j \in DOMAIN q[y] : q[y][j] \in M /\ <<place, x, k>> = <<place, y, j>>
    BY <2>1
  <2>3. x = y /\ k = j
    BY <2>2, SamePosition, Zenon
  <2> QED BY <2>2, <2>3, Zenon
<1>2. ASSUME x \in DOMAIN q, k \in DOMAIN q[x], q[x][k] \in M
      PROVE  <<place, x, k>> \in Hits(place, q, M)
  BY <1>2, InHits, Zenon
<1> QED BY <1>1, <1>2

\* Different places have no positions in common.
LEMMA HitsApart ==
    ASSUME NEW place, NEW other, NEW q, NEW r, NEW M, NEW N, place # other
    PROVE  Hits(place, q, M) \cap Hits(other, r, N) = {}
<1> SUFFICES ASSUME NEW p, p \in Hits(place, q, M), p \in Hits(other, r, N) PROVE FALSE
  BY Zenon
<1>1. PICK x \in DOMAIN q : \E k \in DOMAIN q[x] : q[x][k] \in M /\ p = <<place, x, k>>
  BY InHits
<1>2. PICK k \in DOMAIN q[x] : p = <<place, x, k>>
  BY <1>1
<1>3. PICK y \in DOMAIN r : \E j \in DOMAIN r[y] : r[y][j] \in N /\ p = <<other, y, j>>
  BY InHits
<1>4. PICK j \in DOMAIN r[y] : p = <<other, y, j>>
  BY <1>3
<1>5. <<place, x, k>> = <<other, y, j>>
  BY <1>2, <1>4, Zenon
<1> QED BY <1>5, SamePosition, Zenon

-----------------------------------------------------------------------------
\* Append appends.
LEMMA AppendIs ==
    ASSUME NEW S, NEW s, NEW e, s \in Seq(S), e \in S
    PROVE  Append(s, e) \in Seq(S) /\ Appended(s, e, Append(s, e))
BY AppendProperties DEF Appended

\* Appending to several queues at once adds one for every element of M.
LEMMA HitsAppendAll ==
    ASSUME NEW place, NEW D, NEW S, NEW M, NEW q, NEW r, NEW B, NEW e, NEW A,
           AppendedAll(D, S, q, r, B, e), Chosen(A, B, e, M)
    PROVE  /\ Cardinality(Hits(place, r, M)) =
                  Cardinality(Hits(place, q, M)) + Cardinality(A)
           /\ Cardinality(Hits(place, q, M)) \in Nat
           /\ IsFiniteSet(A) /\ Cardinality(A) \in Nat
<1> USE DEF AppendedAll, Chosen, Family
<1> DEFINE pos(x) == <<place, x, Len(q[x]) + 1>>
           N == {pos(x) : x \in A}
           f == [x \in A |-> pos(x)]
<1>1. IsFiniteSet(A)
  BY FS_Subset
<1>2. /\ \A x \in D : DOMAIN q[x] = 1 .. Len(q[x]) /\ Len(q[x]) \in Nat
      /\ \A x \in D \ B : r[x] = q[x]
      /\ \A x \in B : /\ DOMAIN r[x] = 1 .. Len(q[x]) + 1
                      /\ \A k \in 1 .. Len(q[x]) : r[x][k] = q[x][k]
                      /\ r[x][Len(q[x]) + 1] = e[x]
  <2>1. \A x \in D : DOMAIN q[x] = 1 .. Len(q[x]) /\ Len(q[x]) \in Nat
    BY LenProperties
  <2>2. \A x \in D \ B : r[x] = q[x]
    OBVIOUS
  <2>3. ASSUME NEW x \in B
        PROVE  /\ DOMAIN r[x] = 1 .. Len(q[x]) + 1
               /\ \A k \in 1 .. Len(q[x]) : r[x][k] = q[x][k]
               /\ r[x][Len(q[x]) + 1] = e[x]
    <3>1. Appended(q[x], e[x], r[x]) /\ r[x] \in Seq(S)
      OBVIOUS
    <3>2. DOMAIN r[x] = 1 .. Len(r[x])
      BY <3>1, LenProperties
    <3> QED BY <3>1, <3>2, Zenon DEF Appended
  <2> QED BY <2>1, <2>2, <2>3, Zenon
<1>3. \A x \in D : \A k : k \in DOMAIN r[x] /\ r[x][k] \in M <=>
          \/ k \in DOMAIN q[x] /\ q[x][k] \in M
          \/ x \in A /\ k = Len(q[x]) + 1
  <2> SUFFICES ASSUME NEW x \in D, NEW k
               PROVE  k \in DOMAIN r[x] /\ r[x][k] \in M <=>
                          \/ k \in DOMAIN q[x] /\ q[x][k] \in M
                          \/ x \in A /\ k = Len(q[x]) + 1
    BY Zenon
  <2>1. CASE x \in B
    <3>1. /\ DOMAIN q[x] = 1 .. Len(q[x]) /\ Len(q[x]) \in Nat
          /\ DOMAIN r[x] = 1 .. Len(q[x]) + 1
          /\ \A j \in 1 .. Len(q[x]) : r[x][j] = q[x][j]
          /\ r[x][Len(q[x]) + 1] = e[x]
          /\ x \in A <=> e[x] \in M
      BY <1>2, <2>1
    <3>2. k \in 1 .. Len(q[x]) + 1 <=> k \in 1 .. Len(q[x]) \/ k = Len(q[x]) + 1
      BY <3>1
    <3>3. Len(q[x]) + 1 \notin 1 .. Len(q[x])
      BY <3>1
    <3> QED BY <3>1, <3>2, <3>3, Zenon
  <2>2. CASE x \notin B
    BY <1>2, <2>2
  <2> QED BY <2>1, <2>2
<1>4. Hits(place, r, M) = Hits(place, q, M) \cup N
  <2>1. ASSUME NEW p \in Hits(place, r, M) PROVE p \in Hits(place, q, M) \cup N
    <3>1. PICK x \in D : \E k \in DOMAIN r[x] : r[x][k] \in M /\ p = <<place, x, k>>
      BY InHits
    <3>2. PICK k \in DOMAIN r[x] : r[x][k] \in M /\ p = <<place, x, k>>
      BY <3>1
    <3>3. CASE k \in DOMAIN q[x] /\ q[x][k] \in M
      <4>1. x \in DOMAIN q
        OBVIOUS
      <4> QED BY <3>2, <3>3, <4>1, AtHits, Zenon
    <3>4. CASE x \in A /\ k = Len(q[x]) + 1
      BY <3>2, <3>4, Zenon
    <3> QED BY <1>3, <3>2, <3>3, <3>4, Zenon
  <2>2. ASSUME NEW p \in Hits(place, q, M) PROVE p \in Hits(place, r, M)
    <3>1. PICK x \in D : \E k \in DOMAIN q[x] : q[x][k] \in M /\ p = <<place, x, k>>
      BY InHits
    <3>2. PICK k \in DOMAIN q[x] : q[x][k] \in M /\ p = <<place, x, k>>
      BY <3>1
    <3>3. x \in DOMAIN r /\ k \in DOMAIN r[x] /\ r[x][k] \in M
      BY <1>3, <3>2
    <3> QED BY <3>2, <3>3, AtHits, Zenon
  <2>3. ASSUME NEW x \in A PROVE pos(x) \in Hits(place, r, M)
    <3>1. x \in DOMAIN r /\ Len(q[x]) + 1 \in DOMAIN r[x] /\ r[x][Len(q[x]) + 1] \in M
      BY <1>3
    <3>2. <<place, x, Len(q[x]) + 1>> \in Hits(place, r, M)
      BY <3>1, AtHits
    <3> QED BY <3>2
  <2> QED BY <2>1, <2>2, <2>3, Zenon
<1>5. Hits(place, q, M) \cap N = {}
  <2> SUFFICES ASSUME NEW x \in A, pos(x) \in Hits(place, q, M) PROVE FALSE
    BY Zenon
  <2>1. Len(q[x]) + 1 \in DOMAIN q[x]
    <3>1. <<place, x, Len(q[x]) + 1>> \in Hits(place, q, M)
      OBVIOUS
    <3> QED BY <3>1, AtHits
  <2> QED BY <1>2, <2>1
<1>6. f \in [A -> N] /\ \A p \in N : \E x \in A : f[x] = p
  BY Zenon
<1>7. \A x, y \in A : f[x] = f[y] => x = y
  BY SamePosition, Zenon
<1>8. IsFiniteSet(N) /\ Cardinality(N) = Cardinality(A)
  <2> HIDE DEF N, f
  <2> QED BY <1>1, <1>6, <1>7, SameCount
<1>9. IsFiniteSet(Hits(place, q, M)) /\ Cardinality(Hits(place, q, M)) \in Nat
  <2>1. DOMAIN q = D /\ \A x \in D : q[x] \in Seq(S)
    OBVIOUS
  <2> QED BY <2>1, HitsFinite, Zenon
<1> HIDE DEF N, f, pos
<1>10. Cardinality(Hits(place, q, M) \cup N) =
          Cardinality(Hits(place, q, M)) + Cardinality(N)
  BY <1>5, <1>8, <1>9, DisjointCount
<1>11. Cardinality(Hits(place, r, M)) = Cardinality(Hits(place, q, M)) + Cardinality(A)
  BY <1>4, <1>8, <1>10, Zenon
<1> QED BY <1>1, <1>9, <1>11, FS_CardinalityType, Zenon

\* Appending to one queue.
LEMMA HitsAppend ==
    ASSUME NEW place, NEW D, NEW S, NEW M, NEW q, NEW r, NEW x, NEW e,
           Enqueued(D, S, q, r, x, e)
    PROVE  Cardinality(Hits(place, r, M)) =
               Cardinality(Hits(place, q, M)) + IF e \in M THEN 1 ELSE 0
<1> USE DEF Family, Enqueued
<1> DEFINE B == {x}
           f == [y \in B |-> e]
           A == IF e \in M THEN {x} ELSE {}
<1>2. r \in [D -> Seq(S)] /\ B \in SUBSET D /\ f \in [B -> S]
  OBVIOUS
<1>3. /\ \A y \in B : Appended(q[y], f[y], r[y])
      /\ \A y \in D : y \notin B => r[y] = q[y]
  OBVIOUS
<1>4. A \in SUBSET B /\ \A y \in B : y \in A <=> f[y] \in M
  OBVIOUS
<1>10. AppendedAll(D, S, q, r, B, f) /\ Chosen(A, B, f, M)
  BY <1>2, <1>3, <1>4 DEF AppendedAll, Chosen
<1> HIDE DEF f, A, B
<1>5. Cardinality(Hits(place, r, M)) = Cardinality(Hits(place, q, M)) + Cardinality(A)
  BY <1>10, HitsAppendAll
<1>6. Cardinality(A) = IF e \in M THEN 1 ELSE 0
  <2>1. CASE e \in M
    BY <2>1, FS_Singleton, Zenon DEF A
  <2>2. CASE e \notin M
    BY <2>2, FS_EmptySet, Zenon DEF A
  <2> QED BY <2>1, <2>2
<1> QED BY <1>5, <1>6, Zenon

-----------------------------------------------------------------------------
\* Removing one element from one queue.
LEMMA HitsRemove ==
    ASSUME NEW place, NEW D, NEW S, NEW M, NEW q, NEW r, NEW x, NEW k, NEW e,
           Dequeued(D, S, q, r, x, k, e)
    PROVE  Cardinality(Hits(place, q, M)) =
               Cardinality(Hits(place, r, M)) + IF e \in M THEN 1 ELSE 0
<1> DEFINE up(j) == IF j < k THEN j ELSE j + 1
           H == Hits(place, q, M) \ {<<place, x, k>>}
           f == [p \in Hits(place, r, M) |-> IF p[2] = x THEN <<place, x, up(p[3])>> ELSE p]
<1>1. /\ r \in [D -> Seq(S)] /\ r[x] \in Seq(S) /\ \A y \in D : y # x => r[y] = q[y]
      /\ DOMAIN r = D /\ DOMAIN q = D /\ IsFiniteSet(D) /\ q \in [D -> Seq(S)]
      /\ x \in D /\ Removed(q[x], k, e, r[x])
  BY DEF Family, Dequeued
<1>0. PICK t \in Seq(S) : t = r[x]
  BY <1>1
<1>2. PICK n \in Nat : n = Len(q[x]) /\ DOMAIN q[x] = 1 .. n /\ DOMAIN t = 1 .. n - 1 /\ k \in 1 .. n
  <2>1. Len(q[x]) \in Nat /\ DOMAIN q[x] = 1 .. Len(q[x]) /\ DOMAIN t = 1 .. Len(t)
    BY <1>1, LenProperties
  <2> QED BY <1>0, <1>1, <2>1 DEF Removed
<1>3. \A j \in 1 .. n - 1 : t[j] = q[x][up(j)] /\ up(j) \in 1 .. n /\ up(j) # k
  BY <1>0, <1>1, <1>2 DEF Removed
<1>4. \A m \in 1 .. n : m # k => \E j \in 1 .. n - 1 : up(j) = m
  <2> SUFFICES ASSUME NEW m \in 1 .. n, m # k PROVE \E j \in 1 .. n - 1 : up(j) = m
    OBVIOUS
  <2>1. CASE m < k
    <3>1. m \in 1 .. n - 1 /\ up(m) = m
      BY <1>2, <2>1
    <3> QED BY <3>1
  <2>2. CASE m > k
    <3>1. m - 1 \in 1 .. n - 1 /\ up(m - 1) = m
      BY <1>2, <2>2
    <3> QED BY <3>1
  <2> QED BY <1>2, <2>1, <2>2
<1>5. \A j, m \in 1 .. n - 1 : up(j) = up(m) => j = m
  BY <1>2
<1> HIDE DEF up
<1>6. ASSUME NEW p \in Hits(place, r, M)
      PROVE  \E y \in D : \E j \in DOMAIN r[y] : p = <<place, y, j>> /\ r[y][j] \in M
  BY <1>1, InHits
<1>7. ASSUME NEW y \in D, NEW j \in DOMAIN r[y], r[y][j] \in M
      PROVE  /\ <<place, y, j>> \in Hits(place, r, M)
             /\ y = x => f[<<place, y, j>>] = <<place, x, up(j)>> /\ j \in 1 .. n - 1
             /\ y # x => f[<<place, y, j>>] = <<place, y, j>>
             /\ f[<<place, y, j>>] \in H
  <2>1. <<place, y, j>> \in Hits(place, r, M)
    BY <1>1, <1>7, AtHits
  <2>2. /\ y = x => f[<<place, y, j>>] = <<place, x, up(j)>>
        /\ y # x => f[<<place, y, j>>] = <<place, y, j>>
    BY <2>1
  <2>3. y = x => j \in 1 .. n - 1
    BY <1>0, <1>1, <1>2
  <2> HIDE DEF f
  <2>4. CASE y = x
    <3>1. q[x][up(j)] \in M /\ up(j) \in DOMAIN q[x] /\ up(j) # k
      BY <1>0, <1>1, <1>2, <1>3, <1>7, <2>3, <2>4
    <3>2. <<place, x, up(j)>> \in Hits(place, q, M)
      BY <1>1, <3>1, AtHits
    <3>3. <<place, x, up(j)>> # <<place, x, k>>
      BY <3>1, SamePosition, Zenon
    <3> QED BY <2>1, <2>2, <2>3, <2>4, <3>2, <3>3, Zenon
  <2>5. CASE y # x
    <3>1. q[y][j] \in M /\ j \in DOMAIN q[y]
      BY <1>1, <1>7, <2>5
    <3>2. <<place, y, j>> \in Hits(place, q, M)
      BY <1>1, <3>1, AtHits
    <3>3. <<place, y, j>> # <<place, x, k>>
      BY <2>5, SamePosition, Zenon
    <3> QED BY <2>1, <2>2, <2>3, <2>5, <3>2, <3>3, Zenon
  <2> QED BY <2>4, <2>5
<1>8. f \in [Hits(place, r, M) -> H]
  <2>1. \A p \in Hits(place, r, M) : f[p] \in H
    <3> HIDE DEF f, H
    <3> TAKE p \in Hits(place, r, M)
    <3>1. PICK y \in D : \E j \in DOMAIN r[y] : p = <<place, y, j>> /\ r[y][j] \in M
      BY <1>6
    <3>2. PICK j \in DOMAIN r[y] : p = <<place, y, j>> /\ r[y][j] \in M
      BY <3>1
    <3> QED BY <1>7, <3>2, Zenon
  <2> QED BY <2>1, Zenon
<1>9. ASSUME NEW h \in H PROVE \E p \in Hits(place, r, M) : f[p] = h
  <2> HIDE DEF f
  <2>1. PICK y \in D : \E m \in DOMAIN q[y] : q[y][m] \in M /\ h = <<place, y, m>>
    BY <1>1, InHits
  <2>2. PICK m \in DOMAIN q[y] : q[y][m] \in M /\ h = <<place, y, m>>
    BY <2>1
  <2>3. CASE y = x
    <3>1. m \in 1 .. n /\ m # k
      BY <1>2, <2>2, <2>3
    <3>2. PICK j \in 1 .. n - 1 : up(j) = m
      BY <1>4, <3>1
    <3>3. x \in D /\ j \in DOMAIN r[x] /\ r[x][j] \in M
      BY <1>0, <1>1, <1>2, <1>3, <2>2, <2>3, <3>2
    <3>4. <<place, x, j>> \in Hits(place, r, M) /\ f[<<place, x, j>>] = <<place, x, up(j)>>
      BY <1>7, <3>3, Zenon
    <3> QED BY <2>2, <2>3, <3>2, <3>4, Zenon
  <2>4. CASE y # x
    <3>1. m \in DOMAIN r[y] /\ r[y][m] \in M
      BY <1>1, <2>2, <2>4
    <3>2. <<place, y, m>> \in Hits(place, r, M) /\ f[<<place, y, m>>] = <<place, y, m>>
      BY <1>7, <2>4, <3>1, Zenon
    <3> QED BY <2>2, <3>2, Zenon
  <2> QED BY <2>3, <2>4
<1>10. ASSUME NEW p \in Hits(place, r, M), NEW o \in Hits(place, r, M), f[p] = f[o]
       PROVE  p = o
  <2> HIDE DEF f, H
  <2>1. PICK y \in D : \E j \in DOMAIN r[y] : p = <<place, y, j>> /\ r[y][j] \in M
    BY <1>6
  <2>11. PICK j \in DOMAIN r[y] : p = <<place, y, j>> /\ r[y][j] \in M
    BY <2>1
  <2>2. PICK z \in D : \E m \in DOMAIN r[z] : o = <<place, z, m>> /\ r[z][m] \in M
    BY <1>6
  <2>22. PICK m \in DOMAIN r[z] : o = <<place, z, m>> /\ r[z][m] \in M
    BY <2>2
  <2>3. CASE y = x /\ z = x
    <3>1. <<place, x, up(j)>> = <<place, x, up(m)>> /\ j \in 1 .. n - 1 /\ m \in 1 .. n - 1
      <4>1. f[p] = <<place, x, up(j)>> /\ j \in 1 .. n - 1
        BY <1>7, <2>11, <2>3, Zenon
      <4>2. f[o] = <<place, x, up(m)>> /\ m \in 1 .. n - 1
        BY <1>7, <2>22, <2>3, Zenon
      <4> QED BY <1>10, <4>1, <4>2, Zenon
    <3>2. up(j) = up(m)
      BY <3>1, SamePosition, Zenon
    <3> QED BY <1>5, <2>11, <2>22, <2>3, <3>1, <3>2, Zenon
  <2>4. CASE y = x /\ z # x
    <3>1. <<place, x, up(j)>> = <<place, z, m>>
      BY <1>7, <1>10, <2>11, <2>22, <2>4, Zenon
    <3> QED BY <2>4, <3>1, SamePosition, Zenon
  <2>5. CASE y # x /\ z = x
    <3>1. <<place, y, j>> = <<place, x, up(m)>>
      BY <1>7, <1>10, <2>11, <2>22, <2>5, Zenon
    <3> QED BY <2>5, <3>1, SamePosition, Zenon
  <2>6. CASE y # x /\ z # x
    BY <1>7, <1>10, <2>11, <2>22, <2>6, Zenon
  <2> QED BY <2>3, <2>4, <2>5, <2>6
<1> HIDE DEF f
<1>11. IsFiniteSet(Hits(place, r, M)) /\ Cardinality(Hits(place, r, M)) \in Nat
  BY <1>1, HitsFinite
<1>12. Cardinality(H) = Cardinality(Hits(place, r, M))
  <2> HIDE DEF H
  <2> QED BY <1>8, <1>9, <1>10, <1>11, SameCount
<1>13. IsFiniteSet(Hits(place, q, M)) /\ Cardinality(Hits(place, q, M)) \in Nat
  BY <1>1, HitsFinite
<1>14. Cardinality(H) = IF <<place, x, k>> \in Hits(place, q, M)
                        THEN Cardinality(Hits(place, q, M)) - 1
                        ELSE Cardinality(Hits(place, q, M))
  BY <1>13, FS_RemoveElement
<1>15. <<place, x, k>> \in Hits(place, q, M) <=> q[x][k] \in M
  BY <1>1, <1>2, AtHits
<1> HIDE DEF H
<1>16. Cardinality(Hits(place, q, M)) =
          Cardinality(Hits(place, r, M)) + IF q[x][k] \in M THEN 1 ELSE 0
  BY <1>11, <1>12, <1>13, <1>14, <1>15
<1> QED BY <1>1, <1>16 DEF Removed

-----------------------------------------------------------------------------
\* The positions of one queue are as many as it has elements of M.
LEMMA ColumnCount ==
    ASSUME NEW place, NEW q, NEW x, NEW M, NEW S, q[x] \in Seq(S)
    PROVE  /\ IsFiniteSet(Column(place, q, x, M))
           /\ Cardinality(Column(place, q, x, M)) = Count(q[x], M)
           /\ Count(q[x], M) \in Nat
<1> DEFINE K == {k \in DOMAIN q[x] : q[x][k] \in M}
           f == [k \in K |-> <<place, x, k>>]
<1>1. IsFiniteSet(K)
  <2>1. DOMAIN q[x] = 1 .. Len(q[x]) /\ Len(q[x]) \in Nat
    BY LenProperties
  <2>2. IsFiniteSet(1 .. Len(q[x]))
    BY <2>1, FS_Interval
  <2>3. K \in SUBSET (1 .. Len(q[x]))
    BY <2>1
  <2> QED BY <2>2, <2>3, FS_Subset
<1>2. f \in [K -> Column(place, q, x, M)]
  BY Zenon DEF Column
<1>3. \A p \in Column(place, q, x, M) : \E k \in K : f[k] = p
  BY Zenon DEF Column
<1>4. \A j, k \in K : f[j] = f[k] => j = k
  BY SamePosition, Zenon
<1>5. Count(q[x], M) = Cardinality(K)
  BY Zenon DEF Count
<1> HIDE DEF K, f
<1>6. IsFiniteSet(Column(place, q, x, M)) /\ Cardinality(Column(place, q, x, M)) = Cardinality(K)
  BY <1>1, <1>2, <1>3, <1>4, SameCount
<1>7. Cardinality(K) \in Nat
  BY <1>1, FS_CardinalityType
<1> QED BY <1>5, <1>6, <1>7, Zenon

\* A queue put where there was none adds its elements.
LEMMA HitsFill ==
    ASSUME NEW place, NEW D, NEW E, NEW S, NEW M, NEW q, NEW r, NEW x,
           Filled(D, E, S, q, r, x)
    PROVE  /\ Cardinality(Hits(place, r, M)) = Cardinality(Hits(place, q, M)) + Count(r[x], M)
           /\ Count(r[x], M) \in Nat
<1>1. /\ DOMAIN q = D /\ DOMAIN r = E /\ IsFiniteSet(D) /\ \A y \in D : q[y] \in Seq(S)
      /\ x \in E /\ E = D \cup {x} /\ (x \in D => q[x] = <<>>) /\ r[x] \in Seq(S)
      /\ \A y \in D : y # x => r[y] = q[y]
  BY DEF Filled, Family
<1> DEFINE C == Column(place, r, x, M)
<1>2. Hits(place, r, M) = Hits(place, q, M) \cup C
  <2>1. ASSUME NEW p \in Hits(place, r, M) PROVE p \in Hits(place, q, M) \cup C
    <3>1. PICK y \in E : \E k \in DOMAIN r[y] : r[y][k] \in M /\ p = <<place, y, k>>
      BY <1>1, InHits
    <3>2. PICK k \in DOMAIN r[y] : r[y][k] \in M /\ p = <<place, y, k>>
      BY <3>1
    <3>3. CASE y = x
      BY <3>2, <3>3, InColumn, Zenon
    <3>4. CASE y # x
      <4>1. y \in D /\ r[y] = q[y]
        BY <1>1, <3>4
      <4>2. <<place, y, k>> \in Hits(place, q, M)
        BY <1>1, <3>2, <4>1, AtHits
      <4> QED BY <3>2, <4>2, Zenon
    <3> QED BY <3>3, <3>4
  <2>2. ASSUME NEW p \in Hits(place, q, M) PROVE p \in Hits(place, r, M)
    <3>1. PICK y \in D : \E k \in DOMAIN q[y] : q[y][k] \in M /\ p = <<place, y, k>>
      BY <1>1, InHits
    <3>2. PICK k \in DOMAIN q[y] : q[y][k] \in M /\ p = <<place, y, k>>
      BY <3>1
    <3>3. y # x
      BY <1>1, <3>2
    <3>4. <<place, y, k>> \in Hits(place, r, M)
      BY <1>1, <3>2, <3>3, AtHits
    <3> QED BY <3>2, <3>4, Zenon
  <2>3. ASSUME NEW p \in C PROVE p \in Hits(place, r, M)
    BY <1>1, Zenon DEF Hits
  <2> QED BY <2>1, <2>2, <2>3, Zenon
<1>3. Hits(place, q, M) \cap C = {}
  <2> SUFFICES ASSUME NEW p \in C, p \in Hits(place, q, M) PROVE FALSE
    BY Zenon
  <2>1. PICK k \in DOMAIN r[x] : p = <<place, x, k>>
    <3>1. \E k \in DOMAIN r[x] : r[x][k] \in M /\ p = <<place, x, k>>
      BY InColumn
    <3> QED BY <3>1
  <2>2. <<place, x, k>> \in Hits(place, q, M)
    BY <2>1, Zenon
  <2>3. x \in D /\ k \in DOMAIN q[x]
    BY <1>1, <2>2, AtHits
  <2> QED BY <1>1, <2>3
<1>4. IsFiniteSet(Hits(place, q, M))
  BY <1>1, HitsFinite
<1>5. IsFiniteSet(C) /\ Cardinality(C) = Count(r[x], M) /\ Count(r[x], M) \in Nat
  BY <1>1, ColumnCount
<1> HIDE DEF C
<1>6. Cardinality(Hits(place, q, M) \cup C) = Cardinality(Hits(place, q, M)) + Cardinality(C)
  BY <1>3, <1>4, <1>5, DisjointCount
<1> QED BY <1>2, <1>5, <1>6, Zenon

\* r is the family q of queues 1 .. n without the empty queue m.
Skipped(n, S, q, r, m) ==
    /\ n \in Nat /\ m \in 1 .. n
    /\ Family(1 .. n, S, q) /\ Family(1 .. n - 1, S, r)
    /\ q[m] = <<>>
    /\ \A j \in 1 .. n - 1 : r[j] = IF j < m THEN q[j] ELSE q[j + 1]

\* Taking an empty queue out of the family moves the others up.
LEMMA HitsSkip ==
    ASSUME NEW place, NEW n, NEW S, NEW M, NEW q, NEW r, NEW m, Skipped(n, S, q, r, m)
    PROVE  Cardinality(Hits(place, r, M)) = Cardinality(Hits(place, q, M))
<1> DEFINE up(j) == IF j < m THEN j ELSE j + 1
           f == [p \in Hits(place, r, M) |-> <<place, up(p[2]), p[3]>>]
<1>1. /\ n \in Nat /\ m \in 1 .. n /\ DOMAIN q = 1 .. n /\ DOMAIN r = 1 .. n - 1
      /\ IsFiniteSet(1 .. n - 1) /\ (\A j \in 1 .. n - 1 : r[j] \in Seq(S))
      /\ DOMAIN q[m] = {}
  BY DEF Skipped, Family
<1>2. \A j \in 1 .. n - 1 : up(j) \in 1 .. n /\ r[j] = q[up(j)]
  BY DEF Skipped
<1>3. \A h \in 1 .. n : h # m => \E j \in 1 .. n - 1 : up(j) = h
  <2> SUFFICES ASSUME NEW h \in 1 .. n, h # m PROVE \E j \in 1 .. n - 1 : up(j) = h
    OBVIOUS
  <2>1. CASE h < m
    <3>1. h \in 1 .. n - 1 /\ up(h) = h
      BY <1>1, <2>1
    <3> QED BY <3>1
  <2>2. CASE h > m
    <3>1. h - 1 \in 1 .. n - 1 /\ up(h - 1) = h
      BY <1>1, <2>2
    <3> QED BY <3>1
  <2> QED BY <1>1, <2>1, <2>2
<1>4. \A j, h \in 1 .. n - 1 : up(j) = up(h) => j = h
  BY <1>1
<1> HIDE DEF up
<1>5. ASSUME NEW p \in Hits(place, r, M)
      PROVE  \E y \in 1 .. n - 1 : \E k \in DOMAIN r[y] : p = <<place, y, k>> /\ r[y][k] \in M
  BY <1>1, InHits
<1>6. ASSUME NEW y \in 1 .. n - 1, NEW k \in DOMAIN r[y], r[y][k] \in M
      PROVE  /\ <<place, y, k>> \in Hits(place, r, M)
             /\ f[<<place, y, k>>] = <<place, up(y), k>>
             /\ f[<<place, y, k>>] \in Hits(place, q, M)
  <2>1. <<place, y, k>> \in Hits(place, r, M)
    BY <1>1, <1>6, AtHits
  <2>2. f[<<place, y, k>>] = <<place, up(y), k>>
    BY <2>1
  <2>3. up(y) \in DOMAIN q /\ k \in DOMAIN q[up(y)] /\ q[up(y)][k] \in M
    BY <1>1, <1>2, <1>6
  <2>4. <<place, up(y), k>> \in Hits(place, q, M)
    BY <2>3, AtHits
  <2> QED BY <2>1, <2>2, <2>4, Zenon
<1>7. f \in [Hits(place, r, M) -> Hits(place, q, M)]
  <2>1. \A p \in Hits(place, r, M) : f[p] \in Hits(place, q, M)
    <3> HIDE DEF f
    <3> TAKE p \in Hits(place, r, M)
    <3>1. PICK y \in 1 .. n - 1 : \E k \in DOMAIN r[y] : p = <<place, y, k>> /\ r[y][k] \in M
      BY <1>5
    <3>2. PICK k \in DOMAIN r[y] : p = <<place, y, k>> /\ r[y][k] \in M
      BY <3>1
    <3> QED BY <1>6, <3>2, Zenon
  <2> QED BY <2>1, Zenon
<1> HIDE DEF f
<1>8. ASSUME NEW h \in Hits(place, q, M) PROVE \E p \in Hits(place, r, M) : f[p] = h
  <2>1. PICK z \in 1 .. n : \E k \in DOMAIN q[z] : q[z][k] \in M /\ h = <<place, z, k>>
    BY <1>1, InHits
  <2>2. PICK k \in DOMAIN q[z] : q[z][k] \in M /\ h = <<place, z, k>>
    BY <2>1
  <2>3. PICK j \in 1 .. n - 1 : up(j) = z
    BY <1>1, <1>3, <2>2
  <2>4. k \in DOMAIN r[j] /\ r[j][k] \in M
    BY <1>2, <2>2, <2>3
  <2>5. <<place, j, k>> \in Hits(place, r, M) /\ f[<<place, j, k>>] = <<place, up(j), k>>
    BY <1>6, <2>4, Zenon
  <2> QED BY <2>2, <2>3, <2>5, Zenon
<1>9. ASSUME NEW p \in Hits(place, r, M), NEW o \in Hits(place, r, M), f[p] = f[o]
      PROVE  p = o
  <2>1. PICK y \in 1 .. n - 1 : \E k \in DOMAIN r[y] : p = <<place, y, k>> /\ r[y][k] \in M
    BY <1>5
  <2>2. PICK k \in DOMAIN r[y] : p = <<place, y, k>> /\ r[y][k] \in M
    BY <2>1
  <2>3. PICK z \in 1 .. n - 1 : \E j \in DOMAIN r[z] : o = <<place, z, j>> /\ r[z][j] \in M
    BY <1>5
  <2>4. PICK j \in DOMAIN r[z] : o = <<place, z, j>> /\ r[z][j] \in M
    BY <2>3
  <2>5. f[p] = <<place, up(y), k>>
    BY <1>6, <2>2, Zenon
  <2>6. f[o] = <<place, up(z), j>>
    BY <1>6, <2>4, Zenon
  <2>7. up(y) = up(z) /\ k = j
    <3>1. <<place, up(y), k>> = <<place, up(z), j>>
      BY <1>9, <2>5, <2>6, Zenon
    <3> QED BY <3>1, SamePosition, Zenon
  <2> QED BY <1>4, <2>2, <2>4, <2>7, Zenon
<1>10. IsFiniteSet(Hits(place, r, M))
  BY <1>1, HitsFinite
<1> QED BY <1>7, <1>8, <1>9, <1>10, SameCount

-----------------------------------------------------------------------------
(***************************************************************************)
(* One queue is a family of one.                                           *)
(***************************************************************************)
LEMMA HitsOne ==
    ASSUME NEW S, NEW M, NEW s, NEW q, s \in Seq(S), q = [x \in {0} |-> s]
    PROVE  /\ Family({0}, S, q) /\ q[0] = s
           /\ Cardinality(Hits(0, q, M)) = Count(s, M)
           /\ Count(s, M) \in Nat
<1>1. Family({0}, S, q) /\ q[0] = s /\ DOMAIN q = {0}
  BY FS_Singleton DEF Family
<1>2. Hits(0, q, M) = Column(0, q, 0, M)
  BY <1>1, Zenon DEF Hits
<1>3. Cardinality(Column(0, q, 0, M)) = Count(q[0], M) /\ Count(q[0], M) \in Nat
  BY <1>1, ColumnCount
<1> QED BY <1>1, <1>2, <1>3, Zenon

\* The same for a single queue.
LEMMA CountAppend ==
    ASSUME NEW S, NEW M, NEW s, NEW e, NEW t,
           s \in Seq(S), e \in S, t \in Seq(S), Appended(s, e, t)
    PROVE  Count(t, M) = Count(s, M) + IF e \in M THEN 1 ELSE 0
<1> DEFINE q == [x \in {0} |-> s]
           r == [x \in {0} |-> t]
<1>1. /\ Family({0}, S, q) /\ Family({0}, S, r) /\ q[0] = s /\ r[0] = t
      /\ Cardinality(Hits(0, q, M)) = Count(s, M)
      /\ Cardinality(Hits(0, r, M)) = Count(t, M)
  BY HitsOne
<1>2. Enqueued({0}, S, q, r, 0, e)
  BY <1>1 DEF Enqueued
<1> HIDE DEF q, r
<1>4. Cardinality(Hits(0, r, M)) = Cardinality(Hits(0, q, M)) + IF e \in M THEN 1 ELSE 0
  BY <1>2, HitsAppend
<1> QED BY <1>1, <1>4, Zenon

\* The same for a single queue.
LEMMA CountRemove ==
    ASSUME NEW S, NEW M, NEW s, NEW k, NEW e, NEW t,
           s \in Seq(S), t \in Seq(S), Removed(s, k, e, t)
    PROVE  Count(s, M) = Count(t, M) + IF e \in M THEN 1 ELSE 0
<1> DEFINE q == [x \in {0} |-> s]
           r == [x \in {0} |-> t]
<1>1. /\ Family({0}, S, q) /\ Family({0}, S, r) /\ q[0] = s /\ r[0] = t
      /\ Cardinality(Hits(0, q, M)) = Count(s, M)
      /\ Cardinality(Hits(0, r, M)) = Count(t, M)
  BY HitsOne
<1>2. Dequeued({0}, S, q, r, 0, k, e)
  BY <1>1 DEF Dequeued
<1> HIDE DEF q, r
<1>4. Cardinality(Hits(0, q, M)) = Cardinality(Hits(0, r, M)) + IF e \in M THEN 1 ELSE 0
  BY <1>2, HitsRemove
<1> QED BY <1>1, <1>4, Zenon
=============================================================================
