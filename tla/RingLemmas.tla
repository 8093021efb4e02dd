----------------------------- MODULE RingLemmas -----------------------------
(***************************************************************************)
(* Arithmetic of ring positions: the Lse and the memory system keep a      *)
(* queue in an array and advance its pointers by (p + 1) % size.  A ring   *)
(* position is the number of an entry modulo the size of the ring.         *)
(***************************************************************************)
EXTENDS Integers, FiniteSets, TLAPS, FiniteSetTheorems, FunctionTheorems

\* Quotient and remainder.
LEMMA ModDivision ==
    ASSUME NEW n \in Nat \ {0}, NEW a \in Nat
    PROVE  /\ a % n \in 0 .. n - 1 /\ a \div n \in Nat
           /\ a = n * (a \div n) + (a % n)
OBVIOUS

\* The remainder is determined by any such decomposition.
LEMMA ModUnique ==
    ASSUME NEW n \in Nat \ {0}, NEW q \in Int, NEW r \in 0 .. n - 1
    PROVE  (n * q + r) % n = r
OBVIOUS

\* A full turn of the ring comes back to the same position.
LEMMA ModPeriod ==
    ASSUME NEW n \in Nat \ {0}, NEW a \in Nat
    PROVE  (a + n) % n = a % n
<1> DEFINE q == a \div n
           r == a % n
<1>1. r \in 0 .. n - 1 /\ q \in Nat /\ a = n * q + r
  BY ModDivision
<1> HIDE DEF q, r
<1>2. n * (q + 1) + r = n * q + r + n
  BY <1>1
<1>3. (n * (q + 1) + r) % n = r
  BY <1>1, ModUnique
<1>4. a + n = n * (q + 1) + r
  BY <1>1, <1>2
<1>5. (a + n) % n = r
  BY <1>3, <1>4, Zenon
<1> QED BY <1>5 DEF r

\* Advancing a pointer is counting one further.
LEMMA ModSucc ==
    ASSUME NEW n \in Nat \ {0}, NEW a \in Nat
    PROVE  ((a % n) + 1) % n = (a + 1) % n
<1> DEFINE q == a \div n
           r == a % n
<1>1. r \in 0 .. n - 1 /\ q \in Nat /\ a = n * q + r
  BY ModDivision
<1> SUFFICES (r + 1) % n = (a + 1) % n
  OBVIOUS
<1> HIDE DEF q, r
<1>2. CASE r + 1 < n
  <2>1. (n * q + (r + 1)) % n = r + 1 /\ (n * 0 + (r + 1)) % n = r + 1
    BY <1>1, <1>2, ModUnique
  <2>2. a + 1 = n * q + (r + 1) /\ n * 0 + (r + 1) = r + 1
    BY <1>1
  <2> QED BY <2>1, <2>2, Zenon
<1>3. CASE r + 1 = n
  <2>1. (n * (q + 1) + 0) % n = 0 /\ (n * 1 + 0) % n = 0
    BY <1>1, ModUnique
  <2>2. n * (q + 1) = n * q + n
    BY <1>1
  <2>3. a + 1 = n * (q + 1) + 0 /\ n * 1 + 0 = r + 1
    BY <1>1, <1>3, <2>2
  <2> QED BY <2>1, <2>3, Zenon
<1> QED BY <1>1, <1>2, <1>3

\* Entries less than a turn apart are at different positions.
LEMMA ModDistinct ==
    ASSUME NEW n \in Nat \ {0}, NEW a \in Nat, NEW b \in Nat, a < b, b - a < n
    PROVE  a % n # b % n
<1> SUFFICES ASSUME a % n = b % n PROVE FALSE
  OBVIOUS
<1> DEFINE q == a \div n
           p == b \div n
           r == a % n
<1>1. r \in 0 .. n - 1 /\ q \in Nat /\ a = n * q + r
  BY ModDivision
<1>2. p \in Nat /\ b = n * p + r
  BY ModDivision
<1> HIDE DEF q, p, r
<1>3. n * (p - q) = n * p - n * q
  BY <1>1, <1>2
<1>4. n * (p - q) = b - a
  BY <1>1, <1>2, <1>3
<1>5. PICK d \in Int : d = p - q
  BY <1>1, <1>2
<1>6. n * d > 0 /\ n * d < n
  BY <1>4, <1>5
<1>7. d <= 0 => n * d <= 0
  BY <1>5
<1>8. d >= 1 => n * d >= n
  BY <1>5
<1> QED BY <1>5, <1>6, <1>7, <1>8

\* Going back d positions, d at most a turn, and then j forward again.
LEMMA ModBack ==
    ASSUME NEW n \in Nat \ {0}, NEW a \in Nat, NEW d \in 0 .. n, d <= a, NEW j \in Nat
    PROVE  ((a % n) + n - d + j) % n = (a - d + j) % n
<1> DEFINE q == a \div n
           r == a % n
           x == r + n - d + j
<1>1. r \in 0 .. n - 1 /\ q \in Nat /\ a = n * q + r
  BY ModDivision
<1>2. x \in Nat
  BY <1>1
<1> HIDE DEF q, r, x
<1> DEFINE p == x \div n
           t == x % n
<1>3. t \in 0 .. n - 1 /\ p \in Nat /\ x = n * p + t
  BY <1>2, ModDivision
<1> HIDE DEF p, t
<1>4. n * (q + p - 1) = n * q + n * p - n
  BY <1>1, <1>3
<1>5. a - d + j = n * (q + p - 1) + t
  BY <1>1, <1>3, <1>4 DEF x
<1>6. (n * (q + p - 1) + t) % n = t
  BY <1>1, <1>3, ModUnique
<1>7. (a - d + j) % n = x % n
  BY <1>5, <1>6 DEF t
<1> QED BY <1>7 DEF x, r

\* The positions of numbers less than a turn apart are as many as the numbers.
LEMMA ModCount ==
    ASSUME NEW n \in Nat \ {0}, NEW a \in Nat, NEW b \in Nat, a <= b, b <= a + n
    PROVE  LET S == {k % n : k \in a .. b - 1}
           IN  IsFiniteSet(S) /\ Cardinality(S) = b - a
<1> DEFINE S == {k % n : k \in a .. b - 1}
           f == [k \in a .. b - 1 |-> k % n]
<1>1. f \in [a .. b - 1 -> S] /\ \A t \in S : \E k \in a .. b - 1 : f[k] = t
  OBVIOUS
<1>2. ASSUME NEW k \in a .. b - 1, NEW l \in a .. b - 1, f[k] = f[l]
      PROVE  k = l
  <2>1. k \in Nat /\ l \in Nat /\ k - l < n /\ l - k < n
    OBVIOUS
  <2>2. ~(k < l) /\ ~(l < k)
    BY <1>2, <2>1, ModDistinct
  <2> QED BY <2>1, <2>2
<1> HIDE DEF f, S
<1>3. f \in Bijection(a .. b - 1, S)
  BY <1>1, <1>2, Fun_IsBij
<1>4. ExistsBijection(a .. b - 1, S)
  BY <1>3, Fun_ExistsBij
<1>5. IsFiniteSet(a .. b - 1) /\ Cardinality(a .. b - 1) = b - a
  <2>1. a \in Int /\ b - 1 \in Int
    OBVIOUS
  <2>2. /\ IsFiniteSet(a .. b - 1)
        /\ Cardinality(a .. b - 1) = IF a > b - 1 THEN 0 ELSE (b - 1) - a + 1
    BY <2>1, FS_Interval
  <2> QED BY <2>2
<1>6. IsFiniteSet(S) /\ Cardinality(S) = b - a
  BY <1>4, <1>5, FS_Bijection
<1> QED BY <1>6 DEF S
=============================================================================
