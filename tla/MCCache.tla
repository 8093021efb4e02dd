------------------------------ MODULE MCCache ------------------------------
(* Instances of Cache for TLC: per-level parameters. *)
EXTENDS Cache, TLC

\* One level, or two levels of equal shape.
Ones == [l \in Levels |-> 1]
Twos == [l \in Levels |-> 2]
TwoThenOne == [l \in Levels |-> IF l = 0 THEN 2 ELSE 1]
Zeros == [l \in Levels |-> 0]

\* The requests are interchangeable.
Symmetry == Permutations(Reqs)

=============================================================================
