------------------------------ MODULE MemPort ------------------------------
(***************************************************************************)
(* What a load/store element (Lse) and the memory system behind it promise *)
(* each other and the dataflow graph: a port that accepts a bounded number *)
(* of requests, has each of them answered once, in any order, and hands    *)
(* them on in the order in which they were accepted.  Lse and MemSystem    *)
(* are both shown to implement it.                                         *)
(***************************************************************************)
EXTENDS Naturals, Sequences

CONSTANTS
    Capacity,   \* slots of the element's reqQueue
    Req         \* requests

VARIABLE queue  \* accepted and not yet handed on, oldest first

Init == queue = <<>>

Accept(r) ==
    /\ Len(queue) < Capacity
    /\ queue' = Append(queue, [req |-> r, answered |-> FALSE])

Answer(k) ==
    /\ ~queue[k].answered
    /\ queue' = [queue EXCEPT ![k].answered = TRUE]

HandOn ==
    /\ queue # <<>> /\ Head(queue).answered
    /\ queue' = Tail(queue)

Next ==
    \/ \E r \in Req : Accept(r)
    \/ \E k \in DOMAIN queue : Answer(k)
    \/ HandOn

Spec == Init /\ [][Next]_queue

=============================================================================
