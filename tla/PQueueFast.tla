----------------------------- MODULE PQueueFast -----------------------------
(***************************************************************************)
(* The queue of sites of milena/mln/core/site_set/p_queue_fast.hh: a vector *)
(* that only grows, and the indices of its first live cell and of the cell  *)
(* after its last one.  A queue is the record [q, begin, end].              *)
(***************************************************************************)
EXTENDS Integers, Sequences

EmptyQueue == [q |-> <<>>, begin |-> 0, end |-> 0]

QueueNsites(Q) == Q.end - Q.begin
QueueIsEmpty(Q) == Q.end = Q.begin

\* operator[] and front() index the vector, wherever end_ is.
QueueAt(Q, k) == Q.q[Q.begin + k + 1]
QueueFront(Q) == QueueAt(Q, 0)

\* The sites an iteration over the queue yields.
QueueSites(Q) == [k \in 1..QueueNsites(Q) |-> QueueAt(Q, k - 1)]

QueueHas(Q, e) == \E k \in 1..QueueNsites(Q) : QueueAt(Q, k - 1) = e

QueuePush(Q, e) == [q |-> Append(Q.q, e), begin |-> Q.begin, end |-> Q.end + 1]
QueuePop(Q) == [Q EXCEPT !.begin = @ + 1]

\* Mutant: the live sites are not moved down.
QueuePurgeNoCopy(Q) ==
    [q |-> SubSeq(Q.q, 1, QueueNsites(Q)), begin |-> 0, end |-> QueueNsites(Q)]

QueuePurge(Q) == [q |-> QueueSites(Q), begin |-> 0, end |-> QueueNsites(Q)]

\* Mutants: end_ restarts from 0; clear() resets the vector but not begin_.
QueueClearEnd(Q) == [Q EXCEPT !.end = 0]
QueueClearVector(Q) == [Q EXCEPT !.q = <<>>, !.end = Q.begin]

QueueClear(Q) == [Q EXCEPT !.end = Q.begin]

\* What the containers that hold queues insert: each site of T in turn.
QueuePushAll(Q, T) ==
    [q |-> Q.q \o T, begin |-> Q.begin, end |-> Q.end + Len(T)]
=============================================================================
