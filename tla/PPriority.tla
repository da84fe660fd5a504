------------------------------ MODULE PPriority ------------------------------
(***************************************************************************)
(* The priority queue of milena/mln/core/site_set/p_priority.hh over the    *)
(* queues of PQueueFast, as p_priority<V, p_queue_fast<P> >: the set p of    *)
(* the priorities in use, one queue q[v] for each of them, and the count n.  *)
(***************************************************************************)
EXTENDS PQueueFast, FiniteSetsExt, TLC

EmptyPriority == [p |-> {}, q |-> <<>>, n |-> 0]

PriorityIsEmpty(Pq) == Pq.n = 0

\* std::map::operator[] creates the entry it does not find.
QueueOf(Pq, v) == IF v \in DOMAIN Pq.q THEN Pq.q[v] ELSE EmptyQueue

SetQueue(Pq, v, Q) == [w \in DOMAIN Pq.q \cup {v} |-> IF w = v THEN Q ELSE Pq.q[w]]
EraseQueue(Pq, v) == [w \in DOMAIN Pq.q \ {v} |-> Pq.q[w]]

HighestPriority(Pq) == Max(Pq.p)
LowestPriority(Pq) == Min(Pq.p)

PriorityPush(Pq, v, e) ==
    [p |-> Pq.p \cup {v},
     q |-> SetQueue(Pq, v, QueuePush(QueueOf(Pq, v), e)),
     n |-> Pq.n + 1]

\* Mutant: an existing queue is replaced.
PriorityInsertReplaces(Pq, other) ==
    [p |-> Pq.p \cup DOMAIN other.q, q |-> other.q @@ Pq.q, n |-> Pq.n + other.n]

\* Each queue of other is added, in its order, to the queue of its priority.
PriorityInsert(Pq, other) ==
    [p |-> Pq.p \cup DOMAIN other.q,
     q |-> [v \in DOMAIN Pq.q \cup DOMAIN other.q |->
              IF v \in DOMAIN other.q
                THEN QueuePushAll(QueueOf(Pq, v), QueueSites(other.q[v]))
                ELSE Pq.q[v]],
     n |-> Pq.n + other.n]

\* pop() once the priority is chosen: the queue it empties is erased.
PopAt(Pq, prior) ==
    LET Q == QueuePop(Pq.q[prior])
    IN IF QueueIsEmpty(Q)
         THEN [p |-> Pq.p \ {prior}, q |-> EraseQueue(Pq, prior), n |-> Pq.n - 1]
         ELSE [p |-> Pq.p, q |-> SetQueue(Pq, prior, Q), n |-> Pq.n - 1]

\* Mutants: the lowest priority is popped; an emptied queue stays.
PriorityPopLowest(Pq) == PopAt(Pq, LowestPriority(Pq))
PriorityPopKeepsQueue(Pq) ==
    [Pq EXCEPT !.q[HighestPriority(Pq)] = QueuePop(@), !.n = @ - 1]

PriorityPop(Pq) == PopAt(Pq, HighestPriority(Pq))

PriorityFront(Pq) == QueueFront(Pq.q[HighestPriority(Pq)])

\* The queue at priority v, an empty one when v is not in use.
PriorityAt(Pq, v) == IF v \in Pq.p THEN Pq.q[v] ELSE EmptyQueue

\* run_(), asserted before and after each call, and the assertion of
\* operator(): the two containers agree and hold no empty queue.
PriorityRun(Pq) ==
    /\ Pq.n = 0 => Pq.p = {}
    /\ Pq.p = DOMAIN Pq.q
    /\ \A v \in Pq.p : QueueNsites(PriorityAt(Pq, v)) > 0
=============================================================================
