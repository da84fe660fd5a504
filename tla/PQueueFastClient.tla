-------------------------- MODULE PQueueFastClient --------------------------
(***************************************************************************)
(* Any sequence of legal calls on one p_queue_fast.  inserted follows the   *)
(* same calls on a p_queue (milena/mln/core/site_set/p_queue.hh), which     *)
(* keeps its sites in a std::deque: the documentation of the two queues is  *)
(* the same.                                                                *)
(***************************************************************************)
EXTENDS PQueueFast

CONSTANTS
    Elem,      \* sites
    MaxCells   \* bound on the cells of the vector

ASSUME MaxCellsAssumption == MaxCells \in Nat

VARIABLES
    queue,     \* the p_queue_fast
    inserted,  \* the std::deque of the p_queue
    cleared    \* has clear() been called?

vars == <<queue, inserted, cleared>>

Init ==
    /\ queue = EmptyQueue
    /\ inserted = <<>>
    /\ cleared = FALSE

Push(e) ==
    /\ Len(queue.q) < MaxCells
    /\ queue' = QueuePush(queue, e)
    /\ inserted' = Append(inserted, e)
    /\ UNCHANGED cleared

Pop ==
    /\ ~ QueueIsEmpty(queue)
    /\ queue' = QueuePop(queue)
    /\ inserted' = Tail(inserted)
    /\ UNCHANGED cleared

Purge ==
    /\ queue' = QueuePurge(queue)
    /\ UNCHANGED <<inserted, cleared>>

Clear ==
    /\ queue' = QueueClear(queue)
    /\ inserted' = <<>>
    /\ cleared' = TRUE

Next == (\E e \in Elem : Push(e)) \/ Purge \/ Pop \/ Clear

Spec == Init /\ [][Next]_vars

-----------------------------------------------------------------------------

TypeOK ==
    /\ queue \in [q : Seq(Elem), begin : Nat, end : Nat]
    /\ inserted \in Seq(Elem)
    /\ cleared \in BOOLEAN

\* front(), operator[] and purge() never read past the vector, and nsites()
\* never underflows, whatever was pushed, popped, purged and cleared before.
InRange == queue.begin <= queue.end /\ queue.end <= Len(queue.q)

\* The queue counts its sites right, so that it is empty when it should be:
\* every legal pop finds a site.
CountsSites == QueueNsites(queue) = Len(inserted)

\* Pop, push and purge in any order keep the sites in the order they were
\* inserted in, as long as the queue is not cleared.
FifoUntilCleared == ~ cleared => QueueSites(queue) = inserted

\* "Give the front site p of the queue; p is the least recently inserted
\* site" (p_queue_fast.hh, lines 132-133).
FrontIsLeastRecent ==
    ~ QueueIsEmpty(queue) => QueueFront(queue) = Head(inserted)
=============================================================================
