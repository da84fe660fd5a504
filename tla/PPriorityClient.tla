-------------------------- MODULE PPriorityClient ---------------------------
(***************************************************************************)
(* Any sequence of legal calls on a few p_priority objects, one of which    *)
(* may be inserted into another.  log[o] is the abstract state of o: the    *)
(* pairs inserted in o and not popped yet, least recent first.              *)
(***************************************************************************)
EXTENDS PPriority, SequencesExt

CONSTANTS
    Obj,       \* the priority queues
    Prio,      \* priorities
    Elem,      \* sites
    MaxLog,    \* bound on the elements of an object
    MaxCells   \* bound on the cells of one of its queues

VARIABLES
    pq,        \* pq[o]: the p_priority
    log        \* log[o]: what it stands for

vars == <<pq, log>>

Init ==
    /\ pq = [o \in Obj |-> EmptyPriority]
    /\ log = [o \in Obj |-> <<>>]

Fits(o, v, m) ==
    /\ Len(log[o]) + m <= MaxLog
    /\ Len(QueueOf(pq[o], v).q) + m <= MaxCells

Push(o, v, e) ==
    /\ Fits(o, v, 1)
    /\ pq' = [pq EXCEPT ![o] = PriorityPush(@, v, e)]
    /\ log' = [log EXCEPT ![o] = Append(@, <<v, e>>)]

Insert(o, other) ==
    /\ o # other
    /\ \A v \in Prio : Fits(o, v, Len(log[other]))
    /\ pq' = [pq EXCEPT ![o] = PriorityInsert(@, pq[other])]
    /\ log' = [log EXCEPT ![o] = @ \o log[other]]

\* The pair to serve: among the highest priorities, the least recent.
IsServed(o, k) ==
    /\ \A j \in 1..Len(log[o]) : log[o][j][1] <= log[o][k][1]
    /\ \A j \in 1..(k - 1) : log[o][j][1] < log[o][k][1]
Served(o) == CHOOSE k \in 1..Len(log[o]) : IsServed(o, k)

Pop(o) ==
    /\ ~ PriorityIsEmpty(pq[o])
    /\ pq' = [pq EXCEPT ![o] = PriorityPop(@)]
    /\ log' = [log EXCEPT ![o] = RemoveAt(@, Served(o))]

Clear(o) ==
    /\ pq' = [pq EXCEPT ![o] = EmptyPriority]
    /\ log' = [log EXCEPT ![o] = <<>>]

Next ==
    \E o \in Obj :
       \/ \E v \in Prio, e \in Elem : Push(o, v, e)
       \/ \E other \in Obj : Insert(o, other)
       \/ Pop(o)
       \/ Clear(o)

Spec == Init /\ [][Next]_vars

-----------------------------------------------------------------------------

IsPriority(Pq) ==
    /\ DOMAIN Pq = {"p", "q", "n"}
    /\ Pq.p \subseteq Prio /\ Pq.n \in Nat
    /\ Pq.q \in [DOMAIN Pq.q -> [q : Seq(Elem), begin : Nat, end : Nat]]

TypeOK ==
    /\ DOMAIN pq = Obj /\ \A o \in Obj : IsPriority(pq[o])
    /\ log \in [Obj -> Seq(Prio \X Elem)]

\* The invariant the code asserts around each call (run_(), lines 412-436),
\* which pop() must restore when it empties a queue, and insert() when it
\* creates several.
RunHolds == \A o \in Obj : PriorityRun(pq[o])

\* n_ is maintained apart from the queues: it counts what they hold.
CountsElements ==
    \A o \in Obj : pq[o].n = Len(log[o])

\* "Give an element with highest priority.  If several elements have this
\* priority, the least recently inserted is chosen" (lines 136-138), after any
\* calls, for elements that came from another queue too.
FrontIsServed ==
    \A o \in Obj : ~ PriorityIsEmpty(pq[o])
        => PriorityFront(pq[o]) = log[o][Served(o)][2]

\* T is the sequence of the sites that L holds at priority v, in their order.
AreSitesAt(T, v, L) ==
    \E pos \in [1..Len(T) -> 1..Len(L)] :
       /\ \A j, k \in 1..Len(T) : j < k => pos[j] < pos[k]
       /\ \A k \in 1..Len(T) : L[pos[k]] = <<v, T[k]>>
       /\ \A i \in 1..Len(L) : L[i][1] = v => \E k \in 1..Len(T) : pos[k] = i

\* Each queue holds exactly the elements of its priority, in their order.
QueuesHoldLog ==
    \A o \in Obj : \A v \in Prio :
       AreSitesAt(QueueSites(PriorityAt(pq[o], v)), v, log[o])
=============================================================================
