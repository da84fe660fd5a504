---------------------------- MODULE MCContainers ----------------------------
(* Containers under any sequence of legal calls, one kind of them in each   *)
(* behaviour: a p_queue_fast, two p_priority objects, two util::sets, a few *)
(* tracked_ptr objects, or two Fibonacci heaps.                              *)
EXTENDS PQueueFastClient, TLC

CONSTANTS
    Kind,      \* which containers are used
    Obj, Prio, MaxLog, PrioCells,   \* see PPriorityClient
    SetElem,                        \* the elements of the sets
    Pointer, Datum, HolderSet, Null, \* see TrackedPtr
    Heap, MaxNodes, Key             \* see FibonacciHeap

\* 0 is not the address of an object.
ASSUME NullAssumption == Null \notin Datum \cup HolderSet

\* Priorities are ordered, as the values of an image are.
ASSUME PrioAssumption == Prio \subseteq Int

\* util::ord_strict is < on the elements of the sets.
ASSUME SetElemAssumption == SetElem \subseteq Int

VARIABLES
    kind,
    pq, log,
    set, elts,
    alive, mem,
    node, heap, pc, this, a, x, w, d, bag, pushed

priorities == <<pq, log>>
sets == <<set, elts>>
pointers == <<alive, mem>>
heaps == <<node, heap, pc, this, a, x, w, d, bag, pushed>>

P == INSTANCE PPriorityClient WITH MaxCells <- PrioCells
U == INSTANCE UtilSetClient WITH Elem <- SetElem
T == INSTANCE TrackedPtr
H == INSTANCE FibonacciHeap

\* A heap is an object, whose address is not 0; nodes are ordered.
ASSUME HeapAssumption == H!null \notin Heap /\ MaxNodes \in Nat /\ Key \subseteq Int

MCInit == kind \in Kind /\ Init /\ P!Init /\ U!Init /\ T!Init /\ H!Init

CallQueue ==
    /\ kind = "queue"
    /\ Next
    /\ UNCHANGED <<kind, priorities, sets, pointers, heaps>>

CallPriority ==
    /\ kind = "priority"
    /\ P!Next
    /\ UNCHANGED <<kind, vars, sets, pointers, heaps>>

CallSet ==
    /\ kind = "set"
    /\ U!Next
    /\ UNCHANGED <<kind, vars, priorities, pointers, heaps>>

CallPointer ==
    /\ kind = "pointer"
    /\ T!Next
    /\ UNCHANGED <<kind, vars, priorities, sets, heaps>>

CallHeap ==
    /\ kind = "heap"
    /\ H!Next
    /\ UNCHANGED <<kind, vars, priorities, sets, pointers>>

MCNext == CallQueue \/ CallPriority \/ CallSet \/ CallPointer \/ CallHeap

MCSpec == MCInit /\ [][MCNext]_<<kind, vars, priorities, sets, pointers, heaps>>

\* The two heaps are interchangeable.
HeapSymmetry == Permutations(Heap)

-----------------------------------------------------------------------------

\* The types of the components.
ContainersTypeOK == TypeOK /\ P!TypeOK /\ U!TypeOK /\ T!TypeOK /\ H!TypeOK

\* p_priority: front() is the least recent element of the highest priority.
FrontIsServed == P!FrontIsServed

\* p_priority: run_() holds around each call (p_priority.hh, lines 412-436),
\* and the count and the queues are what was inserted and not popped.
PriorityHoldsLog == P!RunHolds /\ P!CountsElements /\ P!QueuesHoldLog

\* util::set: one container is in use, the other one is empty, and between
\* them they hold what was inserted and not removed; every lookup answers for
\* these elements, frozen or not.
SetHoldsElements == U!OneRepresentation /\ U!HoldsElements /\ U!AnswersAgree

\* fibonacci_heap: no node is lost, shared or visited twice while the lists of
\* trees are taken apart and joined, the trees stay binomial, and front() is
\* the minimum.
HeapHoldsBag == H!HoldsBag /\ H!Binomial /\ H!FrontIsMinimum

\* tracked_ptr: a datum is deleted when its last holder lets it go, not before
\* and not later, and each holder knows all of them.
DataLiveWhileHeld == T!DataLiveWhileHeld /\ T!HoldersAreExact
=============================================================================
