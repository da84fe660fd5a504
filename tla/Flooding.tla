------------------------------ MODULE Flooding ------------------------------
(***************************************************************************)
(* Meyer's watershed, milena/mln/morpho/watershed/flooding.hh: the regional *)
(* minima are the markers; sites next to a marked one wait in a priority    *)
(* queue, lowest level first; a site whose marked neighbours all have one   *)
(* label takes it, the others stay unmarked and make the watershed line.    *)
(* Composes PPriority (the queue) and the result of Labeling (the markers). *)
(***************************************************************************)
EXTENDS Regions, PPriority

CONSTANTS
    MaxValue,  \* mln_max(V); the values are 0..MaxValue
    MaxLabel   \* mln_max(L)

ASSUME FloodingAssumption == MaxValue \in Nat /\ MaxLabel \in Nat

unmarked == 0

VARIABLES
    input,     \* the image
    output,    \* the label image
    queue,     \* the p_priority of p_queue_fast
    in_queue,
    pc,
    i          \* the site of the piter that seeds the queue

vars == <<input, output, queue, in_queue, pc, i>>

\* Mutant: the labels are numbered past the last one.
MarkersUnbounded(minima, s) == Numbered(minima, s)

\* What labeling::regional_minima makes of the minima on sites sorted in the
\* order s; when the labels run out it stops at the first root that has none.
Markers(minima, s) ==
    LET full == Numbered(minima, s)
        stop == {j \in 1..N : full[s[j]] > MaxLabel}
    IN [q \in Site |-> IF \E j \in 1..N : s[j] = q /\ \A l \in stop : j < l
                         THEN full[q] ELSE unmarked]

Decreasing(f, s) == \A j \in 1..(N - 1) : f[s[j]] >= f[s[j + 1]]

Start ==
    /\ queue = EmptyPriority
    /\ in_queue = [q \in Site |-> FALSE]
    /\ pc = "seed"
    /\ i = 1

Init ==
    /\ input \in [Site -> 0..MaxValue]
    /\ \E s \in [1..N -> Site] :
         /\ \A q \in Site : \E j \in 1..N : s[j] = q
         /\ Decreasing(input, s)
         /\ output = Markers(Minima(input), s)
    /\ Start

-----------------------------------------------------------------------------

\* The lowest level has the highest priority.
Level(q) == MaxValue - input[q]

\* The labels found around q.
MarksAround(q) == {output[r] : r \in Neighbours[q]} \ {unmarked}

NextSite == IF i = N THEN pc' = "flood" /\ i' = i ELSE pc' = pc /\ i' = i + 1

Seed ==
    /\ pc = "seed"
    /\ IF output[i] = unmarked /\ MarksAround(i) # {}
         THEN /\ queue' = PriorityPush(queue, Level(i), i)
              /\ in_queue' = [in_queue EXCEPT ![i] = TRUE]
         ELSE UNCHANGED <<queue, in_queue>>
    /\ NextSite
    /\ UNCHANGED <<input, output>>

\* Mutant: a site that is in the queue already is pushed again.
FreshUnchecked(q, out, waiting) == q # Outside /\ out[q] = unmarked

Fresh(q, out, waiting) == q # Outside /\ out[q] = unmarked /\ ~ waiting[q]

\* The j-th neighbour of p is pushed, if it waits nowhere.
Push(p, j, out, seen) ==
    LET q == Nbh[p][j]
    IN IF Fresh(q, out, seen.waiting)
         THEN [queue |-> PriorityPush(seen.queue, Level(q), q),
               waiting |-> [seen.waiting EXCEPT ![q] = TRUE]]
         ELSE seen

\* The m first ones, on rest.  (What was pushed before is bound, and not only
\* named, lest TLC compute it anew wherever Push refers to it.)
PushUpTo(p, m, rest, out) ==
    LET after[j \in 0..m] ==
          IF j = 0 THEN [queue |-> rest, waiting |-> in_queue]
          ELSE CHOOSE now \in {Push(p, j, out, seen) : seen \in {after[j - 1]}} : TRUE
    IN after[m]

\* Mutant: the last neighbour is not looked at.
PushButLast(p, rest, out) == PushUpTo(p, Len(Nbh[p]) - 1, rest, out)

\* The neighbours of p are pushed in the order of the neighborhood.
PushFresh(p, rest, out) == PushUpTo(p, Len(Nbh[p]), rest, out)

\* Mutant: any label found around p is taken.
SingleMarkerAny(p) == TRUE

\* At most one label is found around p.
SingleMarker(p) == Cardinality(MarksAround(p)) <= 1

AdjacentMarker(p) ==
    IF MarksAround(p) = {} THEN unmarked ELSE CHOOSE l \in MarksAround(p) : TRUE

\* p takes the label, and its neighbours that wait nowhere are pushed.
Mark(p, rest) ==
    LET out == [output EXCEPT ![p] = AdjacentMarker(p)]
    IN /\ output' = out
       /\ \E pushed \in {PushFresh(p, rest, out)} :
             queue' = pushed.queue /\ in_queue' = pushed.waiting

\* Mutant: the site served is read and not popped.
FloodKeepsFront ==
    /\ pc = "flood"
    /\ ~ PriorityIsEmpty(queue)
    /\ LET p == PriorityFront(queue) IN
         IF SingleMarker(p) THEN Mark(p, queue)
                            ELSE UNCHANGED <<queue, output, in_queue>>
    /\ UNCHANGED <<input, pc, i>>

Flood ==
    /\ pc = "flood"
    /\ ~ PriorityIsEmpty(queue)
    /\ LET p == PriorityFront(queue) IN
         IF SingleMarker(p) THEN Mark(p, PriorityPop(queue))
                            ELSE /\ queue' = PriorityPop(queue)
                                 /\ UNCHANGED <<output, in_queue>>
    /\ UNCHANGED <<input, pc, i>>

Return ==
    /\ pc = "flood"
    /\ PriorityIsEmpty(queue)
    /\ pc' = "done"
    /\ UNCHANGED <<input, output, queue, in_queue, i>>

Next == Seed \/ Flood \/ Return

Spec == Init /\ [][Next]_vars

-----------------------------------------------------------------------------

Queued == UNION {{QueueSites(queue.q[v])[j] : j \in 1..QueueNsites(queue.q[v])} : v \in queue.p}

TypeOK ==
    /\ input \in [Site -> 0..MaxValue]
    /\ output \in [Site -> 0..MaxLabel]
    /\ queue.p \subseteq 0..MaxValue /\ queue.n \in 0..N
    /\ in_queue \in [Site -> BOOLEAN]
    /\ pc \in {"seed", "flood", "done"}
    /\ i \in Site

\* No two basins ever touch: marked sites that are neighbours have the same
\* label, at any time of the flooding.
BasinsSeparate ==
    \A p \in Site : \A q \in Neighbours[p] :
       output[p] # unmarked /\ output[q] # unmarked => output[p] = output[q]

\* A site waits at most once, at its own level, unmarked, and next to a marked
\* site, so that the label it is given is never that of nobody.
QueueIsFront ==
    /\ queue.n = Cardinality(Queued)
    /\ \A v \in queue.p : \A j \in 1..QueueNsites(queue.q[v]) :
         LET q == QueueSites(queue.q[v])[j]
         IN /\ v = Level(q)
            /\ output[q] = unmarked /\ in_queue[q]
            /\ MarksAround(q) # {}

\* "extract a psite P from the hierarchical queue, at the highest priority
\* level, that is, the lowest level" (lines 166-168): the site served next is
\* never above another that waits.
LowestLevelFirst ==
    ~ PriorityIsEmpty(queue) =>
       \A q \in Queued : input[PriorityFront(queue)] <= input[q]

\* On return nothing that could be flooded was missed: an unmarked site was
\* examined and lies between two basins, or it touches no basin at all.
LineSeparatesBasins ==
    pc = "done" =>
       \A p \in Site : output[p] = unmarked =>
          IF in_queue[p] THEN Cardinality(MarksAround(p)) >= 2
                         ELSE MarksAround(p) = {}

\* On return each label given is that of one basin: its sites are connected,
\* whatever basins its sites were in competition with, and even when the
\* labels ran out and the markers were partial.
BasinsConnected ==
    pc = "done" =>
       \A l \in 1..MaxLabel : IsConnected({q \in Site : output[q] = l})

\* The queue empties.
Terminates == <>(pc = "done")
=============================================================================
