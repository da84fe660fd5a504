-------------------------- MODULE DistanceGeodesic ---------------------------
(***************************************************************************)
(* The geodesic distance, milena/mln/canvas/distance_geodesic.hh: the sites *)
(* reached wait in a p_queue_fast, and each gives its distance plus one to  *)
(* the neighbours that still have max.                                      *)
(***************************************************************************)
EXTENDS Distance, PQueueFast

VARIABLES
    qu,        \* q
    pc,
    i          \* the site of the piter of the initialization

vars == <<input, max, dmap, cp_ima, qu, pc, i>>

Start ==
    /\ FillMaps
    /\ qu = EmptyQueue
    /\ pc = "init"
    /\ i = 1

Init == input \in [Site -> BOOLEAN] /\ max \in Nat /\ Start

InitP ==
    /\ pc = "init"
    /\ InitSite(i)
    /\ qu' = IF InQueue(i) THEN QueuePush(qu, i) ELSE qu
    /\ IF i = N THEN pc' = "propagate" /\ i' = i ELSE pc' = pc /\ i' = i + 1
    /\ UNCHANGED <<input, max>>

\* The first m neighbours of p that have no distance yet are reached and pushed
\* on rest; those that get max as a distance may be met again.
ReachUpTo(p, m, rest) ==
    LET after[j \in 0..m] ==
          IF j = 0 THEN [dmap |-> dmap, cp_ima |-> cp_ima, qu |-> rest]
          ELSE LET n == Nbh[p][j]
                   seen == after[j - 1]
               IN IF n # Outside /\ seen.dmap[n] = max
                    THEN [dmap |-> [seen.dmap EXCEPT ![n] = dmap[p] + 1],
                          cp_ima |-> process(seen.cp_ima, p, n),
                          qu |-> QueuePush(seen.qu, n)]
                    ELSE seen
    IN after[m]

Propagate ==
    /\ pc = "propagate"
    /\ ~ QueueIsEmpty(qu)
    /\ LET p == QueueFront(qu)
           reached == ReachUpTo(p, Len(Nbh[p]), QueuePop(qu))
       IN /\ dmap[p] # max
          /\ dmap' = reached.dmap
          /\ cp_ima' = reached.cp_ima
          /\ qu' = reached.qu
    /\ UNCHANGED <<input, max, pc, i>>

\* The rest of the queue is at max too.
Saturate ==
    /\ pc = "propagate"
    /\ ~ QueueIsEmpty(qu) /\ dmap[QueueFront(qu)] = max
    /\ qu' = QueueClear(QueuePop(qu))
    /\ pc' = "done"
    /\ UNCHANGED <<input, max, dmap, cp_ima, i>>

Return ==
    /\ pc = "propagate"
    /\ QueueIsEmpty(qu)
    /\ pc' = "done"
    /\ UNCHANGED <<input, max, dmap, cp_ima, qu, i>>

Next == InitP \/ Propagate \/ Saturate \/ Return

-----------------------------------------------------------------------------

\* Distances and values of the maps, and a queue of sites.
TypeOK ==
    /\ MapsTypeOK
    /\ qu.q \in Seq(Site) /\ 0 <= qu.begin /\ qu.begin <= qu.end /\ qu.end <= Len(qu.q)
    /\ pc \in {"init", "propagate", "done"} /\ i \in Site

Waiting == {QueueSites(qu)[j] : j \in 1..QueueNsites(qu)}

\* The queue serves by increasing distances, which differ by one at most; only
\* a site at max waits twice; and a site waits as long as a neighbour of it may
\* be reached from it.
QueueIsWave ==
    LET q == QueueSites(qu) IN
    pc = "propagate" =>
       /\ \A j \in DOMAIN q : \A k \in j..Len(q) :
            /\ dmap[q[j]] <= dmap[q[k]] /\ dmap[q[k]] <= dmap[q[j]] + 1
            /\ q[j] = q[k] => j = k \/ dmap[q[j]] = max
       /\ \A p \in Site : dmap[p] < max /\ (\E n \in Neighbours[p] : cp_ima[n] = Outside)
                            => p \in Waiting

Edges == {e \in [from : Site, to : Site, w : {1}] : e.to \in Neighbours[e.from]}

\* On return the distances are those of the grid, up to max; a site at exactly
\* max gets a value as well, so that zones extend to max included.
DistancesAreShortest ==
    pc = "done" =>
       /\ IsShortest(Edges) /\ IsClosest(Edges)
       /\ \A q \in Site : ~ input[q] /\ dmap[q] = max =>
            (cp_ima[q] # Outside <=> \E r \in Neighbours[q] : dmap[r] + 1 = max)
=============================================================================
