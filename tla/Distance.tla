------------------------------ MODULE Distance ------------------------------
(***************************************************************************)
(* What the distance canvases of milena/mln/canvas share: the image, its    *)
(* distance map, and a functor whose init() gives a value to each object    *)
(* point, which process() hands to the sites reached from it: the indices   *)
(* of closest_point_functor.hh or the labels of influence_zone_functor.hh   *)
(* (mln/transform/internal).  Here each point has a value of its own, and   *)
(* labels are these values taken by groups.                                 *)
(***************************************************************************)
EXTENDS Regions

VARIABLES
    input,    \* the binary image
    max,      \* saturation: the distance of what is not reached
    dmap,     \* the distance map
    cp_ima    \* the value given to each site; Outside where there is none

FillMaps ==
    /\ dmap = [q \in Site |-> max]
    /\ cp_ima = [q \in Site |-> IF input[q] THEN q ELSE Outside]

\* An object point of the border of its object enters the queue.
InQueue(q) == input[q] /\ \E r \in Neighbours[q] : ~ input[r]

\* The distance of an object point; init_p() does nothing more.
InitSite(q) ==
    /\ dmap' = [dmap EXCEPT ![q] = IF input[q] THEN 0 ELSE @]
    /\ UNCHANGED cp_ima

\* n gets the value of p, from which it was reached.
process(cp, p, n) == [cp EXCEPT ![n] = cp[p]]

-----------------------------------------------------------------------------

\* No distance is above max, and values are object points.
MapsTypeOK ==
    /\ input \in [Site -> BOOLEAN] /\ max \in Nat
    /\ dmap \in [Site -> 0..max]
    /\ cp_ima \in [Site -> {q \in Site : input[q]} \cup {Outside}]

\* The reference: edge is a set of records [from, to, w].

\* No path to q is shorter than its distance, and one is that long: a source
\* is at 0, any other site at the least sum that its edges allow, below max.
IsShortest(edge) ==
    \A q \in Site :
       LET sums == {dmap[e.from] + e.w : e \in {f \in edge : f.to = q}} IN
       IF input[q] THEN dmap[q] = 0
       ELSE /\ \A x \in sums : dmap[q] <= x
            /\ dmap[q] \in sums \cup {max} /\ dmap[q] <= max

\* The value of q is that of an object point that a shortest path leads to.
IsClosest(edge) ==
    \A q \in Site :
       /\ input[q] => cp_ima[q] = q
       /\ ~ input[q] /\ dmap[q] < max =>
            \E e \in edge : e.to = q /\ dmap[e.from] + e.w = dmap[q]
                            /\ cp_ima[q] = cp_ima[e.from]
=============================================================================
