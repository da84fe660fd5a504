---------------------------- MODULE DistanceFront ----------------------------
(***************************************************************************)
(* The distance by thick front, milena/mln/canvas/distance_front.hh: the    *)
(* sites reached wait in buckets, one for each distance, indexed modulo the *)
(* greatest weight plus one.  A site whose distance is lowered is pushed    *)
(* again, and its former entry is skipped when its bucket is browsed.       *)
(***************************************************************************)
EXTENDS Distance

\* Weighted windows: win.w[j] is the weight of the j-th vector and win.q[p][j]
\* the site it leads to from p, Outside if the domain has not this point.
CONSTANT Windows

\* A window has no zero weight: such a weight would push in the bucket that is
\* being browsed.
IsWindow(win) ==
    /\ win.w \in Seq(Nat \ {0}) /\ win.w # <<>>
    /\ win.q \in [Site -> [DOMAIN win.w -> Site \cup {Outside}]]

\* Only sites of the border of an object enter the queue: what a site inside
\* could reach, a neighbour of it has to reach at no more cost.
FollowsNbh(win) ==
    \A p \in Site : \A j \in DOMAIN win.w :
       LET q == win.q[p][j]
       IN \/ q \in Neighbours[p] \cup {p, Outside}
          \/ \E r \in Neighbours[p] :
               q \in Neighbours[r] /\ \E l \in DOMAIN win.w : win.q[r][l] = q /\ win.w[l] <= win.w[j]

VARIABLES
    w_win,
    mod,
    bucket, bucket_size,
    d, i,      \* the distance being browsed, and the index in its bucket
    pc

vars == <<input, max, dmap, cp_ima, w_win, mod, bucket, bucket_size, d, i, pc>>

Weights == {w_win.w[j] : j \in DOMAIN w_win.w}

\* Mutant: one bucket is missing.
BucketsTight == CHOOSE x \in Weights : \A y \in Weights : y <= x
Buckets == 1 + CHOOSE x \in Weights : \A y \in Weights : y <= x

Start ==
    /\ FillMaps
    /\ mod = Buckets
    /\ bucket = [b \in 0..(mod - 1) |-> <<>>]
    /\ bucket_size = 0
    /\ d = 0 /\ i = 1
    /\ pc = "init"

Init == input \in [Site -> BOOLEAN] /\ max \in Nat /\ w_win \in Windows /\ Start

Loop(size) == IF size = 0 THEN "done" ELSE "browse"

\* Here i is the site of the piter.
InitP ==
    /\ pc = "init"
    /\ InitSite(i)
    /\ bucket' = IF InQueue(i) THEN [bucket EXCEPT ![0] = Append(@, i)] ELSE bucket
    /\ bucket_size' = IF InQueue(i) THEN bucket_size + 1 ELSE bucket_size
    /\ IF i = N THEN pc' = Loop(bucket_size') /\ i' = 1 ELSE pc' = pc /\ i' = i + 1
    /\ UNCHANGED <<input, max, w_win, mod, d>>

bucket_d == bucket[d % mod]
InBucket == pc = "browse" /\ i <= Len(bucket_d)

\* Its distance was lowered since it was pushed here.
SkipProcessed ==
    /\ InBucket
    /\ dmap[bucket_d[i]] < d
    /\ i' = i + 1
    /\ UNCHANGED <<input, max, dmap, cp_ima, w_win, mod, bucket, bucket_size, d, pc>>

\* Mutant: a site is not reached twice.
ImprovesOnce(map, q, d_) == q # Outside /\ map[q] = max

Improves(map, q, d_) == q # Outside /\ map[q] > d /\ d_ < map[q]

\* The j-th vector of the window at p, whose distance is d.
Reach(p, j, seen) ==
    LET q == w_win.q[p][j]
        d_ == d + w_win.w[j]
    IN IF Improves(seen.dmap, q, d_)
         THEN [dmap |-> [seen.dmap EXCEPT ![q] = d_],
               cp_ima |-> process(seen.cp_ima, p, q),
               bucket |-> [seen.bucket EXCEPT ![d_ % mod] = Append(@, q)],
               size |-> seen.size + 1]
         ELSE seen

\* The m first ones.  (What was reached before is bound, and not only named,
\* lest TLC compute it anew wherever Reach refers to it.)
ReachUpTo(p, m) ==
    LET after[j \in 0..m] ==
          IF j = 0 THEN [dmap |-> dmap, cp_ima |-> cp_ima, bucket |-> bucket, size |-> bucket_size]
          ELSE CHOOSE now \in {Reach(p, j, seen) : seen \in {after[j - 1]}} : TRUE
    IN after[m]

Process ==
    /\ InBucket
    /\ dmap[bucket_d[i]] \notin {max} \cup 0..(d - 1)
    /\ \E reached \in {ReachUpTo(bucket_d[i], Len(w_win.w))} :
          /\ dmap' = reached.dmap
          /\ cp_ima' = reached.cp_ima
          /\ bucket' = reached.bucket
          /\ bucket_size' = reached.size
    /\ i' = i + 1
    /\ UNCHANGED <<input, max, w_win, mod, d, pc>>

\* "so at end bucket_size == 0"
Saturate ==
    /\ InBucket
    /\ dmap[bucket_d[i]] = max
    /\ bucket' = [bucket EXCEPT ![d % mod] = <<>>]
    /\ bucket_size' = 0
    /\ d' = d + 1 /\ i' = 1 /\ pc' = "done"
    /\ UNCHANGED <<input, max, dmap, cp_ima, w_win, mod>>

NextBucket ==
    /\ pc = "browse"
    /\ i > Len(bucket_d)
    /\ bucket_size' = bucket_size - Len(bucket_d)
    /\ bucket' = [bucket EXCEPT ![d % mod] = <<>>]
    /\ d' = d + 1 /\ i' = 1
    /\ pc' = Loop(bucket_size')
    /\ UNCHANGED <<input, max, dmap, cp_ima, w_win, mod>>

Next == InitP \/ SkipProcessed \/ Process \/ Saturate \/ NextBucket

-----------------------------------------------------------------------------

\* The buckets have room for each site once.
TypeOK ==
    /\ MapsTypeOK
    /\ w_win \in Windows /\ mod = 1 + CHOOSE x \in Weights : \A y \in Weights : y <= x
    /\ DOMAIN bucket = 0..(mod - 1) /\ \A b \in DOMAIN bucket : bucket[b] \in Seq(Site)
    /\ bucket_size \in 0..(N * mod)
    /\ d \in 0..(max + 1) /\ i \in Nat
    /\ pc \in {"init", "browse", "done"}

Total[b \in -1..(mod - 1)] == IF b = -1 THEN 0 ELSE Total[b - 1] + Len(bucket[b])

\* The entries of the buckets are counted; the bucket of index b holds entries
\* of one distance only, that which is congruent to b among those to come, and
\* none twice, whatever was pushed again; and a site that is yet to be browsed
\* is in the bucket of its distance.
BucketsHoldFront ==
    pc = "browse" =>
       /\ bucket_size = Total[mod - 1]
       /\ \A x \in d..(d + mod - 1) : \A j \in DOMAIN bucket[x % mod] :
            dmap[bucket[x % mod][j]] <= x
       /\ \A b \in DOMAIN bucket : \A j, l \in DOMAIN bucket[b] : bucket[b][j] = bucket[b][l] => j = l
       /\ \A q \in Site : d < dmap[q] /\ dmap[q] < max =>
            /\ dmap[q] < d + mod
            /\ \E j \in DOMAIN bucket[dmap[q] % mod] : bucket[dmap[q] % mod][j] = q

Edges ==
    UNION {{[from |-> p, to |-> w_win.q[p][j], w |-> w_win.w[j]] :
              j \in {k \in DOMAIN w_win.w : w_win.q[p][k] # Outside}} : p \in Site}

\* On return the distances are the least sums of weights, up to max excluded.
DistancesAreShortest ==
    pc = "done" =>
       /\ IsShortest(Edges) /\ IsClosest(Edges)
       /\ \A q \in Site : ~ input[q] /\ dmap[q] = max => cp_ima[q] = Outside
=============================================================================
