------------------------------ MODULE MCFronts ------------------------------
(* The algorithms that expand a front of sites from a queue, on every image  *)
(* of a small grid in the 4-connectivity: flooding, with the markers that    *)
(* the minima get when sites of equal value are sorted in either order of    *)
(* the scan by data::sort_psites_decreasing; the labeling of blobs; and the  *)
(* two distance canvases, the one by thick front with windows of several     *)
(* weights; and the topological watershed, on the images whose first and     *)
(* last sites are at the lowest value.  One of them runs in a behaviour; its *)
(* variables are shared with the others where they have the name, and those  *)
(* of the others are 0.                                                      *)
EXTENDS Flooding, Grid

CONSTANTS Kinds, Saturations, Windows

VARIABLES
    kind,
    qu, nlabels, cur, k, accus, result,              \* of Blobs
    max, dmap, cp_ima,                               \* of Distance
    w_win, mod, bucket, bucket_size, d,                   \* of DistanceFront
    tree, ima, cmax                                  \* of Topological

B == INSTANCE Blobs
G == INSTANCE DistanceGeodesic
D == INSTANCE DistanceFront
T == INSTANCE Topological WITH l <- queue, enqueued <- in_queue

ASSUME FrontsAssumption == \A win \in Windows : D!IsWindow(win) /\ D!FollowsNbh(win)

mcvars == <<vars, kind, qu, nlabels, cur, k, accus, result, max, dmap, cp_ima,
            w_win, mod, bucket, bucket_size, d, tree, ima, cmax>>

\* A window as a sequence of vectors, with their weights.
Window(vectors) ==
    [w |-> [j \in DOMAIN vectors |-> vectors[j][3]],
     q |-> [p \in Site |-> [j \in DOMAIN vectors |->
              Cell(Row(p) + vectors[j][1], Col(p) + vectors[j][2])]]]

Straight(w) == <<<<-1, 0, w>>, <<0, -1, w>>, <<0, 1, w>>, <<1, 0, w>>>>
Diagonal(w) == <<<<-1, -1, w>>, <<-1, 1, w>>, <<1, -1, w>>, <<1, 1, w>>>>

\* The city block, the 2-3 chamfer, and a window that favours the rows.
MCWindows ==
    {Window(Straight(1)),
     Window(Straight(2) \o Diagonal(3)),
     Window(<<<<0, -1, 1>>, <<0, 1, 1>>, <<-1, 0, 3>>, <<1, 0, 3>>>>)}

NoFlooding == queue = 0 /\ in_queue = 0
NoOutput == output = [q \in Site |-> unmarked]
NoBlobs == nlabels = 0 /\ cur = 0 /\ k = 0 /\ accus = 0 /\ result = 0
NoDistance == max = 0 /\ dmap = 0 /\ cp_ima = 0
NoBuckets == w_win = 0 /\ mod = 0 /\ bucket = 0 /\ bucket_size = 0 /\ d = 0
NoTopological == tree = 0 /\ ima = 0 /\ cmax = 0

\* The minima, found faster.
MCMinima(f) ==
    {Z \in UNION {Components({q \in Site : f[q] = v}) : v \in 0..MaxValue} : IsMinimum(f, Z)}

ASSUME \A f \in [Site -> 0..1] : MCMinima(f) = Minima(f)

FloodingInit ==
    /\ kind = "flooding"
    /\ input \in [Site -> 0..MaxValue]
    /\ \E minima \in {MCMinima(input)} :
         output \in {Markers(minima, s) : s \in Orders(input, {-1})}
    /\ Start
    /\ qu = 0 /\ NoBlobs /\ NoDistance /\ NoBuckets /\ NoTopological

BlobsInit ==
    /\ kind = "blobs"
    /\ B!Init
    /\ NoFlooding /\ NoDistance /\ NoBuckets /\ NoTopological

GeodesicInit ==
    /\ kind = "geodesic"
    /\ input \in [Site -> BOOLEAN] /\ max \in Saturations /\ G!Start
    /\ NoFlooding /\ NoOutput /\ NoBlobs /\ NoBuckets /\ NoTopological

FrontInit ==
    /\ kind = "front"
    /\ input \in [Site -> BOOLEAN] /\ max \in Saturations /\ w_win \in Windows /\ D!Start
    /\ NoFlooding /\ NoOutput /\ qu = 0 /\ NoBlobs /\ NoTopological

TopologicalInit ==
    /\ kind = "topological"
    /\ input \in [Site -> 0..MaxValue] /\ input[1] = 0 /\ input[N] = 0
    /\ T!Start
    /\ NoOutput /\ qu = 0 /\ NoBlobs /\ NoDistance /\ NoBuckets

MCInit ==
    /\ kind \in Kinds
    /\ FloodingInit \/ BlobsInit \/ GeodesicInit \/ FrontInit \/ TopologicalInit

RunFlooding ==
    /\ kind = "flooding"
    /\ Next
    /\ UNCHANGED <<kind, qu, nlabels, cur, k, accus, result, max, dmap, cp_ima,
                   w_win, mod, bucket, bucket_size, d, tree, ima, cmax>>

RunBlobs ==
    /\ kind = "blobs"
    /\ B!Next
    /\ UNCHANGED <<kind, queue, in_queue, max, dmap, cp_ima, w_win, mod, bucket, bucket_size, d,
                   tree, ima, cmax>>

RunGeodesic ==
    /\ kind = "geodesic"
    /\ G!Next
    /\ UNCHANGED <<kind, output, queue, in_queue, nlabels, cur, k, accus, result,
                   w_win, mod, bucket, bucket_size, d, tree, ima, cmax>>

RunFront ==
    /\ kind = "front"
    /\ D!Next
    /\ UNCHANGED <<kind, output, queue, in_queue, qu, nlabels, cur, k, accus, result,
                   tree, ima, cmax>>

RunTopological ==
    /\ kind = "topological"
    /\ T!Next
    /\ UNCHANGED <<kind, output, qu, nlabels, cur, k, accus, result, max, dmap, cp_ima,
                   w_win, mod, bucket, bucket_size, d>>

MCNext == RunFlooding \/ RunBlobs \/ RunGeodesic \/ RunFront \/ RunTopological

\* Each is a loop that nothing else interrupts.  (No fairness is asked of the
\* topological watershed, which no property of liveness is about.)
MCSpec ==
    /\ MCInit /\ [][MCNext]_mcvars
    /\ WF_mcvars(RunFlooding \/ RunBlobs \/ RunGeodesic \/ RunFront)

-----------------------------------------------------------------------------

\* The types of what runs: labels fit theirs, and no queue holds more sites
\* than the domain has.
FrontsTypeOK ==
    CASE kind = "flooding" -> TypeOK
      [] kind = "blobs"    -> B!TypeOK
      [] kind = "geodesic" -> G!TypeOK
      [] kind = "front"    -> D!TypeOK
      [] kind = "topological" -> T!TypeOK

\* What waits is what the algorithm will have to expand, each with its queue;
\* flooding (flooding.hh) serves the lowest level first.
QueueHoldsFront ==
    CASE kind = "flooding" -> QueueIsFront /\ LowestLevelFirst
      [] kind = "blobs"    -> B!BlobsOneByOne
      [] kind = "geodesic" -> G!QueueIsWave
      [] kind = "front"    -> D!BucketsHoldFront
      [] kind = "topological" -> T!QueueIsFlagged

\* Flooding: the unmarked sites left are those of the line, and each basin is
\* in one piece.
BasinsAndLine == kind = "flooding" => LineSeparatesBasins /\ BasinsConnected

\* Blobs: the labels are the objects, whole ones when they run out, and the
\* accumulators follow them.
BlobsAreObjects == kind = "blobs" => B!WholeBlobs /\ B!AccusFollowOutput

\* The distance maps are right, and the closest points are closest.
DistancesAreShortest ==
    /\ kind = "geodesic" => G!DistancesAreShortest
    /\ kind = "front" => D!DistancesAreShortest

\* The topological watershed (topological.hh) thins the image: it merges no two
\* minima, loses none, and they meet where they did.
ThinsImage == kind = "topological" => T!ThinsImage

\* "Compute a toological watershed transform" (topological.hh:211): no site is
\* left above one minimum only.
NoSiteAboveOneMinimum == kind = "topological" => T!NoSiteAboveOneMinimum

\* The others return, whatever the image.
Returns == kind # "topological" => <>(pc \in {"done", "aborted"})
=============================================================================
