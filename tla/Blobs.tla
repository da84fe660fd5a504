-------------------------------- MODULE Blobs --------------------------------
(***************************************************************************)
(* The queue-based labeling canvas, milena/mln/canvas/labeling/blobs.hh,    *)
(* with the functor of milena/mln/labeling/blobs_and_compute.hh; that of    *)
(* milena/mln/labeling/blobs.hh does nothing.  The queue is a PQueueFast.   *)
(***************************************************************************)
EXTENDS Regions, PQueueFast

CONSTANT MaxLabel   \* mln_max(L)

VARIABLES
    input,     \* the binary image
    output, nlabels,
    qu,        \* the sites of the current blob yet to be expanded
    pc,
    i,         \* the site of the piter p
    cur, k,    \* the site being expanded, and the index of its niter n
    accus, result   \* accus_ and result_, accumulators as sets of sites

vars == <<input, output, nlabels, qu, pc, i, cur, k, accus, result>>

Start ==
    /\ output = [q \in Site |-> 0]
    /\ nlabels = 0
    /\ qu = EmptyQueue
    /\ pc = "scan"
    /\ i = 1
    /\ cur = Outside /\ k = 1
    /\ accus = << {} >>
    /\ result = <<>>

Init == input \in [Site -> BOOLEAN] /\ Start

-----------------------------------------------------------------------------

\* An object point, not labeled yet.
ToLabel(q) == input[q] /\ output[q] = 0

\* The end of the scan calls finalize().
AdvanceScan ==
    IF i = N THEN pc' = "done" /\ i' = i /\ result' = accus
             ELSE pc' = "scan" /\ i' = i + 1 /\ result' = result

SkipSite ==
    /\ pc = "scan"
    /\ ~ ToLabel(i)
    /\ AdvanceScan
    /\ UNCHANGED <<input, output, nlabels, qu, cur, k, accus>>

\* Mutant: the labels are not counted against their type.
ExhaustedNever == FALSE
Exhausted == nlabels = MaxLabel

\* accus_[current_lbl_].take(q)
Take(a, q, l) == [a EXCEPT ![l + 1] = @ \cup {q}]

NewBlob ==
    /\ pc = "scan"
    /\ ToLabel(i)
    /\ ~ Exhausted
    /\ nlabels' = nlabels + 1
    /\ qu' = QueuePush(qu, i)
    /\ output' = [output EXCEPT ![i] = nlabels']
    /\ accus' = Take(Append(accus, {}), i, nlabels')
    /\ pc' = "front"
    /\ UNCHANGED <<input, i, cur, k, result>>

\* The canvas returns at once, without finalize().
Abort ==
    /\ pc = "scan"
    /\ ToLabel(i)
    /\ Exhausted
    /\ pc' = "aborted"
    /\ UNCHANGED <<input, output, nlabels, qu, i, cur, k, accus, result>>

\* Mutant: the site expanded stays in the queue.
FrontKeeps ==
    /\ pc = "front"
    /\ cur' = QueueFront(qu)
    /\ k' = 1
    /\ pc' = "expand"
    /\ UNCHANGED <<input, output, nlabels, qu, i, accus, result>>

Front ==
    /\ pc = "front"
    /\ cur' = QueueFront(qu)
    /\ qu' = QueuePop(qu)
    /\ k' = 1
    /\ pc' = "expand"
    /\ UNCHANGED <<input, output, nlabels, i, accus, result>>

n == Nbh[cur][k]

\* Outside points are false in the extension, or not in the image at all.
Reaches(q) == q # Outside /\ ToLabel(q)

SkipNeighbour ==
    /\ pc = "expand"
    /\ k <= Len(Nbh[cur])
    /\ ~ Reaches(n)
    /\ k' = k + 1
    /\ UNCHANGED <<input, output, nlabels, qu, pc, i, cur, accus, result>>

\* Mutant: the functor is not told.
ExpandSilently ==
    /\ pc = "expand"
    /\ k <= Len(Nbh[cur])
    /\ Reaches(n)
    /\ qu' = QueuePush(qu, n)
    /\ output' = [output EXCEPT ![n] = nlabels]
    /\ k' = k + 1
    /\ UNCHANGED <<input, nlabels, pc, i, cur, accus, result>>

Expand ==
    /\ pc = "expand"
    /\ k <= Len(Nbh[cur])
    /\ Reaches(n)
    /\ qu' = QueuePush(qu, n)
    /\ output' = [output EXCEPT ![n] = nlabels]
    /\ accus' = Take(accus, n, nlabels)
    /\ k' = k + 1
    /\ UNCHANGED <<input, nlabels, pc, i, cur, result>>

\* Mutant: the blob is left with sites in the queue.
EndExpandEarly ==
    /\ pc = "expand"
    /\ k > Len(Nbh[cur])
    /\ AdvanceScan
    /\ UNCHANGED <<input, output, nlabels, qu, cur, k, accus>>

\* while (! qu.is_empty())
EndExpand ==
    /\ pc = "expand"
    /\ k > Len(Nbh[cur])
    /\ IF QueueIsEmpty(qu) THEN AdvanceScan
                           ELSE pc' = "front" /\ UNCHANGED <<i, result>>
    /\ UNCHANGED <<input, output, nlabels, qu, cur, k, accus>>

Returned == pc \in {"done", "aborted"} /\ UNCHANGED vars

Next ==
    \/ SkipSite \/ NewBlob \/ Abort
    \/ Front \/ SkipNeighbour \/ Expand \/ EndExpand
    \/ Returned

Spec == Init /\ [][Next]_vars /\ WF_vars(Next)

-----------------------------------------------------------------------------

\* Labels fit their type, and the queue never holds more than the domain.
TypeOK ==
    /\ output \in [Site -> 0..MaxLabel] /\ nlabels \in 0..MaxLabel
    /\ qu.q \in Seq(Site) /\ QueueNsites(qu) \in 0..N
    /\ pc \in {"scan", "front", "expand", "done", "aborted"}
    /\ i \in Site /\ cur \in Site \cup {Outside} /\ k \in Nat
    /\ accus \in Seq(SUBSET Site) /\ result \in Seq(SUBSET Site)

Objects == {Z \in FlatZones(input) : \A q \in Z : input[q]}

\* "mln_invariant(qu.is_empty())" (line 130): each blob was explored to its end
\* when the next one starts; and "mln_invariant(! qu.compute_has(n))" (line
\* 142): a site never enters the queue twice, though it is met from each of its
\* neighbours.
BlobsOneByOne ==
    /\ pc = "scan" => QueueIsEmpty(qu)
    /\ pc = "expand" /\ k <= Len(Nbh[cur]) => (Reaches(n) => ~ QueueHas(qu, n))

\* The result: each object of the image has a label of its own, in the order
\* of the scan.  When the labels run out, the objects met so far are complete
\* and no other is touched, unlike what the union-find canvases leave.
WholeBlobs ==
    LET full == Numbered(Objects, [j \in 1..N |-> j])
    IN /\ pc = "done" => output = full /\ nlabels = Cardinality(Objects)
       /\ pc = "aborted" =>
            output = [q \in Site |-> IF full[q] <= MaxLabel THEN full[q] ELSE 0]

\* The accumulator of each label takes exactly the sites of the label, as they
\* are labelled; and the results are taken from complete accumulators.
AccusFollowOutput ==
    /\ Len(accus) = nlabels + 1
    /\ \A l \in 1..nlabels : accus[l + 1] = {q \in Site : output[q] = l}
    /\ pc = "done" => result = accus

\* The canvas returns, whatever the image: the queue of each blob runs dry.
Terminates == <>(pc \in {"done", "aborted"})
=============================================================================
