------------------------------ MODULE Labeling ------------------------------
(***************************************************************************)
(* The union-find labeling canvases of milena/mln/canvas/labeling with the  *)
(* functors of milena/mln/labeling:                                         *)
(*   generic and sorted_fastest   regional_minima, regional_maxima          *)
(*   generic and video_fastest    flat_zones, value_and_compute             *)
(* The first pass merges the sites of s, browsed backward, with neighbours  *)
(* browsed before; the second one browses s forward, numbers the roots and  *)
(* gives each site the label of its parent.                                 *)
(***************************************************************************)
EXTENDS Regions

CONSTANTS
    Value,     \* values of the image
    Val,       \* the value that value_and_compute labels
    MaxLabel   \* mln_max(L)

ASSUME LabelingAssumption == Value \subseteq Int /\ MaxLabel \in Nat

Canvas == {"generic", "sorted_fastest", "video_fastest"}
Functor == {"regional_minima", "regional_maxima", "flat_zones", "value_and_compute"}

VARIABLES
    canvas, functor, input, s,   \* the call
    pc, i,     \* the pass, and the index in s of the site p
    k,         \* index in the offsets of p
    parent, deja_vu, output, nlabels,
    attr,      \* regional_minima, regional_maxima: the attribute image
    accus,     \* value_and_compute: accus_, each as the set of sites it took
    result     \* value_and_compute: result_

call == <<canvas, functor, input, s>>
vars == <<call, pc, i, k, parent, deja_vu, output, nlabels, attr, accus, result>>

p == s[i]

\* The content of an image that was initialized but not filled.
Unset == 0

IsExtrema == functor \in {"regional_minima", "regional_maxima"}

\* Mutant: the facades of the extrema ask for the opposite order.
LegalCallSwapped ==
    IF IsExtrema
      THEN /\ canvas \in {"generic", "sorted_fastest"}
           /\ \A j \in 1..(N - 1) :
                IF functor = "regional_minima" THEN input[s[j]] <= input[s[j + 1]]
                                               ELSE input[s[j]] >= input[s[j + 1]]
      ELSE /\ canvas \in {"generic", "video_fastest"}
           /\ s = [j \in 1..N |-> j]

\* What the dispatch and the facades may call: the extrema on sites sorted by
\* value, the others on the scan of the domain.
LegalCall ==
    IF IsExtrema
      THEN /\ canvas \in {"generic", "sorted_fastest"}
           /\ \A j \in 1..(N - 1) :
                IF functor = "regional_minima" THEN input[s[j]] >= input[s[j + 1]]
                                               ELSE input[s[j]] <= input[s[j + 1]]
      ELSE /\ canvas \in {"generic", "video_fastest"}
           /\ s = [j \in 1..N |-> j]

\* Initialization.  Of the init() and init_() of value_and_compute, only the
\* latter makes room for the background.
Start ==
    /\ pc = "make_set"
    /\ i = N
    /\ k = 1
    /\ parent = [q \in Site |-> Unset]
    /\ deja_vu = [q \in Site |-> canvas = "video_fastest"]
    /\ output = [q \in Site |-> 0]
    /\ nlabels = 0
    /\ attr = [q \in Site |-> TRUE]
    /\ accus = IF functor = "value_and_compute" /\ canvas = "video_fastest"
                 THEN << {} >> ELSE <<>>
    /\ result = <<>>

Init ==
    /\ canvas \in Canvas /\ functor \in Functor
    /\ input \in [Site -> Value]
    /\ s \in [1..N -> Site] /\ \A q \in Site : \E j \in 1..N : s[j] = q
    /\ LegalCall
    /\ Start

-----------------------------------------------------------------------------
(* The functors.                                                            *)

handles(q) == functor = "value_and_compute" => input[q] = Val

equiv(m, q) ==
    IF functor = "value_and_compute" THEN input[m] = Val ELSE input[m] = input[q]

labels(q) == IsExtrema => attr[q]

-----------------------------------------------------------------------------
(* First pass.                                                              *)

\* find_root: the site that n leads to; each site on the way is then linked
\* to it.
Climb(link, m) ==
    LET up[j \in 0..N] == IF j = 0 THEN m ELSE link[up[j - 1]] IN up
Root(link, m) == Climb(link, m)[N]

Compressed(link, m) ==
    LET up == Climb(link, m)
        way == {up[j] : j \in 0..N}
        root == up[N]
    IN [q \in Site |-> IF q \in way THEN root ELSE link[q]]

\* positive_offsets_wrt: what the window nbh yields after q, in its order.
Positive(nbh, q) ==
    LET kept[j \in 0..Len(nbh)] ==
          IF j = 0 THEN <<>>
          ELSE IF nbh[j] = Outside \/ nbh[j] > q THEN Append(kept[j - 1], nbh[j])
                                                ELSE kept[j - 1]
    IN kept[Len(nbh)]

\* The neighbours to browse: video_fastest takes the positive offsets alone.
Offsets == IF canvas = "video_fastest" THEN Positive(Nbh[p], p) ELSE Nbh[p]

\* In the domain (for the fast versions, not in the border) and browsed.
Browsed(m) == m # Outside /\ deja_vu[m]

PreviousSite ==
    IF i = 1 THEN pc' = "label" /\ i' = 1
             ELSE pc' = "make_set" /\ i' = i - 1

SkipSite ==
    /\ pc = "make_set"
    /\ ~ handles(p)
    /\ PreviousSite
    /\ UNCHANGED <<call, k, parent, deja_vu, output, nlabels, attr, accus, result>>

MakeSet ==
    /\ pc = "make_set"
    /\ handles(p)
    /\ parent' = [parent EXCEPT ![p] = p]
    /\ k' = 1
    /\ pc' = "neighbours"
    /\ UNCHANGED <<call, i, deja_vu, output, nlabels, attr, accus, result>>

IgnoreNeighbour ==
    /\ pc = "neighbours"
    /\ k <= Len(Offsets)
    /\ ~ Browsed(Offsets[k])
    /\ k' = k + 1
    /\ UNCHANGED <<call, pc, i, parent, deja_vu, output, nlabels, attr, accus, result>>

\* merge_attr(r, p).  Mutant: the attribute of the merged root is lost.
MergeAttrLost(r) == attr
merge_attr(r) == IF IsExtrema THEN [attr EXCEPT ![p] = @ /\ attr[r]] ELSE attr

\* The links after a Do-Union.  Mutant: the neighbour is linked, not its root.
LinkNeighbour(m) == [parent EXCEPT ![m] = p]
LinkRoot(m) == [Compressed(parent, m) EXCEPT ![Root(parent, m)] = p]

\* Do-Union; nothing is merged when the root is p already.
Union ==
    /\ pc = "neighbours"
    /\ k <= Len(Offsets)
    /\ LET m == Offsets[k] r == Root(parent, m) IN
         /\ Browsed(m) /\ equiv(m, p)
         /\ parent' = LinkRoot(m)
         /\ attr' = IF r # p THEN merge_attr(r) ELSE attr
    /\ k' = k + 1
    /\ UNCHANGED <<call, pc, i, deja_vu, output, nlabels, accus, result>>

\* do_no_union: a neighbour of another value was browsed first, so p is not
\* extremal.
NoUnion ==
    /\ pc = "neighbours"
    /\ k <= Len(Offsets)
    /\ Browsed(Offsets[k]) /\ ~ equiv(Offsets[k], p)
    /\ attr' = IF IsExtrema THEN [attr EXCEPT ![p] = FALSE] ELSE attr
    /\ k' = k + 1
    /\ UNCHANGED <<call, pc, i, parent, deja_vu, output, nlabels, accus, result>>

EndSite ==
    /\ pc = "neighbours"
    /\ k > Len(Offsets)
    /\ deja_vu' = [deja_vu EXCEPT ![p] = TRUE]
    /\ PreviousSite
    /\ UNCHANGED <<call, k, parent, output, nlabels, attr, accus, result>>

-----------------------------------------------------------------------------
(* Second pass.                                                             *)

IsRoot(q) == parent[q] = q

\* finalize() is called by video_fastest alone.
NextSite ==
    IF i = N
      THEN /\ pc' = "done" /\ i' = i
           /\ result' = IF canvas = "video_fastest" THEN accus' ELSE result
      ELSE /\ pc' = pc /\ i' = i + 1
           /\ result' = result

\* A site that is not handled, or the root of a component without a label.
SkipLabel ==
    /\ pc = "label"
    /\ ~ handles(p) \/ (IsRoot(p) /\ ~ labels(p))
    /\ accus' = accus
    /\ NextSite
    /\ UNCHANGED <<call, k, parent, deja_vu, output, nlabels, attr>>

CallsBack == canvas = "video_fastest" /\ functor = "value_and_compute"

\* accus_[l].take(p)
Take(a, l) == [a EXCEPT ![l + 1] = @ \cup {p}]

set_new_label(l) == IF CallsBack THEN Take(Append(accus, {}), l) ELSE accus

\* Mutant: the callback is forgotten for the sites that are not roots.
SetNoLabel(l) == accus
set_label(l) == IF CallsBack THEN Take(accus, l) ELSE accus

\* Are the labels of type L used up?  Mutant: the test is missing.
ExhaustedNever == FALSE
Exhausted == nlabels = MaxLabel

NewLabel ==
    /\ pc = "label"
    /\ handles(p) /\ IsRoot(p) /\ labels(p)
    /\ ~ Exhausted
    /\ nlabels' = nlabels + 1
    /\ output' = [output EXCEPT ![p] = nlabels']
    /\ accus' = set_new_label(nlabels')
    /\ NextSite
    /\ UNCHANGED <<call, k, parent, deja_vu, attr>>

\* The canvas returns at once, without finalize().
Abort ==
    /\ pc = "label"
    /\ handles(p) /\ IsRoot(p) /\ labels(p)
    /\ Exhausted
    /\ pc' = "aborted"
    /\ UNCHANGED <<call, i, k, parent, deja_vu, output, nlabels, attr, accus, result>>

TakeLabel ==
    /\ pc = "label"
    /\ handles(p) /\ ~ IsRoot(p)
    /\ output' = [output EXCEPT ![p] = output[parent[p]]]
    /\ accus' = set_label(output'[p])
    /\ NextSite
    /\ UNCHANGED <<call, k, parent, deja_vu, nlabels, attr>>

Returned == pc \in {"done", "aborted"} /\ UNCHANGED vars

Next ==
    \/ SkipSite \/ MakeSet \/ IgnoreNeighbour \/ Union \/ NoUnion \/ EndSite
    \/ SkipLabel \/ NewLabel \/ Abort \/ TakeLabel
    \/ Returned

Spec == Init /\ [][Next]_vars

-----------------------------------------------------------------------------

\* The labels fit type L, and each accumulator belongs to one of them.
TypeOK ==
    /\ pc \in {"make_set", "neighbours", "label", "done", "aborted"}
    /\ i \in 1..N /\ k \in Nat
    /\ parent \in [Site -> Site \cup {Unset}]
    /\ deja_vu \in [Site -> BOOLEAN]
    /\ output \in [Site -> 0..MaxLabel]
    /\ nlabels \in 0..MaxLabel
    /\ attr \in [Site -> BOOLEAN]
    /\ accus \in Seq(SUBSET Site) /\ result \in Seq(SUBSET Site)

\* What the call has to label: the zones of handled sites of equal value.
Objects ==
    {Z \in FlatZones(input) :
       /\ \A q \in Z : handles(q)
       /\ functor = "regional_minima" => IsMinimum(input, Z)
       /\ functor = "regional_maxima" => IsMaximum(input, Z)}

\* Once every site has been browsed, whatever was merged in which order and
\* compressed on the way, the sites that have the root of q are the zone of q,
\* and that root comes first in s, so that the second pass has numbered it
\* when it needs its label.
RootsAreZones ==
    pc = "label" /\ i = 1 =>
       LET closed == Closed(input) IN
       \A q \in {t \in Site : handles(t)} :
          LET root == Root(parent, q)
              first == CHOOSE j \in 1..N : s[j] = root
              Z == ZoneIn(closed, q)
          IN /\ {r \in Site : handles(r) /\ Root(parent, r) = root} = Z
             /\ \A j \in 1..N : s[j] \in Z => first <= j

\* "mln_invariant(input(n) < input(p))" (regional_minima.hh, lines 92 and 113)
\* and its mirror in regional_maxima.hh: the neighbours of another value that
\* were browsed before are all on one side of p, ties included.
BrowsedFirstAreBeyond ==
    pc = "neighbours" /\ IsExtrema =>
       \A j \in 1..Len(Offsets) :
          Browsed(Offsets[j]) /\ ~ equiv(Offsets[j], p) =>
             IF functor = "regional_minima" THEN input[Offsets[j]] < input[p]
                                            ELSE input[Offsets[j]] > input[p]

\* The result: every object has a label of its own, numbered in the order of
\* s, and nothing else is labelled.  For the extrema, the attributes merged
\* along the unions decide exactly which zones have no lower (higher)
\* neighbour.  When labels run out it is partial but not wrong: there were
\* more objects, and no object takes the label of another one.
LabelsAreObjects ==
    LET full == Numbered(Objects, s)
    IN /\ pc = "done" => output = full /\ nlabels = Cardinality(Objects)
       /\ pc = "aborted" =>
            /\ nlabels = MaxLabel /\ Cardinality(Objects) > MaxLabel
            /\ \A q \in Site : output[q] \in {0, full[q]}

\* With the fast canvas the accumulator of a label has taken exactly the sites
\* that have the label so far, each of them, at any time of the second pass,
\* and the results are taken from all of them at the end.
AccusFollowOutput ==
    CallsBack =>
       /\ Len(accus) = nlabels + 1
       /\ \A l \in 1..nlabels : accus[l + 1] = {q \in Site : output[q] = l}
       /\ pc = "done" => result = accus

\* value_and_compute returns "The accumulator to be computed" for each label
\* (value_and_compute.hh, line 56).
EachLabelHasResult ==
    functor = "value_and_compute" /\ pc = "done" =>
       \A l \in 1..nlabels :
          /\ l + 1 \in DOMAIN result
          /\ result[l + 1] = {q \in Site : output[q] = l}
=============================================================================
