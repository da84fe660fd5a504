# A formal model of Olena

Olena is a platform for image processing: *Milena*, a generic C++ library
(`milena/mln`), and on top of it *Scribo* (document images), *Swilena*
(bindings) and a layer for the dynamic use of static C++.  This directory
holds TLA+ modules for the part of it where correctness is hardest to see and
to test: the algorithms that grow regions over an image (union-find canvases,
component trees, floodings) and the containers they work on.  TLC checks the
modules on small instances; TLAPS proves the main invariants for all images.

Paths below are relative to the root of the repository; `mln/` stands for
`milena/mln/`.

## 1. Inventory

### 1.1 Parts, state, operations

| part | state | operations |
|---|---|---|
| **component tree** `mln/morpho/tree/compute_parent.hh`, `component_tree.hh` | the images `parent`, `zpar`, `deja_vu`; the sorted site array `s` | a backward pass of union-find with the recursive `zfind_root`; a forward pass of canonization |
| **dual input tree** `mln/morpho/tree/dual_input_tree.hh`, `impl/dual_union_find.hh`, `impl/dual_hqueue.hh`, `mln/util/hqueues.hh` | parents on the domain and on a translated copy of it, the result `s`, hierarchical queues, node tables | two implementations chosen on the quantization: two sorted arrays browsed together with union-find; a recursive flooding of one queue per level |
| **labeling canvases** `mln/canvas/labeling/{generic,sorted,video,blobs}.hh` | `parent`, `deja_vu`, `output`, `nlabels`; a queue for blobs | two passes with callbacks into a functor; an early return when the labels run out |
| **labeling functors** `mln/labeling/{regional_minima,regional_maxima,flat_zones,value,value_and_compute,blobs_and_compute}.hh` | an attribute image; arrays of accumulators and results | `init`, `handles`, `equiv`, `labels`, `do_no_union`, `merge_attr`, `set_new_label`, `set_label`, `finalize` |
| **watershed by flooding** `mln/morpho/watershed/flooding.hh` | label image, priority queue, `in_queue` | seed the queue around the minima; pop the lowest site, label it, push its neighbours |
| **p_queue_fast, p_queue** `mln/core/site_set/` | a vector that only grows and two indices; a deque | push, pop, front, purge, clear, read by index |
| **p_priority** `mln/core/site_set/p_priority.hh` | a set of priorities, a map of queues, a cached count | push, insert another queue, pop, front, clear |
| **util::set** `mln/util/set.hh` | a `std::set` or a sorted vector, and which of the two is in use | insert, insert a set, remove, clear, look up, read by index |
| **tracked_ptr** `mln/util/tracked_ptr.hh` | a datum and the set of its holders, shared by all of them | copy, assign, assign a raw pointer, destroy |
| **tree data and filters** `mln/morpho/tree/data.hh`, `filter/`, `propagate_*`, `compute_attribute_image.hh` | nodes, children, leaves; an image that is read and rewritten, marks; accumulators | store the children; iterate on nodes, sites or depth first; filter, propagate, accumulate |
| **topological watershed** `mln/morpho/watershed/topological.hh` | two union-finds, the nodes and their children, tables of common ancestors; minima and waiting sites, a priority queue | build and compress the tree of the lower level sets; lower the sites that can be |
| **distance canvases** `mln/canvas/distance_{geodesic,front}.hh`, `mln/transform/internal/` | `dmap`, the closest points; a queue, or one bucket of sites for each distance modulo their number | seed, serve, relax the neighbours |
| **Fibonacci heap** `mln/util/fibonacci_heap.hh` | circular lists of nodes, shared by nothing but moved between heaps | push, push another heap, front, pop front (consolidate), clear |
| graphs `mln/util/graph.hh` | vertices, edges, an index of edges | add a vertex or an edge, look up, browse |
| **Scribo viewer** `scribo/demo/viewer` | the current image, scene and dialog of the window; the arguments of the worker thread | run, stop, results as queued signals, load, clicks |
| the rest: values, accumulators, images and borders, input and output, Scribo's toolchains, dynamic C++, bindings, applications | one-shot computations | — |

`PROJECT.json` has one entry for each part, with its state of progress.

### 1.2 How they interact

* The morphological algorithms call a canvas or sort the sites themselves
  (`data::sort_psites_*`), then keep state in images indexed by sites.  What a
  pass leaves in them, the next pass relies on: `s` sorted, `parent` leading
  towards the beginning of `s`, the first site of each component numbered first.
* A canvas calls its functor back at each step.  Canvas and functor keep two
  halves of one result (the label image; the accumulators).
* `topological` reads the tree of `topo_wst` and lowers, in place, the image the tree was built on:
  copies of an image share its data.
* `flooding` takes its markers from `labeling::regional_minima`, and serves
  its sites with a `p_priority` of `p_queue_fast`; `blobs` uses a
  `p_queue_fast`; `p_priority` uses a `util::set`; copies of an image share
  their buffer by a `tracked_ptr`.
* `tree::data` calls `compute_parent` and reads its result backward; filters,
  propagations and attributes browse what it stored.
* All of this runs in the thread of the caller.  Only the viewer has a second
  thread: `start_demat` and `start_export` write its arguments and start it, its
  steps and results come back as queued signals.

### 1.3 What is hard, and what makes each part correct

* **Two descriptions of one thing that must agree**: `parent` and its
  compressed copy `zpar`; the label image and the accumulators; the priorities
  and the queues; the `std::set` and the vector; the holders of a datum.
* **Order**: one pass forward can redirect the parents only if every link goes
  to an earlier site, and ties of the sort must not matter; a label must be
  given to a root before it is read by the others; a queue must serve what is
  left at the highest level.
* **State read early and used late**: a site waits in a queue while labels
  around it change; a recursive call of `flood` or of `update_m_parent` changes
  the shared images its caller is in the middle of.
* **Limits**: labels that run out in the middle of a pass; level 0; empty
  queues, vectors that never shrink.
* **Long sequences of legal calls** on the containers.
* **Two threads**: the window acts while the worker runs and while its signals wait.

The hazards are listed with their lines in `PROJECT.json`, those no property
covers yet with the reason.

## 2. Modules

Sites are numbered in the order of the scan, 1 to `N`; a neighbour outside the
domain is 0 (`Outside`), as `has()` tells it.  Neighborhoods are sequences
where the order in which they are browsed matters, and sets where it does not.
Sorted site arrays are inputs, and every array that the sort can return is
considered: the two versions of `sort_psites_*` keep equal values in the order
of the scan, except `sort_psites_decreasing` for a general quantization, which
reverses the ties.

| module | of | state and actions |
|---|---|---|
| `Grid` | domains, sorted arrays | 4-connectivity, `Orders`: what `sort_psites` yields |
| `Regions` | reference definitions | connected components, flat zones, extrema and their numbering, stated by closed sets, or by reach for a set of sites |
| `ComponentTree` | `compute_parent` | one action for each statement: `MakeSet`, the neighbours, the calls and returns of `zfind_root` (`path` is its stack), `DoUnion`, `Canonize` |
| `PQueueFast`, `PPriority`, `UtilSet` | containers | operators, one for each method, on records of the members of the class |
| `PQueueFastClient`, `PPriorityClient`, `UtilSetClient` | any sequence of calls | the container beside its abstract counterpart (a sequence, a log of pairs, a mathematical set) |
| `TrackedPtr` | `tracked_ptr` | pointers that live, the heap of data and of sets of holders; constructors, assignments, destructor |
| `FibonacciHeap` | `fibonacci_heap` | heaps beside bags of priorities; the lists of children and of roots, the marks left out; `consolidate()` one visit, link or placement at a time |
| `TreeData` | `tree::data` over `ComponentTree` | one action for each site that `compute_children_` meets |
| `TreeFilters` | five filters, both `propagate_if`, `propagate_node_*`, `propagate_representative`, `compute_attribute_image` | one call on a tree, then one action for each node or site of its loops; `Prune` is both `min` and `filter`, `PropagateDown` also the first half of `subtractive` |
| `Labeling` | generic, sorted and video canvases, 4 functors | first pass site by site and neighbour by neighbour; second pass, with its callbacks; `Abort` when labels run out |
| `Blobs` | the queue canvas, over `PQueueFast` | scan, push, pop, expand |
| `Distance`, `DistanceGeodesic`, `DistanceFront` | what the distance canvases share and should return; both of them | `Seed`, then `Serve` site by site and neighbour by neighbour; the front in a window of weighted vectors |
| `Flooding` | both versions of `flooding`, over `PPriority` | `Seed` for each site, `Flood` for each pop, `Return` |
| `Topological` | `topo_wst` and `topological()`, over `PPriority` | `Build` for each site, `FindRoot`, `CompressTree`, `BuildAncestors`, `FlagMinima`, then `Serve` for each pop, `Return` |
| `DualInput` | what the dual trees share | the extended domain, and what a tree of `f` under the connectivity of `m` is |
| `DualUnionFind`, `DualHqueue` | the two implementations | merge of two arrays with union-find, then `update_m_parent` and its recursion; the recursive `flood` with an explicit stack `calls`, then the canonization |
| `DualDispatch` | `dual_input_max_tree` | runs one or the other |
| `ViewerScene` | `ImageViewer`'s scene | the items shown and the pointers kept to them, as the options and the files change them |
| `ViewerRunner` | `Runner` and its thread | mode and arguments, `run()` step by step, the queue of signals |
| `Viewer` | `MainWindow`, composed with both | open, run, export, close the dialog, the slots |
| `MC*` | instances for TLC | |
| `TreeProofs`, `LabelingProofs`, `FrontsProofs`, `DualProofs`, `ContainersProofs`, `HeapProofs`, `ViewerProofs` | proofs | section 4 |
| `RegionsProofs` | lemmas | zones, extrema and their numbering, the least number of a set, functions defined by recursion, for the proofs about images |

What is grouped in one action: calls of containers and of functors made from a
statement are part of the action of that statement.  `find_root` of the
canvases (`Labeling`, `DualUnionFind`) has no callback and nothing else runs
meanwhile: its climb and its compression are one step.  In `ComponentTree` the
recursion of `zfind_root` is kept step by step, because what it leaves half done
is what the proof is about.  The generic and fast versions of one algorithm
differ by their way of addressing the memory; where they also differ in control
(`video_fastest` looks at half of the neighbours, marks everything as seen, and
alone calls the functor on labels) the model has both.

Definitions marked *Mutant* are plausible mistakes in the definition that
follows them.  `Next` never uses them: each shows that a property can fail.

## 3. Runs

| run | instance | shows |
|---|---|---|
| `component_tree` | 2x3, 3 values, all images, 4 sort orders; calls on 27 of the trees | links always follow `s`; between two sites `zpar` holds exactly the components of what was browsed; a site is bound once; the result links exactly the components of each level set, and all parents are nodes; the nodes, children, leaves and roots that `tree::data` stores are those of the inclusion of components; every filter and propagation, for every predicate, returns what it is defined to, at the sites that the documentation settles for `max` and `subtractive`; an attribute counts each site of a component once |
| `tree_propagation` | 2x3, 2 values | *violated*: see F2 |
| `containers` | see below | each container answers as its abstract counterpart |
| `p_queue_fast_clear` | the same queue | *violated*: see F1 |
| `labeling` | 2x3, 3 values, all images, 4 functors, every canvas they run in, 2 labels | the union-find zones are the flat zones, rooted where the second pass meets them first; extrema are right although a site only looks at neighbours browsed before it; labels number the objects; accumulators follow the labels; an abort leaves no wrong label |
| `labeling_generic` | the same | *violated*: see F3 |
| `fronts` | 3x3: flooding with 3 values, all images, 4 labels; blobs and both distances on all binary images; the topological watershed on the images of 3 values whose first and last sites are 0 | basins never touch and each is in one piece, the lowest level floods first, what stays unlabelled lies between two basins or is out of reach; blobs are explored whole, site by site; what waits in a queue or in the buckets is the front; distances and closest points are right up to the saturation; the topological watershed thins the image, that is each component of each lower level set of the result holds exactly one of the image's; the others return |
| `topological_result` | 3x3, the same images | *violated*: see F6 |
| `dual_input` | 2x2, 3 values, all pairs of images, both implementations | levels are flooded from the highest, the union-find is that of the mask; the trees are canonized, have one root, and at each level have the components that the mask connects |
| `dual_input_root`, `dual_input_order` | 1x2 | *violated*: see F4, F5 |
| `viewer` | 2 images, one container, 7 clicks to look at them or 4 to process them | a run serves the request it was started for, its dialog closes, temporary files go; scene, pointers and options agree |

**Why the bounds are enough.**  With 2x3 sites a site meets one component
through several neighbours, a union joins two components that have grown
apart, and paths of several links are compressed.  Three values give a level
set between two others, so that a redirection may cross one level too many.
The images on which the filters run have a peak next to the lowest value, and among
them are chains of three nodes and two branches under one node, with every subset of the nodes for
predicate.  3x3 has an inner site with four neighbours: a
chessboard has five minima for four labels (and five blobs for three), and a ring encloses
a site.  Its distance maps reach 4 with unit weights; the windows are the city block,
the 2-3 chamfer and one that favours rows by 1 to 3, so that sites are reached first by
the longer way and pushed again, and buckets are used more than once around; the saturations
`{0, 2, 10}` stop at once, midway and never.  Weights are at least 1 (`IsWindow`): with
a zero weight a site lands in the bucket being browsed, which is cleared after it.
Two corners at 0 give the topological watershed two minima or more, or a basin that
joins them, with forks at both upper levels.
2x2 with all pairs of images contains every relative order of `f` and
`m` on neighbours, with floods nested in floods.  In `containers` four
elements take the bisection through vectors of every length from 1 to 4; four
pointers on up to five data include two groups of holders exchanging members;
a vector of 6 cells (`MaxCells`; 3 in a priority queue, `PrioCells`) allows for a purge between
pushes and pops on both sides; two priorities with at most three insertions (`MaxLog`)
let a queue be emptied, erased and created again; five nodes (`MaxNodes`) over two heaps,
which are symmetric, make trees of degree 2 and two links in one
consolidation.  `MaxCells`, `PrioCells`, `MaxLog` and `MaxNodes`
are guards of the insertions.  `dual_input` leaves the value 0 out, because of F4.
In `viewer` the clicks (`MaxClicks`, `MaxWork`) suffice for one request made while another runs, a
result received after another image is opened, and every pair of options toggled
with an image and a container open.

**Fairness.**  `Blobs`, `Flooding` and the distances return under
`WF` of their steps: one thread runs these loops, with no wait, so nothing but the
process can stop it.  `Topological` has no fairness and no property of liveness.  They have no step after the return, and their run
allows that stop; the other algorithms end on `Returned`, which changes nothing, so that
deadlock is checked for them.  `Viewer` asks that the operating system run the thread
(`WF(Worker)`) and Qt the queued signals (`WF(EventLoop)`), and nothing of the user, who may
stop at any time: hence no check of deadlock.

### 3.1 Findings

* **F1**, `FrontIsLeastRecent`: `p_queue_fast::clear()` moves `end_` back but
  leaves the vector, where `push()` appends.  After `push(b); clear(); push(a)`,
  `front()` is `b`.  `FifoUntilCleared` is what holds;
  `distance_geodesic` clears its queue only when it is done with it.
* **F2**, `PropagationIsChecked`: `check_propagate_if` expects of each node whose
  parent verifies the predicate that it have the value propagated; the root is its own parent and keeps
  its value, so that `propagate_if` breaks its own postcondition.  `FilteredAsDefined` holds.
* **F3**, `EachLabelHasResult`: the generic canvas never calls `set_new_label`,
  `set_label` and `finalize`; `value_and_compute` returns empty arrays on images
  that are not of the fastest kind.  `AccusFollowOutput` holds with `video_fastest`.
* **F4**, `ReturnsRoot`: `dual_hqueue` takes a dad at index 0 for no dad, so that
  nodes above level 0 become roots.
* **F5**, `ReturnsOrder`: `dual_hqueue` appends the nodes of the extension before
  their parents, whereas the iterators and `compute_children_` of `data.hh` rely on
  the order from roots to leaves.  `dual_union_find` does it right
  (`DispatchReturnsMaskTree`).
* **F6**, `NoSiteAboveOneMinimum`: `w_constructible` looks for the lowest of the nodes below a site by
  the values of the sites that stand for them, some of which were lowered since, instead of the levels
  of the nodes.  A fork may then be taken for a minimum, and a site that could be
  lowered to its only minimum stays above it.  With the levels, no such site is left
  on the same images.  What was lowered is right (`ThinsImage`).

Two sentences of the filters' documentation are not what the code does.  The code, at fault or not, is modelled as
it is, and `FilteredAsDefined` takes no side: it is about the sites that are `Settled`, where the sentences and the code agree.

* With an increasing predicate "all strategies have the same result" (`filter/all.hh`, lines 33-36), but `subtractive` gives
  a rejected node under another rejected one the value of the latter, which itself moves on to the value of its own parent.
  With f = <1, 2, 3, 1, 1, 1> on 2x3 and only the root kept, the others return 1 everywhere and `subtractive`
  <1, 1, 2, 1, 1, 1>.  `tests/morpho/tree/filter/filter.cc`, line 96, leaves it out: "removal procedure differs".  For `subtractive`
  the property is about the sites under one rejected node at most.
* "A node is removed iif all of its children are removed or if it does not verify the predicate" (`filter/max.hh`, lines
  53-55), but a node that fails the predicate is kept as soon as one under it stays: on the same image, with only
  the leaf kept, `max` returns f although the node between fails.  For `max` the property is about the sites with no rejected node
  above one that verifies the predicate, the root aside.  The first half of the sentence, taken literally, would remove every leaf, which has
  no child, and then everything; the property does not state it.

For `direct`, `min` and `filter` all the sites are settled.

Behaviours that no run states as wrong, because the code promises nothing or the use is marginal:

* A `util::set` inserted into itself is frozen in the middle of the insertion and has its elements in
  both containers, of which `clear()` empties one.  `InsertAll` is between two sets.
  A `p_priority` inserted into itself appends each of its queues to itself as it grows.
* The viewer removes on exit a layout that was first written as temporary and then again, at the same place
  and once saving was turned on, to be kept: nothing takes it out of `tmp_files_to_remove_`.
* `topological` lowers only sites next to a minimum or to a site it lowered: sites further up that one component
  touches may stay, and the result is then a thinning that is not ultimate.  For an image with one node, `build_minim`
  stores a pointer in an array of none, which nothing reads.
* `fibonacci_heap::operator=` forgets the nodes it had: they leak, and nothing else.
* `distance_front` never calls the functor's `init_p`.
* `QThread::start()` does nothing until the previous run has left: a request made between
  its `finished()` and its end is lost and the dialog stays until the user closes it.
* Once the user has closed the dialog during a run (`escaped`), another request may change the arguments under
  the worker, save a layout under the name of another image, or have a result activate a step
  that is gone, which crashes.  `RunServesRequest` is about users who wait.
* A file without a page leaves the override cursor or takes one too many; `useImage(true)` shows the last
  page over a container.

## 4. Proofs

All the theorems are for every value of the constants that satisfies the
assumptions of the modules: a domain of at least one site and a symmetric neighborhood
(`RegionsAssumption`, `NbhAssumption`), integer values, priorities and elements of sets
(`LabelingAssumption`, `PrioAssumption`, `SetElemAssumption`, and natural ones for `ValueAssumption`
and `LevelsAssumption` of the dual trees: the comparisons of the code are total orders),
natural bounds for values and labels (`FloodingAssumption`), a null pointer that is no
address (`NullAssumption`), heaps that are objects at an address that is not null, ordered nodes and a natural bound on their
number (`HeapAssumption`), values that stand for no file and are no name (`NamesAssumption`, `LongerAssumption`
of the viewer), what the distance by thick front asks of its windows (`FrontsAssumption`), and a domain in
one piece for `dual_hqueue` (`DomainAssumption`): it floods from one seed, and the sites of another piece would keep no parent (what is
proved of `dual_union_find` does not use it).
Of the windows `FrontsAssumption` says that

* their weights are at least 1 (`IsWindow`);
* they follow the neighborhood (`FollowsNbh`).  Only sites on the border of an object, as the
  *neighborhood* tells it, enter the queue.  With a window that leads further than the neighborhood at less cost,
  a site inside an object would be the closest of a site outside, and never be served: the distances
  would then be too long.  The windows that the library offers satisfy it.

**How they are built.**  The provers have no induction over data.  What a loop or a path yields is
proved by a least counterexample instead: the set of the places where a claim fails has a least element
(`LeastNat`), the claim holds just before, and one step contradicts it.  A recursive function is first shown to exist
that way (`FrontLoopExists`, `PushesExist`, `Recursion`); components are described by closed sets, never by paths.

**`TreeProofs`, first half.**  For `ComponentTree`, the inductive invariant `IInv` has two halves.
`OrderInv` says that every link, of `parent` as of `zpar`, leads to a site of no
greater rank in `s` (`LinksFollowS`), which needs the state of the search to be known:
the pending calls of `zfind_root` are a chain of `zpar` links of decreasing
ranks, and on the way back the part already compressed leads to the root
(`SearchInv`); roots are the same for `parent` and `zpar` (`RootsInv`).  It gives
`LinksAlwaysFollowS`, `ImagesAreWellFormed`, `ParentsAreBoundOnce` (a union only binds a root) and
`ParentsAreNodes` (the canonization of `p` reads the parent of its parent, which
comes earlier and was canonized).  `PartsInv` says which sites are together.
Two relations have the same components when
they have the same closed sets:
compressing a link does not change the closed sets (`ShortenLink`); a union adds
one constraint (`AddLink`); after the neighbours of `p` the closed sets of the
forest are those of the neighborhood (`SoundInv`, `ProgressInv`, `ZparInv`).  As
the first loop ends a run of equal values exactly when a level set is complete, and no
later union disturbs the links inside it, the components of all the level sets are in
`parent` (`LevelsInv`), and the canonization, which never crosses a level, keeps
them.  It gives `UnionFindIsConnectivity` and `ParentIsComponentTree`.

**`LabelingProofs`**, for each canvas and functor of the run.  During the first pass (`BuildInv`) the links form a forest
that goes down in `s` (`TreesInv`), each tree stays in one flat zone (`SoundInv`), each pair of equal
neighbours *browsed so far* has one root (`JoinInv`), and the attribute of a root is true exactly if no such
pair around its tree has two values (`AttrInv`): that pairs are counted once, from their later site, is what makes it
inductive, and `BrowsedFirstAreBeyond` is why no pair is missed.  When the pass ends the trees are the zones
(`TreesAreZones`, with their roots first in `s`, the only sites where the second pass may number them).  In the second
pass `OutputInv` says of each site dealt with that its label is the number of objects met up to its own: an abort,
which leaves the loop at an object one too many, then leaves no wrong label (`LabelsNumberObjects`); `AccumulatorsFollow` is about
the functor's half.

**`ContainersProofs`.**  The composition `MCContainers` implements the specification of each container (`EachContainer`),
so that each is proved alone.  `QueueInv`, for any elements and any bound on the vector: indices
stay in the vector, whose end `end_` is until `clear()` is called, `nsites()` counts what was inserted and not popped
(`QueueStaysInRange`), and until then the live cells are what was inserted, in order (`QueueIsFifo`).  `PtrSound`: the
holders of a datum, their common set and the set's members are the same thing said three times, which also has to hold of
the set that an assignment has left and not yet freed (`DataLives`).  `PrioSound`: a priority is in the set if and only if its
queue is in the map, no queue is empty, and each holds the pairs of the log at its priority, in order, by an increasing
injection (`AreSitesAt`), hence the count (`PriorityHolds`) and what is served
(`PriorityServes`).  `SetSound`: the vector is sorted and holds the elements when frozen, the `std::set` does
otherwise, and the other one is empty; that the bisection `Dicho` finds what is there is proved by its least failing interval (`SetHolds`).

**`HeapProofs`.**  `HeapInv`, for the Fibonacci heaps, holds of the whole memory that they share.  Some sets exist such that `kids[n]` is the ring of
the nodes that `child` of `n` leads to, `trees[h]` is what is below `roots[h]`, and the `trees` of two heaps have no node in common
and cover the memory (`HeapOwns`); the children of a node have its degrees, each of `0..degree - 1` once (`Heaped`): that *each*
lesser degree is there, and not only their number, is what a link of two trees of equal degree keeps, and
why a tree has `2^degree` nodes (`TreeCounts`).  A `Ring` is closed by its links and has no closed part: cutting a node out, opening a circle,
joining two of them (`RingLoses`, `RingOpens`, `RingsJoin`) are done on rings, never on paths.  Between calls each
`roots[h]` is a ring of least key `min_root` (`RootsRing`).  During `consolidate()` the roots of the heap at work
are threaded and no longer a circle; `yet`, what is met from `w`, the trees of the array and `x` are disjoint and make all of them,
and nothing of `yet` is before `w` (`Visiting`), so that `link()`, which unlinks `a[d]` or `x` anywhere in the list, never cuts what is
yet to be visited (`HeapLink`).  While the list is rebuilt, the nodes still in the array have links that mean nothing and must not be
followed (`Rebuilding`).  It gives `HeapHolds`, and with the other invariants the types of the five containers
(`ContainersFitTypes`).

**`ViewerProofs`.**  `MCViewer` only bounds the clicks (`SessionsAreViewers`), so that `Viewer` itself is
proved, for any number of images and clicks.  `SceneInv`: the pointers kept are to items of the scene and agree with the
options and with the layout (`SceneShowsOptions`, `NoPointerDangles`, `CursorComesBack`).  `ServeInv`: as long as the user waits for the
dialog, the arguments, the source and the signals still in the queue are those of the image opened, at each statement of `run()`
(`RunsServe`); nothing less is inductive, since the two threads meet only through these.  `TemporaryInv`: a temporary file is on the list, or its signal still waits, first in the queue, or
the worker is about to send it (`TemporaryFilesGo`).

**`FrontsProofs`, first part.**  For `flooding` alone, for every image, neighborhood, number of labels and sort order.
The p_priority holds the waiting sites once, each at its level (`WaitInv`); an unmarked site that entered the
queue waits or has two labels around it (`LineInv`); no unmarked site next to a marked one was forgotten (`SeenInv`).  It gives
`FloodingTypes` and `FloodingServesLowest`.  `BasinsNeverTouch`: initially because two neighbours in minima have the same value,
hence one zone, and partial markers are a restriction of it; then because a site is given a label only if
its marked neighbours have no other one.  `FloodingEnds` also says that each basin is connected, which is delicate as the sort may leave only
*some* sites of a minimum marked when labels run out: a marked minimum that is not yet whole always has a site waiting, at a level
that is lowest of all those around it (`IncompleteWaits`), so that no site beyond is served before it is whole (`ApartInv`),
and the basin is a part of the minimum until it contains it.

**`FrontsProofs`, second part.**  The algorithms that the run `fronts` composes; `FrontsSpec` starts each
of them as its own module says (where the run gives two sort orders, and asks for fairness).  The
flooding's theorems carry over (`FloodingIsComplete`).

* Blobs (`BlobsInv`): between two blobs, the labels are those of the objects met so far (`BlobScan`); inside one, the labelled part
  of the object is closed, but for the sites that wait and the neighbours yet to be looked at (`BlobFront`).  When the queue is
  empty it is closed, hence the whole object (`BlobsLabelObjects`).
* Geodesic distance (`GeoInv`): a value comes from a neighbour one step closer (`GeoParents`); the distances of what waits increase and differ
  by at most 1, and each site reached waits or has reached its neighbours (`GeoWave`).  Sites at `max` may wait twice, and only they.
* Distance by thick front (`DialInv`): in each bucket only entries of one distance to come, a site whose
  distance was lowered since excepted, and no site twice (`Led`, `Held`, `OnceEach`); the sites served have relaxed their edges, apart from those
  inside an object (`Interior`).  The loop over the window has an invariant of its own (`FrontReached`).  That no site is twice in a bucket, although it is
  pushed each time its distance is lowered, bounds `bucket_size` by `N * mod`.

`DistancesAreRight` follows from these: the shortest distances are those that no edge can improve and that are all reached, which
is how `IsShortest` states them.  `FrontsFitTypes` and `QueuesHoldFronts` gather the types and the queues of the four algorithms.

**`TreeProofs`, second half.**  `TreeSpec` is the run's behaviour for every image, sorted array and neighborhood: the parent image is built, then
stored, then one routine is called.  It rests on the first half.  `Sub(t)` is what is below a site, the least set closed downward that holds it,
and `ComponentIsSub` says that it is the component of `t` when `t` represents it; `On(q)` is the converse, the way from `q` up to its root (`WayIsOn`).

* The nodes (`StoreInv`): at index `L` of the backward loop, `nodes`, `children` and `leaves` hold exactly what the
  sites after `L` say.  That a node met with no child yet is a leaf holds because a parent is before its children in `s`
  (`StoredTreeIsComponentTree`).
* Attributes (`AttributeInv`): a site has itself and all that is below each of its children after `L`, which are already complete, and no
  site is below two children (`SubLinear`), so that nothing is counted twice (`AttributesTakeComponents`).
* Filters and propagations (`FilterInv`): `DoneDown` and `DoneUp` are the nodes that a loop has dealt with; it has done the
  parent, or all the children, of the node it looks at (`DoneFacts`).  For `direct`, `min`, `max` and `filter` a removed node
  has what the lowest node that stays above it has (`FallsMore`), and the marks tell the nodes that fall (`GoneFacts`); the
  first loop of `max` marks the nodes that stay *and their parents*, which are to be met later.  For `propagate_if` a node has what the topmost
  chosen node above it gives, and its parent was given the same (`TopGivenFacts`).  The second loop of `subtractive` goes up, so that
  the parent it reads still has what the first one left (`SubtractedOn`).  For `propagate_node_to_descendants` the
  stack holds disjoint parts, and the nodes yet to visit are those at or below one of its elements (`StackInv`, `PushFacts`).

These invariants say what the code leaves at every site, the nested rejected nodes of `max` and `subtractive` included.  They
give `FiltersAreAsDefined`, for every predicate, value and node given, at the sites that are `Settled`: there a node falls for `max`
exactly when it is rejected (`FallReturns`), and what `subtractive` reads above a node is its only rejected one (`DownReturns`).

**`DualProofs`.**  `DualSpec` starts each implementation of `dual_input_max_tree` from every pair of images, the value 0 included, and
every order of the sites of equal value.

* `dual_hqueue` (`LowInv`).  What waits at a level is of that level, and the level has a node, of its value (`LowQueues`).  The
  levels of the pending floods increase and have a node; no level above the current one has any, but for the one just pushed,
  on the way to its flood (`LowCalls`): a flood returns the highest level left, which is where the next one goes on.  Hence the
  queues above are empty at each pop.  That all the parents are sites when the canonization reads them is not seen from
  the levels: a site has its parent once popped, and this parent has its own or is the node of a level still to be
  attached (`LowParents`); an unseen neighbour of a popped site is yet to be browsed, by the current flood or by one that waits
  (`LowSeen`), so that when the first flood ends every site of a domain in one piece was popped (`AllLinked`).
* `dual_union_find`, first loop (`AnyMerging`).  `Holds` says of the two images of links, the compressed one and the other, that a site of the domain or of
  the extension is linked as soon as the loop made it (`Made`, `Given`), that both descend in one rank, to the site just made
  last (`Ranked`), and that the sets of sites that no compressed link crosses are those that straddle no two sites joined so far: a
  site and its copy, two neighbours of the mask already seen, the site under way and its first neighbours (`Parts`).  No
  uncompressed link crosses them either.  Compressing a path leaves these sets as they are (`HoldsCompressed`), and each union adds one pair
  (`HoldsBelow`, `HoldsAbove`, `HoldsJoin`).  Two sites have one root exactly when no such set tells them apart (`RootsAgree`), which is
  `MergesTheMask`.
* `dual_union_find`, second loop (`AnyTree`).  The parents of one site and of all those above it still descend, and the pending calls of
  `update_m_parent` are met one after the other on the way up (`Reaches`): redirecting the part under the current one does not cut
  the others from theirs, which is why each path rewritten on the way back ends where the call began.

`Root`, `Path` and `Climb` are recursive functions of the links; that they exist, and what they return, follows from the rank that links descend
in (`LinkRecursion`, `PathFacts`, `RootFacts`, `ClimbFacts`).  It gives `DualTreesFitTypes` and `DualTreesFollowLevels`.

**Only model-checked**:

* `ThinsImage`, the topological watershed: the lowest common ancestors, the fold over the higher neighbours and the repeated lowering of a site would
  each need a theory of the paths in a tree that the other proofs do without.
* `DispatchReturnsMaskTree`, what the two dual trees return.  What is proved stops before the canonization: its second loops rewrite
  parents while they are read, and that the components of *every* level stay right meanwhile is checked on the bounded inputs.
* The two properties of liveness, which TLAPS does not reach.

## 5. Plan

The runs above cover the first three parts of the original plan (viewer, tree data and filters, Fibonacci
heap), the distances and the topological watershed.  What remains, the most exposed behaviour first:

1. *Proofs*: what the dual trees return (`DispatchReturnsMaskTree`, from `DualTreesFollowLevels`); the topological watershed.
2. `util::graph` with its edge index, and the two representations of `p_key` and `lazy_set`, beside the
   other containers; the counting sort as a pure algorithm.
3. Refinements: `PQueueFast` to a FIFO queue, `Labeling` and `Blobs` to one
   abstract labeling, the two dual trees to one abstract tree.

### Not modelled, and why

Input and output, values and arithmetic, accumulators and functions: sequential code on
single values, for which unit tests are the right tool.  Images, borders and
extensions: address arithmetic.  Complexes: built once.  Scribo's toolchains and
the dynamic layer: pipelines of passes and of external processes.  The bindings and
the documentation have no logic of their own.  The soft heap keeps an approximate order and is used by
its test alone; chamfer and browsing canvases are fixed passes.  Of modelled parts: the
traversal of a whole forest and `skip_children` of `depth1st_piter`, which only the printing of a tree uses; `highest_fork` of `topo_wst`; `decrease_key` and `remove` of the heap,
private and never instantiated; printing, the progress bar and the pixmap caches of the viewer.
The depth of the
recursions is bounded by the machine's stack only, and no model has that limit.
Memory use (`reserve`, `memory_size`, the vectors that never shrink) is left out, as are the traces.
