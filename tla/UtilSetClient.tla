--------------------------- MODULE UtilSetClient ----------------------------
(***************************************************************************)
(* Any sequence of legal calls on a few util::set objects.  elts[o] is the  *)
(* mathematical set that o stands for.                                      *)
(***************************************************************************)
EXTENDS UtilSet

CONSTANTS
    Obj,     \* the sets
    Elem     \* elements, integers

VARIABLES
    set,     \* set[o]: the util::set
    elts     \* elts[o]: what it stands for

vars == <<set, elts>>

Init ==
    /\ set = [o \in Obj |-> EmptySet]
    /\ elts = [o \in Obj |-> {}]

Insert(o, e) ==
    /\ set' = [set EXCEPT ![o] = SetInsert(@, e)]
    /\ elts' = [elts EXCEPT ![o] = @ \cup {e}]

\* insert(other) reads other by std_vector(), and so freezes it, after it has
\* thawed this set.  On other = o it would leave a frozen set with its elements
\* in s as well: Next leaves that call out.
InsertAll(o, other) ==
    /\ ~ SetIsEmpty(set[other])
    /\ LET thawed == [set EXCEPT ![o] = Thawed(@)]
           read == [thawed EXCEPT ![other] = Read(@)]
       IN set' = [read EXCEPT ![o].s = @ \cup ToSet(read[other].v)]
    /\ elts' = [elts EXCEPT ![o] = @ \cup elts[other]]

Erase(o, e) ==
    /\ set' = [set EXCEPT ![o] = SetRemove(@, e)]
    /\ elts' = [elts EXCEPT ![o] = @ \ {e}]

Clear(o) ==
    /\ set' = [set EXCEPT ![o] = SetClear(@)]
    /\ elts' = [elts EXCEPT ![o] = {}]

\* operator[], std_vector() and the iterators.
ReadByIndex(o) ==
    /\ set' = [set EXCEPT ![o] = Read(@)]
    /\ UNCHANGED elts

Call(o) ==
    \/ \E e \in Elem : Insert(o, e) \/ Erase(o, e)
    \/ Clear(o)
    \/ ReadByIndex(o)

Next == \E o \in Obj : Call(o) \/ (\E other \in Obj \ {o} : InsertAll(o, other))

Spec == Init /\ [][Next]_vars

-----------------------------------------------------------------------------

\* The vector is sorted without a duplicate, as the bisection of has() needs.
TypeOK ==
    /\ set \in [Obj -> [s : SUBSET Elem, v : Seq(Elem), frozen : BOOLEAN]]
    /\ \A o \in Obj : \A i, j \in DOMAIN set[o].v : i < j => set[o].v[i] < set[o].v[j]
    /\ elts \in [Obj -> SUBSET Elem]

\* A frozen set has nothing in s, a thawed one nothing in v: the assertions of
\* freeze_ (line 471), unfreeze_ (line 485) and clear (lines 394 and 400).
OneRepresentation ==
    \A o \in Obj : IF set[o].frozen THEN set[o].s = {} ELSE set[o].v = <<>>

\* Whatever the history of insertions, removals and switches of
\* representation, the set holds what was put in it: an insertion after a read
\* by index loses nothing, and clear() leaves nothing behind in the container
\* that was not in use.
HoldsElements == \A o \in Obj : set[o].s \cup ToSet(set[o].v) = elts[o]

\* Both ways of looking an element up give the same answer as the set, and
\* first_element() and last_element() are its bounds.
AnswersAgree ==
    \A o \in Obj :
       /\ SetNelements(set[o]) = Cardinality(elts[o])
       /\ \A e \in Elem : SetHas(set[o], e) <=> e \in elts[o]
       /\ elts[o] # {} => /\ SetFirst(set[o]) = Min(elts[o])
                          /\ SetLast(set[o]) = Max(elts[o])
=============================================================================
