----------------------------- MODULE TrackedPtr ------------------------------
(***************************************************************************)
(* The smart pointer of milena/mln/util/tracked_ptr.hh, by which every      *)
(* image shares its data with its copies.  Each datum goes with a std::set  *)
(* of the pointers that hold it; who leaves last deletes both.              *)
(*                                                                         *)
(* mem is what the pointers and the heap contain:                           *)
(*   ptr, holders    the two fields of each pointer (Null: 0)               *)
(*   data            the data allocated                                     *)
(*   sets            the sets allocated: sets[k] holds pointers             *)
(* Addresses are reused once they are free.                                 *)
(***************************************************************************)
EXTENDS Integers, FiniteSets

CONSTANTS
    Pointer,   \* the tracked_ptr objects
    Datum,     \* addresses of data
    HolderSet, \* addresses of sets of holders
    Null

VARIABLES
    alive,     \* the pointers constructed and not destroyed yet
    mem

vars == <<alive, mem>>

\* ptr_ = 0 and holders_ = 0, as in an object that is not alive here.
Init ==
    /\ alive = {}
    /\ mem = [ptr |-> [h \in Pointer |-> Null], holders |-> [h \in Pointer |-> Null],
              data |-> {}, sets |-> <<>>]

-----------------------------------------------------------------------------

\* A fresh datum a, with a fresh set k, for h.
Own(st, h, a, k) ==
    [ptr |-> [st.ptr EXCEPT ![h] = a], holders |-> [st.holders EXCEPT ![h] = k],
     data |-> st.data \cup {a},
     sets |-> [l \in DOMAIN st.sets \cup {k} |-> IF l = k THEN {h} ELSE st.sets[l]]]

\* h takes the fields of g and joins its set, if there is one.
Share(st, h, g) ==
    [st EXCEPT !.ptr[h] = st.ptr[g], !.holders[h] = st.holders[g],
               !.sets = [l \in DOMAIN st.sets |->
                           st.sets[l] \cup IF l = st.holders[g] THEN {h} ELSE {}]]

\* Mutant: the datum is deleted whoever holds it.
CleanAlways(st, h) ==
    LET k == st.holders[h] IN
    IF st.ptr[h] = Null THEN st
    ELSE [ptr |-> [st.ptr EXCEPT ![h] = Null], holders |-> [st.holders EXCEPT ![h] = Null],
          data |-> st.data \ {st.ptr[h]},
          sets |-> [l \in DOMAIN st.sets |-> st.sets[l] \ IF l = k THEN {h} ELSE {}]]

\* clean_(): h holds nothing any more.
Clean(st, h) ==
    LET k == st.holders[h]
        last == Cardinality(st.sets[k]) = 1
    IN IF st.ptr[h] = Null THEN st
       ELSE [ptr |-> [st.ptr EXCEPT ![h] = Null],
             holders |-> [st.holders EXCEPT ![h] = Null],
             data |-> IF last THEN st.data \ {st.ptr[h]} ELSE st.data,
             sets |-> IF last THEN [l \in DOMAIN st.sets \ {k} |-> st.sets[l]]
                              ELSE [st.sets EXCEPT ![k] = @ \ {h}]]

FreshDatum == Datum \ mem.data
FreshSet(st) == HolderSet \ DOMAIN st.sets

-----------------------------------------------------------------------------

Construct(h) ==
    /\ h \notin alive
    /\ alive' = alive \cup {h}
    /\ \/ UNCHANGED mem
       \/ \E a \in FreshDatum, k \in FreshSet(mem) : mem' = Own(mem, h, a, k)

ConstructCopy(h, g) ==
    /\ h \notin alive /\ g \in alive
    /\ alive' = alive \cup {h}
    /\ mem' = Share(mem, h, g)

Assign(h, g) ==
    /\ h \in alive /\ g \in alive
    /\ mem' = IF mem.ptr[h] = mem.ptr[g] THEN mem ELSE Share(Clean(mem, h), h, g)
    /\ UNCHANGED alive

\* The argument is 0, or allocated before h lets its datum go.
AssignPtr(h) ==
    /\ h \in alive
    /\ \/ mem' = Clean(mem, h)
       \/ \E a \in FreshDatum, k \in FreshSet(Clean(mem, h)) :
            mem' = Own(Clean(mem, h), h, a, k)
    /\ UNCHANGED alive

Destroy(h) ==
    /\ h \in alive
    /\ alive' = alive \ {h}
    /\ mem' = Clean(mem, h)

Next ==
    \E h \in Pointer :
       \/ Construct(h)
       \/ \E g \in Pointer : ConstructCopy(h, g) \/ Assign(h, g)
       \/ AssignPtr(h)
       \/ Destroy(h)

Spec == Init /\ [][Next]_vars

-----------------------------------------------------------------------------

TypeOK ==
    /\ alive \subseteq Pointer
    /\ mem.ptr \in [Pointer -> Datum \cup {Null}]
    /\ mem.holders \in [Pointer -> HolderSet \cup {Null}]
    /\ mem.data \subseteq Datum
    /\ mem.sets \in [DOMAIN mem.sets -> SUBSET Pointer]
    /\ DOMAIN mem.sets \subseteq HolderSet

Holding == {h \in alive : mem.ptr[h] # Null}

\* A datum lives exactly as long as some pointer holds it: no pointer dangles,
\* and nothing is leaked.
DataLiveWhileHeld ==
    /\ mem.data = {mem.ptr[h] : h \in Holding}
    /\ DOMAIN mem.sets = {mem.holders[h] : h \in Holding}

\* run_(), and more: the set of a pointer is exactly that of the pointers to
\* its datum, so that who leaves last knows.
HoldersAreExact ==
    \A h \in alive :
       /\ mem.ptr[h] = Null <=> mem.holders[h] = Null
       /\ mem.ptr[h] # Null =>
            mem.sets[mem.holders[h]] = {g \in alive : mem.ptr[g] = mem.ptr[h]}
=============================================================================
