------------------------------- MODULE UtilSet -------------------------------
(***************************************************************************)
(* The set of milena/mln/util/set.hh: a std::set s while elements come and  *)
(* go, a sorted std::vector v once the set is read by index.  Methods that  *)
(* only read may switch from the one to the other ("freeze").  Elements are *)
(* integers, and util::ord_strict is <.                                     *)
(***************************************************************************)
EXTENDS Integers, Sequences, SequencesExt

EmptySet == [s |-> {}, v |-> <<>>, frozen |-> FALSE]

\* A std::set or a std::vector as a range: its elements, in increasing order.
Sorted(S) ==
    CHOOSE v \in [1..Cardinality(S) -> S] :
       ToSet(v) = S /\ \A i, j \in DOMAIN v : i < j => v[i] < v[j]

SetFreeze(x) == [s |-> {}, v |-> x.v \o Sorted(x.s), frozen |-> TRUE]

\* Mutant: v_ is not cleared.
SetUnfreezeKeepsVector(x) == [x EXCEPT !.s = @ \cup ToSet(x.v), !.frozen = FALSE]

SetUnfreeze(x) == [s |-> x.s \cup ToSet(x.v), v |-> <<>>, frozen |-> FALSE]

\* The state in which elements may be inserted and erased.
Thawed(x) == IF x.frozen THEN SetUnfreeze(x) ELSE x

\* What std_vector(), operator[] and an iterator leave behind.
Read(x) == IF x.frozen THEN x ELSE SetFreeze(x)

SetNelements(x) == IF x.frozen THEN Len(x.v) ELSE Cardinality(x.s)
SetIsEmpty(x) == SetNelements(x) = 0

SetInsert(x, e) == [Thawed(x) EXCEPT !.s = @ \cup {e}]

SetRemove(x, e) == [Thawed(x) EXCEPT !.s = @ \ {e}]

SetClear(x) ==
    IF x.frozen THEN [x EXCEPT !.v = <<>>, !.frozen = FALSE]
                ELSE [x EXCEPT !.s = {}]

\* Mutant: the bisection turns the wrong way when elt is the middle cell.
DichoBelow(v, elt) ==
    LET d[r \in (0..Len(v)) \X (0..Len(v))] ==
          IF r[2] - r[1] <= 1 THEN r[1]
          ELSE LET med == (r[1] + r[2]) \div 2
               IN IF elt <= v[med + 1] THEN d[<<r[1], med>>] ELSE d[<<med, r[2]>>]
    IN d[<<0, Len(v)>>]

\* dicho_(elt, 0, nelements()): the index where elt is, if it is in v,
\* looked for between beg (r[1]) and end (r[2]).
Dicho(v, elt) ==
    LET d[r \in (0..Len(v)) \X (0..Len(v))] ==
          IF r[2] - r[1] <= 1 THEN r[1]
          ELSE LET med == (r[1] + r[2]) \div 2
               IN IF elt < v[med + 1] THEN d[<<r[1], med>>] ELSE d[<<med, r[2]>>]
    IN d[<<0, Len(v)>>]

SetHas(x, e) ==
    IF x.frozen
      THEN /\ Len(x.v) > 0 /\ x.v[1] <= e /\ e <= x.v[Len(x.v)]
           /\ x.v[Dicho(x.v, e) + 1] = e
      ELSE e \in x.s

SetFirst(x) == IF x.frozen THEN x.v[1] ELSE Sorted(x.s)[1]
SetLast(x) == IF x.frozen THEN x.v[Len(x.v)] ELSE Sorted(x.s)[Cardinality(x.s)]
=============================================================================
