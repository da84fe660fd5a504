------------------------------ MODULE Regions -------------------------------
(***************************************************************************)
(* Reference definitions on a graph of sites: connected components, flat    *)
(* zones and regional extrema, stated without the algorithms that compute   *)
(* them.                                                                    *)
(***************************************************************************)
EXTENDS Integers, Sequences, FiniteSets

CONSTANTS
    N,         \* number of sites, numbered in the order of the scan
    Nbh        \* Nbh[p]: what the neighborhood yields at p, in its order

Site == 1..N

\* A point outside the domain.
Outside == 0

ASSUME RegionsAssumption ==
    /\ N \in Nat \ {0}
    /\ Nbh \in [Site -> Seq(Site \cup {Outside})]
    /\ \A p, q \in Site : (\E j \in DOMAIN Nbh[p] : Nbh[p][j] = q)
                            <=> (\E j \in DOMAIN Nbh[q] : Nbh[q][j] = p)

Neighbours == [p \in Site |-> {q \in Site : \E j \in DOMAIN Nbh[p] : Nbh[p][j] = q}]

\* Every set of sites, written so that TLC lists them once.
SiteSets == {C : C \in SUBSET Site}

\* The sets of sites that no two neighbours of equal value straddle.
Closed(f) ==
    {C \in SiteSets :
       \A q \in Site : \A r \in Neighbours[q] : f[q] = f[r] => (q \in C <=> r \in C)}

\* The sites that no closed set separates from q.
ZoneIn(closed, q) == {r \in Site : \A C \in closed : q \in C => r \in C}

FlatZone(f, q) == ZoneIn(Closed(f), q)
FlatZones(f) == LET closed == Closed(f) IN {ZoneIn(closed, q) : q \in Site}

\* No part of L is cut from the rest.
IsConnected(L) ==
    \A C \in (SUBSET L) \ {{}, L} : \E q \in C : Neighbours[q] \cap (L \ C) # {}

\* The sites that steps in L between neighbours join to the site q of L.
ReachedIn(L, q) ==
    LET within[n \in 0..N] ==
          IF n = 0 THEN {q}
          ELSE LET C == within[n - 1] IN C \cup (L \cap UNION {Neighbours[p] : p \in C})
    IN within[N]
Components(L) == {ReachedIn(L, q) : q \in L}

\* A flat zone none of whose neighbours is lower.
IsMinimum(f, Z) == \A q \in Z : \A r \in Neighbours[q] : f[q] <= f[r]
IsMaximum(f, Z) == \A q \in Z : \A r \in Neighbours[q] : f[q] >= f[r]

\* The labels of the components in Objects when they are numbered in the order
\* in which the site array s first meets them; 0 elsewhere.
Numbered(Objects, s) ==
    LET First(Z) == CHOOSE j \in 1..N : s[j] \in Z /\ \A k \in 1..(j - 1) : s[k] \notin Z
        Label(Z) == Cardinality({Y \in Objects : First(Y) <= First(Z)})
    IN [q \in Site |-> IF q \in UNION Objects
                         THEN Label(CHOOSE Z \in Objects : q \in Z) ELSE 0]

Minima(f) == {Z \in FlatZones(f) : IsMinimum(f, Z)}
Maxima(f) == {Z \in FlatZones(f) : IsMaximum(f, Z)}
=============================================================================
