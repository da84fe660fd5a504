-------------------------------- MODULE Grid ---------------------------------
(* Small rectangular domains, and the site arrays that data::sort_psites     *)
(* (milena/mln/data/sort_psites.hh) makes of an image on them.               *)
EXTENDS Integers, FiniteSets, TLC

CONSTANTS Rows, Cols

GridSite == 1..(Rows * Cols)
Row(q) == (q - 1) \div Cols + 1
Col(q) == ((q - 1) % Cols) + 1

\* Site (row, col) in the order of the scan; 0 for the points outside.
Cell(r, c) == IF r \in 1..Rows /\ c \in 1..Cols THEN (r - 1) * Cols + c ELSE 0

\* The 4-connectivity, in the order in which its window is browsed, or as sets.
C4 ==
    [q \in GridSite |->
       <<Cell(Row(q) - 1, Col(q)), Cell(Row(q), Col(q) - 1),
         Cell(Row(q), Col(q) + 1), Cell(Row(q) + 1, Col(q))>>]
Grid4 == [q \in GridSite |-> {C4[q][j] : j \in 1..4}]

\* The scan of the domain.
Scan == [j \in GridSite |-> j]

SortedBy(Before(_, _)) == SortSeq(Scan, Before)

\* The sites by increasing (dir = 1) or decreasing (dir = -1) value, those of
\* equal value in the order of the scan or in the reverse order.
Orders(g, dirs) ==
    {SortedBy(LAMBDA a, b : dir * g[a] < dir * g[b] \/
                            (g[a] = g[b] /\ tie * a < tie * b)) :
       dir \in dirs, tie \in {1, -1}}
=============================================================================
