------------------------------ MODULE MCViewer ------------------------------
(* The viewer in two kinds of sessions: the user either looks at documents   *)
(* with the View menu, or has them segmented and exported.                   *)
EXTENDS Viewer

CONSTANTS
    Menus,
    MaxWork,        \* bound on the clicks of a session of the second kind
    page1, page10   \* two images; the first name begins the second

LongerNames == {<<page10, page1>>}

VARIABLE menu

MCInit == menu \in Menus /\ Init /\ (menu = "view" => saving = "no")

Viewing == menu = "view" /\ View /\ UNCHANGED menu
Working == menu = "work" /\ Work /\ clicks' <= MaxWork /\ UNCHANGED menu
Computing == menu = "work" /\ (Worker \/ EventLoop) /\ UNCHANGED menu

MCNext == Viewing \/ Working \/ Computing
mcvars == <<vars, menu>>

MCSpec == MCInit /\ [][MCNext]_mcvars /\ Fairness
=============================================================================
