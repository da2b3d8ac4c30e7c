---------------------------- MODULE MCCellPreloader ----------------------------
(* Instances of CellPreloader for TLC. *)
EXTENDS CellPreloader

CONSTANTS p1, p2, p3

\* Inside, cells behind doors are preloaded; outside, terrain at one place or two.
InsideAndOutside ==
    { [cells |-> TRUE, exteriorPositions |-> {<<>>}, time |-> {2}],
      [cells |-> FALSE, exteriorPositions |-> {<<p1>>, <<p1, p2>>}, time |-> {0}] }

\* The first two are near each other; the third is on another grid.
SamePositions == { <<p, p>> : p \in Position }
NearPositions == SamePositions \cup {<<p1, p2>>, <<p2, p1>>}

=============================================================================
