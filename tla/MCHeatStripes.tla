--------------------------- MODULE MCHeatStripes ----------------------------
(***************************************************************************)
(* Instances of HeatStripes for TLC.  Four ranks give two inner ones and a *)
(* last one that can be three time steps ahead of the first; four steps    *)
(* let it.  A stripe of three nodes has two edges and a node between them. *)
(***************************************************************************)
EXTENDS HeatStripes

AllFaults == {"malloc", "fopen"}
NoFaults == {}

(* The rod after each time step, by definition. *)
HeatSolution ==
    LET after[k \in 0 .. tt] == IF k = 0 THEN InitialRod ELSE NextRod(after[k - 1])
    IN  after
=============================================================================
