--------------------------- MODULE MCFigureRequest ---------------------------
(* Two threads, three results - empty, whole, and with a NULL coordinate - *)
(* and a database with room for the two connections of the threads only.   *)
EXTENDS FigureRequest

CONSTANTS first, second, broken

MCRows == {first, second, broken}
MCIncomplete == {broken}
MCTables == {<< >>, <<first, second>>, <<first, broken>>}
=============================================================================
