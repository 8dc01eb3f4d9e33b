-------------------------------- MODULE Rod ---------------------------------
(***************************************************************************)
(* The rod of mpi/main.c: the forward Euler update of one node, the kinds  *)
(* of boundary the program can be built with, and one time step of a whole *)
(* rod or of the stripe of one process.                                    *)
(*                                                                         *)
(* Temperatures are integers, like the voltages of Grid: A stands for      *)
(* at * dt / dx / dx, LEFT and RIGHT for the expressions in a boundary's   *)
(* own constants (C2 is 0 in main.c).                                      *)
(***************************************************************************)
EXTENDS Integers

CONSTANTS
    xx,                     \* number of nodes
    Total,                  \* number of processes
    A,                      \* weight of the second difference
    T_0,                    \* the initial temperature
    LEFT, RIGHT,            \* the constant of each end
    LEFT_KIND, RIGHT_KIND,  \* which macro is defined for it: LEFT_1TYPE, ...
    Garbage                 \* what malloc returns and a read beyond a stripe finds

BoundaryKinds == {"1TYPE", "2TYPE", "3TYPE"}

ASSUME RodAssumption ==
    /\ xx \in Nat /\ xx > 2
    /\ Total \in Nat \ {0} /\ Total <= xx
    /\ A \in Int /\ T_0 \in Int /\ LEFT \in Int /\ RIGHT \in Int /\ Garbage \in Int
    /\ LEFT_KIND \in BoundaryKinds /\ RIGHT_KIND \in BoundaryKinds

Nodes == 0 .. xx - 1
Ranks == 0 .. Total - 1
Root == 0
Others == Ranks \ {Root}

stripe_size == xx \div Total
Slots == 0 .. stripe_size - 1

(* A fixed value, a flow, or a multiple of the neighbour's value. *)
boundary(kind, value, neighbour) ==
    CASE kind = "1TYPE" -> value
      [] kind = "2TYPE" -> value + neighbour
      [] kind = "3TYPE" -> value * neighbour

left_boundary(next_node) == boundary(LEFT_KIND, LEFT, next_node)
right_boundary(prev_node) == boundary(RIGHT_KIND, RIGHT, prev_node)

forward_euler(t_left, t_mid, t_right) == A * (t_right - 2 * t_mid + t_left) + t_mid

(* The rod before the first step: the neighbours of both ends are inside. *)
InitialRod == [n \in Nodes |-> IF n = 0 THEN left_boundary(T_0)
                               ELSE IF n = xx - 1 THEN right_boundary(T_0)
                               ELSE T_0]

(* One element read; the code checks no bound. *)
slot(old, i) == IF i \in Slots THEN old[i] ELSE Garbage

IsLeftEnd(r, i) == r = 0 /\ i = 0
IsRightEnd(r, i) == r = Total - 1 /\ i = stripe_size - 1

(* A plausible mistake, not used: the left edge with the right neighbour's value. *)
time_step_OneNeighbour(r, old, left, right) ==
    [i \in Slots |->
        IF IsRightEnd(r, i) THEN right_boundary(slot(old, i - 1))
        ELSE IF IsLeftEnd(r, i) THEN left_boundary(slot(old, i + 1))
        ELSE IF i = stripe_size - 1 THEN forward_euler(slot(old, i - 1), old[i], right)
        ELSE IF i = 0 THEN forward_euler(right, old[i], slot(old, i + 1))
        ELSE forward_euler(old[i - 1], old[i], old[i + 1])]

(***************************************************************************)
(* time_step of one rank: every slot of stripe_new from stripe_old and the *)
(* values of the neighbours.  Where two assignments of the code meet in a  *)
(* stripe of one node, the later one counts: the end of the rod, else the  *)
(* right edge.  No read of stripe_old is checked.                          *)
(***************************************************************************)
time_step(r, old, left, right) ==
    [i \in Slots |->
        IF IsRightEnd(r, i) THEN right_boundary(slot(old, i - 1))
        ELSE IF IsLeftEnd(r, i) THEN left_boundary(slot(old, i + 1))
        ELSE IF i = stripe_size - 1 THEN forward_euler(slot(old, i - 1), old[i], right)
        ELSE IF i = 0 THEN forward_euler(left, old[i], slot(old, i + 1))
        ELSE forward_euler(old[i - 1], old[i], old[i + 1])]

(* MPI_Scatter and MPI_Gather: rank r has the nodes from stripe_size * r. *)
Slice(rod, r) == [i \in Slots |-> rod[stripe_size * r + i]]
Joined(stripes) == [n \in Nodes |-> stripes[n \div stripe_size][n % stripe_size]]

-----------------------------------------------------------------------------
(* Reference: one time step of the whole rod, with neither stripes nor ranks. *)
NextRod(rod) == [n \in Nodes |-> IF n = 0 THEN left_boundary(rod[1])
                                 ELSE IF n = xx - 1 THEN right_boundary(rod[xx - 2])
                                 ELSE forward_euler(rod[n - 1], rod[n], rod[n + 1])]
=============================================================================
