-------------------------------- MODULE Grid --------------------------------
(***************************************************************************)
(* The RC mesh of thread/: a W by H matrix of node voltages kept in one    *)
(* flat array (grid.c), and the forward Euler update of one node           *)
(* (worker.c).  A node is named by its flat index W*y + x.                 *)
(*                                                                         *)
(* Voltages are integers: the doubles of the code only meet +, - and a     *)
(* multiplication by a constant here, and no property depends on their     *)
(* rounding.  IR stands for ex.I * ex.R, K for ex.h / (ex.R * ex.C).       *)
(***************************************************************************)
EXTENDS Integers

CONSTANTS
    W, H,       \* width and height of the mesh (grid_t.w, grid_t.h)
    SOURCE,     \* physics_t.SOURCE, what drives the corners
    U,          \* voltage of a voltage source
    IR,         \* what a current source adds to a corner's derivative
    K,          \* scale of the Euler step
    Garbage     \* what a read outside the array returns

ASSUME GridAssumption ==
    /\ W \in Nat /\ H \in Nat
    /\ SOURCE \in {"CURRENT_SOURCE", "VOLTAGE_SOURCE"}
    /\ U \in Int /\ IR \in Int /\ K \in Int /\ Garbage \in Int

(* The elements of the array, and its contents when make_grid returns. *)
Cells == 0 .. W * H - 1
ZeroGrid == [c \in Cells |-> 0]

(* Column and row of a cell. *)
X(c) == c % W
Y(c) == c \div W

(* One element read; the code checks no bound. *)
at(g, c) == IF c \in Cells THEN g[c] ELSE Garbage

is_corner(c) == X(c) \in {0, W - 1} /\ Y(c) \in {0, H - 1}

(* Flat distance to the element at(prev, x +- 1, y) or at(prev, x, y +- 1). *)
Directions == {"left", "right", "above", "below"}
Offset(d) == CASE d = "left"  -> -1
               [] d = "right" -> 1
               [] d = "above" -> -W
               [] d = "below" -> W

(* A plausible mistake in the definition below, not used by it. *)
Lacking_PastRight(c) == IF X(c) = 0 THEN {"left"}
                        ELSE IF X(c) = W THEN {"right"}
                        ELSE IF Y(c) = 0 THEN {"above"}
                        ELSE IF Y(c) = H - 1 THEN {"below"}
                        ELSE {}

(***************************************************************************)
(* The direction voltage_at_adjacent leaves out.  Its border tests are     *)
(* early returns: the first one that applies decides.                      *)
(***************************************************************************)
Lacking(c) == IF X(c) = 0 THEN {"left"}
              ELSE IF X(c) = W - 1 THEN {"right"}
              ELSE IF Y(c) = 0 THEN {"above"}
              ELSE IF Y(c) = H - 1 THEN {"below"}
              ELSE {}

Stencil(c) == Directions \ Lacking(c)

(* Sum over the stencil of the differences to the node's own voltage. *)
Flow(g, c, d) == IF d \in Stencil(c) THEN at(g, c + Offset(d)) - at(g, c) ELSE 0
voltage_at_adjacent(g, c) == Flow(g, c, "left") + Flow(g, c, "right")
                             + Flow(g, c, "above") + Flow(g, c, "below")

(* What the loop body of worker_routine stores for cell c. *)
EulerStep(g, c) ==
    IF is_corner(c)
    THEN IF SOURCE = "VOLTAGE_SOURCE" THEN U ELSE g[c] + K * IR
    ELSE g[c] + K * voltage_at_adjacent(g, c)

(* The elements of the previous time step that update reads. *)
StencilReads(c) ==
    IF is_corner(c)
    THEN IF SOURCE = "VOLTAGE_SOURCE" THEN {} ELSE {c}
    ELSE {c} \cup {c + Offset(d) : d \in Stencil(c)}

(* The whole next time step. *)
NextGrid(g) == [c \in Cells |-> EulerStep(g, c)]

-----------------------------------------------------------------------------
(* Reference: the nodes a node of the mesh is connected to by a resistor. *)
AbsDiff(a, b) == IF a < b THEN b - a ELSE a - b
Neighbours(c) == {e \in Cells : AbsDiff(X(c), X(e)) + AbsDiff(Y(c), Y(e)) = 1}
=============================================================================
