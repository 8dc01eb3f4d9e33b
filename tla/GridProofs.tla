----------------------------- MODULE GridProofs -----------------------------
(***************************************************************************)
(* Facts about the flat array of Grid: the coordinates of a cell, and the  *)
(* nodes the update of a cell reads.                                       *)
(***************************************************************************)
EXTENDS Grid, TLAPS

(* Multiplication by a natural number is monotonic. *)
LEMMA MulMonotonic ==
    ASSUME NEW k \in Nat, NEW a \in Int, NEW b \in Int, a <= b
    PROVE  k * a <= k * b
  OBVIOUS

(* The number of a cell and its row and column determine each other. *)
LEMMA Coordinates ==
    ASSUME NEW c \in Cells
    PROVE  /\ W \in Nat \ {0} /\ H \in Nat \ {0}
           /\ X(c) \in 0 .. W - 1
           /\ Y(c) \in 0 .. H - 1
           /\ c = W * Y(c) + X(c)
<1>1. W \in Nat /\ H \in Nat /\ c \in Nat /\ c < W * H
  BY GridAssumption DEF Cells
<1>2. W > 0 /\ H > 0
  BY <1>1
<1> DEFINE q == c \div W
           m == c % W
<1>3. q \in Int /\ m \in 0 .. W - 1 /\ c = W * q + m
  BY <1>1, <1>2
<1> HIDE DEF q, m
<1>4. q >= 0
  <2> SUFFICES ASSUME q <= -1 PROVE FALSE
    BY <1>3
  <2>1. W * q <= W * (-1)
    BY <1>1, <1>3, MulMonotonic
  <2> QED
    BY <2>1, <1>1, <1>3
<1>5. q < H
  <2> SUFFICES ASSUME H <= q PROVE FALSE
    BY <1>1, <1>3
  <2>1. W * H <= W * q
    BY <1>1, <1>3, MulMonotonic
  <2> QED
    BY <2>1, <1>1, <1>3
<1> QED
  BY <1>1, <1>2, <1>3, <1>4, <1>5 DEF X, Y, q, m

LEMMA CellAt ==
    ASSUME NEW x \in 0 .. W - 1, NEW y \in 0 .. H - 1
    PROVE  /\ W * y + x \in Cells
           /\ X(W * y + x) = x
           /\ Y(W * y + x) = y
<1>1. W \in Nat /\ H \in Nat /\ W > 0 /\ x \in Nat /\ y \in Nat /\ y + 1 <= H
  BY GridAssumption
<1> DEFINE c == W * y + x
<1>2. c \in Nat /\ W * (y + 1) <= W * H /\ W * (y + 1) = W * y + W /\ W * y \in Nat
  BY <1>1, MulMonotonic
<1>3. c \in Cells
  BY <1>1, <1>2 DEF Cells
<1>4. X(c) \in 0 .. W - 1 /\ Y(c) \in 0 .. H - 1 /\ c = W * Y(c) + X(c)
  BY <1>3, Coordinates
<1>5. Y(c) = y
  <2>1. ~(Y(c) < y)
    <3> SUFFICES ASSUME Y(c) + 1 <= y PROVE FALSE
      BY <1>1, <1>4
    <3>1. W * (Y(c) + 1) <= W * y /\ W * (Y(c) + 1) = W * Y(c) + W /\ W * Y(c) \in Int
      BY <1>1, <1>4, MulMonotonic
    <3> QED
      BY <3>1, <1>1, <1>2, <1>4
  <2>2. ~(y < Y(c))
    <3> SUFFICES ASSUME y + 1 <= Y(c) PROVE FALSE
      BY <1>1, <1>4
    <3>1. W * (y + 1) <= W * Y(c) /\ W * Y(c) \in Int
      BY <1>1, <1>4, MulMonotonic
    <3> QED
      BY <3>1, <1>1, <1>2, <1>4
  <2> QED
    BY <2>1, <2>2, <1>1, <1>4
<1>6. X(c) = x
  <2>1. c = W * y + X(c)
    BY <1>4, <1>5
  <2> QED
    BY <2>1, <1>1, <1>2, <1>4
<1> QED
  BY <1>3, <1>5, <1>6

(***************************************************************************)
(* voltage_at_adjacent (worker.c 22-79) reads the node and the nodes it is *)
(* connected to, and no other element of the array, on every mesh with at  *)
(* least two columns and two rows.                                         *)
(***************************************************************************)
THEOREM StencilIsNeighbourhood ==
    ASSUME NEW c \in Cells, ~is_corner(c), W >= 2, H >= 2
    PROVE  StencilReads(c) = {c} \cup Neighbours(c)
<1> DEFINE x == X(c)
           y == Y(c)
<1>1. /\ W \in Nat /\ H \in Nat
      /\ x \in 0 .. W - 1 /\ y \in 0 .. H - 1 /\ c = W * y + x
  BY Coordinates
<1>2. W * y \in Int /\ W * (y + 1) = W * y + W /\ W * (y - 1) = W * y - W
  BY <1>1
<1>a. /\ Offset("left") = -1 /\ Offset("right") = 1
      /\ Offset("above") = -W /\ Offset("below") = W
  BY DEF Offset
<1>b. /\ "left" \in Stencil(c) <=> x # 0
      /\ "right" \in Stencil(c) <=> x # W - 1
      /\ "above" \in Stencil(c) <=> y # 0
      /\ "below" \in Stencil(c) <=> y # H - 1
      /\ Stencil(c) \subseteq {"left", "right", "above", "below"}
  <2>1. Lacking(c) = IF x = 0 THEN {"left"} ELSE IF x = W - 1 THEN {"right"}
                     ELSE IF y = 0 THEN {"above"} ELSE IF y = H - 1 THEN {"below"} ELSE {}
    BY DEF Lacking
  <2>2. ~(x \in {0, W - 1} /\ y \in {0, H - 1})
    BY DEF is_corner
  <2> HIDE DEF x, y
  <2> QED
    BY <1>1, <2>1, <2>2 DEF Stencil, Directions
<1>3. ASSUME NEW e \in Neighbours(c)
      PROVE  e \in StencilReads(c)
  <2>1. /\ e \in Cells /\ X(e) \in 0 .. W - 1 /\ Y(e) \in 0 .. H - 1
        /\ e = W * Y(e) + X(e)
        /\ AbsDiff(x, X(e)) + AbsDiff(y, Y(e)) = 1
    BY Coordinates DEF Neighbours
  <2>2. \/ Y(e) = y /\ (X(e) = x - 1 \/ X(e) = x + 1)
        \/ X(e) = x /\ (Y(e) = y - 1 \/ Y(e) = y + 1)
    BY <1>1, <2>1 DEF AbsDiff
  <2>3. \/ Y(e) = y /\ X(e) = x - 1 /\ e = c - 1
        \/ Y(e) = y /\ X(e) = x + 1 /\ e = c + 1
        \/ X(e) = x /\ Y(e) = y - 1 /\ e = c - W
        \/ X(e) = x /\ Y(e) = y + 1 /\ e = c + W
    BY <1>1, <1>2, <2>1, <2>2
  <2>4. \E d \in Stencil(c) : e = c + Offset(d)
    <3>1. CASE X(e) = x - 1 /\ e = c - 1
      <4>1. "left" \in Stencil(c) /\ e = c + Offset("left")
        BY <1>1, <1>a, <1>b, <2>1, <3>1
      <4> QED
        BY <4>1
    <3>2. CASE X(e) = x + 1 /\ e = c + 1
      <4>1. "right" \in Stencil(c) /\ e = c + Offset("right")
        BY <1>1, <1>a, <1>b, <2>1, <3>2
      <4> QED
        BY <4>1
    <3>3. CASE Y(e) = y - 1 /\ e = c - W
      <4>1. "above" \in Stencil(c) /\ e = c + Offset("above")
        BY <1>1, <1>a, <1>b, <2>1, <3>3
      <4> QED
        BY <4>1
    <3>4. CASE Y(e) = y + 1 /\ e = c + W
      <4>1. "below" \in Stencil(c) /\ e = c + Offset("below")
        BY <1>1, <1>a, <1>b, <2>1, <3>4
      <4> QED
        BY <4>1
    <3> QED
      BY <2>3, <3>1, <3>2, <3>3, <3>4
  <2> QED
    BY <2>4 DEF StencilReads
<1>4. ASSUME NEW d \in Stencil(c)
      PROVE  c + Offset(d) \in Neighbours(c)
  <2>1. \/ d = "left" /\ x > 0 /\ c + Offset(d) = W * y + (x - 1)
        \/ d = "right" /\ x < W - 1 /\ c + Offset(d) = W * y + (x + 1)
        \/ d = "above" /\ y > 0 /\ c + Offset(d) = W * (y - 1) + x
        \/ d = "below" /\ y < H - 1 /\ c + Offset(d) = W * (y + 1) + x
    BY <1>1, <1>2, <1>a, <1>b
  <2>2. ASSUME NEW a \in 0 .. W - 1, NEW b \in 0 .. H - 1,
               c + Offset(d) = W * b + a, AbsDiff(x, a) + AbsDiff(y, b) = 1
        PROVE  c + Offset(d) \in Neighbours(c)
    BY <2>2, CellAt DEF Neighbours
  <2>3. /\ x > 0 => AbsDiff(x, x - 1) + AbsDiff(y, y) = 1 /\ x - 1 \in 0 .. W - 1
        /\ x < W - 1 => AbsDiff(x, x + 1) + AbsDiff(y, y) = 1 /\ x + 1 \in 0 .. W - 1
        /\ y > 0 => AbsDiff(x, x) + AbsDiff(y, y - 1) = 1 /\ y - 1 \in 0 .. H - 1
        /\ y < H - 1 => AbsDiff(x, x) + AbsDiff(y, y + 1) = 1 /\ y + 1 \in 0 .. H - 1
    BY <1>1 DEF AbsDiff
  <2> QED
    BY <1>1, <2>1, <2>2, <2>3
<1> QED
  BY <1>3, <1>4 DEF StencilReads

-----------------------------------------------------------------------------
(***************************************************************************)
(* On every mesh with two columns or more each neighbour counts once: two  *)
(* directions never lead to the same element (worker.c 22-79).             *)
(***************************************************************************)
THEOREM NeighboursCountOnce ==
    ASSUME W >= 2, NEW c \in Cells, NEW d \in Stencil(c), NEW e \in Stencil(c),
           c + Offset(d) = c + Offset(e)
    PROVE  d = e
<1>1. c \in Int /\ W \in Int
  BY GridAssumption DEF Cells
<1>2. d \in {"left", "right", "above", "below"} /\ e \in {"left", "right", "above", "below"}
  BY DEF Stencil, Directions
<1>3. /\ Offset("left") = -1 /\ Offset("right") = 1
      /\ Offset("above") = -W /\ Offset("below") = W
  BY DEF Offset
<1> QED
  BY <1>1, <1>2, <1>3

(***************************************************************************)
(* Both facts need the second row or column: on a mesh of one row each node*)
(* but the two ends is said to lack the node above only, and the update    *)
(* reads an element behind the array for the one below (worker.c 57-64).   *)
(***************************************************************************)
THEOREM OneRowReadsBehind ==
    ASSUME H = 1, NEW c \in Cells, ~is_corner(c)
    PROVE  c + W \in StencilReads(c) /\ c + W \notin Cells
<1>1. /\ W \in Nat /\ X(c) \in 0 .. W - 1 /\ Y(c) \in 0 .. H - 1
      /\ c = W * Y(c) + X(c)
  BY Coordinates
<1>2. Y(c) = 0 /\ X(c) # 0 /\ X(c) # W - 1
  BY <1>1 DEF is_corner
<1>3. "below" \in Stencil(c)
  BY <1>2 DEF Lacking, Stencil, Directions
<1>4. Offset("below") = W
  BY DEF Offset
<1>5. c + W \in StencilReads(c)
  <2>1. c + Offset("below") \in StencilReads(c)
    BY <1>3 DEF StencilReads
  <2> QED
    BY <1>4, <2>1
<1>6. c + W >= W /\ W * H = W /\ c \in Nat
  BY <1>1 DEF Cells
<1> QED
  BY <1>1, <1>5, <1>6 DEF Cells

(***************************************************************************)
(* On a mesh of one column every node but the two ends is said to lack its *)
(* left neighbour only, and the node below, which is also the next element *)
(* on the right, counts twice (worker.c 41-48).                            *)
(***************************************************************************)
THEOREM OneColumnCountsTwice ==
    ASSUME W = 1, NEW g \in [Cells -> Int], NEW c \in Cells, ~is_corner(c)
    PROVE  voltage_at_adjacent(g, c) = (g[c - 1] - g[c]) + 2 * (g[c + 1] - g[c])
<1>1. /\ H \in Nat /\ X(c) = 0 /\ Y(c) \in 0 .. H - 1 /\ c = Y(c)
  <2>1. /\ H \in Nat /\ X(c) \in 0 .. W - 1 /\ Y(c) \in 0 .. H - 1
        /\ c = W * Y(c) + X(c)
    BY Coordinates
  <2> QED
    BY <2>1
<1>2. Y(c) # 0 /\ Y(c) # H - 1
  BY <1>1 DEF is_corner
<1>3. c - 1 \in Cells /\ c + 1 \in Cells
  BY <1>1, <1>2 DEF Cells
<1>4. "left" \notin Stencil(c) /\ {"right", "above", "below"} \subseteq Stencil(c)
  BY <1>1 DEF Lacking, Stencil, Directions
<1>5. c + Offset("right") = c + 1 /\ c + Offset("above") = c - 1 /\ c + Offset("below") = c + 1
  BY <1>1 DEF Offset
<1>6. /\ Flow(g, c, "left") = 0
      /\ Flow(g, c, "right") = g[c + 1] - g[c]
      /\ Flow(g, c, "above") = g[c - 1] - g[c]
      /\ Flow(g, c, "below") = g[c + 1] - g[c]
  BY <1>3, <1>4, <1>5 DEF Flow, at
<1>7. g[c] \in Int /\ g[c - 1] \in Int /\ g[c + 1] \in Int
  BY <1>3
<1> QED
  BY <1>6, <1>7 DEF voltage_at_adjacent
=============================================================================
