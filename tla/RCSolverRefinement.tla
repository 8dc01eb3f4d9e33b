------------------------- MODULE RCSolverRefinement -------------------------
(***************************************************************************)
(* The multithreaded solver implements the sequential one, for every mesh, *)
(* number of workers and number of steps.  The invariant of RCSolverProofs *)
(* says who may run; ValueInv adds what the arrays and the frames hold.    *)
(***************************************************************************)
EXTENDS RCSolverProofs

(* Worker w has stored the next time step of cell c in this round. *)
Swept(w, c) ==
    /\ RegionStart(w) <= c
    /\ \/ pc[w] = "sweep" /\ c < pos[w]
       \/ pc[w] = "at_end" /\ c < RegionEnd(w)
       \/ pc[w] = "in_end" /\ w \in waiting["end"] /\ c < RegionEnd(w)

SweptInv ==
    \A w \in Workers : \A c \in Cells :
        Swept(w, c) => grid[current_grid][c] = EulerStep(grid[prev_grid], c)

(* The manager is out of the end barrier and has not swapped the arrays. *)
StepComplete ==
    \/ pc[Manager] \in {"plot", "swap"}
    \/ pc[Manager] = "in_end" /\ Manager \notin waiting["end"]

StepInv ==
    StepComplete
        => \A c \in Cells : grid[current_grid][c] = EulerStep(grid[prev_grid], c)

FrameInv ==
    /\ pc[Manager] = "plot"
          => \A c \in Cells : c < pos[Manager] => frame[c] = grid[prev_grid][c]
    /\ Len(film) = IF pc[Manager] = "swap" THEN ts ELSE ts - 1

ValueInv == SweptInv /\ StepInv /\ FrameInv

-----------------------------------------------------------------------------
LEMMA ValueInit == Init => ValueInv
<1> SUFFICES ASSUME Init PROVE ValueInv
  OBVIOUS
<1>1. pc[Manager] = "make_prev" /\ \A w \in Workers : pc[w] = "none"
  BY ThreadFacts DEF Init
<1> QED
  BY <1>1 DEF Init, ValueInv, SweptInv, Swept, StepInv, StepComplete, FrameInv

(* At a release of the end barrier all cells of all regions are swept. *)
LEMMA ReleaseComplete ==
    ASSUME IInv, SweptInv, NEW t \in Threads, pc[t] = "at_end",
           Arrive(t, "end"), Goto(t, "in_end"), Manager \notin waiting'["end"],
           pc'[Manager] = "in_end", grid' = grid,
           prev_grid' = prev_grid, current_grid' = current_grid
    PROVE  StepInv'
<1> USE ThreadFacts
<1>1. Inside(t)
  BY DEF Inside
<1>2. waiting["end"] \cup {t} = Threads
  <2>1. CASE waiting'["end"] = waiting["end"] \cup {t}
    <3>1. t # Manager /\ Manager \notin waiting["end"]
      BY <2>1
    <3>2. pc[Manager] = "in_end"
      BY <3>1, GotoFacts DEF IInv
    <3>3. ~Inside(Manager)
      BY <3>1, <3>2 DEF Inside
    <3> QED
      BY <1>1, <3>3 DEF IInv, PhaseInv
  <2> QED
    BY <2>1, ArriveCases DEF IInv, Barriers
<1>3. \A w \in Workers : pc[w] = "at_end" \/ (pc[w] = "in_end" /\ w \in waiting["end"])
  BY <1>2 DEF IInv, WaitInv
<1>4. ASSUME NEW c \in Cells
      PROVE  grid[current_grid][c] = EulerStep(grid[prev_grid], c)
  <2>1. PICK w \in Workers : RegionStart(w) <= c /\ c < RegionEnd(w)
    BY RegionsCover
  <2> QED
    BY <1>3, <2>1 DEF SweptInv, Swept
<1> QED
  BY <1>4 DEF StepInv

(* What holds of the values is kept by a step that moves no worker's round. *)
LEMMA ValuesKept ==
    ASSUME ValueInv,
           grid' = grid, prev_grid' = prev_grid, current_grid' = current_grid,
           frame' = frame, film' = film, pos' = pos, ts' = ts,
           \A w \in Workers : \A c \in Cells : Swept(w, c)' => Swept(w, c),
           StepComplete' => StepComplete,
           pc'[Manager] = "plot" => pc[Manager] = "plot",
           pc'[Manager] = "swap" <=> pc[Manager] = "swap"
    PROVE  ValueInv'
  BY DEF ValueInv, SweptInv, StepInv, FrameInv

LEMMA ValueManager ==
    ASSUME IInv, ValueInv, ManagerStep
    PROVE  ValueInv'
<1> USE ThreadFacts DEF IInv, gridVars, plotVars
<1>a. ASSUME NEW l, Goto(Manager, l), l \notin {"plot", "swap", "in_end"},
             waiting' = waiting, pos' = pos, ts' = ts,
             gridVars' = gridVars, plotVars' = plotVars, pc[Manager] # "swap"
      PROVE  ValueInv'
  <2>1. pc'[Manager] = l /\ \A w \in Workers : pc'[w] = pc[w]
    BY <1>a, GotoFacts
  <2>2. \A w \in Workers : \A c \in Cells : Swept(w, c)' => Swept(w, c)
    BY <1>a, <2>1 DEF Swept
  <2> QED
    BY <1>a, <2>1, <2>2, ValuesKept DEF StepComplete
<1>1. CASE MakePrevGrid
  BY <1>1, <1>a DEF MakePrevGrid
<1>2. CASE MakeCurrentGrid
  BY <1>2, <1>a DEF MakeCurrentGrid
<1>3. CASE InitPool
  BY <1>3, <1>a DEF InitPool
<1>4. CASE OpenPlot
  BY <1>4, <1>a DEF OpenPlot
<1>5. CASE SpawnWorker
  <2>0. PICK n \in Workers : n = next
    BY <1>5 DEF SpawnWorker, TypeOK, Workers
  <2>1. CASE Goto(next, "entry")
    <3>1. pc'[n] = "entry" /\ \A s \in Threads : s # n => pc'[s] = pc[s]
      BY <2>0, <2>1, GotoFacts
    <3>2. waiting' = waiting /\ pos' = pos /\ ts' = ts
          /\ gridVars' = gridVars /\ plotVars' = plotVars
      BY <1>5 DEF SpawnWorker
    <3>3. \A w \in Workers : \A c \in Cells : Swept(w, c)' => Swept(w, c)
      BY <3>1, <3>2 DEF Swept
    <3> QED
      BY <3>1, <3>2, <3>3, ValuesKept DEF StepComplete
  <2>2. CASE Goto(Manager, "at_start")
    BY <1>5, <2>2, <1>a DEF SpawnWorker
  <2> QED
    BY <1>5, <2>1, <2>2 DEF SpawnWorker
<1>6. CASE SpawnDone
  BY <1>6, <1>a DEF SpawnDone
<1>7. CASE ManagerArrivesAtStart
  <2>1. pc'[Manager] = "in_start" /\ \A w \in Workers : pc'[w] = pc[w]
    BY <1>7, GotoFacts DEF ManagerArrivesAtStart
  <2>2. waiting'["end"] = waiting["end"] /\ pos' = pos
    BY <1>7, ArriveCases DEF ManagerArrivesAtStart, Barriers
  <2>3. \A w \in Workers : \A c \in Cells : Swept(w, c)' => Swept(w, c)
    BY <2>1, <2>2 DEF Swept
  <2> QED
    BY <1>7, <2>1, <2>2, <2>3, ValuesKept DEF ManagerArrivesAtStart, StepComplete
<1>8. CASE ManagerLeavesStart
  BY <1>8, <1>a DEF ManagerLeavesStart
<1>9. CASE MarkDone
  BY <1>9, <1>a DEF MarkDone
<1>10. CASE ManagerArrivesAtEnd
  <2>1. pc'[Manager] = "in_end" /\ \A w \in Workers : pc'[w] = pc[w]
    BY <1>10, GotoFacts DEF ManagerArrivesAtEnd
  <2>2. waiting'["end"] \subseteq waiting["end"] \cup {Manager}
    BY <1>10, ArriveCases DEF ManagerArrivesAtEnd, Barriers
  <2>3. \A w \in Workers : \A c \in Cells : Swept(w, c)' => Swept(w, c)
    BY <1>10, <2>1, <2>2 DEF ManagerArrivesAtEnd, Swept
  <2>4. SweptInv' /\ FrameInv'
    BY <1>10, <2>1, <2>3 DEF ManagerArrivesAtEnd, ValueInv, SweptInv, FrameInv
  <2>5. CASE Manager \in waiting'["end"]
    BY <2>1, <2>4, <2>5 DEF ValueInv, StepInv, StepComplete
  <2>6. CASE Manager \notin waiting'["end"]
    BY <1>10, <2>1, <2>4, <2>6, ReleaseComplete DEF ManagerArrivesAtEnd, ValueInv
  <2> QED
    BY <2>5, <2>6
<1>11. CASE ManagerLeavesEnd
  <2>1. pc'[Manager] \in {"plot", "join"} /\ \A w \in Workers : pc'[w] = pc[w]
    BY <1>11, GotoFacts DEF ManagerLeavesEnd
  <2>2. StepComplete
    BY <1>11 DEF ManagerLeavesEnd, Released, StepComplete
  <2>3. \A w \in Workers : \A c \in Cells : Swept(w, c)' => Swept(w, c)
    BY <1>11, <2>1 DEF ManagerLeavesEnd, Swept
  <2>4. SweptInv' /\ StepInv'
    BY <1>11, <2>2, <2>3 DEF ManagerLeavesEnd, ValueInv, SweptInv, StepInv
  <2>5. \A c \in Cells : ~(c < pos'[Manager])
    BY <1>11 DEF ManagerLeavesEnd, PosInv, Cells
  <2>6. FrameInv'
    BY <1>11, <2>1, <2>5 DEF ManagerLeavesEnd, ValueInv, FrameInv
  <2> QED
    BY <2>4, <2>6 DEF ValueInv
<1>12. CASE PlotCell
  <2>1. pos'[Manager] = pos[Manager] + 1 /\ pos[Manager] \in Nat
        /\ \A w \in Workers : pos'[w] = pos[w]
    BY <1>12 DEF PlotCell, TypeOK
  <2>2. \A w \in Workers : \A c \in Cells : Swept(w, c)' => Swept(w, c)
    BY <1>12, <2>1 DEF PlotCell, Swept
  <2>3. SweptInv' /\ StepInv'
    BY <1>12, <2>2 DEF PlotCell, ValueInv, SweptInv, StepInv, StepComplete
  <2>4. \A c \in Cells : c < pos'[Manager] => frame'[c] = grid[prev_grid][c]
    BY <1>12, <2>1 DEF PlotCell, ValueInv, FrameInv, TypeOK, Cells
  <2>5. FrameInv'
    BY <1>12, <2>4 DEF PlotCell, ValueInv, FrameInv
  <2> QED
    BY <2>3, <2>5 DEF ValueInv
<1>13. CASE FlushFrame
  <2>1. pc'[Manager] = "swap" /\ \A w \in Workers : pc'[w] = pc[w]
    BY <1>13, GotoFacts DEF FlushFrame
  <2>2. \A w \in Workers : pos'[w] = pos[w]
    BY <1>13 DEF FlushFrame, TypeOK
  <2>3. \A w \in Workers : \A c \in Cells : Swept(w, c)' => Swept(w, c)
    BY <1>13, <2>1, <2>2 DEF FlushFrame, Swept
  <2>4. SweptInv' /\ StepInv'
    BY <1>13, <2>3 DEF FlushFrame, ValueInv, SweptInv, StepInv, StepComplete
  <2>5. Len(film') = Len(film) + 1
    BY <1>13 DEF FlushFrame, TypeOK
  <2>6. FrameInv'
    BY <1>13, <2>1, <2>5 DEF FlushFrame, ValueInv, FrameInv, TypeOK
  <2> QED
    BY <2>4, <2>6 DEF ValueInv
<1>14. CASE SwapGrids
  <2>1. pc'[Manager] = "at_start" /\ \A w \in Workers : pc'[w] = pc[w]
    BY <1>14, GotoFacts DEF SwapGrids
  <2>2. \A w \in Workers : ~Inside(w)
    BY <1>14 DEF SwapGrids, PhaseInv, Inside
  <2>3. \A w \in Workers : \A c \in Cells : ~Swept(w, c)'
    BY <1>14, <2>1, <2>2 DEF SwapGrids, Swept, Inside
  <2>4. SweptInv' /\ StepInv'
    BY <2>1, <2>3 DEF SweptInv, StepInv, StepComplete
  <2>5. FrameInv'
    BY <1>14, <2>1 DEF SwapGrids, ValueInv, FrameInv, TypeOK
  <2> QED
    BY <2>4, <2>5 DEF ValueInv
<1>15. CASE JoinWorker
  <2>1. \A w \in Workers : \A c \in Cells : Swept(w, c)' => Swept(w, c)
    BY <1>15 DEF JoinWorker, Swept
  <2> QED
    BY <1>15, <2>1, ValuesKept DEF JoinWorker, StepComplete
<1>16. CASE JoinDone
  BY <1>16, <1>a DEF JoinDone
<1>17. CASE DestroyPool
  BY <1>17, <1>a DEF DestroyPool
<1>18. CASE DestroyGrids
  BY <1>18, <1>a DEF DestroyGrids
<1> QED
  BY <1>1, <1>2, <1>3, <1>4, <1>5, <1>6, <1>7, <1>8, <1>9, <1>10, <1>11,
     <1>12, <1>13, <1>14, <1>15, <1>16, <1>17, <1>18 DEF ManagerStep

LEMMA ValueWorker ==
    ASSUME IInv, ValueInv, NEW w \in Workers, WorkerStep(w)
    PROVE  ValueInv'
<1> USE ThreadFacts DEF IInv, gridVars, plotVars
<1>a. ASSUME NEW l, Goto(w, l), l \notin {"sweep", "at_end", "in_end"},
             waiting'["end"] = waiting["end"], pos' = pos, ts' = ts,
             gridVars' = gridVars, plotVars' = plotVars
      PROVE  ValueInv'
  <2>1. pc'[w] = l /\ \A s \in Threads : s # w => pc'[s] = pc[s]
    BY <1>a, GotoFacts
  <2>2. \A v \in Workers : \A c \in Cells : Swept(v, c)' => Swept(v, c)
    BY <1>a, <2>1 DEF Swept
  <2> QED
    BY <1>a, <2>1, <2>2, ValuesKept DEF StepComplete
<1>1. CASE WorkerEnters(w)
  BY <1>1, <1>a DEF WorkerEnters
<1>2. CASE WorkerChecksQuit(w)
  BY <1>2, <1>a DEF WorkerChecksQuit
<1>3. CASE WorkerArrivesAtStart(w)
  <2>1. waiting'["end"] = waiting["end"]
    BY <1>3, ArriveCases DEF WorkerArrivesAtStart, Barriers
  <2>2. pc'[w] = "in_start" /\ \A s \in Threads : s # w => pc'[s] = pc[s]
    BY <1>3, GotoFacts DEF WorkerArrivesAtStart
  <2>3. \A v \in Workers : \A c \in Cells : Swept(v, c)' => Swept(v, c)
    BY <1>3, <2>1, <2>2 DEF WorkerArrivesAtStart, Swept
  <2> QED
    BY <1>3, <2>1, <2>2, <2>3, ValuesKept DEF WorkerArrivesAtStart, StepComplete
<1>4. CASE WorkerLeavesStart(w)
  <2>1. /\ pc'[w] = "sweep" /\ \A s \in Threads : s # w => pc'[s] = pc[s]
        /\ pos'[w] = RegionStart(w) /\ \A s \in Threads : s # w => pos'[s] = pos[s]
    BY <1>4, GotoFacts DEF WorkerLeavesStart, TypeOK
  <2>2. \A c \in Cells : ~Swept(w, c)'
    BY <2>1, RegionBounds DEF Swept, Cells
  <2>3. \A v \in Workers : \A c \in Cells : Swept(v, c)' => Swept(v, c)
    BY <1>4, <2>1, <2>2 DEF WorkerLeavesStart, Swept
  <2> QED
    BY <1>4, <2>1, <2>3 DEF WorkerLeavesStart, ValueInv, SweptInv, StepInv, StepComplete, FrameInv
<1>5. CASE UpdateCell(w)
  <2> DEFINE p == pos[w]
  <2>1. /\ pos'[w] = p + 1 /\ \A s \in Threads : s # w => pos'[s] = pos[s]
        /\ p \in Nat /\ RegionStart(w) <= p /\ p < RegionEnd(w) /\ p \in Cells
    BY <1>5, SweptCellInGrid DEF UpdateCell, TypeOK, PosInv
  <2>2. /\ prev_grid' = prev_grid /\ current_grid' = current_grid
        /\ grid'[prev_grid] = grid[prev_grid]
        /\ grid'[current_grid] = [grid[current_grid] EXCEPT ![p] = EulerStep(grid[prev_grid], p)]
    BY <1>5 DEF UpdateCell, TypeOK, PosInv
  <2>3. /\ grid'[current_grid][p] = EulerStep(grid[prev_grid], p)
        /\ \A c \in Cells : c # p => grid'[current_grid][c] = grid[current_grid][c]
    BY <2>1, <2>2 DEF TypeOK
  <2>4. ASSUME NEW v \in Workers, NEW c \in Cells, Swept(v, c)'
        PROVE  grid'[current_grid][c] = EulerStep(grid[prev_grid], c)
    <3>1. CASE v = w
      <4>1. c = p \/ Swept(v, c)
        BY <1>5, <2>1, <2>4, <3>1 DEF UpdateCell, Swept, Cells
      <4> QED
        BY <2>3, <4>1 DEF ValueInv, SweptInv
    <3>2. CASE v # w
      <4>1. Swept(v, c)
        BY <1>5, <2>1, <2>4, <3>2 DEF UpdateCell, Swept
      <4>2. RegionStart(v) <= c /\ c < RegionEnd(v)
        BY <4>1, RegionBounds DEF Swept, PosInv, TypeOK, Cells
      <4>3. c # p
        BY <2>1, <3>2, <4>2, RegionsDisjoint, RegionBounds DEF Workers
      <4> QED
        BY <2>3, <4>1, <4>3 DEF ValueInv, SweptInv
    <3> QED
      BY <3>1, <3>2
  <2>5. SweptInv'
    BY <2>2, <2>4 DEF SweptInv
  <2>6. ~StepComplete'
    <3>1. Inside(Manager)
      BY <1>5 DEF UpdateCell, PhaseInv, Inside
    <3> QED
      BY <1>5, <3>1 DEF UpdateCell, StepComplete, Inside
  <2>7. StepInv'
    BY <2>6 DEF StepInv
  <2>8. FrameInv'
    BY <1>5, <2>1, <2>2 DEF UpdateCell, ValueInv, FrameInv
  <2> QED
    BY <2>5, <2>7, <2>8 DEF ValueInv
<1>6. CASE SweepDone(w)
  <2>1. pc'[w] = "at_end" /\ \A s \in Threads : s # w => pc'[s] = pc[s]
    BY <1>6, GotoFacts DEF SweepDone
  <2>2. pos[w] = RegionEnd(w)
    BY <1>6, RegionBounds DEF SweepDone, PosInv, TypeOK
  <2>3. \A v \in Workers : \A c \in Cells : Swept(v, c)' => Swept(v, c)
    BY <1>6, <2>1, <2>2 DEF SweepDone, Swept
  <2> QED
    BY <1>6, <2>1, <2>3, ValuesKept DEF SweepDone, StepComplete
<1>7. CASE WorkerArrivesAtEnd(w)
  <2>1. pc'[w] = "in_end" /\ \A s \in Threads : s # w => pc'[s] = pc[s]
    BY <1>7, GotoFacts DEF WorkerArrivesAtEnd
  <2>2. waiting'["end"] \subseteq waiting["end"] \cup {w}
    BY <1>7, ArriveCases DEF WorkerArrivesAtEnd, Barriers
  <2>3. \A v \in Workers : \A c \in Cells : Swept(v, c)' => Swept(v, c)
    BY <1>7, <2>1, <2>2 DEF WorkerArrivesAtEnd, Swept
  <2>4. SweptInv' /\ FrameInv'
    BY <1>7, <2>1, <2>3 DEF WorkerArrivesAtEnd, ValueInv, SweptInv, FrameInv
  <2>5. CASE ~StepComplete'
    BY <2>4, <2>5 DEF ValueInv, StepInv
  <2>6. CASE StepComplete'
    <3>1. Inside(Manager)
      BY <1>7 DEF WorkerArrivesAtEnd, PhaseInv, Inside
    <3>2. pc'[Manager] = "in_end" /\ Manager \notin waiting'["end"]
      BY <2>1, <2>6, <3>1 DEF StepComplete, Inside
    <3> QED
      BY <1>7, <2>4, <3>2, ReleaseComplete DEF WorkerArrivesAtEnd, ValueInv
  <2> QED
    BY <2>5, <2>6
<1>8. CASE WorkerLeavesEnd(w)
  BY <1>8, <1>a DEF WorkerLeavesEnd
<1> QED
  BY <1>1, <1>2, <1>3, <1>4, <1>5, <1>6, <1>7, <1>8 DEF WorkerStep

THEOREM ValuesCorrect == Spec => [](IInv /\ ValueInv)
<1>1. Init => IInv /\ ValueInv
  BY IInvInit, ValueInit
<1>2. IInv /\ ValueInv /\ [Next]_vars => (IInv /\ ValueInv)'
  <2> SUFFICES ASSUME IInv, ValueInv, [Next]_vars PROVE IInv' /\ ValueInv'
    OBVIOUS
  <2>1. IInv'
    BY IInvNext
  <2>2. CASE ManagerStep
    BY <2>1, <2>2, ValueManager
  <2>3. CASE \E w \in Workers : WorkerStep(w)
    BY <2>1, <2>3, ValueWorker
  <2>4. CASE UNCHANGED vars
    BY <2>1, <2>4
       DEF vars, gridVars, plotVars, ValueInv, SweptInv, Swept, StepInv, StepComplete, FrameInv
  <2> QED
    BY <2>2, <2>3, <2>4 DEF Next, Terminated
<1> QED
  BY <1>1, <1>2, PTL DEF Spec

-----------------------------------------------------------------------------
(* The refinement mapping of RCSolver: base is the array prev_grid points to. *)
base == grid[prev_grid]
status == CASE pc[Manager] = "exit_failed" -> "failed"
            [] pc[Manager] = "exit_ok" -> "done"
            [] OTHER -> "run"

(* The abstract module's definitions about the mesh are those of Grid. *)
LEMMA SameGrid ==
    /\ Sequential!Cells = Cells /\ Sequential!ZeroGrid = ZeroGrid
    /\ \A g : Sequential!NextGrid(g) = NextGrid(g)
<1>1. Sequential!Cells = Cells
  BY DEF Sequential!Cells, Cells
<1>2. Sequential!ZeroGrid = ZeroGrid
  BY <1>1 DEF Sequential!ZeroGrid, ZeroGrid
<1>3. \A g, c : Sequential!at(g, c) = at(g, c)
  BY <1>1 DEF Sequential!at, at
<1>4. \A c : Sequential!X(c) = X(c) /\ Sequential!Y(c) = Y(c)
  BY DEF Sequential!X, X, Sequential!Y, Y
<1>5. \A c : Sequential!is_corner(c) = is_corner(c)
  BY <1>4 DEF Sequential!is_corner, is_corner
<1>6. \A c : Sequential!Stencil(c) = Stencil(c)
  BY <1>4 DEF Sequential!Stencil, Stencil, Sequential!Directions, Directions,
              Sequential!Lacking, Lacking
<1>7. \A d : Sequential!Offset(d) = Offset(d)
  BY DEF Sequential!Offset, Offset
<1>8. \A g, c, d : Sequential!Flow(g, c, d) = Flow(g, c, d)
  BY <1>3, <1>6, <1>7 DEF Sequential!Flow, Flow
<1>9. \A g, c : Sequential!voltage_at_adjacent(g, c) = voltage_at_adjacent(g, c)
  BY <1>8 DEF Sequential!voltage_at_adjacent, voltage_at_adjacent
<1>10. \A g, c : Sequential!EulerStep(g, c) = EulerStep(g, c)
  BY <1>5, <1>9 DEF Sequential!EulerStep, EulerStep
<1>11. \A g : Sequential!NextGrid(g) = NextGrid(g)
  BY <1>1, <1>10 DEF Sequential!NextGrid, NextGrid
<1> QED
  BY <1>1, <1>2, <1>11

LEMMA MappedInit == Init => Sequential!SeqInit
<1> SUFFICES ASSUME Init PROVE Sequential!SeqInit
  OBVIOUS
<1>1. pc[Manager] = "make_prev"
  BY ThreadFacts DEF Init
<1> QED
  BY <1>1, SameGrid DEF Init, Sequential!SeqInit, Arrays

(* Steps that leave the current time step, the counter and the film alone. *)
LEMMA MappedStutter ==
    ASSUME base' = base, ts' = ts, film' = film, status' = status
    PROVE  UNCHANGED Sequential!seqVars
  BY DEF base, status, Sequential!seqVars

LEMMA MappedManager ==
    ASSUME IInv, ValueInv, ManagerStep
    PROVE  [Sequential!SeqNext]_(Sequential!seqVars)
<1> USE ThreadFacts DEF IInv, gridVars, plotVars
<1>a. ASSUME grid' = grid, prev_grid' = prev_grid, ts' = ts, film' = film,
             pc[Manager] \notin FinalPC, pc'[Manager] \notin FinalPC
      PROVE  UNCHANGED Sequential!seqVars
  BY <1>a, MappedStutter DEF base, status, FinalPC
<1>b. ASSUME grid' = grid, prev_grid' = prev_grid, ts' = ts, film' = film,
             pc[Manager] \in SetupPC, pc'[Manager] = "exit_failed"
      PROVE  Sequential!GiveUp
  <2>1. Len(film) = 0
    BY <1>b DEF LoopInv, ValueInv, FrameInv, SetupPC
  <2>2. film = <<>>
    BY <2>1 DEF TypeOK
  <2> QED
    BY <1>b, <2>2 DEF Sequential!GiveUp, SetupPC
<1> USE DEF FinalPC
<1>1. CASE MakePrevGrid
  BY <1>1, <1>a, <1>b, GotoFacts DEF MakePrevGrid, SetupPC, Sequential!SeqNext
<1>2. CASE MakeCurrentGrid
  BY <1>2, <1>a, <1>b, GotoFacts DEF MakeCurrentGrid, SetupPC, Sequential!SeqNext
<1>3. CASE InitPool
  BY <1>3, <1>a, <1>b, GotoFacts DEF InitPool, SetupPC, Sequential!SeqNext
<1>4. CASE OpenPlot
  BY <1>4, <1>a, <1>b, GotoFacts DEF OpenPlot, SetupPC, Sequential!SeqNext
<1>5. CASE SpawnWorker
  <2>1. next \in Workers
    BY <1>5 DEF SpawnWorker, TypeOK, Workers
  <2>2. pc'[Manager] \in {"spawn", "at_start"}
    BY <1>5, <2>1, GotoFacts DEF SpawnWorker
  <2> QED
    BY <1>5, <1>a, <2>2 DEF SpawnWorker
<1>6. CASE SpawnDone
  BY <1>6, <1>a, GotoFacts DEF SpawnDone
<1>7. CASE ManagerArrivesAtStart
  BY <1>7, <1>a, GotoFacts DEF ManagerArrivesAtStart
<1>8. CASE ManagerLeavesStart
  BY <1>8, <1>a, GotoFacts DEF ManagerLeavesStart
<1>9. CASE MarkDone
  BY <1>9, <1>a, GotoFacts DEF MarkDone
<1>10. CASE ManagerArrivesAtEnd
  BY <1>10, <1>a, GotoFacts DEF ManagerArrivesAtEnd
<1>11. CASE ManagerLeavesEnd
  BY <1>11, <1>a, GotoFacts DEF ManagerLeavesEnd
<1>12. CASE PlotCell
  BY <1>12, <1>a DEF PlotCell
<1>13. CASE FlushFrame
  <2>1. frame = grid[prev_grid]
    <3>1. \A c \in Cells : c < pos[Manager]
      BY <1>13, GridAssumption DEF FlushFrame, TypeOK, Cells
    <3>2. \A c \in Cells : frame[c] = grid[prev_grid][c]
      BY <1>13, <3>1 DEF FlushFrame, ValueInv, FrameInv
    <3> QED
      BY <3>2 DEF TypeOK
  <2>2. ts < T /\ Len(film) = ts - 1 /\ pc'[Manager] = "swap"
    BY <1>13, GotoFacts DEF FlushFrame, LoopInv, ValueInv, FrameInv
  <2>3. Sequential!Plot
    BY <1>13, <2>1, <2>2 DEF FlushFrame, Sequential!Plot
  <2> QED
    BY <2>3 DEF Sequential!SeqNext
<1>14. CASE SwapGrids
  <2>1. grid[current_grid] = NextGrid(grid[prev_grid])
    <3>1. \A c \in Cells : grid[current_grid][c] = EulerStep(grid[prev_grid], c)
      BY <1>14 DEF SwapGrids, ValueInv, StepInv, StepComplete
    <3> QED
      BY <3>1 DEF TypeOK, NextGrid
  <2>2. ts < T /\ Len(film) = ts /\ pc'[Manager] = "at_start"
    BY <1>14, GotoFacts DEF SwapGrids, LoopInv, ValueInv, FrameInv
  <2>3. Sequential!Advance
    BY <1>14, <2>1, <2>2, SameGrid DEF SwapGrids, Sequential!Advance
  <2> QED
    BY <2>3 DEF Sequential!SeqNext
<1>15. CASE JoinWorker
  BY <1>15, <1>a DEF JoinWorker
<1>16. CASE JoinDone
  BY <1>16, <1>a, GotoFacts DEF JoinDone
<1>17. CASE DestroyPool
  BY <1>17, <1>a, GotoFacts DEF DestroyPool
<1>18. CASE DestroyGrids
  <2>1. pc'[Manager] = "exit_ok" /\ ~(ts < T)
    BY <1>18, GotoFacts DEF DestroyGrids, LoopInv, EndPC
  <2>2. Sequential!Finish
    BY <1>18, <2>1 DEF DestroyGrids, Sequential!Finish
  <2> QED
    BY <2>2 DEF Sequential!SeqNext
<1> QED
  BY <1>1, <1>2, <1>3, <1>4, <1>5, <1>6, <1>7, <1>8, <1>9, <1>10, <1>11,
     <1>12, <1>13, <1>14, <1>15, <1>16, <1>17, <1>18 DEF ManagerStep

LEMMA MappedWorker ==
    ASSUME IInv, NEW w \in Workers, WorkerStep(w)
    PROVE  UNCHANGED Sequential!seqVars
<1> USE ThreadFacts DEF gridVars, plotVars
<1>1. /\ pc'[Manager] = pc[Manager] /\ ts' = ts /\ film' = film
      /\ prev_grid' = prev_grid
  BY GotoFacts
     DEF IInv, WorkerStep, WorkerEnters, WorkerChecksQuit, WorkerArrivesAtStart,
         WorkerLeavesStart, UpdateCell, SweepDone, WorkerArrivesAtEnd, WorkerLeavesEnd
<1>2. grid'[prev_grid] = grid[prev_grid]
  <2>1. CASE UpdateCell(w)
    BY <2>1 DEF UpdateCell, IInv, PosInv, TypeOK
  <2>2. CASE grid' = grid
    BY <2>2
  <2> QED
    BY <2>1, <2>2
       DEF WorkerStep, WorkerEnters, WorkerChecksQuit, WorkerArrivesAtStart,
           WorkerLeavesStart, SweepDone, WorkerArrivesAtEnd, WorkerLeavesEnd
<1> QED
  BY <1>1, <1>2, MappedStutter DEF base, status

(***************************************************************************)
(* The workers, the barriers and the two buffers together compute and plot *)
(* what one thread would (main.c 96-126, worker.c 81-139).                 *)
(***************************************************************************)
THEOREM Refinement == Spec => ImplementsSequential
<1>1. Init => Sequential!SeqInit
  BY MappedInit
<1>2. IInv /\ ValueInv /\ [Next]_vars => [Sequential!SeqNext]_(Sequential!seqVars)
  <2> SUFFICES ASSUME IInv, ValueInv, [Next]_vars
               PROVE  [Sequential!SeqNext]_(Sequential!seqVars)
    OBVIOUS
  <2>1. CASE ManagerStep
    BY <2>1, MappedManager
  <2>2. CASE \E w \in Workers : WorkerStep(w)
    BY <2>2, MappedWorker
  <2>3. CASE UNCHANGED vars
    BY <2>3, MappedStutter DEF vars, gridVars, plotVars, base, status
  <2> QED
    BY <2>1, <2>2, <2>3 DEF Next, Terminated
<1> QED
  BY <1>1, <1>2, ValuesCorrect, PTL DEF Spec, ImplementsSequential, Sequential!SeqSpec
=============================================================================
