--------------------------- MODULE RCSolverProofs ---------------------------
(***************************************************************************)
(* Proofs about RCSolver for every mesh, every number of workers and steps *)
(* and every set of failures.  The argument is about the two barriers:     *)
(* all threads are between a released start barrier and an unreleased end  *)
(* barrier ("inside"), or none is.  Who may touch what follows from that,  *)
(* and that there is always somebody who need not wait.                    *)
(***************************************************************************)
EXTENDS RCSolver, GridProofs, FiniteSetTheorems

-----------------------------------------------------------------------------
(* The inductive invariant *)

(* Thread t is past the start barrier and has not been let past the end. *)
Inside(t) ==
    \/ pc[t] = "in_start" /\ t \notin waiting["start"]
    \/ pc[t] \in {"sweep", "at_end", "mark"}
    \/ pc[t] = "in_end" /\ t \in waiting["end"]

PhaseInv == \/ \A t \in Threads : Inside(t)
            \/ \A t \in Threads : ~Inside(t)

WaitInv == \A t \in Threads : /\ t \in waiting["start"] => pc[t] = "in_start"
                              /\ t \in waiting["end"] => pc[t] = "in_end"

EndPC == {"join", "destroy_pool", "destroy_grids", "exit_ok"}

QuitInv == quit = 1 <=> \/ pc[Manager] \in EndPC
                        \/ pc[Manager] \in {"at_end", "in_end"} /\ ~(ts < T)

LeaveInv == \A w \in Workers :
                /\ quit = 1 /\ ~Inside(w) => pc[w] \in {"in_end", "check", "done"}
                /\ pc[w] = "done" => quit = 1

(* The loop counter: frames are plotted only inside the loop of main. *)
LoopInv == /\ pc[Manager] \in SetupPC \cup {"spawn", "exit_failed"} => ts = 1
           /\ pc[Manager] \in {"plot", "swap"} => ts < T
           /\ pc[Manager] = "mark" => ~(ts < T)
           /\ pc[Manager] \in EndPC => ~(ts < T)

SpawnInv == /\ pc[Manager] \in SetupPC \cup {"exit_failed"}
                  => next = 0 /\ \A w \in Workers : pc[w] = "none"
            /\ pc[Manager] = "spawn" => \A w \in Workers : w >= next => pc[w] = "none"

ArgsInv == /\ pc[Manager] \in SetupPC \cup {"exit_failed"} => args = {}
           /\ \A w \in Workers : pc[w] \notin {"none", "done"} => w \in args
           /\ pc[Manager] = "join"
                  => \A w \in Workers : w < next => pc[w] = "done" /\ w \notin args
           /\ pc[Manager] \in EndPC \ {"join"}
                  => args = {} /\ \A w \in Workers : pc[w] = "done"

PoolPC == SyncPC \cup {"popen", "spawn", "mark", "plot", "swap", "join", "destroy_pool"}

HeapInv == /\ pc[Manager] = "make_prev" => heap = {}
           /\ pc[Manager] = "make_current" => heap = {"prev_grid"}
           /\ pc[Manager] \in {"init_pool", "destroy_grids"} => heap = GridBlocks
           /\ pc[Manager] = "exit_ok" => heap = {}
           /\ pc[Manager] \in PoolPC => heap = PoolBlocks \cup GridBlocks

PosInv == /\ prev_grid # current_grid
          /\ \A w \in Workers : pc[w] = "sweep" => /\ RegionStart(w) <= pos[w]
                                                   /\ pos[w] <= RegionEnd(w)
          /\ pos[Manager] <= W * H
          /\ pc[Manager] # "plot" => pos[Manager] = 0

IInv == /\ TypeOK
        /\ PhaseInv /\ WaitInv
        /\ QuitInv /\ LeaveInv /\ LoopInv
        /\ SpawnInv /\ ArgsInv /\ HeapInv
        /\ PosInv

-----------------------------------------------------------------------------
(* Arithmetic of the row partition *)

(* The N blocks of rows have equal heights and make up the mesh. *)
LEMMA RowsPerWorker ==
    rows_per_worker \in Nat /\ rows_per_worker * N = H
<1>1. N \in Nat /\ N > 0 /\ H \in Nat /\ H % N = 0
  BY GridAssumption, SolverAssumption
<1>2. H = N * (H \div N) + (H % N)
  BY <1>1
<1> QED
  BY <1>1, <1>2 DEF rows_per_worker

(* The regions that fill_pool computes lie in the grid, in worker order. *)
LEMMA RegionBounds ==
    ASSUME NEW w \in Workers
    PROVE  /\ RegionStart(w) \in Nat /\ RegionEnd(w) \in Nat
           /\ RegionStart(w) <= RegionEnd(w)
           /\ RegionEnd(w) <= W * H
           /\ W * H \in Nat
<1> DEFINE r == rows_per_worker
<1>1. r \in Nat /\ r * N = H /\ W \in Nat /\ w \in Nat /\ w + 1 <= N /\ N \in Nat
  BY RowsPerWorker, GridAssumption, SolverAssumption DEF Workers
<1> HIDE DEF r
<1>2. r * w \in Nat /\ r * (w + 1) \in Nat /\ r * w <= r * (w + 1) /\ r * (w + 1) <= r * N
  BY <1>1, MulMonotonic
<1>3. /\ W * (r * w) \in Nat /\ W * (r * (w + 1)) \in Nat /\ W * H \in Nat
      /\ W * (r * w) <= W * (r * (w + 1))
      /\ W * (r * (w + 1)) <= W * (r * N)
  BY <1>1, <1>2, MulMonotonic
<1> QED
  BY <1>1, <1>3 DEF RegionStart, RegionEnd, r

(* No cell belongs to two workers. *)
LEMMA RegionsDisjoint ==
    ASSUME NEW v \in Workers, NEW w \in Workers, v < w
    PROVE  RegionEnd(v) <= RegionStart(w)
<1> DEFINE r == rows_per_worker
<1>1. r \in Nat /\ W \in Nat /\ v \in Nat /\ w \in Nat /\ v + 1 <= w
  BY RowsPerWorker, GridAssumption, SolverAssumption DEF Workers
<1> HIDE DEF r
<1>2. r * (v + 1) <= r * w /\ r * (v + 1) \in Nat /\ r * w \in Nat
  BY <1>1, MulMonotonic
<1>3. W * (r * (v + 1)) <= W * (r * w)
  BY <1>1, <1>2, MulMonotonic
<1> QED
  BY <1>3 DEF RegionStart, RegionEnd, r

(* Every cell is some worker's: the regions cover the grid. *)
LEMMA RegionsCover ==
    ASSUME NEW c \in Cells
    PROVE  \E w \in Workers : RegionStart(w) <= c /\ c < RegionEnd(w)
<1> DEFINE m == W * rows_per_worker
           w == c \div m
<1>1. /\ rows_per_worker \in Nat /\ rows_per_worker * N = H
      /\ W \in Nat /\ H \in Nat /\ N \in Nat
      /\ c \in Nat /\ c < W * H /\ W * H \in Nat
  BY RowsPerWorker, GridAssumption, SolverAssumption DEF Cells
<1>2. m \in Nat /\ m * N = W * H
  BY <1>1
<1>3. m > 0
  BY <1>1, <1>2
<1> HIDE DEF m
<1>4. w \in Nat /\ m * w <= c /\ c < m * (w + 1)
  BY <1>1, <1>2, <1>3
<1> HIDE DEF w
<1>5. w < N
  <2> SUFFICES ASSUME N <= w PROVE FALSE
    BY <1>1, <1>4
  <2>1. m * N <= m * w
    BY <1>1, <1>2, <1>4, MulMonotonic
  <2>2. m * w \in Nat
    BY <1>2, <1>4
  <2> QED
    BY <2>1, <2>2, <1>1, <1>2, <1>4
<1>6. RegionStart(w) = m * w /\ RegionEnd(w) = m * (w + 1)
  BY <1>1, <1>4 DEF RegionStart, RegionEnd, m
<1>7. w \in Workers
  BY <1>1, <1>4, <1>5 DEF Workers
<1> QED
  BY <1>4, <1>6, <1>7

(* A worker inside its loops is at a cell of the grid. *)
LEMMA SweptCellInGrid ==
    ASSUME NEW w \in Workers, NEW c \in Int, RegionStart(w) <= c, c < RegionEnd(w)
    PROVE  c \in Cells
  BY RegionBounds DEF Cells

-----------------------------------------------------------------------------
(* The update of a cell is an integer when the grid holds integers. *)
LEMMA EulerStepType ==
    ASSUME NEW g \in [Cells -> Int], NEW c \in Cells
    PROVE  EulerStep(g, c) \in Int
<1>1. \A e : at(g, e) \in Int
  BY GridAssumption DEF at
<1>2. \A d : Flow(g, c, d) \in Int
  BY <1>1 DEF Flow
<1>3. voltage_at_adjacent(g, c) \in Int
  BY <1>2 DEF voltage_at_adjacent
<1>4. \A a, b \in Int : a * b \in Int
  OBVIOUS
<1> QED
  BY <1>3, <1>4, GridAssumption DEF EulerStep

-----------------------------------------------------------------------------
(* Types *)

(* The locations: the manager is no worker, and both are threads. *)
LEMMA ThreadFacts ==
    /\ N \in Nat \ {0}
    /\ Manager \in Threads /\ Manager \notin Workers
    /\ Workers \subseteq Threads
    /\ \A t \in Threads : t = Manager \/ t \in Workers
  BY SolverAssumption DEF Manager, Threads, Workers

(* A barrier keeps a set of threads. *)
LEMMA ArriveType ==
    ASSUME TypeOK, NEW t \in Threads, NEW b \in Barriers, Arrive(t, b)
    PROVE  waiting' \in [Barriers -> SUBSET Threads]
  BY DEF TypeOK, Arrive

LEMMA TypeInit == Init => TypeOK
<1> SUFFICES ASSUME Init PROVE TypeOK
  OBVIOUS
<1> USE ThreadFacts DEF Init
<1>1. pc \in [Threads -> ManagerPC \cup WorkerPC] /\ pc[Manager] \in ManagerPC
      /\ \A w \in Workers : pc[w] \in WorkerPC
  BY DEF ManagerPC, WorkerPC, SetupPC
<1>2. ZeroGrid \in [Cells -> Int]
  BY DEF ZeroGrid
<1>3. grid \in [Arrays -> [Cells -> Int]] /\ frame \in [Cells -> Int]
  BY <1>2
<1>4. film \in Seq([Cells -> Int])
  OBVIOUS
<1>5. next \in 0 .. N
  BY ThreadFacts
<1>6. pos \in [Threads -> Nat] /\ waiting \in [Barriers -> SUBSET Threads]
  OBVIOUS
<1> QED
  BY <1>1, <1>3, <1>4, <1>5, <1>6 DEF TypeOK, Arrays

(* The steps of the manager respect the types. *)
LEMMA TypeManager ==
    ASSUME TypeOK, LoopInv, pos[Manager] <= W * H, ManagerStep
    PROVE  TypeOK'
<1> USE ThreadFacts DEF Goto, gridVars, memVars, plotVars
<1> USE DEF ManagerPC, WorkerPC, SetupPC, FinalPC, SyncPC
<1>1. CASE MakePrevGrid
  BY <1>1 DEF MakePrevGrid, TypeOK, GridBlocks
<1>2. CASE MakeCurrentGrid
  BY <1>2 DEF MakeCurrentGrid, TypeOK, GridBlocks
<1>3. CASE InitPool
  BY <1>3 DEF InitPool, TypeOK, GridBlocks, PoolBlocks
<1>4. CASE OpenPlot
  BY <1>4 DEF OpenPlot, TypeOK
<1>5. CASE SpawnWorker
  <2>1. next \in Workers
    BY <1>5 DEF SpawnWorker, TypeOK, Workers
  <2> QED
    <3>1. pc' = [pc EXCEPT ![next] = "entry"] \/ pc' = [pc EXCEPT ![Manager] = "at_start"]
      BY <1>5 DEF SpawnWorker
    <3>2. /\ pc' \in [Threads -> ManagerPC \cup WorkerPC]
          /\ pc'[Manager] \in ManagerPC
          /\ \A w \in Workers : pc'[w] \in WorkerPC
      BY <2>1, <3>1 DEF TypeOK
    <3>3. next' = next \/ next' = next + 1
      BY <1>5 DEF SpawnWorker
    <3>4. next' \in 0 .. N
      BY <2>1, <3>3 DEF TypeOK, Workers
    <3>5. args' = args \/ args' = args \cup {next}
      BY <1>5 DEF SpawnWorker
    <3>6. args' \subseteq Workers
      BY <2>1, <3>5 DEF TypeOK
    <3> QED
      BY <1>5, <3>2, <3>4, <3>6 DEF SpawnWorker, TypeOK
<1>6. CASE SpawnDone
  BY <1>6 DEF SpawnDone, TypeOK
<1>7. CASE ManagerArrivesAtStart
  <2>1. waiting' \in [Barriers -> SUBSET Threads]
    BY <1>7, ArriveType DEF ManagerArrivesAtStart, Barriers
  <2> QED
    BY <1>7, <2>1 DEF ManagerArrivesAtStart, TypeOK
<1>8. CASE ManagerLeavesStart
  BY <1>8 DEF ManagerLeavesStart, TypeOK
<1>9. CASE MarkDone
  BY <1>9 DEF MarkDone, TypeOK
<1>10. CASE ManagerArrivesAtEnd
  <2>1. waiting' \in [Barriers -> SUBSET Threads]
    BY <1>10, ArriveType DEF ManagerArrivesAtEnd, Barriers
  <2> QED
    BY <1>10, <2>1 DEF ManagerArrivesAtEnd, TypeOK
<1>11. CASE ManagerLeavesEnd
  <2>1. next' \in 0 .. N
    BY <1>11 DEF ManagerLeavesEnd, TypeOK
  <2> QED
    BY <1>11, <2>1 DEF ManagerLeavesEnd, TypeOK
<1>12. CASE PlotCell
  <2>1. pos[Manager] \in Cells
    BY <1>12, GridAssumption DEF PlotCell, TypeOK, Cells
  <2>2. frame' \in [Cells -> Int]
    BY <1>12, <2>1 DEF PlotCell, TypeOK
  <2> QED
    BY <1>12, <2>2 DEF PlotCell, TypeOK
<1>13. CASE FlushFrame
  <2>1. frame' \in [Cells -> Int]
    BY <1>13 DEF FlushFrame, ZeroGrid
  <2>2. film' \in Seq([Cells -> Int])
    BY <1>13 DEF FlushFrame, TypeOK
  <2> QED
    BY <1>13, <2>1, <2>2 DEF FlushFrame, TypeOK
<1>14. CASE SwapGrids
  <2>1. ts' \in Nat /\ ts' <= T
    BY <1>14, SolverAssumption DEF SwapGrids, TypeOK, LoopInv
  <2> QED
    BY <1>14, <2>1 DEF SwapGrids, TypeOK
<1>15. CASE JoinWorker
  BY <1>15 DEF JoinWorker, TypeOK
<1>16. CASE JoinDone
  BY <1>16 DEF JoinDone, TypeOK
<1>17. CASE DestroyPool
  BY <1>17 DEF DestroyPool, TypeOK
<1>18. CASE DestroyGrids
  BY <1>18 DEF DestroyGrids, TypeOK
<1> QED
  BY <1>1, <1>2, <1>3, <1>4, <1>5, <1>6, <1>7, <1>8, <1>9, <1>10, <1>11, <1>12,
     <1>13, <1>14, <1>15, <1>16, <1>17, <1>18 DEF ManagerStep

(* The steps of a worker respect the types. *)
LEMMA TypeWorker ==
    ASSUME TypeOK, PosInv, NEW w \in Workers, WorkerStep(w)
    PROVE  TypeOK'
<1> USE ThreadFacts DEF Goto, gridVars, memVars, plotVars, WorkerPC, SyncPC
<1>1. CASE WorkerEnters(w)
  BY <1>1 DEF WorkerEnters, TypeOK
<1>2. CASE WorkerChecksQuit(w)
  BY <1>2 DEF WorkerChecksQuit, TypeOK
<1>3. CASE WorkerArrivesAtStart(w)
  <2>1. waiting' \in [Barriers -> SUBSET Threads]
    BY <1>3, ArriveType DEF WorkerArrivesAtStart, Barriers
  <2> QED
    BY <1>3, <2>1 DEF WorkerArrivesAtStart, TypeOK
<1>4. CASE WorkerLeavesStart(w)
  <2>1. RegionStart(w) \in Nat
    BY RegionBounds
  <2> QED
    BY <1>4, <2>1 DEF WorkerLeavesStart, TypeOK
<1>5. CASE UpdateCell(w)
  <2>1. pos[w] \in Cells
    BY <1>5, SweptCellInGrid DEF UpdateCell, TypeOK, PosInv
  <2>2. EulerStep(grid[prev_grid], pos[w]) \in Int
    BY <2>1, EulerStepType DEF TypeOK
  <2>3. grid' \in [Arrays -> [Cells -> Int]]
    BY <1>5, <2>1, <2>2 DEF UpdateCell, TypeOK
  <2>4. pos' \in [Threads -> Nat]
    BY <1>5 DEF UpdateCell, TypeOK
  <2> QED
    BY <1>5, <2>3, <2>4 DEF UpdateCell, TypeOK
<1>6. CASE SweepDone(w)
  BY <1>6 DEF SweepDone, TypeOK
<1>7. CASE WorkerArrivesAtEnd(w)
  <2>1. waiting' \in [Barriers -> SUBSET Threads]
    BY <1>7, ArriveType DEF WorkerArrivesAtEnd, Barriers
  <2> QED
    BY <1>7, <2>1 DEF WorkerArrivesAtEnd, TypeOK
<1>8. CASE WorkerLeavesEnd(w)
  BY <1>8 DEF WorkerLeavesEnd, TypeOK
<1> QED
  BY <1>1, <1>2, <1>3, <1>4, <1>5, <1>6, <1>7, <1>8 DEF WorkerStep

-----------------------------------------------------------------------------
(* The barriers *)

(***************************************************************************)
(* A thread that arrives either joins the waiting threads or, when all the *)
(* others wait already, lets everybody go.                                 *)
(***************************************************************************)
LEMMA ArriveCases ==
    ASSUME TypeOK, NEW t \in Threads, NEW b \in Barriers, Arrive(t, b)
    PROVE  /\ \/ waiting'[b] = waiting[b] \cup {t}
              \/ waiting'[b] = {} /\ waiting[b] \cup {t} = Threads
           /\ \A d \in Barriers \ {b} : waiting'[d] = waiting[d]
<1> DEFINE arrived == waiting[b] \cup {t}
<1>1. arrived \subseteq Threads
  BY DEF TypeOK
<1>2. IsFiniteSet(Threads) /\ Cardinality(Threads) = N + 1
  BY FS_Interval, SolverAssumption DEF Threads
<1>3. Cardinality(arrived) = N + 1 => arrived = Threads
  BY <1>1, <1>2, FS_Subset
<1> QED
  BY <1>3 DEF Arrive, TypeOK

(* A step of one thread that stays on its side of the barriers. *)
LEMMA MoveKeepsPhase ==
    ASSUME TypeOK, PhaseInv, WaitInv,
           NEW t \in Threads, NEW l, Goto(t, l), waiting' = waiting,
           t \notin waiting["start"], t \notin waiting["end"],
           Inside(t)' <=> Inside(t)
    PROVE  PhaseInv' /\ WaitInv'
<1>1. \A s \in Threads : s # t => pc'[s] = pc[s]
  BY DEF Goto, TypeOK
<1>2. \A s \in Threads : Inside(s)' <=> Inside(s)
  BY <1>1 DEF Inside
<1>3. PhaseInv'
  BY <1>2 DEF PhaseInv
<1>4. WaitInv'
  BY <1>1 DEF WaitInv
<1> QED
  BY <1>3, <1>4

(* The last thread at the start barrier lets all of them inside. *)
LEMMA ArriveStartPhase ==
    ASSUME TypeOK, PhaseInv, WaitInv, NEW t \in Threads, pc[t] = "at_start",
           Arrive(t, "start"), Goto(t, "in_start")
    PROVE  PhaseInv' /\ WaitInv'
<1>1. /\ pc'[t] = "in_start"
      /\ \A s \in Threads : s # t => pc'[s] = pc[s]
  BY DEF Goto, TypeOK
<1>2. waiting'["end"] = waiting["end"]
  BY ArriveCases DEF Barriers
<1>3. \A s \in Threads : ~Inside(s)
  BY DEF PhaseInv, Inside
<1>4. CASE waiting'["start"] = waiting["start"] \cup {t}
  <2>1. \A s \in Threads : ~Inside(s)'
    BY <1>1, <1>2, <1>3, <1>4 DEF Inside
  <2>2. WaitInv'
    BY <1>1, <1>2, <1>4 DEF WaitInv
  <2> QED
    BY <2>1, <2>2 DEF PhaseInv
<1>5. CASE waiting'["start"] = {} /\ waiting["start"] \cup {t} = Threads
  <2>1. \A s \in Threads : pc'[s] = "in_start"
    BY <1>1, <1>5 DEF WaitInv
  <2>2. \A s \in Threads : Inside(s)'
    BY <1>5, <2>1 DEF Inside
  <2>3. WaitInv'
    BY <1>1, <1>2, <1>5 DEF WaitInv
  <2> QED
    BY <2>2, <2>3 DEF PhaseInv
<1> QED
  BY <1>4, <1>5, ArriveCases DEF Barriers

(* The last thread at the end barrier lets all of them out. *)
LEMMA ArriveEndPhase ==
    ASSUME TypeOK, PhaseInv, WaitInv, NEW t \in Threads, pc[t] = "at_end",
           Arrive(t, "end"), Goto(t, "in_end")
    PROVE  PhaseInv' /\ WaitInv'
<1>1. /\ pc'[t] = "in_end"
      /\ \A s \in Threads : s # t => pc'[s] = pc[s]
  BY DEF Goto, TypeOK
<1>2. waiting'["start"] = waiting["start"]
  BY ArriveCases DEF Barriers
<1>3. \A s \in Threads : Inside(s)
  BY DEF PhaseInv, Inside
<1>4. CASE waiting'["end"] = waiting["end"] \cup {t}
  <2>1. \A s \in Threads : Inside(s)'
    BY <1>1, <1>2, <1>3, <1>4 DEF Inside
  <2>2. WaitInv'
    BY <1>1, <1>2, <1>4 DEF WaitInv
  <2> QED
    BY <2>1, <2>2 DEF PhaseInv
<1>5. CASE waiting'["end"] = {} /\ waiting["end"] \cup {t} = Threads
  <2>1. \A s \in Threads : pc'[s] = "in_end"
    BY <1>1, <1>5 DEF WaitInv
  <2>2. \A s \in Threads : ~Inside(s)'
    BY <1>5, <2>1 DEF Inside
  <2>3. WaitInv'
    BY <1>1, <1>2, <1>5 DEF WaitInv
  <2> QED
    BY <2>2, <2>3 DEF PhaseInv
<1> QED
  BY <1>4, <1>5, ArriveCases DEF Barriers

(* No step of the manager tears the threads apart. *)
LEMMA PhaseManager ==
    ASSUME TypeOK, PhaseInv, WaitInv, SpawnInv, ManagerStep
    PROVE  PhaseInv' /\ WaitInv'
<1> USE ThreadFacts DEF Goto, Released
<1>0. /\ pc[Manager] # "in_start" => Manager \notin waiting["start"]
      /\ pc[Manager] # "in_end" => Manager \notin waiting["end"]
  BY DEF WaitInv
<1>a. ASSUME NEW l, Goto(Manager, l), waiting' = waiting,
             Manager \notin waiting["start"], Manager \notin waiting["end"],
             Inside(Manager)' <=> Inside(Manager)
      PROVE  PhaseInv' /\ WaitInv'
  BY <1>a, MoveKeepsPhase
<1>b. pc' = pc /\ waiting' = waiting => PhaseInv' /\ WaitInv'
  BY DEF PhaseInv, WaitInv, Inside
<1>1. CASE MakePrevGrid
  BY <1>0, <1>1, <1>a DEF MakePrevGrid, Inside, TypeOK
<1>2. CASE MakeCurrentGrid
  BY <1>0, <1>2, <1>a DEF MakeCurrentGrid, Inside, TypeOK
<1>3. CASE InitPool
  BY <1>0, <1>3, <1>a DEF InitPool, Inside, TypeOK
<1>4. CASE OpenPlot
  BY <1>0, <1>4, <1>a DEF OpenPlot, Inside, TypeOK
<1>5. CASE SpawnWorker
  <2>0. PICK n \in Workers : n = next
    BY <1>5 DEF SpawnWorker, TypeOK, Workers
  <2>1. pc[n] = "none"
    BY <1>5, <2>0 DEF SpawnWorker, SpawnInv, TypeOK, Workers
  <2>2. n \notin waiting["start"] /\ n \notin waiting["end"]
    BY <2>1 DEF WaitInv
  <2>3. CASE Goto(next, "entry")
    <3>1. Inside(n)' <=> Inside(n)
      BY <2>0, <2>1, <2>3 DEF Inside, TypeOK
    <3> QED
      BY <1>5, <2>0, <2>1, <2>2, <2>3, <3>1, MoveKeepsPhase DEF SpawnWorker
  <2>4. CASE Goto(Manager, "at_start")
    <3>1. Inside(Manager)' <=> Inside(Manager)
      BY <1>5, <2>4 DEF SpawnWorker, Inside, TypeOK
    <3> QED
      BY <1>0, <1>5, <2>4, <3>1, <1>a DEF SpawnWorker
  <2> QED
    BY <1>5, <2>3, <2>4 DEF SpawnWorker
<1>6. CASE SpawnDone
  BY <1>0, <1>6, <1>a DEF SpawnDone, Inside, TypeOK
<1>7. CASE ManagerArrivesAtStart
  BY <1>7, ArriveStartPhase DEF ManagerArrivesAtStart
<1>8. CASE ManagerLeavesStart
  BY <1>0, <1>8, <1>a DEF ManagerLeavesStart, Inside, TypeOK
<1>9. CASE MarkDone
  BY <1>0, <1>9, <1>a DEF MarkDone, Inside, TypeOK
<1>10. CASE ManagerArrivesAtEnd
  BY <1>10, ArriveEndPhase DEF ManagerArrivesAtEnd
<1>11. CASE ManagerLeavesEnd
  BY <1>0, <1>11, <1>a DEF ManagerLeavesEnd, Inside, TypeOK
<1>12. CASE PlotCell
  BY <1>12, <1>b DEF PlotCell
<1>13. CASE FlushFrame
  BY <1>0, <1>13, <1>a DEF FlushFrame, Inside, TypeOK
<1>14. CASE SwapGrids
  BY <1>0, <1>14, <1>a DEF SwapGrids, Inside, TypeOK
<1>15. CASE JoinWorker
  BY <1>15, <1>b DEF JoinWorker
<1>16. CASE JoinDone
  BY <1>0, <1>16, <1>a DEF JoinDone, Inside, TypeOK
<1>17. CASE DestroyPool
  BY <1>0, <1>17, <1>a DEF DestroyPool, Inside, TypeOK
<1>18. CASE DestroyGrids
  BY <1>0, <1>18, <1>a DEF DestroyGrids, Inside, TypeOK
<1> QED
  BY <1>1, <1>2, <1>3, <1>4, <1>5, <1>6, <1>7, <1>8, <1>9, <1>10, <1>11, <1>12,
     <1>13, <1>14, <1>15, <1>16, <1>17, <1>18 DEF ManagerStep

(* No step of a worker tears the threads apart. *)
LEMMA PhaseWorker ==
    ASSUME TypeOK, PhaseInv, WaitInv, NEW w \in Workers, WorkerStep(w)
    PROVE  PhaseInv' /\ WaitInv'
<1> USE ThreadFacts DEF Goto, Released
<1>0. /\ pc[w] # "in_start" => w \notin waiting["start"]
      /\ pc[w] # "in_end" => w \notin waiting["end"]
  BY DEF WaitInv
<1>a. ASSUME NEW l, Goto(w, l), waiting' = waiting,
             w \notin waiting["start"], w \notin waiting["end"],
             Inside(w)' <=> Inside(w)
      PROVE  PhaseInv' /\ WaitInv'
  BY <1>a, MoveKeepsPhase
<1>1. CASE WorkerEnters(w)
  BY <1>0, <1>1, <1>a DEF WorkerEnters, Inside, TypeOK
<1>2. CASE WorkerChecksQuit(w)
  BY <1>0, <1>2, <1>a DEF WorkerChecksQuit, Inside, TypeOK
<1>3. CASE WorkerArrivesAtStart(w)
  BY <1>3, ArriveStartPhase DEF WorkerArrivesAtStart
<1>4. CASE WorkerLeavesStart(w)
  BY <1>0, <1>4, <1>a DEF WorkerLeavesStart, Inside, TypeOK
<1>5. CASE UpdateCell(w)
  BY <1>5 DEF UpdateCell, PhaseInv, WaitInv, Inside
<1>6. CASE SweepDone(w)
  BY <1>0, <1>6, <1>a DEF SweepDone, Inside, TypeOK
<1>7. CASE WorkerArrivesAtEnd(w)
  BY <1>7, ArriveEndPhase DEF WorkerArrivesAtEnd
<1>8. CASE WorkerLeavesEnd(w)
  BY <1>0, <1>8, <1>a DEF WorkerLeavesEnd, Inside, TypeOK
<1> QED
  BY <1>1, <1>2, <1>3, <1>4, <1>5, <1>6, <1>7, <1>8 DEF WorkerStep

-----------------------------------------------------------------------------
(* The quit flag and the loop of the manager *)

(* The program counter of one thread moves, the others stay. *)
LEMMA GotoFacts ==
    ASSUME TypeOK, NEW t \in Threads, NEW l, Goto(t, l)
    PROVE  pc'[t] = l /\ \A s \in Threads : s # t => pc'[s] = pc[s]
  BY DEF Goto, TypeOK

(***************************************************************************)
(* The flag is set exactly while the manager is between mark_done and its  *)
(* exit, and frames are plotted exactly while i < timesteps.               *)
(***************************************************************************)
LEMMA QuitManager ==
    ASSUME TypeOK, QuitInv, LoopInv, SpawnInv, ManagerStep
    PROVE  QuitInv' /\ LoopInv'
<1> USE ThreadFacts DEF QuitInv, LoopInv, EndPC, SetupPC
<1>1. CASE MakePrevGrid
  BY <1>1, GotoFacts DEF MakePrevGrid, TypeOK
<1>2. CASE MakeCurrentGrid
  BY <1>2, GotoFacts DEF MakeCurrentGrid, TypeOK
<1>3. CASE InitPool
  BY <1>3, GotoFacts DEF InitPool, TypeOK
<1>4. CASE OpenPlot
  BY <1>4, GotoFacts DEF OpenPlot, TypeOK
<1>5. CASE SpawnWorker
  <2>1. pc'[Manager] \in {"spawn", "at_start"}
    BY <1>5 DEF SpawnWorker, Goto, TypeOK, Workers, Manager
  <2> QED
    BY <1>5, <2>1 DEF SpawnWorker, TypeOK
<1>6. CASE SpawnDone
  BY <1>6, GotoFacts DEF SpawnDone, TypeOK
<1>7. CASE ManagerArrivesAtStart
  BY <1>7, GotoFacts DEF ManagerArrivesAtStart, TypeOK
<1>8. CASE ManagerLeavesStart
  BY <1>8, GotoFacts DEF ManagerLeavesStart, TypeOK
<1>9. CASE MarkDone
  BY <1>9, GotoFacts DEF MarkDone, TypeOK
<1>10. CASE ManagerArrivesAtEnd
  BY <1>10, GotoFacts DEF ManagerArrivesAtEnd, TypeOK
<1>11. CASE ManagerLeavesEnd
  BY <1>11, GotoFacts DEF ManagerLeavesEnd, TypeOK
<1>12. CASE PlotCell
  BY <1>12 DEF PlotCell, gridVars
<1>13. CASE FlushFrame
  BY <1>13, GotoFacts DEF FlushFrame, TypeOK
<1>14. CASE SwapGrids
  BY <1>14, GotoFacts DEF SwapGrids, TypeOK
<1>15. CASE JoinWorker
  BY <1>15 DEF JoinWorker, gridVars
<1>16. CASE JoinDone
  BY <1>16, GotoFacts DEF JoinDone, TypeOK
<1>17. CASE DestroyPool
  BY <1>17, GotoFacts DEF DestroyPool, TypeOK
<1>18. CASE DestroyGrids
  BY <1>18, GotoFacts DEF DestroyGrids, TypeOK
<1> QED
  BY <1>1, <1>2, <1>3, <1>4, <1>5, <1>6, <1>7, <1>8, <1>9, <1>10, <1>11,
     <1>12, <1>13, <1>14, <1>15, <1>16, <1>17, <1>18 DEF ManagerStep

LEMMA QuitWorker ==
    ASSUME TypeOK, QuitInv, LoopInv, NEW w \in Workers, WorkerStep(w)
    PROVE  QuitInv' /\ LoopInv'
<1>1. pc'[Manager] = pc[Manager] /\ quit' = quit /\ ts' = ts
  BY ThreadFacts, GotoFacts
     DEF WorkerStep, WorkerEnters, WorkerChecksQuit, WorkerArrivesAtStart,
         WorkerLeavesStart, UpdateCell, SweepDone, WorkerArrivesAtEnd, WorkerLeavesEnd
<1> QED
  BY <1>1 DEF QuitInv, LoopInv

(* At a release of the end barrier every thread is in that barrier. *)
LEMMA ArriveEndPC ==
    ASSUME TypeOK, WaitInv, NEW t \in Threads, pc[t] = "at_end",
           Arrive(t, "end"), Goto(t, "in_end"),
           NEW s \in Threads, ~Inside(s)'
    PROVE  ~Inside(s) \/ pc'[s] = "in_end"
<1>1. CASE waiting'["end"] = waiting["end"] \cup {t}
  BY <1>1, GotoFacts, ArriveCases DEF Inside, Barriers
<1>2. CASE waiting'["end"] = {} /\ waiting["end"] \cup {t} = Threads
  BY <1>2, GotoFacts DEF WaitInv
<1> QED
  BY <1>1, <1>2, ArriveCases DEF Barriers

(* A step that leaves worker w and the barriers alone keeps w on its side. *)
LEMMA SameSide ==
    ASSUME NEW t \in Threads, pc'[t] = pc[t], waiting' = waiting
    PROVE  Inside(t)' <=> Inside(t)
  BY DEF Inside

(* Once the flag is set the workers outside are on their way out. *)
LEMMA LeaveManager ==
    ASSUME TypeOK, PhaseInv, WaitInv, QuitInv, LeaveInv, LoopInv, SpawnInv, ManagerStep
    PROVE  LeaveInv'
<1> USE ThreadFacts
<1>a. SUFFICES ASSUME NEW w \in Workers
               PROVE  /\ quit' = 1 /\ ~Inside(w)' => pc'[w] \in {"in_end", "check", "done"}
                      /\ pc'[w] = "done" => quit' = 1
  BY DEF LeaveInv
<1>b. ASSUME pc'[w] = pc[w], waiting' = waiting, quit' = quit
      PROVE  /\ quit' = 1 /\ ~Inside(w)' => pc'[w] \in {"in_end", "check", "done"}
             /\ pc'[w] = "done" => quit' = 1
  BY <1>b, SameSide DEF LeaveInv
<1>1. CASE MakePrevGrid
  BY <1>1, <1>b, GotoFacts DEF MakePrevGrid, TypeOK
<1>2. CASE MakeCurrentGrid
  BY <1>2, <1>b, GotoFacts DEF MakeCurrentGrid, TypeOK
<1>3. CASE InitPool
  BY <1>3, SameSide, GotoFacts DEF InitPool, SpawnInv, SetupPC
<1>4. CASE OpenPlot
  BY <1>4, <1>b, GotoFacts DEF OpenPlot, TypeOK
<1>5. CASE SpawnWorker
  <2>1. quit' = 0
    BY <1>5 DEF SpawnWorker, QuitInv, EndPC, TypeOK
  <2>2. pc'[w] # "done"
    <3>1. pc[w] # "done"
      BY <1>5, <2>1 DEF SpawnWorker, LeaveInv
    <3> QED
      BY <1>5, <3>1 DEF SpawnWorker, Goto, TypeOK
  <2> QED
    BY <2>1, <2>2
<1>6. CASE SpawnDone
  BY <1>6, <1>b, GotoFacts DEF SpawnDone, TypeOK
<1>7. CASE ManagerArrivesAtStart
  <2>1. pc'[w] = pc[w] /\ quit' = quit
    BY <1>7, GotoFacts DEF ManagerArrivesAtStart
  <2>2. Inside(w) => Inside(w)'
    BY <1>7, <2>1, ArriveCases DEF ManagerArrivesAtStart, Inside, Barriers, PhaseInv
  <2> QED
    BY <2>1, <2>2 DEF LeaveInv
<1>8. CASE ManagerLeavesStart
  BY <1>8, <1>b, GotoFacts DEF ManagerLeavesStart, TypeOK
<1>9. CASE MarkDone
  <2>1. Inside(w) /\ Inside(w)'
    BY <1>9, GotoFacts, SameSide DEF MarkDone, PhaseInv, Inside
  <2> QED
    BY <1>9, <2>1 DEF MarkDone
<1>10. CASE ManagerArrivesAtEnd
  <2>1. pc'[w] = pc[w] /\ quit' = quit
    BY <1>10, GotoFacts DEF ManagerArrivesAtEnd
  <2>2. ~Inside(w)' => ~Inside(w) \/ pc'[w] = "in_end"
    BY <1>10, ArriveEndPC DEF ManagerArrivesAtEnd
  <2> QED
    BY <2>1, <2>2 DEF LeaveInv
<1>11. CASE ManagerLeavesEnd
  BY <1>11, <1>b, GotoFacts DEF ManagerLeavesEnd, TypeOK
<1>12. CASE PlotCell
  BY <1>12, <1>b DEF PlotCell
<1>13. CASE FlushFrame
  BY <1>13, <1>b, GotoFacts DEF FlushFrame, TypeOK
<1>14. CASE SwapGrids
  BY <1>14, <1>b, GotoFacts DEF SwapGrids, TypeOK
<1>15. CASE JoinWorker
  BY <1>15, <1>b DEF JoinWorker
<1>16. CASE JoinDone
  BY <1>16, <1>b, GotoFacts DEF JoinDone, TypeOK
<1>17. CASE DestroyPool
  BY <1>17, <1>b, GotoFacts DEF DestroyPool, TypeOK
<1>18. CASE DestroyGrids
  BY <1>18, <1>b, GotoFacts DEF DestroyGrids, TypeOK
<1> QED
  BY <1>1, <1>2, <1>3, <1>4, <1>5, <1>6, <1>7, <1>8, <1>9, <1>10, <1>11,
     <1>12, <1>13, <1>14, <1>15, <1>16, <1>17, <1>18 DEF ManagerStep

LEMMA LeaveWorker ==
    ASSUME TypeOK, PhaseInv, WaitInv, QuitInv, LeaveInv, NEW v \in Workers, WorkerStep(v)
    PROVE  LeaveInv'
<1> USE ThreadFacts DEF Released
<1>a. SUFFICES ASSUME NEW w \in Workers
               PROVE  /\ quit' = 1 /\ ~Inside(w)' => pc'[w] \in {"in_end", "check", "done"}
                      /\ pc'[w] = "done" => quit' = 1
  BY DEF LeaveInv
<1>b. ASSUME waiting' = waiting, quit' = quit, pc'[w] = pc[w]
      PROVE  /\ quit' = 1 /\ ~Inside(w)' => pc'[w] \in {"in_end", "check", "done"}
             /\ pc'[w] = "done" => quit' = 1
  BY <1>b, SameSide DEF LeaveInv
<1>1. CASE WorkerEnters(v)
  BY <1>1, <1>b, GotoFacts DEF WorkerEnters, TypeOK, LeaveInv, Inside
<1>2. CASE WorkerChecksQuit(v)
  BY <1>2, <1>b, GotoFacts DEF WorkerChecksQuit, TypeOK, LeaveInv, Inside
<1>3. CASE WorkerArrivesAtStart(v)
  <2>1. quit' = quit /\ \A s \in Threads : s # v => pc'[s] = pc[s]
    BY <1>3, GotoFacts DEF WorkerArrivesAtStart
  <2>2. quit = 0
    BY <1>3 DEF WorkerArrivesAtStart, LeaveInv, Inside, TypeOK
  <2>3. pc'[w] # "done"
    BY <1>3, <2>1, <2>2, GotoFacts DEF WorkerArrivesAtStart, LeaveInv
  <2> QED
    BY <2>1, <2>2, <2>3
<1>4. CASE WorkerLeavesStart(v)
  BY <1>4, <1>b, GotoFacts DEF WorkerLeavesStart, TypeOK, LeaveInv, Inside
<1>5. CASE UpdateCell(v)
  BY <1>5, <1>b DEF UpdateCell
<1>6. CASE SweepDone(v)
  BY <1>6, <1>b, GotoFacts DEF SweepDone, TypeOK, LeaveInv, Inside
<1>7. CASE WorkerArrivesAtEnd(v)
  <2>1. /\ pc'[v] = "in_end" /\ quit' = quit
        /\ \A s \in Threads : s # v => pc'[s] = pc[s]
    BY <1>7, GotoFacts DEF WorkerArrivesAtEnd
  <2>2. ~Inside(w)' => ~Inside(w) \/ pc'[w] = "in_end"
    BY <1>7, ArriveEndPC DEF WorkerArrivesAtEnd
  <2> QED
    BY <2>1, <2>2 DEF LeaveInv
<1>8. CASE WorkerLeavesEnd(v)
  BY <1>8, <1>b, GotoFacts DEF WorkerLeavesEnd, TypeOK, LeaveInv, Inside
<1> QED
  BY <1>1, <1>2, <1>3, <1>4, <1>5, <1>6, <1>7, <1>8 DEF WorkerStep

-----------------------------------------------------------------------------
(* Memory *)

(***************************************************************************)
(* A worker has its argument block from its creation until it is joined.   *)
(***************************************************************************)
LEMMA MemoryManager ==
    ASSUME TypeOK, SpawnInv, ArgsInv, ManagerStep
    PROVE  SpawnInv' /\ ArgsInv'
<1> USE ThreadFacts DEF SetupPC, EndPC, memVars
<1>1. CASE MakePrevGrid
  BY <1>1, GotoFacts DEF MakePrevGrid, SpawnInv, ArgsInv
<1>2. CASE MakeCurrentGrid
  BY <1>2, GotoFacts DEF MakeCurrentGrid, SpawnInv, ArgsInv
<1>3. CASE InitPool
  BY <1>3, GotoFacts DEF InitPool, SpawnInv, ArgsInv
<1>4. CASE OpenPlot
  BY <1>4, GotoFacts DEF OpenPlot, SpawnInv, ArgsInv
<1>5. CASE SpawnWorker
  <2>0. PICK n \in Workers : n = next
    BY <1>5 DEF SpawnWorker, TypeOK, Workers
  <2>1. CASE Goto(next, "entry") /\ args' = args \cup {n} /\ next' = n + 1
    <3>1. pc'[n] = "entry" /\ \A s \in Threads : s # n => pc'[s] = pc[s]
      BY <2>0, <2>1, GotoFacts
    <3>2. pc'[Manager] = "spawn"
      BY <1>5, <3>1 DEF SpawnWorker
    <3>3. SpawnInv'
      BY <1>5, <2>0, <2>1, <3>1, <3>2 DEF SpawnWorker, SpawnInv, Workers
    <3>4. ArgsInv'
      BY <1>5, <2>1, <3>1, <3>2 DEF SpawnWorker, ArgsInv
    <3> QED
      BY <3>3, <3>4
  <2>2. CASE Goto(Manager, "at_start") /\ args' \in {args, args \cup {n}}
    <3>1. pc'[Manager] = "at_start" /\ \A s \in Threads : s # Manager => pc'[s] = pc[s]
      BY <2>2, GotoFacts
    <3> QED
      BY <1>5, <2>2, <3>1 DEF SpawnWorker, SpawnInv, ArgsInv
  <2> QED
    BY <1>5, <2>0, <2>1, <2>2 DEF SpawnWorker
<1>6. CASE SpawnDone
  BY <1>6, GotoFacts DEF SpawnDone, SpawnInv, ArgsInv
<1>7. CASE ManagerArrivesAtStart
  BY <1>7, GotoFacts DEF ManagerArrivesAtStart, SpawnInv, ArgsInv
<1>8. CASE ManagerLeavesStart
  BY <1>8, GotoFacts DEF ManagerLeavesStart, SpawnInv, ArgsInv
<1>9. CASE MarkDone
  BY <1>9, GotoFacts DEF MarkDone, SpawnInv, ArgsInv
<1>10. CASE ManagerArrivesAtEnd
  BY <1>10, GotoFacts DEF ManagerArrivesAtEnd, SpawnInv, ArgsInv
<1>11. CASE ManagerLeavesEnd
  <2>1. \A w \in Workers : ~(w < 0)
    BY DEF Workers
  <2>2. pc'[Manager] \in {"plot", "join"} /\ \A w \in Workers : pc'[w] = pc[w]
    BY <1>11, GotoFacts DEF ManagerLeavesEnd
  <2> QED
    <3>1. SpawnInv'
      BY <2>2 DEF SpawnInv
    <3>2. pc'[Manager] = "join" => next' = 0
      BY <1>11, <2>2, GotoFacts DEF ManagerLeavesEnd
    <3>3. args' = args
      BY <1>11 DEF ManagerLeavesEnd
    <3> QED
      BY <2>1, <2>2, <3>1, <3>2, <3>3 DEF ArgsInv
<1>12. CASE PlotCell
  BY <1>12 DEF PlotCell, SpawnInv, ArgsInv
<1>13. CASE FlushFrame
  BY <1>13, GotoFacts DEF FlushFrame, SpawnInv, ArgsInv
<1>14. CASE SwapGrids
  BY <1>14, GotoFacts DEF SwapGrids, SpawnInv, ArgsInv
<1>15. CASE JoinWorker
  <2>1. next \in Nat /\ \A w \in Workers : w < next + 1 => w < next \/ w = next
    BY <1>15 DEF JoinWorker, TypeOK, Workers
  <2> QED
    BY <1>15, <2>1 DEF JoinWorker, SpawnInv, ArgsInv
<1>16. CASE JoinDone
  <2>1. \A w \in Workers : w < next
    BY <1>16 DEF JoinDone, TypeOK, Workers
  <2>2. args = {}
    BY <1>16, <2>1 DEF JoinDone, ArgsInv, TypeOK
  <2>3. pc'[Manager] = "destroy_pool" /\ \A w \in Workers : pc'[w] = pc[w]
    BY <1>16, GotoFacts DEF JoinDone
  <2> QED
    BY <1>16, <2>1, <2>2, <2>3 DEF JoinDone, SpawnInv, ArgsInv
<1>17. CASE DestroyPool
  BY <1>17, GotoFacts DEF DestroyPool, SpawnInv, ArgsInv
<1>18. CASE DestroyGrids
  BY <1>18, GotoFacts DEF DestroyGrids, SpawnInv, ArgsInv
<1> QED
  BY <1>1, <1>2, <1>3, <1>4, <1>5, <1>6, <1>7, <1>8, <1>9, <1>10, <1>11,
     <1>12, <1>13, <1>14, <1>15, <1>16, <1>17, <1>18 DEF ManagerStep

(* The heap holds at each point of main what main has allocated. *)
LEMMA HeapManager ==
    ASSUME TypeOK, HeapInv, ManagerStep
    PROVE  HeapInv'
<1> USE ThreadFacts DEF memVars, PoolPC, SyncPC
<1>1. CASE MakePrevGrid
  BY <1>1, GotoFacts DEF MakePrevGrid, HeapInv
<1>2. CASE MakeCurrentGrid
  BY <1>2, GotoFacts DEF MakeCurrentGrid, HeapInv, GridBlocks
<1>3. CASE InitPool
  BY <1>3, GotoFacts DEF InitPool, HeapInv
<1>4. CASE OpenPlot
  BY <1>4, GotoFacts DEF OpenPlot, HeapInv
<1>5. CASE SpawnWorker
  <2>1. next \in Workers
    BY <1>5 DEF SpawnWorker, TypeOK, Workers
  <2>2. pc'[Manager] \in {"spawn", "at_start"}
    BY <1>5, <2>1, GotoFacts DEF SpawnWorker
  <2> QED
    BY <1>5, <2>2 DEF SpawnWorker, HeapInv
<1>6. CASE SpawnDone
  BY <1>6, GotoFacts DEF SpawnDone, HeapInv
<1>7. CASE ManagerArrivesAtStart
  BY <1>7, GotoFacts DEF ManagerArrivesAtStart, HeapInv
<1>8. CASE ManagerLeavesStart
  BY <1>8, GotoFacts DEF ManagerLeavesStart, HeapInv
<1>9. CASE MarkDone
  BY <1>9, GotoFacts DEF MarkDone, HeapInv
<1>10. CASE ManagerArrivesAtEnd
  BY <1>10, GotoFacts DEF ManagerArrivesAtEnd, HeapInv
<1>11. CASE ManagerLeavesEnd
  BY <1>11, GotoFacts DEF ManagerLeavesEnd, HeapInv
<1>12. CASE PlotCell
  BY <1>12 DEF PlotCell, HeapInv
<1>13. CASE FlushFrame
  BY <1>13, GotoFacts DEF FlushFrame, HeapInv
<1>14. CASE SwapGrids
  BY <1>14, GotoFacts DEF SwapGrids, HeapInv
<1>15. CASE JoinWorker
  BY <1>15 DEF JoinWorker, HeapInv
<1>16. CASE JoinDone
  BY <1>16, GotoFacts DEF JoinDone, HeapInv
<1>17. CASE DestroyPool
  BY <1>17, GotoFacts DEF DestroyPool, HeapInv, GridBlocks, PoolBlocks
<1>18. CASE DestroyGrids
  BY <1>18, GotoFacts DEF DestroyGrids, HeapInv
<1> QED
  BY <1>1, <1>2, <1>3, <1>4, <1>5, <1>6, <1>7, <1>8, <1>9, <1>10, <1>11,
     <1>12, <1>13, <1>14, <1>15, <1>16, <1>17, <1>18 DEF ManagerStep

LEMMA MemoryWorker ==
    ASSUME TypeOK, SpawnInv, ArgsInv, HeapInv, NEW w \in Workers, WorkerStep(w)
    PROVE  SpawnInv' /\ ArgsInv' /\ HeapInv'
<1> USE ThreadFacts DEF memVars
<1>1. /\ pc[w] \notin {"none", "done"} /\ pc'[w] # "none"
      /\ \A s \in Threads : s # w => pc'[s] = pc[s]
      /\ next' = next /\ args' = args /\ heap' = heap
  BY GotoFacts
     DEF WorkerStep, WorkerEnters, WorkerChecksQuit, WorkerArrivesAtStart,
         WorkerLeavesStart, UpdateCell, SweepDone, WorkerArrivesAtEnd, WorkerLeavesEnd
<1>2. pc'[Manager] = pc[Manager]
  BY <1>1
<1>3. SpawnInv'
  BY <1>1, <1>2 DEF SpawnInv
<1>4. ArgsInv'
  BY <1>1, <1>2 DEF ArgsInv
<1>5. HeapInv'
  BY <1>1, <1>2 DEF HeapInv
<1> QED
  BY <1>3, <1>4, <1>5

(* A worker sweeps its own rows with the two pointers designating two arrays. *)
LEMMA PosManager ==
    ASSUME TypeOK, PosInv, SpawnInv, ManagerStep
    PROVE  PosInv'
<1> USE ThreadFacts DEF gridVars
<1>a. ASSUME NEW l, Goto(Manager, l), l # "plot", pos' = pos,
             \/ prev_grid' = prev_grid /\ current_grid' = current_grid
             \/ prev_grid' = current_grid /\ current_grid' = prev_grid,
             pc[Manager] # "plot"
      PROVE  PosInv'
  BY <1>a, GotoFacts DEF PosInv
<1>1. CASE MakePrevGrid
  BY <1>1, <1>a DEF MakePrevGrid
<1>2. CASE MakeCurrentGrid
  BY <1>2, <1>a DEF MakeCurrentGrid
<1>3. CASE InitPool
  BY <1>3, <1>a DEF InitPool
<1>4. CASE OpenPlot
  BY <1>4, <1>a DEF OpenPlot
<1>5. CASE SpawnWorker
  <2>0. PICK n \in Workers : n = next
    BY <1>5 DEF SpawnWorker, TypeOK, Workers
  <2>1. CASE Goto(next, "entry")
    BY <1>5, <2>0, <2>1, GotoFacts DEF SpawnWorker, PosInv
  <2>2. CASE Goto(Manager, "at_start")
    BY <1>5, <2>2, <1>a DEF SpawnWorker
  <2> QED
    BY <1>5, <2>1, <2>2 DEF SpawnWorker
<1>6. CASE SpawnDone
  BY <1>6, <1>a DEF SpawnDone
<1>7. CASE ManagerArrivesAtStart
  BY <1>7, <1>a DEF ManagerArrivesAtStart
<1>8. CASE ManagerLeavesStart
  BY <1>8, <1>a DEF ManagerLeavesStart
<1>9. CASE MarkDone
  BY <1>9, <1>a DEF MarkDone
<1>10. CASE ManagerArrivesAtEnd
  BY <1>10, <1>a DEF ManagerArrivesAtEnd
<1>11. CASE ManagerLeavesEnd
  <2>1. pc'[Manager] \in {"plot", "join"} /\ \A w \in Workers : pc'[w] = pc[w]
    BY <1>11, GotoFacts DEF ManagerLeavesEnd
  <2> QED
    BY <1>11, <2>1 DEF ManagerLeavesEnd, PosInv
<1>12. CASE PlotCell
  <2>1. /\ pos'[Manager] = pos[Manager] + 1 /\ pos[Manager] \in Nat
        /\ \A w \in Workers : pos'[w] = pos[w]
    BY <1>12 DEF PlotCell, TypeOK
  <2>2. W * H \in Int
    BY GridAssumption
  <2> QED
    BY <1>12, <2>1, <2>2 DEF PlotCell, PosInv
<1>13. CASE FlushFrame
  <2>1. /\ pos'[Manager] = 0 /\ \A w \in Workers : pos'[w] = pos[w]
        /\ pc'[Manager] = "swap" /\ \A w \in Workers : pc'[w] = pc[w]
    BY <1>13, GotoFacts DEF FlushFrame, TypeOK
  <2>2. 0 <= W * H
    BY GridAssumption
  <2> QED
    BY <1>13, <2>1, <2>2 DEF FlushFrame, PosInv
<1>14. CASE SwapGrids
  BY <1>14, <1>a DEF SwapGrids
<1>15. CASE JoinWorker
  BY <1>15 DEF JoinWorker, PosInv
<1>16. CASE JoinDone
  BY <1>16, <1>a DEF JoinDone
<1>17. CASE DestroyPool
  BY <1>17, <1>a DEF DestroyPool
<1>18. CASE DestroyGrids
  BY <1>18, <1>a DEF DestroyGrids
<1> QED
  BY <1>1, <1>2, <1>3, <1>4, <1>5, <1>6, <1>7, <1>8, <1>9, <1>10, <1>11,
     <1>12, <1>13, <1>14, <1>15, <1>16, <1>17, <1>18 DEF ManagerStep

LEMMA PosWorker ==
    ASSUME TypeOK, PosInv, NEW w \in Workers, WorkerStep(w)
    PROVE  PosInv'
<1> USE ThreadFacts DEF gridVars
<1>a. ASSUME NEW l, Goto(w, l), l # "sweep", pos' = pos, gridVars' = gridVars
      PROVE  PosInv'
  BY <1>a, GotoFacts DEF PosInv
<1>1. CASE WorkerEnters(w)
  BY <1>1, <1>a DEF WorkerEnters
<1>2. CASE WorkerChecksQuit(w)
  BY <1>2, <1>a DEF WorkerChecksQuit
<1>3. CASE WorkerArrivesAtStart(w)
  BY <1>3, <1>a DEF WorkerArrivesAtStart
<1>4. CASE WorkerLeavesStart(w)
  <2>1. /\ pos'[w] = RegionStart(w) /\ \A s \in Threads : s # w => pos'[s] = pos[s]
        /\ pc'[w] = "sweep" /\ \A s \in Threads : s # w => pc'[s] = pc[s]
    BY <1>4, GotoFacts DEF WorkerLeavesStart, TypeOK
  <2> QED
    BY <1>4, <2>1, RegionBounds DEF WorkerLeavesStart, PosInv
<1>5. CASE UpdateCell(w)
  <2>1. /\ pos'[w] = pos[w] + 1 /\ pos[w] \in Nat
        /\ \A s \in Threads : s # w => pos'[s] = pos[s]
    BY <1>5 DEF UpdateCell, TypeOK
  <2> QED
    BY <1>5, <2>1, RegionBounds DEF UpdateCell, PosInv
<1>6. CASE SweepDone(w)
  BY <1>6, <1>a DEF SweepDone
<1>7. CASE WorkerArrivesAtEnd(w)
  BY <1>7, <1>a DEF WorkerArrivesAtEnd
<1>8. CASE WorkerLeavesEnd(w)
  BY <1>8, <1>a DEF WorkerLeavesEnd
<1> QED
  BY <1>1, <1>2, <1>3, <1>4, <1>5, <1>6, <1>7, <1>8 DEF WorkerStep

-----------------------------------------------------------------------------
(* The invariant holds of every behaviour *)

LEMMA IInvInit == Init => IInv
<1> SUFFICES ASSUME Init PROVE IInv
  OBVIOUS
<1> USE ThreadFacts
<1>1. TypeOK
  BY TypeInit
<1>2. pc[Manager] = "make_prev" /\ \A w \in Workers : pc[w] = "none"
  BY DEF Init
<1>3. PhaseInv /\ WaitInv
  BY <1>2 DEF Init, PhaseInv, WaitInv, Inside, Barriers
<1>4. QuitInv /\ LeaveInv /\ LoopInv
  BY <1>2 DEF Init, QuitInv, LeaveInv, LoopInv, EndPC, SetupPC
<1>5. SpawnInv /\ ArgsInv /\ HeapInv
  BY <1>2 DEF Init, SpawnInv, ArgsInv, HeapInv, SetupPC, EndPC, PoolPC, SyncPC
<1>6. 0 <= W * H
  BY GridAssumption
<1>7. PosInv
  BY <1>2, <1>6 DEF Init, PosInv
<1> QED
  BY <1>1, <1>3, <1>4, <1>5, <1>7 DEF IInv

LEMMA IInvNext == IInv /\ [Next]_vars => IInv'
<1> SUFFICES ASSUME IInv, [Next]_vars PROVE IInv'
  OBVIOUS
<1> USE DEF IInv
<1>1. CASE ManagerStep
  <2>1. TypeOK'
    BY <1>1, TypeManager DEF PosInv
  <2>2. PhaseInv' /\ WaitInv'
    BY <1>1, PhaseManager
  <2>3. QuitInv' /\ LoopInv'
    BY <1>1, QuitManager
  <2>4. LeaveInv'
    BY <1>1, LeaveManager
  <2>5. SpawnInv' /\ ArgsInv'
    BY <1>1, MemoryManager
  <2>6. HeapInv'
    BY <1>1, HeapManager
  <2>7. PosInv'
    BY <1>1, PosManager
  <2> QED
    BY <2>1, <2>2, <2>3, <2>4, <2>5, <2>6, <2>7
<1>2. CASE \E w \in Workers : WorkerStep(w)
  <2>0. PICK w \in Workers : WorkerStep(w)
    BY <1>2
  <2>1. TypeOK'
    BY <2>0, TypeWorker
  <2>2. PhaseInv' /\ WaitInv'
    BY <2>0, PhaseWorker
  <2>3. QuitInv' /\ LoopInv'
    BY <2>0, QuitWorker
  <2>4. LeaveInv'
    BY <2>0, LeaveWorker
  <2>5. SpawnInv' /\ ArgsInv' /\ HeapInv'
    BY <2>0, MemoryWorker
  <2>6. PosInv'
    BY <2>0, PosWorker
  <2> QED
    BY <2>1, <2>2, <2>3, <2>4, <2>5, <2>6
<1>3. CASE UNCHANGED vars
  <2> USE <1>3 DEF vars, gridVars, memVars, plotVars
  <2>1. TypeOK'
    BY DEF TypeOK
  <2>2. PhaseInv' /\ WaitInv'
    BY DEF PhaseInv, WaitInv, Inside
  <2>3. QuitInv' /\ LeaveInv' /\ LoopInv'
    BY DEF QuitInv, LeaveInv, LoopInv, Inside
  <2>4. SpawnInv' /\ ArgsInv' /\ HeapInv' /\ PosInv'
    BY DEF SpawnInv, ArgsInv, HeapInv, PosInv
  <2> QED
    BY <2>1, <2>2, <2>3, <2>4
<1> QED
  BY <1>1, <1>2, <1>3 DEF Next, Terminated

THEOREM Invariance == Spec => []IInv
<1>1. Init => IInv
  BY IInvInit
<1>2. IInv /\ [Next]_vars => IInv'
  BY IInvNext
<1> QED
  BY <1>1, <1>2, PTL DEF Spec

(* Every variable stays in its range (all of main.c, manager.c, worker.c). *)
THEOREM TypeCorrect == Spec => []TypeOK
<1>1. IInv => TypeOK
  BY DEF IInv
<1> QED
  BY <1>1, Invariance, PTL

-----------------------------------------------------------------------------
(* What follows from the invariant *)

(* Two workers never touch one element, for lack of a common row. *)
LEMMA WorkersApart ==
    ASSUME IInv, NEW v \in Workers, NEW w \in Workers, v # w, Updates(v), Updates(w)
    PROVE  pos[v] # pos[w]
<1>1. /\ RegionStart(v) <= pos[v] /\ pos[v] < RegionEnd(v)
      /\ RegionStart(w) <= pos[w] /\ pos[w] < RegionEnd(w)
  BY DEF IInv, PosInv, Updates
<1>2. pos[v] \in Nat /\ pos[w] \in Nat
  BY ThreadFacts DEF IInv, TypeOK
<1>3. v < w \/ w < v
  BY DEF Workers
<1>4. /\ RegionStart(v) \in Nat /\ RegionEnd(v) \in Nat
      /\ RegionStart(w) \in Nat /\ RegionEnd(w) \in Nat
  BY RegionBounds
<1> QED
  BY <1>1, <1>2, <1>3, <1>4, RegionsDisjoint

(***************************************************************************)
(* No thread is about to write a location another one is about to access:  *)
(* the accesses of worker.c 112-133 and of main.c 103-112 need no lock.    *)
(***************************************************************************)
LEMMA NoConflict == IInv => NoDataRace
<1> SUFFICES ASSUME IInv, NEW s \in Threads, NEW t \in Threads, s # t,
                    NEW l \in Writes(s), l \in Reads(t) \cup Writes(t)
             PROVE  FALSE
  BY DEF NoDataRace
<1> USE ThreadFacts
<1>1. \A u \in Threads : Updates(u) => Inside(u)
  BY DEF Updates, Inside
<1>2. Prints(Manager) \/ Swaps(Manager) => ~Inside(Manager)
  BY DEF Prints, Swaps, Inside
<1>3. prev_grid # current_grid /\ prev_grid \in {"a", "b"} /\ current_grid \in {"a", "b"}
  BY DEF IInv, PosInv, TypeOK, Arrays
<1>4. CASE Updates(s) /\ l = <<current_grid, pos[s]>>
  <2>1. Inside(s) /\ \A u \in Threads : Inside(u)
    BY <1>1, <1>4 DEF IInv, PhaseInv
  <2>2. ~Prints(t) /\ ~Swaps(t)
    BY <1>2, <2>1 DEF Prints, Swaps
  <2>3. l \notin Pointers /\ l # QuitFlag
    BY <1>3, <1>4 DEF Pointers, QuitFlag
  <2>4. \A c : l # <<prev_grid, c>>
    BY <1>3, <1>4
  <2>5. Updates(t) => l # <<current_grid, pos[t]>>
    BY <1>4, WorkersApart DEF Updates
  <2> QED
    BY <2>2, <2>3, <2>4, <2>5 DEF Reads, Writes, Element
<1>5. CASE Swaps(s) /\ l \in Pointers
  <2>1. s = Manager /\ t # Manager
    BY <1>5 DEF Swaps
  <2>2. ~Updates(t)
    BY <1>1, <1>2, <1>5, <2>1 DEF IInv, PhaseInv
  <2>3. l # QuitFlag
    BY <1>5 DEF Pointers, QuitFlag
  <2> QED
    BY <2>1, <2>2, <2>3 DEF Reads, Writes, Prints, Swaps
<1>6. CASE s = Manager /\ pc[s] = "mark" /\ l = QuitFlag
  <2>1. Inside(t)
    BY <1>6 DEF IInv, PhaseInv, Inside
  <2>2. pc[t] # "check"
    BY <2>1 DEF Inside
  <2>3. l \notin Pointers /\ \A a \in {"a", "b"} : \A c : l # <<a, c>>
    BY <1>6 DEF Pointers, QuitFlag
  <2> QED
    BY <1>3, <1>6, <2>2, <2>3 DEF Reads, Writes, Element
<1> QED
  BY <1>4, <1>5, <1>6 DEF Writes, Element

THEOREM DataRaceFreedom == Spec => []NoDataRace
  BY Invariance, NoConflict, PTL

(***************************************************************************)
(* The quit flag is read alike by all workers in every round: none of them *)
(* can be left alone at the start barrier (worker.c 106-108).              *)
(***************************************************************************)
THEOREM CommonQuit == Spec => []QuitAgreement
<1>1. IInv => QuitAgreement
  <2> SUFFICES ASSUME IInv, NEW v \in Workers, pc[v] = "done", NEW w \in Workers
               PROVE  pc[w] \in {"in_end", "check", "done"}
    BY DEF QuitAgreement
  <2>1. quit = 1
    BY DEF IInv, LeaveInv
  <2>2. ~Inside(v)
    BY DEF Inside
  <2>3. ~Inside(w)
    BY <2>2, ThreadFacts DEF IInv, PhaseInv
  <2> QED
    BY <2>1, <2>3 DEF IInv, LeaveInv
<1> QED
  BY <1>1, Invariance, PTL

(***************************************************************************)
(* No block is used after it is freed: the pool, its barriers and its flag *)
(* outlive every thread that waits or looks at them (main.c 116-124).      *)
(***************************************************************************)
THEOREM MemorySafety == Spec => []NoUseAfterFree
<1>1. IInv => NoUseAfterFree
  <2> SUFFICES ASSUME IInv PROVE NoUseAfterFree
    OBVIOUS
  <2> USE ThreadFacts
  <2>1. ASSUME NEW w \in Workers, pc[w] \notin {"none", "done"}
        PROVE  w \in args /\ heap = PoolBlocks \cup GridBlocks
    <3>1. w \in args
      BY <2>1 DEF IInv, ArgsInv
    <3>2. pc[Manager] \notin SetupPC \cup {"exit_failed"} \cup (EndPC \ {"join"})
      BY <2>1 DEF IInv, ArgsInv, SpawnInv
    <3>3. pc[Manager] \in PoolPC
      BY <3>2 DEF IInv, TypeOK, ManagerPC, SetupPC, EndPC, PoolPC, SyncPC, FinalPC
    <3> QED
      BY <3>1, <3>3 DEF IInv, HeapInv
  <2>2. ASSUME NEW t \in Threads
        PROVE  BlocksUsed(t) \subseteq heap
    <3>1. CASE t = Manager
      <4>1. pc[t] \in PoolPC => heap = PoolBlocks \cup GridBlocks
        BY <3>1 DEF IInv, HeapInv
      <4>2. /\ pc[t] \notin PoolPC \cup {"init_pool", "destroy_grids"} => BlocksUsed(t) = {}
            /\ pc[t] \in {"init_pool", "destroy_grids"}
                  => BlocksUsed(t) \subseteq GridBlocks /\ heap = GridBlocks
        BY <3>1 DEF GridBlocks, HeapInv, IInv, TypeOK, ManagerPC, BlocksUsed, PoolPC, SyncPC, SetupPC, FinalPC
      <4>3. BlocksUsed(t) \subseteq PoolBlocks \cup GridBlocks
        BY DEF BlocksUsed, PoolBlocks, GridBlocks
      <4> QED
        BY <4>1, <4>2, <4>3
    <3>2. CASE t \in Workers
      <4>1. pc[t] \in {"none", "done"} => BlocksUsed(t) = {}
        BY DEF BlocksUsed
      <4>2. BlocksUsed(t) \subseteq PoolBlocks \cup GridBlocks
        BY DEF BlocksUsed, PoolBlocks, GridBlocks
      <4> QED
        BY <2>1, <3>2, <4>1, <4>2
    <3> QED
      BY <3>1, <3>2
  <2> QED
    BY <2>1, <2>2 DEF NoUseAfterFree
<1> QED
  BY <1>1, Invariance, PTL

(* main returns EXIT_SUCCESS with nothing left allocated or running. *)
THEOREM ExitIsClean == Spec => []CleanExit
<1>1. IInv => CleanExit
  BY DEF IInv, HeapInv, ArgsInv, EndPC, CleanExit
<1> QED
  BY <1>1, Invariance, PTL

(***************************************************************************)
(* Whatever a worker is doing, its next update reads only the node and its *)
(* neighbours (worker.c 112-133), if the mesh has two columns and rows.    *)
(***************************************************************************)
THEOREM LocalReads ==
    ASSUME W >= 2, H >= 2
    PROVE  Spec => []ReadsNeighbours
<1>1. IInv => ReadsNeighbours
  <2> SUFFICES ASSUME IInv, NEW w \in Workers, Updates(w), ~is_corner(pos[w])
               PROVE  StencilReads(pos[w]) = {pos[w]} \cup Neighbours(pos[w])
    BY DEF ReadsNeighbours
  <2>1. pos[w] \in Cells
    BY ThreadFacts, SweptCellInGrid DEF IInv, TypeOK, PosInv, Updates
  <2> QED
    BY <2>1, StencilIsNeighbourhood
<1> QED
  BY <1>1, Invariance, PTL

-----------------------------------------------------------------------------
(* Nobody waits forever. *)

(* What a thread waits for: the others, at a barrier, or a worker to join. *)
Blocked(t) ==
    \/ pc[t] = "in_start" /\ ~Released(t, "start")
    \/ pc[t] = "in_end" /\ ~Released(t, "end")
    \/ t = Manager /\ pc[t] = "join" /\ next < N /\ pc[next] # "done"

CanStep(t) == pc[t] \notin FinalPC \cup {"none", "done"} /\ ~Blocked(t)

NoDeadlock == pc[Manager] \in FinalPC \/ \E t \in Threads : CanStep(t)

(* No barrier holds all the threads it was made for. *)
BarrierInv == \A b \in Barriers : waiting[b] # Threads

(* When no thread is refused, all are there as soon as main has left       *)
(* spawn_workers.                                                          *)
CrewInv ==
    /\ pc[Manager] = "spawn" => \A w \in Workers : w < next => pc[w] # "none"
    /\ pc[Manager] \notin SetupPC \cup {"spawn", "exit_failed"}
           => \A w \in Workers : pc[w] # "none"

(* The failures of spawn_workers, which main does not look at. *)
SpawnSucceeds == "malloc" \notin Faults /\ "pthread_create" \notin Faults

LEMMA ArriveLeavesRoom ==
    ASSUME TypeOK, BarrierInv, NEW t \in Threads, NEW b \in Barriers, Arrive(t, b)
    PROVE  BarrierInv'
<1>1. Cardinality(Threads) = N + 1
  BY FS_Interval, SolverAssumption DEF Threads
<1>2. waiting'[b] # Threads
  BY <1>1, ThreadFacts DEF Arrive, TypeOK
<1>3. \A d \in Barriers \ {b} : waiting'[d] = waiting[d]
  BY DEF Arrive, TypeOK
<1> QED
  BY <1>2, <1>3 DEF BarrierInv

LEMMA BarrierNext ==
    ASSUME TypeOK, BarrierInv, [Next]_vars
    PROVE  BarrierInv'
<1>1. CASE waiting' = waiting
  BY <1>1 DEF BarrierInv
<1>2. ASSUME NEW t \in Threads, NEW b \in Barriers, Arrive(t, b) PROVE BarrierInv'
  BY <1>2, ArriveLeavesRoom
<1>3. CASE ManagerStep
  BY <1>1, <1>2, <1>3, ThreadFacts
     DEF ManagerStep, MakePrevGrid, MakeCurrentGrid, InitPool, OpenPlot, SpawnWorker, SpawnDone,
         ManagerArrivesAtStart, ManagerLeavesStart, MarkDone, ManagerArrivesAtEnd,
         ManagerLeavesEnd, PlotCell, FlushFrame, SwapGrids, JoinWorker, JoinDone,
         DestroyPool, DestroyGrids, Barriers
<1>4. ASSUME NEW w \in Workers, WorkerStep(w) PROVE BarrierInv'
  BY <1>1, <1>2, <1>4, ThreadFacts
     DEF WorkerStep, WorkerEnters, WorkerChecksQuit, WorkerArrivesAtStart, WorkerLeavesStart,
         UpdateCell, SweepDone, WorkerArrivesAtEnd, WorkerLeavesEnd, Barriers
<1> QED
  BY <1>1, <1>3, <1>4 DEF Next, Terminated, vars

LEMMA CrewNext ==
    ASSUME SpawnSucceeds, IInv, CrewInv, [Next]_vars
    PROVE  CrewInv'
<1> USE ThreadFacts DEF IInv
<1>a. ASSUME NEW l, Goto(Manager, l), UNCHANGED next, l # "spawn",
             l \notin SetupPC \cup {"exit_failed"} => \A w \in Workers : pc[w] # "none"
      PROVE  CrewInv'
  BY <1>a, GotoFacts DEF CrewInv
<1>b. ASSUME pc[Manager] \notin SetupPC \cup {"spawn", "exit_failed"}
      PROVE  \A w \in Workers : pc[w] # "none"
  BY <1>b DEF CrewInv
<1>1. CASE MakePrevGrid \/ MakeCurrentGrid \/ InitPool
  BY <1>1, <1>a DEF MakePrevGrid, MakeCurrentGrid, InitPool, SetupPC
<1>2. CASE OpenPlot
  <2>1. CASE Goto(Manager, "exit_failed")
    BY <1>2, <1>a, <2>1 DEF OpenPlot
  <2>2. CASE Goto(Manager, "spawn")
    <3>1. pc'[Manager] = "spawn" /\ next' = 0
      BY <1>2, <2>2, GotoFacts DEF OpenPlot, SpawnInv, SetupPC
    <3>2. \A w \in Workers : ~(w < 0)
      BY DEF Workers
    <3> QED
      BY <3>1, <3>2 DEF CrewInv
  <2> QED
    BY <1>2, <2>1, <2>2 DEF OpenPlot
<1>3. CASE SpawnWorker
  <2>1. /\ next < N /\ next' = next + 1 /\ Goto(next, "entry")
        /\ pc[Manager] = "spawn"
    BY <1>3 DEF SpawnWorker, SpawnSucceeds
  <2> PICK n \in Workers : n = next
    BY <2>1 DEF TypeOK, Workers
  <2>2. Goto(n, "entry")
    BY <2>1
  <2>3. pc'[n] = "entry" /\ \A s \in Threads : s # n => pc'[s] = pc[s]
    BY <2>2, GotoFacts
  <2>4. \A w \in Workers : w < next' => w < next \/ w = n
    BY <2>1 DEF Workers
  <2> QED
    BY <2>1, <2>3, <2>4 DEF CrewInv
<1>4. CASE SpawnDone
  <2>1. \A w \in Workers : w < next
    BY <1>4 DEF SpawnDone, TypeOK, Workers
  <2>2. \A w \in Workers : pc[w] # "none"
    BY <1>4, <2>1 DEF SpawnDone, CrewInv
  <2> QED
    BY <1>4, <1>a, <2>2 DEF SpawnDone
<1>5. CASE \/ ManagerArrivesAtStart \/ ManagerLeavesStart \/ MarkDone \/ ManagerArrivesAtEnd
           \/ FlushFrame \/ SwapGrids \/ JoinDone \/ DestroyPool \/ DestroyGrids
  BY <1>5, <1>a, <1>b
     DEF ManagerArrivesAtStart, ManagerLeavesStart, MarkDone, ManagerArrivesAtEnd,
         FlushFrame, SwapGrids, JoinDone, DestroyPool, DestroyGrids, SetupPC
<1>6. CASE ManagerLeavesEnd
  <2>1. /\ pc[Manager] = "in_end"
        /\ pc'[Manager] \in {"plot", "join"} /\ \A w \in Workers : pc'[w] = pc[w]
    BY <1>6, GotoFacts DEF ManagerLeavesEnd
  <2> QED
    BY <1>b, <2>1 DEF CrewInv, SetupPC
<1>7. CASE PlotCell
  BY <1>7 DEF PlotCell, CrewInv
<1>8. CASE JoinWorker
  <2>1. pc' = pc /\ pc[Manager] = "join"
    BY <1>8 DEF JoinWorker
  <2> QED
    BY <2>1 DEF CrewInv
<1>9. ASSUME NEW w \in Workers, WorkerStep(w) PROVE CrewInv'
  <2>1. next' = next /\ (pc' = pc \/ \E l \in WorkerPC \ {"none"} : Goto(w, l))
    BY <1>9
       DEF WorkerStep, WorkerEnters, WorkerChecksQuit, WorkerArrivesAtStart, WorkerLeavesStart,
           UpdateCell, SweepDone, WorkerArrivesAtEnd, WorkerLeavesEnd, WorkerPC, SyncPC
  <2>2. /\ pc'[Manager] = pc[Manager]
        /\ \A v \in Workers : pc'[v] = "none" => pc[v] = "none"
    BY <2>1, GotoFacts
  <2> QED
    BY <2>1, <2>2 DEF CrewInv
<1>10. CASE UNCHANGED vars
  BY <1>10 DEF vars, CrewInv
<1> QED
  BY <1>1, <1>2, <1>3, <1>4, <1>5, <1>6, <1>7, <1>8, <1>9, <1>10
     DEF Next, ManagerStep, Terminated

(* With the whole crew there, whoever waits is waited for by somebody who  *)
(* does not.                                                               *)
LEMMA SomebodyCan ==
    ASSUME IInv, BarrierInv, CrewInv
    PROVE  NoDeadlock
<1> USE ThreadFacts DEF IInv
<1> SUFFICES ASSUME pc[Manager] \notin FinalPC, \A t \in Threads : ~CanStep(t)
             PROVE  FALSE
  BY DEF NoDeadlock
<1>1. pc[Manager] \notin {"none", "done"}
  BY DEF TypeOK, ManagerPC, SetupPC, SyncPC, FinalPC
<1>2. Blocked(Manager)
  BY <1>1 DEF CanStep
<1>3. /\ pc[Manager] \in {"in_start", "in_end", "join"}
      /\ \A w \in Workers : pc[w] # "none"
  BY <1>2 DEF Blocked, CrewInv, SetupPC
<1>4. \A w \in Workers : pc[w] = "done" \/ w \in waiting["start"] \/ w \in waiting["end"]
  BY <1>3 DEF CanStep, Blocked, Released, TypeOK, WorkerPC, SyncPC, FinalPC
<1>5. CASE pc[Manager] = "in_start"
  <2>1. Manager \in waiting["start"] /\ ~Inside(Manager)
    BY <1>2, <1>5 DEF Blocked, Released, Inside
  <2>2. \A w \in Workers : ~Inside(w) /\ pc[w] # "done"
    BY <1>5, <2>1 DEF PhaseInv, QuitInv, LeaveInv, EndPC, TypeOK
  <2>3. \A w \in Workers : w \in waiting["start"]
    BY <1>4, <2>2 DEF WaitInv, Inside
  <2> QED
    BY <2>1, <2>3 DEF BarrierInv, Barriers, TypeOK
<1>6. CASE pc[Manager] = "in_end"
  <2>1. Manager \in waiting["end"] /\ Inside(Manager)
    BY <1>2, <1>6 DEF Blocked, Released, Inside
  <2>2. \A w \in Workers : Inside(w)
    BY <2>1 DEF PhaseInv
  <2>3. \A w \in Workers : w \in waiting["end"]
    BY <1>4, <2>2 DEF WaitInv, Inside
  <2> QED
    BY <2>1, <2>3 DEF BarrierInv, Barriers, TypeOK
<1>7. CASE pc[Manager] = "join"
  <2> PICK w \in Workers : w = next /\ pc[w] # "done"
    BY <1>2, <1>7 DEF Blocked, TypeOK, Workers
  <2>2. ~Inside(Manager) /\ quit = 1
    BY <1>7 DEF Inside, QuitInv, EndPC
  <2>3. ~Inside(w) /\ pc[w] \in {"in_end", "check"}
    BY <2>2 DEF PhaseInv, LeaveInv
  <2>4. w \notin waiting["end"] /\ w \notin waiting["start"]
    BY <2>3 DEF WaitInv, Inside
  <2> QED
    BY <1>4, <2>4
<1> QED
  BY <1>3, <1>5, <1>6, <1>7

(***************************************************************************)
(* Unless a thread was refused, which main does not look at, the program   *)
(* never comes to a state in which it has not ended and every thread waits *)
(* at a barrier, or for a worker to end, on any mesh with any number of    *)
(* workers: the two barriers and the quit flag of main.c 98-116 and        *)
(* worker.c 106-136 fit together.                                          *)
(***************************************************************************)
THEOREM NobodyWaitsForever ==
    ASSUME SpawnSucceeds
    PROVE  Spec => []NoDeadlock
<1>1. Init => BarrierInv /\ CrewInv
  BY ThreadFacts DEF Init, BarrierInv, CrewInv, SetupPC
<1>2. /\ IInv /\ BarrierInv /\ [Next]_vars => BarrierInv'
      /\ IInv /\ CrewInv /\ [Next]_vars => CrewInv'
  BY BarrierNext, CrewNext DEF IInv
<1>3. IInv /\ BarrierInv /\ CrewInv => NoDeadlock
  BY SomebodyCan
<1> QED
  BY <1>1, <1>2, <1>3, Invariance, PTL DEF Spec

-----------------------------------------------------------------------------
(* How many steps a thread has before it, at most. *)

(* One round of main's loop, with a plot of every cell. *)
RoundLength == W * H + 8
RoundsLeft == IF ts < T THEN T - ts ELSE 0

(* The manager's steps to the end barrier of this round and to the joining *)
(* of the workers, when there is another round to come.                    *)
LeftInRound ==
    CASE pc[Manager] = "make_prev" -> 2 * N + 13
      [] pc[Manager] = "make_current" -> 2 * N + 12
      [] pc[Manager] = "init_pool" -> 2 * N + 11
      [] pc[Manager] = "popen" -> 2 * N + 10
      [] pc[Manager] = "spawn" -> 2 * N + 9 - next
      [] pc[Manager] = "at_start" -> N + 8
      [] pc[Manager] = "in_start" -> N + 7
      [] pc[Manager] = "mark" -> N + 6
      [] pc[Manager] = "at_end" -> N + 5
      [] pc[Manager] = "in_end" -> N + 4
      [] pc[Manager] = "plot" -> N + 3 - pos[Manager]
      [] OTHER -> N + 2 - W * H

ManagerLeft ==
    CASE pc[Manager] = "join" -> N + 3 - next
      [] pc[Manager] = "destroy_pool" -> 2
      [] pc[Manager] = "destroy_grids" -> 1
      [] pc[Manager] \in FinalPC -> 0
      [] OTHER -> RoundsLeft * RoundLength + LeftInRound

(* A worker's steps until it has to wait for a step of the manager.  While *)
(* the manager is at the start barrier there is a whole sweep to come.     *)
WorkerLeft(w) ==
    LET sweep == RegionEnd(w) - RegionStart(w)
        round == IF pc[Manager] = "in_start" THEN sweep + 8 ELSE 0
    IN  CASE pc[w] = "in_start" /\ Inside(w) -> sweep + 9
          [] pc[w] = "sweep" -> RegionEnd(w) - pos[w] + 8
          [] pc[w] = "at_end" -> 7
          [] pc[w] = "in_end" /\ Inside(w) -> 6
          [] pc[w] = "entry" \/ (pc[w] = "in_end" /\ ~Inside(w)) -> round + 5
          [] pc[w] = "check" -> round + 4
          [] pc[w] = "at_start" -> round + 3
          [] pc[w] = "in_start" /\ ~Inside(w) -> round + 2
          [] OTHER -> 0

(* The manager gets on, or a worker does and the other threads have no     *)
(* more to do than before.                                                 *)
Advances ==
    \/ ManagerLeft' < ManagerLeft
    \/ /\ ManagerLeft' = ManagerLeft
       /\ \E w \in Workers :
              /\ WorkerLeft(w)' < WorkerLeft(w)
              /\ \A v \in Workers \ {w} : WorkerLeft(v)' <= WorkerLeft(v)

BoundedWork ==
    /\ ManagerLeft \in 0 .. T * RoundLength + 2 * N + 13
    /\ \A w \in Workers : WorkerLeft(w) \in 0 .. W * H + 13

LEMMA RoundFacts ==
    ASSUME TypeOK
    PROVE  /\ RoundLength \in Nat /\ W * H \in Nat
           /\ RoundsLeft \in 0 .. T
           /\ RoundsLeft * RoundLength \in 0 .. T * RoundLength
           /\ ts < T => RoundLength <= RoundsLeft * RoundLength
<1>1. W * H \in Nat /\ RoundLength \in Nat
  BY GridAssumption DEF RoundLength
<1>2. RoundsLeft \in 0 .. T /\ (ts < T => 1 <= RoundsLeft)
  BY SolverAssumption DEF TypeOK, RoundsLeft
<1> DEFINE a == RoundsLeft
           l == RoundLength
<1> HIDE DEF a, l
<1>3. a \in Nat /\ l \in Nat /\ T \in Nat /\ a <= T
  BY <1>1, <1>2, SolverAssumption DEF a, l
<1>4. l * a <= l * T /\ l * a \in Nat /\ l * a = a * l /\ l * T = T * l /\ T * l \in Nat
  BY <1>3, MulMonotonic
<1>5. 1 <= a => l * 1 <= l * a
  BY <1>3, MulMonotonic
<1> QED
  BY <1>1, <1>2, <1>3, <1>4, <1>5 DEF a, l

LEMMA LeftTypes == IInv => BoundedWork
<1> SUFFICES ASSUME IInv PROVE BoundedWork
  OBVIOUS
<1> USE ThreadFacts DEF IInv
<1>1. ManagerLeft \in 0 .. T * RoundLength + 2 * N + 13
  <2> DEFINE p == RoundsLeft * RoundLength
             m == T * RoundLength
             c == W * H
  <2>1. /\ p \in Nat /\ m \in Nat /\ p <= m /\ c \in Nat
        /\ ts < T => c + 8 <= p
    BY RoundFacts, SolverAssumption DEF RoundLength
  <2>2. /\ next \in Nat /\ next <= N /\ N \in Nat
        /\ pos[Manager] \in Nat /\ pos[Manager] <= c
    BY DEF TypeOK, PosInv
  <2>3. pc[Manager] \in {"plot", "swap"} => ts < T
    BY DEF LoopInv
  <2>4. ManagerLeft = CASE pc[Manager] = "join" -> N + 3 - next
                        [] pc[Manager] = "destroy_pool" -> 2
                        [] pc[Manager] = "destroy_grids" -> 1
                        [] pc[Manager] \in FinalPC -> 0
                        [] OTHER -> p + LeftInRound
    BY DEF ManagerLeft
  <2>5. pc[Manager] \in ManagerPC
    BY DEF TypeOK
  <2>6. pc[Manager] \notin {"join", "destroy_pool", "destroy_grids", "exit_ok", "exit_failed"}
          => LeftInRound \in Int /\ LeftInRound <= 2 * N + 13 /\ 0 <= p + LeftInRound
    <3> HIDE DEF p, m
    <3>1. LeftInRound =
            CASE pc[Manager] = "make_prev" -> 2 * N + 13
              [] pc[Manager] = "make_current" -> 2 * N + 12
              [] pc[Manager] = "init_pool" -> 2 * N + 11
              [] pc[Manager] = "popen" -> 2 * N + 10
              [] pc[Manager] = "spawn" -> 2 * N + 9 - next
              [] pc[Manager] = "at_start" -> N + 8
              [] pc[Manager] = "in_start" -> N + 7
              [] pc[Manager] = "mark" -> N + 6
              [] pc[Manager] = "at_end" -> N + 5
              [] pc[Manager] = "in_end" -> N + 4
              [] pc[Manager] = "plot" -> N + 3 - pos[Manager]
              [] OTHER -> N + 2 - c
      BY DEF LeftInRound
    <3> HIDE DEF c
    <3>2. CASE pc[Manager] = "plot" \/ pc[Manager] = "swap"
      <4>1. LeftInRound = IF pc[Manager] = "plot" THEN N + 3 - pos[Manager] ELSE N + 2 - c
        BY <3>1, <3>2
      <4> QED
        BY <2>1, <2>2, <2>3, <3>2, <4>1
    <3>3. CASE pc[Manager] \in SetupPC \cup SyncPC \cup {"spawn", "mark"}
      <4>1. LeftInRound \in {2 * N + 13, 2 * N + 12, 2 * N + 11, 2 * N + 10, 2 * N + 9 - next,
                             N + 8, N + 7, N + 6, N + 5, N + 4}
        BY <3>1, <3>3 DEF SetupPC, SyncPC
      <4>2. 2 * N \in Nat /\ N <= 2 * N /\ 2 * N - next \in Nat
        BY <2>2
      <4>3. LeftInRound \in 0 .. 2 * N + 13
        BY <2>2, <4>1, <4>2
      <4> QED
        BY <2>1, <4>3
    <3> QED
      BY <2>5, <3>2, <3>3 DEF ManagerPC, FinalPC
  <2> HIDE DEF p, m, c
  <2>7. ManagerLeft \in 0 .. m + 2 * N + 13
    BY <2>1, <2>2, <2>4, <2>6 DEF FinalPC
  <2> QED
    BY <2>7 DEF m
<1>2. ASSUME NEW w \in Workers PROVE WorkerLeft(w) \in 0 .. W * H + 13
  <2> DEFINE a == RegionStart(w)
             b == RegionEnd(w)
             c == W * H
  <2>1. /\ a \in Nat /\ b \in Nat /\ c \in Nat /\ a <= b /\ b <= c
        /\ pos[w] \in Nat /\ (pc[w] = "sweep" => a <= pos[w] /\ pos[w] <= b)
    BY RegionBounds DEF TypeOK, PosInv
  <2>2. WorkerLeft(w) =
           LET round == IF pc[Manager] = "in_start" THEN b - a + 8 ELSE 0
           IN  CASE pc[w] = "in_start" /\ Inside(w) -> b - a + 9
                 [] pc[w] = "sweep" -> b - pos[w] + 8
                 [] pc[w] = "at_end" -> 7
                 [] pc[w] = "in_end" /\ Inside(w) -> 6
                 [] pc[w] = "entry" \/ (pc[w] = "in_end" /\ ~Inside(w)) -> round + 5
                 [] pc[w] = "check" -> round + 4
                 [] pc[w] = "at_start" -> round + 3
                 [] pc[w] = "in_start" /\ ~Inside(w) -> round + 2
                 [] OTHER -> 0
    BY DEF WorkerLeft
  <2> HIDE DEF a, b, c
  <2> DEFINE round == IF pc[Manager] = "in_start" THEN b - a + 8 ELSE 0
  <2>3. round \in 0 .. c + 8 /\ b - a + 9 \in 0 .. c + 9
    BY <2>1
  <2>4. WorkerLeft(w) \in {b - a + 9, 7, 6, round + 5, round + 4, round + 3, round + 2, 0}
        \/ (pc[w] = "sweep" /\ WorkerLeft(w) = b - pos[w] + 8)
    BY <2>2
  <2> HIDE DEF round
  <2>5. WorkerLeft(w) \in 0 .. c + 13
    BY <2>1, <2>3, <2>4
  <2> QED
    BY <2>5 DEF c
<1> QED
  BY <1>1, <1>2 DEF BoundedWork

(* The table above, with the rounds. *)
LeftAt(p, c) ==
    /\ pc[Manager] = "make_prev" => ManagerLeft = p + (2 * N + 13)
    /\ pc[Manager] = "make_current" => ManagerLeft = p + (2 * N + 12)
    /\ pc[Manager] = "init_pool" => ManagerLeft = p + (2 * N + 11)
    /\ pc[Manager] = "popen" => ManagerLeft = p + (2 * N + 10)
    /\ pc[Manager] = "spawn" => ManagerLeft = p + (2 * N + 9 - next)
    /\ pc[Manager] = "at_start" => ManagerLeft = p + (N + 8)
    /\ pc[Manager] = "in_start" => ManagerLeft = p + (N + 7)
    /\ pc[Manager] = "mark" => ManagerLeft = p + (N + 6)
    /\ pc[Manager] = "at_end" => ManagerLeft = p + (N + 5)
    /\ pc[Manager] = "in_end" => ManagerLeft = p + (N + 4)
    /\ pc[Manager] = "plot" => ManagerLeft = p + (N + 3 - pos[Manager])
    /\ pc[Manager] = "swap" => ManagerLeft = p + (N + 2 - c)
    /\ pc[Manager] = "join" => ManagerLeft = N + 3 - next
    /\ pc[Manager] = "destroy_pool" => ManagerLeft = 2
    /\ pc[Manager] = "destroy_grids" => ManagerLeft = 1
    /\ pc[Manager] \in FinalPC => ManagerLeft = 0

LEMMA Table == LeftAt(RoundsLeft * RoundLength, W * H)
<1> DEFINE p == RoundsLeft * RoundLength
           c == W * H
<1>1. LeftInRound = CASE pc[Manager] = "make_prev" -> 2 * N + 13
                      [] pc[Manager] = "make_current" -> 2 * N + 12
                      [] pc[Manager] = "init_pool" -> 2 * N + 11
                      [] pc[Manager] = "popen" -> 2 * N + 10
                      [] pc[Manager] = "spawn" -> 2 * N + 9 - next
                      [] pc[Manager] = "at_start" -> N + 8
                      [] pc[Manager] = "in_start" -> N + 7
                      [] pc[Manager] = "mark" -> N + 6
                      [] pc[Manager] = "at_end" -> N + 5
                      [] pc[Manager] = "in_end" -> N + 4
                      [] pc[Manager] = "plot" -> N + 3 - pos[Manager]
                      [] OTHER -> N + 2 - c
  BY DEF LeftInRound
<1>2. ManagerLeft = CASE pc[Manager] = "join" -> N + 3 - next
                      [] pc[Manager] = "destroy_pool" -> 2
                      [] pc[Manager] = "destroy_grids" -> 1
                      [] pc[Manager] \in FinalPC -> 0
                      [] OTHER -> p + LeftInRound
  BY DEF ManagerLeft
<1> HIDE DEF p, c
<1>3. LeftAt(p, c)
  BY <1>1, <1>2 DEF LeftAt, FinalPC
<1> QED
  BY <1>3 DEF p, c

(***************************************************************************)
(* Every step of the manager takes it nearer to its exit: along the        *)
(* positions, through the cells of a plot, the workers to spawn or to join *)
(* and, with a swap, to the next round.                                    *)
(***************************************************************************)
LEMMA ManagerAdvances ==
    ASSUME IInv, IInv', ManagerStep
    PROVE  ManagerLeft' < ManagerLeft
<1> USE ThreadFacts DEF IInv
<1> DEFINE p == RoundsLeft * RoundLength
           q == (RoundsLeft * RoundLength)'
           c == W * H
<1>a. p \in Nat /\ q \in Nat
  <2>0. ts \in Nat /\ ts' \in Nat /\ T \in Nat
    BY SolverAssumption DEF TypeOK
  <2>n. ASSUME NEW n \in Nat PROVE (IF n < T THEN T - n ELSE 0) \in Nat
    BY <2>0
  <2>1. RoundsLeft \in Nat /\ RoundsLeft' \in Nat
    BY <2>0, <2>n DEF RoundsLeft
  <2>2. RoundLength \in Nat /\ RoundLength' = RoundLength
    BY GridAssumption DEF RoundLength
  <2> DEFINE a == RoundsLeft
             b == RoundsLeft'
             l == RoundLength
  <2>3. a \in Nat /\ b \in Nat /\ l \in Nat /\ p = a * l /\ q = b * l
    BY <2>1, <2>2
  <2> HIDE DEF a, b, l, p, q
  <2> QED
    BY <2>3
<1>0. /\ c \in Nat
      /\ N \in Nat /\ next \in Nat /\ next <= N /\ next' \in Nat /\ next' <= N
      /\ pos[Manager] \in Nat /\ pos'[Manager] \in Nat
      /\ pos[Manager] <= c /\ pos'[Manager] <= c
  BY GridAssumption DEF TypeOK, PosInv
<1>1. ts' = ts => q = p
  BY DEF RoundsLeft, RoundLength
<1>2. LeftAt(p, c)
  BY Table
<1>3. LeftAt(RoundsLeft * RoundLength, W * H)'
  BY Table, PTL
<1>4.
        /\ pc'[Manager] = "make_prev" => ManagerLeft' = q + (2 * N + 13)
        /\ pc'[Manager] = "make_current" => ManagerLeft' = q + (2 * N + 12)
        /\ pc'[Manager] = "init_pool" => ManagerLeft' = q + (2 * N + 11)
        /\ pc'[Manager] = "popen" => ManagerLeft' = q + (2 * N + 10)
        /\ pc'[Manager] = "spawn" => ManagerLeft' = q + (2 * N + 9 - next')
        /\ pc'[Manager] = "at_start" => ManagerLeft' = q + (N + 8)
        /\ pc'[Manager] = "in_start" => ManagerLeft' = q + (N + 7)
        /\ pc'[Manager] = "mark" => ManagerLeft' = q + (N + 6)
        /\ pc'[Manager] = "at_end" => ManagerLeft' = q + (N + 5)
        /\ pc'[Manager] = "in_end" => ManagerLeft' = q + (N + 4)
        /\ pc'[Manager] = "plot" => ManagerLeft' = q + (N + 3 - pos'[Manager])
        /\ pc'[Manager] = "swap" => ManagerLeft' = q + (N + 2 - c)
        /\ pc'[Manager] = "join" => ManagerLeft' = N + 3 - next'
        /\ pc'[Manager] = "destroy_pool" => ManagerLeft' = 2
        /\ pc'[Manager] = "destroy_grids" => ManagerLeft' = 1
        /\ pc'[Manager] \in FinalPC => ManagerLeft' = 0
  BY <1>3 DEF LeftAt
<1>5. /\ pc[Manager] = "swap" => p >= c + 8
      /\ 2 * N \in Nat /\ N <= 2 * N /\ 2 * N - next \in Nat
  BY <1>0, RoundFacts DEF LoopInv, RoundLength
<1>g. ASSUME NEW l, Goto(Manager, l)
      PROVE  pc'[Manager] = l
  BY <1>g, GotoFacts
<1> HIDE DEF p, q, c
<1>6. CASE MakePrevGrid
  <2>1. /\ pc[Manager] = "make_prev" /\ pc'[Manager] \in {"make_current", "exit_failed"}
        /\ q = p
    BY <1>1, <1>6, <1>g DEF MakePrevGrid
  <2> QED
    BY <1>a, <1>0, <1>2, <1>4, <1>5, <2>1 DEF LeftAt, FinalPC
<1>7. CASE MakeCurrentGrid
  <2>1. /\ pc[Manager] = "make_current" /\ pc'[Manager] \in {"init_pool", "exit_failed"}
        /\ q = p
    BY <1>1, <1>7, <1>g DEF MakeCurrentGrid
  <2> QED
    BY <1>a, <1>0, <1>2, <1>4, <1>5, <2>1 DEF LeftAt, FinalPC
<1>8. CASE InitPool
  <2>1. /\ pc[Manager] = "init_pool" /\ pc'[Manager] \in {"popen", "exit_failed"}
        /\ q = p
    BY <1>1, <1>8, <1>g DEF InitPool
  <2> QED
    BY <1>a, <1>0, <1>2, <1>4, <1>5, <2>1 DEF LeftAt, FinalPC
<1>9. CASE OpenPlot
  <2>1. pc[Manager] = "popen" /\ pc'[Manager] \in {"spawn", "exit_failed"} /\ q = p
    BY <1>1, <1>9, <1>g DEF OpenPlot
  <2> QED
    BY <1>a, <1>0, <1>2, <1>4, <1>5, <2>1 DEF LeftAt, FinalPC
<1>10. CASE SpawnDone
  <2>1. pc[Manager] = "spawn" /\ pc'[Manager] = "at_start" /\ q = p
    BY <1>1, <1>10, <1>g DEF SpawnDone
  <2> QED
    BY <1>a, <1>0, <1>2, <1>4, <1>5, <2>1 DEF LeftAt, FinalPC
<1>11. CASE ManagerArrivesAtStart
  <2>1. pc[Manager] = "at_start" /\ pc'[Manager] = "in_start" /\ q = p
    BY <1>1, <1>11, <1>g DEF ManagerArrivesAtStart
  <2> QED
    BY <1>a, <1>0, <1>2, <1>4, <1>5, <2>1 DEF LeftAt, FinalPC
<1>12. CASE ManagerLeavesStart
  <2>1. pc[Manager] = "in_start" /\ pc'[Manager] \in {"at_end", "mark"} /\ q = p
    BY <1>1, <1>12, <1>g DEF ManagerLeavesStart
  <2> QED
    BY <1>a, <1>0, <1>2, <1>4, <1>5, <2>1 DEF LeftAt, FinalPC
<1>13. CASE MarkDone
  <2>1. pc[Manager] = "mark" /\ pc'[Manager] = "at_end" /\ q = p
    BY <1>1, <1>13, <1>g DEF MarkDone
  <2> QED
    BY <1>a, <1>0, <1>2, <1>4, <1>5, <2>1 DEF LeftAt, FinalPC
<1>14. CASE ManagerArrivesAtEnd
  <2>1. pc[Manager] = "at_end" /\ pc'[Manager] = "in_end" /\ q = p
    BY <1>1, <1>14, <1>g DEF ManagerArrivesAtEnd
  <2> QED
    BY <1>a, <1>0, <1>2, <1>4, <1>5, <2>1 DEF LeftAt, FinalPC
<1>15. CASE JoinDone
  <2>1. pc[Manager] = "join" /\ pc'[Manager] = "destroy_pool" /\ q = p
    BY <1>1, <1>15, <1>g DEF JoinDone
  <2> QED
    BY <1>a, <1>0, <1>2, <1>4, <1>5, <2>1 DEF LeftAt, FinalPC
<1>16. CASE DestroyPool
  <2>1. pc[Manager] = "destroy_pool" /\ pc'[Manager] = "destroy_grids" /\ q = p
    BY <1>1, <1>16, <1>g DEF DestroyPool
  <2> QED
    BY <1>a, <1>0, <1>2, <1>4, <1>5, <2>1 DEF LeftAt, FinalPC
<1>17. CASE DestroyGrids
  <2>1. pc[Manager] = "destroy_grids" /\ pc'[Manager] = "exit_ok" /\ q = p
    BY <1>1, <1>17, <1>g DEF DestroyGrids
  <2> QED
    BY <1>a, <1>0, <1>2, <1>4, <1>5, <2>1 DEF LeftAt, FinalPC
<1>18. CASE ManagerLeavesEnd
  <2>1. /\ pc[Manager] = "in_end" /\ q = p
        /\ \/ pc'[Manager] = "plot"
           \/ pc'[Manager] = "join"
    BY <1>1, <1>18, <1>g DEF ManagerLeavesEnd
  <2> QED
    BY <1>a, <1>0, <1>2, <1>4, <1>5, <2>1 DEF LeftAt, FinalPC
<1>19. CASE PlotCell
  <2>1. /\ pc[Manager] = "plot" /\ pc'[Manager] = "plot" /\ q = p
        /\ pos'[Manager] = pos[Manager] + 1
    BY <1>1, <1>19, <1>g DEF PlotCell, TypeOK
  <2> QED
    BY <1>a, <1>0, <1>2, <1>4, <1>5, <2>1 DEF LeftAt, FinalPC
<1>20. CASE FlushFrame
  <2>1. /\ pc[Manager] = "plot" /\ pc'[Manager] = "swap" /\ q = p
        /\ ~(pos[Manager] < c)
    BY <1>1, <1>20, <1>g DEF FlushFrame, c
  <2> QED
    BY <1>a, <1>0, <1>2, <1>4, <1>5, <2>1 DEF LeftAt, FinalPC
<1>21. CASE JoinWorker
  <2>1. /\ pc[Manager] = "join" /\ pc'[Manager] = "join"
        /\ next' = next + 1
    BY <1>1, <1>21, <1>g DEF JoinWorker
  <2> QED
    BY <1>a, <1>0, <1>2, <1>4, <1>5, <2>1 DEF LeftAt, FinalPC
<1>22. CASE SwapGrids
  <2>1. pc[Manager] = "swap" /\ pc'[Manager] = "at_start" /\ ts < T /\ ts' = ts + 1
    BY <1>22, <1>g DEF SwapGrids, LoopInv
  <2>2. q = p - (c + 8)
    <3>1. RoundsLeft' = RoundsLeft - 1 /\ RoundsLeft \in Nat
      BY <2>1, SolverAssumption DEF RoundsLeft, TypeOK
    <3>2. RoundLength' = RoundLength /\ RoundLength \in Nat /\ RoundLength = c + 8
      BY <1>0 DEF RoundLength, c
    <3>3. \A a, b \in Int : (a - 1) * b = a * b - b
      OBVIOUS
    <3> QED
      BY <3>1, <3>2, <3>3 DEF p, q
  <2> QED
    BY <1>a, <1>0, <1>2, <1>4, <2>1, <2>2 DEF LeftAt
<1>23. CASE SpawnWorker
  <2>1. pc[Manager] = "spawn" /\ q = p /\ next < N
    BY <1>1, <1>23 DEF SpawnWorker
  <2>2. CASE Goto(Manager, "at_start")
    BY <1>a, <1>0, <1>2, <1>4, <1>5, <1>g, <2>1, <2>2 DEF LeftAt
  <2>3. CASE Goto(next, "entry") /\ next' = next + 1
    <3> PICK w \in Workers : w = next
      BY <1>0, <2>1 DEF Workers
    <3>1. Goto(w, "entry")
      BY <2>3
    <3>2. pc'[Manager] = "spawn"
      BY <2>1, <3>1, GotoFacts
    <3> QED
      BY <1>a, <1>0, <1>2, <1>4, <1>5, <2>1, <2>3, <3>2 DEF LeftAt
  <2> QED
    BY <1>23, <2>2, <2>3 DEF SpawnWorker
<1> QED
  BY <1>6, <1>7, <1>8, <1>9, <1>10, <1>11, <1>12, <1>13, <1>14,
     <1>15, <1>16, <1>17, <1>18, <1>19, <1>20, <1>21, <1>22, <1>23 DEF ManagerStep

(* What a worker's step leaves to the manager. *)
LEMMA WorkerStepFacts ==
    ASSUME IInv, NEW w \in Workers, WorkerStep(w)
    PROVE  /\ ManagerLeft' = ManagerLeft
           /\ \A s \in Threads : s # w => pc'[s] = pc[s] /\ pos'[s] = pos[s]
<1> USE ThreadFacts DEF IInv
<1>1. UNCHANGED <<ts, next>> /\ (pc' = pc \/ \E l \in WorkerPC : Goto(w, l))
  BY DEF WorkerStep, WorkerEnters, WorkerChecksQuit, WorkerArrivesAtStart, WorkerLeavesStart,
         UpdateCell, SweepDone, WorkerArrivesAtEnd, WorkerLeavesEnd, WorkerPC, SyncPC
<1>2. \A s \in Threads : s # w => pc'[s] = pc[s]
  BY <1>1, GotoFacts
<1>3. \A s \in Threads : s # w => pos'[s] = pos[s]
  BY DEF WorkerStep, WorkerEnters, WorkerChecksQuit, WorkerArrivesAtStart, WorkerLeavesStart,
         UpdateCell, SweepDone, WorkerArrivesAtEnd, WorkerLeavesEnd, TypeOK
<1>4. pc'[Manager] = pc[Manager] /\ pos'[Manager] = pos[Manager]
  BY <1>2, <1>3
<1> QED
  BY <1>1, <1>2, <1>3, <1>4 DEF ManagerLeft, RoundsLeft, LeftInRound

(* The table of a worker's positions, for a region of s cells of which b   *)
(* is the end, and with r more steps before the start barrier.             *)
WorkerAt(w, s, b, r) ==
    /\ pc[w] = "in_start" /\ Inside(w) => WorkerLeft(w) = s + 9
    /\ pc[w] = "sweep" => WorkerLeft(w) = b - pos[w] + 8
    /\ pc[w] = "at_end" => WorkerLeft(w) = 7
    /\ pc[w] = "in_end" /\ Inside(w) => WorkerLeft(w) = 6
    /\ pc[w] = "entry" \/ (pc[w] = "in_end" /\ ~Inside(w)) => WorkerLeft(w) = r + 5
    /\ pc[w] = "check" => WorkerLeft(w) = r + 4
    /\ pc[w] = "at_start" => WorkerLeft(w) = r + 3
    /\ pc[w] = "in_start" /\ ~Inside(w) => WorkerLeft(w) = r + 2
    /\ pc[w] \in {"none", "done"} => WorkerLeft(w) = 0

Sweep(w) == RegionEnd(w) - RegionStart(w)
BeforeStart(w) == IF pc[Manager] = "in_start" THEN Sweep(w) + 8 ELSE 0

WorkerTable == \A w \in Workers : WorkerAt(w, Sweep(w), RegionEnd(w), BeforeStart(w))

LEMMA WorkerTableHolds == WorkerTable
  BY DEF WorkerTable, WorkerAt, WorkerLeft, Sweep, BeforeStart

(* The one that steps has less before it. *)
LEMMA WorkerShortens ==
    ASSUME IInv, IInv', NEW w \in Workers, WorkerStep(w)
    PROVE  WorkerLeft(w)' < WorkerLeft(w)
<1> USE ThreadFacts DEF IInv
<1> DEFINE s == Sweep(w)
           b == RegionEnd(w)
           r == BeforeStart(w)
<1>0. /\ s \in Nat /\ r \in Nat /\ b \in Nat
      /\ pos[w] \in Nat /\ pos'[w] \in Nat
      /\ pc[w] = "sweep" => pos[w] <= b
      /\ RegionStart(w) \in Nat /\ s = b - RegionStart(w)
      /\ pc[Manager] = "in_start" => r = s + 8
  <2>1. s \in Nat /\ b \in Nat /\ RegionStart(w) \in Nat
    BY RegionBounds DEF Sweep
  <2> QED
    BY <2>1 DEF TypeOK, PosInv, BeforeStart, Sweep
<1>1. WorkerAt(w, s, b, r)
  BY WorkerTableHolds DEF WorkerTable
<1>2. WorkerTable'
  BY WorkerTableHolds, PTL
<1>3. pc'[Manager] = pc[Manager]
  BY WorkerStepFacts
<1>4. s = Sweep(w)' /\ b = RegionEnd(w)' /\ r = BeforeStart(w)'
  BY <1>3 DEF Sweep, BeforeStart, RegionEnd, RegionStart, rows_per_worker
<1>5. /\ pc'[w] = "in_start" /\ Inside(w)' => WorkerLeft(w)' = s + 9
      /\ pc'[w] = "sweep" => WorkerLeft(w)' = b - pos'[w] + 8
      /\ pc'[w] = "at_end" => WorkerLeft(w)' = 7
      /\ pc'[w] = "in_end" /\ Inside(w)' => WorkerLeft(w)' = 6
      /\ pc'[w] = "in_end" /\ ~Inside(w)' => WorkerLeft(w)' = r + 5
      /\ pc'[w] = "check" => WorkerLeft(w)' = r + 4
      /\ pc'[w] = "at_start" => WorkerLeft(w)' = r + 3
      /\ pc'[w] = "in_start" /\ ~Inside(w)' => WorkerLeft(w)' = r + 2
      /\ pc'[w] \in {"none", "done"} => WorkerLeft(w)' = 0
  BY <1>2, <1>4 DEF WorkerTable, WorkerAt
<1>g. ASSUME NEW l, Goto(w, l)
      PROVE  pc'[w] = l
  BY <1>g, GotoFacts
<1> HIDE DEF s, b, r
<1>6. CASE WorkerEnters(w)
  <2>1. pc[w] = "entry" /\ pc'[w] = "check"
    BY <1>6, <1>g DEF WorkerEnters
  <2> QED
    BY <1>0, <1>1, <1>5, <2>1 DEF WorkerAt
<1>7. CASE WorkerChecksQuit(w)
  <2>1. pc[w] = "check" /\ (pc'[w] = "at_start" \/ pc'[w] = "done")
    BY <1>7, <1>g DEF WorkerChecksQuit
  <2> QED
    BY <1>0, <1>1, <1>5, <2>1 DEF WorkerAt
<1>8. CASE WorkerArrivesAtStart(w)
  <2>1. pc[w] = "at_start" /\ pc'[w] = "in_start"
    BY <1>8, <1>g DEF WorkerArrivesAtStart
  <2>2. CASE ~Inside(w)'
    BY <1>0, <1>1, <1>5, <2>1, <2>2 DEF WorkerAt
  <2>3. CASE Inside(w)'
    <3>1. w \notin waiting'["start"]
      BY <2>1, <2>3 DEF Inside
    <3>2. Manager \in waiting["start"]
      BY <1>8, <3>1, ArriveCases DEF WorkerArrivesAtStart, Barriers
    <3>3. pc[Manager] = "in_start"
      BY <3>2 DEF WaitInv
    <3> QED
      BY <1>0, <1>1, <1>5, <2>1, <2>3, <3>3 DEF WorkerAt
  <2> QED
    BY <2>2, <2>3
<1>9. CASE WorkerLeavesStart(w)
  <2>1. /\ pc[w] = "in_start" /\ Inside(w) /\ pc'[w] = "sweep"
        /\ pos'[w] = RegionStart(w)
    BY <1>9, <1>g DEF WorkerLeavesStart, Released, Inside, TypeOK
  <2> QED
    BY <1>0, <1>1, <1>5, <2>1 DEF WorkerAt
<1>10. CASE UpdateCell(w)
  <2>1. pc[w] = "sweep" /\ pc'[w] = "sweep" /\ pos'[w] = pos[w] + 1
    BY <1>10 DEF UpdateCell, TypeOK
  <2> QED
    BY <1>0, <1>1, <1>5, <2>1 DEF WorkerAt
<1>11. CASE SweepDone(w)
  <2>1. pc[w] = "sweep" /\ pc'[w] = "at_end"
    BY <1>11, <1>g DEF SweepDone
  <2> QED
    BY <1>0, <1>1, <1>5, <2>1 DEF WorkerAt
<1>12. CASE WorkerArrivesAtEnd(w)
  <2>1. pc[w] = "at_end" /\ pc'[w] = "in_end"
    BY <1>12, <1>g DEF WorkerArrivesAtEnd
  <2>2. CASE Inside(w)'
    BY <1>0, <1>1, <1>5, <2>1, <2>2 DEF WorkerAt
  <2>3. CASE ~Inside(w)'
    <3>1. w \notin waiting'["end"]
      BY <2>1, <2>3 DEF Inside
    <3>2. Manager \in waiting["end"]
      BY <1>12, <3>1, ArriveCases DEF WorkerArrivesAtEnd, Barriers
    <3>3. pc[Manager] = "in_end"
      BY <3>2 DEF WaitInv
    <3>4. r = 0
      BY <3>3 DEF r, BeforeStart
    <3> QED
      BY <1>0, <1>1, <1>5, <2>1, <2>3, <3>4 DEF WorkerAt
  <2> QED
    BY <2>2, <2>3
<1>13. CASE WorkerLeavesEnd(w)
  <2>1. pc[w] = "in_end" /\ ~Inside(w) /\ pc'[w] = "check"
    BY <1>13, <1>g DEF WorkerLeavesEnd, Released, Inside
  <2> QED
    BY <1>0, <1>1, <1>5, <2>1 DEF WorkerAt
<1> QED
  BY <1>6, <1>7, <1>8, <1>9, <1>10, <1>11, <1>12, <1>13 DEF WorkerStep

(* The others have as much as before, or were let go by it and have less. *)
LEMMA OthersKeepUp ==
    ASSUME IInv, IInv', NEW w \in Workers, WorkerStep(w), NEW v \in Workers, v # w
    PROVE  WorkerLeft(v)' <= WorkerLeft(v)
<1> USE ThreadFacts DEF IInv
<1>0. /\ WorkerLeft(v) \in Int
      /\ pc'[v] = pc[v] /\ pos'[v] = pos[v] /\ pc'[Manager] = pc[Manager]
  BY WorkerStepFacts, LeftTypes DEF BoundedWork
<1>r. Sweep(v) \in Nat
  BY RegionBounds DEF Sweep
<1>1. CASE Inside(v)' = Inside(v)
  <2>1. WorkerLeft(v)' = WorkerLeft(v)
    BY <1>0, <1>1 DEF WorkerLeft, RegionEnd, RegionStart, rows_per_worker
  <2> QED
    BY <1>0, <2>1
<1>2. CASE Inside(v)' # Inside(v)
  <2>1. waiting' # waiting
    BY <1>0, <1>2 DEF Inside
  <2>2. CASE WorkerArrivesAtStart(w)
    <3>1. waiting'["end"] = waiting["end"] /\ waiting'["start"] = {}
          /\ waiting["start"] \cup {w} = Threads
      BY <1>0, <1>2, <2>2, ArriveCases DEF WorkerArrivesAtStart, Barriers, Inside
    <3>2. v \in waiting["start"] /\ Manager \in waiting["start"]
      BY <3>1
    <3>3. pc[v] = "in_start" /\ pc[Manager] = "in_start" /\ ~Inside(v) /\ Inside(v)'
      BY <1>0, <3>1, <3>2 DEF WaitInv, Inside
    <3>4. WorkerLeft(v) = Sweep(v) + 8 + 2 /\ WorkerLeft(v)' = Sweep(v) + 9
      BY <1>0, <3>3 DEF WorkerLeft, Sweep, RegionEnd, RegionStart, rows_per_worker
    <3> QED
      BY <1>r, <3>4
  <2>3. CASE WorkerArrivesAtEnd(w)
    <3>1. waiting'["start"] = waiting["start"] /\ waiting'["end"] = {}
          /\ waiting["end"] \cup {w} = Threads
      BY <1>0, <1>2, <2>3, ArriveCases DEF WorkerArrivesAtEnd, Barriers, Inside
    <3>2. v \in waiting["end"] /\ Manager \in waiting["end"]
      BY <3>1
    <3>3. pc[v] = "in_end" /\ pc[Manager] = "in_end" /\ Inside(v) /\ ~Inside(v)'
      BY <1>0, <3>1, <3>2 DEF WaitInv, Inside
    <3>4. WorkerLeft(v) = 6 /\ WorkerLeft(v)' = 5
      BY <1>0, <3>3 DEF WorkerLeft
    <3> QED
      BY <3>4
  <2> QED
    BY <2>1, <2>2, <2>3
       DEF WorkerStep, WorkerEnters, WorkerChecksQuit, WorkerLeavesStart, UpdateCell,
           SweepDone, WorkerLeavesEnd
<1> QED
  BY <1>1, <1>2

(***************************************************************************)
(* The manager has at most T * RoundLength + 2 * N + 13 steps before it,   *)
(* and between two of them every worker at most W * H + 13: every step     *)
(* that the program takes brings one thread on and sets none of the others *)
(* back, whichever calls fail and however the threads are scheduled.       *)
(***************************************************************************)
THEOREM StepsRunOut == Spec => []BoundedWork /\ [][Advances]_vars
<1>1. IInv /\ IInv' /\ [Next]_vars => [Advances]_vars
  <2> SUFFICES ASSUME IInv, IInv', Next PROVE Advances \/ UNCHANGED vars
    OBVIOUS
  <2>1. CASE ManagerStep
    BY <2>1, ManagerAdvances DEF Advances
  <2>2. ASSUME NEW w \in Workers, WorkerStep(w) PROVE Advances
    BY <2>2, WorkerStepFacts, WorkerShortens, OthersKeepUp DEF Advances
  <2> QED
    BY <2>1, <2>2 DEF Next, Terminated
<1> QED
  BY <1>1, LeftTypes, Invariance, PTL DEF Spec
=============================================================================
