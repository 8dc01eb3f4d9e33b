------------------------------ MODULE RCSolver ------------------------------
(***************************************************************************)
(* The multithreaded solver of thread/: the managing thread (main.c,       *)
(* manager.c) and N workers (worker.c) that share two grids, two barriers  *)
(* and a quit flag.                                                        *)
(*                                                                         *)
(* One action is one step of one thread between two accesses to shared     *)
(* memory: a worker updates one cell per step, the manager prints one cell *)
(* per step, and every barrier wait is an arrival and a departure.  Thread *)
(* N is the manager; the workers are 0 .. N-1.                             *)
(***************************************************************************)
EXTENDS Grid, Sequences, FiniteSets

CONSTANTS
    N,          \* n_threads, the number of workers
    T,          \* timesteps
    Faults      \* the calls that may fail in this instance

FaultKinds == {"make_grid", "init_pool", "popen", "malloc", "pthread_create"}

(* main.c exits before it allocates anything unless N divides H. *)
ASSUME SolverAssumption ==
    /\ N \in Nat \ {0} /\ H % N = 0
    /\ T \in Nat
    /\ Faults \subseteq FaultKinds

VARIABLES
    pc,             \* where each thread is
    ts,             \* i, the loop counter of main
    next,           \* i, the loop counter of spawn_workers and await_workers
    grid,           \* the contents of the two arrays
    prev_grid,      \* the array prev_grid->grid points to
    current_grid,   \* the array current_grid->grid points to
    pos,            \* the cell each thread is about to update or to print
    waiting,        \* the threads blocked at each barrier
    quit,           \* *pool->quit
    heap,           \* the allocated blocks
    args,           \* the workers whose worker_args_t is allocated
    frame,          \* the cells of the current frame printed so far
    film            \* the frames flushed to gnuplot

gridVars == <<grid, prev_grid, current_grid>>
memVars == <<heap, args>>
plotVars == <<frame, film>>
vars == <<pc, ts, next, gridVars, pos, waiting, quit, memVars, plotVars>>

Workers == 0 .. N - 1
Manager == N
Threads == 0 .. N

Barriers == {"start", "end"}
Arrays == {"a", "b"}

PoolBlocks == {"pool", "tids", "start_barrier", "end_barrier", "worker_attrs",
               "ex", "rows_start", "rows_end", "quit"}
GridBlocks == {"prev_grid", "current_grid"}

SetupPC == {"make_prev", "make_current", "init_pool", "popen"}
FinalPC == {"exit_ok", "exit_failed"}
SyncPC == {"at_start", "in_start", "at_end", "in_end"}
ManagerPC == SetupPC \cup SyncPC \cup FinalPC
             \cup {"spawn", "plot", "swap", "mark", "join", "destroy_pool", "destroy_grids"}
WorkerPC == SyncPC \cup {"none", "entry", "check", "sweep", "done"}

(* The cells of worker w, rows_start[w] <= y < rows_end[w], as flat indices. *)
rows_per_worker == H \div N
RegionStart(w) == W * (rows_per_worker * w)
RegionEnd(w) == W * (rows_per_worker * (w + 1))

-----------------------------------------------------------------------------
Init == /\ pc = [t \in Threads |-> IF t = Manager THEN "make_prev" ELSE "none"]
        /\ ts = 1
        /\ next = 0
        /\ grid = [a \in Arrays |-> ZeroGrid]
        /\ prev_grid = "a"
        /\ current_grid = "b"
        /\ pos = [t \in Threads |-> 0]
        /\ waiting = [b \in Barriers |-> {}]
        /\ quit = 0
        /\ heap = {}
        /\ args = {}
        /\ frame = ZeroGrid
        /\ film = <<>>

Goto(t, l) == pc' = [pc EXCEPT ![t] = l]

(***************************************************************************)
(* Plausible mistakes, each a replacement for the definition its name      *)
(* begins with; none is part of Next.  A property that survived all of     *)
(* them would say little about the code.                                   *)
(***************************************************************************)
Arrive_WithoutManager(t, b) ==
    LET arrived == waiting[b] \cup {t}
    IN  waiting' = [waiting EXCEPT
                        ![b] = IF Cardinality(arrived) = N THEN {} ELSE arrived]

SpawnWorker_OneTooMany ==
    /\ pc[Manager] = "spawn" /\ next <= N
    /\ args' = args \cup {next}
    /\ next' = next + 1
    /\ Goto(next, "entry")
    /\ UNCHANGED <<ts, gridVars, pos, waiting, quit, heap, plotVars>>

(* i <= timesteps *)
ManagerLeavesStart_OneMoreStep ==
    /\ pc[Manager] = "in_start" /\ Manager \notin waiting["start"]
    /\ Goto(Manager, IF ts <= T THEN "at_end" ELSE "mark")
    /\ UNCHANGED <<ts, next, gridVars, pos, waiting, quit, memVars, plotVars>>

(* The grids are not exchanged, as in benchmark.c. *)
SwapGrids_Not ==
    /\ pc[Manager] = "swap"
    /\ ts' = ts + 1
    /\ Goto(Manager, "at_start")
    /\ UNCHANGED <<next, gridVars, pos, waiting, quit, memVars, plotVars>>

(* mark_done inside the loop, before the last start barrier. *)
SwapGrids_MarksDone ==
    /\ pc[Manager] = "swap"
    /\ prev_grid' = current_grid
    /\ current_grid' = prev_grid
    /\ ts' = ts + 1
    /\ quit' = IF ts + 1 < T THEN 0 ELSE 1
    /\ Goto(Manager, "at_start")
    /\ UNCHANGED <<next, grid, pos, waiting, memVars, plotVars>>

(* free without pthread_join *)
JoinWorker_NoWait ==
    /\ pc[Manager] = "join" /\ next < N
    /\ args' = args \ {next}
    /\ next' = next + 1
    /\ UNCHANGED <<pc, ts, gridVars, pos, waiting, quit, heap, plotVars>>

(* worker_routine returns NULL *)
JoinWorker_NoArgs ==
    /\ pc[Manager] = "join" /\ next < N
    /\ pc[next] = "done"
    /\ next' = next + 1
    /\ UNCHANGED <<pc, ts, gridVars, pos, waiting, quit, memVars, plotVars>>

(***************************************************************************)
(* pthread_barrier_wait on a barrier made for N + 1 threads: the last one  *)
(* to arrive releases all of them.                                         *)
(***************************************************************************)
Arrive(t, b) ==
    LET arrived == waiting[b] \cup {t}
    IN  waiting' = [waiting EXCEPT
                        ![b] = IF Cardinality(arrived) = N + 1 THEN {} ELSE arrived]

Released(t, b) == t \notin waiting[b]

-----------------------------------------------------------------------------
(* The managing thread, in the order of main. *)

MakePrevGrid ==
    /\ pc[Manager] = "make_prev"
    /\ \/ heap' = heap \cup {"prev_grid"} /\ Goto(Manager, "make_current")
       \/ "make_grid" \in Faults /\ Goto(Manager, "exit_failed") /\ UNCHANGED heap
    /\ UNCHANGED <<ts, next, gridVars, pos, waiting, quit, args, plotVars>>

(* When the second grid cannot be made the first one is not destroyed. *)
MakeCurrentGrid ==
    /\ pc[Manager] = "make_current"
    /\ \/ heap' = heap \cup {"current_grid"} /\ Goto(Manager, "init_pool")
       \/ "make_grid" \in Faults /\ Goto(Manager, "exit_failed") /\ UNCHANGED heap
    /\ UNCHANGED <<ts, next, gridVars, pos, waiting, quit, args, plotVars>>

(***************************************************************************)
(* init_pool and fill_pool.  When one allocation is refused the error path *)
(* frees the others, except tids and ex_allocated; the caller destroys the *)
(* two grids.  (If the pool itself is refused nothing was allocated yet.)  *)
(***************************************************************************)
InitPool ==
    /\ pc[Manager] = "init_pool"
    /\ \/ /\ heap' = heap \cup PoolBlocks
          /\ Goto(Manager, "popen")
       \/ /\ "init_pool" \in Faults
          /\ \E refused \in PoolBlocks :
                heap' = (heap \ GridBlocks)
                        \cup (IF refused = "pool" THEN {} ELSE {"tids", "ex"} \ {refused})
          /\ Goto(Manager, "exit_failed")
    /\ quit' = 0
    /\ UNCHANGED <<ts, next, gridVars, pos, waiting, args, plotVars>>

OpenPlot ==
    /\ pc[Manager] = "popen"
    /\ \/ Goto(Manager, "spawn") /\ UNCHANGED heap
       \/ /\ "popen" \in Faults
          /\ heap' = heap \ (GridBlocks \cup PoolBlocks)
          /\ Goto(Manager, "exit_failed")
    /\ UNCHANGED <<ts, next, gridVars, pos, waiting, quit, args, plotVars>>

(***************************************************************************)
(* One round of spawn_workers.  main ignores what it returns, so a refused *)
(* malloc or pthread_create leads to the start barrier like success does.  *)
(***************************************************************************)
SpawnWorker ==
    /\ pc[Manager] = "spawn" /\ next < N
    /\ \/ /\ args' = args \cup {next}
          /\ next' = next + 1
          /\ Goto(next, "entry")
       \/ /\ "malloc" \in Faults
          /\ Goto(Manager, "at_start")
          /\ UNCHANGED <<args, next>>
       \/ /\ "pthread_create" \in Faults
          /\ args' = args \cup {next}
          /\ Goto(Manager, "at_start")
          /\ UNCHANGED next
    /\ UNCHANGED <<ts, gridVars, pos, waiting, quit, heap, plotVars>>

SpawnDone ==
    /\ pc[Manager] = "spawn" /\ ~(next < N)
    /\ Goto(Manager, "at_start")
    /\ UNCHANGED <<ts, next, gridVars, pos, waiting, quit, memVars, plotVars>>

ManagerArrivesAtStart ==
    /\ pc[Manager] = "at_start"
    /\ Arrive(Manager, "start")
    /\ Goto(Manager, "in_start")
    /\ UNCHANGED <<ts, next, gridVars, pos, quit, memVars, plotVars>>

(* Out of sync(start_barrier): to the loop test with i = ts. *)
ManagerLeavesStart ==
    /\ pc[Manager] = "in_start" /\ Released(Manager, "start")
    /\ Goto(Manager, IF ts < T THEN "at_end" ELSE "mark")
    /\ UNCHANGED <<ts, next, gridVars, pos, waiting, quit, memVars, plotVars>>

(* mark_done, while the workers compute the last step. *)
MarkDone ==
    /\ pc[Manager] = "mark"
    /\ quit' = 1
    /\ Goto(Manager, "at_end")
    /\ UNCHANGED <<ts, next, gridVars, pos, waiting, memVars, plotVars>>

(* sync(end_barrier), in the loop (i < timesteps) and after it. *)
ManagerArrivesAtEnd ==
    /\ pc[Manager] = "at_end"
    /\ Arrive(Manager, "end")
    /\ Goto(Manager, "in_end")
    /\ UNCHANGED <<ts, next, gridVars, pos, quit, memVars, plotVars>>

ManagerLeavesEnd ==
    /\ pc[Manager] = "in_end" /\ Released(Manager, "end")
    /\ \/ /\ ts < T
          /\ Goto(Manager, "plot")
          /\ UNCHANGED next
       \/ /\ ~(ts < T)
          /\ Goto(Manager, "join")
          /\ next' = 0
    /\ UNCHANGED <<ts, gridVars, pos, waiting, quit, memVars, plotVars>>

(***************************************************************************)
(* dump_timestep prints prev_grid cell by cell in index order and then     *)
(* flushes the frame.                                                      *)
(***************************************************************************)
PlotCell ==
    LET c == pos[Manager]
    IN  /\ pc[Manager] = "plot" /\ c < W * H
        /\ frame' = [frame EXCEPT ![c] = grid[prev_grid][c]]
        /\ pos' = [pos EXCEPT ![Manager] = c + 1]
        /\ UNCHANGED <<pc, ts, next, gridVars, waiting, quit, memVars, film>>

FlushFrame ==
    /\ pc[Manager] = "plot" /\ ~(pos[Manager] < W * H)
    /\ film' = Append(film, frame)
    /\ frame' = ZeroGrid
    /\ pos' = [pos EXCEPT ![Manager] = 0]
    /\ Goto(Manager, "swap")
    /\ UNCHANGED <<ts, next, gridVars, waiting, quit, memVars>>

(* Exchange of the two array pointers, then ++i of the loop. *)
SwapGrids ==
    /\ pc[Manager] = "swap"
    /\ prev_grid' = current_grid
    /\ current_grid' = prev_grid
    /\ ts' = ts + 1
    /\ Goto(Manager, "at_start")
    /\ UNCHANGED <<next, grid, pos, waiting, quit, memVars, plotVars>>

(* One round of await_workers: the routine returns its args block. *)
JoinWorker ==
    /\ pc[Manager] = "join" /\ next < N
    /\ pc[next] = "done"
    /\ args' = args \ {next}
    /\ next' = next + 1
    /\ UNCHANGED <<pc, ts, gridVars, pos, waiting, quit, heap, plotVars>>

JoinDone ==
    /\ pc[Manager] = "join" /\ ~(next < N)
    /\ Goto(Manager, "destroy_pool")
    /\ UNCHANGED <<ts, next, gridVars, pos, waiting, quit, memVars, plotVars>>

DestroyPool ==
    /\ pc[Manager] = "destroy_pool"
    /\ heap' = heap \ PoolBlocks
    /\ Goto(Manager, "destroy_grids")
    /\ UNCHANGED <<ts, next, gridVars, pos, waiting, quit, args, plotVars>>

DestroyGrids ==
    /\ pc[Manager] = "destroy_grids"
    /\ heap' = heap \ GridBlocks
    /\ Goto(Manager, "exit_ok")
    /\ UNCHANGED <<ts, next, gridVars, pos, waiting, quit, args, plotVars>>

-----------------------------------------------------------------------------
(* worker_routine, for worker w. *)

(* Read the arguments and the setup they point to. *)
WorkerEnters(w) ==
    /\ pc[w] = "entry"
    /\ Goto(w, "check")
    /\ UNCHANGED <<ts, next, gridVars, pos, waiting, quit, memVars, plotVars>>

(* while (!quit) *)
WorkerChecksQuit(w) ==
    /\ pc[w] = "check"
    /\ Goto(w, IF quit = 0 THEN "at_start" ELSE "done")
    /\ UNCHANGED <<ts, next, gridVars, pos, waiting, quit, memVars, plotVars>>

WorkerArrivesAtStart(w) ==
    /\ pc[w] = "at_start"
    /\ Arrive(w, "start")
    /\ Goto(w, "in_start")
    /\ UNCHANGED <<ts, next, gridVars, pos, quit, memVars, plotVars>>

WorkerLeavesStart(w) ==
    /\ pc[w] = "in_start" /\ Released(w, "start")
    /\ pos' = [pos EXCEPT ![w] = RegionStart(w)]
    /\ Goto(w, "sweep")
    /\ UNCHANGED <<ts, next, gridVars, waiting, quit, memVars, plotVars>>

(* One iteration of the two nested loops over the worker's rows. *)
UpdateCell(w) ==
    LET c == pos[w]
    IN  /\ pc[w] = "sweep" /\ c < RegionEnd(w)
        /\ grid' = [grid EXCEPT ![current_grid][c] = EulerStep(grid[prev_grid], c)]
        /\ pos' = [pos EXCEPT ![w] = c + 1]
        /\ UNCHANGED <<pc, ts, next, prev_grid, current_grid, waiting, quit, memVars, plotVars>>

SweepDone(w) ==
    /\ pc[w] = "sweep" /\ ~(pos[w] < RegionEnd(w))
    /\ Goto(w, "at_end")
    /\ UNCHANGED <<ts, next, gridVars, pos, waiting, quit, memVars, plotVars>>

WorkerArrivesAtEnd(w) ==
    /\ pc[w] = "at_end"
    /\ Arrive(w, "end")
    /\ Goto(w, "in_end")
    /\ UNCHANGED <<ts, next, gridVars, pos, quit, memVars, plotVars>>

WorkerLeavesEnd(w) ==
    /\ pc[w] = "in_end" /\ Released(w, "end")
    /\ Goto(w, "check")
    /\ UNCHANGED <<ts, next, gridVars, pos, waiting, quit, memVars, plotVars>>

-----------------------------------------------------------------------------
ManagerStep ==
    \/ MakePrevGrid \/ MakeCurrentGrid \/ InitPool \/ OpenPlot
    \/ SpawnWorker \/ SpawnDone
    \/ ManagerArrivesAtStart \/ ManagerLeavesStart
    \/ MarkDone
    \/ ManagerArrivesAtEnd \/ ManagerLeavesEnd
    \/ PlotCell \/ FlushFrame \/ SwapGrids
    \/ JoinWorker \/ JoinDone \/ DestroyPool \/ DestroyGrids

WorkerStep(w) ==
    \/ WorkerEnters(w) \/ WorkerChecksQuit(w)
    \/ WorkerArrivesAtStart(w) \/ WorkerLeavesStart(w)
    \/ UpdateCell(w) \/ SweepDone(w)
    \/ WorkerArrivesAtEnd(w) \/ WorkerLeavesEnd(w)

(* The process has exited; nothing runs any more. *)
Terminated == pc[Manager] \in FinalPC /\ UNCHANGED vars

Next == ManagerStep \/ (\E w \in Workers : WorkerStep(w)) \/ Terminated

(* The kernel schedules every thread that can run. *)
Fairness == /\ WF_vars(ManagerStep)
            /\ \A w \in Workers : WF_vars(WorkerStep(w))

Spec == Init /\ [][Next]_vars
FairSpec == Spec /\ Fairness

-----------------------------------------------------------------------------
(* Every variable stays in its range; ts never passes the loop bound. *)
TypeOK ==
    /\ pc \in [Threads -> ManagerPC \cup WorkerPC]
    /\ pc[Manager] \in ManagerPC
    /\ \A w \in Workers : pc[w] \in WorkerPC
    /\ ts \in Nat /\ (ts = 1 \/ ts <= T)
    /\ next \in 0 .. N
    /\ grid \in [Arrays -> [Cells -> Int]]
    /\ prev_grid \in Arrays /\ current_grid \in Arrays
    /\ pos \in [Threads -> Nat]
    /\ waiting \in [Barriers -> SUBSET Threads]
    /\ quit \in {0, 1}
    /\ heap \subseteq PoolBlocks \cup GridBlocks
    /\ args \subseteq Workers
    /\ frame \in [Cells -> Int]
    /\ film \in Seq([Cells -> Int])

(***************************************************************************)
(* The shared locations a thread's next step reads and writes: an element  *)
(* of an array, one of the two array pointers, or the quit flag.           *)
(***************************************************************************)
Element(a, c) == <<a, c>>
Pointers == {<<"prev_grid", 0>>, <<"current_grid", 0>>}
QuitFlag == <<"quit", 0>>

Updates(t) == t \in Workers /\ pc[t] = "sweep" /\ pos[t] < RegionEnd(t)
Prints(t) == t = Manager /\ pc[t] = "plot" /\ pos[t] < W * H
Swaps(t) == t = Manager /\ pc[t] = "swap"

Reads(t) ==
    {l \in Pointers : Updates(t) \/ Prints(t) \/ Swaps(t)}
    \cup {Element(prev_grid, c) : c \in {d \in StencilReads(pos[t]) : Updates(t)}}
    \cup {Element(prev_grid, c) : c \in {d \in {pos[t]} : Prints(t)}}
    \cup {l \in {QuitFlag} : t \in Workers /\ pc[t] = "check"}

Writes(t) ==
    {Element(current_grid, c) : c \in {d \in {pos[t]} : Updates(t)}}
    \cup {l \in Pointers : Swaps(t)}
    \cup {l \in {QuitFlag} : t = Manager /\ pc[t] = "mark"}

(***************************************************************************)
(* No data race: no thread is about to write what another thread is about  *)
(* to read or write.  quit and the two array pointers are plain variables, *)
(* so only the barriers of main.c 98-114 and worker.c 106-136 keep the     *)
(* threads apart.                                                          *)
(***************************************************************************)
NoDataRace ==
    \A s, t \in Threads : s # t => Writes(s) \cap (Reads(t) \cup Writes(t)) = {}

(***************************************************************************)
(* The workers leave their loops together: once one of them has read the   *)
(* quit flag set, no other can start a further sweep, which would block at *)
(* a start barrier nobody completes (worker.c 106-108, main.c 112-114).    *)
(***************************************************************************)
QuitAgreement ==
    (\E w \in Workers : pc[w] = "done")
        => \A w \in Workers : pc[w] \in {"in_end", "check", "done"}

(* The blocks the next step of a thread dereferences or frees. *)
BlocksUsed(t) ==
    CASE pc[t] = "init_pool" -> {"current_grid"}
      [] pc[t] = "spawn" -> {"pool", "tids", "worker_attrs", "rows_start", "rows_end"}
                            \cup GridBlocks
      [] pc[t] = "entry" -> {"ex"} \cup GridBlocks
      [] pc[t] \in {"check", "mark"} -> {"quit"}
      [] pc[t] \in {"at_start", "in_start"} -> {"start_barrier"}
      [] pc[t] \in {"at_end", "in_end"} -> {"end_barrier"}
      [] pc[t] \in {"sweep", "plot", "swap"} -> GridBlocks
      [] pc[t] = "join" -> {"pool", "tids"}
      [] pc[t] = "destroy_pool" -> PoolBlocks
      [] pc[t] = "destroy_grids" -> GridBlocks
      [] OTHER -> {}

(***************************************************************************)
(* No thread uses a block that main, await_workers or destroy_pool has     *)
(* freed: a worker still inside a barrier, or reading the quit flag, keeps *)
(* its own arguments, the pool and the grids alive.                        *)
(***************************************************************************)
NoUseAfterFree ==
    /\ \A t \in Threads : BlocksUsed(t) \subseteq heap
    /\ \A w \in Workers : pc[w] \notin {"none", "done"} => w \in args

(***************************************************************************)
(* main returns EXIT_SUCCESS with every block freed and every worker       *)
(* finished (main.c 116-126), also the argument blocks it never sees.      *)
(***************************************************************************)
CleanExit ==
    pc[Manager] = "exit_ok"
        => /\ heap = {} /\ args = {}
           /\ \A w \in Workers : pc[w] = "done"

(***************************************************************************)
(* The update of a node that is not a corner reads the node and exactly    *)
(* the nodes it is connected to, whatever the flat offsets make of the     *)
(* borders (worker.c 22-79).                                               *)
(***************************************************************************)
ReadsNeighbours ==
    \A w \in Workers :
        Updates(w) /\ ~is_corner(pos[w])
            => StencilReads(pos[w]) = {pos[w]} \cup Neighbours(pos[w])

(***************************************************************************)
(* The threads together do what the sequential integration does: no frame  *)
(* is torn, skipped, repeated or out of order, and every swap installs one *)
(* complete time step (README: "only 2 buffers are required").             *)
(***************************************************************************)
Sequential == INSTANCE SequentialSolver WITH
    base <- grid[prev_grid],
    step <- ts,
    status <- CASE pc[Manager] = "exit_failed" -> "failed"
                [] pc[Manager] = "exit_ok" -> "done"
                [] OTHER -> "run"

ImplementsSequential == Sequential!SeqSpec

(***************************************************************************)
(* The program ends and no worker is left behind, under every failure main *)
(* handles: nobody waits forever at a barrier or in pthread_join.          *)
(***************************************************************************)
Terminates ==
    <>(/\ pc[Manager] \in FinalPC
       /\ \A w \in Workers : pc[w] \in {"none", "done"})

-----------------------------------------------------------------------------
(***************************************************************************)
(* manager.c 154-155 of the argument block of a worker: "the memory will   *)
(* be deallocated after the job is done and workers join the managing      *)
(* thread".                                                                *)
(***************************************************************************)
ArgsDeallocated == \A w \in Workers : (w \in args) ~> (w \notin args)

(***************************************************************************)
(* worker.c 118-120: "for corner points, the boundary conditions are       *)
(* defined as constant voltage (formed either by current or voltage        *)
(* sources)": all frames after the initial one show a corner alike.        *)
(***************************************************************************)
CornerVoltageConstant ==
    \A c \in Cells : is_corner(c)
        => \A f, g \in 2 .. Len(film) : film[f][c] = film[g][c]
=============================================================================
