# A TLA+ verification of labs-system-c

The repository holds five small systems programs. This directory keeps formal
models of them beside the code: TLA+ modules translated from the sources, TLC
configurations that check them on small instances, and theorems that TLAPS
proves for every value of the parameters.

* [Inventory](#inventory)
* [The modules](#the-modules)
* [The runs](#the-runs)
* [What is proved](#what-is-proved)
* [Disagreements found](#disagreements-found)
* [What is not modelled](#what-is-not-modelled)
* [Plan](#plan)

## Inventory

| Component | State | Operations | What is hard | What makes it correct |
|---|---|---|---|---|
| `thread/` RC mesh solver | two arrays, the pointers `prev_grid->grid` and `current_grid->grid`, two barriers, `*pool->quit`, the heap, one stack per thread | `make_grid`, `init_pool`, `spawn_workers`, `sync`, `dump_timestep`, the exchange, `mark_done`, `await_workers`, `destroy_pool`, `worker_routine` | N + 1 threads, no locks: only barriers order the accesses; partial failure of the start; the end | no data race, no use after free, all leave together, the frames of the sequential integration, termination |
| `thread/benchmark.c` | as above | as above, no plotting, no exchange | as above | as above |
| `fork/` kernel and services | the pid table, pending signals, the terminal's mode | `spawn_child_processes`, `call_service`, `kill_services`, `apply_tty`, `pause`, three signal handlers | asynchronous signals, one terminal shared by N + 1 processes, fork failing half way | one reader at a time, in its own mode; the terminal is restored; nobody sleeps for ever or survives |
| `fork/` strings | a growing buffer (`string_t`): bytes, length, capacity; what is still unread on the terminal | `use_service`, `read_string`, `resize_string`, `delete_string`, `swap_register`, `invert_string`, `swap_neighbours`, `swap_charset` | capacity boundaries, end of input, NUL bytes, a refused `calloc` within a line, unsigned lengths | the line is stored whole; each operation computes what it says, within the buffer; all memory is given back; a call returns |
| `mpi/` heat equation | per rank the loop counter, two stripe buffers and two halo values; in rank 0 the gathered `T` and the file; the messages under way | `MPI_Scatter`, `swap_values`, `time_step`, `MPI_Gather`, `dump_timestep`, `MPI_Finalize` | blocking exchanges in a chain, no barrier between time steps, messages without a time step in them, rank 0 failing alone | no deadlock whatever MPI buffers, bounded drift, the file of a single process |
| `socket/` browser | `url`, `url_current`, `url_last`, `URL_LOADED`, two temporary files, stdin's buffer beside the terminal, the descriptors | `http_get`, `http_recieve`, `written`, `parse`, `list_urls`, `url_choice`, `pick_next_url` | failures of every call, C strings changed in place, keys read past stdin's buffer, a lookup failure with the value of success, descriptors that run out | going back shows the previous page; the response file is this visit's response; a visit ends and closes its streams |
| `web/` figure server | the configuration; per request a connection, a cursor, an exception on its way, a generator over the rows | `Connection.__enter__/__exit__`, `execute_raw_query`, `fetch_elements`, `figure_handler`, the plots | exceptions between any two steps, handlers of different width, a lazy result read four times after its cursor is closed, concurrent requests at the database's limit | a connection is closed unless closing it failed; a figure shows all rows; every request is answered |

How they interact: the programs do not; inside each, the parts meet through
shared memory and barriers (`thread/`), signals and the terminal (`fork/`),
messages (`mpi/`), system calls (`socket/`), and the driver's exceptions
(`web/`). `PROJECT.json` lists every hazard at its line.

## The modules

```
Grid <---- SequentialSolver                 Console
  ^             ^ (refines)                    ^ (refines)
  +---- RCSolver ---- MCRCSolver            KernelServices ---- MCKernelServices
  ^        ^                                   ^
GridProofs |                                KernelServicesProofs
  ^        |
  +---- RCSolverProofs <---- RCSolverRefinement

Rod <---- HeatEquation
  ^             ^ (refines)
  +---- HeatStripes ---- MCHeatStripes
             ^
        HeatStripesProofs

StringServices ---- MCStringServices        BrowsingHistory
  ^                                            ^ (refines)
StringServicesProofs                        Browser ---- MCBrowser
                                               ^
FigureRequest ---- MCFigureRequest          BrowserProofs
  ^
FigureRequestProofs
```

### Grid, SequentialSolver, RCSolver (`thread/`)

`Grid` is the mesh of `grid.c` and the update of one node of `worker.c`. A node
is its flat index `W*y + x`, so that a wrong offset reads a wrong element, as
in C. `Lacking` keeps the early returns of `voltage_at_adjacent` in their
order. A read outside the array returns `Garbage`. Voltages are integers:
no property is about rounding, and `K` and `IR` stand for the two products of
physical constants the loop body uses.

`SequentialSolver` is what the program promises: the frames of a
single-threaded integration, whole and in order.

`RCSolver` is the program. One action is one step of one thread between two
accesses to shared memory:

| code | model |
|---|---|
| the thread's position | `pc[t]`; thread `N` is the manager |
| `prev_grid->grid`, `current_grid->grid` | `prev_grid`, `current_grid`, naming one of two arrays of `grid` |
| `i` of `main`'s loop | `ts`, from 1, bounded by `T` |
| `i` of `spawn_workers`, `await_workers` | `next` |
| loop position of a worker or of `dump_timestep` | `pos[t]` |
| threads blocked in `pthread_barrier_wait` | `waiting[b]`; `Arrive` empties it with the last arrival, a thread leaves in a step of its own |
| `malloc`, `calloc`, `free` | `heap`, `args` |
| what gnuplot was sent | `frame` (the lines printed), `film` (the frames flushed) |

Assumptions: main's own check, `N` divides `H` (`SolverAssumption`). `Faults`
names the calls that may fail. Memory is sequentially consistent; the race
freedom that is checked is what entitles a pthreads program to that.

Properties: `TypeOK`; `NoDataRace` (from the sets of locations each thread's
next step reads and writes); `QuitAgreement`; `NoUseAfterFree`; `CleanExit`;
`ReadsNeighbours` (against the definition of a mesh by distances);
`ImplementsSequential` (refinement: a frame torn between two time steps,
skipped or repeated is not a step of `SequentialSolver`, and neither is an
exchange that installs an incomplete time step); `Terminates`.

### Console, KernelServices (`fork/`)

`KernelServices` has one process per service and the kernel, process `N`.

| code | model |
|---|---|
| the process's position | `pc[p]`; `to_pause` is before the call of `pause()`, `paused` inside it |
| signals sent and not delivered | `pending[p]`, a set: signals of one kind do not queue |
| delivery to a process in `pause()` | `WakeUp`: the handler runs and `pause()` returns |
| delivery to any other process | `WakeUp`: the handler runs, nothing remembers it; `missed` records that it happened |
| `pool->pids[i]` | `i < forked`, or 0 as `calloc` left it |
| `tcsetattr` | `tty`, "raw" for the kernel's mode, "old" for the user's |
| a line read and processed | `UseService`; `served` records by whom |
| `atoi(&c)` with a digit behind `c` | `CallBeyondPool`: no process of the program is signalled, or with pid 0 all of them, the kernel included, which is not in `pause()` then (`missed`); `strayed` records the call |

What follows `c` on the stack is not written before that point: an unoptimised
build puts the start of the array `quit_text` there, which is still
uninitialised. So `StrayDigit` is TRUE in the passing run. After '0' a second
digit is the index itself, which is one key standing for another; after any
other digit the pid is read beyond `pids`.

`Console` is the promise: the terminal goes from the kernel to the service that
was called, which processes one string, and back. Once an index beyond the pool
has been called it promises nothing (`Lost`), and `OneReader` and
`ModeOfReader` exclude this case as well: with pid 0 they are false. So does
`ResumesUnlessMissed`: when nobody was signalled nobody answers, and the kernel
waits for ever, as the code does. `TerminalRestored` and `ServicesEnd` hold
without an exception.

### StringServices (`fork/`)

What `KernelServices` has as the one step `UseService`, looked at from inside:
`use_service` is called again and again, for any of the four operations, on one
terminal whose input comes to an end. A step is a round of a loop.

| code | model |
|---|---|
| where the service is | `pc`, `service` the operation called |
| the terminal | `input`, all bytes it delivers, and `at`, how many were read |
| `ch` of `read_string` | `ch`; `Unset` before the first `read()`, then any byte if `read()` fails |
| `string_t` | `str` (NULL or not), `raw` indexed from 0, `length`, `capacity` |
| `calloc`, `free` | `live`, the number of blocks; a `calloc` fails beyond `Memory` bytes, and with `CallocMayFail` whenever it likes |
| `strncpy` in `resize_string` | `Doubled`: the copy stops at a NUL and the rest is zero |
| `length - 1`, `size_t` | `Pred`, which wraps to `SizeMax` |
| `i` of an operation's loop | `i`, with `Bound` and, for the properties, `Touched` |

`read()` returning 0 is ignored by the code: at the end of the input the last
byte is appended again until no memory is left. The model does the same, so
`Memory` is what bounds it, as it bounds the program. `SetHighBit` keeps the
byte's 8 bits.

Properties: `TypeOK`; `Terminated` (the `%s` finds its NUL within the buffer);
`InBounds` (no round of a loop leaves the line: `length - 1` does not wrap, the
last pair is complete); `Result` (what is printed is what the operation should
make of the line that was typed, by `Expected`, which has no loop; the one
exception is named: a NUL in a line that outgrew the first buffer);
`WholeLines` (calls do not get out of step with the lines unless memory ran out
within one); `AllFreed`; `Returns`.

### BrowsingHistory, Browser (`socket/`)

`BrowsingHistory` is what the prompts promise. A session goes from the menu to a
visit and, unless this fails, to a choice: the links of the page are `offered`,
the user's one answer is in `answered`, and it alone decides what comes next. 0
visits the previous page and makes this one the previous (`Back`); the number of
a link visits that link (`Follow`), on the host of the page that offers it if it
is relative (`Resolve`); anything else leads back to the menu (`Abort`). A page
that was not offered, another link than the numbered one, or a previous page
that is not the one shown before is no step of it.

`Browser` is the program. A URL is a host and a path of segments: what `strtok`
cuts off and `strcat` adds.

| code | model |
|---|---|
| the place in `main`'s loop | `pc` |
| `url`, `url_current`, `url_last`, `URL_LOADED` | the same names |
| the terminal, read with `read()` | `typed`, the rest of the line; `eof` |
| stdin's buffer, read with `fscanf` | `unread`, filled a line at a time (`Underflow`) |
| the socket, or 0 after a failed lookup | `sock`, "server" or "stdin" |
| bytes received, not yet written, given up | `taken`, `left`, `lost` |
| the response file | `file`, the numbers of the bytes written |
| open streams, open sockets | `files`, `sockets`; `before` remembers `files` at the start of the visit |
| grep's output | `links`, any of `LinkLists` |

Failures: `CLIENT_DNS_LOOKUP_ERROR` is 0, which `main` takes for a connected
socket - descriptor 0, so `recv()` fails at once; the other two failures leave
the streams open, and the socket if there is one; a socket is never closed; when
the `MaxFds` descriptors are used up `fopen` fails and `fclose(NULL)` crashes. A
server, `grep`, and the user's terminal are external.

Properties: `TypeOK`; `UrlGiven` ("something really went wrong" never happens);
`StreamsClosed`; `ResponseOfThisVisit` (the file holds this visit's bytes once
and in order, and without a connection no links of another page are offered);
`ImplementsHistory` (refinement: the three buffers, copied to and fro and
changed in place by `strtok` and `strcat`, are the page that is visited and the
one before; `here` is `url` as soon as a location is known and `url_current`
from `http_get` on, `offered` is the file of links, and `answered` the number
that `fscanf` will find first in stdin's buffer, or `NotANumber` at the end of
the input);
`VisitEnds`; and, violated, `NothingLeftOver`.

### FigureRequest (`web/`)

Each request is a thread of Flask's server; `r` names it.

| code | model |
|---|---|
| the configuration, read at import | `server`, `schema` |
| where a request is | `pc[r]` |
| `self.CONNECTION` | `conn[r]`; "lost" when the driver has dropped its socket in `execute()`, "lost_in_exit" when it has done so in a call of `__exit__` |
| the exception that leaves the `with` body | `exc[r]` |
| the rows in the cursor | `fetched[r]` |
| `fetch_elements`' generator, the list made of it | `elements[r]`, `lazy` while it is a generator; `Pass` reads it and exhausts it |
| the plots' traces | `figure[r]` |
| the response | `answer[r]` |

`failed` records which calls of the driver have raised, `abandoned` counts the
connections left open by requests that are over; the interpreter may close
them (`Reclaim`) and is not obliged to. Any call of the driver may raise any of
five classes of exceptions, which the three handlers tell apart.

Properties: `TypeOK`; `ConnectionsClosed` (which failures leave a connection
open: `cursor()`, and `commit()` or `close()` of the cursor in `__exit__`, no
others; and a socket lost in `execute()` ends the request in an error); `AnswerTells` (four traces of all rows, though they come from a
generator over a closed cursor, and no other answer without a cause);
`RequestsAnswered`.

### Rod, HeatEquation, HeatStripes (`mpi/`)

`Rod` is the rod and the arithmetic of one time step: the boundary conditions
of the three kinds, `forward_euler`, `time_step` with its tests in the code's
order (the left and right ends, the edges of a stripe, the nodes inside), and
how a rod is cut into stripes and joined again. Temperatures are integers and
`A`, for `at * dt / dx / dx`, is one too: no property is about rounding.
`NextRod` is a time step of the rod as a whole.

`HeatEquation` is the promise: the file is a rod integrated step by step, by
one process.

`HeatStripes` is the program with `Total` ranks:

| code | model |
|---|---|
| where a rank is | `pc[r]` |
| `i` of `main`'s loop | `step[r]` |
| `stripe_old` | `stripe[r]`; `stripe_new` is no variable: every slot is written before the pointers are exchanged and none is read before that |
| `left_from_stripe`, `right_from_stripe` | `halo`, one value per side of a stripe |
| the `MPI_Sendrecv` under way | `peer[r]` |
| edge values sent and not received | `chan`, a queue per link |
| stripes scattered, and gathered | `down`, `up`, queues per rank |
| `f`, what was dumped | `file`, `film` |
| `MPI_Finalize` called | `finalized` |
| the process has died | `dead` |

MPI itself is external and modelled by what the standard promises, not by what
one library does. Messages between two ranks keep their order. A send or a
collective may return as soon as its data are buffered or only when they have
been received: the actions `EarlySendrecvReturns`, `EarlyScatterReturns` and
`EarlyGatherReturns` permit the first, and fairness does not oblige them to
happen, so that liveness holds without any buffering. A call after
`MPI_Finalize` aborts its process, and `mpiexec` ends the job of which a process
has died (`EndJob`). `Faults` may make `malloc` and `fopen` fail; neither is
handled by the program, so the process dies where it first uses the NULL. For
`malloc` this is `UseNull`: rank 0 filling `T`, any rank in `MPI_Scatter`
(`stripe_old`) or in its first time step (`stripe_new`). Which buffer was NULL is
no variable, as nothing shows it before; no fairness obliges a process to die.

`Solution` is no parameter of the program: it names the sequence of rods that
`StripesAssumption` defines, so that invariants can speak of the right values.
`MCHeatStripes` computes it.

Properties: `TypeOK`; `SkewBounded` (how far ranks drift apart); `BuffersBounded`
(what MPI has to hold); `HaloIsCurrent` (the values a rank computes with are
those of its own time step, though they carry no number); `FinalResult` (the
last gather); `CleanFinalize`; `ImplementsHeatEquation`; `Terminates`.

### Fairness

Weak fairness throughout, for what a scheduler or a partner must do in the end:

* each thread, process or rank that can run (`thread/`, `fork/`, `mpi/`, and
  `Serve(r)` in `web/`): the operating system schedules all of them;
* `fork/`: the delivery of each pending signal, and a user who was asked for a
  line types it; the same for `Work` of a string service, where the input may
  also be at its end;
* `mpi/`: the end of a job of which a process has died;
* `socket/`: `Visit` - a request says "Connection: close", so the server ends
  its response, and a `write()` to a regular file ends and does not return
  EAGAIN, which `written` would retry without end;
* `web/`: every call of the driver ends, if only with an exception. (`connect()`
  sets no read timeout, so a database that never answers is left out.)

No fairness is assumed for the user's keys or for requests. Nothing in the code
depends on strong fairness: a step that is enabled stays enabled, because a
released barrier, a returned `pause()`, a finished thread and a message sent
cannot be taken back.

## The runs

| run | instance | what it shows |
|---|---|---|
| `solver` | W=3, H=6, N=3, T=4, every failure `main` handles | all properties of `RCSolver` |
| `solver_spawn` | 2 by 2, N=2, `malloc` and `pthread_create` may fail | violation of `ArgsDeallocated` |
| `solver_corner` | 3 by 2, N=2, T=4 | violation of `CornerVoltageConstant` |
| `kernel` | N=2, every failure, a stray digit | all properties of `KernelServices` |
| `kernel_wakeup` | N=1, no failure | violation of `WakesUp` |
| `kernel_fork` | N=3, every failure, a stray digit | violation of `RestoredAfterForkError` |
| `heat` | 12 nodes, 4 ranks, 4 time steps, failing `malloc` and `fopen` | all properties of `HeatStripes` |
| `heat_total` | 10 nodes, 4 ranks | violation of `EndsAfterFinalize` |
| `strings` | buffers of 2, 4 and 8 bytes, all inputs of up to 4 bytes, any `calloc` failing | all properties of `StringServices` |
| `browser` | two sites, 7 descriptors, responses of up to 2 bytes, every failure | all properties of `Browser` |
| `browser_leftover` | the same | violation of `NothingLeftOver` |
| `figures` | 2 threads, 3 results, room for 2 connections, every exception | all properties of `FigureRequest` |

Bounds of `solver`: three columns give corners, all four borders and inner
nodes; two rows per worker give each worker a region whose stencils reach into
its neighbours'; three workers give one with a neighbour on both sides; four
time steps exchange the arrays three times, so that each array is written,
read, plotted and written again, and the loop of `main` is entered, repeated
and left. About 17,700 states. The theorems below lift every safety property
and the refinement to any `W`, `H`, `N` and `T`.

Bounds of `kernel`: nothing in the model counts, so sessions of any length are
covered. Two services are enough for one to interfere with the other, and for a
fork that fails before, between and (at the second round) after the first one.
About 26,500 states; three services have 474,000, where the same properties
hold. The theorems cover any number.

Bounds of `heat`: four ranks give two inner ones and a last one that can be
three time steps ahead of the first, four time steps let it be, and a stripe of
three nodes has two edges and a node between them. A boundary of the first and
one of the second kind. About 54,300 states. The bounds in the properties are
tight: with each of them lowered by one (a distance less, one edge value, `r`
stripes) TLC finds a violation.

Bounds of `strings`: `BufferSize` 2 and `Memory` 8 let a string be moved twice
and then be refused; `SizeMax` 63 is far beyond, so a wrapped length is seen.
Inputs are all sequences of up to four bytes of NUL, newline, `Z` and `a`, with
and without a newline at the end: empty lines, several lines, lines that just
fill a buffer, lines that end with the input, NULs before and after a move. The
end of the input lengthens any of them to the limit of the memory. About 293,000
states. The theorems cover any bytes, lengths and sizes.

Bounds of `browser`: seven descriptors let three visits leave something open
before a fourth cannot open its files; a response of two bytes is written in one
piece, two pieces, or not. The user types a location, one with a path, 0, 1, -1
(which `%lu` reads as the largest number), a word that quits, an empty line, and
two words in a line, one of which is then left in the buffer. About 1.1 million
states, the largest run of the project (50 seconds with two workers).

Bounds of `figures`: the results are empty, complete, and with a NULL
coordinate; two connections are one too few as soon as one is abandoned. Requests
are served without end. About 45,600 states.

Deadlock is checked in the passing runs: `Terminated` and `Stopped` are the only
states in which the models may stop. `solver_spawn` switches it off because the
state it looks for is a deadlock.

Each property of the passing runs is also checked against a mutated definition
(`PROJECT.json`, "mutants"): operators named after the action they replace, such
as `SwapGrids_MarksDone` (the quit flag set one barrier too early) or
`Arrive_WithoutManager` (a barrier for N threads). TLC finds each property
violated under its mutant.

## What is proved

All by TLAPS, from the assumptions on the constants alone (`GridAssumption`,
`SolverAssumption`, `KernelAssumption`, `RodAssumption`, `StripesAssumption`,
`StringAssumption`, `BrowserAssumption`, `RequestAssumption`) and, where it is
said below, from a hypothesis of the theorem.

**Solver** (`GridProofs`, `RCSolverProofs`, `RCSolverRefinement`). The program
has no lock: the argument is that all N + 1 threads are between a released
start barrier and an unreleased end barrier (`Inside`), or none is
(`PhaseInv`). Each barrier keeps this because it is made for all of them
(`ArriveCases`, from the cardinality of an interval). Around it, `QuitInv` ties
the flag to the manager's position, `LeaveInv` to what a worker outside may
still do, `SpawnInv`, `ArgsInv` and `HeapInv` the memory to the positions, and
`PosInv` keeps each worker in its rows. None of the properties is inductive
alone: `NoDataRace`, for example, says nothing of a thread that is about to
leave a barrier. Then

* `TypeCorrect`, `DataRaceFreedom`, `CommonQuit`, `MemorySafety`,
  `ExitIsClean`, `LocalReads` - the invariants of the run, for all `W`, `H`,
  `N`, `T`, `Faults` (`spawn_workers` failing included; `LocalReads` for
  `W, H >= 2`);
* `StencilIsNeighbourhood`, `NeighboursCountOnce` - the arithmetic of the
  stencil;
* `NobodyWaitsForever` - no deadlock. `Blocked` lists what a thread can wait for,
  a barrier or the end of a worker. A barrier never holds all threads, as the
  last to arrive releases the others (`BarrierInv`), and all threads exist once
  `main` is past `spawn_workers` (`CrewInv`), so there is always one that is not
  in the barrier the others wait at. `solver_spawn` shows that the one
  hypothesis, `SpawnSucceeds`, is needed;
* `StepsRunOut` - every step is one of a bounded number. `ManagerLeft` is what
  the manager has before it, `WorkerLeft(w)` what worker w has until it must wait
  for the manager; each step lessens the manager's, or leaves that alone, lessens
  one worker's and increases no other;
* `Refinement` - `Spec => ImplementsSequential`, with `ValueInv`: while the
  workers sweep, the cells before a worker's position hold the next time step;
  after the end barrier all do.

`LocalReads` needs two columns and two rows, and `main` accepts less. What
`voltage_at_adjacent` does there is proved as well: on a mesh of one row it reads
an element behind the array for every node but the two ends
(`OneRowReadsBehind`); on a mesh of one column the node below is also the next
element on the right and counts twice (`OneColumnCountsTwice`).

**Process pool** (`KernelServicesProofs`). `TurnInv` follows one token: a
request in a service's `pending`, a service at work, or an answer in the
kernel's. There is at most one of the three and none unless the kernel waits.
From it, for any number of services and any failure: `TypeCorrect`,
`SingleReader`, `ReadersMode`, `Restoration`, and `Refinement`
(`Spec => ImplementsConsole`). `ForkInv` (a pid is stored for each round) bounds
`forked`.

Two liveness properties are proved, for any number of services: `CallsComeBack`
(`ResumesUnlessMissed`: the token passes from the call through the service to
the answer, unless one is missed or an index behind the pool is called) and
`NoOrphans` (`ServicesEnd`: whoever has SIGTERM pending dies of it, and nobody
is made once the kernel has gone). Both follow from the fairness of the service
concerned and of the signals sent to it and to the kernel, not of the other
services, and both have one hypothesis, `AlwaysAble` (see below).

**Stripes** (`HeatStripesProofs`). The queues are counted: what is in one is
what its sender has sent less what its receiver has taken (`CountInv`), and both
numbers follow from `step` and `pc` alone (`Sent`, `Got`, `StripesSent`,
`StripesGot`). A rank about to start its next step has taken its neighbours'
values of this one, so no neighbour is behind it (`NeighbourNotBehind`), and a
rank further off is behind by at most one more for each rank in between: with
that, `SkewBounded` is inductive. The bounds on the queues and the clean end
follow from the counts. `PlaceInv`, `TotalInv` (who is past the check of the
number of processes) and `DealInv` (what is scattered) carry the types:
`TypeCorrect`, `Skew`, `Buffers`, `CleanEnd`, for any number of nodes, ranks
and steps.

`NoCircularWait` is proved from the same counts. If nobody could go on, take the
ranks that are in an exchange of the earliest time step: the counts show that
each of them waits for its neighbour on the right, which is in the same exchange
(`WaitsToTheRight`), but the last rank has no such neighbour. It holds for
`Blocked`, where MPI buffers nothing.
`StepsRunOut` bounds a rank's steps by `12 * tt + 17` and says that each step of
the job shortens one rank's, or is the death of a process.

On top of the counts, `ValueInv` says what the temperatures are. `Level(r)` is
the number of time steps that rank r's stripe has behind it; the k-th value in a
channel is the edge, in `Solution`, of the step its count names (`ChanInv`), and
so are the values received (`HaloInv`), the stripes scattered and under way to
rank 0 (`DownInv`, `UpInv`), the gathered rod (`RootInv`) and the file
(`FilmInv`). It is inductive because a rank's time step on its slice and two
edges of one rod is the slice of the rod's time step (`StripeOfNextRod`). That
needs stripes of at least two nodes - with one, `time_step` reads outside the
stripe (`OneNodeReadsOutside` proves which element, in every rank) - so
`CurrentHalo`, `LastGather` and `Refinement` (`Spec => ImplementsHeatEquation`)
assume `stripe_size >= 2`. Nothing else is assumed: whatever MPI buffers,
whatever fails, any boundary.

**Strings** (`StringServicesProofs`). While `read_string` reads, the buffer
holds the bytes read since the call, or the input has ended (`Reading`); behind
the line there are NULs only, and one at least once the line is read
(`Padding`): the buffer is doubled before the byte is looked at, so the newline
itself finds room. In round i of an operation the bytes it is done with are as
expected and the others as read (`HalfWay`, with `Done` for each order), and
`Index` says where i can be when the loop stops. `Allocation` ties the blocks to
the pointer, `Aligned` the start of a call to the end of a line. Then `TypeCorrect`,
`PrintsAString`, `StaysInBounds`, `ProcessesLines`, `TakesWholeLines`,
`FreesAll`, for every input and every size. `CallsAreShort`: a call takes at most
`2 * Memory + 5` steps, and each shortens what is left. It is the memory that
ends a line which the terminal does not (`Fits`: the buffer never outgrows it),
so the bound is in terms of `Memory` and not of the input.

**Browser** (`BrowserProofs`). `Visiting` says what the three URL buffers and
the stream count are at each place: `url_current` is the page that is visited,
and behind `http_get` `url` is its host, so that `strcat` makes the relative link
absolute. `Copying` counts the response byte by byte. From them `TypeCorrect`,
`NeverWithoutUrl`, `ClosesStreams`, `CopiesResponse`, and `KeepsHistory`
(`Spec => ImplementsHistory`), for any sites, words, lines and responses: with
`Visiting`, `url` behind `http_get` is the host of `here`, so what `ChooseLink`
puts together is `Resolve` of the link at the number answered, and the answer
that `Scan` takes is the one the buffer has shown since it was filled.
`VisitsAreShort`: from `http_get` on nothing but the visit goes on, and it is
over after at most `2 * MaxResponse + 3` steps, because a byte takes a `recv()`
and a `write()` of its own at worst and a write always writes something
(`Pending`). `TrashIsAnAnswer` is what is true of the comment that
`browser_leftover` refutes: for a user who types no more than a word in a line
(`OneWordLines`, a hypothesis), something is left in stdin's buffer only when the
answer to the prompt for a link was not a number, which `fscanf` does not take.

**Figures** (`FigureRequestProofs`). What is true of one request follows from
its position (`Local`: the connection, the cause of an exception, the elements,
the answer), and a step of another thread leaves it alone (`SparedLocal`); the
threads meet only in the number of connections (`LimitInv`, by cardinalities).
`TypeCorrect`, `ClosesConnections`, `TellsTheTruth`, for any number of threads,
any results and any limit. `AnswersAll` is the liveness property
`RequestsAnswered`, for any number of requests: `ServeGoesOn` says where each
step of a request's own leads, `StepOfAnother` that others leave its position
alone, and each position is left because its thread is scheduled
(`Scheduled(r)`); its hypothesis is `AlwaysAble`.

**The hypothesis of the liveness theorems.** Weak fairness obliges an action
that is enabled, and the provers know nothing of `ENABLED`. So `AlwaysAble`, in
`KernelServicesProofs` and `FigureRequestProofs`, says what the guards of the
actions show at a glance: a service at work can take its next step, a signal that
is pending can be delivered, a request that is not idle can go on (`CanWork`,
`CanWakeUp`, `CanQuit`, `CanGoOn`). They are state predicates; TLC finds each of
them true in all states of the runs' instances. For quantified fairness to be
used in a proof, each conjunct of it has a name of its own (`KernelRuns`,
`ServiceRuns`, `QuitDelivered`, `WakeUpDelivered`, `Scheduled`).

**Only model-checked:** `Terminates` of both modules, `Returns` and `VisitEnds`,
as temporal formulas. Their number of steps depends on the constants, so a proof
needs induction over a measure with a temporal formula as the hypothesis, which
none of the provers can do. The parts that can be stated without it are proved
above: each has a measure that is a natural number of known size and that every
step shortens (`StepsRunOut` twice, `CallsAreShort`, `VisitsAreShort`), and the
two concurrent programs do not stop before their end (`NobodyWaitsForever`,
`NoCircularWait`). The six violations are counterexamples of TLC.

## Disagreements found

1. `spawn_workers` reports a failure that `main` ignores; the start barrier then
   waits for threads that do not exist (`solver_spawn`).
2. A comment calls the corner's voltage constant; with the default current
   source it grows in every step (`solver_corner`).
3. A signal between `kill()` and `pause()` is lost and both processes sleep for
   ever (`kernel_wakeup`). `ResumesUnlessMissed` shows that this is the only way
   for the kernel to hang as long as only services are called.
4. After a failed `fork()`, `kill_services` kills the kernel before it restores
   the terminal (`kernel_fork`).
5. When the number of processes does not divide the number of nodes, the program
   says so, finalises MPI and goes on to its next MPI call (`heat_total`).
6. A comment says that trash left from the last iteration is flushed;
   `fflush(NULL)` flushes output only, and a word left in stdin's buffer becomes
   the next location (`browser_leftover`).

Seen on the way, part of the models and so of what their properties say:

* `query.py` says that a failed query gives None. When the driver has lost its
  socket in `execute()`, `commit()` in `__exit__` raises InterfaceError in place
  of the first exception, and `execute_raw_query` does not catch that class
  (the last part of `ConnectionsClosed`). A socket that is lost in `commit()`
  itself raises OperationalError, which is caught: the answer is NO ELEMENTS.
* A key whose index lies behind the pool (`atoi` of a single char) may signal
  nobody, and the kernel waits for ever, or every process (`CallBeyondPool`).
* A NUL within a line spoils it once the buffer is moved, because
  `resize_string` copies with `strncpy` (the exception in `Result`).
* At the end of the input a string service does not stop reading; it returns
  because memory ends (`Returns`).
* The browser never closes a socket, and leaves both streams of a visit open
  when it cannot connect; in the end `fclose(NULL)` crashes.
* A failed lookup has the value of success, and the browser then reads its
  response from descriptor 0.

## What is not modelled

* `thread/`: floating-point rounding, gnuplot itself, the time measurement, the
  last computed time step (which the program does not plot either).
* `benchmark.c`: the solver without plotting and without the exchange of the
  arrays. The calls it makes are those of `main.c`, and what it leaves out is a
  mutated definition here (`SwapGrids_Not`): its workers read one array and
  write the other in every step, so it computes the first time step again and
  again, which is enough for a time measurement.
* `fork/`: Ctrl-C while a line is read, type-ahead discarded by `TCSAFLUSH`,
  signals from outside the program. `make_string` and `shrink_string` are called
  by nothing. `KernelServices` has no end of input; `StringServices` has.
* `mpi/`: floating-point rounding, the time measurement, the messages, the
  gnuplot configuration. With one node per rank `time_step` reads outside the
  stripe: the model has this (`slot`), no property holds there.
* `socket/`: the lengths of URLs (`client.c:62` copies one into a buffer of
  another size; what an overflow does depends on the stack), the newline at the
  end of a link, a "://" that is not behind the protocol, the text of the request and
  what grep matches.
* `web/`: `execute_with_args` and `execute_with_kwds` (the body of
  `execute_raw_query`, called by nothing), the layout of the figure, the closed
  polygons and the means, the templates.
* Images, gnuplot scripts and build files: no state.

## Plan

All programs of the repository are modelled, with their properties checked and
their safety properties and refinements proved; of the liveness properties three
are proved as such and four up to the induction over their measure. What is left
is small:

* `benchmark.c` as an instance of `RCSolver` with the plotting and the exchange
   switched off, its end proved from the same `PhaseInv`.
