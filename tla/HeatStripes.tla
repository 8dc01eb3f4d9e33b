---------------------------- MODULE HeatStripes -----------------------------
(***************************************************************************)
(* mpi/main.c: Total processes that integrate one stripe of the rod each.  *)
(* In every time step neighbours exchange the values at the edges of their *)
(* stripes, each one computes its own, and rank 0 gathers and dumps them.  *)
(*                                                                         *)
(* What MPI leaves open is left open: a standard-mode send or a collective *)
(* may return as soon as its data are buffered (the Early actions, which   *)
(* nothing obliges to happen) or only when they have been received.        *)
(* Messages from one rank to another keep their order.                     *)
(*                                                                         *)
(* stripe_new is not a variable: every slot of it is written before the    *)
(* pointers are exchanged, and none is read before that.                   *)
(***************************************************************************)
EXTENDS Rod, Sequences

CONSTANTS
    tt,             \* number of time steps
    Solution,       \* (specification) Solution[k], the rod after k time steps
    Faults          \* the calls that may fail: "malloc", "fopen"

(* Solution is not a parameter of the program: the rest determines it. *)
ASSUME StripesAssumption ==
    /\ tt \in Nat
    /\ Faults \subseteq {"malloc", "fopen"}
    /\ Solution \in [0 .. tt -> [Nodes -> Int]]
    /\ Solution[0] = InitialRod
    /\ \A k \in 0 .. tt - 1 : Solution[k + 1] = NextRod(Solution[k])

VARIABLES
    pc,             \* where each rank is
    step,           \* i, the loop counter of main
    peer,           \* the rank the MPI_Sendrecv under way, or the last one, is with
    stripe,         \* what stripe_old points to
    halo,           \* what each rank has from either neighbour, 0 if nothing
    T,              \* the whole rod, in rank 0
    chan,           \* of a link <<r, q>>, the edge values sent by r and not received by q
    down,           \* down[r], the stripe scattered to r
    up,             \* up[r], the stripes sent by r and not gathered
    file,           \* temperature.dat, f in main
    film,           \* the time steps dumped to it
    finalized,      \* the ranks that have called MPI_Finalize
    dead            \* the ranks that were aborted

p2pVars == <<peer, halo, chan>>
collVars == <<T, down, up>>
fileVars == <<file, film>>
procVars == <<finalized, dead>>
vars == <<pc, step, stripe, p2pVars, collVars, fileVars, procVars>>

(* The sides of the stripes, each a rank and the one next to it, if any. *)
Sides == {s \in Ranks \X (-1 .. Total) : s[2] = s[1] - 1 \/ s[2] = s[1] + 1}
Links == {s \in Sides : s[2] \in Ranks}

RankPC == {"start", "rank", "alloc", "scatter", "dealt", "open", "loop", "post",
           "receive", "received", "compute", "gather", "gathering", "dump",
           "close", "finalize", "done"}

-----------------------------------------------------------------------------
Init == /\ pc = [r \in Ranks |-> "start"]
        /\ step = [r \in Ranks |-> 0]
        /\ peer = [r \in Ranks |-> r]
        /\ stripe = [r \in Ranks |-> [i \in Slots |-> Garbage]]
        /\ halo = [s \in Sides |-> 0]
        /\ T = [n \in Nodes |-> Garbage]
        /\ chan = [s \in Links |-> <<>>]
        /\ down = [r \in Ranks |-> <<>>]
        /\ up = [r \in Ranks |-> <<>>]
        /\ file = "closed"
        /\ film = <<>>
        /\ finalized = {}
        /\ dead = {}

left_from_stripe(r) == halo[<<r, r - 1>>]
right_from_stripe(r) == halo[<<r, r + 1>>]

Goto(r, l) == pc' = [pc EXCEPT ![r] = l]
Dies(r) == dead' = dead \cup {r} /\ UNCHANGED pc

(* On to MPI_Sendrecv with rank q. *)
Call(r, q) == peer' = [peer EXCEPT ![r] = q] /\ Goto(r, "post")

(***************************************************************************)
(* Plausible mistakes, each a replacement for the definition its name      *)
(* begins with; none is part of Next.                                      *)
(***************************************************************************)

(* rank < total *)
EnterStep_PastTheLast(r) ==
    /\ pc[r] = "loop" /\ step[r] < tt
    /\ Call(r, r + 1)
    /\ UNCHANGED <<step, stripe, halo, chan, collVars, fileVars, procVars>>

(* The same edge for both neighbours. *)
Edge_AlwaysFirst(r) == stripe[r][0]

(* MPI_Irecv without MPI_Wait. *)
Receive_NotAwaited(r) ==
    /\ pc[r] = "receive"
    /\ Goto(r, "received")
    /\ UNCHANGED <<step, stripe, p2pVars, collVars, fileVars, procVars>>

(* else between the two exchanges *)
LeaveSendrecv_OneCall(r) ==
    /\ pc[r] = "received"
    /\ Goto(r, "compute")
    /\ UNCHANGED <<step, stripe, p2pVars, collVars, fileVars, procVars>>

(* The pointers are not exchanged. *)
TimeStep_NoSwap(r) ==
    /\ pc[r] = "compute"
    /\ Goto(r, "gather")
    /\ UNCHANGED <<step, stripe, p2pVars, collVars, fileVars, procVars>>

(* A collective that rank 0 does not call, in the loop and after it. *)
TimeStep_RootDoesNotGather(r) ==
    /\ pc[r] = "compute"
    /\ stripe' = [stripe EXCEPT ![r] = time_step(r, @, left_from_stripe(r), right_from_stripe(r))]
    /\ Goto(r, IF r = Root THEN "dump" ELSE "gather")
    /\ UNCHANGED <<step, p2pVars, collVars, fileVars, procVars>>

LeaveLoop_RootDoesNotGather(r) ==
    /\ pc[r] = "loop" /\ ~(step[r] < tt)
    /\ Goto(r, IF r = Root THEN "close" ELSE "gather")
    /\ UNCHANGED <<step, stripe, p2pVars, collVars, fileVars, procVars>>

-----------------------------------------------------------------------------
(* Before the loop. *)

(* The check of total prints a message, calls MPI_Finalize, and goes on. *)
CheckTotal(r) ==
    /\ pc[r] = "start"
    /\ finalized' = IF xx % Total # 0 THEN finalized \cup {r} ELSE finalized
    /\ Goto(r, "rank")
    /\ UNCHANGED <<step, stripe, p2pVars, collVars, fileVars, dead>>

(* MPI_Comm_rank, which aborts the job after MPI_Finalize. *)
CommRank(r) ==
    /\ pc[r] = "rank"
    /\ IF r \in finalized THEN Dies(r) ELSE Goto(r, "alloc") /\ UNCHANGED dead
    /\ UNCHANGED <<step, stripe, p2pVars, collVars, fileVars, finalized>>

(* The buffers, and in rank 0 the initial rod. *)
Allocate(r) ==
    /\ pc[r] = "alloc"
    /\ T' = IF r = Root THEN InitialRod ELSE T
    /\ Goto(r, "scatter")
    /\ UNCHANGED <<step, stripe, p2pVars, down, up, fileVars, procVars>>

(***************************************************************************)
(* No malloc is checked.  A process dies where it first uses the NULL: T   *)
(* when rank 0 fills it, stripe_old in MPI_Scatter, stripe_new in the      *)
(* first time step.  That a buffer was NULL shows only there.              *)
(***************************************************************************)
UseNull(r) ==
    /\ "malloc" \in Faults /\ r \notin dead
    /\ \/ pc[r] = "alloc" /\ r = Root
       \/ pc[r] \in {"scatter", "dealt"}
       \/ pc[r] = "compute" /\ step[r] = 0
    /\ Dies(r)
    /\ UNCHANGED <<step, stripe, p2pVars, collVars, fileVars, finalized>>

Deal ==
    /\ pc[Root] = "scatter"
    /\ down' = [r \in Ranks |-> IF r = Root THEN <<>> ELSE <<Slice(T, r)>>]
    /\ stripe' = [stripe EXCEPT ![Root] = Slice(T, Root)]
    /\ Goto(Root, "dealt")
    /\ UNCHANGED <<step, p2pVars, T, up, fileVars, procVars>>

LeaveScatter ==
    /\ pc[Root] = "dealt"
    /\ Goto(Root, "open")
    /\ UNCHANGED <<step, stripe, p2pVars, collVars, fileVars, procVars>>

AllDealt == \A r \in Ranks : down[r] = <<>>
ScatterReturns == AllDealt /\ LeaveScatter
EarlyScatterReturns == ~AllDealt /\ LeaveScatter

TakeStripe(r) ==
    /\ r # Root /\ pc[r] = "scatter" /\ down[r] # <<>>
    /\ stripe' = [stripe EXCEPT ![r] = Head(down[r])]
    /\ down' = [down EXCEPT ![r] = <<>>]
    /\ Goto(r, "loop")
    /\ UNCHANGED <<step, p2pVars, T, up, fileVars, procVars>>

(* A failed fopen is reported, and f stays NULL. *)
OpenFile ==
    /\ pc[Root] = "open"
    /\ \/ file' = "open"
       \/ "fopen" \in Faults /\ file' = "NULL"
    /\ Goto(Root, "loop")
    /\ UNCHANGED <<step, stripe, p2pVars, collVars, film, procVars>>

-----------------------------------------------------------------------------
(***************************************************************************)
(* The time loop.  swap_values is two MPI_Sendrecv calls, with the right   *)
(* neighbour and then with the left one, where there is one.  Each call    *)
(* sends and receives at once and returns when both are done.              *)
(***************************************************************************)
EnterStep(r) ==
    /\ pc[r] = "loop" /\ step[r] < tt
    /\ IF r < Total - 1 THEN Call(r, r + 1)
       ELSE IF r > 0 THEN Call(r, r - 1)
       ELSE Goto(r, "compute") /\ UNCHANGED peer
    /\ UNCHANGED <<step, stripe, halo, chan, collVars, fileVars, procVars>>

Edge(r) == stripe[r][IF peer[r] = r + 1 THEN stripe_size - 1 ELSE 0]

Post(r) ==
    /\ pc[r] = "post"
    /\ chan' = [chan EXCEPT ![<<r, peer[r]>>] = Append(@, Edge(r))]
    /\ Goto(r, "receive")
    /\ UNCHANGED <<step, stripe, peer, halo, collVars, fileVars, procVars>>

Receive(r) ==
    LET q == peer[r]
    IN  /\ pc[r] = "receive" /\ chan[<<q, r>>] # <<>>
        /\ halo' = [halo EXCEPT ![<<r, q>>] = Head(chan[<<q, r>>])]
        /\ chan' = [chan EXCEPT ![<<q, r>>] = Tail(@)]
        /\ Goto(r, "received")
        /\ UNCHANGED <<step, stripe, peer, collVars, fileVars, procVars>>

LeaveSendrecv(r) ==
    /\ pc[r] = "received"
    /\ IF peer[r] = r + 1 /\ r > 0 THEN Call(r, r - 1)
       ELSE Goto(r, "compute") /\ UNCHANGED peer
    /\ UNCHANGED <<step, stripe, halo, chan, collVars, fileVars, procVars>>

Delivered(r) == chan[<<r, peer[r]>>] = <<>>
SendrecvReturns(r) == pc[r] = "received" /\ Delivered(r) /\ LeaveSendrecv(r)
EarlySendrecvReturns(r) == pc[r] = "received" /\ ~Delivered(r) /\ LeaveSendrecv(r)

(* time_step, with the exchange of the two stripe pointers. *)
TimeStep(r) ==
    /\ pc[r] = "compute"
    /\ stripe' = [stripe EXCEPT ![r] = time_step(r, @, left_from_stripe(r), right_from_stripe(r))]
    /\ Goto(r, "gather")
    /\ UNCHANGED <<step, p2pVars, collVars, fileVars, procVars>>

(* Out of the loop: to the gather of the final values. *)
LeaveLoop(r) ==
    /\ pc[r] = "loop" /\ ~(step[r] < tt)
    /\ Goto(r, "gather")
    /\ UNCHANGED <<step, stripe, p2pVars, collVars, fileVars, procVars>>

(***************************************************************************)
(* MPI_Gather, the one of each time step and the final one.  Rank 0 stays  *)
(* in it until it has a stripe of everyone; the others may leave before.   *)
(***************************************************************************)
SendStripe(r) ==
    /\ r # Root /\ pc[r] = "gather"
    /\ up' = [up EXCEPT ![r] = Append(@, stripe[r])]
    /\ Goto(r, "gathering")
    /\ UNCHANGED <<step, stripe, p2pVars, T, down, fileVars, procVars>>

Gather ==
    /\ pc[Root] = "gather"
    /\ \A r \in Others : up[r] # <<>>
    /\ T' = Joined([r \in Ranks |-> IF r = Root THEN stripe[r] ELSE Head(up[r])])
    /\ up' = [r \in Ranks |-> IF r = Root THEN up[r] ELSE Tail(up[r])]
    /\ Goto(Root, IF step[Root] < tt THEN "dump" ELSE "close")
    /\ UNCHANGED <<step, stripe, p2pVars, down, fileVars, procVars>>

LeaveGather(r) ==
    /\ pc[r] = "gathering"
    /\ IF step[r] < tt
       THEN step' = [step EXCEPT ![r] = @ + 1] /\ Goto(r, "loop")
       ELSE Goto(r, "finalize") /\ UNCHANGED step
    /\ UNCHANGED <<stripe, p2pVars, collVars, fileVars, procVars>>

GatherReturns(r) == up[r] = <<>> /\ LeaveGather(r)
EarlyGatherReturns(r) == up[r] # <<>> /\ LeaveGather(r)

(* dump_timestep by rank 0; with f = NULL fprintf ends it. *)
Dump ==
    /\ pc[Root] = "dump"
    /\ \/ /\ file = "open"
          /\ film' = Append(film, T)
          /\ step' = [step EXCEPT ![Root] = @ + 1]
          /\ Goto(Root, "loop")
          /\ UNCHANGED dead
       \/ file = "NULL" /\ Dies(Root) /\ UNCHANGED <<film, step>>
    /\ UNCHANGED <<stripe, p2pVars, collVars, file, finalized>>

(* fclose, which a NULL reaches only when the loop is empty. *)
CloseFile ==
    /\ pc[Root] = "close"
    /\ IF file = "NULL" THEN Dies(Root) /\ UNCHANGED file
       ELSE file' = "closed" /\ Goto(Root, "finalize") /\ UNCHANGED dead
    /\ UNCHANGED <<step, stripe, p2pVars, collVars, film, finalized>>

Finalize(r) ==
    /\ pc[r] = "finalize"
    /\ finalized' = finalized \cup {r}
    /\ Goto(r, "done")
    /\ UNCHANGED <<step, stripe, p2pVars, collVars, fileVars, dead>>

-----------------------------------------------------------------------------
(* The steps a process takes when it can, and those MPI only permits. *)
RootStep == Deal \/ ScatterReturns \/ OpenFile \/ Gather \/ Dump \/ CloseFile

RankStep(r) ==
    \/ CheckTotal(r) \/ CommRank(r) \/ Allocate(r) \/ TakeStripe(r)
    \/ EnterStep(r) \/ Post(r) \/ Receive(r) \/ SendrecvReturns(r) \/ TimeStep(r)
    \/ LeaveLoop(r) \/ SendStripe(r) \/ GatherReturns(r) \/ Finalize(r)

ProcessStep(r) == r \notin dead /\ (RankStep(r) \/ (r = Root /\ RootStep))

EarlyReturn(r) ==
    /\ r \notin dead
    /\ \/ r = Root /\ EarlyScatterReturns
       \/ EarlySendrecvReturns(r)
       \/ EarlyGatherReturns(r)

(* mpiexec ends the job when a process of it has died. *)
EndJob ==
    /\ dead # {}
    /\ dead' = dead \cup {r \in Ranks : pc[r] # "done"}
    /\ UNCHANGED <<pc, step, stripe, p2pVars, collVars, fileVars, finalized>>

Ended(r) == pc[r] = "done" \/ r \in dead
Terminated == (\A r \in Ranks : Ended(r)) /\ UNCHANGED vars

Next == \/ \E r \in Ranks : ProcessStep(r) \/ EarlyReturn(r) \/ UseNull(r)
        \/ EndJob
        \/ Terminated

(* Every process runs, and no message has to be buffered. *)
Fairness == /\ \A r \in Ranks : WF_vars(ProcessStep(r))
            /\ WF_vars(EndJob)

Spec == Init /\ [][Next]_vars
FairSpec == Spec /\ Fairness

-----------------------------------------------------------------------------
(* Every variable stays in its range; no rank steps beyond the loop bound. *)
TypeOK ==
    /\ pc \in [Ranks -> RankPC]
    /\ step \in [Ranks -> 0 .. tt]
    /\ peer \in [Ranks -> Ranks]
    /\ stripe \in [Ranks -> [Slots -> Int]]
    /\ halo \in [Sides -> Int]
    /\ T \in [Nodes -> Int]
    /\ chan \in [Links -> Seq(Int)]
    /\ down \in [Ranks -> Seq([Slots -> Int])]
    /\ up \in [Ranks -> Seq([Slots -> Int])]
    /\ file \in {"closed", "open", "NULL"}
    /\ film \in Seq([Nodes -> Int])
    /\ finalized \subseteq Ranks
    /\ dead \subseteq Ranks

Distance(r, q) == IF r < q THEN q - r ELSE r - q

(***************************************************************************)
(* There is no barrier in the loop: only the edge values hold neighbours   *)
(* together, and rank 0 waits for everyone.  A rank may be ahead of        *)
(* another by as many time steps as there are ranks between them and one   *)
(* more, and rank 0 is never ahead by more than one.                       *)
(***************************************************************************)
SkewBounded ==
    \A r, q \in Ranks :
        /\ step[r] - step[q] <= Distance(r, q)
        /\ step[Root] - step[q] <= 1

(***************************************************************************)
(* So MPI never has to buffer more than two edge values of a rank for a    *)
(* neighbour (both receive with MPI_ANY_TAG: order alone tells one time    *)
(* step from the next), nor more than r + 1 stripes of rank r for rank 0.  *)
(***************************************************************************)
BuffersBounded ==
    /\ \A l \in Links : Len(chan[l]) <= 2
    /\ \A r \in Ranks : Len(up[r]) <= r + 1

(***************************************************************************)
(* A rank computes with the edge values of its own time step, though a     *)
(* neighbour may have sent the next ones, or not have received its own.    *)
(***************************************************************************)
HaloIsCurrent ==
    \A r \in Ranks : pc[r] = "compute" =>
        /\ stripe[r] = Slice(Solution[step[r]], r)
        /\ r > 0 => left_from_stripe(r) = Solution[step[r]][stripe_size * r - 1]
        /\ r < Total - 1 => right_from_stripe(r) = Solution[step[r]][stripe_size * (r + 1)]

(* The last gather, after the loop, has the result of the whole run. *)
FinalResult == pc[Root] = "close" => T = Solution[tt]

(* No rank leaves MPI with a message for it still unreceived. *)
CleanFinalize ==
    \A r \in Ranks : pc[r] = "done" =>
        /\ \A l \in Links : l[2] = r => chan[l] = <<>>
        /\ down[r] = <<>>
        /\ r = Root => \A q \in Others : up[q] = <<>>

(***************************************************************************)
(* The file has what a single process would write, though the stripes of   *)
(* one line of it are gathered from ranks that are in different time steps.*)
(***************************************************************************)
Heat == INSTANCE HeatEquation WITH
    status <- CASE Root \in dead -> "failed"
                [] pc[Root] = "done" -> "done"
                [] OTHER -> "run"

ImplementsHeatEquation == Heat!HeatSpec

(***************************************************************************)
(* Every rank ends even if no send is ever buffered: the Sendrecv calls    *)
(* wait for each other from the last rank to the first, not in a circle.   *)
(***************************************************************************)
Terminates == <>(\A r \in Ranks : Ended(r))

-----------------------------------------------------------------------------
(***************************************************************************)
(* main.c 52, printed before MPI_Finalize: "The number of nodes must be a  *)
(* multiple of the number of processes!"  What fails it does not go on.    *)
(***************************************************************************)
EndsAfterFinalize == finalized \cap dead = {}
=============================================================================
