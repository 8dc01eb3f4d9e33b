-------------------------- MODULE SequentialSolver --------------------------
(***************************************************************************)
(* What thread/main.c promises whatever the number of threads: the frames  *)
(* a single-threaded forward Euler integration of the mesh would plot, in  *)
(* order and each one whole, and then an orderly stop.                     *)
(***************************************************************************)
EXTENDS Grid, Sequences

CONSTANT T      \* number of time steps (timesteps in main)

VARIABLES
    base,       \* the voltages of the current time step
    step,       \* the loop counter of main, from 1
    film,       \* the frames plotted so far
    status      \* "run", "done", or "failed" when a resource was refused

seqVars == <<base, step, film, status>>

SeqInit == /\ base = ZeroGrid
           /\ step = 1
           /\ film = <<>>
           /\ status = "run"

(* Frame number step shows the voltages the step started from. *)
Plot == /\ status = "run" /\ step < T
        /\ Len(film) = step - 1
        /\ film' = Append(film, base)
        /\ UNCHANGED <<base, step, status>>

(* One time step of the whole mesh. *)
Advance == /\ status = "run" /\ step < T
           /\ Len(film) = step
           /\ base' = NextGrid(base)
           /\ step' = step + 1
           /\ UNCHANGED <<film, status>>

Finish == /\ status = "run" /\ ~(step < T)
          /\ status' = "done"
          /\ UNCHANGED <<base, step, film>>

(* A failed start: nothing has been plotted yet. *)
GiveUp == /\ status = "run" /\ film = <<>>
          /\ status' = "failed"
          /\ UNCHANGED <<base, step, film>>

SeqNext == Plot \/ Advance \/ Finish \/ GiveUp

SeqSpec == SeqInit /\ [][SeqNext]_seqVars
=============================================================================
