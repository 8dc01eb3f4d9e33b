---------------------------- MODULE HeatEquation ----------------------------
(***************************************************************************)
(* What mpi/main.c promises however many processes there are: the time     *)
(* steps that one process integrating the whole rod would write to         *)
(* temperature.dat, each one whole and in order.                           *)
(***************************************************************************)
EXTENDS Rod, Sequences

CONSTANT tt         \* number of time steps

VARIABLES
    film,           \* the time steps in the file
    status          \* "run", "done", or "failed" when a resource was refused

heatVars == <<film, status>>

HeatInit == film = <<>> /\ status = "run"

Current == IF film = <<>> THEN InitialRod ELSE film[Len(film)]

Integrate == /\ status = "run" /\ Len(film) < tt
             /\ film' = Append(film, NextRod(Current))
             /\ UNCHANGED status

Finish == /\ status = "run" /\ Len(film) = tt
          /\ status' = "done"
          /\ UNCHANGED film

GiveUp == /\ status = "run"
          /\ status' = "failed"
          /\ UNCHANGED film

HeatNext == Integrate \/ Finish \/ GiveUp

HeatSpec == HeatInit /\ [][HeatNext]_heatVars
=============================================================================
