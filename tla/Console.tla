------------------------------ MODULE Console -------------------------------
(***************************************************************************)
(* What the kernel of fork/ promises its user: the terminal belongs to one *)
(* process at a time.  It goes from the kernel to the service that was     *)
(* asked for, which processes one string, and back to the kernel.          *)
(***************************************************************************)
CONSTANTS Owners,       \* the services
          Shell,        \* the kernel
          Nobody,       \* no process the terminal can be given to
          Closed        \* the program is over

VARIABLES holder,       \* the process the terminal belongs to, or Closed
          served        \* the service that processed a string since it was handed over

consoleVars == <<holder, served>>

ConsoleInit == holder = Shell /\ served = Nobody

(* The kernel hands the terminal over. *)
Hand == /\ holder = Shell
        /\ \E s \in Owners : holder' = s
        /\ served' = Nobody

(* It is given to no service at all; nothing is promised from then on. *)
Lose == /\ holder = Shell
        /\ holder' = Nobody
        /\ served' = Nobody

Lost == /\ holder = Nobody
        /\ served' \in Owners \cup {Nobody}
        /\ UNCHANGED holder

Process == /\ holder \in Owners /\ served = Nobody
           /\ served' = holder
           /\ UNCHANGED holder

Return == /\ holder \in Owners /\ served = holder
          /\ holder' = Shell
          /\ UNCHANGED served

Close == /\ holder = Shell
         /\ holder' = Closed
         /\ UNCHANGED served

ConsoleNext == Hand \/ Process \/ Return \/ Lose \/ Lost \/ Close

ConsoleSpec == ConsoleInit /\ [][ConsoleNext]_consoleVars
=============================================================================
