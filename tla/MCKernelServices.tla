-------------------------- MODULE MCKernelServices --------------------------
(***************************************************************************)
(* Instances of KernelServices for TLC.  Nothing is counted, so a run      *)
(* covers sessions of any length.                                          *)
(***************************************************************************)
EXTENDS KernelServices

AllFaults == {"init_services", "fork"}
NoFaults == {}
=============================================================================
