----------------------------- MODULE MCRCSolver -----------------------------
(***************************************************************************)
(* Instances of RCSolver for TLC.  The mesh is three cells wide and has    *)
(* two rows per worker, so that corners, all four borders and inner nodes  *)
(* occur and the stencil of each worker crosses into another's rows.       *)
(***************************************************************************)
EXTENDS RCSolver

(* The failures main and init_pool answer by returning. *)
HandledFaults == {"make_grid", "init_pool", "popen"}
(* The failures of spawn_workers, whose result main ignores. *)
SpawnFaults == {"malloc", "pthread_create"}
NoFaults == {}
=============================================================================
