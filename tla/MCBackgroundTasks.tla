-------------------------- MODULE MCBackgroundTasks --------------------------
(***************************************************************************)
(* BackgroundTasks with a few tasks, callers and crashes.  No symmetry: the*)
(* run checks liveness.                                                    *)
(***************************************************************************)
EXTENDS BackgroundTasks

=============================================================================
