----------------------------- MODULE MCGoalStore -----------------------------
(***************************************************************************)
(* GoalStore with three goals and two calls under way at once.             *)
(***************************************************************************)
EXTENDS GoalStore

=============================================================================
