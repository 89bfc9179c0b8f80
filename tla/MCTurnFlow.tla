----------------------------- MODULE MCTurnFlow -----------------------------
(***************************************************************************)
(* TurnFlow with a few workers alive together and a few waiting steers.    *)
(***************************************************************************)
EXTENDS TurnFlow, TLC

SymmetricWorkers == Permutations(Worker) \cup Permutations(Steer)

=============================================================================
