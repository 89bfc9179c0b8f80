-------------------------- MODULE MCContextMemory --------------------------
(***************************************************************************)
(* ContextMemory with two modes and few messages, steps and calls.         *)
(***************************************************************************)
EXTENDS ContextMemory

=============================================================================
