---------------------------- MODULE MCToolBatch -----------------------------
(***************************************************************************)
(* Batches of a few calls that declare nothing or a write of one file, so  *)
(* that any two of them may or may not conflict.                           *)
(***************************************************************************)
EXTENDS ToolBatch

MCName == {"f"}
MCFold == [n \in MCName |-> n]

File(op) == [kind |-> "file", operation |-> op, path |-> <<"", "f">>, recursive |-> FALSE]

MCAccessLists == {{}, {File("write")}}

=============================================================================
