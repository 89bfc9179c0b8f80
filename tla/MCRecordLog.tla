----------------------------- MODULE MCRecordLog -----------------------------
(***************************************************************************)
(* RecordLog with a few records and crashes.                               *)
(***************************************************************************)
EXTENDS RecordLog

=============================================================================
