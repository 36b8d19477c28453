------------------------------- MODULE MCLogTail -------------------------------
(* A model-checking instance of the logs, under either runtime. *)
EXTENDS LogTail
=============================================================================
