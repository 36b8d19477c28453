---------------------------- MODULE MCAppleCommands ----------------------------
(* A model-checking instance of the commands, under either runtime. *)
EXTENDS AppleCommands
=============================================================================
