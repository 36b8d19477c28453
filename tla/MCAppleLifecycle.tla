--------------------------- MODULE MCAppleLifecycle ---------------------------
(* A model-checking instance of AppleLifecycle. *)
EXTENDS AppleLifecycle, TLC

Symmetry == Permutations(Sandboxes)
=============================================================================
