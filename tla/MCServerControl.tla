---------------------------- MODULE MCServerControl ----------------------------
(* A model-checking instance of ServerControl: two directories whose servers   *)
(* have a database of their own or use a legacy one that they share.           *)
EXTENDS ServerControl, TLC

Symmetry == Permutations(Dirs) \cup Permutations(Pids) \cup Permutations(Calls)
=============================================================================
