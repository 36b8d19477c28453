---------------------------- MODULE MCImageVerify -----------------------------
(* A model-checking instance of ImageVerify: one image with a layer and an index, one without. *)
EXTENDS ImageVerify, TLC

CONSTANTS m, n, l, r

MCKids == [d \in Images |-> IF d = m THEN {l} ELSE {}]

MCRoot == [d \in Images |-> IF d = m THEN r ELSE d]

Symmetry == Permutations(Calls)
=============================================================================
