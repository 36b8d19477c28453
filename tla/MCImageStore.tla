----------------------------- MODULE MCImageStore -----------------------------
(* A model-checking instance of ImageStore: an index i with the manifests a    *)
(* and b, of which a is a root of its own too.                                 *)
EXTENDS ImageStore, TLC

CONSTANTS i, a, b, l, p, q, c1, c2, s1, s2

MCVariants == (i :> (p :> {a} @@ q :> {b})) @@ (a :> (p :> {a} @@ q :> {}))
MCKids == (i :> {a, b}) @@ (a :> {l}) @@ (b :> {}) @@ (l :> {})

Symmetry == Permutations(Calls) \cup Permutations(Stores)
=============================================================================
