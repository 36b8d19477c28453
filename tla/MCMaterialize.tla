----------------------------- MODULE MCMaterialize -----------------------------
(* A model-checking instance of Materialize: two layers with the same diff ID, *)
(* an image that has them, and images that differ in one thing each.           *)
EXTENDS Materialize

CONSTANTS good, bytes, twice, other, d, x

Platform(variant) == [os |-> "linux", arch |-> "arm64", variant |-> variant]
Config == [platform |-> Platform("v8"), diffs |-> <<d, d>>]
File(path, hash) == [path |-> path, regular |-> TRUE, hash |-> hash]
Saved(files) == [config |-> Config, manifests |-> 1, layers |-> <<"a", "b">>, files |-> files]

MCSource == [r \in Refs |-> [config |-> Config, platform |-> Platform("")]]

MCArchive == [i \in Ids |->
  IF i = good THEN Saved(<<File("a", d), File("b", d)>>)
  ELSE IF i = bytes THEN Saved(<<File("a", d), File("b", x)>>)
  ELSE IF i = twice THEN Saved(<<File("a", d), File("b", d), File("b", x)>>)
  ELSE [Saved(<<File("a", x), File("b", d)>>) EXCEPT !.config.diffs = <<x, d>>]]
=============================================================================
