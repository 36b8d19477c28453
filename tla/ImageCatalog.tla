----------------------------- MODULE ImageCatalog -----------------------------
(***************************************************************************)
(* What catalog.json promises to everyone who uses the image store         *)
(* (internal/images/store.go, publish.go): a map from references to roots  *)
(* and their prepared platforms that pulls, imports and removals change as *)
(* if each of them happened alone.                                         *)
(***************************************************************************)
CONSTANTS
  Tags,           \* references, as reference() normalises them
  Roots,          \* digests that a tag can name: an index, or one manifest
  Platforms,
  Variants        \* for a root and a platform, the manifests a pull or an
                  \* import may select for it

VARIABLE refs     \* catalog.References: a function on some of the tags

\* The entries of map f, and those of g that f has no entry for.
Over(f, g) == [x \in DOMAIN f \cup DOMAIN g |-> IF x \in DOMAIN f THEN f[x] ELSE g[x]]

Entry(r, p, m) == [root |-> r, prepared |-> [x \in {p} |-> m]]

\* What one pull or import publishes: entries prepared for one platform.
EntriesFor(p) == UNION {{Entry(r, p, m) : m \in Variants[r][p]} : r \in Roots}

Publications == UNION {[T -> EntriesFor(p)] : T \in (SUBSET Tags) \ {{}}, p \in Platforms}

\* Defect: platforms of the tag's former root are kept.
MergedAlways(c, new) ==
  Over([t \in DOMAIN new |->
          IF t \in DOMAIN c
            THEN [new[t] EXCEPT !.prepared = Over(@, c[t].prepared)]
            ELSE new[t]], c)

\* publish: the platforms of an entry outlive a publication of the same root.
Merged(c, new) ==
  Over([t \in DOMAIN new |->
          IF t \in DOMAIN c /\ c[t].root = new[t].root
            THEN [new[t] EXCEPT !.prepared = Over(@, c[t].prepared)]
            ELSE new[t]], c)

Sharers(c, t) == {u \in DOMAIN c : c[u].root = c[t].root}

\* The end of a writing transaction: tags of one root have the same platforms,
\* and each platform a manifest that one of the tags had.
IsShared(c, s) ==
  /\ DOMAIN s = DOMAIN c
  /\ \A t \in DOMAIN c :
       /\ s[t].root = c[t].root
       /\ DOMAIN s[t].prepared = UNION {DOMAIN c[u].prepared : u \in Sharers(c, t)}
       /\ \A p \in DOMAIN s[t].prepared :
            \E u \in Sharers(c, t) : p \in DOMAIN c[u].prepared /\ s[t].prepared[p] = c[u].prepared[p]
       /\ \A u \in Sharers(c, t) : s[u].prepared = s[t].prepared

Without(c, gone) == [t \in DOMAIN c \ gone |-> c[t]]

Publish == \E new \in Publications : IsShared(Merged(refs, new), refs')

\* By tag, or every tag of a digest.
Remove ==
  \/ \E t \in DOMAIN refs : refs' = Without(refs, {t})
  \/ \E r \in Roots : refs' = Without(refs, {t \in DOMAIN refs : refs[t].root = r})

Init == refs = <<>>

Next == Publish \/ Remove

Spec == Init /\ [][Next]_refs
=============================================================================
