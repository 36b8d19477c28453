--------------------------- MODULE ImageStoreProofs ---------------------------
(***************************************************************************)
(* Proofs about the image store of a data directory, for every set of      *)
(* tags, blobs, processes and calls: one transaction at a time is inside   *)
(* the directory, what the files on disk name is there, and the catalog    *)
(* changes as ImageCatalog says.  The invariant follows what a transaction *)
(* carries from its reading of the catalog to the rename of the new one.   *)
(***************************************************************************)
EXTENDS ImageStore, TLAPS

-----------------------------------------------------------------------------
(* Catalogs.                                                               *)

Entries ==
  {e \in [root : Roots, prepared : UNION {[P -> Digests] : P \in SUBSET Platforms}] :
     \A p \in DOMAIN e.prepared : e.prepared[p] \in Variants[e.root][p]}

Catalogs == UNION {[T -> Entries] : T \in SUBSET Tags}

\* What a catalog names is among the blobs B.
AllThere(c, B) ==
  \A t \in DOMAIN c :
    /\ c[t].root \in B
    /\ \A p \in DOMAIN c[t].prepared : Graph(c[t].prepared[p]) \subseteq B

\* The tags of a root have the same platforms and manifests.
Settled(c) ==
  \A t, u \in DOMAIN c : c[t].root = c[u].root => c[t].prepared = c[u].prepared

\* What Remove makes of the catalog.
Shrunk(c, s) ==
  \/ s = c
  \/ \E t \in DOMAIN c : s = Catalog!Without(c, {t})
  \/ \E r \in Roots : s = Catalog!Without(c, {t \in DOMAIN c : c[t].root = r})

LEMMA EntryShape ==
  ASSUME NEW e \in Entries
  PROVE  /\ e.root \in Roots /\ DOMAIN e.prepared \subseteq Platforms
         /\ e.prepared = [p \in DOMAIN e.prepared |-> e.prepared[p]]
         /\ e = [root |-> e.root, prepared |-> e.prepared]
         /\ \A p \in DOMAIN e.prepared :
              e.prepared[p] \in Digests /\ e.prepared[p] \in Variants[e.root][p]
  BY DEF Entries

LEMMA MakeEntry ==
  ASSUME NEW r \in Roots, NEW P \in SUBSET Platforms, NEW f \in [P -> Digests],
         \A p \in P : f[p] \in Variants[r][p]
  PROVE  [root |-> r, prepared |-> f] \in Entries
  BY DEF Entries

LEMMA CatalogShape ==
  ASSUME NEW c \in Catalogs
  PROVE  /\ DOMAIN c \subseteq Tags /\ c \in [DOMAIN c -> Entries]
         /\ \A t \in DOMAIN c : c[t] \in Entries
  BY DEF Catalogs

LEMMA MakeCatalog ==
  ASSUME NEW T \in SUBSET Tags, NEW c \in [T -> Entries]
  PROVE  c \in Catalogs
  BY DEF Catalogs

LEMMA SelectedEntry ==
  ASSUME NEW r \in Roots, NEW p \in Platforms, NEW m \in Variants[r][p]
  PROVE  /\ Catalog!Entry(r, p, m) \in Entries
         /\ Catalog!Entry(r, p, m).root = r
         /\ DOMAIN Catalog!Entry(r, p, m).prepared = {p}
         /\ Catalog!Entry(r, p, m).prepared[p] = m
  <1>1. m \in Digests
    BY ImageStoreAssumption
  <1>2. [x \in {p} |-> m] \in [{p} -> Digests]
    BY <1>1
  <1>. QED
    BY <1>2, MakeEntry DEF Catalog!Entry

LEMMA PublicationShape ==
  ASSUME NEW new \in Catalog!Publications
  PROVE  new \in Catalogs
  <1>1. PICK T \in SUBSET Tags, p \in Platforms : new \in [T -> Catalog!EntriesFor(p)]
    BY DEF Catalog!Publications
  <1>2. Catalog!EntriesFor(p) \subseteq Entries
    BY SelectedEntry DEF Catalog!EntriesFor
  <1>. QED
    BY <1>1, <1>2, MakeCatalog

\* Root and manifests of entry e are those of tag t, in one catalog or the other.
Stems(c, new, t, e) ==
  /\ \E x \in {c, new} : t \in DOMAIN x /\ e.root = x[t].root
  /\ \A p \in DOMAIN e.prepared :
       \E x \in {c, new} : /\ t \in DOMAIN x /\ p \in DOMAIN x[t].prepared
                           /\ e.prepared[p] = x[t].prepared[p]

\* A publication of a root keeps the platforms that the tag had of it.
LEMMA MergedEntries ==
  ASSUME NEW c \in Catalogs, NEW new \in Catalogs
  PROVE  /\ Catalog!Merged(c, new) \in Catalogs
         /\ DOMAIN Catalog!Merged(c, new) = DOMAIN c \cup DOMAIN new
         /\ \A t \in DOMAIN c \cup DOMAIN new : Stems(c, new, t, Catalog!Merged(c, new)[t])
  <1> DEFINE M == Catalog!Merged(c, new)
             Joined(t) == [new[t] EXCEPT !.prepared = Catalog!Over(@, c[t].prepared)]
  <1>1. /\ M = [t \in DOMAIN new \cup DOMAIN c |->
                 IF t \in DOMAIN new
                 THEN IF t \in DOMAIN c /\ c[t].root = new[t].root THEN Joined(t) ELSE new[t]
                 ELSE c[t]]
    BY DEF Catalog!Merged, Catalog!Over
  <1>2. ASSUME NEW t \in DOMAIN c \cap DOMAIN new, c[t].root = new[t].root
        PROVE  /\ Joined(t) \in Entries /\ Joined(t).root = c[t].root
               /\ Stems(c, new, t, Joined(t))
    <2> DEFINE f == Catalog!Over(new[t].prepared, c[t].prepared)
    <2>1. c[t] \in Entries /\ new[t] \in Entries
      BY <1>2, CatalogShape
    <2>2. /\ f = [p \in DOMAIN f |-> f[p]] /\ DOMAIN f \subseteq Platforms
          /\ \A p \in DOMAIN f : \E x \in {c, new} : p \in DOMAIN x[t].prepared
                                                     /\ f[p] = x[t].prepared[p]
      BY <2>1, EntryShape DEF Catalog!Over
    <2>3. \A p \in DOMAIN f : f[p] \in Digests /\ f[p] \in Variants[c[t].root][p]
      BY <1>2, <2>1, <2>2, EntryShape
    <2>4. f \in [DOMAIN f -> Digests]
      BY <2>2, <2>3
    <2>5. [root |-> c[t].root, prepared |-> f] \in Entries
      BY <2>1, <2>2, <2>3, <2>4, EntryShape, MakeEntry
    <2>. HIDE DEF f
    <2>6. Joined(t) = [root |-> c[t].root, prepared |-> f]
      <3>1. new[t] = [root |-> c[t].root, prepared |-> new[t].prepared]
        BY <1>2, <2>1, EntryShape
      <3>2. Joined(t) = [new[t] EXCEPT !.prepared = f]
        BY DEF f
      <3>. QED
        BY <3>1, <3>2
    <2>. QED
      BY <1>2, <2>2, <2>5, <2>6 DEF Stems
  <1>. HIDE DEF Joined, M
  <1>3. DOMAIN M = DOMAIN c \cup DOMAIN new
    BY <1>1
  <1>4. ASSUME NEW t \in DOMAIN c \cup DOMAIN new
        PROVE  M[t] \in Entries /\ Stems(c, new, t, M[t])
    <2>1. CASE t \in DOMAIN c \cap DOMAIN new /\ c[t].root = new[t].root
      <3>1. M[t] = Joined(t)
        BY <1>1, <2>1
      <3>. QED
        BY <1>2, <2>1, <3>1
    <2>2. CASE t \in DOMAIN new /\ ~(t \in DOMAIN c /\ c[t].root = new[t].root)
      <3>1. M[t] = new[t] /\ new[t] \in Entries
        BY <1>1, <2>2, CatalogShape
      <3>. QED
        BY <2>2, <3>1 DEF Stems
    <2>3. CASE t \notin DOMAIN new
      <3>1. M[t] = c[t] /\ c[t] \in Entries
        BY <1>1, <1>4, <2>3, CatalogShape
      <3>. QED
        BY <1>4, <2>3, <3>1 DEF Stems
    <2>. QED
      BY <1>4, <2>1, <2>2, <2>3
  <1>5. M \in [DOMAIN c \cup DOMAIN new -> Entries]
    BY <1>1, <1>4 DEF M
  <1>6. M \in Catalogs
    BY <1>5, CatalogShape, MakeCatalog
  <1>. QED
    BY <1>3, <1>4, <1>6 DEF M

LEMMA MergedThere ==
  ASSUME NEW c \in Catalogs, NEW new \in Catalogs, NEW B, AllThere(c, B), AllThere(new, B)
  PROVE  AllThere(Catalog!Merged(c, new), B)
  <1> DEFINE M == Catalog!Merged(c, new)
  <1>1. DOMAIN M = DOMAIN c \cup DOMAIN new /\ \A t \in DOMAIN M : Stems(c, new, t, M[t])
    BY MergedEntries
  <1>. HIDE DEF M
  <1>2. ASSUME NEW t \in DOMAIN M
        PROVE  M[t].root \in B
    BY <1>1 DEF AllThere, Stems
  <1>3. ASSUME NEW t \in DOMAIN M, NEW p \in DOMAIN M[t].prepared
        PROVE  Graph(M[t].prepared[p]) \subseteq B
    <2>1. PICK x \in {c, new} : /\ t \in DOMAIN x /\ p \in DOMAIN x[t].prepared
                                /\ M[t].prepared[p] = x[t].prepared[p]
      BY <1>1 DEF Stems
    <2>2. AllThere(x, B)
      OBVIOUS
    <2>. QED
      BY <2>1, <2>2 DEF AllThere
  <1>. QED
    BY <1>2, <1>3 DEF AllThere, M

LEMMA MoreIsThere ==
  ASSUME NEW c, NEW A, NEW B, A \subseteq B, AllThere(c, A)
  PROVE  AllThere(c, B)
  BY DEF AllThere

LEMMA WithoutSome ==
  ASSUME NEW c \in Catalogs, NEW gone
  PROVE  /\ Catalog!Without(c, gone) \in Catalogs
         /\ Settled(c) => Settled(Catalog!Without(c, gone))
         /\ \A B : AllThere(c, B) => AllThere(Catalog!Without(c, gone), B)
         /\ gone \cap DOMAIN c = {} => Catalog!Without(c, gone) = c
  <1> DEFINE W == Catalog!Without(c, gone)
  <1>1. W = [t \in DOMAIN c \ gone |-> c[t]] /\ DOMAIN c \subseteq Tags
        /\ \A t \in DOMAIN c : c[t] \in Entries
    BY CatalogShape DEF Catalog!Without
  <1>. HIDE DEF W
  <1>2. W \in [DOMAIN c \ gone -> Entries]
    BY <1>1
  <1>3. W \in Catalogs
    BY <1>1, <1>2, MakeCatalog
  <1>4. gone \cap DOMAIN c = {} => W = c
    BY <1>1, CatalogShape
  <1>. QED
    BY <1>1, <1>3, <1>4 DEF Settled, AllThere, W

LEMMA ShrunkKeeps ==
  ASSUME NEW c \in Catalogs, NEW s, Shrunk(c, s)
  PROVE  /\ s \in Catalogs
         /\ Settled(c) => Settled(s)
         /\ \A B : AllThere(c, B) => AllThere(s, B)
  BY WithoutSome DEF Shrunk

-----------------------------------------------------------------------------
(* Sharing the platforms of a root between its tags.                       *)

LEMMA SharedKeeps ==
  ASSUME NEW c \in Catalogs, NEW s \in Catalogs, Catalog!IsShared(c, s)
  PROVE  /\ Settled(s)
         /\ \A B : AllThere(c, B) => AllThere(s, B)
         /\ Settled(c) => s = c
  <1>1. Settled(s)
    BY DEF Settled, Catalog!IsShared, Catalog!Sharers
  <1>2. ASSUME NEW B, AllThere(c, B)
        PROVE  AllThere(s, B)
    BY <1>2 DEF AllThere, Catalog!IsShared, Catalog!Sharers
  <1>3. ASSUME Settled(c)
        PROVE  s = c
    <2>1. ASSUME NEW t \in DOMAIN c
          PROVE  s[t] = c[t]
      <3>1. c[t] \in Entries /\ s[t] \in Entries /\ s[t].root = c[t].root
        BY CatalogShape DEF Catalog!IsShared
      <3>2. \A u \in Catalog!Sharers(c, t) : c[u].prepared = c[t].prepared
        BY <1>3 DEF Settled, Catalog!Sharers
      <3>3. t \in Catalog!Sharers(c, t)
        BY DEF Catalog!Sharers
      <3>4. DOMAIN s[t].prepared = DOMAIN c[t].prepared
        <4>1. DOMAIN s[t].prepared = UNION {DOMAIN c[u].prepared : u \in Catalog!Sharers(c, t)}
          BY DEF Catalog!IsShared
        <4>2. \A u \in Catalog!Sharers(c, t) : DOMAIN c[u].prepared = DOMAIN c[t].prepared
          BY <3>2
        <4>. QED
          BY <3>3, <4>1, <4>2
      <3>5. \A p \in DOMAIN s[t].prepared : s[t].prepared[p] = c[t].prepared[p]
        BY <3>2 DEF Catalog!IsShared
      <3>6. /\ s[t].prepared = [p \in DOMAIN s[t].prepared |-> s[t].prepared[p]]
            /\ c[t].prepared = [p \in DOMAIN c[t].prepared |-> c[t].prepared[p]]
            /\ s[t] = [root |-> s[t].root, prepared |-> s[t].prepared]
            /\ c[t] = [root |-> c[t].root, prepared |-> c[t].prepared]
        BY <3>1, EntryShape
      <3>7. s[t].prepared = c[t].prepared
        BY <3>4, <3>5, <3>6
      <3>. QED
        BY <3>1, <3>6, <3>7
    <2>. QED
      BY <2>1, CatalogShape DEF Catalog!IsShared
  <1>. QED
    BY <1>1, <1>2, <1>3

\* What shareTags makes is one of the sharings that the catalog promises.
LEMMA SharedIsShared ==
  ASSUME NEW c \in Catalogs, NEW s \in Shared(c)
  PROVE  s \in Catalogs /\ Catalog!IsShared(c, s)
  <1> DEFINE used == {c[t].root : t \in DOMAIN c}
             Offers(r) == {c[t].prepared : t \in {u \in DOMAIN c : c[u].root = r}}
             Some(r) == [p \in UNION {DOMAIN o : o \in Offers(r)} |->
                           (CHOOSE o \in Offers(r) : p \in DOMAIN o)[p]]
             Join(r, o) == Catalog!Over(o, Some(r))
  <1>1. PICK last \in [used -> UNION {Offers(r) : r \in used}] :
          /\ \A r \in used : last[r] \in Offers(r)
          /\ s = [t \in DOMAIN c |-> [root |-> c[t].root,
                                     prepared |-> Join(c[t].root, last[c[t].root])]]
    BY DEF Shared
  <1>2. ASSUME NEW r \in used, NEW o \in Offers(r)
        PROVE  /\ Join(r, o) = [p \in DOMAIN Join(r, o) |-> Join(r, o)[p]]
               /\ DOMAIN Join(r, o) = UNION {DOMAIN x : x \in Offers(r)}
               /\ \A p \in DOMAIN Join(r, o) :
                    \E x \in Offers(r) : p \in DOMAIN x /\ Join(r, o)[p] = x[p]
    <2>1. /\ DOMAIN Some(r) = UNION {DOMAIN x : x \in Offers(r)}
          /\ \A p \in DOMAIN Some(r) : \E x \in Offers(r) : p \in DOMAIN x /\ Some(r)[p] = x[p]
      OBVIOUS
    <2>2. DOMAIN o \subseteq DOMAIN Some(r)
      BY <2>1
    <2>. HIDE DEF Some, Offers
    <2>. QED
      BY <2>1, <2>2 DEF Catalog!Over
  <1>3. ASSUME NEW t \in DOMAIN c
        PROVE  /\ c[t].root \in used /\ last[c[t].root] \in Offers(c[t].root)
               /\ c[t] \in Entries
               /\ s[t] = [root |-> c[t].root, prepared |-> Join(c[t].root, last[c[t].root])]
               /\ Offers(c[t].root) = {c[u].prepared : u \in Catalog!Sharers(c, t)}
    <2>1. c[t].root \in used /\ c[t] \in Entries
      BY CatalogShape
    <2>2. Offers(c[t].root) = {c[u].prepared : u \in Catalog!Sharers(c, t)}
      BY DEF Catalog!Sharers
    <2>3. last[c[t].root] \in Offers(c[t].root)
      BY <1>1, <2>1
    <2>. HIDE DEF Join, Offers
    <2>. QED
      BY <1>1, <2>1, <2>2, <2>3
  <1>. HIDE DEF Join, Offers, used
  <1>4. ASSUME NEW t \in DOMAIN c
        PROVE  /\ s[t].root = c[t].root
               /\ s[t].prepared = Join(c[t].root, last[c[t].root])
               /\ s[t].prepared = [p \in DOMAIN s[t].prepared |-> s[t].prepared[p]]
               /\ DOMAIN s[t].prepared = UNION {DOMAIN c[u].prepared : u \in Catalog!Sharers(c, t)}
               /\ \A p \in DOMAIN s[t].prepared :
                    \E u \in Catalog!Sharers(c, t) : /\ p \in DOMAIN c[u].prepared
                                                      /\ s[t].prepared[p] = c[u].prepared[p]
    <2>. DEFINE J == Join(c[t].root, last[c[t].root])
    <2>0. s[t] = [root |-> c[t].root, prepared |-> J]
      BY <1>3
    <2>. HIDE DEF J
    <2>1. s[t].root = c[t].root /\ s[t].prepared = J
      BY <2>0
    <2>2. /\ J = [p \in DOMAIN J |-> J[p]]
          /\ DOMAIN J = UNION {DOMAIN x : x \in Offers(c[t].root)}
          /\ \A p \in DOMAIN J : \E x \in Offers(c[t].root) : p \in DOMAIN x /\ J[p] = x[p]
      <3>1. c[t].root \in used /\ last[c[t].root] \in Offers(c[t].root)
        BY <1>3
      <3>. QED
        BY ONLY <1>2, <3>1 DEF J
    <2>3. Offers(c[t].root) = {c[u].prepared : u \in Catalog!Sharers(c, t)}
      BY <1>3
    <2>4. DOMAIN J = UNION {DOMAIN c[u].prepared : u \in Catalog!Sharers(c, t)}
      BY ONLY <2>2, <2>3
    <2>5. \A p \in DOMAIN J : \E u \in Catalog!Sharers(c, t) : p \in DOMAIN c[u].prepared
                                                                /\ J[p] = c[u].prepared[p]
      BY ONLY <2>2, <2>3
    <2>6. s[t].prepared = Join(c[t].root, last[c[t].root])
      BY <2>1 DEF J
    <2>. QED
      BY <2>1, <2>2, <2>4, <2>5, <2>6
  <1>5. ASSUME NEW t \in DOMAIN c
        PROVE  s[t] \in Entries
    <2>1. /\ \A u \in Catalog!Sharers(c, t) : c[u] \in Entries /\ c[u].root = c[t].root
          /\ c[t] \in Entries
      BY CatalogShape DEF Catalog!Sharers
    <2>2. \A p \in DOMAIN s[t].prepared :
            /\ p \in Platforms /\ s[t].prepared[p] \in Digests
            /\ s[t].prepared[p] \in Variants[c[t].root][p]
      <3>. TAKE p \in DOMAIN s[t].prepared
      <3>1. PICK u \in Catalog!Sharers(c, t) :
              p \in DOMAIN c[u].prepared /\ s[t].prepared[p] = c[u].prepared[p]
        BY <1>4
      <3>2. c[u] \in Entries /\ c[u].root = c[t].root
        BY <2>1
      <3>. QED
        BY <3>1, <3>2, EntryShape
    <2>3. s[t].prepared \in [DOMAIN s[t].prepared -> Digests]
      BY <1>4, <2>2
    <2>4. [root |-> c[t].root, prepared |-> s[t].prepared] \in Entries
      BY <2>1, <2>2, <2>3, EntryShape, MakeEntry
    <2>. QED
      BY <1>3, <1>4, <2>4
  <1>6. DOMAIN s = DOMAIN c /\ s = [t \in DOMAIN c |-> s[t]]
    BY <1>1
  <1>7. s \in Catalogs
    BY <1>5, <1>6, CatalogShape, MakeCatalog
  <1>8. \A t \in DOMAIN c : \A u \in Catalog!Sharers(c, t) : s[u].prepared = s[t].prepared
    <2>. TAKE t \in DOMAIN c
    <2>. TAKE u \in Catalog!Sharers(c, t)
    <2>1. u \in DOMAIN c /\ c[u].root = c[t].root
      BY DEF Catalog!Sharers
    <2>2. /\ s[t].prepared = Join(c[t].root, last[c[t].root])
          /\ s[u].prepared = Join(c[u].root, last[c[u].root])
      BY <1>4, <2>1
    <2>. QED
      BY ONLY <2>1, <2>2
  <1>. QED
    BY <1>4, <1>6, <1>7, <1>8 DEF Catalog!IsShared

-----------------------------------------------------------------------------
(* Graphs, and the index of a catalog.                                     *)

LEMMA GraphShape ==
  ASSUME NEW d \in Digests
  PROVE  Graph(d) \subseteq Digests /\ d \in Graph(d)
  <1>1. Graph(d) = UNION {{w[n] : w \in Walks(d, n)} : n \in 0..Depth}
    BY DEF Graph, Graphs
  <1>2. ASSUME NEW n \in 0..Depth, NEW w \in Walks(d, n)
        PROVE  w[n] \in Digests
    BY <1>2, ImageStoreAssumption DEF Walks
  <1>3. [k \in 0..0 |-> d] \in Walks(d, 0)
    BY DEF Walks
  <1>4. d \in {w[0] : w \in Walks(d, 0)}
    <2>1. d = [k \in 0..0 |-> d][0]
      OBVIOUS
    <2>. QED
      BY <1>3, <2>1
  <1>5. 0 \in 0..Depth
    BY ImageStoreAssumption
  <1>6. Graph(d) \subseteq Digests
    BY <1>1, <1>2
  <1>7. d \in Graph(d)
    BY <1>1, <1>4, <1>5
  <1>. QED
    BY <1>6, <1>7

LEMMA IndexNames ==
  ASSUME NEW c \in Catalogs, NEW B, AllThere(c, B)
  PROVE  /\ IndexOf(c).tagged \subseteq Tags \X Roots /\ IndexOf(c).untagged \subseteq Digests
         /\ \A e \in IndexOf(c).tagged : e[2] \in B
         /\ \A m \in IndexOf(c).untagged : Graph(m) \subseteq B
  <1>1. \A t \in DOMAIN c : t \in Tags /\ c[t] \in Entries
    BY CatalogShape
  <1>2. /\ IndexOf(c).tagged = {<<t, c[t].root>> : t \in DOMAIN c}
        /\ \A m \in IndexOf(c).untagged :
             \E t \in DOMAIN c : \E p \in DOMAIN c[t].prepared : m = c[t].prepared[p]
    BY DEF IndexOf
  <1>3. ASSUME NEW m \in IndexOf(c).untagged
        PROVE  m \in Digests /\ Graph(m) \subseteq B
    <2>1. PICK t \in DOMAIN c : \E p \in DOMAIN c[t].prepared : m = c[t].prepared[p]
      BY <1>2
    <2>2. PICK p \in DOMAIN c[t].prepared : m = c[t].prepared[p]
      BY <2>1
    <2>3. c[t] \in Entries
      BY <1>1
    <2>4. m \in Digests
      BY <2>2, <2>3, EntryShape
    <2>. QED
      BY <2>2, <2>4 DEF AllThere
  <1>4. ASSUME NEW e \in IndexOf(c).tagged
        PROVE  e \in Tags \X Roots /\ e[2] \in B
    <2>1. PICK t \in DOMAIN c : e = <<t, c[t].root>>
      BY <1>2
    <2>2. c[t] \in Entries /\ t \in Tags
      BY <1>1
    <2>3. c[t].root \in Roots
      BY <2>2, EntryShape
    <2>. QED
      BY <2>1, <2>2, <2>3 DEF AllThere
  <1>. QED
    BY <1>3, <1>4

-----------------------------------------------------------------------------
(* What a transaction carries.                                             *)

Pcs == {"idle", "stage", "enter", "lock", "read", "body", "index", "commit", "leave"}

\* Before the new catalog is made, and after.
Before == {"enter", "lock", "read", "body"}
After == {"index", "commit"}

\* A call knows its process, the operation and, by operation, what it works on.
Shape(g) ==
  /\ "pc" \in DOMAIN g /\ g.pc \in Pcs
  /\ g.pc = "idle" => g = Idle
  /\ g.pc # "idle" => {"op", "store"} \subseteq DOMAIN g /\ g.store \in Stores

\* What the call publishes is on the disk or in its stage; the name that it
\* removes is one of a tag or of a root.
Planned(g) ==
  g.pc \in Before =>
    /\ g.op = "publish" =>
         /\ {"new", "stage"} \subseteq DOMAIN g
         /\ g.new \in Catalog!Publications /\ g.stage \subseteq Digests
         /\ AllThere(g.new, blobs \cup g.stage)
    /\ g.op = "remove" => "ref" \in DOMAIN g /\ g.ref \in Tags \cup Roots

\* The catalog that was read is still the one on the disk, and the one to write
\* is made of it by the operation, and names what is there.
Current(g) ==
  /\ g.pc \in {"body"} \cup After => "cat" \in DOMAIN g
  /\ g.pc = "body" => g.cat = catalog
  /\ g.pc \in After =>
       /\ g.op \in {"publish", "remove"}
       /\ g.cat \in Catalogs /\ AllThere(g.cat, blobs)
       /\ g.op = "remove" => Shrunk(catalog, g.cat)
  /\ g.pc = "index" /\ g.op = "publish" =>
       \E new \in Catalog!Publications : g.cat = Catalog!Merged(catalog, new)
  /\ g.pc = "commit" => Settled(g.cat)
  /\ g.pc = "commit" /\ g.op = "publish" =>
       \E new \in Catalog!Publications : Catalog!IsShared(Catalog!Merged(catalog, new), g.cat)

Kinds ==
  /\ layout \in BOOLEAN /\ blobs \subseteq Digests /\ opened \subseteq Stores
  /\ mu \in [Stores -> Calls \cup {None}] /\ flock \in Stores \cup {None}
  /\ DOMAIN frame = Calls /\ \A c \in Calls : Shape(frame[c])

Plans == \A c \in Calls : Planned(frame[c])
Currents == \A c \in Calls : Current(frame[c])

\* index.json names roots that are there, and complete manifests.
IndexThere ==
  /\ index.tagged \subseteq Tags \X Roots /\ index.untagged \subseteq Digests
  /\ \A e \in index.tagged : e[2] \in blobs
  /\ \A m \in index.untagged : Complete(m)

Disk == catalog \in Catalogs /\ Settled(catalog) /\ AllThere(catalog, blobs) /\ IndexThere

\* The mutex names the call that has it, the file lock the process whose call is inside.
Locks ==
  /\ \A s \in Stores, c \in Calls :
       mu[s] = c <=> (Inside(c) \/ At(c, "lock")) /\ StoreOf(c) = s
  /\ \A c \in Calls : Inside(c) => flock = StoreOf(c)
  /\ flock # None => \E c \in Calls : Inside(c) /\ StoreOf(c) = flock

Inv == Kinds /\ Locks /\ Disk /\ Plans /\ Currents

-----------------------------------------------------------------------------
(* What a step does to the calls.                                          *)

\* Only the frame of c changes.
Alone(c) == DOMAIN frame' = Calls /\ \A d \in Calls \ {c} : frame'[d] = frame[d]

LEMMA Became ==
  ASSUME DOMAIN frame = Calls, NEW c \in Calls, NEW f, Become(c, f)
  PROVE  /\ Alone(c)
         /\ DOMAIN frame'[c] = DOMAIN f \cup {"store"}
         /\ \A x \in DOMAIN f : frame'[c][x] = f[x]
         /\ "store" \notin DOMAIN f => frame'[c].store = frame[c].store
  BY DEF Become, Alone, StoreOf, Catalog!Over

LEMMA Returned ==
  ASSUME DOMAIN frame = Calls, NEW c \in Calls, Return(c)
  PROVE  Alone(c) /\ frame'[c] = Idle
  BY DEF Return, Alone

LEMMA Went ==
  ASSUME DOMAIN frame = Calls, NEW c \in Calls, Shape(frame[c]), NEW pc, Goto(c, pc),
         frame[c].pc # "idle"
  PROVE  /\ Alone(c) /\ DOMAIN frame'[c] = DOMAIN frame[c] /\ frame'[c].pc = pc
         /\ \A x \in DOMAIN frame[c] \ {"pc"} : frame'[c][x] = frame[c][x]
  <1>. DEFINE f == [frame[c] EXCEPT !.pc = pc]
  <1>1. DOMAIN f = DOMAIN frame[c] /\ f.pc = pc /\ \A x \in DOMAIN f \ {"pc"} : f[x] = frame[c][x]
    BY DEF Shape
  <1>2. Become(c, f)
    BY DEF Goto
  <1>. HIDE DEF f
  <1>3. "store" \in DOMAIN f /\ "pc" \in DOMAIN f
    BY <1>1 DEF Shape
  <1>4. /\ Alone(c) /\ DOMAIN frame'[c] = DOMAIN f \cup {"store"}
        /\ \A x \in DOMAIN f : frame'[c][x] = f[x]
    BY <1>2, Became
  <1>. QED
    BY <1>1, <1>3, <1>4

LEMMA IdleShape == Shape(Idle) /\ Idle.pc = "idle"
  BY DEF Shape, Idle, Pcs

-----------------------------------------------------------------------------
(* The initial state.                                                      *)

LEMMA EmptyCatalog ==
  /\ <<>> \in Catalogs /\ Settled(<<>>) /\ AllThere(<<>>, {})
  /\ DOMAIN <<>> = {}
  <1>1. DOMAIN <<>> = {}
    OBVIOUS
  <1>2. <<>> \in [{} -> Entries]
    OBVIOUS
  <1>3. <<>> \in Catalogs
    BY <1>2, MakeCatalog
  <1>. QED
    BY <1>1, <1>3 DEF Settled, AllThere

LEMMA Start == Init => Inv
  <1>. SUFFICES ASSUME Init
                PROVE  Inv
    OBVIOUS
  <1>1. DOMAIN frame = Calls /\ \A c \in Calls : frame[c] = Idle
    BY DEF Init
  <1>2. Kinds
    BY <1>1, IdleShape DEF Kinds, Init
  <1>3. Locks
    BY <1>1, IdleShape, ImageStoreAssumption DEF Locks, Init, Inside, At
  <1>4. catalog \in Catalogs /\ Settled(catalog) /\ AllThere(catalog, blobs)
    BY EmptyCatalog DEF Init
  <1>5. Disk
    BY <1>4, IndexNames DEF Disk, IndexThere, Complete, Init
  <1>6. Plans /\ Currents
    BY <1>1, IdleShape DEF Plans, Currents, Planned, Current, Before, After
  <1>. QED
    BY <1>2, <1>3, <1>5, <1>6 DEF Inv

-----------------------------------------------------------------------------
(* A call and the locks, step by step.                                     *)

LEMMA Now ==
  ASSUME Inv, NEW c \in Calls
  PROVE  /\ DOMAIN frame = Calls /\ Shape(frame[c]) /\ Planned(frame[c]) /\ Current(frame[c])
         /\ frame[c].pc # "idle" => StoreOf(c) \in Stores
  BY DEF Inv, Kinds, Plans, Currents, Shape, StoreOf

LEMMA AskEffect ==
  ASSUME Inv, NEW c \in Calls, NEW s \in Stores, NEW op, NEW ref, Ask(c, s, op, ref)
  PROVE  /\ Alone(c) /\ frame[c].pc = "idle"
         /\ DOMAIN frame'[c] = {"pc", "op", "ref", "store"}
         /\ frame'[c].pc = IF op \in {"pull", "import"} THEN "stage" ELSE "enter"
         /\ frame'[c].op = op /\ frame'[c].ref = ref /\ frame'[c].store = s
  BY Now DEF Ask, Alone, At

\* What Request may ask for.
Asked(g) == g.pc = "enter" => g.op \in {"open", "look", "remove"}

LEMMA RequestEffect ==
  ASSUME Inv, NEW c \in Calls, Request(c)
  PROVE  /\ Alone(c) /\ frame[c].pc = "idle" /\ Shape(frame'[c])
         /\ frame'[c].pc \in {"stage", "enter"} /\ Asked(frame'[c])
         /\ frame'[c].op = "remove" => "ref" \in DOMAIN frame'[c] /\ frame'[c].ref \in Tags \cup Roots
         /\ UNCHANGED <<files, opened, mu, flock>>
  <1>1. PICK s \in Stores :
          \/ \E op \in {"open", "import", "look"} : Ask(c, s, op, None)
          \/ \E t \in Tags : Ask(c, s, "pull", t)
          \/ \E ref \in Refs : Ask(c, s, "remove", ref)
    BY DEF Request
  <1>2. \E op \in {"open", "import", "look", "pull", "remove"} : \E ref :
          Ask(c, s, op, ref) /\ (op = "remove" => ref \in Tags \cup Roots)
    BY <1>1, ImageStoreAssumption
  <1>3. PICK op \in {"open", "import", "look", "pull", "remove"} : \E ref :
          Ask(c, s, op, ref) /\ (op = "remove" => ref \in Tags \cup Roots)
    BY <1>2
  <1>4. PICK ref : Ask(c, s, op, ref) /\ (op = "remove" => ref \in Tags \cup Roots)
    BY <1>3
  <1>5. /\ Alone(c) /\ frame[c].pc = "idle"
        /\ DOMAIN frame'[c] = {"pc", "op", "ref", "store"}
        /\ frame'[c].pc = IF op \in {"pull", "import"} THEN "stage" ELSE "enter"
        /\ frame'[c].op = op /\ frame'[c].ref = ref /\ frame'[c].store = s
    BY <1>4, AskEffect
  <1>6. UNCHANGED <<files, opened, mu, flock>>
    BY <1>4 DEF Ask
  <1>. QED
    BY <1>4, <1>5, <1>6 DEF Asked, Shape, Pcs

\* A call that has its plan.
LEMMA StagedEffect ==
  ASSUME Inv, NEW c \in Calls, NEW new, NEW stage, frame[c].pc # "idle",
         Become(c, [pc |-> "enter", op |-> "publish", stage |-> stage, new |-> new])
  PROVE  /\ Alone(c) /\ Shape(frame'[c]) /\ {"new", "stage"} \subseteq DOMAIN frame'[c]
         /\ frame'[c].pc = "enter" /\ frame'[c].op = "publish"
         /\ frame'[c].new = new /\ frame'[c].stage = stage
         /\ frame'[c].store = frame[c].store
  <1>. DEFINE f == [pc |-> "enter", op |-> "publish", stage |-> stage, new |-> new]
  <1>1. DOMAIN f = {"pc", "op", "stage", "new"} /\ f.pc = "enter" /\ f.op = "publish"
        /\ f.stage = stage /\ f.new = new
    OBVIOUS
  <1>2. Become(c, f)
    OBVIOUS
  <1>. HIDE DEF f
  <1>3. /\ Alone(c) /\ DOMAIN frame'[c] = {"pc", "op", "stage", "new", "store"}
        /\ frame'[c].pc = "enter" /\ frame'[c].op = "publish"
        /\ frame'[c].new = new /\ frame'[c].stage = stage
        /\ frame'[c].store = frame[c].store
    BY <1>1, <1>2, Became, Now
  <1>. QED
    BY <1>3, Now DEF Shape, Pcs

\* A call that goes to a step with nothing but the operation and a catalog.
LEMMA LeavingEffect ==
  ASSUME Inv, NEW c \in Calls, frame[c].pc # "idle", NEW op,
         Become(c, [pc |-> "leave", op |-> op])
  PROVE  /\ Alone(c) /\ Shape(frame'[c]) /\ frame'[c].pc = "leave" /\ frame'[c].op = op
         /\ frame'[c].store = frame[c].store
  <1>. DEFINE f == [pc |-> "leave", op |-> op]
  <1>1. DOMAIN f = {"pc", "op"} /\ f.pc = "leave" /\ f.op = op
    OBVIOUS
  <1>2. Become(c, f)
    OBVIOUS
  <1>. HIDE DEF f
  <1>3. /\ Alone(c) /\ DOMAIN frame'[c] = {"pc", "op", "store"}
        /\ frame'[c].pc = "leave" /\ frame'[c].op = op /\ frame'[c].store = frame[c].store
    BY <1>1, <1>2, Became, Now
  <1>. QED
    BY <1>3, Now DEF Shape, Pcs

LEMMA IndexingEffect ==
  ASSUME Inv, NEW c \in Calls, frame[c].pc # "idle", NEW op, NEW cat,
         Become(c, [pc |-> "index", op |-> op, cat |-> cat])
  PROVE  /\ Alone(c) /\ Shape(frame'[c]) /\ frame'[c].pc = "index" /\ frame'[c].op = op
         /\ "cat" \in DOMAIN frame'[c] /\ frame'[c].cat = cat
         /\ frame'[c].store = frame[c].store
  <1>. DEFINE f == [pc |-> "index", op |-> op, cat |-> cat]
  <1>1. DOMAIN f = {"pc", "op", "cat"} /\ f.pc = "index" /\ f.op = op /\ f.cat = cat
    OBVIOUS
  <1>2. Become(c, f)
    OBVIOUS
  <1>. HIDE DEF f
  <1>3. /\ Alone(c) /\ DOMAIN frame'[c] = {"pc", "op", "cat", "store"}
        /\ frame'[c].pc = "index" /\ frame'[c].op = op /\ frame'[c].cat = cat
        /\ frame'[c].store = frame[c].store
    BY <1>1, <1>2, Became, Now
  <1>. QED
    BY <1>3, Now DEF Shape, Pcs

\* Going on with what the call has.
LEMMA WentOn ==
  ASSUME Inv, NEW c \in Calls, frame[c].pc # "idle", NEW pc \in Pcs \ {"idle"}, Goto(c, pc)
  PROVE  /\ Alone(c) /\ Shape(frame'[c]) /\ frame'[c].pc = pc
         /\ DOMAIN frame'[c] = DOMAIN frame[c]
         /\ \A x \in DOMAIN frame[c] \ {"pc"} : frame'[c][x] = frame[c][x]
         /\ frame'[c].store = frame[c].store
  <1>1. /\ Alone(c) /\ DOMAIN frame'[c] = DOMAIN frame[c] /\ frame'[c].pc = pc
        /\ \A x \in DOMAIN frame[c] \ {"pc"} : frame'[c][x] = frame[c][x]
    BY Now, Went
  <1>. QED
    BY <1>1, Now DEF Shape

LEMMA ReadEffect ==
  ASSUME Inv, NEW c \in Calls, Read(c)
  PROVE  /\ Alone(c) /\ Shape(frame'[c]) /\ frame[c].pc = "read" /\ frame'[c].pc = "body"
         /\ "cat" \in DOMAIN frame'[c] /\ frame'[c].cat = catalog
         /\ DOMAIN frame'[c] = DOMAIN frame[c] \cup {"cat"}
         /\ \A x \in DOMAIN frame[c] \ {"pc", "cat"} : frame'[c][x] = frame[c][x]
         /\ frame'[c].store = frame[c].store
  <1>. DEFINE g == [pc |-> "body", cat |-> catalog]
              f == Catalog!Over(g, frame[c])
  <1>1. DOMAIN g = {"pc", "cat"} /\ g.pc = "body" /\ g.cat = catalog
    OBVIOUS
  <1>2. Become(c, f) /\ frame[c].pc = "read"
    BY DEF Read, At
  <1>. HIDE DEF g
  <1>3. /\ DOMAIN f = DOMAIN frame[c] \cup {"pc", "cat"} /\ f.pc = "body" /\ f.cat = catalog
        /\ \A x \in DOMAIN frame[c] \ {"pc", "cat"} : f[x] = frame[c][x]
    BY <1>1 DEF Catalog!Over
  <1>. HIDE DEF f
  <1>4. "store" \in DOMAIN frame[c] /\ "pc" \in DOMAIN frame[c] /\ "op" \in DOMAIN frame[c]
    BY <1>2, Now DEF Shape
  <1>5. /\ Alone(c) /\ DOMAIN frame'[c] = DOMAIN f \cup {"store"}
        /\ \A x \in DOMAIN f : frame'[c][x] = f[x]
    BY <1>2, Now, Became
  <1>6. /\ frame'[c].pc = "body" /\ frame'[c].cat = catalog
        /\ DOMAIN frame'[c] = DOMAIN frame[c] \cup {"cat"}
        /\ \A x \in DOMAIN frame[c] \ {"pc", "cat"} : frame'[c][x] = frame[c][x]
    BY <1>3, <1>4, <1>5
  <1>. QED
    BY <1>2, <1>4, <1>5, <1>6, Now DEF Shape, Pcs

LEMMA MoveEffect ==
  ASSUME Inv, NEW c \in Calls, frame[c].pc # "idle", "stage" \in DOMAIN frame[c], NEW b,
         Become(c, [frame[c] EXCEPT !.stage = @ \ {b}])
  PROVE  /\ Alone(c) /\ Shape(frame'[c]) /\ DOMAIN frame'[c] = DOMAIN frame[c]
         /\ frame'[c].stage = frame[c].stage \ {b}
         /\ \A x \in DOMAIN frame[c] \ {"stage"} : frame'[c][x] = frame[c][x]
         /\ frame'[c].pc = frame[c].pc /\ frame'[c].store = frame[c].store
  <1>. DEFINE f == [frame[c] EXCEPT !.stage = @ \ {b}]
  <1>1. DOMAIN f = DOMAIN frame[c] /\ f.stage = frame[c].stage \ {b}
        /\ \A x \in DOMAIN f \ {"stage"} : f[x] = frame[c][x]
    OBVIOUS
  <1>2. Become(c, f)
    OBVIOUS
  <1>. HIDE DEF f
  <1>3. {"store", "pc", "op"} \subseteq DOMAIN frame[c]
    BY Now DEF Shape
  <1>4. /\ Alone(c) /\ DOMAIN frame'[c] = DOMAIN f \cup {"store"}
        /\ \A x \in DOMAIN f : frame'[c][x] = f[x]
    BY <1>2, Now, Became
  <1>5. /\ DOMAIN frame'[c] = DOMAIN frame[c] /\ frame'[c].stage = frame[c].stage \ {b}
        /\ \A x \in DOMAIN frame[c] \ {"stage"} : frame'[c][x] = frame[c][x]
    BY <1>1, <1>3, <1>4
  <1>. QED
    BY <1>3, <1>4, <1>5, Now DEF Shape

LEMMA ShareEffect ==
  ASSUME Inv, NEW c \in Calls, frame[c].pc = "index", NEW s,
         Become(c, [frame[c] EXCEPT !.pc = "commit", !.cat = s])
  PROVE  /\ Alone(c) /\ Shape(frame'[c]) /\ frame'[c].pc = "commit"
         /\ "cat" \in DOMAIN frame'[c] /\ frame'[c].cat = s
         /\ frame'[c].op = frame[c].op /\ frame'[c].store = frame[c].store
  <1>. DEFINE f == [frame[c] EXCEPT !.pc = "commit", !.cat = s]
  <1>1. {"store", "pc", "op", "cat"} \subseteq DOMAIN frame[c]
    BY Now DEF Shape, Current, After
  <1>2. DOMAIN f = DOMAIN frame[c] /\ f.pc = "commit" /\ f.cat = s
        /\ \A x \in DOMAIN f \ {"pc", "cat"} : f[x] = frame[c][x]
    BY <1>1
  <1>3. Become(c, f)
    OBVIOUS
  <1>. HIDE DEF f
  <1>4. /\ Alone(c) /\ DOMAIN frame'[c] = DOMAIN f \cup {"store"}
        /\ \A x \in DOMAIN f : frame'[c][x] = f[x]
    BY <1>3, Now, Became
  <1>5. /\ DOMAIN frame'[c] = DOMAIN frame[c] /\ frame'[c].pc = "commit" /\ frame'[c].cat = s
        /\ frame'[c].op = frame[c].op /\ frame'[c].store = frame[c].store
    BY <1>1, <1>2, <1>4
  <1>. QED
    BY <1>1, <1>4, <1>5, Now DEF Shape, Pcs

-----------------------------------------------------------------------------
(* The locks.                                                              *)

Step(c) == Request(c) \/ Work(c) \/ Abandon(c) \/ GiveUpLock(c)

Outside == {"idle", "stage", "enter"}
InsidePcs == {"read", "body", "index", "commit", "leave"}

\* What a step does to the locks, by where it is in the call.
Locking(c) ==
  \/ /\ {frame[c].pc, frame'[c].pc} \subseteq Outside
     /\ mu' = mu /\ flock' = flock
  \/ /\ frame[c].pc = "enter" /\ frame'[c].pc = "lock" /\ frame'[c].store = frame[c].store
     /\ mu[frame[c].store] = None /\ mu' = [mu EXCEPT ![frame[c].store] = c] /\ flock' = flock
  \/ /\ frame[c].pc = "lock" /\ frame'[c].pc = "read" /\ frame'[c].store = frame[c].store
     /\ mu' = mu /\ flock \in {None, frame[c].store} /\ flock' = frame[c].store
  \/ /\ frame[c].pc = "lock" /\ frame'[c].pc = "idle"
     /\ mu' = [mu EXCEPT ![frame[c].store] = None] /\ flock' = flock
  \/ /\ {frame[c].pc, frame'[c].pc} \subseteq InsidePcs /\ frame'[c].store = frame[c].store
     /\ mu' = mu /\ flock' = flock
  \/ /\ frame[c].pc = "leave" /\ frame'[c].pc = "idle"
     /\ mu' = [mu EXCEPT ![frame[c].store] = None] /\ flock' = None

LEMMA StepEffect ==
  ASSUME Inv, NEW c \in Calls, Step(c)
  PROVE  Alone(c) /\ Shape(frame'[c]) /\ Locking(c)
  <1>. DEFINE Goal == Alone(c) /\ Shape(frame'[c]) /\ Locking(c)
  <1>. USE DEF At, StoreOf, files, Outside, InsidePcs
  <1>1. CASE Request(c)
    <2>1. /\ Alone(c) /\ frame[c].pc = "idle" /\ Shape(frame'[c])
          /\ frame'[c].pc \in {"stage", "enter"} /\ UNCHANGED <<files, opened, mu, flock>>
      BY <1>1, RequestEffect
    <2>. QED
      BY <2>1 DEF Locking
  <1>2. CASE Pull(c)
    <2>1. PICK r \in Roots, p \in Platforms : \E m \in Variants[r][p] :
            Become(c, [pc |-> "enter", op |-> "publish", stage |-> Downloaded(r, m),
                       new |-> [t \in {frame[c].ref} |-> Catalog!Entry(r, p, m)]])
      BY <1>2 DEF Pull
    <2>2. frame[c].pc = "stage" /\ UNCHANGED <<mu, flock>>
      BY <1>2 DEF Pull
    <2>3. Alone(c) /\ Shape(frame'[c]) /\ frame'[c].pc = "enter"
      BY <2>1, <2>2, StagedEffect
    <2>. QED
      BY <2>2, <2>3 DEF Locking
  <1>3. CASE Import(c)
    <2>1. PICK T \in (SUBSET Tags) \ {{}}, p \in Platforms : \E new \in [T -> Catalog!EntriesFor(p)] :
            Become(c, [pc |-> "enter", op |-> "publish", new |-> new,
                       stage |-> UNION {Graph(new[t].root) : t \in T}])
      BY <1>3 DEF Import
    <2>2. PICK new \in [T -> Catalog!EntriesFor(p)] :
            Become(c, [pc |-> "enter", op |-> "publish", new |-> new,
                       stage |-> UNION {Graph(new[t].root) : t \in T}])
      BY <2>1
    <2>3. frame[c].pc = "stage" /\ UNCHANGED <<mu, flock>>
      BY <1>3 DEF Import
    <2>4. Become(c, [pc |-> "enter", op |-> "publish",
                     stage |-> UNION {Graph(new[t].root) : t \in T}, new |-> new])
      BY <2>2
    <2>5. Alone(c) /\ Shape(frame'[c]) /\ frame'[c].pc = "enter"
      BY <2>3, <2>4, StagedEffect
    <2>. QED
      BY <2>3, <2>5 DEF Locking
  <1>4. CASE Abandon(c)
    <2>1. Alone(c) /\ frame'[c] = Idle /\ frame[c].pc \in {"stage", "enter"} /\ UNCHANGED <<mu, flock>>
      BY <1>4, Returned, Now DEF Abandon
    <2>. QED
      BY <2>1, IdleShape DEF Locking
  <1>5. CASE TakeMutex(c)
    <2>1. /\ frame[c].pc = "enter" /\ Goto(c, "lock") /\ mu[frame[c].store] = None
          /\ mu' = [mu EXCEPT ![frame[c].store] = c] /\ flock' = flock
      BY <1>5 DEF TakeMutex
    <2>2. Alone(c) /\ Shape(frame'[c]) /\ frame'[c].pc = "lock" /\ frame'[c].store = frame[c].store
      BY <2>1, WentOn DEF Pcs
    <2>. QED
      BY <2>1, <2>2 DEF Locking
  <1>6. CASE TakeLock(c)
    <2>1. /\ frame[c].pc = "lock" /\ Goto(c, "read") /\ flock \in {None, frame[c].store}
          /\ mu' = mu /\ flock' = frame[c].store
      BY <1>6 DEF TakeLock
    <2>2. Alone(c) /\ Shape(frame'[c]) /\ frame'[c].pc = "read" /\ frame'[c].store = frame[c].store
      BY <2>1, WentOn DEF Pcs
    <2>. QED
      BY <2>1, <2>2 DEF Locking
  <1>7. CASE GiveUpLock(c)
    <2>1. /\ Alone(c) /\ frame'[c] = Idle /\ frame[c].pc = "lock"
          /\ mu' = [mu EXCEPT ![frame[c].store] = None] /\ flock' = flock
      BY <1>7, Returned, Now DEF GiveUpLock
    <2>. QED
      BY <2>1, IdleShape DEF Locking
  <1>8. CASE Read(c)
    <2>1. /\ Alone(c) /\ Shape(frame'[c]) /\ frame[c].pc = "read" /\ frame'[c].pc = "body"
          /\ frame'[c].store = frame[c].store
      BY <1>8, ReadEffect
    <2>2. UNCHANGED <<mu, flock>>
      BY <1>8 DEF Read
    <2>. QED
      BY <2>1, <2>2 DEF Locking
  <1>9. CASE OpenBody(c) \/ ReadBody(c) \/ Commit(c) \/ Fail(c)
    <2>1. PICK op : Become(c, [pc |-> "leave", op |-> op])
      BY <1>9 DEF OpenBody, ReadBody, Commit, Fail, Leaving
    <2>2. frame[c].pc \in InsidePcs /\ UNCHANGED <<mu, flock>>
      BY <1>9 DEF OpenBody, ReadBody, Commit, Fail
    <2>3. Alone(c) /\ Shape(frame'[c]) /\ frame'[c].pc = "leave" /\ frame'[c].store = frame[c].store
      BY <2>1, <2>2, LeavingEffect
    <2>. QED
      BY <2>2, <2>3 DEF Locking
  <1>10. CASE MoveBlob(c)
    <2>1. PICK b : Become(c, [frame[c] EXCEPT !.stage = @ \ {b}])
      BY <1>10 DEF MoveBlob
    <2>2. frame[c].pc = "body" /\ "stage" \in DOMAIN frame[c] /\ UNCHANGED <<mu, flock>>
      BY <1>10, Now DEF MoveBlob, Planned, Before
    <2>3. Alone(c) /\ Shape(frame'[c]) /\ frame'[c].pc = "body" /\ frame'[c].store = frame[c].store
      BY <2>1, <2>2, MoveEffect
    <2>. QED
      BY <2>2, <2>3 DEF Locking
  <1>11. CASE Merge(c) \/ RemoveBody(c)
    <2>1. \E op, cat : Become(c, [pc |-> "index", op |-> op, cat |-> cat])
      BY <1>11 DEF Merge, RemoveBody
    <2>2. frame[c].pc = "body" /\ UNCHANGED <<mu, flock>>
      BY <1>11 DEF Merge, RemoveBody
    <2>3. Alone(c) /\ Shape(frame'[c]) /\ frame'[c].pc = "index" /\ frame'[c].store = frame[c].store
      BY <2>1, <2>2, IndexingEffect
    <2>. QED
      BY <2>2, <2>3 DEF Locking
  <1>12. CASE WriteIndex(c)
    <2>1. PICK s : Become(c, [frame[c] EXCEPT !.pc = "commit", !.cat = s])
      BY <1>12 DEF WriteIndex
    <2>2. frame[c].pc = "index" /\ UNCHANGED <<mu, flock>>
      BY <1>12 DEF WriteIndex
    <2>3. Alone(c) /\ Shape(frame'[c]) /\ frame'[c].pc = "commit" /\ frame'[c].store = frame[c].store
      BY <2>1, <2>2, ShareEffect
    <2>. QED
      BY <2>2, <2>3 DEF Locking
  <1>13. CASE Leave(c)
    <2>1. /\ Alone(c) /\ frame'[c] = Idle /\ frame[c].pc = "leave"
          /\ mu' = [mu EXCEPT ![frame[c].store] = None] /\ flock' = None
      BY <1>13, Returned, Now DEF Leave
    <2>. QED
      BY <2>1, IdleShape DEF Locking
  <1>. HIDE DEF At, StoreOf, files, Outside, InsidePcs
  <1>. QED
    BY <1>1, <1>2, <1>3, <1>4, <1>5, <1>6, <1>7, <1>8, <1>9, <1>10, <1>11, <1>12, <1>13
    DEF Step, Work

\* The calls of a process that dies are gone; the others do not notice.
LEMMA CrashEffect ==
  ASSUME Inv, NEW s \in Stores, Crash(s)
  PROVE  /\ DOMAIN frame' = Calls
         /\ \A c \in Calls :
              \/ frame'[c] = Idle /\ (frame[c] = Idle \/ frame[c].store = s)
              \/ frame'[c] = frame[c] /\ frame[c] # Idle /\ frame[c].store # s
         /\ mu' = [mu EXCEPT ![s] = None]
         /\ flock' = IF flock = s THEN None ELSE flock
         /\ opened' \subseteq opened /\ UNCHANGED files
  BY DEF Crash, StoreOf

LEMMA LocksStep ==
  ASSUME Inv, Next
  PROVE  Locks'
  <1>. USE DEF Inside, At, StoreOf, Outside, InsidePcs
  <1>1. /\ mu \in [Stores -> Calls \cup {None}] /\ flock \in Stores \cup {None}
        /\ \A c \in Calls : Shape(frame[c])
        /\ None \notin Calls /\ None \notin Stores
    BY ImageStoreAssumption DEF Inv, Kinds
  <1>2. ASSUME NEW c \in Calls, Step(c)
        PROVE  Locks'
    <2>1. Alone(c) /\ Shape(frame'[c]) /\ Locking(c)
      BY <1>2, StepEffect
    <2>2. frame[c].pc # "idle" => frame[c].store \in Stores
      BY <1>1 DEF Shape
    <2>3. ASSUME NEW s \in Stores, NEW d \in Calls
          PROVE  (mu'[s] = d) <=> (Inside(d) \/ At(d, "lock"))' /\ StoreOf(d)' = s
      BY <1>1, <2>1, <2>2 DEF Inv, Locks, Locking, Alone, Shape, Pcs
    <2>4. ASSUME NEW d \in Calls, Inside(d)'
          PROVE  flock' = StoreOf(d)'
      BY <1>1, <2>1, <2>2, <2>4 DEF Inv, Locks, Locking, Alone, Shape, Pcs
    <2>5. flock' # None => \E d \in Calls : Inside(d)' /\ StoreOf(d)' = flock'
      BY <1>1, <2>1, <2>2 DEF Inv, Locks, Locking, Alone, Shape, Pcs
    <2>. QED
      BY <2>3, <2>4, <2>5 DEF Locks
  <1>3. ASSUME NEW s \in Stores, Crash(s)
        PROVE  Locks'
    BY <1>1, <1>3, CrashEffect, IdleShape DEF Inv, Locks
  <1>. QED
    BY <1>2, <1>3 DEF Next, Step

LEMMA KindsStep ==
  ASSUME Inv, Next
  PROVE  Kinds'
  <1>1. ASSUME NEW c \in Calls, Step(c)
        PROVE  Kinds'
    <2>1. DOMAIN frame' = Calls /\ \A d \in Calls : Shape(frame'[d])
      BY <1>1, StepEffect DEF Alone, Inv, Kinds
    <2>2. mu' \in [Stores -> Calls \cup {None}] /\ flock' \in Stores \cup {None}
      BY <1>1, StepEffect, Now DEF Locking, Inv, Kinds, StoreOf, Outside, InsidePcs
    <2>3. blobs' \subseteq Digests
      <3>1. CASE MoveBlob(c)
        BY <3>1, Now DEF MoveBlob, Planned, Before, At, Inv, Kinds
      <3>2. CASE ~MoveBlob(c)
        BY <1>1, <3>2 DEF Step, Request, Work, Ask, Pull, Import, Abandon, TakeMutex, TakeLock,
          GiveUpLock, Read, OpenBody, ReadBody, Merge, RemoveBody, WriteIndex, Commit, Fail, Leave,
          files, Inv, Kinds
      <3>. QED
        BY <3>1, <3>2
    <2>4. layout' \in BOOLEAN
      BY <1>1 DEF Step, Request, Work, Ask, Pull, Import, Abandon, TakeMutex, TakeLock,
        GiveUpLock, Read, OpenBody, ReadBody, MoveBlob, Merge, RemoveBody, WriteIndex, Commit, Fail,
        Leave, files, Inv, Kinds
    <2>5. opened' \subseteq Stores
      <3>1. CASE Leave(c)
        BY <3>1, Now DEF Leave, At, Inv, Kinds
      <3>2. CASE ~Leave(c)
        BY <1>1, <3>2 DEF Step, Request, Work, Ask, Pull, Import, Abandon, TakeMutex, TakeLock,
          GiveUpLock, Read, OpenBody, ReadBody, MoveBlob, Merge, RemoveBody, WriteIndex, Commit, Fail,
          files, Inv, Kinds
      <3>. QED
        BY <3>1, <3>2
    <2>. QED
      BY <2>1, <2>2, <2>3, <2>4, <2>5 DEF Kinds
  <1>2. ASSUME NEW s \in Stores, Crash(s)
        PROVE  Kinds'
    BY <1>2, CrashEffect, IdleShape DEF Inv, Kinds, files
  <1>. QED
    BY <1>1, <1>2 DEF Next, Step

-----------------------------------------------------------------------------
(* The files.                                                              *)

\* Who is inside is alone there.
LEMMA AloneInside ==
  ASSUME Inv, NEW c \in Calls, NEW d \in Calls, Inside(c), Inside(d)
  PROVE  c = d
  BY Now DEF Inv, Locks, Inside

\* Blobs stay; only the rename replaces the catalog.
LEMMA FilesEffect ==
  ASSUME Inv, NEW c \in Calls, Step(c)
  PROVE  /\ blobs \subseteq blobs'
         /\ blobs' = blobs \/ MoveBlob(c)
         /\ catalog' = catalog \/ Commit(c)
         /\ index' = index \/ Read(c) \/ WriteIndex(c)
  BY DEF Step, Request, Work, Ask, Pull, Import, Abandon, TakeMutex, TakeLock, GiveUpLock, Read,
    OpenBody, ReadBody, MoveBlob, Merge, RemoveBody, WriteIndex, Commit, Fail, Leave, files

LEMMA IndexStays ==
  ASSUME NEW B, blobs \subseteq B, IndexThere, blobs' = B, index' = index
  PROVE  IndexThere'
  BY DEF IndexThere, Complete

LEMMA IndexMade ==
  ASSUME NEW c \in Catalogs, AllThere(c, blobs), index' = IndexOf(c), blobs' = blobs
  PROVE  IndexThere'
  BY IndexNames DEF IndexThere, Complete

\* What WriteIndex writes is made of what it had.
LEMMA SharingEffect ==
  ASSUME Inv, NEW c \in Calls, WriteIndex(c)
  PROVE  \E s \in Shared(frame[c].cat) :
           /\ index' = IndexOf(s) /\ blobs' = blobs /\ catalog' = catalog
           /\ Alone(c) /\ frame'[c].pc = "commit" /\ "cat" \in DOMAIN frame'[c]
           /\ frame'[c].cat = s /\ frame'[c].op = frame[c].op
           /\ s \in Catalogs /\ Settled(s) /\ AllThere(s, blobs)
           /\ Catalog!IsShared(frame[c].cat, s)
           /\ frame[c].op = "remove" => s = frame[c].cat
  <1>1. frame[c].pc = "index"
    BY DEF WriteIndex, At
  <1>2. PICK s \in Shared(frame[c].cat) :
          /\ index' = IndexOf(s) /\ Become(c, [frame[c] EXCEPT !.pc = "commit", !.cat = s])
    BY DEF WriteIndex
  <1>3. /\ frame[c].cat \in Catalogs /\ AllThere(frame[c].cat, blobs)
        /\ frame[c].op = "remove" => Shrunk(catalog, frame[c].cat)
    BY <1>1, Now DEF Current, After
  <1>4. s \in Catalogs /\ Catalog!IsShared(frame[c].cat, s)
    BY <1>3, SharedIsShared
  <1>5. Settled(s) /\ AllThere(s, blobs) /\ (Settled(frame[c].cat) => s = frame[c].cat)
    BY <1>3, <1>4, SharedKeeps
  <1>6. frame[c].op = "remove" => Settled(frame[c].cat)
    BY <1>3, ShrunkKeeps DEF Inv, Disk
  <1>7. blobs' = blobs /\ catalog' = catalog
    BY DEF WriteIndex
  <1>. QED
    BY <1>1, <1>2, <1>4, <1>5, <1>6, <1>7, ShareEffect

LEMMA DiskStep ==
  ASSUME Inv, Next
  PROVE  Disk'
  <1>1. ASSUME NEW c \in Calls, Step(c)
        PROVE  Disk'
    <2>1. catalog' \in Catalogs /\ Settled(catalog') /\ AllThere(catalog', blobs)
      <3>1. CASE Commit(c)
        BY <3>1, Now DEF Commit, At, Current, After
      <3>2. CASE catalog' = catalog
        BY <3>2 DEF Inv, Disk
      <3>. QED
        BY <1>1, <3>1, <3>2, FilesEffect
    <2>2. AllThere(catalog', blobs')
      BY <1>1, <2>1, FilesEffect, MoreIsThere
    <2>3. IndexThere'
      <3>1. CASE Read(c)
        <4>1. index' = IndexOf(catalog) /\ blobs' = blobs
          BY <3>1 DEF Read
        <4>. QED
          BY <4>1, IndexMade DEF Inv, Disk
      <3>2. CASE WriteIndex(c)
        BY <3>2, SharingEffect, IndexMade
      <3>3. CASE index' = index
        BY <1>1, <3>3, FilesEffect, IndexStays DEF Inv, Disk
      <3>. QED
        BY <1>1, <3>1, <3>2, <3>3, FilesEffect
    <2>. QED
      BY <2>1, <2>2, <2>3 DEF Disk, AllThere, Settled
  <1>2. ASSUME NEW s \in Stores, Crash(s)
        PROVE  Disk'
    BY <1>2, CrashEffect, IndexStays DEF Inv, Disk, files, AllThere, Settled
  <1>. QED
    BY <1>1, <1>2 DEF Next, Step

-----------------------------------------------------------------------------
(* What the calls carry.                                                   *)

LEMMA MakePublication ==
  ASSUME NEW T \in (SUBSET Tags) \ {{}}, NEW p \in Platforms, NEW new \in [T -> Catalog!EntriesFor(p)]
  PROVE  new \in Catalog!Publications
  <1>. DEFINE Some == {[S -> Catalog!EntriesFor(x)] : S \in (SUBSET Tags) \ {{}}, x \in Platforms}
  <1>1. [T -> Catalog!EntriesFor(p)] \in Some
    OBVIOUS
  <1>2. Catalog!Publications = UNION Some
    BY DEF Catalog!Publications
  <1>. HIDE DEF Some
  <1>. QED
    BY <1>1, <1>2

LEMMA OnePulled ==
  ASSUME NEW ref \in Tags, NEW r \in Roots, NEW p \in Platforms, NEW m \in Variants[r][p]
  PROVE  LET new == [t \in {ref} |-> Catalog!Entry(r, p, m)]
         IN /\ new \in Catalog!Publications /\ Downloaded(r, m) \subseteq Digests
            /\ AllThere(new, Downloaded(r, m))
  <1>. DEFINE new == [t \in {ref} |-> Catalog!Entry(r, p, m)]
  <1>1. Catalog!Entry(r, p, m) \in Catalog!EntriesFor(p)
    BY DEF Catalog!EntriesFor
  <1>2. {ref} \in (SUBSET Tags) \ {{}}
    <2>. DEFINE S == {ref}
    <2>1. S \subseteq Tags /\ S # {}
      OBVIOUS
    <2>. HIDE DEF S
    <2>2. S \in (SUBSET Tags) \ {{}}
      BY <2>1
    <2>. QED
      BY <2>2 DEF S
  <1>3. new \in Catalog!Publications
    <2>. DEFINE E == Catalog!Entry(r, p, m)
    <2>1. E \in Catalog!EntriesFor(p)
      BY <1>1
    <2>. HIDE DEF E
    <2>2. [t \in {ref} |-> E] \in [{ref} -> Catalog!EntriesFor(p)]
      BY <2>1
    <2>. QED
      BY <1>2, <2>2, MakePublication DEF E
  <1>4. m \in Digests /\ r \in Digests
    BY ImageStoreAssumption
  <1>5. Downloaded(r, m) \subseteq Digests /\ r \in Downloaded(r, m) /\ Graph(m) \subseteq Downloaded(r, m)
    BY <1>4, GraphShape DEF Downloaded
  <1>6. AllThere(new, Downloaded(r, m))
    BY <1>5, SelectedEntry DEF AllThere
  <1>. QED
    BY <1>3, <1>5, <1>6

LEMMA AllImported ==
  ASSUME NEW T \in (SUBSET Tags) \ {{}}, NEW p \in Platforms, NEW new \in [T -> Catalog!EntriesFor(p)]
  PROVE  LET stage == UNION {Graph(new[t].root) : t \in T}
         IN new \in Catalog!Publications /\ stage \subseteq Digests /\ AllThere(new, stage)
  <1>. DEFINE stage == UNION {Graph(new[t].root) : t \in T}
  <1>1. new \in Catalog!Publications
    BY MakePublication
  <1>2. ASSUME NEW t \in T
        PROVE  /\ new[t].root \in Digests /\ Graph(new[t].root) \subseteq stage
               /\ \A x \in DOMAIN new[t].prepared : Graph(new[t].prepared[x]) \subseteq Graph(new[t].root)
    <2>1. new[t] \in Catalog!EntriesFor(p)
      OBVIOUS
    <2>2. PICK r \in Roots : \E m \in Variants[r][p] : new[t] = Catalog!Entry(r, p, m)
      BY <2>1 DEF Catalog!EntriesFor
    <2>3. PICK m \in Variants[r][p] : new[t] = Catalog!Entry(r, p, m)
      BY <2>2
    <2>4. new[t].root = r /\ DOMAIN new[t].prepared = {p} /\ new[t].prepared[p] = m
      BY <2>3, SelectedEntry
    <2>5. Graph(m) \subseteq Graph(r)
      BY SelectionAssumption
    <2>6. Graph(new[t].root) \subseteq stage
      OBVIOUS
    <2>. QED
      BY <2>4, <2>5, <2>6, ImageStoreAssumption
  <1>3. stage \subseteq Digests
    BY <1>2, GraphShape
  <1>4. AllThere(new, stage)
    BY <1>2, GraphShape DEF AllThere
  <1>. QED
    BY <1>1, <1>3, <1>4

LEMMA PlansStep ==
  ASSUME Inv, Next
  PROVE  Plans'
  <1>. USE DEF At
  <1>1. ASSUME NEW c \in Calls, Step(c)
        PROVE  Plans'
    <2>1. ASSUME NEW d \in Calls \ {c}
          PROVE  Planned(frame[d])'
      <3>1. frame'[d] = frame[d] /\ blobs \subseteq blobs' /\ Planned(frame[d])
        BY <1>1, StepEffect, FilesEffect, Now DEF Alone
      <3>2. frame[d].stage \cup blobs \subseteq frame[d].stage \cup blobs'
        BY <3>1
      <3>. QED
        BY <3>1, <3>2 DEF Planned, AllThere
    <2>2. Planned(frame[c])'
      <3>1. CASE Request(c)
        <4>1. /\ frame'[c].pc \in {"stage", "enter"} /\ Asked(frame'[c])
              /\ frame'[c].op = "remove" => "ref" \in DOMAIN frame'[c] /\ frame'[c].ref \in Tags \cup Roots
          BY <3>1, RequestEffect
        <4>. QED
          BY <4>1 DEF Planned, Before, Asked
      <3>2. CASE Pull(c)
        <4>1. PICK r \in Roots, p \in Platforms : \E m \in Variants[r][p] :
                Become(c, [pc |-> "enter", op |-> "publish", stage |-> Downloaded(r, m),
                           new |-> [t \in {frame[c].ref} |-> Catalog!Entry(r, p, m)]])
          BY <3>2 DEF Pull
        <4>2. PICK m \in Variants[r][p] :
                Become(c, [pc |-> "enter", op |-> "publish", stage |-> Downloaded(r, m),
                           new |-> [t \in {frame[c].ref} |-> Catalog!Entry(r, p, m)]])
          BY <4>1
        <4>. DEFINE new == [t \in {frame[c].ref} |-> Catalog!Entry(r, p, m)]
                    stage == Downloaded(r, m)
        <4>3. frame[c].ref \in Tags /\ frame[c].pc = "stage"
          BY <3>2 DEF Pull
        <4>4. new \in Catalog!Publications /\ stage \subseteq Digests /\ AllThere(new, stage)
          BY <4>3, OnePulled
        <4>5. Become(c, [pc |-> "enter", op |-> "publish", stage |-> stage, new |-> new])
          BY <4>2
        <4>. HIDE DEF new, stage
        <4>6. /\ {"new", "stage"} \subseteq DOMAIN frame'[c] /\ frame'[c].op = "publish"
              /\ frame'[c].new = new /\ frame'[c].stage = stage
          BY <4>3, <4>5, StagedEffect
        <4>7. AllThere(new, blobs' \cup stage)
          BY <4>4, MoreIsThere
        <4>. QED
          BY <4>4, <4>6, <4>7 DEF Planned, AllThere
      <3>3. CASE Import(c)
        <4>1. PICK T \in (SUBSET Tags) \ {{}}, p \in Platforms : \E new \in [T -> Catalog!EntriesFor(p)] :
                Become(c, [pc |-> "enter", op |-> "publish", new |-> new,
                           stage |-> UNION {Graph(new[t].root) : t \in T}])
          BY <3>3 DEF Import
        <4>2. PICK new \in [T -> Catalog!EntriesFor(p)] :
                Become(c, [pc |-> "enter", op |-> "publish", new |-> new,
                           stage |-> UNION {Graph(new[t].root) : t \in T}])
          BY <4>1
        <4>. DEFINE stage == UNION {Graph(new[t].root) : t \in T}
        <4>3. frame[c].pc = "stage"
          BY <3>3 DEF Import
        <4>4. new \in Catalog!Publications /\ stage \subseteq Digests /\ AllThere(new, stage)
          BY AllImported
        <4>5. Become(c, [pc |-> "enter", op |-> "publish", stage |-> stage, new |-> new])
          BY <4>2
        <4>. HIDE DEF stage
        <4>6. /\ {"new", "stage"} \subseteq DOMAIN frame'[c] /\ frame'[c].op = "publish"
              /\ frame'[c].new = new /\ frame'[c].stage = stage
          BY <4>3, <4>5, StagedEffect
        <4>7. AllThere(new, blobs' \cup stage)
          BY <4>4, MoreIsThere
        <4>. QED
          BY <4>4, <4>6, <4>7 DEF Planned, AllThere
      <3>4. CASE TakeMutex(c) \/ TakeLock(c)
        <4>1. \E pc \in Pcs \ {"idle"} : Goto(c, pc)
          BY <3>4 DEF TakeMutex, TakeLock, Pcs
        <4>2. frame[c].pc \in {"enter", "lock"} /\ blobs' = blobs
          BY <3>4 DEF TakeMutex, TakeLock, files
        <4>3. /\ DOMAIN frame'[c] = DOMAIN frame[c]
              /\ \A x \in DOMAIN frame[c] \ {"pc"} : frame'[c][x] = frame[c][x]
          BY <4>1, <4>2, WentOn
        <4>4. "op" \in DOMAIN frame[c] /\ Planned(frame[c])
          BY <4>2, Now DEF Shape
        <4>. QED
          BY <4>2, <4>3, <4>4 DEF Planned, Before, AllThere
      <3>5. CASE Read(c)
        <4>1. /\ DOMAIN frame'[c] = DOMAIN frame[c] \cup {"cat"} /\ frame[c].pc = "read"
              /\ \A x \in DOMAIN frame[c] \ {"pc", "cat"} : frame'[c][x] = frame[c][x]
          BY <3>5, ReadEffect
        <4>2. "op" \in DOMAIN frame[c] /\ Planned(frame[c]) /\ blobs' = blobs
          BY <3>5, <4>1, Now DEF Shape, Read
        <4>. QED
          BY <4>1, <4>2 DEF Planned, Before, AllThere
      <3>6. CASE MoveBlob(c)
        <4>1. frame[c].pc = "body" /\ frame[c].op = "publish" /\ "stage" \in DOMAIN frame[c]
              /\ "op" \in DOMAIN frame[c] /\ Planned(frame[c])
          BY <3>6, Now DEF MoveBlob, Planned, Before, Shape
        <4>2. PICK b \in frame[c].stage :
                blobs' = blobs \cup {b} /\ Become(c, [frame[c] EXCEPT !.stage = @ \ {b}])
          BY <3>6 DEF MoveBlob
        <4>3. /\ DOMAIN frame'[c] = DOMAIN frame[c] /\ frame'[c].stage = frame[c].stage \ {b}
              /\ \A x \in DOMAIN frame[c] \ {"stage"} : frame'[c][x] = frame[c][x]
          BY <4>1, <4>2, MoveEffect
        <4>4. {"new", "stage"} \subseteq DOMAIN frame[c] /\ frame[c].new \in Catalog!Publications
              /\ frame[c].stage \subseteq Digests /\ AllThere(frame[c].new, blobs \cup frame[c].stage)
          BY <4>1 DEF Planned, Before
        <4>5. blobs \cup frame[c].stage \subseteq blobs' \cup frame'[c].stage
          BY <4>2, <4>3
        <4>6. AllThere(frame[c].new, blobs' \cup frame'[c].stage)
          BY <4>4, <4>5, MoreIsThere
        <4>7. frame'[c].op = "publish" /\ frame'[c].new = frame[c].new
          BY <4>1, <4>3, <4>4
        <4>. QED
          BY <4>3, <4>4, <4>6, <4>7 DEF Planned, AllThere
      <3>7. CASE Merge(c) \/ RemoveBody(c)
        <4>1. frame[c].pc = "body" /\ \E op, cat : Become(c, [pc |-> "index", op |-> op, cat |-> cat])
          BY <3>7 DEF Merge, RemoveBody
        <4>. QED
          BY <4>1, IndexingEffect DEF Planned, Before
      <3>8. CASE WriteIndex(c)
        BY <3>8, SharingEffect DEF Planned, Before
      <3>9. CASE OpenBody(c) \/ ReadBody(c) \/ Commit(c) \/ Fail(c)
        <4>1. frame[c].pc # "idle" /\ \E op : Become(c, [pc |-> "leave", op |-> op])
          BY <3>9 DEF OpenBody, ReadBody, Commit, Fail, Leaving
        <4>. QED
          BY <4>1, LeavingEffect DEF Planned, Before
      <3>10. CASE Abandon(c) \/ GiveUpLock(c) \/ Leave(c)
        <4>1. frame'[c] = Idle
          BY <3>10, Returned, Now DEF Abandon, GiveUpLock, Leave
        <4>. QED
          BY <4>1, IdleShape DEF Planned, Before
      <3>. QED
        BY <1>1, <3>1, <3>2, <3>3, <3>4, <3>5, <3>6, <3>7, <3>8, <3>9, <3>10 DEF Step, Work
    <2>. QED
      BY <2>1, <2>2 DEF Plans
  <1>2. ASSUME NEW s \in Stores, Crash(s)
        PROVE  Plans'
    <2>1. blobs' = blobs
      BY <1>2, CrashEffect DEF files
    <2>2. ASSUME NEW c \in Calls
          PROVE  Planned(frame[c])'
      <3>1. frame'[c] = Idle \/ frame'[c] = frame[c]
        BY <1>2, CrashEffect
      <3>. QED
        BY <2>1, <3>1, Now, IdleShape DEF Planned, Before, AllThere
    <2>. QED
      BY <2>2 DEF Plans
  <1>. QED
    BY <1>1, <1>2 DEF Next, Step

\* The catalog is what it was, and so is a call that did not move.
LEMMA CurrentKept ==
  ASSUME Inv, NEW d \in Calls, frame'[d] = frame[d], blobs \subseteq blobs',
         catalog' = catalog \/ ~Inside(d)
  PROVE  Current(frame[d])'
  <1>1. Current(frame[d])
    BY Now
  <1>2. CASE ~Inside(d)
    BY <1>2 DEF Current, After, Inside
  <1>3. CASE catalog' = catalog
    <2>1. AllThere(frame[d].cat, blobs) => AllThere(frame[d].cat, blobs')
      BY MoreIsThere
    <2>. QED
      BY <1>1, <1>3, <2>1 DEF Current, After
  <1>. QED
    BY <1>2, <1>3

LEMMA CurrentsStep ==
  ASSUME Inv, Next
  PROVE  Currents'
  <1>. USE DEF At
  <1>1. ASSUME NEW c \in Calls, Step(c)
        PROVE  Currents'
    <2>1. ASSUME NEW d \in Calls \ {c}
          PROVE  Current(frame[d])'
      <3>1. frame'[d] = frame[d] /\ blobs \subseteq blobs'
        BY <1>1, StepEffect, FilesEffect DEF Alone
      <3>2. catalog' = catalog \/ Inside(c)
        BY <1>1, FilesEffect DEF Commit, Inside
      <3>. QED
        BY <3>1, <3>2, AloneInside, CurrentKept
    <2>2. Current(frame[c])'
      <3>1. CASE Request(c)
        BY <3>1, RequestEffect DEF Current, After
      <3>2. CASE Pull(c) \/ Import(c)
        <4>1. frame[c].pc = "stage" /\ Locking(c)
          BY <1>1, <3>2, StepEffect DEF Pull, Import
        <4>. QED
          BY <4>1 DEF Current, After, Locking, Outside, InsidePcs
      <3>3. CASE TakeMutex(c) \/ TakeLock(c)
        <4>1. frame[c].pc \in {"enter", "lock"} /\ Locking(c)
          BY <1>1, <3>3, StepEffect DEF TakeMutex, TakeLock
        <4>. QED
          BY <4>1 DEF Current, After, Locking, Outside, InsidePcs
      <3>4. CASE Read(c)
        BY <3>4, ReadEffect DEF Current, After, Read
      <3>5. CASE MoveBlob(c)
        <4>1. PICK b : Become(c, [frame[c] EXCEPT !.stage = @ \ {b}])
          BY <3>5 DEF MoveBlob
        <4>2. frame[c].pc = "body" /\ "stage" \in DOMAIN frame[c] /\ "cat" \in DOMAIN frame[c]
              /\ frame[c].cat = catalog /\ catalog' = catalog
          BY <3>5, Now DEF MoveBlob, Planned, Current, Before
        <4>3. /\ DOMAIN frame'[c] = DOMAIN frame[c] /\ frame'[c].pc = "body"
              /\ frame'[c].cat = frame[c].cat
          BY <4>1, <4>2, MoveEffect
        <4>. QED
          BY <4>2, <4>3 DEF Current, After
      <3>6. CASE Merge(c)
        <4>1. frame[c].pc = "body" /\ frame[c].op = "publish" /\ frame[c].stage = {}
              /\ blobs' = blobs /\ catalog' = catalog
          BY <3>6 DEF Merge, files
        <4>2. /\ frame[c].cat = catalog /\ frame[c].new \in Catalog!Publications
              /\ AllThere(frame[c].new, blobs)
          BY <4>1, Now DEF Planned, Current, Before, AllThere
        <4>. DEFINE M == Catalog!Merged(catalog, frame[c].new)
        <4>3. Become(c, [pc |-> "index", op |-> "publish", cat |-> M])
          BY <3>6, <4>2 DEF Merge
        <4>4. M \in Catalogs /\ AllThere(M, blobs)
          BY <4>2, PublicationShape, MergedEntries, MergedThere DEF Inv, Disk
        <4>5. \E new \in Catalog!Publications : M = Catalog!Merged(catalog', new)
          BY <4>1, <4>2
        <4>. HIDE DEF M
        <4>6. /\ frame'[c].pc = "index" /\ frame'[c].op = "publish" /\ "cat" \in DOMAIN frame'[c]
              /\ frame'[c].cat = M
          BY <4>1, <4>3, IndexingEffect
        <4>. QED
          BY <4>1, <4>4, <4>5, <4>6 DEF Current, After, AllThere
      <3>7. CASE RemoveBody(c)
        <4>1. frame[c].pc = "body" /\ frame[c].op = "remove" /\ blobs' = blobs /\ catalog' = catalog
          BY <3>7 DEF RemoveBody, files
        <4>2. frame[c].cat = catalog /\ frame[c].ref \in Tags \cup Roots
          BY <4>1, Now DEF Planned, Current, Before
        <4>. DEFINE gone == IF frame[c].ref \in DOMAIN catalog THEN {frame[c].ref}
                            ELSE {t \in DOMAIN catalog : catalog[t].root = frame[c].ref}
                    W == Catalog!Without(catalog, gone)
        <4>3. Become(c, [pc |-> "index", op |-> "remove", cat |-> W])
          BY <3>7, <4>2 DEF RemoveBody
        <4>4. Shrunk(catalog, W)
          <5>1. CASE frame[c].ref \in DOMAIN catalog
            BY <5>1 DEF Shrunk
          <5>2. CASE frame[c].ref \in Roots /\ frame[c].ref \notin DOMAIN catalog
            BY <5>2 DEF Shrunk
          <5>3. CASE frame[c].ref \notin Roots /\ frame[c].ref \notin DOMAIN catalog
            <6>1. \A t \in DOMAIN catalog : catalog[t].root \in Roots
              BY CatalogShape, EntryShape DEF Inv, Disk
            <6>2. gone \cap DOMAIN catalog = {}
              BY <5>3, <6>1
            <6>. QED
              BY <6>2, WithoutSome DEF Shrunk, Inv, Disk
          <5>. QED
            BY <5>1, <5>2, <5>3, <4>2
        <4>. HIDE DEF W
        <4>5. W \in Catalogs /\ AllThere(W, blobs)
          BY <4>4, ShrunkKeeps DEF Inv, Disk
        <4>6. /\ frame'[c].pc = "index" /\ frame'[c].op = "remove" /\ "cat" \in DOMAIN frame'[c]
              /\ frame'[c].cat = W
          BY <4>1, <4>3, IndexingEffect
        <4>. QED
          BY <4>1, <4>4, <4>5, <4>6 DEF Current, After, AllThere, Shrunk
      <3>8. CASE WriteIndex(c)
        <4>1. PICK s \in Shared(frame[c].cat) :
                /\ blobs' = blobs /\ catalog' = catalog
                /\ frame'[c].pc = "commit" /\ "cat" \in DOMAIN frame'[c]
                /\ frame'[c].cat = s /\ frame'[c].op = frame[c].op
                /\ s \in Catalogs /\ Settled(s) /\ AllThere(s, blobs)
                /\ Catalog!IsShared(frame[c].cat, s)
                /\ frame[c].op = "remove" => s = frame[c].cat
          BY <3>8, SharingEffect
        <4>2. /\ frame[c].pc = "index" /\ frame[c].op \in {"publish", "remove"}
              /\ frame[c].op = "remove" => Shrunk(catalog, frame[c].cat)
              /\ frame[c].op = "publish" =>
                   \E new \in Catalog!Publications : frame[c].cat = Catalog!Merged(catalog, new)
          BY <3>8, Now DEF WriteIndex, Current, After
        <4>3. frame[c].op = "publish" =>
                \E new \in Catalog!Publications : Catalog!IsShared(Catalog!Merged(catalog', new), s)
          BY <4>1, <4>2
        <4>4. frame[c].op = "remove" => Shrunk(catalog', s)
          BY <4>1, <4>2
        <4>. QED
          BY <4>1, <4>2, <4>3, <4>4 DEF Current, After, AllThere, Settled, Shrunk
      <3>9. CASE OpenBody(c) \/ ReadBody(c) \/ Commit(c) \/ Fail(c)
        <4>1. frame[c].pc # "idle" /\ \E op : Become(c, [pc |-> "leave", op |-> op])
          BY <3>9 DEF OpenBody, ReadBody, Commit, Fail, Leaving
        <4>. QED
          BY <4>1, LeavingEffect DEF Current, After
      <3>10. CASE Abandon(c) \/ GiveUpLock(c) \/ Leave(c)
        <4>1. frame'[c] = Idle
          BY <3>10, Returned, Now DEF Abandon, GiveUpLock, Leave
        <4>. QED
          BY <4>1, IdleShape DEF Current, After
      <3>. QED
        BY <1>1, <3>1, <3>2, <3>3, <3>4, <3>5, <3>6, <3>7, <3>8, <3>9, <3>10 DEF Step, Work
    <2>. QED
      BY <2>1, <2>2 DEF Currents
  <1>2. ASSUME NEW s \in Stores, Crash(s)
        PROVE  Currents'
    <2>1. blobs' = blobs /\ catalog' = catalog
      BY <1>2, CrashEffect DEF files
    <2>2. ASSUME NEW c \in Calls
          PROVE  Current(frame[c])'
      <3>1. CASE frame'[c] = Idle
        BY <3>1, IdleShape DEF Current, After
      <3>2. CASE frame'[c] = frame[c]
        BY <2>1, <3>2, CurrentKept
      <3>. QED
        BY <1>2, <3>1, <3>2, CrashEffect
    <2>. QED
      BY <2>2 DEF Currents
  <1>. QED
    BY <1>1, <1>2 DEF Next, Step

-----------------------------------------------------------------------------
(* The specification.                                                      *)

LEMMA Stutter ==
  ASSUME Inv, UNCHANGED vars
  PROVE  Inv'
  <1>. USE DEF vars
  <1>1. Kinds'
    BY DEF Inv, Kinds
  <1>2. Locks'
    BY DEF Inv, Locks, Inside, At, StoreOf
  <1>3. Disk'
    BY IndexStays DEF Inv, Disk, AllThere, Settled
  <1>4. Plans'
    BY DEF Inv, Plans, Planned, AllThere
  <1>5. Currents'
    BY CurrentKept DEF Currents
  <1>. QED
    BY <1>1, <1>2, <1>3, <1>4, <1>5 DEF Inv

\* What every transaction, read and crash keeps, of the locks, the files and
\* the plans of the calls.
THEOREM InvEver == Spec => []Inv
  <1>1. Inv /\ [Next]_vars => Inv'
    BY KindsStep, LocksStep, DiskStep, PlansStep, CurrentsStep, Stutter DEF Inv
  <1>. QED
    BY <1>1, Start, PTL DEF Spec

\* Every tag's entry, in every catalog that is ever on the disk, is one of a
\* known root with variants of that root (publish, shareTags and Remove).
THEOREM TypeOKEver == Spec => []TypeOK
  <1>1. Inv => TypeOK
    <2>. SUFFICES ASSUME Inv
                  PROVE  TypeOK
      OBVIOUS
    <2>1. /\ DOMAIN catalog \subseteq Tags
          /\ \A t \in DOMAIN catalog :
               /\ catalog[t].root \in Roots /\ DOMAIN catalog[t].prepared \subseteq Platforms
               /\ \A p \in DOMAIN catalog[t].prepared :
                    catalog[t].prepared[p] \in Variants[catalog[t].root][p]
      BY CatalogShape, EntryShape DEF Inv, Disk
    <2>. QED
      BY <2>1 DEF TypeOK, Inv, Kinds, Disk, IndexThere
  <1>. QED
    BY <1>1, InvEver, PTL

\* Both files on the disk name only roots that are there and manifests that are
\* complete, whatever failed or died: blobs move before the index and the
\* catalog are replaced (publish, writeIndex, transaction).
THEOREM NamesCompleteEver == Spec => []NamesComplete
  <1>1. Inv => NamesComplete
    BY DEF Inv, Disk, IndexThere, AllThere, NamesComplete, Complete
  <1>. QED
    BY <1>1, InvEver, PTL

\* One call at a time is inside a transaction, and both locks are held exactly
\* while it is (transaction's deferred unlocks, the end of a process).
THEOREM OneTransactionEver == Spec => []OneTransaction
  <1>1. Inv => OneTransaction
    <2>. SUFFICES ASSUME Inv
                  PROVE  OneTransaction
      OBVIOUS
    <2>1. \A c, d \in Calls : Inside(c) /\ Inside(d) => c = d
      BY AloneInside
    <2>2. \A s \in Stores : flock = s <=> \E c \in Calls : Inside(c) /\ StoreOf(c) = s
      BY ImageStoreAssumption DEF Inv, Locks
    <2>. QED
      BY <2>1, <2>2 DEF OneTransaction, Inv, Locks
  <1>. QED
    BY <1>1, InvEver, PTL

\* A step of the store is a publication, a removal, or nothing, of the catalog.
LEMMA CatalogStep ==
  ASSUME Inv, [Next]_vars
  PROVE  [Catalog!Next]_catalog
  <1>1. ASSUME NEW c \in Calls, Commit(c)
        PROVE  [Catalog!Next]_catalog
    <2>1. frame[c].pc = "commit" /\ catalog' = frame[c].cat
      BY <1>1 DEF Commit, At
    <2>2. Current(frame[c]) /\ frame[c].op \in {"publish", "remove"}
      BY <2>1, Now DEF Current, After
    <2>3. CASE frame[c].op = "publish"
      BY <2>1, <2>2, <2>3 DEF Current, Catalog!Next, Catalog!Publish
    <2>4. CASE frame[c].op = "remove"
      BY <2>1, <2>2, <2>4 DEF Current, After, Shrunk, Catalog!Next, Catalog!Remove
    <2>. QED
      BY <2>2, <2>3, <2>4
  <1>2. ASSUME NEW c \in Calls, Step(c)
        PROVE  [Catalog!Next]_catalog
    BY <1>1, <1>2, FilesEffect
  <1>3. ASSUME NEW s \in Stores, Crash(s)
        PROVE  [Catalog!Next]_catalog
    BY <1>3, CrashEffect DEF files
  <1>4. CASE UNCHANGED vars
    BY <1>4 DEF vars
  <1>. QED
    BY <1>2, <1>3, <1>4 DEF Next, Step

\* The store implements the catalog that ImageCatalog promises: concurrent
\* pulls, imports and removals of several processes change it one after the
\* other, and none is lost to another one's stale copy (publish, Remove,
\* transaction).
THEOREM AtomicCatalogEver == Spec => AtomicCatalog
  <1>1. Init => Catalog!Init
    BY DEF Init, Catalog!Init
  <1>. QED
    BY <1>1, CatalogStep, InvEver, PTL DEF Spec, AtomicCatalog, Catalog!Spec
=============================================================================
