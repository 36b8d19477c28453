------------------------------ MODULE ImageStore ------------------------------
(***************************************************************************)
(* The image store of a data directory (internal/images): the immutable    *)
(* blobs, index.json, catalog.json and oci-layout, shared by the server    *)
(* and any number of command-line processes.  Pulls and imports fill a     *)
(* private stage first; what touches the directory is a transaction under  *)
(* the mutex of the Store and the lock of catalog.lock.  A process may die *)
(* between any two renames, a call may fail or be cancelled at any of its  *)
(* steps.  Contents, sizes and damaged files are ImageVerify's subject.    *)
(***************************************************************************)
EXTENDS Integers, FiniteSets

CONSTANTS
  Tags, Roots, Platforms, Variants,     \* as in ImageCatalog
  Digests,        \* every blob: roots, manifests, configurations, layers
  Indexes,        \* the blobs that are indexes
  Kids,           \* the descriptors that a blob lists
  Depth,          \* the nesting that validateGraph follows (16)
  Refs,           \* what calls of Remove name: tags and digests
  Stores,         \* processes with the directory open
  Calls,          \* concurrent calls
  None

ASSUME ImageStoreAssumption ==
  /\ Roots \cup Indexes \subseteq Digests /\ Digests \cap Tags = {}
  /\ Variants \in [Roots -> [Platforms -> SUBSET Digests]]
  /\ Kids \in [Digests -> SUBSET Digests]
  /\ Depth \in Nat /\ Refs \subseteq Tags \cup Roots
  /\ None \notin Stores \cup Calls \cup Digests

VARIABLES
  layout,         \* oci-layout exists
  blobs,          \* the files of blobs/sha256
  index,          \* the roots that index.json lists
  catalog,        \* catalog.json
  opened,         \* processes whose Open has returned
  mu,             \* the call that holds Store.mu, by process
  flock,          \* the process that holds catalog.lock
  frame           \* each call

vars == <<layout, blobs, index, catalog, opened, mu, flock, frame>>
files == <<layout, blobs, index, catalog>>

Catalog == INSTANCE ImageCatalog WITH refs <- catalog

-----------------------------------------------------------------------------
(* Graphs and entries.                                                     *)

\* From a blob to one that it lists, n levels down.
Walks(d, n) ==
  {w \in [0..n -> Digests] : w[0] = d /\ \A k \in 1..n : w[k] \in Kids[w[k - 1]]}

\* children, followed down as deep as validateGraph goes.
Graphs == [d \in Digests |-> UNION {{w[n] : w \in Walks(d, n)} : n \in 0..Depth}]

Graph(d) == Graphs[d]

\* Bound: no manifest is selected so deep below its root that the walk from the
\* root ends before what the manifest needs (an import refuses such an archive).
ASSUME SelectionAssumption ==
  \A r \in Roots, p \in Platforms : \A m \in Variants[r][p] : Graph(m) \subseteq Graph(r)

\* validateGraph: every blob below a descriptor is there.
Complete(d) == Graph(d) \subseteq blobs

\* What a pull downloads: the nested indexes of the root, and one manifest with
\* all it needs.  An import needs the whole graph.
Downloaded(r, m) == {r} \cup (Graph(r) \cap Indexes) \cup Graph(m)

\* writeIndex: the tagged roots, and the prepared manifests untagged.
IndexOf(c) ==
  [tagged |-> {<<t, c[t].root>> : t \in DOMAIN c},
   untagged |-> (UNION {{c[t].prepared[p] : p \in DOMAIN c[t].prepared} : t \in DOMAIN c})
                  \ {c[t].root : t \in DOMAIN c}]

\* The last tag of a root in Go's order over the map decides for its platforms;
\* platforms that only other tags have come from those.
Shared(c) ==
  LET used == {c[t].root : t \in DOMAIN c}
      Offers(r) == {c[t].prepared : t \in {u \in DOMAIN c : c[u].root = r}}
      Join(r, last) ==
        Catalog!Over(last, [p \in UNION {DOMAIN o : o \in Offers(r)} |->
                             (CHOOSE o \in Offers(r) : p \in DOMAIN o)[p]])
  IN {[t \in DOMAIN c |-> [root |-> c[t].root, prepared |-> Join(c[t].root, last[c[t].root])]]
        : last \in {f \in [used -> UNION {Offers(r) : r \in used}] : \A r \in used : f[r] \in Offers(r)}}

-----------------------------------------------------------------------------
(* Calls.                                                                  *)

Idle == [pc |-> "idle"]
StoreOf(c) == frame[c].store
Become(c, f) == frame' = [frame EXCEPT ![c] = Catalog!Over(f, [store |-> StoreOf(c)])]
At(c, pc) == frame[c].pc = pc
Goto(c, pc) == Become(c, [frame[c] EXCEPT !.pc = pc])

\* Inside the file lock.
Inside(c) == frame[c].pc \in {"read", "body", "index", "commit", "leave"}

\* The end of a transaction that goes on to nothing else.
Leaving == [pc |-> "leave", op |-> "done"]

\* The call returns, with an error or without.
Return(c) == frame' = [frame EXCEPT ![c] = Idle]

\* A Store has to be opened before it is used.
Ask(c, s, op, ref) ==
  /\ At(c, "idle")
  /\ (op = "open") = (s \notin opened)
  /\ frame' = [frame EXCEPT ![c] = [pc |-> IF op \in {"pull", "import"} THEN "stage" ELSE "enter",
                                   op |-> op, ref |-> ref, store |-> s]]
  /\ UNCHANGED <<files, opened, mu, flock>>

\* Pull into a private directory: the root of the tag is what the registry says
\* now.  A failed download or check returns (Abandon).
Pull(c) ==
  /\ At(c, "stage") /\ frame[c].op = "pull" /\ frame[c].ref \in Tags
  /\ \E r \in Roots, p \in Platforms : \E m \in Variants[r][p] :
       Become(c, [pc |-> "enter", op |-> "publish", stage |-> Downloaded(r, m),
                  new |-> [t \in {frame[c].ref} |-> Catalog!Entry(r, p, m)]])
  /\ UNCHANGED <<files, opened, mu, flock>>

\* Defect: an import selects its manifest without checking the other variants.
ImportSelected(c) ==
  /\ At(c, "stage") /\ frame[c].op = "import"
  /\ \E T \in (SUBSET Tags) \ {{}}, p \in Platforms : \E new \in [T -> Catalog!EntriesFor(p)] :
       Become(c, [pc |-> "enter", op |-> "publish", new |-> new,
                  stage |-> UNION {Graph(new[t].prepared[p]) : t \in T}])
  /\ UNCHANGED <<files, opened, mu, flock>>

\* Import: every root of the archive must be complete in it.
Import(c) ==
  /\ At(c, "stage") /\ frame[c].op = "import"
  /\ \E T \in (SUBSET Tags) \ {{}}, p \in Platforms : \E new \in [T -> Catalog!EntriesFor(p)] :
       Become(c, [pc |-> "enter", op |-> "publish", new |-> new,
                  stage |-> UNION {Graph(new[t].root) : t \in T}])
  /\ UNCHANGED <<files, opened, mu, flock>>

\* A call that holds nothing fails: a download, an archive that is refused, or a
\* context that has ended where it is looked at (here while the mutex is polled).
Abandon(c) ==
  /\ At(c, "stage") \/ At(c, "enter")
  /\ Return(c)
  /\ UNCHANGED <<files, opened, mu, flock>>

\* Defect: only the lock file is taken, which a Store takes again and again.
NoMutex(c) ==
  /\ At(c, "enter")
  /\ mu' = [mu EXCEPT ![StoreOf(c)] = c]
  /\ Goto(c, "lock")
  /\ UNCHANGED <<files, opened, flock>>

\* transaction: TryLock of the mutex, again every 25 milliseconds.
TakeMutex(c) ==
  /\ At(c, "enter") /\ mu[StoreOf(c)] = None
  /\ mu' = [mu EXCEPT ![StoreOf(c)] = c]
  /\ Goto(c, "lock")
  /\ UNCHANGED <<files, opened, flock>>

\* TryLockContext: a flock.Flock that has the lock says yes again.
TakeLock(c) ==
  /\ At(c, "lock") /\ flock \in {None, StoreOf(c)}
  /\ flock' = StoreOf(c)
  /\ Goto(c, "read")
  /\ UNCHANGED <<files, opened, mu>>

GiveUpLock(c) ==
  /\ At(c, "lock")
  /\ mu' = [mu EXCEPT ![StoreOf(c)] = None]
  /\ Return(c)
  /\ UNCHANGED <<files, opened, flock>>

\* The catalog is read, and the index brought up to date with it: a process may
\* have died between the two.
Read(c) ==
  /\ At(c, "read")
  /\ index' = IndexOf(catalog)
  /\ Become(c, Catalog!Over([pc |-> "body", cat |-> catalog], frame[c]))
  /\ UNCHANGED <<layout, blobs, catalog, opened, mu, flock>>

\* Open writes the layout file if it is missing.
OpenBody(c) ==
  /\ At(c, "body") /\ frame[c].op = "open"
  /\ layout' = TRUE
  /\ Become(c, [pc |-> "leave", op |-> "open"])
  /\ UNCHANGED <<blobs, index, catalog, opened, mu, flock>>

\* Resolve, List and Export only look the catalog up here.
ReadBody(c) ==
  /\ At(c, "body") /\ frame[c].op = "look"
  /\ Become(c, Leaving)
  /\ UNCHANGED <<files, opened, mu, flock>>

\* publish renames the staged blobs one by one.
MoveBlob(c) ==
  /\ At(c, "body") /\ frame[c].op = "publish"
  /\ \E b \in frame[c].stage :
       /\ blobs' = blobs \cup {b}
       /\ Become(c, [frame[c] EXCEPT !.stage = @ \ {b}])
  /\ UNCHANGED <<layout, index, catalog, opened, mu, flock>>

Merge(c) ==
  /\ At(c, "body") /\ frame[c].op = "publish" /\ frame[c].stage = {}
  /\ Become(c, [pc |-> "index", op |-> "publish", cat |-> Catalog!Merged(frame[c].cat, frame[c].new)])
  /\ UNCHANGED <<files, opened, mu, flock>>

\* Remove: by tag, or all tags of a digest.  With force a missing one is no
\* error and the catalog is written as it is.  Blobs always stay.
RemoveBody(c) ==
  /\ At(c, "body") /\ frame[c].op = "remove"
  /\ LET cat == frame[c].cat
         gone == IF frame[c].ref \in DOMAIN cat THEN {frame[c].ref}
                 ELSE {t \in DOMAIN cat : cat[t].root = frame[c].ref}
     IN Become(c, [pc |-> "index", op |-> "remove", cat |-> Catalog!Without(cat, gone)])
  /\ UNCHANGED <<files, opened, mu, flock>>

\* Defect: platforms stay with the tag they were published for.
WriteIndexUnshared(c) ==
  /\ At(c, "index")
  /\ index' = IndexOf(frame[c].cat)
  /\ Goto(c, "commit")
  /\ UNCHANGED <<layout, blobs, catalog, opened, mu, flock>>

\* Platforms are shared between the tags of a root, then the index is replaced.
WriteIndex(c) ==
  /\ At(c, "index")
  /\ \E s \in Shared(frame[c].cat) :
       /\ index' = IndexOf(s)
       /\ Become(c, [frame[c] EXCEPT !.pc = "commit", !.cat = s])
  /\ UNCHANGED <<layout, blobs, catalog, opened, mu, flock>>

\* The rename of catalog.json.
Commit(c) ==
  /\ At(c, "commit")
  /\ catalog' = frame[c].cat
  /\ Become(c, Leaving)
  /\ UNCHANGED <<layout, blobs, index, opened, mu, flock>>

\* Defect: an error returns before the unlock is deferred.
FailLocked(c) ==
  /\ At(c, "read") \/ At(c, "body") \/ At(c, "index") \/ At(c, "commit")
  /\ mu' = [mu EXCEPT ![StoreOf(c)] = None]
  /\ Return(c)
  /\ UNCHANGED <<files, opened, flock>>

\* An unreadable file, a rename that fails, an unknown reference, or (in the
\* body of publish) a context that has ended.
Fail(c) ==
  /\ At(c, "read") \/ At(c, "body") \/ At(c, "index") \/ At(c, "commit")
  /\ Become(c, Leaving)
  /\ UNCHANGED <<files, opened, mu, flock>>

\* Both locks are released.
Leave(c) ==
  /\ At(c, "leave")
  /\ flock' = None
  /\ mu' = [mu EXCEPT ![StoreOf(c)] = None]
  /\ opened' = IF frame[c].op = "open" THEN opened \cup {StoreOf(c)} ELSE opened
  /\ Return(c)
  /\ UNCHANGED files

\* A process dies: the system releases its lock.
Crash(s) ==
  /\ s \in opened \/ mu[s] # None
  /\ opened' = opened \ {s}
  /\ mu' = [mu EXCEPT ![s] = None]
  /\ flock' = IF flock = s THEN None ELSE flock
  /\ frame' = [c \in Calls |-> IF frame[c] # Idle /\ StoreOf(c) = s THEN Idle ELSE frame[c]]
  /\ UNCHANGED files

-----------------------------------------------------------------------------

Init ==
  /\ layout = FALSE /\ blobs = {} /\ catalog = <<>>
  /\ index = IndexOf(<<>>)
  /\ opened = {} /\ mu = [s \in Stores |-> None] /\ flock = None
  /\ frame = [c \in Calls |-> Idle]

Work(c) ==
  \/ Pull(c) \/ Import(c) \/ TakeMutex(c) \/ TakeLock(c) \/ Read(c)
  \/ OpenBody(c) \/ ReadBody(c) \/ MoveBlob(c) \/ Merge(c) \/ RemoveBody(c)
  \/ WriteIndex(c) \/ Commit(c) \/ Fail(c) \/ Leave(c)

Request(c) ==
  \E s \in Stores :
    \/ \E op \in {"open", "import", "look"} : Ask(c, s, op, None)
    \/ \E t \in Tags : Ask(c, s, "pull", t)
    \/ \E ref \in Refs : Ask(c, s, "remove", ref)

Next ==
  \/ \E c \in Calls : Request(c) \/ Work(c) \/ Abandon(c) \/ GiveUpLock(c)
  \/ \E s \in Stores : Crash(s)

Spec == Init /\ [][Next]_vars

-----------------------------------------------------------------------------
(* Properties.                                                             *)

\* With it: what a tag has prepared for a platform is a variant of its own root.
TypeOK ==
  /\ layout \in BOOLEAN /\ blobs \subseteq Digests
  /\ index.tagged \subseteq Tags \X Roots /\ index.untagged \subseteq Digests
  /\ DOMAIN catalog \subseteq Tags
  /\ \A t \in DOMAIN catalog :
       /\ catalog[t].root \in Roots /\ DOMAIN catalog[t].prepared \subseteq Platforms
       /\ \A p \in DOMAIN catalog[t].prepared : catalog[t].prepared[p] \in Variants[catalog[t].root][p]
  /\ opened \subseteq Stores
  /\ mu \in [Stores -> Calls \cup {None}] /\ flock \in Stores \cup {None}

\* store.go:97: "the catalog is replaced only after validation".  Whatever dies,
\* fails or is cancelled, both files on disk only name roots that are there and
\* prepared manifests with everything they need.
NamesComplete ==
  /\ \A t \in DOMAIN catalog :
       /\ catalog[t].root \in blobs
       /\ \A p \in DOMAIN catalog[t].prepared : Complete(catalog[t].prepared[p])
  /\ \A e \in index.tagged : e[2] \in blobs
  /\ \A m \in index.untagged : Complete(m)

\* Transactions of several calls and processes change the catalog as if each
\* happened alone: no pull is lost to another one's stale copy of the catalog.
AtomicCatalog == Catalog!Spec

\* One call at a time is inside a transaction of the directory, whatever its
\* process; and no path out of one, nor the end of a process, leaves a lock behind.
OneTransaction ==
  /\ \A c, d \in Calls : Inside(c) /\ Inside(d) => c = d
  /\ \A s \in Stores :
       /\ flock = s <=> \E c \in Calls : Inside(c) /\ StoreOf(c) = s
       /\ \A c \in Calls : mu[s] = c <=> (Inside(c) \/ At(c, "lock")) /\ StoreOf(c) = s
=============================================================================
