----------------------------- MODULE ImageVerify ------------------------------
(***************************************************************************)
(* What Resolve, List and Export hand out of the blobs (internal/images    *)
(* verified.go, content.go, archive.go): a prepared image is served after  *)
(* its whole graph was read and hashed, or from a cache of such readings   *)
(* that is trusted while the files have the same stamps.  Meanwhile other  *)
(* calls publish the same blobs again, and files are damaged or deleted.   *)
(* None of this holds the catalog's lock (ImageStore).                     *)
(***************************************************************************)
EXTENDS Integers, FiniteSets

CONSTANTS
  Images,         \* prepared manifests
  Digests,        \* all blobs, the manifests among them
  Kids,           \* the layers of a manifest; its configuration counts as part of it
  Root,           \* the blob of the catalog's entry: the manifest, or an index
  Calls,          \* concurrent calls of one process
  CacheLimit,     \* how many readings the process remembers (64)
  None

ASSUME ImageVerifyAssumption ==
  /\ Images \subseteq Digests
  /\ Kids \in [Images -> SUBSET (Digests \ Images)]
  /\ Root \in [Images -> Digests]
  /\ CacheLimit \in Nat \ {0}
  /\ None \notin Digests \cup {"good", "bad"}

VARIABLES
  file,           \* each blob's file: "good", "bad" or None
  cache,          \* verifiedCache.entries: for an image, its files that still
                  \* have the stamp that was remembered
  dest,           \* whether a file is at the exports' destination
  frame           \* each call

vars == <<file, cache, dest, frame>>

Graph(d) == {d} \cup Kids[d]

Good(b) == file[b] = "good"

-----------------------------------------------------------------------------
(* Stamps: a file's identity, size, mode and times.  A file that was written *)
(* again never has an earlier stamp, so all that matters of a remembered     *)
(* stamp is whether it still is the file's: "same" has the files whose is.   *)

SameStamp(c, b) == b \in frame[c].same

-----------------------------------------------------------------------------
(* Calls.                                                                  *)

\* quiet, unseen: for the properties, whether no file of a call that were all good
\* has changed, and the files that were at no moment good since it began.
Idle == [pc |-> "idle", work |-> {}, image |-> None, todo |-> {}, same |-> {}, quiet |-> TRUE,
         unseen |-> {}]
At(c, pc) == frame[c].pc = pc
Become(c, f) == frame' = [frame EXCEPT ![c] = f]
Return(c) == Become(c, Idle)

\* The image that a call is about now.
Image(c) == frame[c].image

\* The files that a call which is at pc still has to find good.
Needed(pc, work) ==
  (UNION {Graph(d) : d \in work}) \cup (IF pc = "root" THEN {Root[d] : d \in work} ELSE {})

BadOf(files) == {b \in files : ~Good(b)}

\* Resolve asks for one image and reads its root first, List for all, in any order.
Ask(c, pc, work) ==
  /\ At(c, "idle")
  /\ LET bad == BadOf(Needed(pc, work))
     IN Become(c, [Idle EXCEPT !.pc = pc, !.work = work, !.quiet = (bad = {}), !.unseen = bad])
  /\ UNCHANGED <<file, cache, dest>>

AskExport(c, d) ==
  /\ At(c, "idle")
  /\ Become(c, [Idle EXCEPT !.pc = "graph", !.image = d, !.todo = Graph(d), !.quiet = FALSE,
                !.unseen = BadOf(Graph(d))])
  /\ UNCHANGED <<file, cache, dest>>

\* A step of a call failed: it returns an error.
Fail(c) == Return(c) /\ UNCHANGED <<file, cache, dest>>

\* Resolve: the blob of the entry's root is read, whatever the cache says.
ReadRoot(c) ==
  /\ At(c, "root")
  /\ IF \E d \in frame[c].work : ~Good(Root[d]) THEN Fail(c)
     ELSE Become(c, [frame[c] EXCEPT !.pc = "cached"]) /\ UNCHANGED <<file, cache, dest>>

\* verified: the entry of the cache is looked up under its mutex.
Lookup(c) ==
  /\ At(c, "cached")
  /\ \E d \in frame[c].work :
       Become(c, IF d \in DOMAIN cache
                   THEN [frame[c] EXCEPT !.pc = "hit", !.image = d, !.todo = Graph(d), !.same = cache[d]]
                   ELSE [frame[c] EXCEPT !.pc = "collect", !.image = d, !.todo = {d}])
  /\ UNCHANGED <<file, cache, dest>>

\* Defect: an image whose files changed is refused, although it may be good.
HitOrFail(c) ==
  /\ At(c, "hit")
  /\ \E b \in frame[c].todo :
       IF SameStamp(c, b)
         THEN /\ Become(c, [frame[c] EXCEPT !.todo = @ \ {b},
                              !.pc = IF frame[c].todo = {b} THEN "reread" ELSE "hit"])
              /\ UNCHANGED <<file, cache, dest>>
         ELSE Fail(c)

\* Defect: the remembered reading is believed without a look at the files.
HitUnchecked(c) ==
  /\ At(c, "hit")
  /\ Become(c, [frame[c] EXCEPT !.todo = {}, !.pc = "reread"])
  /\ UNCHANGED <<file, cache, dest>>

\* Each file's stamp is compared with the remembered one; at the first that
\* differs the image is read again.
Hit(c) ==
  /\ At(c, "hit")
  /\ \E b \in frame[c].todo :
       Become(c, IF ~SameStamp(c, b)
                   THEN [frame[c] EXCEPT !.pc = "collect", !.todo = {Image(c)}, !.same = {}]
                   ELSE [frame[c] EXCEPT !.todo = @ \ {b},
                           !.pc = IF frame[c].todo = {b} THEN "reread" ELSE "hit"])
  /\ UNCHANGED <<file, cache, dest>>

\* collect: the stamps, before anything is read; a manifest has to be readable
\* for what it lists.
Collect(c) ==
  /\ At(c, "collect")
  /\ \E b \in frame[c].todo :
       LET kids == IF b \in Images THEN Kids[b] ELSE {}
           left == (frame[c].todo \ {b}) \cup kids
       IN IF file[b] = None \/ (b \in Images /\ ~Good(b)) THEN Fail(c)
          ELSE /\ Become(c, [frame[c] EXCEPT !.same = @ \cup {b},
                               !.pc = IF left = {} THEN "validate" ELSE "collect",
                               !.todo = IF left = {} THEN Graph(Image(c)) ELSE left])
               /\ UNCHANGED <<file, cache, dest>>

\* validateGraph and validateLayers: every file is read and hashed.
Validate(c) ==
  /\ At(c, "validate")
  /\ \E b \in frame[c].todo :
       IF ~Good(b) THEN Fail(c)
       ELSE /\ Become(c, [frame[c] EXCEPT !.pc = IF frame[c].todo = {b} THEN "compare" ELSE "validate",
                            !.todo = IF @ = {b} THEN Graph(Image(c)) ELSE @ \ {b}])
            /\ UNCHANGED <<file, cache, dest>>

\* Defect: the stamps are taken after the reading only.
CompareLate(c) ==
  /\ At(c, "compare")
  /\ \E b \in frame[c].todo :
       IF file[b] = None THEN Fail(c)
       ELSE /\ Become(c, [frame[c] EXCEPT !.pc = IF frame[c].todo = {b} THEN "remember" ELSE "compare",
                            !.todo = @ \ {b}, !.same = @ \cup {b}])
            /\ UNCHANGED <<file, cache, dest>>

\* The stamps once more: nothing changed while it was read.
Compare(c) ==
  /\ At(c, "compare")
  /\ \E b \in frame[c].todo :
       IF ~SameStamp(c, b) THEN Fail(c)
       ELSE /\ Become(c, [frame[c] EXCEPT !.pc = IF frame[c].todo = {b} THEN "remember" ELSE "compare",
                            !.todo = @ \ {b}])
            /\ UNCHANGED <<file, cache, dest>>

\* A full cache is emptied first.
Remember(c) ==
  /\ At(c, "remember")
  /\ LET kept == IF Cardinality(DOMAIN cache) >= CacheLimit THEN <<>> ELSE cache
     IN cache' = [d \in DOMAIN kept \cup {Image(c)} |->
                    IF d = Image(c) THEN frame[c].same ELSE kept[d]]
  /\ Become(c, [frame[c] EXCEPT !.pc = "reread", !.same = {}])
  /\ UNCHANGED <<file, dest>>

\* contentAt of Resolve, graphSize of List: the metadata is read again.  List goes
\* on with its next image.
Reread(c) ==
  /\ At(c, "reread")
  /\ IF ~Good(Image(c)) THEN Fail(c)
     ELSE /\ Become(c, [frame[c] EXCEPT !.pc = IF frame[c].work = {Image(c)} THEN "served" ELSE "cached",
                          !.work = @ \ {Image(c)}, !.image = None, !.same = {}])
          /\ UNCHANGED <<file, cache, dest>>

Returns(c) ==
  /\ At(c, "served") \/ At(c, "cancelled")
  /\ Return(c)
  /\ UNCHANGED <<file, cache, dest>>

\* exportDescriptor: the graph is read and hashed, then the destination looked at.
ExportReads(c) ==
  /\ At(c, "graph")
  /\ \E b \in frame[c].todo :
       IF ~Good(b) \/ (frame[c].todo = {b} /\ dest) THEN Fail(c)
       ELSE /\ Become(c, [frame[c] EXCEPT !.pc = IF frame[c].todo = {b} THEN "copy" ELSE "graph",
                            !.todo = IF @ = {b} THEN Graph(Image(c)) ELSE @ \ {b}])
            /\ UNCHANGED <<file, cache, dest>>

\* Every blob is copied into a temporary file, which is not hashed again.
Copy(c) ==
  /\ At(c, "copy")
  /\ \E b \in frame[c].todo :
       IF file[b] = None \/ (b \in Images /\ ~Good(b)) THEN Fail(c)
       ELSE /\ Become(c, [frame[c] EXCEPT !.pc = IF frame[c].todo = {b} THEN "link" ELSE "copy",
                            !.todo = @ \ {b}])
            /\ UNCHANGED <<file, cache, dest>>

\* Link does not replace a file.
Link(c) ==
  /\ At(c, "link")
  /\ IF dest THEN Fail(c)
     ELSE dest' = TRUE /\ Return(c) /\ UNCHANGED <<file, cache>>

\* The context of a call ends: it is looked at at every file.
Cancel(c) ==
  /\ frame[c].pc \in {"hit", "validate", "graph", "copy"}
  /\ Become(c, [Idle EXCEPT !.pc = "cancelled", !.quiet = FALSE])
  /\ UNCHANGED <<file, cache, dest>>

-----------------------------------------------------------------------------
(* The files.                                                              *)

\* A file changes: no remembered stamp is its stamp any more.
Change(b, to) ==
  /\ file' = [file EXCEPT ![b] = to]
  /\ cache' = [d \in DOMAIN cache |-> cache[d] \ {b}]
  /\ frame' = [c \in Calls |-> [frame[c] EXCEPT !.same = @ \ {b},
                                 !.quiet = @ /\ b \notin Needed(frame[c].pc, frame[c].work),
                                 !.unseen = IF to = "good" THEN @ \ {b} ELSE @]]
  /\ UNCHANGED dest

\* Another call publishes a blob: the rename puts a new file in its place.
Republish(b) == Change(b, "good")

\* Somebody, or the disk, damages a file, which shows in its stamp: its time of
\* change at least.  A damage that leaves the stamp as it was is not modelled; the
\* cache does not notice it.
Damage(b) == Good(b) /\ Change(b, "bad")

Delete(b) == file[b] # None /\ Change(b, None)

\* Somebody else's file comes to the destination.
OtherFile ==
  /\ ~dest /\ dest' = TRUE
  /\ UNCHANGED <<file, cache, frame>>

-----------------------------------------------------------------------------

\* The server starts with an empty cache and whatever is on disk; here, all of it.
Init ==
  /\ file = [b \in Digests |-> "good"]
  /\ cache = <<>> /\ dest = FALSE
  /\ frame = [c \in Calls |-> Idle]

Step(c) ==
  \/ ReadRoot(c) \/ Lookup(c) \/ Hit(c) \/ Collect(c) \/ Validate(c) \/ Compare(c) \/ Remember(c) \/ Reread(c)
  \/ Returns(c) \/ ExportReads(c) \/ Copy(c) \/ Link(c)

Request(c) ==
  \/ \E d \in Images : Ask(c, "root", {d}) \/ AskExport(c, d)
  \/ Ask(c, "cached", Images)

Next ==
  \/ \E c \in Calls : Request(c) \/ Step(c) \/ Cancel(c)
  \/ \E b \in Digests : Republish(b) \/ Damage(b) \/ Delete(b)
  \/ OtherFile

Spec == Init /\ [][Next]_vars

-----------------------------------------------------------------------------
(* Properties.                                                             *)

\* What the cache would be believed about is good: no interleaving of readings
\* with publications, damage and deletions lets it remember a file that was
\* never read with the stamp it has.
CacheTruthful ==
  \A d \in DOMAIN cache : \A b \in cache[d] : Good(b)

\* What Resolve and List return and Export publishes was good: each of its files was
\* so at some moment of the call, the root's, those that only the cache vouched for
\* and those of an image that was damaged when the call began.
ServedWasGood ==
  \A c \in Calls : frame[c].pc \in {"served", "link"} => frame[c].unseen = {}

\* A call that no change met, of files that are all good, the root's among them,
\* succeeds, whatever the cache remembers of earlier files: a repaired image is
\* usable again.
RepairedIsServed ==
  [][\A c \in Calls :
       frame[c].quiet /\ ~At(c, "idle") /\ frame'[c].pc = "idle" => At(c, "served")]_vars
=============================================================================
