--------------------------- MODULE ImageVerifyProofs ---------------------------
(***************************************************************************)
(* Proofs about what Resolve, List and Export hand out, for any blobs, any *)
(* number of calls and any limit of the cache: a remembered stamp is only  *)
(* ever that of a file that was read, each file of what is handed out was  *)
(* good during the call, and a call that no change met succeeds on good    *)
(* files.                                                                  *)
(***************************************************************************)
EXTENDS ImageVerify, TLAPS

Pcs == {"idle", "root", "cached", "hit", "collect", "validate", "compare", "remember", "reread",
        "served", "cancelled", "graph", "copy", "link"}

Frames == [pc : Pcs, work : SUBSET Images, image : Images \cup {None}, todo : SUBSET Digests,
           same : SUBSET Digests, quiet : BOOLEAN, unseen : SUBSET Digests]

\* Where a call reads the image it is about.
Reading == {"hit", "collect", "validate", "compare", "remember", "reread"}

Placed(f) ==
  /\ f.pc \in {"root", "cached"} => f.same = {}
  /\ f.pc \in {"graph", "copy", "link"} => f.image \in Images
  /\ f.pc \in Reading =>
       /\ f.image \in f.work
       /\ f.todo \subseteq Graph(f.image) /\ f.same \subseteq Graph(f.image)

Kinds ==
  /\ DOMAIN file = Digests /\ DOMAIN cache \subseteq Images
  /\ \A d \in DOMAIN cache : cache[d] \subseteq Graph(d)
  /\ frame \in [Calls -> Frames]

\* What a call has read of the files whose stamps it holds: those of the cache
\* are good; its own are once they were hashed, which is after their stamps.
Stamped(f) ==
  /\ f.pc \in {"hit", "compare", "remember"} => \A b \in f.same : Good(b)
  /\ f.pc = "validate" => \A b \in f.same \ f.todo : Good(b)

\* A call that no change met: the files are good and no stamp is lost.
Undisturbed(f) ==
  f.quiet =>
    /\ f.pc \notin {"cancelled", "graph", "copy", "link"}
    /\ \A d \in f.work : \A b \in Graph(d) : Good(b)
    /\ f.pc = "root" => \A d \in f.work : Good(Root[d])
    /\ f.pc = "collect" =>
         Graph(f.image) \subseteq f.same \cup f.todo
                                \cup (IF f.image \in f.todo THEN Kids[f.image] ELSE {})
    /\ f.pc \in {"validate", "compare"} => Graph(f.image) \subseteq f.same

\* The files that were at no moment good are bad, and the call has still to read
\* them: for the image it is about, or for another that it was asked for.
OfOthers(f, b) == \E d \in f.work \ {f.image} : b \in Graph(d)

Seen(f) ==
  /\ \A b \in f.unseen : ~Good(b)
  /\ f.pc \in {"idle", "cancelled", "served", "copy", "link"} => f.unseen = {}
  /\ f.pc = "root" => \A b \in f.unseen : \E d \in f.work : b \in Graph(d) \/ b = Root[d]
  /\ f.pc = "cached" => \A b \in f.unseen : \E d \in f.work : b \in Graph(d)
  /\ f.pc \in {"hit", "validate"} => \A b \in f.unseen : b \in f.todo \/ OfOthers(f, b)
  /\ f.pc = "collect" => \A b \in f.unseen : b \in Graph(f.image) \/ OfOthers(f, b)
  /\ f.pc \in {"compare", "remember", "reread"} => \A b \in f.unseen : OfOthers(f, b)
  /\ f.pc = "graph" => f.unseen \subseteq f.todo

Sound(f) == Placed(f) /\ Stamped(f) /\ Undisturbed(f) /\ Seen(f)

Inv == Kinds /\ CacheTruthful /\ \A c \in Calls : Sound(frame[c])

-----------------------------------------------------------------------------
(* One call moves.                                                         *)

LEMMA GraphShape ==
  ASSUME NEW d \in Images
  PROVE  /\ Graph(d) \subseteq Digests /\ d \in Graph(d) /\ d \in Digests
         /\ Kids[d] \subseteq Graph(d) /\ Kids[d] \cap Images = {}
         /\ Graph(d) = {d} \cup Kids[d]
  BY ImageVerifyAssumption DEF Graph

LEMMA NeededShape ==
  ASSUME NEW pc, NEW work
  PROVE  \A b : b \in Needed(pc, work) <=>
                 \E d \in work : b \in Graph(d) \/ (pc = "root" /\ b = Root[d])
  <1>1. \A b : b \in UNION {Graph(d) : d \in work} <=> \E d \in work : b \in Graph(d)
    OBVIOUS
  <1>2. \A b : b \in {Root[d] : d \in work} <=> \E d \in work : b = Root[d]
    OBVIOUS
  <1>3. \A b : b \in Needed(pc, work) <=>
                 \/ b \in UNION {Graph(d) : d \in work}
                 \/ pc = "root" /\ b \in {Root[d] : d \in work}
    <2>. DEFINE U == UNION {Graph(d) : d \in work}
                V == {Root[d] : d \in work}
    <2>1. Needed(pc, work) = U \cup (IF pc = "root" THEN V ELSE {})
      BY DEF Needed
    <2>. HIDE DEF U, V
    <2>2. \A b : b \in Needed(pc, work) <=> b \in U \/ (pc = "root" /\ b \in V)
      <3>1. CASE pc = "root"
        BY <2>1, <3>1
      <3>2. CASE pc # "root"
        BY <2>1, <3>2
      <3>. QED
        BY <3>1, <3>2
    <2>. QED
      BY <2>2 DEF U, V
  <1>. QED
    BY <1>1, <1>2, <1>3

LEMMA IdleSound == Idle \in Frames /\ Sound(Idle) /\ Idle.pc = "idle"
  BY DEF Idle, Frames, Pcs, Sound, Placed, Stamped, Undisturbed, Seen, OfOthers, Reading

LEMMA OneMoves ==
  ASSUME Inv, NEW c \in Calls, NEW f \in Frames, Become(c, f), Sound(f),
         UNCHANGED <<file, cache>>
  PROVE  Inv'
  <1>1. frame' \in [Calls -> Frames] /\ frame'[c] = f /\ \A d \in Calls \ {c} : frame'[d] = frame[d]
    BY DEF Become, Inv, Kinds
  <1>2. Kinds'
    BY <1>1 DEF Inv, Kinds
  <1>3. \A d \in Calls : Sound(frame'[d])
    BY <1>1 DEF Inv
  <1>4. \A d \in Calls : Sound(frame[d])'
    BY <1>3 DEF Sound, Placed, Stamped, Undisturbed, Seen, OfOthers, Good
  <1>. QED
    BY <1>2, <1>4 DEF Inv, CacheTruthful, Good

LEMMA ReturnInv ==
  ASSUME Inv, NEW c \in Calls, Return(c), UNCHANGED <<file, cache>>
  PROVE  Inv'
  BY IdleSound, OneMoves DEF Return

LEMMA Now ==
  ASSUME Inv, NEW c \in Calls
  PROVE  frame[c] \in Frames /\ Sound(frame[c])
  BY DEF Inv, Kinds

LEMMA AskInv ==
  ASSUME Inv, NEW c \in Calls, Request(c)
  PROVE  Inv'
  <1>1. ASSUME NEW work \in SUBSET Images, NEW pc \in {"root", "cached"}, Ask(c, pc, work)
        PROVE  Inv'
    <2>. DEFINE bad == BadOf(Needed(pc, work))
                q == bad = {}
                f == [Idle EXCEPT !.pc = pc, !.work = work, !.quiet = q, !.unseen = bad]
    <2>1. /\ bad \subseteq Digests /\ \A b \in bad : ~Good(b)
          /\ \A b \in bad : \E d \in work : b \in Graph(d) \/ (pc = "root" /\ b = Root[d])
      BY NeededShape, GraphShape, ImageVerifyAssumption DEF BadOf
    <2>2. /\ q \in BOOLEAN
          /\ q => \A d \in work : \A b \in Graph(d) : Good(b)
          /\ q /\ pc = "root" => \A d \in work : Good(Root[d])
      BY NeededShape DEF BadOf
    <2>3. /\ Become(c, [Idle EXCEPT !.pc = pc, !.work = work, !.quiet = q, !.unseen = bad])
          /\ UNCHANGED <<file, cache>>
      BY <1>1 DEF Ask
    <2>. HIDE DEF q, bad
    <2>4. f \in Frames /\ f.pc = pc /\ f.work = work /\ f.quiet = q /\ f.same = {} /\ f.unseen = bad
      BY <2>1, <2>2 DEF Idle, Frames, Pcs
    <2>. HIDE DEF f
    <2>5. Sound(f)
      BY <2>1, <2>2, <2>4 DEF Sound, Placed, Stamped, Undisturbed, Seen, OfOthers, Reading
    <2>. QED
      BY <2>3, <2>4, <2>5, OneMoves DEF f
  <1>2. ASSUME NEW d \in Images, AskExport(c, d)
        PROVE  Inv'
    <2>. DEFINE f == [Idle EXCEPT !.pc = "graph", !.image = d, !.todo = Graph(d), !.quiet = FALSE,
                        !.unseen = BadOf(Graph(d))]
    <2>1. Become(c, f) /\ UNCHANGED <<file, cache>>
      BY <1>2 DEF AskExport
    <2>2. /\ f \in Frames /\ f.pc = "graph" /\ f.quiet = FALSE /\ f.image = d
          /\ f.todo = Graph(d) /\ f.unseen \subseteq Graph(d) /\ \A b \in f.unseen : ~Good(b)
      BY GraphShape DEF Idle, Frames, Pcs, BadOf
    <2>. HIDE DEF f
    <2>3. Sound(f)
      BY <2>2 DEF Sound, Placed, Stamped, Undisturbed, Seen, OfOthers, Reading
    <2>. QED
      BY <2>1, <2>2, <2>3, OneMoves
  <1>. QED
    BY <1>1, <1>2 DEF Request

LEMMA ReadRootInv ==
  ASSUME Inv, NEW c \in Calls, ReadRoot(c)
  PROVE  Inv'
  <1>1. /\ frame[c].pc = "root"
        /\ IF \E d \in frame[c].work : ~Good(Root[d]) THEN Fail(c)
           ELSE Become(c, [frame[c] EXCEPT !.pc = "cached"]) /\ UNCHANGED <<file, cache, dest>>
    BY DEF ReadRoot, At
  <1>2. frame[c] \in Frames /\ Sound(frame[c])
    BY Now
  <1>3. CASE \E d \in frame[c].work : ~Good(Root[d])
    BY <1>1, <1>3, ReturnInv DEF Fail
  <1>4. CASE \A d \in frame[c].work : Good(Root[d])
    <2>. DEFINE f == [frame[c] EXCEPT !.pc = "cached"]
    <2>1. /\ f \in Frames /\ f.pc = "cached" /\ f.same = frame[c].same /\ f.work = frame[c].work
          /\ f.quiet = frame[c].quiet /\ f.unseen = frame[c].unseen
      BY <1>2 DEF Frames, Pcs
    <2>2. Become(c, f) /\ UNCHANGED <<file, cache>>
      BY <1>1, <1>4
    <2>. HIDE DEF f
    <2>3. Sound(f)
      BY <1>1, <1>2, <1>4, <2>1 DEF Sound, Placed, Stamped, Undisturbed, Seen, OfOthers, Reading
    <2>. QED
      BY <2>1, <2>2, <2>3, OneMoves
  <1>. QED
    BY <1>3, <1>4

LEMMA LookupInv ==
  ASSUME Inv, NEW c \in Calls, Lookup(c)
  PROVE  Inv'
  <1>1. PICK d \in frame[c].work :
          Become(c, IF d \in DOMAIN cache
                      THEN [frame[c] EXCEPT !.pc = "hit", !.image = d, !.todo = Graph(d), !.same = cache[d]]
                      ELSE [frame[c] EXCEPT !.pc = "collect", !.image = d, !.todo = {d}])
    BY DEF Lookup
  <1>2. /\ frame[c] \in Frames /\ Sound(frame[c]) /\ frame[c].pc = "cached" /\ d \in Images
        /\ UNCHANGED <<file, cache>>
    BY Now DEF Lookup, At, Frames
  <1>3. CASE d \in DOMAIN cache
    <2>. DEFINE f == [frame[c] EXCEPT !.pc = "hit", !.image = d, !.todo = Graph(d), !.same = cache[d]]
    <2>1. cache[d] \subseteq Graph(d) /\ Graph(d) \subseteq Digests /\ \A b \in cache[d] : Good(b)
      BY <1>2, <1>3, GraphShape DEF Inv, Kinds, CacheTruthful
    <2>2. /\ f \in Frames /\ f.pc = "hit" /\ f.image = d /\ f.todo = Graph(d) /\ f.same = cache[d]
          /\ f.work = frame[c].work /\ f.quiet = frame[c].quiet /\ f.unseen = frame[c].unseen
      BY <1>2, <2>1 DEF Frames, Pcs
    <2>3. Become(c, f)
      BY <1>1, <1>3
    <2>. HIDE DEF f
    <2>4. Sound(f)
      BY <1>2, <2>1, <2>2 DEF Sound, Placed, Stamped, Undisturbed, Seen, OfOthers, Reading
    <2>. QED
      BY <1>2, <2>2, <2>3, <2>4, OneMoves
  <1>4. CASE d \notin DOMAIN cache
    <2>. DEFINE f == [frame[c] EXCEPT !.pc = "collect", !.image = d, !.todo = {d}]
    <2>1. /\ f \in Frames /\ f.pc = "collect" /\ f.image = d /\ f.todo = {d} /\ f.same = frame[c].same
          /\ f.work = frame[c].work /\ f.quiet = frame[c].quiet /\ f.unseen = frame[c].unseen
      BY <1>2, GraphShape DEF Frames, Pcs
    <2>2. Become(c, f)
      BY <1>1, <1>4
    <2>. HIDE DEF f
    <2>3. Sound(f)
      BY <1>2, <2>1, GraphShape DEF Sound, Placed, Stamped, Undisturbed, Seen, OfOthers, Reading
    <2>. QED
      BY <1>2, <2>1, <2>2, <2>3, OneMoves
  <1>. QED
    BY <1>3, <1>4

LEMMA HitInv ==
  ASSUME Inv, NEW c \in Calls, Hit(c)
  PROVE  Inv'
  <1>1. PICK b \in frame[c].todo :
          Become(c, IF ~SameStamp(c, b)
                      THEN [frame[c] EXCEPT !.pc = "collect", !.todo = {Image(c)}, !.same = {}]
                      ELSE [frame[c] EXCEPT !.todo = frame[c].todo \ {b},
                              !.pc = IF frame[c].todo = {b} THEN "reread" ELSE "hit"])
    BY DEF Hit
  <1>2. /\ frame[c] \in Frames /\ Sound(frame[c]) /\ frame[c].pc = "hit"
        /\ UNCHANGED <<file, cache>>
    BY Now DEF Hit, At
  <1>3. frame[c].image \in frame[c].work /\ frame[c].image \in Images
    BY <1>2 DEF Sound, Placed, Reading, Frames
  <1>4. CASE ~SameStamp(c, b)
    <2>. DEFINE f == [frame[c] EXCEPT !.pc = "collect", !.todo = {Image(c)}, !.same = {}]
    <2>1. /\ f \in Frames /\ f.pc = "collect" /\ f.image = frame[c].image /\ f.todo = {frame[c].image}
          /\ f.same = {} /\ f.work = frame[c].work /\ f.quiet = frame[c].quiet /\ f.unseen = frame[c].unseen
      BY <1>2, <1>3, GraphShape DEF Frames, Pcs, Image
    <2>2. Become(c, f)
      BY <1>1, <1>4
    <2>. HIDE DEF f
    <2>3. Sound(f)
      BY <1>2, <1>3, <2>1, GraphShape DEF Sound, Placed, Stamped, Undisturbed, Seen, OfOthers, Reading
    <2>. QED
      BY <1>2, <2>1, <2>2, <2>3, OneMoves
  <1>5. CASE SameStamp(c, b)
    <2>. DEFINE f == [frame[c] EXCEPT !.todo = frame[c].todo \ {b},
                        !.pc = IF frame[c].todo = {b} THEN "reread" ELSE "hit"]
    <2>1. /\ f \in Frames /\ f.pc = (IF frame[c].todo = {b} THEN "reread" ELSE "hit")
          /\ f.image = frame[c].image /\ f.todo = frame[c].todo \ {b} /\ f.same = frame[c].same
          /\ f.work = frame[c].work /\ f.quiet = frame[c].quiet /\ f.unseen = frame[c].unseen
      BY <1>2 DEF Frames, Pcs
    <2>2. Become(c, f)
      BY <1>1, <1>5
    <2>. HIDE DEF f
    <2>3. Good(b)
      BY <1>2, <1>5 DEF Sound, Stamped, SameStamp
    <2>4. Sound(f)
      BY <1>2, <2>1, <2>3 DEF Sound, Placed, Stamped, Undisturbed, Seen, OfOthers, Reading
    <2>. QED
      BY <1>2, <2>1, <2>2, <2>4, OneMoves
  <1>. QED
    BY <1>4, <1>5

LEMMA CollectInv ==
  ASSUME Inv, NEW c \in Calls, Collect(c)
  PROVE  Inv'
  <1>. DEFINE Below(b) == IF b \in Images THEN Kids[b] ELSE {}
              left(b) == (frame[c].todo \ {b}) \cup Below(b)
              next(b) == [frame[c] EXCEPT !.same = frame[c].same \cup {b},
                            !.pc = IF left(b) = {} THEN "validate" ELSE "collect",
                            !.todo = IF left(b) = {} THEN Graph(Image(c)) ELSE left(b)]
  <1>1. PICK b \in frame[c].todo :
          IF file[b] = None \/ (b \in Images /\ ~Good(b)) THEN Fail(c)
          ELSE Become(c, next(b)) /\ UNCHANGED <<file, cache, dest>>
    BY DEF Collect
  <1>2. /\ frame[c] \in Frames /\ Sound(frame[c]) /\ frame[c].pc = "collect"
    BY Now DEF Collect, At
  <1>3. /\ frame[c].image \in frame[c].work /\ frame[c].image \in Images
        /\ b \in Graph(frame[c].image) /\ frame[c].todo \subseteq Graph(frame[c].image)
        /\ frame[c].same \subseteq Graph(frame[c].image)
    BY <1>2 DEF Sound, Placed, Reading, Frames
  <1>4. CASE Fail(c)
    BY <1>4, ReturnInv DEF Fail
  <1>5. CASE Become(c, next(b)) /\ UNCHANGED <<file, cache>>
    <2>. DEFINE f == next(b)
    <2>1. Below(b) \subseteq Graph(frame[c].image) /\ (b \in Images => b = frame[c].image)
      BY <1>3, GraphShape
    <2>2. left(b) \subseteq Graph(frame[c].image) /\ Graph(frame[c].image) \subseteq Digests
      BY <1>3, <2>1, GraphShape
    <2>3. /\ f \in Frames /\ f.image = frame[c].image /\ f.same = frame[c].same \cup {b}
          /\ f.work = frame[c].work /\ f.quiet = frame[c].quiet /\ f.unseen = frame[c].unseen
          /\ f.pc = IF left(b) = {} THEN "validate" ELSE "collect"
          /\ f.todo = IF left(b) = {} THEN Graph(frame[c].image) ELSE left(b)
      <3>. HIDE DEF left
      <3>. QED
        BY <1>2, <1>3, <2>2 DEF Frames, Pcs, Image
    <2>. HIDE DEF f, next
    <2>4. Placed(f)
      BY <1>3, <2>2, <2>3 DEF Placed, Reading
    <2>5. Stamped(f)
      BY <1>3, <2>3 DEF Stamped
    <2>6. Undisturbed(f)
      <3>1. SUFFICES ASSUME f.quiet
                     PROVE  /\ \A d \in f.work : \A x \in Graph(d) : Good(x)
                            /\ Graph(f.image) \subseteq frame[c].same \cup {b} \cup left(b)
                                   \cup (IF f.image \in left(b) THEN Kids[f.image] ELSE {})
        BY <2>3 DEF Undisturbed
      <3>2. Undisturbed(frame[c]) /\ frame[c].quiet
        BY <1>2, <2>3, <3>1 DEF Sound
      <3>3. CASE b = frame[c].image
        <4>1. Below(b) = Kids[b] /\ Graph(b) = {b} \cup Kids[b]
          BY <1>3, <3>3, GraphShape
        <4>. QED
          BY <2>3, <3>2, <3>3, <4>1 DEF Undisturbed
      <3>4. CASE b # frame[c].image
        BY <1>2, <2>1, <2>3, <3>2, <3>4 DEF Undisturbed
      <3>. QED
        BY <3>3, <3>4
    <2>7. Seen(f)
      BY <1>2, <1>3, <2>3, GraphShape DEF Sound, Seen, OfOthers
    <2>. QED
      BY <1>5, <2>3, <2>4, <2>5, <2>6, <2>7, OneMoves DEF f, Sound
  <1>. QED
    BY <1>1, <1>4, <1>5

LEMMA ValidateInv ==
  ASSUME Inv, NEW c \in Calls, Validate(c)
  PROVE  Inv'
  <1>1. PICK b \in frame[c].todo :
          IF ~Good(b) THEN Fail(c)
          ELSE /\ Become(c, [frame[c] EXCEPT
                               !.pc = IF frame[c].todo = {b} THEN "compare" ELSE "validate",
                               !.todo = IF frame[c].todo = {b} THEN Graph(Image(c))
                                        ELSE frame[c].todo \ {b}])
               /\ UNCHANGED <<file, cache, dest>>
    BY DEF Validate
  <1>2. /\ frame[c] \in Frames /\ Sound(frame[c]) /\ frame[c].pc = "validate"
        /\ frame[c].image \in Images
    BY Now DEF Validate, At, Sound, Placed, Reading, Frames
  <1>3. CASE ~Good(b)
    BY <1>1, <1>3, ReturnInv DEF Fail
  <1>4. CASE Good(b)
    <2>. DEFINE f == [frame[c] EXCEPT !.pc = IF frame[c].todo = {b} THEN "compare" ELSE "validate",
                        !.todo = IF frame[c].todo = {b} THEN Graph(Image(c))
                                 ELSE frame[c].todo \ {b}]
    <2>1. /\ f \in Frames /\ f.image = frame[c].image /\ f.same = frame[c].same
          /\ f.work = frame[c].work /\ f.quiet = frame[c].quiet /\ f.unseen = frame[c].unseen
          /\ f.pc = IF frame[c].todo = {b} THEN "compare" ELSE "validate"
          /\ f.todo = IF frame[c].todo = {b} THEN Graph(frame[c].image) ELSE frame[c].todo \ {b}
      BY <1>2, GraphShape DEF Frames, Pcs, Image
    <2>2. Become(c, f) /\ UNCHANGED <<file, cache>>
      BY <1>1, <1>4
    <2>. HIDE DEF f
    <2>3. Sound(f)
      BY <1>2, <1>4, <2>1 DEF Sound, Placed, Stamped, Undisturbed, Seen, OfOthers, Reading
    <2>. QED
      BY <2>1, <2>2, <2>3, OneMoves
  <1>. QED
    BY <1>3, <1>4

LEMMA CompareInv ==
  ASSUME Inv, NEW c \in Calls, Compare(c)
  PROVE  Inv'
  <1>1. PICK b \in frame[c].todo :
          IF ~SameStamp(c, b) THEN Fail(c)
          ELSE /\ Become(c, [frame[c] EXCEPT
                               !.pc = IF frame[c].todo = {b} THEN "remember" ELSE "compare",
                               !.todo = frame[c].todo \ {b}])
               /\ UNCHANGED <<file, cache, dest>>
    BY DEF Compare
  <1>2. frame[c] \in Frames /\ Sound(frame[c]) /\ frame[c].pc = "compare"
    BY Now DEF Compare, At
  <1>3. CASE ~SameStamp(c, b)
    BY <1>1, <1>3, ReturnInv DEF Fail
  <1>4. CASE SameStamp(c, b)
    <2>. DEFINE f == [frame[c] EXCEPT !.pc = IF frame[c].todo = {b} THEN "remember" ELSE "compare",
                        !.todo = frame[c].todo \ {b}]
    <2>1. /\ f \in Frames /\ f.image = frame[c].image /\ f.same = frame[c].same
          /\ f.work = frame[c].work /\ f.quiet = frame[c].quiet /\ f.unseen = frame[c].unseen
          /\ f.pc \in {"remember", "compare"} /\ f.todo = frame[c].todo \ {b}
      BY <1>2 DEF Frames, Pcs
    <2>2. Become(c, f) /\ UNCHANGED <<file, cache>>
      BY <1>1, <1>4
    <2>. HIDE DEF f
    <2>3. Sound(f)
      BY <1>2, <2>1 DEF Sound, Placed, Stamped, Undisturbed, Seen, OfOthers, Reading
    <2>. QED
      BY <2>1, <2>2, <2>3, OneMoves
  <1>. QED
    BY <1>3, <1>4

LEMMA RememberInv ==
  ASSUME Inv, NEW c \in Calls, Remember(c)
  PROVE  Inv'
  <1>. DEFINE kept == IF Cardinality(DOMAIN cache) >= CacheLimit THEN <<>> ELSE cache
              f == [frame[c] EXCEPT !.pc = "reread", !.same = {}]
              next == [d \in DOMAIN kept \cup {Image(c)} |->
                         IF d = Image(c) THEN frame[c].same ELSE kept[d]]
  <1>1. cache' = next /\ Become(c, f) /\ file' = file /\ frame[c].pc = "remember"
    BY DEF Remember, At
  <1>2. /\ frame[c] \in Frames /\ Sound(frame[c]) /\ frame[c].image \in Images
        /\ frame[c].same \subseteq Graph(frame[c].image) /\ \A b \in frame[c].same : Good(b)
    BY <1>1, Now DEF Sound, Placed, Stamped, Reading, Frames
  <1>3. /\ f \in Frames /\ f.image = frame[c].image /\ f.same = {} /\ f.todo = frame[c].todo
        /\ f.work = frame[c].work /\ f.quiet = frame[c].quiet /\ f.unseen = frame[c].unseen /\ f.pc = "reread"
    BY <1>2 DEF Frames, Pcs
  <1>4. DOMAIN kept \subseteq DOMAIN cache /\ \A d \in DOMAIN kept : kept[d] = cache[d]
    <2>1. DOMAIN <<>> = {}
      OBVIOUS
    <2>. QED
      BY <2>1
  <1>. HIDE DEF kept, f
  <1>5. /\ DOMAIN cache' = DOMAIN kept \cup {frame[c].image}
        /\ \A d \in DOMAIN cache' :
             \/ d = frame[c].image /\ cache'[d] = frame[c].same
             \/ d \in DOMAIN cache /\ cache'[d] = cache[d]
    <2>1. cache' = [d \in DOMAIN kept \cup {frame[c].image} |->
                      IF d = frame[c].image THEN frame[c].same ELSE kept[d]]
      BY <1>1 DEF Image
    <2>2. DOMAIN cache' = DOMAIN kept \cup {frame[c].image}
      BY <2>1
    <2>3. \A d \in DOMAIN kept \cup {frame[c].image} :
             \/ d = frame[c].image /\ cache'[d] = frame[c].same
             \/ d \in DOMAIN cache /\ cache'[d] = cache[d]
      BY <1>4, <2>1
    <2>. QED
      BY <2>2, <2>3
  <1>6. Sound(f)
    BY <1>1, <1>2, <1>3 DEF Sound, Placed, Stamped, Undisturbed, Seen, OfOthers, Reading
  <1>7. frame' \in [Calls -> Frames] /\ frame'[c] = f /\ \A d \in Calls \ {c} : frame'[d] = frame[d]
    BY <1>1, <1>3 DEF Become, Inv, Kinds
  <1>8. Kinds'
    BY <1>1, <1>2, <1>4, <1>5, <1>7 DEF Inv, Kinds
  <1>9. CacheTruthful'
    BY <1>1, <1>2, <1>5 DEF Inv, CacheTruthful, Good
  <1>10. \A d \in Calls : Sound(frame'[d])
    BY <1>6, <1>7 DEF Inv
  <1>11. \A d \in Calls : Sound(frame[d])'
    BY <1>1, <1>10 DEF Sound, Placed, Stamped, Undisturbed, Seen, OfOthers, Good
  <1>. QED
    BY <1>8, <1>9, <1>11 DEF Inv

LEMMA RereadInv ==
  ASSUME Inv, NEW c \in Calls, Reread(c)
  PROVE  Inv'
  <1>1. /\ frame[c].pc = "reread"
        /\ IF ~Good(Image(c)) THEN Fail(c)
           ELSE /\ Become(c, [frame[c] EXCEPT
                                !.pc = IF frame[c].work = {Image(c)} THEN "served" ELSE "cached",
                                !.work = frame[c].work \ {Image(c)}, !.image = None, !.same = {}])
                /\ UNCHANGED <<file, cache, dest>>
    BY DEF Reread, At
  <1>2. frame[c] \in Frames /\ Sound(frame[c])
    BY Now
  <1>3. CASE ~Good(Image(c))
    BY <1>1, <1>3, ReturnInv DEF Fail
  <1>4. CASE Good(Image(c))
    <2>. DEFINE f == [frame[c] EXCEPT !.pc = IF frame[c].work = {Image(c)} THEN "served" ELSE "cached",
                        !.work = frame[c].work \ {Image(c)}, !.image = None, !.same = {}]
    <2>1. /\ f \in Frames /\ f.pc = (IF frame[c].work = {frame[c].image} THEN "served" ELSE "cached")
          /\ f.same = {} /\ f.work = frame[c].work \ {frame[c].image} /\ f.quiet = frame[c].quiet /\ f.unseen = frame[c].unseen
      BY <1>2 DEF Frames, Pcs, Image
    <2>2. Become(c, f) /\ UNCHANGED <<file, cache>>
      BY <1>1, <1>4
    <2>. HIDE DEF f
    <2>3. Placed(f) /\ Stamped(f) /\ Undisturbed(f)
      BY <1>2, <2>1 DEF Sound, Placed, Stamped, Undisturbed, Reading
    <2>4. \A b \in f.unseen : ~Good(b) /\ \E d \in f.work : b \in Graph(d)
      BY <1>1, <1>2, <2>1 DEF Sound, Seen, OfOthers
    <2>5. f.pc = "served" => f.unseen = {}
      BY <2>1, <2>4
    <2>6. Sound(f)
      BY <2>1, <2>3, <2>4, <2>5 DEF Sound, Seen
    <2>. QED
      BY <2>1, <2>2, <2>6, OneMoves
  <1>. QED
    BY <1>3, <1>4

LEMMA ExportReadsInv ==
  ASSUME Inv, NEW c \in Calls, ExportReads(c)
  PROVE  Inv'
  <1>1. PICK b \in frame[c].todo :
          IF ~Good(b) \/ (frame[c].todo = {b} /\ dest) THEN Fail(c)
          ELSE /\ Become(c, [frame[c] EXCEPT
                               !.pc = IF frame[c].todo = {b} THEN "copy" ELSE "graph",
                               !.todo = IF frame[c].todo = {b} THEN Graph(Image(c))
                                        ELSE frame[c].todo \ {b}])
               /\ UNCHANGED <<file, cache, dest>>
    BY DEF ExportReads
  <1>2. /\ frame[c] \in Frames /\ frame[c].image \in Images /\ frame[c].quiet = FALSE
        /\ frame[c].unseen \subseteq frame[c].todo /\ \A x \in frame[c].unseen : ~Good(x)
    BY Now DEF ExportReads, At, Sound, Placed, Undisturbed, Seen, Frames
  <1>3. CASE Fail(c)
    BY <1>3, ReturnInv DEF Fail
  <1>4. CASE ~Fail(c)
    <2>. DEFINE f == [frame[c] EXCEPT !.pc = IF frame[c].todo = {b} THEN "copy" ELSE "graph",
                        !.todo = IF frame[c].todo = {b} THEN Graph(Image(c))
                                 ELSE frame[c].todo \ {b}]
    <2>1. /\ f \in Frames /\ f.image \in Images /\ f.quiet = FALSE /\ f.unseen = frame[c].unseen
          /\ f.pc = (IF frame[c].todo = {b} THEN "copy" ELSE "graph")
          /\ frame[c].todo # {b} => f.todo = frame[c].todo \ {b}
      BY <1>2, GraphShape DEF Frames, Pcs, Image
    <2>2. Become(c, f) /\ UNCHANGED <<file, cache>>
      BY <1>1, <1>4
    <2>. HIDE DEF f
    <2>3. Good(b)
      BY <1>1, <1>4
    <2>4. Sound(f)
      BY <1>2, <2>1, <2>3 DEF Sound, Placed, Stamped, Undisturbed, Seen, OfOthers, Reading
    <2>. QED
      BY <2>1, <2>2, <2>4, OneMoves
  <1>. QED
    BY <1>3, <1>4

LEMMA CopyInv ==
  ASSUME Inv, NEW c \in Calls, Copy(c)
  PROVE  Inv'
  <1>1. PICK b \in frame[c].todo :
          IF file[b] = None \/ (b \in Images /\ ~Good(b)) THEN Fail(c)
          ELSE /\ Become(c, [frame[c] EXCEPT
                               !.pc = IF frame[c].todo = {b} THEN "link" ELSE "copy",
                               !.todo = frame[c].todo \ {b}])
               /\ UNCHANGED <<file, cache, dest>>
    BY DEF Copy
  <1>2. /\ frame[c] \in Frames /\ frame[c].image \in Images /\ frame[c].quiet = FALSE
        /\ frame[c].unseen = {}
    BY Now DEF Copy, At, Sound, Placed, Undisturbed, Seen, Frames
  <1>3. CASE Fail(c)
    BY <1>3, ReturnInv DEF Fail
  <1>4. CASE ~Fail(c)
    <2>. DEFINE f == [frame[c] EXCEPT !.pc = IF frame[c].todo = {b} THEN "link" ELSE "copy",
                        !.todo = frame[c].todo \ {b}]
    <2>1. /\ f \in Frames /\ f.image \in Images /\ f.quiet = FALSE /\ f.pc \in {"copy", "link"}
          /\ f.unseen = {}
      BY <1>2 DEF Frames, Pcs
    <2>2. Become(c, f) /\ UNCHANGED <<file, cache>>
      BY <1>1, <1>4
    <2>. HIDE DEF f
    <2>3. Sound(f)
      BY <2>1 DEF Sound, Placed, Stamped, Undisturbed, Seen, OfOthers, Reading
    <2>. QED
      BY <2>1, <2>2, <2>3, OneMoves
  <1>. QED
    BY <1>3, <1>4

LEMMA CancelInv ==
  ASSUME Inv, NEW c \in Calls, Cancel(c)
  PROVE  Inv'
  <1>. DEFINE f == [Idle EXCEPT !.pc = "cancelled", !.quiet = FALSE]
  <1>1. f \in Frames /\ f.pc = "cancelled" /\ f.quiet = FALSE /\ f.unseen = {}
    BY DEF Idle, Frames, Pcs
  <1>2. Become(c, f) /\ UNCHANGED <<file, cache>>
    BY DEF Cancel
  <1>. HIDE DEF f
  <1>3. Sound(f)
    BY <1>1 DEF Sound, Placed, Stamped, Undisturbed, Seen, OfOthers, Reading
  <1>. QED
    BY <1>1, <1>2, <1>3, OneMoves

\* A call's own steps.
LEMMA StepInv ==
  ASSUME Inv, NEW c \in Calls, Step(c)
  PROVE  Inv'
  <1>1. CASE Returns(c)
    BY <1>1, ReturnInv DEF Returns
  <1>2. CASE Link(c)
    BY <1>2, ReturnInv DEF Link, Fail
  <1>. QED
    BY <1>1, <1>2, ReadRootInv, LookupInv, HitInv, CollectInv, ValidateInv, CompareInv, RememberInv, RereadInv,
       ExportReadsInv, CopyInv DEF Step

-----------------------------------------------------------------------------
(* A file changes: nobody's stamp of it counts any more.                   *)

LEMMA ChangeInv ==
  ASSUME Inv, NEW b \in Digests, NEW to, Change(b, to)
  PROVE  Inv'
  <1>1. /\ DOMAIN file' = Digests /\ \A x \in Digests : x # b => file'[x] = file[x]
        /\ file'[b] = to
    BY DEF Change, Inv, Kinds
  <1>2. DOMAIN cache' = DOMAIN cache /\ \A d \in DOMAIN cache : cache'[d] = cache[d] \ {b}
    BY DEF Change
  <1>3. ASSUME NEW c \in Calls
        PROVE  /\ frame'[c] \in Frames
               /\ frame'[c].pc = frame[c].pc /\ frame'[c].work = frame[c].work
               /\ frame'[c].image = frame[c].image /\ frame'[c].todo = frame[c].todo
               /\ frame'[c].same = frame[c].same \ {b}
               /\ frame'[c].quiet =>
                    /\ frame[c].quiet /\ \A d \in frame[c].work : b \notin Graph(d)
                    /\ frame[c].pc = "root" => \A d \in frame[c].work : b # Root[d]
               /\ frame'[c].unseen \subseteq frame[c].unseen
               /\ to = "good" => b \notin frame'[c].unseen
    <2>. DEFINE q == frame[c].quiet /\ b \notin Needed(frame[c].pc, frame[c].work)
                u == IF to = "good" THEN frame[c].unseen \ {b} ELSE frame[c].unseen
    <2>1. frame[c] \in Frames
      BY Now
    <2>2. /\ q \in BOOLEAN
          /\ q => /\ frame[c].quiet /\ \A d \in frame[c].work : b \notin Graph(d)
                  /\ frame[c].pc = "root" => \A d \in frame[c].work : b # Root[d]
      BY NeededShape
    <2>3. frame'[c] = [frame[c] EXCEPT !.same = frame[c].same \ {b}, !.quiet = q, !.unseen = u]
      BY DEF Change
    <2>4. u \subseteq frame[c].unseen /\ (to = "good" => b \notin u) /\ u \in SUBSET Digests
      BY <2>1 DEF Frames
    <2>. HIDE DEF q, u
    <2>. QED
      BY <2>1, <2>2, <2>3, <2>4 DEF Frames
  <1>4. frame' \in [Calls -> Frames]
    <2>1. DOMAIN frame' = Calls /\ frame' = [c \in Calls |-> frame'[c]]
      BY DEF Change
    <2>. QED
      BY <1>3, <2>1
  <1>5. Kinds'
    BY <1>1, <1>2, <1>4 DEF Inv, Kinds
  <1>6. CacheTruthful'
    BY <1>1, <1>2, GraphShape DEF Inv, Kinds, CacheTruthful, Good
  <1>7. ASSUME NEW c \in Calls
        PROVE  Sound(frame[c])'
    <2>1. frame[c] \in Frames /\ Sound(frame[c])
      BY Now
    <2>2. Placed(frame[c])'
      BY <1>3, <2>1 DEF Sound, Placed, Reading
    <2>3. Stamped(frame[c])'
      BY <1>1, <1>3, <2>1 DEF Sound, Stamped, Good, Frames
    <2>4. Undisturbed(frame[c])'
      <3>1. SUFFICES ASSUME frame'[c].quiet
                     PROVE  Undisturbed(frame[c])'
        BY DEF Undisturbed
      <3>2. frame[c].quiet /\ (\A d \in frame[c].work : b \notin Graph(d)) /\ Undisturbed(frame[c])
        BY <1>3, <2>1, <3>1 DEF Sound
      <3>3. \A d \in frame[c].work : \A x \in Graph(d) : Good(x)'
        BY <1>1, <2>1, <3>2, GraphShape DEF Undisturbed, Good, Frames
      <3>4. frame[c].pc \in Reading => b \notin Graph(frame[c].image)
        BY <2>1, <3>2 DEF Sound, Placed
      <3>5. frame[c].pc = "root" => \A d \in frame[c].work : Good(Root[d])'
        BY <1>1, <1>3, <2>1, <3>1, <3>2, ImageVerifyAssumption DEF Undisturbed, Good, Frames
      <3>. QED
        BY <1>3, <3>2, <3>3, <3>4, <3>5 DEF Undisturbed, Reading
    <2>5. Seen(frame[c])'
      <3>1. \A x \in frame'[c].unseen : ~Good(x)'
        BY <1>1, <1>3, <2>1 DEF Sound, Seen, Good, Frames
      <3>. QED
        BY <1>3, <2>1, <3>1 DEF Sound, Seen, OfOthers
    <2>. QED
      BY <2>2, <2>3, <2>4, <2>5 DEF Sound
  <1>. QED
    BY <1>5, <1>6, <1>7 DEF Inv

-----------------------------------------------------------------------------
(* Theorems.                                                               *)

LEMMA InitInv == Init => Inv
  <1>1. SUFFICES ASSUME Init PROVE Inv
    OBVIOUS
  <1>2. DOMAIN cache = {}
    BY <1>1 DEF Init
  <1>3. \A c \in Calls : frame[c] = Idle
    BY <1>1 DEF Init
  <1>. QED
    BY <1>1, <1>2, <1>3, IdleSound DEF Init, Inv, Kinds, CacheTruthful

LEMMA NextInv == Inv /\ [Next]_vars => Inv'
  <1>1. SUFFICES ASSUME Inv, [Next]_vars PROVE Inv'
    OBVIOUS
  <1>2. CASE OtherFile \/ UNCHANGED vars
    BY <1>1, <1>2 DEF OtherFile, vars, Inv, Kinds, CacheTruthful, Sound, Placed, Stamped, Undisturbed, Seen, OfOthers, Good
  <1>3. ASSUME NEW b \in Digests, Republish(b) \/ Damage(b) \/ Delete(b)
        PROVE  Inv'
    BY <1>1, <1>3, ChangeInv DEF Republish, Damage, Delete
  <1>. QED
    BY <1>1, <1>2, <1>3, AskInv, StepInv, CancelInv DEF Next

\* The invariant of every reading: the cache and the calls hold stamps of files
\* that were read since they had them.
THEOREM InvEver == Spec => []Inv
  BY InitInv, NextInv, PTL DEF Spec

\* Whatever the interleaving of readings with publications, damage and deletion,
\* the cache would only be believed about files that are good.
THEOREM CacheTruthfulEver == Spec => []CacheTruthful
  <1>1. Inv => CacheTruthful
    BY DEF Inv
  <1>. QED
    BY <1>1, InvEver, PTL

\* A step that ends a call which no change met is its return with a result.
LEMMA QuietEndsServed ==
  ASSUME Inv, [Next]_vars, NEW c \in Calls,
         frame[c].quiet, ~At(c, "idle"), frame'[c].pc = "idle"
  PROVE  At(c, "served")
  <1>1. frame[c] \in Frames /\ Sound(frame[c])
    BY Now
  <1>2. ~UNCHANGED frame
    BY DEF At
  <1>3. ASSUME NEW b \in Digests, NEW to, Change(b, to)
        PROVE  FALSE
    <2>1. frame'[c].pc = frame[c].pc
      BY <1>1, <1>3 DEF Change, Frames
    <2>. QED
      BY <2>1 DEF At
  <1>4. ASSUME NEW d \in Calls, d # c, NEW f, Become(d, f)
        PROVE  FALSE
    BY <1>4 DEF Become, At, Inv, Kinds
  <1>5. ASSUME NEW f, Become(c, f)
        PROVE  frame'[c] = f
    BY <1>5 DEF Become, Inv, Kinds
  <1>6. PICK d \in Calls : Request(d) \/ Step(d) \/ Cancel(d)
    BY <1>2, <1>3 DEF Next, vars, Republish, Damage, Delete, OtherFile
  <1>7. d = c
    <2>1. \E f : Become(d, f)
      BY <1>6 DEF Request, Ask, AskExport, Step, Cancel, ReadRoot, Lookup, Hit, Collect, Validate, Compare,
           Remember, Reread, Returns, ExportReads, Copy, Link, Fail, Return
    <2>. QED
      BY <1>4, <2>1
  <1>8. ~Request(c)
    BY DEF Request, Ask, AskExport
  <1>9. ~Cancel(c)
    <2>1. SUFFICES ASSUME Cancel(c) PROVE FALSE
      OBVIOUS
    <2>2. [Idle EXCEPT !.pc = "cancelled", !.quiet = FALSE].pc = "cancelled"
      BY DEF Idle
    <2>. QED
      BY <1>5, <2>1, <2>2 DEF Cancel
  <1>10. ~ExportReads(c) /\ ~Copy(c) /\ ~Link(c)
    BY <1>1 DEF ExportReads, Copy, Link, At, Sound, Undisturbed
  <1>11. frame[c].pc \in Reading =>
            /\ frame[c].image \in frame[c].work /\ frame[c].image \in Images
            /\ \A b \in Graph(frame[c].image) : Good(b)
    BY <1>1 DEF Sound, Placed, Undisturbed, Frames
  <1>20. ~ReadRoot(c)
    <2>1. SUFFICES ASSUME ReadRoot(c) PROVE FALSE
      OBVIOUS
    <2>2. \A x \in frame[c].work : Good(Root[x])
      BY <1>1, <2>1 DEF ReadRoot, At, Sound, Undisturbed
    <2>3. frame'[c] = [frame[c] EXCEPT !.pc = "cached"]
      BY <1>5, <2>1, <2>2 DEF ReadRoot
    <2>. QED
      BY <1>1, <2>3 DEF Frames
  <1>12. ~Lookup(c)
    <2>1. SUFFICES ASSUME Lookup(c) PROVE FALSE
      OBVIOUS
    <2>2. PICK x \in frame[c].work :
            frame'[c] = IF x \in DOMAIN cache
                          THEN [frame[c] EXCEPT !.pc = "hit", !.image = x, !.todo = Graph(x), !.same = cache[x]]
                          ELSE [frame[c] EXCEPT !.pc = "collect", !.image = x, !.todo = {x}]
      BY <1>5, <2>1 DEF Lookup
    <2>. QED
      BY <1>1, <2>2 DEF Frames
  <1>13. ~Hit(c)
    <2>1. SUFFICES ASSUME Hit(c) PROVE FALSE
      OBVIOUS
    <2>2. PICK b \in frame[c].todo :
            frame'[c] = IF ~SameStamp(c, b)
                          THEN [frame[c] EXCEPT !.pc = "collect", !.todo = {Image(c)}, !.same = {}]
                          ELSE [frame[c] EXCEPT !.todo = frame[c].todo \ {b},
                                  !.pc = IF frame[c].todo = {b} THEN "reread" ELSE "hit"]
      BY <1>5, <2>1 DEF Hit
    <2>. QED
      BY <1>1, <2>2 DEF Frames
  <1>14. ~Collect(c)
    <2>. DEFINE left(b) == (frame[c].todo \ {b}) \cup (IF b \in Images THEN Kids[b] ELSE {})
    <2>1. SUFFICES ASSUME Collect(c) PROVE FALSE
      OBVIOUS
    <2>2. PICK b \in frame[c].todo :
            ~(file[b] = None \/ (b \in Images /\ ~Good(b))) =>
              frame'[c] = [frame[c] EXCEPT !.same = frame[c].same \cup {b},
                                !.pc = IF left(b) = {} THEN "validate" ELSE "collect",
                                !.todo = IF left(b) = {} THEN Graph(Image(c)) ELSE left(b)]
      BY <1>5, <2>1 DEF Collect
    <2>3. Good(b) /\ file[b] # None
      BY <1>1, <1>11, <2>1, ImageVerifyAssumption DEF Collect, At, Reading, Sound, Placed, Good
    <2>. HIDE DEF left
    <2>4. frame'[c].pc = IF left(b) = {} THEN "validate" ELSE "collect"
      BY <1>1, <2>2, <2>3 DEF Frames
    <2>. QED
      BY <2>4
  <1>15. ~Validate(c)
    <2>1. SUFFICES ASSUME Validate(c) PROVE FALSE
      OBVIOUS
    <2>2. PICK b \in frame[c].todo :
            Good(b) =>
              frame'[c] = [frame[c] EXCEPT
                                !.pc = IF frame[c].todo = {b} THEN "compare" ELSE "validate",
                                !.todo = IF frame[c].todo = {b} THEN Graph(Image(c))
                                         ELSE frame[c].todo \ {b}]
      BY <1>5, <2>1 DEF Validate
    <2>3. Good(b)
      BY <1>1, <1>11, <2>1 DEF Validate, At, Reading, Sound, Placed
    <2>4. frame'[c].pc = IF frame[c].todo = {b} THEN "compare" ELSE "validate"
      BY <1>1, <2>2, <2>3 DEF Frames
    <2>. QED
      BY <2>4
  <1>16. ~Compare(c)
    <2>1. SUFFICES ASSUME Compare(c) PROVE FALSE
      OBVIOUS
    <2>2. PICK b \in frame[c].todo :
            SameStamp(c, b) =>
              frame'[c] = [frame[c] EXCEPT
                                !.pc = IF frame[c].todo = {b} THEN "remember" ELSE "compare",
                                !.todo = frame[c].todo \ {b}]
      BY <1>5, <2>1 DEF Compare
    <2>3. SameStamp(c, b)
      BY <1>1, <2>1 DEF Compare, At, Reading, Sound, Placed, Undisturbed, SameStamp
    <2>4. frame'[c].pc = IF frame[c].todo = {b} THEN "remember" ELSE "compare"
      BY <1>1, <2>2, <2>3 DEF Frames
    <2>. QED
      BY <2>4
  <1>17. ~Remember(c)
    <2>1. SUFFICES ASSUME Remember(c) PROVE FALSE
      OBVIOUS
    <2>2. frame'[c] = [frame[c] EXCEPT !.pc = "reread", !.same = {}]
      BY <1>5, <2>1 DEF Remember
    <2>. QED
      BY <1>1, <2>2 DEF Frames
  <1>18. ~Reread(c)
    <2>1. SUFFICES ASSUME Reread(c) PROVE FALSE
      OBVIOUS
    <2>2. Good(Image(c)) =>
            frame'[c] = [frame[c] EXCEPT
                              !.pc = IF frame[c].work = {Image(c)} THEN "served" ELSE "cached",
                              !.work = frame[c].work \ {Image(c)}, !.image = None, !.same = {}]
      BY <1>5, <2>1 DEF Reread
    <2>3. Good(Image(c))
      BY <1>11, <2>1, GraphShape DEF Reread, At, Reading, Image
    <2>4. frame'[c].pc = IF frame[c].work = {Image(c)} THEN "served" ELSE "cached"
      BY <1>1, <2>2, <2>3 DEF Frames
    <2>. QED
      BY <2>4
  <1>19. ~(Returns(c) /\ At(c, "cancelled"))
    BY <1>1 DEF At, Sound, Undisturbed
  <1>. QED
    BY <1>6, <1>7, <1>8, <1>9, <1>10, <1>12, <1>13, <1>14, <1>15, <1>16, <1>17, <1>18, <1>19, <1>20
       DEF Step, Returns

\* A call that no change met, of files that are all good, ends with a result,
\* whatever the cache remembers of earlier files.
THEOREM RepairedIsServedEver == Spec => RepairedIsServed
  <1>1. Inv /\ [Next]_vars =>
          [\A c \in Calls :
             frame[c].quiet /\ ~At(c, "idle") /\ frame'[c].pc = "idle" => At(c, "served")]_vars
    BY QuietEndsServed
  <1>. QED
    BY <1>1, InvEver, PTL DEF Spec, RepairedIsServed

\* What Resolve and List return and Export publishes was good: each of its files was
\* so at some moment of the call, whatever damage, deletion and publication met it.
THEOREM ServedWasGoodEver == Spec => []ServedWasGood
  <1>1. Inv => ServedWasGood
    BY DEF Inv, Sound, Seen, ServedWasGood
  <1>. QED
    BY <1>1, InvEver, PTL
=============================================================================
