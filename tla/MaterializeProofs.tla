-------------------------- MODULE MaterializeProofs --------------------------
(***************************************************************************)
(* Proofs about Client.Materialize, for any finite number of calls and any *)
(* references, images and archives.  First the locks by reference, alone:  *)
(* one owner of a reference at a time, and no entry that outlives its      *)
(* users.  Then what the owner does: the calls of Materialize take the     *)
(* steps of the locks, and a sandbox is created only of an image with the  *)
(* content of its source.                                                  *)
(***************************************************************************)
EXTENDS Materialize, FiniteSetTheorems, TLAPS

Holder(c) == pc[c] \in {"took", "owner"}
UsersOf(f, e) == {c \in Callers : f[c] = e}

\* A call in progress uses the entry that the map has for its reference.
CallInv ==
  \A c \in Callers :
    IF pc[c] = "idle" THEN ref[c] = None /\ ent[c] = None
    ELSE ref[c] \in Refs /\ ent[c] \in Entries /\ entries[ref[c]] = ent[c]

MapInv ==
  /\ \A r1, r2 \in Refs : entries[r1] = entries[r2] /\ entries[r1] # None => r1 = r2
  /\ \A r \in Refs : entries[r] # None => UsersOf(ent, entries[r]) # {}

Counted == \A e \in Entries : refs[e] = Cardinality(UsersOf(ent, e))

TokenInv ==
  /\ \A c \in Callers : Holder(c) => ent[c] \in held
  /\ \A c1, c2 \in Callers : Holder(c1) /\ Holder(c2) /\ ent[c1] = ent[c2] => c1 = c2

Inv == TypeOK /\ CallInv /\ MapInv /\ Counted /\ TokenInv

-----------------------------------------------------------------------------
(* Counting.                                                               *)

LEMMA UsersFinite ==
  ASSUME NEW f, NEW e
  PROVE  IsFiniteSet(UsersOf(f, e)) /\ Cardinality(UsersOf(f, e)) \in Nat
  <1>1. UsersOf(f, e) \in SUBSET Callers
    BY DEF UsersOf
  <1>. QED
    BY <1>1, CacheLocksAssumption, FS_Subset, FS_CardinalityType

LEMMA UserAdded ==
  ASSUME NEW c \in Callers, NEW e \in Entries, ent[c] = None, DOMAIN ent = Callers,
         ent' = [ent EXCEPT ![c] = e]
  PROVE  /\ Cardinality(UsersOf(ent', e)) = Cardinality(UsersOf(ent, e)) + 1
         /\ \A d \in Entries : d # e => UsersOf(ent', d) = UsersOf(ent, d)
  <1>1. UsersOf(ent', e) = UsersOf(ent, e) \cup {c} /\ c \notin UsersOf(ent, e)
    BY CacheLocksAssumption DEF UsersOf
  <1>2. \A d \in Entries : d # e => UsersOf(ent', d) = UsersOf(ent, d)
    BY CacheLocksAssumption DEF UsersOf
  <1>. QED
    BY <1>1, <1>2, UsersFinite, FS_AddElement

LEMMA UserRemoved ==
  ASSUME NEW c \in Callers, ent[c] \in Entries, DOMAIN ent = Callers,
         ent' = [ent EXCEPT ![c] = None]
  PROVE  /\ UsersOf(ent', ent[c]) = UsersOf(ent, ent[c]) \ {c}
         /\ Cardinality(UsersOf(ent, ent[c]) \ {c}) = Cardinality(UsersOf(ent, ent[c])) - 1
         /\ \A d \in Entries : d # ent[c] => UsersOf(ent', d) = UsersOf(ent, d)
  <1>1. c \in UsersOf(ent, ent[c]) /\ ent[c] # None
    BY CacheLocksAssumption DEF UsersOf
  <1>2. \A d \in Entries : UsersOf(ent', d) = UsersOf(ent, d) \ {c}
    BY CacheLocksAssumption DEF UsersOf
  <1>3. \A d \in Entries : d # ent[c] => c \notin UsersOf(ent, d)
    BY DEF UsersOf
  <1>4. Cardinality(UsersOf(ent, ent[c]) \ {c}) = Cardinality(UsersOf(ent, ent[c])) - 1
    BY <1>1, UsersFinite, FS_RemoveElement
  <1>. QED
    BY <1>2, <1>3, <1>4

\* The last user of an entry is its only one.
LEMMA LastUser ==
  ASSUME Inv, NEW c \in Callers, pc[c] # "idle"
  PROVE  refs[ent[c]] = 1 <=> UsersOf(ent, ent[c]) \ {c} = {}
  <1>1. ent[c] \in Entries /\ refs[ent[c]] = Cardinality(UsersOf(ent, ent[c])) /\ c \in UsersOf(ent, ent[c])
    BY DEF Inv, CallInv, Counted, UsersOf
  <1>2. /\ IsFiniteSet(UsersOf(ent, ent[c]) \ {c})
        /\ Cardinality(UsersOf(ent, ent[c]) \ {c}) = Cardinality(UsersOf(ent, ent[c])) - 1
    BY <1>1, UsersFinite, FS_RemoveElement
  <1>3. Cardinality(UsersOf(ent, ent[c]) \ {c}) = 0 <=> UsersOf(ent, ent[c]) \ {c} = {}
    BY <1>2, FS_EmptySet
  <1>. QED
    BY <1>1, <1>2, <1>3, UsersFinite

-----------------------------------------------------------------------------
(* The steps.                                                              *)

LEMMA AcquireInv ==
  ASSUME Inv, NEW c \in Callers, NEW r \in Refs, Acquire(c, r)
  PROVE  Inv'
  <1>1. PICK e \in Lookup(r) :
          /\ entries' = [entries EXCEPT ![r] = e]
          /\ refs' = [refs EXCEPT ![e] = IF entries[r] = None THEN 1 ELSE refs[e] + 1]
          /\ ent' = [ent EXCEPT ![c] = e]
    BY DEF Acquire
  <1>2. /\ ref' = [ref EXCEPT ![c] = r] /\ pc' = [pc EXCEPT ![c] = "waiting"]
        /\ held' = held /\ done' = done
        /\ pc[c] = "idle" /\ ent[c] = None /\ ref[c] = None
    BY DEF Acquire, Inv, CallInv
  <1>3. TypeOK
    BY DEF Inv
  <1>4. e \in Entries /\ e # None
    BY <1>1, <1>3, CacheLocksAssumption DEF Lookup, TypeOK
  <1>5. /\ entries[r] # None => entries[r] = e
        /\ entries[r] = None => Free(e)
    BY <1>1 DEF Lookup
  <1>6. /\ Cardinality(UsersOf(ent', e)) = Cardinality(UsersOf(ent, e)) + 1
        /\ \A d \in Entries : d # e => UsersOf(ent', d) = UsersOf(ent, d)
    BY <1>1, <1>2, <1>3, <1>4, UserAdded DEF TypeOK
  <1>7. refs[e] \in Nat /\ refs[e] = Cardinality(UsersOf(ent, e))
    BY <1>3, <1>4 DEF TypeOK, Inv, Counted
  <1>8. refs'[e] = refs[e] + 1
    <2>1. CASE entries[r] = None
      <3>1. UsersOf(ent, e) = {}
        BY <1>5, <2>1 DEF Free, UsersOf
      <3>2. refs[e] = 0
        BY <1>7, <3>1, FS_EmptySet
      <3>. QED
        BY <1>1, <1>3, <1>4, <2>1, <3>2 DEF TypeOK
    <2>2. CASE entries[r] # None
      BY <1>1, <1>3, <1>4, <2>2 DEF TypeOK
    <2>. QED
      BY <2>1, <2>2
  <1>9. TypeOK'
    <2>1. refs' \in [Entries -> Nat]
      BY <1>1, <1>3, <1>4, <1>7 DEF TypeOK
    <2>. QED
      BY <1>1, <1>2, <1>3, <1>4, <2>1 DEF TypeOK
  <1>10. Counted'
    <2>1. \A d \in Entries : d # e => refs'[d] = refs[d]
      BY <1>1, <1>3 DEF TypeOK
    <2>. QED
      BY <1>6, <1>7, <1>8, <2>1 DEF Inv, Counted
  <1>11. CallInv'
    <2>. SUFFICES ASSUME NEW d \in Callers
                  PROVE  IF pc'[d] = "idle" THEN ref'[d] = None /\ ent'[d] = None
                         ELSE ref'[d] \in Refs /\ ent'[d] \in Entries
                                /\ entries'[ref'[d]] = ent'[d]
      BY DEF CallInv
    <2>1. CASE d = c
      BY <1>1, <1>2, <1>3, <1>4, <2>1 DEF TypeOK
    <2>2. CASE d # c
      <3>1. pc'[d] = pc[d] /\ ref'[d] = ref[d] /\ ent'[d] = ent[d]
        BY <1>1, <1>2, <1>3, <2>2 DEF TypeOK
      <3>2. CallInv
        BY DEF Inv
      <3>3. pc[d] # "idle" => entries'[ref[d]] = entries[ref[d]]
        BY <1>1, <1>3, <1>4, <1>5, <3>2, CacheLocksAssumption DEF TypeOK, CallInv
      <3>. QED
        BY <3>1, <3>2, <3>3 DEF CallInv
    <2>. QED
      BY <2>1, <2>2
  <1>12. MapInv'
    <2>1. MapInv /\ CallInv
      BY DEF Inv
    <2>2. \A q \in Refs : q # r => entries'[q] = entries[q] /\ entries[q] # e
      BY <1>1, <1>3, <1>4, <1>5, <2>1 DEF TypeOK, MapInv, Free
    <2>3. entries'[r] = e
      BY <1>1, <1>3 DEF TypeOK
    <2>4. \A r1, r2 \in Refs : entries'[r1] = entries'[r2] /\ entries'[r1] # None => r1 = r2
      BY <2>1, <2>2, <2>3 DEF MapInv
    <2>5. c \in UsersOf(ent', e)
      BY <1>1, <1>3, <1>4 DEF UsersOf, TypeOK
    <2>6. \A q \in Refs : entries'[q] # None => UsersOf(ent', entries'[q]) # {}
      <3>. SUFFICES ASSUME NEW q \in Refs, entries'[q] # None
                    PROVE  UsersOf(ent', entries'[q]) # {}
        OBVIOUS
      <3>1. CASE q = r
        BY <2>3, <2>5, <3>1
      <3>2. CASE q # r
        <4>1. entries'[q] = entries[q] /\ entries[q] \in Entries /\ entries[q] # e
          BY <1>3, <2>2, <3>2 DEF TypeOK
        <4>2. UsersOf(ent, entries[q]) # {}
          BY <2>1, <4>1 DEF MapInv
        <4>3. \A d \in Callers : ent[d] = entries[q] => ent'[d] = entries[q]
          BY <1>1, <1>2, <1>3, <1>4, <4>1, CacheLocksAssumption DEF TypeOK
        <4>. QED
          BY <4>1, <4>2, <4>3 DEF UsersOf
      <3>. QED
        BY <3>1, <3>2
    <2>. QED
      BY <2>4, <2>6 DEF MapInv
  <1>13. TokenInv'
    <2>1. \A d \in Callers : Holder(d)' => Holder(d) /\ ent'[d] = ent[d]
      BY <1>1, <1>2, <1>3 DEF Holder, TypeOK
    <2>. QED
      BY <1>2, <2>1 DEF Inv, TokenInv
  <1>. QED
    BY <1>9, <1>10, <1>11, <1>12, <1>13 DEF Inv

LEMMA LeaveInv ==
  ASSUME Inv, NEW c \in Callers, NEW owned \in BOOLEAN, pc[c] # "idle",
         Holder(c) => owned, owned => Holder(c), Drop(c, owned), Return(c)
  PROVE  Inv'
  <1>. DEFINE e == ent[c]
              r == ref[c]
  <1>1. TypeOK /\ CallInv /\ MapInv /\ Counted /\ TokenInv
    BY DEF Inv
  <1>2. e \in Entries /\ r \in Refs /\ entries[r] = e /\ e # None
    BY <1>1, CacheLocksAssumption DEF CallInv
  <1>3. /\ pc' = [pc EXCEPT ![c] = "idle"] /\ ref' = [ref EXCEPT ![c] = None]
        /\ ent' = [ent EXCEPT ![c] = None] /\ done' = done \ {c}
        /\ refs' = [refs EXCEPT ![e] = refs[e] - 1]
        /\ held' = IF owned THEN held \ {e} ELSE held
        /\ entries' = IF refs[e] = 1 THEN [entries EXCEPT ![r] = None] ELSE entries
    BY DEF Drop, Return
  <1>4. /\ UsersOf(ent', e) = UsersOf(ent, e) \ {c}
        /\ Cardinality(UsersOf(ent, e) \ {c}) = Cardinality(UsersOf(ent, e)) - 1
        /\ \A d \in Entries : d # e => UsersOf(ent', d) = UsersOf(ent, d)
    BY <1>1, <1>2, <1>3, UserRemoved DEF TypeOK
  <1>5. refs[e] = 1 <=> UsersOf(ent, e) \ {c} = {}
    BY LastUser
  <1>6. refs[e] = Cardinality(UsersOf(ent, e)) /\ Cardinality(UsersOf(ent, e) \ {c}) \in Nat
    <2>1. IsFiniteSet(UsersOf(ent, e) \ {c})
      BY UsersFinite, FS_RemoveElement
    <2>. QED
      BY <1>1, <1>2, <2>1, FS_CardinalityType DEF Counted
  <1>. HIDE DEF e, r
  <1>7. TypeOK'
    <2>1. refs' \in [Entries -> Nat]
      BY <1>1, <1>2, <1>3, <1>4, <1>6 DEF TypeOK
    <2>. QED
      BY <1>1, <1>2, <1>3, <2>1 DEF TypeOK
  <1>8. Counted'
    <2>1. \A d \in Entries : refs'[d] = IF d = e THEN refs[e] - 1 ELSE refs[d]
      BY <1>1, <1>2, <1>3 DEF TypeOK
    <2>. QED
      BY <1>1, <1>4, <1>6, <2>1 DEF Counted
  <1>9. \A d \in Callers : d # c => pc'[d] = pc[d] /\ ref'[d] = ref[d] /\ ent'[d] = ent[d]
    BY <1>1, <1>3 DEF TypeOK
  <1>10. pc'[c] = "idle" /\ ref'[c] = None /\ ent'[c] = None
    BY <1>1, <1>3 DEF TypeOK
  <1>11. CallInv'
    <2>. SUFFICES ASSUME NEW d \in Callers, d # c, pc[d] # "idle"
                  PROVE  entries'[ref[d]] = ent[d]
      BY <1>1, <1>9, <1>10 DEF CallInv
    <2>1. ref[d] \in Refs /\ ent[d] \in Entries /\ entries[ref[d]] = ent[d]
      BY <1>1 DEF CallInv
    <2>2. CASE refs[e] = 1 /\ ref[d] = r
      <3>1. d \in UsersOf(ent, e) \ {c}
        BY <1>2, <2>1, <2>2 DEF UsersOf
      <3>. QED
        BY <1>5, <2>2, <3>1
    <2>3. CASE ~(refs[e] = 1 /\ ref[d] = r)
      BY <1>1, <1>3, <2>1, <2>3 DEF TypeOK
    <2>. QED
      BY <2>2, <2>3
  <1>12. MapInv'
    <2>1. \A q \in Refs : entries'[q] = entries[q] \/ entries'[q] = None
      BY <1>1, <1>3 DEF TypeOK
    <2>2. \A r1, r2 \in Refs : entries'[r1] = entries'[r2] /\ entries'[r1] # None => r1 = r2
      BY <1>1, <2>1 DEF MapInv
    <2>3. \A q \in Refs : entries'[q] # None => UsersOf(ent', entries'[q]) # {}
      <3>. SUFFICES ASSUME NEW q \in Refs, entries'[q] # None
                    PROVE  UsersOf(ent', entries'[q]) # {}
        OBVIOUS
      <3>1. entries'[q] = entries[q] /\ entries[q] \in Entries /\ UsersOf(ent, entries[q]) # {}
        BY <1>1, <2>1 DEF TypeOK, MapInv
      <3>2. CASE entries[q] = e
        <4>1. q = r
          BY <1>1, <1>2, <3>2 DEF MapInv
        <4>2. refs[e] # 1
          BY <1>1, <1>2, <1>3, <4>1 DEF TypeOK
        <4>3. PICK d \in Callers : ent[d] = e /\ d # c
          BY <1>5, <4>2 DEF UsersOf
        <4>. QED
          BY <1>9, <3>1, <3>2, <4>3 DEF UsersOf
      <3>3. CASE entries[q] # e
        <4>1. PICK d \in Callers : ent[d] = entries[q]
          BY <3>1 DEF UsersOf
        <4>2. d # c
          BY <3>3, <4>1 DEF e
        <4>. QED
          BY <1>9, <3>1, <4>1, <4>2 DEF UsersOf
      <3>. QED
        BY <3>2, <3>3
    <2>. QED
      BY <2>2, <2>3 DEF MapInv
  <1>13. TokenInv'
    <2>1. \A d \in Callers : Holder(d)' => d # c /\ Holder(d) /\ ent'[d] = ent[d]
      BY <1>9, <1>10 DEF Holder
    <2>2. \A d \in Callers : Holder(d)' => ent'[d] \in held'
      <3>. SUFFICES ASSUME NEW d \in Callers, Holder(d)'
                    PROVE  ent'[d] \in held'
        OBVIOUS
      <3>1. owned => ent[d] # e
        BY <1>1, <2>1 DEF TokenInv, e
      <3>. QED
        BY <1>1, <1>3, <2>1, <3>1 DEF TokenInv
    <2>. QED
      BY <1>1, <2>1, <2>2 DEF TokenInv
  <1>. QED
    BY <1>7, <1>8, <1>11, <1>12, <1>13 DEF Inv

LEMMA TakeInv ==
  ASSUME Inv, NEW c \in Callers, Take(c)
  PROVE  Inv'
  <1>1. /\ pc' = [pc EXCEPT ![c] = "took"] /\ held' = held \cup {ent[c]}
        /\ UNCHANGED <<entries, refs, ref, ent, done>>
        /\ pc[c] = "waiting" /\ ent[c] \notin held
    BY DEF Take
  <1>2. TypeOK /\ CallInv /\ MapInv /\ Counted /\ TokenInv
    BY DEF Inv
  <1>3. TypeOK'
    BY <1>1, <1>2 DEF TypeOK, CallInv
  <1>4. CallInv' /\ MapInv' /\ Counted'
    BY <1>1, <1>2 DEF TypeOK, CallInv, MapInv, Counted, UsersOf
  <1>5. TokenInv'
    <2>1. \A d \in Callers : Holder(d)' => d = c \/ Holder(d)
      BY <1>1, <1>2 DEF Holder, TypeOK
    <2>. QED
      BY <1>1, <1>2, <2>1 DEF TokenInv
  <1>. QED
    BY <1>3, <1>4, <1>5 DEF Inv

LEMMA NextInv ==
  ASSUME Inv, [Next]_vars
  PROVE  Inv'
  <1>1. ASSUME NEW c \in Callers, NEW r \in Refs, Acquire(c, r)
        PROVE  Inv'
    BY <1>1, AcquireInv
  <1>2. ASSUME NEW c \in Callers, Take(c)
        PROVE  Inv'
    BY <1>2, TakeInv
  <1>3. ASSUME NEW c \in Callers, GiveUp(c)
        PROVE  Inv'
    <2>1. pc[c] # "idle" /\ ~Holder(c) /\ Drop(c, FALSE) /\ Return(c)
      BY <1>3 DEF GiveUp, Holder
    <2>. QED
      BY <2>1, LeaveInv
  <1>4. ASSUME NEW c \in Callers, OwnTooLate(c) \/ Release(c)
        PROVE  Inv'
    <2>1. pc[c] # "idle" /\ Holder(c) /\ Drop(c, TRUE) /\ Return(c)
      BY <1>4 DEF OwnTooLate, Release, Holder
    <2>. QED
      BY <2>1, LeaveInv
  <1>5. ASSUME NEW c \in Callers, Own(c)
        PROVE  Inv'
    BY <1>5 DEF Own, Inv, TypeOK, CallInv, MapInv, Counted, TokenInv, UsersOf, Holder
  <1>6. ASSUME NEW c \in Callers, Cancel(c)
        PROVE  Inv'
    BY <1>6 DEF Cancel, Inv, TypeOK, CallInv, MapInv, Counted, TokenInv, UsersOf, Holder
  <1>7. CASE UNCHANGED vars
    BY <1>7 DEF vars, Inv, TypeOK, CallInv, MapInv, Counted, TokenInv, UsersOf, Holder
  <1>. QED
    BY <1>1, <1>2, <1>3, <1>4, <1>5, <1>6, <1>7 DEF Next

LEMMA InitInv ==
  ASSUME Init
  PROVE  Inv
  <1>1. \A e \in Entries : UsersOf(ent, e) = {}
    BY CacheLocksAssumption DEF Init, UsersOf
  <1>2. Counted
    BY <1>1, FS_EmptySet DEF Init, Counted
  <1>. QED
    BY <1>2 DEF Init, Inv, TypeOK, CallInv, MapInv, TokenInv, Holder

\* Every lock's count is that of its users, and who owns it has the map's entry.
THEOREM Invariance == Spec => []Inv
  BY InitInv, NextInv, PTL DEF Spec

-----------------------------------------------------------------------------
(* Theorems about the locks.                                               *)

\* The lock table and every call stay well typed; no count goes below zero.
THEOREM TypeCorrect == Spec => []TypeOK
  <1>1. Inv => TypeOK
    BY DEF Inv
  <1>. QED
    BY <1>1, Invariance, PTL

\* Materialize never runs twice at once for the same reference, however many
\* calls come, wait, are cancelled and leave.
THEOREM OneOwnerEver == Spec => []OneOwner
  <1>1. Inv => OneOwner
    BY DEF Inv, OneOwner, CallInv, TokenInv, Holder
  <1>. QED
    BY <1>1, Invariance, PTL

\* The map holds an entry exactly for the references that a call is using.
THEOREM NoLeakEver == Spec => []NoLeak
  <1>1. ASSUME Inv, NEW r \in Refs
        PROVE  entries[r] # None <=> \E c \in Callers : ref[c] = r
    <2>1. TypeOK /\ CallInv /\ MapInv
      BY <1>1 DEF Inv
    <2>2. ASSUME entries[r] # None
          PROVE  \E c \in Callers : ref[c] = r
      <3>1. PICK c \in Callers : ent[c] = entries[r]
        BY <2>1, <2>2 DEF MapInv, UsersOf
      <3>2. ref[c] \in Refs /\ entries[ref[c]] = entries[r]
        BY <2>1, <2>2, <3>1 DEF CallInv
      <3>. QED
        BY <2>1, <2>2, <3>2 DEF MapInv
    <2>3. ASSUME NEW c \in Callers, ref[c] = r
          PROVE  entries[r] # None
      BY <2>1, <2>3, CacheLocksAssumption DEF CallInv
    <2>. QED
      BY <2>2, <2>3
  <1>2. Inv => NoLeak
    BY <1>1 DEF NoLeak
  <1>. QED
    BY <1>2, Invariance, PTL

-----------------------------------------------------------------------------
(* Materialize.                                                            *)

\* The comparison of verifyCache, layer by layer by path and hash, amounts to
\* the content of the source: no other file of the archive can stand for a layer.
LEMMA VerifiedIsSame ==
  ASSUME NEW i \in Ids, NEW source, Verified(Archive[i], source)
  PROVE  SameContent(Archive[i], source)
  <1>. DEFINE a == Archive[i]
  <1>1. a.config = source.config /\ Len(a.layers) = Len(source.config.diffs) /\ LayersVerified(a)
    BY DEF Verified
  <1>2. \A k \in DOMAIN a.files :
          a.files[k] = [path |-> a.files[k].path, regular |-> a.files[k].regular,
                        hash |-> a.files[k].hash] /\ a.files[k].regular \in BOOLEAN
    BY MaterializeAssumption
  <1>. HIDE DEF a
  <1>3. ASSUME NEW j \in DOMAIN a.layers
        PROVE  /\ \E k \in DOMAIN a.files :
                    a.files[k] = [path |-> a.layers[j], regular |-> TRUE, hash |-> source.config.diffs[j]]
               /\ \A k, l \in DOMAIN a.files :
                    a.files[k].path = a.layers[j] /\ a.files[l].path = a.layers[j] => k = l
    <2>. DEFINE Files == {k \in DOMAIN a.files : a.files[k].path = a.layers[j]}
    <2>1. PICK k \in Files : /\ Files = {k} /\ a.files[k].regular
                             /\ a.files[k].hash = source.config.diffs[j]
      BY <1>1 DEF LayersVerified
    <2>2. k \in DOMAIN a.files /\ a.files[k].path = a.layers[j] /\ a.files[k].regular = TRUE
      BY <1>2, <2>1
    <2>3. a.files[k] = [path |-> a.layers[j], regular |-> TRUE, hash |-> source.config.diffs[j]]
      BY <1>2, <2>1, <2>2
    <2>4. \A l \in DOMAIN a.files : a.files[l].path = a.layers[j] => l = k
      BY <2>1
    <2>. QED
      BY <2>2, <2>3, <2>4
  <1>. QED
    BY <1>1, <1>3 DEF SameContent, a

\* Every step of Materialize is a step of the locks, or leaves them alone.
LEMMA LocksSimulated ==
  ASSUME [MNext]_allVars
  PROVE  [Next]_vars
  <1>1. ASSUME NEW c \in Callers, Ask(c) \/ Waits(c) \/ Begin(c) \/ Finish(c)
        PROVE  Next
    BY <1>1 DEF Ask, Waits, Begin, Finish, Next
  <1>2. ASSUME NEW c \in Callers, Works(c) \/ Create(c)
        PROVE  UNCHANGED vars
    BY <1>2 DEF Works, Inspect, Load, InspectAgain, Save, Fail, Create
  <1>3. CASE Retag
    BY <1>3 DEF Retag
  <1>4. CASE UNCHANGED allVars
    BY <1>4 DEF allVars
  <1>. QED
    BY <1>1, <1>2, <1>3, <1>4 DEF MNext

\* Materialize uses its locks as CacheLocks says: what is promised of the locks
\* holds of them while Docker is asked, images are loaded and tags move.
THEOREM UsesLocks == MSpec => Spec
  <1>1. MInit => Init
    BY DEF MInit
  <1>. QED
    BY <1>1, LocksSimulated, PTL DEF MSpec, Spec

-----------------------------------------------------------------------------

Owning == {"inspect", "load", "again", "save", "end"}

WorkTypes ==
  /\ tag \in [Refs -> Ids \cup {None}]
  /\ step \in [Callers -> Owning \cup {"none", "create"}]
  /\ id \in [Callers -> Ids \cup {None}]
  /\ want \in [Callers -> Refs \cup {None}]

\* Who works has the lock of the reference that the sandbox is wanted of; what
\* he ends with has the content of that reference's source.
Working ==
  \A c \in Callers :
    /\ pc[c] = "owner" <=> step[c] \in Owning
    /\ pc[c] # "idle" => want[c] = ref[c] /\ step[c] # "create"
    /\ step[c] = "save" => id[c] # None
    /\ step[c] \in {"end", "create"} /\ id[c] # None =>
         want[c] \in Refs /\ SameContent(Archive[id[c]], Source[want[c]])
    /\ step[c] = "create" => id[c] # None

WInv == WorkTypes /\ Working /\ SandboxHasSource

LEMMA WInit ==
  ASSUME MInit
  PROVE  WInv
  BY DEF MInit, Init, WInv, WorkTypes, Working, SandboxHasSource, Owning

\* The steps of the lock.
LEMMA WLocks ==
  ASSUME Inv, WInv, NEW c \in Callers, Ask(c) \/ Waits(c) \/ Begin(c) \/ Finish(c)
  PROVE  WInv'
  <1>. USE DEF WInv, WorkTypes, Working, Owning, Inv, TypeOK, CallInv
  <1>1. CASE Ask(c)
    <2>1. PICK r \in Refs : Acquire(c, r) /\ want' = [want EXCEPT ![c] = r]
      BY <1>1 DEF Ask
    <2>2. /\ step[c] = "none" /\ UNCHANGED <<tag, step, id, boxes>>
          /\ pc' = [pc EXCEPT ![c] = "waiting"] /\ ref' = [ref EXCEPT ![c] = r]
      BY <1>1, <2>1 DEF Ask, Acquire
    <2>3. Working'
      BY <2>1, <2>2
    <2>. QED
      BY <2>1, <2>2, <2>3 DEF SandboxHasSource
  <1>2. CASE Waits(c)
    <2>1. UNCHANGED <<tag, step, id, want, boxes>>
      BY <1>2 DEF Waits, work
    <2>2. \/ pc[c] \in {"waiting", "took"} /\ pc' = [pc EXCEPT ![c] = "idle"]
                 /\ ref' = [ref EXCEPT ![c] = None]
          \/ pc[c] = "waiting" /\ pc' = [pc EXCEPT ![c] = "took"] /\ ref' = ref
          \/ pc' = pc /\ ref' = ref
      BY <1>2 DEF Waits, Take, GiveUp, OwnTooLate, Cancel, Return
    <2>3. Working'
      BY <2>1, <2>2
    <2>. QED
      BY <2>1, <2>3 DEF SandboxHasSource
  <1>3. CASE Begin(c)
    <2>1. /\ pc[c] = "took" /\ pc' = [pc EXCEPT ![c] = "owner"] /\ UNCHANGED <<ref, tag, want, boxes>>
          /\ step' = [step EXCEPT ![c] = "inspect"] /\ id' = [id EXCEPT ![c] = None]
      BY <1>3 DEF Begin, Own, To
    <2>2. Working'
      BY <2>1
    <2>. QED
      BY <2>1, <2>2 DEF SandboxHasSource
  <1>4. CASE Finish(c)
    <2>1. /\ step[c] = "end" /\ pc[c] = "owner" /\ pc' = [pc EXCEPT ![c] = "idle"]
          /\ ref' = [ref EXCEPT ![c] = None] /\ UNCHANGED <<tag, want, boxes>>
          /\ step' = [step EXCEPT ![c] = IF id[c] = None THEN "none" ELSE "create"]
          /\ id' = [id EXCEPT ![c] = id[c]]
      BY <1>4 DEF Finish, Release, Return, To
    <2>2. Working'
      BY <2>1
    <2>. QED
      BY <2>1, <2>2 DEF SandboxHasSource
  <1>. QED
    BY <1>1, <1>2, <1>3, <1>4

\* The calls of Docker.
LEMMA WWorks ==
  ASSUME Inv, WInv, NEW c \in Callers, Works(c)
  PROVE  WInv'
  <1>. USE DEF WInv, WorkTypes, Working, Owning
  <1>1. pc[c] = "owner" /\ ref[c] \in Refs /\ want[c] = ref[c]
    BY DEF Works, Inspect, Load, InspectAgain, Save, Fail, At, Inv, CallInv
  <1>2. pc' = pc /\ ref' = ref /\ want' = want /\ boxes' = boxes
    BY DEF Works, Inspect, Load, InspectAgain, Save, Fail, vars
  <1>3. tag' \in [Refs -> Ids \cup {None}]
    BY DEF Works, Inspect, Load, InspectAgain, Save, Fail
  <1>4. \E s \in Owning, i \in Ids \cup {None} :
          /\ step' = [step EXCEPT ![c] = s] /\ id' = [id EXCEPT ![c] = i]
          /\ s = "save" => i # None
          /\ s = "end" /\ i # None => SameContent(Archive[i], Source[want[c]])
    <2>1. CASE Inspect(c)
      BY <1>1, <2>1 DEF Inspect, To
    <2>2. CASE Load(c)
      BY <1>1, <2>2 DEF Load, To
    <2>3. CASE InspectAgain(c)
      BY <1>1, <2>3 DEF InspectAgain, To
    <2>4. CASE Save(c)
      <3>1. id[c] \in Ids /\ Verified(Archive[id[c]], Source[want[c]])
        BY <1>1, <2>4 DEF Save, At
      <3>2. SameContent(Archive[id[c]], Source[want[c]])
        BY <3>1, VerifiedIsSame
      <3>. QED
        BY <2>4, <3>1, <3>2 DEF Save, To
    <2>5. CASE Fail(c)
      BY <2>5 DEF Fail, To
    <2>. QED
      BY <2>1, <2>2, <2>3, <2>4, <2>5 DEF Works
  <1>5. WorkTypes' /\ Working'
    BY <1>1, <1>2, <1>3, <1>4
  <1>. QED
    BY <1>2, <1>5 DEF SandboxHasSource

LEMMA WNext ==
  ASSUME Inv, WInv, [MNext]_allVars
  PROVE  WInv'
  <1>1. ASSUME NEW c \in Callers, Create(c)
        PROVE  WInv'
    <2>1. /\ step[c] = "create" /\ pc[c] = "idle" /\ pc' = pc /\ ref' = ref /\ tag' = tag /\ want' = want
          /\ step' = [step EXCEPT ![c] = "none"] /\ id' = [id EXCEPT ![c] = None]
          /\ boxes' \in {boxes, boxes \cup {<<want[c], id[c]>>}}
      BY <1>1 DEF Create, To, vars
    <2>2. SameContent(Archive[id[c]], Source[want[c]])
      BY <2>1 DEF WInv, Working
    <2>3. SandboxHasSource'
      BY <2>1, <2>2 DEF WInv, SandboxHasSource
    <2>4. WorkTypes' /\ Working'
      BY <2>1 DEF WInv, WorkTypes, Working, Owning
    <2>. QED
      BY <2>3, <2>4 DEF WInv
  <1>2. CASE Retag
    BY <1>2 DEF Retag, WInv, WorkTypes, Working, SandboxHasSource, vars
  <1>3. CASE UNCHANGED allVars
    BY <1>3 DEF allVars, work, vars, WInv, WorkTypes, Working, SandboxHasSource
  <1>. QED
    BY <1>1, <1>2, <1>3, WLocks, WWorks DEF MNext

\* No sandbox is ever created of an image without the content of its source,
\* whoever moves or removes the tag meanwhile, whatever Docker makes of the
\* loaded archive, and whatever else its export contains.
THEOREM SandboxHasSourceEver == MSpec => []SandboxHasSource
  <1>1. MSpec => []Inv
    BY UsesLocks, Invariance, PTL
  <1>2. MInit => WInv
    BY WInit
  <1>3. Inv /\ WInv /\ [MNext]_allVars => WInv'
    BY WNext
  <1>4. WInv => SandboxHasSource
    BY DEF WInv
  <1>. QED
    BY <1>1, <1>2, <1>3, <1>4, PTL DEF MSpec
=============================================================================
