------------------------------ MODULE CacheLocks ------------------------------
(***************************************************************************)
(* The locks by image reference that serialise Client.Materialize          *)
(* (internal/docker/cache_lock.go, cache.go).  A lock is an entry that     *)
(* exists while somebody owns it or waits for it; the map and the counts   *)
(* are guarded by a mutex, the ownership is a token in a channel.  An      *)
(* entry is an object: once nothing refers to it, its identity is free.    *)
(***************************************************************************)
EXTENDS Integers, FiniteSets

CONSTANTS
  Callers,        \* concurrent calls of Materialize
  Refs,           \* image references
  Entries,        \* identities of cacheLockEntry objects
  None            \* no entry, no reference

ASSUME CacheLocksAssumption ==
  /\ IsFiniteSet(Callers)
  /\ None \notin Entries /\ None \notin Refs

VARIABLES
  entries,        \* cacheLocks.entries
  held,           \* the entries whose channel holds the token
  refs,           \* cacheLockEntry.refs
  pc,             \* where each call is: "idle", "waiting", "took", "owner"
  ref,            \* the reference it asked for
  ent,            \* the entry it looked up
  done            \* the calls whose context has ended

vars == <<entries, held, refs, pc, ref, ent, done>>

Free(e) == (\A r \in Refs : entries[r] # e) /\ (\A c \in Callers : ent[c] # e)

\* The entry of a reference, or one that the map is given now.
Lookup(r) == IF entries[r] # None THEN {entries[r]} ELSE {e \in Entries : Free(e)}

\* Defect: only the owner is counted, not who waits.
AcquireUncounted(c, r) ==
  /\ pc[c] = "idle"
  /\ \E e \in Lookup(r) :
       /\ entries' = [entries EXCEPT ![r] = e]
       /\ refs' = [refs EXCEPT ![e] = 1]
       /\ ent' = [ent EXCEPT ![c] = e]
  /\ ref' = [ref EXCEPT ![c] = r]
  /\ pc' = [pc EXCEPT ![c] = "waiting"]
  /\ UNCHANGED <<held, done>>

\* Register under the mutex.  (A call whose context has ended returns before.)
Acquire(c, r) ==
  /\ pc[c] = "idle"
  /\ \E e \in Lookup(r) :
       /\ entries' = [entries EXCEPT ![r] = e]
       /\ refs' = [refs EXCEPT ![e] = IF entries[r] = None THEN 1 ELSE @ + 1]
       /\ ent' = [ent EXCEPT ![c] = e]
  /\ ref' = [ref EXCEPT ![c] = r]
  /\ pc' = [pc EXCEPT ![c] = "waiting"]
  /\ UNCHANGED <<held, done>>

\* The first case of the select: the token goes into the channel.
Take(c) ==
  /\ pc[c] = "waiting" /\ ent[c] \notin held
  /\ held' = held \cup {ent[c]}
  /\ pc' = [pc EXCEPT ![c] = "took"]
  /\ UNCHANGED <<entries, refs, ref, ent, done>>

\* Defect: an owner deletes the entry although others have looked it up.
DropRegardless(c, owned) ==
  /\ owned => ent[c] \in held
  /\ held' = IF owned THEN held \ {ent[c]} ELSE held
  /\ refs' = [refs EXCEPT ![ent[c]] = @ - 1]
  /\ entries' = IF owned THEN [entries EXCEPT ![ref[c]] = None] ELSE entries

\* drop, under the mutex: the last one deletes the entry.  Receiving from an
\* empty channel would block.
Drop(c, owned) ==
  /\ owned => ent[c] \in held
  /\ held' = IF owned THEN held \ {ent[c]} ELSE held
  /\ refs' = [refs EXCEPT ![ent[c]] = @ - 1]
  /\ entries' = IF refs[ent[c]] = 1 THEN [entries EXCEPT ![ref[c]] = None] ELSE entries

Return(c) ==
  /\ pc' = [pc EXCEPT ![c] = "idle"]
  /\ ref' = [ref EXCEPT ![c] = None]
  /\ ent' = [ent EXCEPT ![c] = None]
  /\ done' = done \ {c}

\* Defect: a cancelled call returns without its registration being undone.
GiveUpQuietly(c) ==
  /\ pc[c] = "waiting" /\ c \in done
  /\ Return(c)
  /\ UNCHANGED <<entries, held, refs>>

\* The second case of the select.
GiveUp(c) ==
  /\ pc[c] = "waiting" /\ c \in done
  /\ Drop(c, FALSE) /\ Return(c)

\* The context is looked at once more after the token was taken.
Own(c) ==
  /\ pc[c] = "took" /\ c \notin done
  /\ pc' = [pc EXCEPT ![c] = "owner"]
  /\ UNCHANGED <<entries, held, refs, ref, ent, done>>

\* Defect: the token that a cancelled call has taken stays in the channel.
OwnTooLateQuietly(c) ==
  /\ pc[c] = "took" /\ c \in done
  /\ Drop(c, FALSE) /\ Return(c)

OwnTooLate(c) ==
  /\ pc[c] = "took" /\ c \in done
  /\ Drop(c, TRUE) /\ Return(c)

\* Materialize returns, on whatever path.
Release(c) ==
  /\ pc[c] = "owner"
  /\ Drop(c, TRUE) /\ Return(c)

\* The client goes away, or its time is up.
Cancel(c) ==
  /\ pc[c] # "idle" /\ c \notin done
  /\ done' = done \cup {c}
  /\ UNCHANGED <<entries, held, refs, pc, ref, ent>>

-----------------------------------------------------------------------------

Init ==
  /\ entries = [r \in Refs |-> None]
  /\ held = {}
  /\ refs = [e \in Entries |-> 0]
  /\ pc = [c \in Callers |-> "idle"]
  /\ ref = [c \in Callers |-> None]
  /\ ent = [c \in Callers |-> None]
  /\ done = {}

Next ==
  \E c \in Callers :
    \/ \E r \in Refs : Acquire(c, r)
    \/ Take(c) \/ GiveUp(c) \/ Own(c) \/ OwnTooLate(c) \/ Release(c) \/ Cancel(c)

Spec == Init /\ [][Next]_vars

\* A channel serves its blocked senders in their order, so who waits for a
\* token that keeps coming back gets it.  Materialize returns in the end: its
\* calls of Docker run under its context.
Fairness ==
  \A c \in Callers : /\ SF_vars(Take(c))
                     /\ WF_vars(Own(c)) /\ WF_vars(OwnTooLate(c)) /\ WF_vars(Release(c))

FairSpec == Spec /\ Fairness

-----------------------------------------------------------------------------
(* Properties.                                                             *)

TypeOK ==
  /\ entries \in [Refs -> Entries \cup {None}]
  /\ held \subseteq Entries
  /\ refs \in [Entries -> Nat]
  /\ pc \in [Callers -> {"idle", "waiting", "took", "owner"}]
  /\ ref \in [Callers -> Refs \cup {None}]
  /\ ent \in [Callers -> Entries \cup {None}]
  /\ done \subseteq Callers

\* Two calls never materialise the same reference at once, although the lock of
\* a reference is deleted and made anew while calls come, wait and give up.
OneOwner ==
  \A c1, c2 \in Callers :
    pc[c1] = "owner" /\ pc[c2] = "owner" /\ ref[c1] = ref[c2] => c1 = c2

\* The map holds the locks somebody owns or waits for, and no others: it does
\* not grow with the references that were ever used.
NoLeak ==
  \A r \in Refs : entries[r] # None <=> \E c \in Callers : ref[c] = r

\* Cancellation never keeps a lock: every waiting call is served or gives up,
\* however its own and the others' cancellations race with the token.
WaiterServed == \A c \in Callers : (pc[c] = "waiting") ~> (pc[c] # "waiting")
=============================================================================
