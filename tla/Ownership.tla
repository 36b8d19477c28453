------------------------------ MODULE Ownership ------------------------------
(***************************************************************************)
(* The durable half of opensbx: the sandbox rows and the operation intents *)
(* of the SQLite database (internal/database).  Every transaction of       *)
(* operations.go that the runtime clients use is one action here; a failed *)
(* transaction changes nothing.                                            *)
(*                                                                         *)
(* A creation attempt chooses a fresh public ID and a fresh ownership      *)
(* token, and the runtime answers with a fresh native ID, so one element   *)
(* of Sandboxes stands for all three.  Deadlines are absolute in the code; *)
(* the model stores the time left, which Lifecycle!Tick counts down.       *)
(***************************************************************************)
EXTENDS Integers, FiniteSets

CONSTANTS
  Sandboxes,      \* creation attempts; each is used for one sandbox only
  MaxOps,         \* bound: operation IDs that are referenced at one moment
  MaxTtl          \* bound: longest timeout, in ticks

ASSUME OwnershipAssumption ==
  /\ MaxOps \in Nat \ {0}
  /\ MaxTtl \in Nat \ {0}

VARIABLES
  owned,          \* sandboxes that have a row
  deadline,       \* expires_at of the row: ticks left, 0 when overdue
  ops             \* pending operation intents

dbVars == <<owned, deadline, ops>>

NoDeadline == -1
Deadlines == {NoDeadline} \cup (0 .. MaxTtl)
OpIds == 1 .. MaxOps
Kinds == {"create", "start", "restart", "stop", "delete"}

\* native: whether BindCreation has recorded the container's ID in the intent.
Operations == [id : OpIds, kind : Kinds, s : Sandboxes, native : BOOLEAN,
               dl : Deadlines]

DbTypeOK ==
  /\ owned \subseteq Sandboxes
  /\ deadline \in [Sandboxes -> Deadlines]
  /\ ops \subseteq Operations

DbInit ==
  /\ owned = {}
  /\ deadline = [s \in Sandboxes |-> NoDeadline]
  /\ ops = {}

-----------------------------------------------------------------------------
(* Reads.                                                                  *)

\* Defect: matches by native ID alone, so an unbound creation is not seen.
PendingByNativeID(s) == {o \in ops : o.s = s /\ o.native}

\* Matches native ID, public ID or token, so an intent whose native ID was
\* never bound is found too.
Pending(s) == {o \in ops : o.s = s}

FindOperation(id) == {o \in ops : o.id = id}

RequireIdle(s) == s \in owned /\ Pending(s) = {}

\* The intent refers to a row of its own attempt; a creation may have none.
ValidOperation(o) == o.kind = "create" \/ o.s \in owned

-----------------------------------------------------------------------------
(* Transactions.                                                           *)

BeginCreate(s, id, dl) ==
  /\ s \notin owned
  /\ Pending(s) = {}
  /\ ops' = ops \cup
       {[id |-> id, kind |-> "create", s |-> s, native |-> FALSE, dl |-> dl]}
  /\ UNCHANGED <<owned, deadline>>

\* A delete takes over a pending creation, a repeated stop or delete resumes
\* the pending one; every other pending intent refuses the request.
Resumable(kind, o) ==
  \/ kind = "delete" /\ o.kind \in {"create", "delete"}
  \/ kind = "stop" /\ o.kind = "stop"

\* Defect: the pending intent is not looked up.
BegunRegardless(s, kind, id, dl) ==
  IF s \notin owned THEN {}
  ELSE {[id |-> id, kind |-> kind, s |-> s, native |-> TRUE, dl |-> dl]}

\* The intents a request may continue with: none when it is refused.
Begun(s, kind, id, dl) ==
  IF s \notin owned THEN {}
  ELSE IF Pending(s) = {}
       THEN {[id |-> id, kind |-> kind, s |-> s, native |-> TRUE, dl |-> dl]}
       ELSE {[o EXCEPT !.kind = kind, !.native = TRUE] :
               o \in {p \in Pending(s) : Resumable(kind, p)}}

BeginOperation(op) ==
  /\ ops' = {o \in ops : o.id # op.id} \cup {op}
  /\ UNCHANGED <<owned, deadline>>

BindCreation(id) ==
  /\ ops' = {IF o.id = id THEN [o EXCEPT !.native = TRUE] ELSE o : o \in ops}
  /\ UNCHANGED <<owned, deadline>>

\* Insert-only: a second row for the same public ID is an error.
CreateOwnership(s, dl) ==
  /\ s \notin owned
  /\ owned' = owned \cup {s}
  /\ deadline' = [deadline EXCEPT ![s] = dl]
  /\ UNCHANGED ops

\* The creation always awaits adoption (runtimeio.Adapter.Create), so the
\* intent stays beside the new row.
CommitCreation(s, dl) == CreateOwnership(s, dl)

CompleteOperation(s, id, dl) ==
  /\ s \in owned
  /\ FindOperation(id) # {}
  /\ deadline' = [deadline EXCEPT ![s] = dl]
  /\ ops' = {o \in ops : o.id # id}
  /\ UNCHANGED owned

\* Defect: the row is deleted and its intent is kept.
DeleteRowOnly(s, id) ==
  /\ owned' = owned \ {s}
  /\ deadline' = [deadline EXCEPT ![s] = NoDeadline]
  /\ UNCHANGED ops

\* Row, command history and intent go together; there may be no row.
DeleteOperation(s, id) ==
  /\ owned' = owned \ {s}
  /\ deadline' = [deadline EXCEPT ![s] = NoDeadline]
  /\ ops' = {o \in ops : o.id # id}

SetDeadline(s, dl) ==
  /\ RequireIdle(s)
  /\ deadline' = [deadline EXCEPT ![s] = dl]
  /\ UNCHANGED <<owned, ops>>

\* UpdateProvenance(row, adopt = true): retires the creation intent.
CanAdopt(s) == s \in owned /\ \A o \in Pending(s) : o.kind = "create"

\* Defect: the ports are stored and the creation intent stays.
StoreProvenance(s) == CanAdopt(s) /\ UNCHANGED dbVars

AdoptProvenance(s) ==
  /\ CanAdopt(s)
  /\ ops' = {o \in ops : ~(o.s = s /\ o.kind = "create")}
  /\ UNCHANGED <<owned, deadline>>

-----------------------------------------------------------------------------
(* What the transactions keep true together (runs of Lifecycle check it).  *)

\* BeginOperation never lets a second intent start beside a pending one: a lost
\* start and a later stop of the same sandbox are never both outstanding.
OneIntent ==
  \A o1, o2 \in ops : o1.s = o2.s \/ o1.id = o2.id => o1 = o2

\* Recover aborts the server's start on an intent without its row; no crash or
\* failed step leaves the database in such a state.
StartupNeverWedged == \A o \in ops : ValidOperation(o)
=============================================================================
